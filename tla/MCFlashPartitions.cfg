SPECIFICATION FairSpec
CONSTANTS
  Image = {"a", "b", "c"}
  Length <- MCLength
  Part <- MCPart
  DeviceOf <- MCDeviceOf
  IndexOf <- MCIndexOf
  Base <- MCBase
  Size <- MCSize
  Flag = {0, 1}
  Held <- MCHeld
  TableHeld <- MCTableHeld
  NewTable <- MCNewTable
  Request <- MCRequest
  Fault = {"image", "entry", "loader", "table", "read"}
  MBoxSize = 1
  MaxCalls = 2
  MaxResets = 1
  NoImage = "none"
  None = None
INVARIANT TypeOK
INVARIANT BootableIsComplete
INVARIANT SuccessMeansDone
INVARIANT ReadsLoadedEntry
PROPERTY OnlyDestinationWritten
CHECK_DEADLOCK FALSE
PROPERTY OperationEnds
