SPECIFICATION Spec
CONSTANTS
  Image = {"a", "b", "c"}
  Length <- MCLength
  Part <- MCPart
  DeviceOf <- MCDeviceOf
  IndexOf <- MCIndexOf
  Base <- MCBase
  Size <- MCSize
  Flag = {0, 1}
  Held <- MCHeld
  TableHeld <- MCTableHeld
  NewTable <- MCNewTable
  Request <- MCRequest
  Fault = {}
  MBoxSize = 2
  MaxCalls = 2
  MaxResets = 0
  NoImage = "none"
  None = None
CHECK_DEADLOCK FALSE
INVARIANT ReadsEntry
