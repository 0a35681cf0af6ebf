SPECIFICATION Spec
CONSTANTS
  Thread = {t1, t2}
  Heartbeat = NoThread
  MaxCid = 1
  MaxCalls = 2
  Kind = {"plain", "log", "data"}
  Fault = {"writeFails"}
  CloseUnder = {"idle"}
CHECK_DEADLOCK FALSE
SYMMETRY Symmetry
INVARIANT TypeOK
INVARIANT CidsUnique
INVARIANT OwnAnswer
INVARIANT PageStaysWithRequest
