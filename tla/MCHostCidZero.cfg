SPECIFICATION Spec
CONSTANTS
  Thread = {t1, t2, t3}
  Heartbeat = t3
  MaxCid = 2
  MaxCalls = 2
  Kind = {"log"}
  Fault = {"interrupt"}
  CloseUnder = {}
INVARIANT CidsUnique
