SPECIFICATION FairSpec
CONSTANTS
  Thread = {t1, t2}
  Heartbeat = NoThread
  MaxCid = 0
  MaxCalls = 1
  Kind = {"plain", "log"}
  Fault = {"late", "kill", "writeFails", "interrupt"}
  CloseUnder = {"idle", "wait"}
CHECK_DEADLOCK FALSE
INVARIANT CommandsAllocated
PROPERTY CallReturns
PROPERTY CloseEnds
