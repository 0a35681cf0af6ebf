SPECIFICATION FairSpec
CONSTANTS
  Thread = {t1, t2}
  Heartbeat = t2
  MaxCid = 1
  MaxCalls = 1
  Kind = {"fpt", "plain"}
  Fault = {"late", "writeFails"}
  CloseUnder = {}
PROPERTY CallReturns
