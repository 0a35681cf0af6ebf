SPECIFICATION Spec
CONSTANTS
  Thread = {t1, t2}
  Heartbeat = NoThread
  MaxCid = 1
  MaxCalls = 1
  Kind = {"log"}
  Fault = {"kill"}
  CloseUnder = {"idle", "page", "cid", "lock", "write", "unlock", "wait", "woken", "abort",
                "fetch", "freeCid", "freePage"}
CHECK_DEADLOCK FALSE
INVARIANT InstanceAlive
