SPECIFICATION FairSpec
CONSTANTS
  App = {a1, a2}
  Reader = {r1}
  RemoveFault = FALSE
CHECK_DEADLOCK FALSE
INVARIANT IInv
INVARIANT NoRefAtDelete
PROPERTY NoNewRefs
PROPERTY RemoveFinishes
