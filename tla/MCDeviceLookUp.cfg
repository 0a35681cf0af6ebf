SPECIFICATION Spec
CONSTANTS
  App = {}
  Reader = {r1}
  RemoveFault = FALSE
CHECK_DEADLOCK FALSE
INVARIANT NoLookUpAfterDelete
