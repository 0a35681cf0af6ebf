SPECIFICATION Spec
CONSTANTS
  Inst <- MCThree
  Kind <- MCKinds
  TargetPec = TRUE
  TargetProto <- MCTargetProto
  Starter <- MCFirst
  Command <- MCFew
  MaxBytes = 1
  Depth = 8
  Low = 1
  Errors <- MCTargetErrors
  MaxTraffic = 1
  MaxCommands = 2
  NoInst = NoInst
CHECK_DEADLOCK FALSE
INVARIANT TypeOK
INVARIANT NoCommandForgotten
INVARIANT SuccessMeansDone
PROPERTY WriteIsWhole
PROPERTY TargetsLeaveController
