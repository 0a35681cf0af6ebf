SPECIFICATION FairSpec
CONSTANTS
  Inst <- MCFirst
  Kind <- MCKind
  TargetPec = FALSE
  TargetProto <- MCNoProto
  Starter <- MCFirst
  Command <- MCAllCommands
  MaxBytes = 8
  Depth = 8
  Low = 1
  Errors <- MCCommandErrors
  MaxTraffic = 0
  MaxCommands = 2
  NoInst = NoInst
CHECK_DEADLOCK FALSE
PROPERTY CommandIsWhole
PROPERTY AnsweredUnlessLost
