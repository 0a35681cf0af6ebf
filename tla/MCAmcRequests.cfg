SPECIFICATION FairSpec
CONSTANTS
  Request = {r1, r2, r3}
  Opcode = {"sensor", "download", "bootSelect", "fptFlags"}
  RxDataSize = 2
  AmiMboxSize = 2
  ApcMboxSize = 1
  QueueSize = 1
  NoRequest = NoRequest
CHECK_DEADLOCK FALSE
INVARIANT TypeOK
INVARIANT SlotCarriedOnce
INVARIANT AnsweredOnce
PROPERTY EveryRequestSettled
