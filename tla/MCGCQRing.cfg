SPECIFICATION FairSpec
CONSTANTS
  NumSlots = 4
  Word = 8
  Msg = {m1, m2}
  Torn = Torn
INVARIANT IInv
INVARIANT NoSlotRace
INVARIANT NoTornRead
PROPERTY IsChannel
PROPERTY EveryMessageTaken
