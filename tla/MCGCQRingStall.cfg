SPECIFICATION FairSpec
CONSTANTS
  NumSlots = 4
  Word = 8
  Msg = {m1}
  Torn = Torn
PROPERTY EveryMessageReceived
