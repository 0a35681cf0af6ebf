SPECIFICATION Spec
CONSTANTS
  NumSlots = 2
  Word = 4
  MaxBoots = 2
  MaxOwed = 2
  MaxAttempts = 2
INVARIANT TypeOK
INVARIANT SessionRingsInOrder
INVARIANT NoResponseFromBeforeBoot
INVARIANT NoRequestFromBeforeBoot
