SPECIFICATION Spec
CONSTANTS
  NumSlots = 2
  Word = 4
  MaxBoots = 1
  MaxOwed = 2
  MaxAttempts = 2
PROPERTY AttachStartsFresh
