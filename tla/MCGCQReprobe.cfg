SPECIFICATION ReprobeSpec
CONSTANTS
  NumSlots = 2
  Word = 4
  MaxBoots = 2
  MaxOwed = 2
  MaxAttempts = 2
PROPERTY RetryFindsFirmware
