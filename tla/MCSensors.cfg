SPECIFICATION FairSpec
CONSTANTS
  NumSensors = 2
  PowerSensor = {1, 2}
  InTotal = {1, 2}
  Value <- MCValue
  Limit <- MCLimit
  NoLimit = NoLimit
  NumEntries = 1
  Request <- MCRequest
  MaxSweeps = 2
  MaxRequests = 1
  MaxChanges = 1
  NoTask = NoTask
CHECK_DEADLOCK FALSE
INVARIANT AnswerIsWhole
INVARIANT ThresholdCoversMax
PROPERTY TasksComeBack
