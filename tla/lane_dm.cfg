SPECIFICATION Spec
CONSTANTS
  MaxMsg = 3
  Kinds <- DmKinds
  InTree = {2}
  Writers = 1
  IsTeam = FALSE
  BatchLimit = 2
  HistoryLimit = 1
  PoisonThreshold = 2
  InboxCap = 2
  RateMax = 1
  MaxCrashes = 0
  MaxFaults = 0
  MaxRetries = 0
  MaxBreaker = 1
  MaxReplies = 1
INVARIANT RetriedUntilParked
CHECK_DEADLOCK FALSE
