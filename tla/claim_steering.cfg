SPECIFICATION Spec
CONSTANTS
  MaxMsg = 4
  Kinds <- DmKinds
  InTree <- NoTree
  Writers = 1
  IsTeam = TRUE
  BatchLimit = 4
  HistoryLimit = 1
  PoisonThreshold = 2
  InboxCap = 2
  RateMax = 2
  MaxCrashes = 0
  MaxFaults = 0
  MaxRetries = 0
  MaxBreaker = 0
  MaxReplies = 0
CHECK_DEADLOCK FALSE
INVARIANT SteeringNeverLoses
