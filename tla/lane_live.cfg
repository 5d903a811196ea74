SPECIFICATION FairSpec
CONSTANTS
  MaxMsg = 2
  Kinds <- RoomKinds
  InTree <- NoTree
  Writers = 1
  IsTeam = TRUE
  BatchLimit = 3
  HistoryLimit = 3
  PoisonThreshold = 2
  InboxCap = 3
  RateMax = 2
  MaxCrashes = 1
  MaxFaults = 0
  MaxRetries = 1
  MaxBreaker = 0
  MaxReplies = 0
CHECK_DEADLOCK FALSE
INVARIANT NoDoubleInjection
PROPERTIES KeepsMailbox EventuallySettled ReadConverges
