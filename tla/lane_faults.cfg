SPECIFICATION Spec
CONSTANTS
  MaxMsg = 3
  Kinds = {"addressed", "chatter", "own"}
  InTree = {}
  Writers = 2
  IsTeam = TRUE
  BatchLimit = 3
  HistoryLimit = 1
  PoisonThreshold = 2
  InboxCap = 2
  RateMax = 1
  MaxCrashes = 0
  MaxFaults = 1
  MaxRetries = 0
  MaxBreaker = 0
  MaxReplies = 0
INVARIANTS NoSilentLoss UnconsumedStaysPending ReadOnlyIfShown RowsReclaimed
CHECK_DEADLOCK FALSE
