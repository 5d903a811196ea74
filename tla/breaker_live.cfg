SPECIFICATION FairSpec
CONSTANTS
  t1 = t1
  t2 = t2
  t3 = t3
  Turns = {t1, t2}
  NoTurn = NoTurn
  Triggers = {t2}
  Ungated = {}
  Categories = {"auth"}
  Pausing = {"auth"}
  Threshold = 1
  MaxStreak = 1
  MaxCrashes = 1
  MaxFaults = 1
  MaxResets = 0
PROPERTIES ClaimsEnd PauseEnds
