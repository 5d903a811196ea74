SPECIFICATION Spec
CONSTANTS
  t1 = t1
  t2 = t2
  t3 = t3
  Turns = {t1, t2}
  NoTurn = NoTurn
  Triggers = {t2}
  Ungated = {t1}
  Categories = {"auth", "transient"}
  Pausing = {"auth"}
  Threshold = 2
  MaxStreak = 3
  MaxCrashes = 1
  MaxFaults = 0
  MaxResets = 1
INVARIANTS ClaimIdentity PauseIsEarned
PROPERTIES Ladder ClaimKept
