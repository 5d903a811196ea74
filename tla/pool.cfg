SPECIFICATION FairSpec
CONSTANTS
  r1 = r1
  r2 = r2
  r3 = r3
  u1 = u1
  u2 = u2
  backend = backend
  workers = workers
  Runs = {r1, r2, r3}
  Users = {u1, u2}
  Procs = {backend, workers}
  Backend = backend
  Owner <- MCOwner
  Home <- MCHome
  NoUser = NoUser
  MaxUsers = 1
  MaxLoopsPerUser = 1
  MaxLoops = 0
  MemGuard = TRUE
  MaxMishaps = 1
INVARIANTS CapsKept OneReplacer
PROPERTIES CutOnlyUnseen QueuedAdmitted IdleReclaimed
CHECK_DEADLOCK FALSE
