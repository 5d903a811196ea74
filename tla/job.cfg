SPECIFICATION FairSpec
CONSTANTS
  NWorkers = 2
  Kinds = {"one_off", "ongoing"}
  MaxFails = 2
  MaxIterations = 2
  MaxOwner = 1
  MaxMishaps = 1
CHECK_DEADLOCK FALSE
INVARIANTS NothingLeaks AtMostOneRun StopHolds EdgeOnlyWaits ReinstateRestores
PROPERTIES WaitEnds RunningEnds BlocksLift
