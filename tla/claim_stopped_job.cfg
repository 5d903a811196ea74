SPECIFICATION Spec
CONSTANTS
  NWorkers = 2
  Kinds = {"one_off"}
  MaxFails = 2
  MaxIterations = 2
  MaxOwner = 1
  MaxMishaps = 0
CHECK_DEADLOCK FALSE
PROPERTY StoppedNotRerun
