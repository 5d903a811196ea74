SPECIFICATION FairSpec
CONSTANTS
  MaxRuns = 2
  MaxMsgs = 2
  MaxActs = 1
  MaxMishaps = 1
CHECK_DEADLOCK FALSE
INVARIANTS FlightIsDriven VerdictStands
PROPERTIES TreeStaysStopped StopLands OrphansSettle KeepsLife
