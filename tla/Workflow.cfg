SPECIFICATION FairSpec
CONSTANTS
  Task = {c1, c2}
  MaxTries = 2
  MaxRuns = 2
  MaxStops = 1
  MaxCrashes = 1
INVARIANTS TypeOK LimboAccounted OnePendingRetry
PROPERTIES StopLasts RunningEnds
CHECK_DEADLOCK FALSE
