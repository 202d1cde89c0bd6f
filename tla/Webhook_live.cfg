SPECIFICATION FairSpec
CONSTANTS
  Deliveries = {d1}
  Jobs = {j1, j2}
  Null = Null
  MaxRetries = 5
  AttemptLimit = 5
  MaxInvisible = 1
  MaxCrashes = 1
  MaxFaults = 0
PROPERTIES EventuallySettled EveryJobEnds
CHECK_DEADLOCK FALSE
