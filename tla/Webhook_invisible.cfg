SPECIFICATION FairSpec
CONSTANTS
  Deliveries = {d1}
  Jobs = {j1}
  Null = Null
  MaxRetries = 5
  AttemptLimit = 5
  MaxInvisible = 2
  MaxCrashes = 0
  MaxFaults = 0
PROPERTIES EventuallySettled
CHECK_DEADLOCK FALSE
