SPECIFICATION Spec
CONSTANTS
  Deliveries = {d1}
  Jobs = {j1, j2}
  Null = Null
  MaxRetries = 5
  AttemptLimit = 5
  MaxInvisible = 1
  MaxCrashes = 0
  MaxFaults = 0
PROPERTIES DeliveredIsFinal
CHECK_DEADLOCK FALSE
