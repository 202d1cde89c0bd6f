SPECIFICATION Spec
CONSTANTS
  Deliveries = {d1}
  Jobs = {j1, j2, j3}
  Null = Null
  MaxRetries = 3
  AttemptLimit = 3
  MaxInvisible = 1
  MaxCrashes = 1
  MaxFaults = 1
SYMMETRY Symmetry
INVARIANTS TypeOK PostsCounted DeadIsJustified AttemptsBounded
CHECK_DEADLOCK FALSE
