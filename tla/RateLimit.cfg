SPECIFICATION Spec
CONSTANTS
  Capacity = 2
  WindowSeconds = 3
  Second = 2
  None = None
  MaxTime = 15
  MaxSkew = 2
INVARIANTS TypeOK QuotaBound RetryAfterHonest
