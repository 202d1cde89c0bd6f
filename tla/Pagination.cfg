SPECIFICATION Spec
CONSTANTS
  Ids = {1, 2, 3, 4}
  Times = {1, 2}
  MaxLimit = 2
  Null = Null
INVARIANTS TypeOK ListingExact
PROPERTIES ListingEnds
CHECK_DEADLOCK FALSE
