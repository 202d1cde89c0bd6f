SPECIFICATION Spec
CONSTANTS
  o1 = o1  c1 = c1  e1 = e1  e2 = e2  e3 = e3
  Orgs = {o1}
  Customers = {c1}
  Events = {e1}
  Keys = {k1, k2}
  Connections = {w1, w2}
  Null = Null
  EventData <- MCEventData
  MaxFaults = 1
INVARIANTS CheckoutRetrySafe
