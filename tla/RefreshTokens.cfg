SPECIFICATION Spec
CONSTANTS
  Tokens = {t1, t2, t3, t4, t5}
  Connections = {w1, w2, w3}
  Null = Null
SYMMETRY Symmetry
INVARIANTS TypeOK OneLiveToken NoFork LogoutIsFinal SessionKept
CHECK_DEADLOCK FALSE
