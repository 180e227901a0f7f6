CONSTANTS
  Process = {p1, p2}
  Worker = {w1, w2}
  Limit = 3
  None = None
  Caller = {c1, c2, c3}
  MaxRequests = 2
  Window = 2
  MaxTime = 8
SPECIFICATION MCSpec
SYMMETRY Symmetry
INVARIANTS
  NeverOverspent
  GrantsDurable
  WindowCap
  SlotsExact
CHECK_DEADLOCK FALSE
