CONSTANTS
  Request = {r1, r2, r3}
  Handler = {h1, h2}
  Jev = jev
  None = None
  AdmissionLimit = 2
  TrackingLimit = 2
  MaxCalls = 3
  MaxCrashes = 1
SPECIFICATION Spec
SYMMETRY Symmetry
INVARIANTS
  DispatchPaid
  UncertainRetained
  CapacityBounds
  AnsweredIsResolved
  CountersExact
CHECK_DEADLOCK FALSE
