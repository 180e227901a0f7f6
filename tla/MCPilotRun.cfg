SPECIFICATION Spec
CONSTANTS
  None = None
  Exec = {a, b}
  Plan = {p, q}
  MaxEdits = 1
SYMMETRY MCPlans
INVARIANTS
  OncePerPlan
  FleetOnClaimedEvidence
CHECK_DEADLOCK FALSE
