CONSTANTS
  AdmissionLimit = 2
  TrackingLimit = 3
  Ttl = 1
  MaxAdmitted = 4
  MaxTime = 3
SPECIFICATION Spec
INVARIANTS
  OwnedIffActive
  EvidenceRetained
  TotalsTruthful
  NoEarlyExpiry
PROPERTY ImplementsLifecycle
CHECK_DEADLOCK FALSE
