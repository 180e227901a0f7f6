CONSTANTS
  Caller = {c1, c2}
  Endpoint = {e1, e2}
  Limits = {1, 2}
  MaxPending = 2
  MaxFile = 11
  Reserve = 2
  HeaderSize = 1
  BeginSize = 2
  CompleteSize = 1
  CheckpointSize = 1
  RestoreSize = 2
  EndSize = 1
  None = None
  MaxId = 3
SPECIFICATION Spec
SYMMETRY Symmetry
INVARIANTS
  UncertainRetained
  IssuedOnce
  JournalUsable
  CheckpointFaithful
CHECK_DEADLOCK FALSE
