CONSTANTS
  Request = {r1, r2, r3}
  Route = {a, b}
  None = None
  AdmissionLimit = 2
  MaxCalls = 3
  MaxFile = 11
  MaxLine = 2
  Reserve = 2
  HeaderSize = 1
  BeginSize = 2
  ReceiptSize = 1
  MaxStops = 2
SPECIFICATION Spec
SYMMETRY Symmetry
INVARIANTS
  EvidenceKept
  JournalUsable
CHECK_DEADLOCK FALSE
