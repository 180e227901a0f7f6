SPECIFICATION Spec
CONSTANTS
  Process = {p, q}
  Scope = {s, t}
  Name = {journal, a, b, c}
  Journal = journal
  MaxFiles = 3
  MaxId = 2
  None = None
SYMMETRY Symmetry
INVARIANTS
  JournalKnowsWork
  OriginalsNamed
