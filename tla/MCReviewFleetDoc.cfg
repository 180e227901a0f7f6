SPECIFICATION Spec
CONSTANTS
  None = None
  Attempt <- MCAttempt
  Amount <- MCAmount
  Receipt = {r1}
  Cap = 2
  MaxAttempts = 2
  Task <- MCTask
  Other <- MCOther
  MaxEvents = 10
  MaxBytes = 20
  Workers = 2
  Estimate = 1
INVARIANTS
  ProblemStaysUncertain
CHECK_DEADLOCK FALSE
