SPECIFICATION FairSpec
CONSTANTS
  None = None
  Attempt <- MCAttempt
  Amount <- MCAmount
  Receipt = {r1}
  Cap = 2
  MaxAttempts = 2
  Task <- MCTask
  Other <- MCOther
  MaxEvents = 10
  MaxBytes = 9
  Workers = 2
  Estimate = 1
INVARIANTS
  WithinCap
  RecordTruthful
  CallsCovered
  ReviewEvidenced
  ResultComplete
PROPERTIES
  RowsAreFinal
  FleetEnds
CHECK_DEADLOCK FALSE
