CONSTANTS
  Request = {r1, r2}
  Handler = {h1}
  Jev = jev
  None = None
  AdmissionLimit = 2
  TrackingLimit = 2
  MaxCalls = 2
  MaxCrashes = 1
SPECIFICATION FairSpec
PROPERTIES
  EveryRequestEnds
  PermitsReturn
CHECK_DEADLOCK FALSE
