SPECIFICATION Spec
CONSTANTS
  Letter = {"a", "b"}
  Wide = {"b"}
  TextLimit = 8
  WordLimit = 2
  MapLimit = 4
  Space = "_"
  Redacted = "#"
  Pages = 2
  MaxWords = 3
  MaxFindings = 2
  Route = {"a", "b", "fallback"}
  Fallback = "fallback"
  Unknown = "unknown"
  Scale = 5
  Close = 1
  Slack = 1
  MinConfidence = 1
  MinProbability = 3
  MinSupported = 1
  MaxTime = 1
  Lane = {"standard", "deep"}
  Offer <- MCOffer
  MaxTokens = 1
  Grain = 2
  DecisionPrice = 1
  DecisionTokens = 1
  Fresh = 1
  MaxHour = 3
  DocId = {"d1", "d2"}
  Family = {"f1", "f2"}
  Topic = {"t"}
  Assessment = {"responsive", "nonresponsive", "unassessed"}
  Text = {"short", "long"}
  Oversized = {"long"}
  Undecodable = {"binary"}
  Limit = 2
  MaxRows = 2
  MaxMembers = 3
  NativeId = {"n1", "none"}
  Content = {"note", "photo", "blob"}
  NotFile = "directory"
  Signature <- MCSignature
  Decodable = {"photo"}
  Large = {"blob"}
  EntryLimit = 2
  MaxEntries = 3
  MaxTouches = 1
  MaxRevisions = 1
  MaxJobs = 3
  Missing = Missing
INVARIANTS
  TerminationRecorded
CHECK_DEADLOCK FALSE
