\* Two jobs, one immediate or draft, one scheduled, race for one ASIN and one slot. A job may end anywhere.
CONSTANTS
  Jobs = {"j1", "j2"}
  Batches = {"b1", "b2"}
  JobOf <- JobOfBatch
  AsinsOf <- SameAsin
  KindsOf <- Kinds
  CancelJobs = {"j2"}
  Limit = 1
  MaxAttempts = 2
  MaxStalls = 0
  MaxDeferrals = 0
  ItemConcurrency = 1
CHECK_DEADLOCK FALSE
SPECIFICATION Spec
INVARIANTS RetryNeverListsTwice NoPhantomListing PublishIsCounted
PROPERTIES CancelledForGood
