\* One batch of two items prepared at once: it ends, and leaves nothing open. A job may end anywhere.
CONSTANTS
  Jobs = {"j1"}
  Batches = {"b1"}
  JobOf <- JobOfBatch
  AsinsOf <- TwoAsins
  KindsOf <- Kinds
  CancelJobs = {}
  Limit = 2
  MaxAttempts = 2
  MaxStalls = 1
  MaxDeferrals = 1
  ItemConcurrency = 2
CHECK_DEADLOCK FALSE
SPECIFICATION FairSpec
INVARIANTS DoneBatchIsSettled
PROPERTIES BatchesEnd
