\* Two items recorded at once, the older counts written last.
CONSTANTS
  Jobs = {"j1"}
  Batches = {"b1"}
  JobOf <- JobOfBatch
  AsinsOf <- TwoAsins
  KindsOf <- Kinds
  CancelJobs = {}
  Limit = 2
  MaxAttempts = 2
  MaxStalls = 1
  MaxDeferrals = 1
  ItemConcurrency = 2
CHECK_DEADLOCK FALSE
SPECIFICATION Spec
INVARIANTS SettledJobIsFinished
