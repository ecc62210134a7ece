\* Crashes, stalls and retries: two workers, one job of two attempts, one execution that loses
\* its job, a sync that comes round. Liveness is checked here, so there is no symmetry.
CONSTANTS
  o1 = o1
  w1 = w1
  w2 = w2
  c1 = c1
  c2 = c2
  Orders = {o1}
  Workers = {w1, w2}
  Threads = {c1}
  Kinds = {"plain"}
  LiveStatuses = {"waiting_shipment"}
  Obstacles = {"payment"}
  DryRunModes = {FALSE}
  Attempts = 2
  MaxManual = 0
  MaxStalls = 1
  MaxConfirms = 0
  MaxScans = 0
  ByHand = FALSE
  MayLapse = FALSE
SPECIFICATION FairSpec
INVARIANTS PurchasesAccounted
PROPERTIES WorkerKeepsPlaced RunningSettles JobsEnd
