\* The subscription lapses and comes back, sales start unpaid and move on eBay, dry run on and off:
\* the two re-arming sweeps against overlapping runs, and what is never clicked.
CONSTANTS
  o1 = o1
  w1 = w1
  w2 = w2
  c1 = c1
  c2 = c2
  Orders = {o1}
  Workers = {w1, w2}
  Threads = {c1}
  Kinds = {"plain", "untracked", "multi_item"}
  LiveStatuses = {"pending", "waiting_shipment", "processing", "shipped", "cancelled"}
  Obstacles = {"payment"}
  DryRunModes = {TRUE, FALSE}
  Attempts = 1
  MaxManual = 0
  MaxStalls = 1
  MaxConfirms = 0
  MaxScans = 0
  ByHand = FALSE
  MayLapse = TRUE
SYMMETRY Symmetry
SPECIFICATION Spec
INVARIANTS TypeOK UnfitSaleNeverClicked PurchasesAccounted
