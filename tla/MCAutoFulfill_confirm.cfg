\* The seller declares a click "not purchased" after a scan of the Amazon list, and buys and links
\* on Amazon himself, while the automation runs and one execution loses its job.
CONSTANTS
  o1 = o1
  w1 = w1
  w2 = w2
  c1 = c1
  c2 = c2
  Orders = {o1}
  Workers = {w1}
  Threads = {c1, c2}
  Kinds = {"plain"}
  LiveStatuses = {"waiting_shipment"}
  Obstacles = {"payment"}
  DryRunModes = {FALSE}
  Attempts = 1
  MaxManual = 1
  MaxStalls = 1
  MaxConfirms = 1
  MaxScans = 1
  ByHand = TRUE
  MayLapse = FALSE
SYMMETRY Symmetry
SPECIFICATION Spec
PROPERTIES ImplementsPurchaseOnce FirstDeclarationScanned
INVARIANTS NeverOfferedAgain PurchasesAccounted
