\* One listing, the refresh and the stock-sync jobs of a sale and of a pause push beside each other. What moves is bounded, so the system may stop.
CONSTANTS
  Listings = {"l1"}
  Cap <- Caps
  MaxStock = 2
  MaxMoves = 1
  MaxSales = 1
  MaxBuckets = 1
  MaxClaims = 1
  Pausable = {"l1"}
  Cleaned = {"l1"}
CHECK_DEADLOCK FALSE
SPECIFICATION Spec
INVARIANTS RetiredOnlyWhenGone RowTellsEbay
