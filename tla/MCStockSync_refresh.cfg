\* The refresh against one stock-sync job, under fairness. What moves is bounded, so the system may stop.
CONSTANTS
  Listings = {"l1"}
  Cap <- Caps
  MaxStock = 2
  MaxMoves = 1
  MaxSales = 1
  MaxBuckets = 2
  MaxClaims = 1
  Pausable = {}
  Cleaned = {"l1"}
CHECK_DEADLOCK FALSE
SPECIFICATION FairSpec
PROPERTIES AmazonIsAskedAgain OversellEnds
