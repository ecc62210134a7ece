\* One subscription, one webhook that arrives when it likes.
CONSTANTS
  Subs = {"s1"}
  Tabs = {"t1"}
  MaxPeriods = 1
  MaxEvents = 1
  TopUps = TRUE
  Itemless = TRUE
  Limit = 1
CHECK_DEADLOCK FALSE
SPECIFICATION FairSpec
INVARIANTS TypeOK ServedInsidePeriod
PROPERTIES PaidIsServed
