\* One order, two ticks, one fault; the purchase is placed by the platform, or
\* linked by hand on its way, when its page may name a wrong carrier.
CONSTANTS
  Settings = {"logistics"}
  Carriers = {"amazon"}
  Accounts = {"good"}
  Linked = {"placed", "shipped"}
  Readings = {"nothing", "other"}
  Entries = {"unnumbered"}
  MaxFaults = 1
SPECIFICATION FairSpec
INVARIANTS SupplierStaysHidden PostedTwiceOnlyIfCrossed CompletedIsPushed NothingClaimedEarly
PROPERTIES PushedAtLast
