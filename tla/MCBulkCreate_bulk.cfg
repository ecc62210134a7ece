\* Two drafts in one batch; eBay answers every entry.
CONSTANTS
  N = 2
  BatchMax = 2
  MAX_CREATE_ATTEMPTS = 3
  Aspects = {"brand", "size"}
  Complete = TRUE
CHECK_DEADLOCK FALSE
SPECIFICATION FairSpec
INVARIANTS ExhaustedIsAboutAspects OkIsCurrent
PROPERTIES ImplementsBulkCall CallEnds
