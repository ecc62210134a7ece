--------------------------- MODULE MCListingJobs ---------------------------
(***************************************************************************)
(* Two small instances of ListingJobs: two jobs that race for one ASIN and *)
(* one slot, and one job whose batch carries two items.                    *)
(***************************************************************************)
EXTENDS ListingJobs

SameAsin == [b \in Batches |-> {"a1"}]
TwoAsins == [b \in Batches |-> {"a1", "a2"}]
JobOfBatch == [b \in Batches |-> IF b = "b1" THEN "j1" ELSE "j2"]
Kinds == [j \in Jobs |-> IF j = "j1" THEN {"live", "draft"} ELSE {"scheduled"}]
=============================================================================
