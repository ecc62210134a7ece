--------------------------- MODULE MCSubscription ---------------------------
(***************************************************************************)
(* One seller; the bounds are in the configurations.                       *)
(***************************************************************************)
EXTENDS Subscription
=============================================================================
