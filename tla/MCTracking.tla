----------------------------- MODULE MCTracking -----------------------------
(***************************************************************************)
(* One order; the values are in the configuration.                         *)
(***************************************************************************)
EXTENDS Tracking
=============================================================================
