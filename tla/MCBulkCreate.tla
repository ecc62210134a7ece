---------------------------- MODULE MCBulkCreate ----------------------------
(***************************************************************************)
(* Two drafts in one batch, two item specifics eBay may ask for.           *)
(***************************************************************************)
EXTENDS BulkCreate
=============================================================================
