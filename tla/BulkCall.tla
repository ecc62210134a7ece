------------------------------ MODULE BulkCall ------------------------------
(***************************************************************************)
(* What a caller of the bulk create may count on: while the call runs,     *)
(* listings appear on eBay; every draft is told a verdict once, "ok" only  *)
(* for a listing that is there; the call returns when all are told, or     *)
(* throws and tells nothing.                                               *)
(***************************************************************************)
EXTENDS Naturals

CONSTANT Drafts

VARIABLES live, told, call

bulk == <<live, told, call>>
Verdicts == {"ok", "failed"}

Init ==
  /\ live \in SUBSET Drafts
  /\ told = [d \in Drafts |-> "open"]
  /\ call = "running"

(* One answer of eBay: some listings come or go, some drafts are told. *)
Proceed ==
  /\ call = "running" /\ call' = "running"
  /\ live' \subseteq Drafts
  /\ told' \in [Drafts -> {"open"} \cup Verdicts]
  /\ \A d \in Drafts :
       /\ told[d] # "open" => told'[d] = told[d] /\ (d \in live' <=> d \in live)
       /\ told[d] = "open" /\ told'[d] = "ok" => d \in live'

Return ==
  /\ call = "running" /\ call' = "returned"
  /\ \A d \in Drafts : told[d] # "open"
  /\ UNCHANGED <<live, told>>

Throw ==
  /\ call = "running" /\ call' = "thrown"
  /\ live' \subseteq Drafts
  /\ \A d \in Drafts : told[d] # "open" => (d \in live' <=> d \in live)
  /\ UNCHANGED told

Next == Proceed \/ Return \/ Throw

Spec == Init /\ [][Next]_bulk
=============================================================================
