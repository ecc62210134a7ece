---------------------------- MODULE PurchaseOnce ----------------------------
(***************************************************************************)
(* What the click boundary promises, with no row, queue or worker in it:   *)
(* clicks are claimed one at a time, a claim is sent at most once, only a  *)
(* sent click can have bought anything, and the next claim waits until the *)
(* seller has declared the standing one empty.                             *)
(***************************************************************************)
EXTENDS Naturals

CONSTANT Orders

VARIABLES standing,   \* the claim that stands, 0 if none
          last,       \* the last claim made
          sent,       \* the claims whose click went out
          purchases   \* the claims that bought something

once == <<standing, last, sent, purchases>>

Init ==
  /\ standing = [o \in Orders |-> 0]
  /\ last = [o \in Orders |-> 0]
  /\ sent = [o \in Orders |-> {}]
  /\ purchases = [o \in Orders |-> {}]

Claim(o) ==
  /\ standing[o] = 0
  /\ last' = [last EXCEPT ![o] = @ + 1]
  /\ standing' = [standing EXCEPT ![o] = last[o] + 1]
  /\ UNCHANGED <<sent, purchases>>

Send(o) ==
  /\ \E n \in 1..last[o] :
       /\ n \notin sent[o]
       /\ sent' = [sent EXCEPT ![o] = @ \cup {n}]
       /\ \/ purchases' = [purchases EXCEPT ![o] = @ \cup {n}]
          \/ UNCHANGED purchases
  /\ UNCHANGED <<standing, last>>

DeclareEmpty(o) ==
  /\ standing[o] # 0
  /\ standing' = [standing EXCEPT ![o] = 0]
  /\ UNCHANGED <<last, sent, purchases>>

Next == \E o \in Orders : Claim(o) \/ Send(o) \/ DeclareEmpty(o)

Spec == Init /\ [][Next]_once
=============================================================================
