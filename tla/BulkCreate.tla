----------------------------- MODULE BulkCreate -----------------------------
(***************************************************************************)
(* createListings of the bulk service: up to BatchMax drafts at a time go  *)
(* through inventory item, offer and publish, one eBay call each; eBay     *)
(* answers every entry on its own, and the entries a replay may help are   *)
(* replayed.  Drafts are numbered in the order of the request.             *)
(***************************************************************************)
EXTENDS Naturals, FiniteSets, Sequences, SequencesExt

CONSTANTS
  N,                   \* drafts of the call
  BatchMax,            \* EBAY_BULK_MAX_BATCH
  MAX_CREATE_ATTEMPTS,
  Aspects,             \* item specifics eBay may ask for
  Complete             \* TRUE: eBay answers every entry it was sent

Drafts == 1..N

ASSUME BulkCreateAssumption ==
  /\ N \in Nat /\ BatchMax \in Nat \ {0} /\ MAX_CREATE_ATTEMPTS \in Nat \ {0}
  /\ Complete \in BOOLEAN

VARIABLES
  site,     \* eBay's offer of a draft's SKU: "none", "made" or "live"
  fresh,    \* drafts whose offer carries this call's price and quantity
  todo,     \* drafts of later batches
  pass,     \* drafts at the present stage
  stage,
  entries,  \* the answer being read: whose entry, and what it says
  pos,      \* position in pass of the next draft to look up
  next,     \* drafts that go on to the next stage
  retry,    \* drafts to replay
  draft,    \* DraftState
  out       \* outcomes: a verdict, and the draft whose listing id was taken

ebay == <<site, fresh>>
vars == <<site, fresh, todo, pass, stage, entries, pos, next, retry, draft, out>>

(* filter: the entries of s that are in S, in their order (stated by their *)
(* positions, so that it can be proved about).                             *)
Only(s, S) ==
  LET P == {k \in DOMAIN s : s[k] \in S}
      Rank(p) == Cardinality({q \in P : q <= p})
  IN [n \in 1..Cardinality(P) |-> s[CHOOSE p \in P : Rank(p) = n]]

Chunk(s) == SubSeq(s, 1, IF Len(s) < BatchMax THEN Len(s) ELSE BatchMax)
Sending == stage \in {"item", "offer", "publish"} /\ entries = <<>> /\ pos = 0
Reading(st) == stage = st /\ pos \in DOMAIN pass

Init ==
  /\ site \in [Drafts -> {"none", "made", "live"}]
  /\ fresh = {}
  /\ todo = [k \in 1..N |-> k]
  /\ pass = <<>> /\ stage = "next" /\ entries = <<>> /\ pos = 0 /\ next = <<>> /\ retry = <<>>
  /\ draft = [d \in Drafts |-> [attempts |-> 0, forced |-> {}, offer |-> 0, stale |-> FALSE, last |-> "-"]]
  /\ out = [d \in Drafts |-> [verdict |-> "open", listing |-> 0]]

-----------------------------------------------------------------------------
(* The passes of a batch, and the batches of the call.                     *)

MutStart(ds) ==             \* mutant: a replay begins its count anew
  /\ pass' = ds /\ stage' = "item"
  /\ draft' = [d \in Drafts |-> IF d \in ToSet(ds) THEN [draft[d] EXCEPT !.attempts = 1] ELSE draft[d]]

Start(ds) ==
  /\ pass' = ds /\ stage' = "item"
  /\ draft' = [d \in Drafts |-> IF d \in ToSet(ds) THEN [draft[d] EXCEPT !.attempts = @ + 1] ELSE draft[d]]

NextBatch ==
  /\ stage = "next" /\ todo # <<>>
  /\ Start(Chunk(todo))
  /\ todo' = SubSeq(todo, Len(Chunk(todo)) + 1, Len(todo))
  /\ UNCHANGED <<ebay, entries, pos, next, retry, out>>

(* Replay while attempts remain; the rest ends as publish exhausted. *)
EndPass ==
  /\ stage = "over"
  /\ LET again == Only(retry, {d \in Drafts : draft[d].attempts < MAX_CREATE_ATTEMPTS}) IN
     /\ out' = [d \in Drafts |-> IF d \in ToSet(retry) \ ToSet(again)
                                 THEN [verdict |-> "exhausted", listing |-> 0] ELSE out[d]]
     /\ IF again = <<>> THEN stage' = "next" /\ pass' = <<>> /\ UNCHANGED draft
                        ELSE Start(again)
  /\ retry' = <<>>
  /\ UNCHANGED <<ebay, todo, entries, pos, next>>

Return ==
  /\ stage = "next" /\ todo = <<>>
  /\ stage' = "returned"
  /\ UNCHANGED <<ebay, todo, pass, entries, pos, next, retry, draft, out>>

-----------------------------------------------------------------------------
(* postBulk: what eBay does with a request, and the entries it answers.    *)

Ids == IF stage = "publish" THEN [k \in DOMAIN pass |-> draft[pass[k]].offer] ELSE pass

Kinds == CASE stage = "item" -> {"done", "system", "rejected"}
           [] stage = "offer" -> {"done", "hollow", "exists", "system", "rejected"}
           [] stage = "publish" -> {"done", "hollow", "system", "rejected"} \cup Aspects

(* The offer of i after eBay answered it with that kind. *)
After(i, kind) ==
  CASE stage = "item" -> {site[i]}
    [] stage = "offer" /\ kind \in {"done", "hollow"} -> IF site[i] = "none" THEN {"made"} ELSE {}
    [] stage = "offer" /\ kind = "exists" -> IF site[i] = "none" THEN {"made"} ELSE {site[i]}
    [] stage = "offer" /\ kind = "system" -> IF site[i] = "none" THEN {"none", "made"} ELSE {site[i]}
    [] stage = "publish" /\ kind \in {"done", "hollow"} -> IF site[i] = "none" THEN {} ELSE {"live"}
    [] stage = "publish" /\ kind = "system" -> IF site[i] = "none" THEN {"none"} ELSE {site[i], "live"}
    [] OTHER -> {site[i]}

Apply(ids, answer, s) ==
  /\ site' = s
  /\ \A i \in Drafts : s[i] \in IF i \in ids THEN After(i, answer[i]) ELSE {site[i]}
  /\ fresh' = fresh \cup {i \in Drafts : site[i] = "none" /\ s[i] = "made"}

PostBulk ==
  /\ Sending
  /\ \E answer \in [ToSet(Ids) -> Kinds], s \in [Drafts -> {"none", "made", "live"}],
       given \in IF Complete THEN {ToSet(Ids)} ELSE SUBSET ToSet(Ids) :
       /\ Apply(ToSet(Ids), answer, s)
       /\ LET kept == Only(Ids, given) IN
          entries' = [k \in DOMAIN kept |-> [of |-> kept[k], says |-> answer[kept[k]]]]
  /\ pos' = 1
  /\ UNCHANGED <<todo, pass, stage, next, retry, draft, out>>

(* The request is lost, with or without its effect on some of the entries. *)
PostThrows ==
  /\ Sending
  /\ \E answer \in [ToSet(Ids) -> Kinds], s \in [Drafts -> {"none", "made", "live"}],
        reached \in SUBSET ToSet(Ids) : Apply(reached, answer, s)
  /\ stage' = "thrown"
  /\ UNCHANGED <<todo, pass, entries, pos, next, retry, draft, out>>

MutEntry ==                 \* mutant: by position, in the order of the answer
  entries[Len(pass) + 1 - pos]

(* correlateBulkResponses: the entry with the item's key, or else the one  *)
(* at its position.                                                        *)
Entry ==
  IF \E k \in DOMAIN entries : entries[k].of = Ids[pos]
  THEN entries[CHOOSE k \in DOMAIN entries : entries[k].of = Ids[pos]]
  ELSE IF pos \in DOMAIN entries THEN entries[pos] ELSE [of |-> 0, says |-> "nothing"]

-----------------------------------------------------------------------------
(* One entry of an answer is read.                                         *)

At == pass[pos]
GoesOn == next' = Append(next, At) /\ UNCHANGED <<retry, out>>
Again == retry' = Append(retry, At) /\ UNCHANGED <<next, out>>
Settle(verdict, listing) ==
  /\ out' = [out EXCEPT ![At] = [verdict |-> verdict, listing |-> listing]]
  /\ UNCHANGED <<next, retry>>

MutRetriesSystemError ==     \* mutant: whatever the attempts
  Entry.says = "system"

RetriesSystemError == Entry.says = "system" /\ draft[At].attempts < MAX_CREATE_ATTEMPTS

ReadItem ==
  /\ Reading("item")
  /\ draft' = [draft EXCEPT ![At].last = Entry.says]
  /\ CASE Entry.says = "done" -> GoesOn
       [] RetriesSystemError -> Again
       [] OTHER -> Settle("failed", 0)
  /\ pos' = pos + 1
  /\ UNCHANGED <<ebay, todo, pass, stage, entries>>

MutRefreshOffer ==          \* mutant: the existing offer is published as it is
  UNCHANGED fresh /\ draft' = [draft EXCEPT ![At].last = Entry.says, ![At].offer = Entry.of, ![At].stale = FALSE]

(* refreshOffer fails softly. *)
RefreshOffer ==
  \/ /\ fresh' = fresh \cup {Entry.of}
     /\ draft' = [draft EXCEPT ![At].last = Entry.says, ![At].offer = Entry.of, ![At].stale = FALSE]
  \/ /\ UNCHANGED fresh
     /\ draft' = [draft EXCEPT ![At].last = Entry.says, ![At].offer = Entry.of, ![At].stale = TRUE]

ReadOffer ==
  /\ Reading("offer")
  /\ CASE Entry.says = "done" -> /\ draft' = [draft EXCEPT ![At].last = "done", ![At].offer = Entry.of]
                                 /\ GoesOn /\ UNCHANGED fresh
       [] Entry.says = "exists" -> RefreshOffer /\ GoesOn
       [] OTHER -> /\ draft' = [draft EXCEPT ![At].last = Entry.says]
                   /\ IF RetriesSystemError THEN Again ELSE Settle("failed", 0)
                   /\ UNCHANGED fresh
  /\ pos' = pos + 1
  /\ UNCHANGED <<site, todo, pass, stage, entries>>

(* A missing item specific not forced before is forced; the offer of a     *)
(* system error is deleted, softly; both are replayed.                     *)
ReadPublish ==
  /\ Reading("publish")
  /\ \/ /\ Entry.says = "done"
        /\ Settle("ok", Entry.of)
        /\ draft' = [draft EXCEPT ![At].last = "done"]
        /\ UNCHANGED site
     \/ /\ Entry.says \in Aspects \ draft[At].forced
        /\ Again
        /\ draft' = [draft EXCEPT ![At].last = Entry.says, ![At].forced = @ \cup {Entry.says}]
        /\ UNCHANGED site
     \/ /\ RetriesSystemError
        /\ Again
        /\ site' = [site EXCEPT ![draft[At].offer] = "none"] \/ UNCHANGED site
        /\ draft' = [draft EXCEPT ![At].last = "system", ![At].offer = 0]
     \/ /\ Entry.says # "done" /\ Entry.says \notin Aspects \ draft[At].forced /\ ~RetriesSystemError
        /\ Settle("failed", 0)
        /\ draft' = [draft EXCEPT ![At].last = Entry.says]
        /\ UNCHANGED site
  /\ fresh' = {i \in fresh : site'[i] # "none"}
  /\ pos' = pos + 1
  /\ UNCHANGED <<todo, pass, stage, entries>>

EndStage ==
  /\ stage \in {"item", "offer", "publish"} /\ pos = Len(pass) + 1
  /\ stage' = IF next = <<>> THEN "over" ELSE IF stage = "item" THEN "offer" ELSE "publish"
  /\ pass' = next
  /\ next' = <<>> /\ entries' = <<>> /\ pos' = 0
  /\ UNCHANGED <<ebay, todo, retry, draft, out>>

Next ==
  \/ NextBatch \/ EndPass \/ Return \/ PostBulk \/ PostThrows
  \/ ReadItem \/ ReadOffer \/ ReadPublish \/ EndStage

Spec == Init /\ [][Next]_vars

(* One request of one process: it goes on until it returns or throws. *)
FairSpec == Spec /\ WF_vars(Next)

-----------------------------------------------------------------------------
(* The call keeps its caller's contract: one verdict for a draft, ok only  *)
(* for a listing that is on eBay, all told when it returns                 *)
(* (createListings, as the batch worker and the draft publish use it).     *)
Contract == INSTANCE BulkCall WITH
  live <- {d \in Drafts : site[d] = "live"},
  told <- [d \in Drafts |-> IF out[d].verdict \in {"open", "ok"} THEN out[d].verdict ELSE "failed"],
  call <- IF stage \in {"returned", "thrown"} THEN stage ELSE "running"

ImplementsBulkCall == Contract!Spec

(* "Publish exhausted", which the seller reads as a problem of the item    *)
(* specifics, is the verdict only when eBay's last word was a missing      *)
(* specific; an eBay outage that lasts keeps eBay's own error              *)
(* (retriesSystemError).                                                   *)
ExhaustedIsAboutAspects == \A d \in Drafts : out[d].verdict = "exhausted" => draft[d].last \in Aspects

(* A listing reported ok carries the price of this call, unless an offer   *)
(* left by an earlier attempt could not be refreshed (refreshOffer).       *)
OkIsCurrent == \A d \in Drafts : out[d].verdict = "ok" => d \in fresh \/ draft[d].stale

(* Whatever eBay answers, the call ends. *)
CallEnds == <>(stage \in {"returned", "thrown"})
=============================================================================
