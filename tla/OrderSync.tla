----------------------------- MODULE OrderSync ------------------------------
(***************************************************************************)
(* The API side of automatic purchasing (order-sync.service.ts): the sync  *)
(* job, which takes sales in, re-arms what may be bought again and settles *)
(* what stopped, and the seller's two requests, "start automatic order"    *)
(* and "it was not purchased".  Each runs in a thread of its own, and the  *)
(* threads share nothing but the row: up to three sync jobs run at once    *)
(* and a request can arrive at any point of them.                          *)
(***************************************************************************)
EXTENDS OrderState

CtlSale(c) == ctl[c].o
ThreadKeeps == UNCHANGED <<worldVars, scanVars, run, amazonVars, scans, stalls>>
OnlyCtl == UNCHANGED <<row, slot, jobs, cleared, starts>>

In(c, pc) == ctl[c].pc = pc
Proceed(c, pc) == ctl' = [ctl EXCEPT ![c].pc = pc]
Return(c) == ctl' = [ctl EXCEPT ![c] = NoCtl]
Begin(c, o, pc, src) ==
  ctl' = [ctl EXCEPT ![c] = [pc |-> pc, o |-> o, src |-> src, seen |-> "pending", no |-> 0]]

(***************************************************************************)
(* upsertOrder.  A new sale of a tracked listing starts PENDING, and the   *)
(* gate runs for it next; any other starts SKIPPED.  A sale already held   *)
(* has its status merged forward.                                          *)
(***************************************************************************)
IngestSale(c, o) ==
  /\ In(c, "idle") /\ entitled
  /\ ~row[o].known
  /\ LET tracked == ebay[o].kind # "untracked" IN
       /\ row' = [row EXCEPT ![o].known = TRUE, ![o].status = ebay[o].status,
                             ![o].af = IF tracked THEN "pending" ELSE "skipped"]
       /\ IF tracked
            THEN ctl' = [ctl EXCEPT ![c] = [pc |-> "resolve", o |-> o, src |-> "ingest",
                                            seen |-> ebay[o].status, no |-> 0]]
            ELSE UNCHANGED ctl
  /\ UNCHANGED <<slot, jobs, cleared, starts>> /\ ThreadKeeps

ResyncSale(c, o) ==
  /\ In(c, "idle") /\ entitled
  /\ row[o].known
  /\ row' = [row EXCEPT ![o].status = MergeSyncedStatus(@, ebay[o].status)]
  /\ UNCHANGED <<slot, jobs, ctl, cleared, starts>> /\ ThreadKeeps

(***************************************************************************)
(* maybeEnqueueAutoFulfill: what stops a sale taken in, most fundamental   *)
(* first.  resolveAndEnqueueAutoFulfill: the store toggle, the pool of     *)
(* buyer accounts and the coarse cap skip it without a reason.             *)
(***************************************************************************)
GateReason(c) ==
  IF ctl[c].src # "ingest" THEN NoReason
  ELSE IF IneligibleReason(ctl[c].seen) # NoReason THEN IneligibleReason(ctl[c].seen)
  ELSE CASE ebay[CtlSale(c)].kind = "over_plan_limit" -> "listing_over_plan_limit"
         [] ebay[CtlSale(c)].kind = "multi_item"      -> "multi_item_order"
         [] OTHER                                  -> NoReason

Resolve(c) ==
  /\ In(c, "resolve")
  /\ \/ SetAutoFulfillStatus(CtlSale(c), "skipped", GateReason(c)) /\ Return(c)
     \/ /\ GateReason(c) = NoReason
        /\ Proceed(c, "reserve")
        /\ UNCHANGED row
  /\ UNCHANGED <<slot, jobs, cleared, starts>> /\ ThreadKeeps

(***************************************************************************)
(* reserveAmazonOrder.  A sale whose ledger row exists is let through as   *)
(* it is, whatever the row says; a fresh row may be over the limit and is  *)
(* then released again.                                                    *)
(***************************************************************************)
Reserve(c) ==
  /\ In(c, "reserve")
  /\ \/ /\ entitled
        /\ slot' = [slot EXCEPT ![CtlSale(c)] = IF @ = "none" THEN "reserved" ELSE @]
        /\ Proceed(c, "enqueue")
        /\ UNCHANGED row
     \/ /\ entitled /\ slot[CtlSale(c)] = "none"
        /\ slot' = [slot EXCEPT ![CtlSale(c)] = "released"]
        /\ SetAutoFulfillStatus(CtlSale(c), "blocked", "quota_exhausted")
        /\ Return(c)
     \/ /\ ~entitled
        /\ SetAutoFulfillStatus(CtlSale(c), "blocked", "subscription_suspended")
        /\ Return(c)
        /\ UNCHANGED slot
  /\ UNCHANGED <<jobs, cleared, starts>> /\ ThreadKeeps

MutEnqueueAttempt(c) ==            \* mutant: attempts counted from 0
  /\ In(c, "enqueue")
  /\ jobs' = jobs \cup {[o |-> CtlSale(c), no |-> ctl[c].no, attempt |-> 0]}
  /\ Return(c)
  /\ UNCHANGED <<row, slot, cleared, starts>> /\ ThreadKeeps

(***************************************************************************)
(* enqueue drops an automatic job while another one of the sale is waiting *)
(* or active; enqueueManual never drops.                                   *)
(***************************************************************************)
Enqueue(c) ==
  /\ In(c, "enqueue")
  /\ IF ctl[c].src = "manual"
       THEN jobs' = jobs \cup {[o |-> CtlSale(c), no |-> ctl[c].no, attempt |-> 1]}
       ELSE jobs' = IF AutoJobLive(CtlSale(c)) THEN jobs
                    ELSE jobs \cup {[o |-> CtlSale(c), no |-> 0, attempt |-> 1]}
  /\ Return(c)
  /\ UNCHANGED <<row, slot, cleared, starts>> /\ ThreadKeeps
(***************************************************************************)
(* What a thrown error leaves: each caller writes its own state, by a      *)
(* statement that may fail in turn.  A manual start guards only the queue  *)
(* call: an error of its reservation is not caught.                        *)
(***************************************************************************)
Fail(c) ==
  /\ ctl[c].pc \in {"resolve", "reserve", "enqueue", "rearm", "payment", "release_paid", "relabel"}
  /\ IF ctl[c].src = "manual" /\ ctl[c].pc # "enqueue" THEN Return(c)
     ELSE Proceed(c, "recover")
  /\ OnlyCtl /\ ThreadKeeps

Recover(c) ==
  /\ In(c, "recover")
  /\ \/ /\ ctl[c].src = "ingest"           \* failStrandedAutoFulfill
        /\ \/ /\ row[CtlSale(c)].af = "pending" /\ row[CtlSale(c)].stamp = NotClicked
              /\ SetAutoFulfillStatus(CtlSale(c), "failed", NoReason)
           \/ /\ ~(row[CtlSale(c)].af = "pending" /\ row[CtlSale(c)].stamp = NotClicked)
              /\ UNCHANGED row
        /\ Proceed(c, "release")
     \/ /\ ctl[c].src = "resume"
        /\ SetAutoFulfillStatus(CtlSale(c), "blocked", "subscription_suspended")
        /\ Return(c)
     \/ /\ ctl[c].src = "paid"
        /\ SetAutoFulfillStatus(CtlSale(c), "skipped", "order_not_paid")
        /\ Return(c)
     \/ /\ ctl[c].src = "manual"
        /\ SetAutoFulfillStatus(CtlSale(c), "failed", NoReason)
        /\ Proceed(c, "release")
     \/ Return(c) /\ UNCHANGED row
  /\ UNCHANGED <<slot, jobs, cleared, starts>> /\ ThreadKeeps

ReleaseHold(c) ==
  /\ In(c, "release")
  /\ Release(CtlSale(c)) \/ UNCHANGED slot
  /\ Return(c)
  /\ UNCHANGED <<row, jobs, cleared, starts>> /\ ThreadKeeps

(***************************************************************************)
(* resumeSuspendedAutoFulfill: the SELECT, then for each row an UPDATE     *)
(* that no longer asks what the SELECT asked.                              *)
(***************************************************************************)
ResumeSuspended(c, o) ==
  /\ In(c, "idle") /\ entitled
  /\ row[o].known /\ Resumable(row[o])
  /\ Begin(c, o, "rearm", "resume")
  /\ OnlyCtl /\ ThreadKeeps

MutRearmUnstamps(c) ==             \* mutant: a re-arm starts from a clean row
  /\ In(c, "rearm")
  /\ row' = [row EXCEPT ![CtlSale(c)].af = "pending", ![CtlSale(c)].reason = NoReason,
                        ![CtlSale(c)].stamp = NotClicked]
  /\ Proceed(c, "resolve")
  /\ UNCHANGED <<slot, jobs, cleared, starts>> /\ ThreadKeeps

Rearm(c) ==
  /\ In(c, "rearm")
  /\ SetAutoFulfillStatus(CtlSale(c), "pending", NoReason)
  /\ Proceed(c, "resolve")
  /\ UNCHANGED <<slot, jobs, cleared, starts>> /\ ThreadKeeps

(***************************************************************************)
(* releaseOrdersAwaitingPayment: the SELECT, a live reading, its status    *)
(* written as it was read, then the skip relabelled or lifted.             *)
(***************************************************************************)
RecheckUnpaid(c, o) ==
  /\ In(c, "idle") /\ entitled
  /\ row[o].known /\ AwaitsPayment(row[o])
  /\ Begin(c, o, "payment", "paid")
  /\ OnlyCtl /\ ThreadKeeps

ReadPayment(c) ==
  /\ In(c, "payment")
  /\ \/ Return(c)                          \* still unpaid, or gone from eBay
     \/ /\ ebay[CtlSale(c)].status # "pending"
        /\ ctl' = [ctl EXCEPT ![c].pc = "release_paid", ![c].seen = ebay[CtlSale(c)].status]
  /\ OnlyCtl /\ ThreadKeeps

ReleasePaid(c) ==
  /\ In(c, "release_paid")
  /\ row' = [row EXCEPT ![CtlSale(c)].status = ctl[c].seen]
  /\ Proceed(c, IF IneligibleReason(ctl[c].seen) = NoReason THEN "rearm" ELSE "relabel")
  /\ UNCHANGED <<slot, jobs, cleared, starts>> /\ ThreadKeeps

Relabel(c) ==
  /\ In(c, "relabel")
  /\ SetAutoFulfillStatus(CtlSale(c), "skipped", IneligibleReason(ctl[c].seen))
  /\ Return(c)
  /\ UNCHANGED <<slot, jobs, cleared, starts>> /\ ThreadKeeps

MutSettleStaleUnclicked(c, o) ==   \* mutant: clicked rows are left alone
  /\ In(c, "idle") /\ entitled
  /\ row[o].known /\ row[o].af = "running" /\ row[o].stamp = NotClicked
  /\ SetAutoFulfillStatus(o, "failed", NoReason)
  /\ Begin(c, o, "release", "ingest")
  /\ UNCHANGED <<slot, jobs, cleared, starts>> /\ ThreadKeeps

(***************************************************************************)
(* settleStaleRunningAutoFulfill: one statement settles what sat at        *)
(* RUNNING too long, by the stamp; the slot is given back after it.  How   *)
(* long is left open: a run may still be alive when it is settled.         *)
(***************************************************************************)
SettleStale(c, o) ==
  /\ In(c, "idle") /\ entitled
  /\ row[o].known /\ row[o].af = "running"
  /\ IF row[o].stamp = NotClicked
       THEN SetAutoFulfillStatus(o, "failed", NoReason)
       ELSE SetAutoFulfillStatus(o, "blocked", "interrupted")
  /\ Begin(c, o, "release", "ingest")
  /\ UNCHANGED <<slot, jobs, cleared, starts>> /\ ThreadKeeps

(***************************************************************************)
(* startAutoFulfillManually: its compare-and-set asks for the very row it  *)
(* approved, so reading and claiming are one step.  A dry run's placeholder *)
(* is cleared with it.                                                     *)
(***************************************************************************)
StartManually(c, o) ==
  /\ In(c, "idle") /\ entitled
  /\ starts[o] < MaxManual
  /\ row[o].known
  /\ CanStartManually(row[o], ebay[o].kind # "untracked",
                      ebay[o].kind = "over_plan_limit", ebay[o].kind = "multi_item")
  /\ row' = [row EXCEPT ![o].af = "pending", ![o].reason = NoReason,
                        ![o].amazon = NoAmazonOrder,
                        ![o].costs = IF row[o].amazon = Simulated THEN FALSE ELSE @]
  /\ starts' = [starts EXCEPT ![o] = @ + 1]
  /\ ctl' = [ctl EXCEPT ![c] = [pc |-> "reserve", o |-> o, src |-> "manual",
                                seen |-> "pending", no |-> starts[o] + 1]]
  /\ UNCHANGED <<slot, jobs, cleared>> /\ ThreadKeeps

(***************************************************************************)
(* confirmNotPurchased: the verdict is read first ...                      *)
(***************************************************************************)
SuspectUnclaimed(o) ==
  /\ row[o].suspect # NoAmazonOrder
  /\ \A p \in Orders : row[p].amazon # row[o].suspect

AskNotPurchased(c, o) ==
  /\ In(c, "idle")
  /\ Cardinality(cleared[o]) < MaxConfirms
  /\ row[o].known /\ ~SuspectUnclaimed(o)
  /\ MayConfirmNotPurchased(row[o], scanned[o])
  /\ Begin(c, o, "confirm", "manual")
  /\ OnlyCtl /\ ThreadKeeps

(* ... and the statement that clears the stamp asks for some stamp only. *)
ClearStamp(c) ==
  /\ In(c, "confirm")
  /\ LET r == row[CtlSale(c)] IN
       \/ /\ r.stamp # NotClicked /\ r.amazon = NoAmazonOrder
          /\ r.af \notin {"placed", "pending", "running"}
          /\ row' = [row EXCEPT ![CtlSale(c)].stamp = NotClicked, ![CtlSale(c)].suspect = NoAmazonOrder,
                                ![CtlSale(c)].af = "failed", ![CtlSale(c)].reason = NoReason]
          /\ cleared' = [cleared EXCEPT ![CtlSale(c)] = @ \cup {r.stamp}]
       \/ /\ \/ r.stamp = NotClicked \/ r.amazon # NoAmazonOrder
             \/ r.af \in {"placed", "pending", "running"}
          /\ UNCHANGED <<row, cleared>>
  /\ Return(c)
  /\ UNCHANGED <<slot, jobs, starts>> /\ ThreadKeeps

(* A thread ends anywhere: the process restarts, or an error no handler of *)
(* its own catches.                                                        *)
Abandon(c) ==
  /\ ~In(c, "idle")
  /\ Return(c)
  /\ OnlyCtl /\ ThreadKeeps

ThreadStep(c) ==
  \/ \E o \in Orders :
       \/ IngestSale(c, o) \/ ResyncSale(c, o) \/ ResumeSuspended(c, o)
       \/ RecheckUnpaid(c, o) \/ SettleStale(c, o) \/ StartManually(c, o)
       \/ AskNotPurchased(c, o)
  \/ Resolve(c) \/ Reserve(c) \/ Enqueue(c) \/ Fail(c) \/ Recover(c)
  \/ ReleaseHold(c) \/ Rearm(c) \/ ReadPayment(c) \/ ReleasePaid(c)
  \/ Relabel(c) \/ ClearStamp(c) \/ Abandon(c)
=============================================================================
