---------------------------- MODULE CheckoutRun -----------------------------
(***************************************************************************)
(* The worker of the queue auto-fulfill: AutoFulfillProcessor.process      *)
(* around AmazonCheckoutService.runForOrder.  A run reads the row, looks   *)
(* at the sale on eBay, takes the row to RUNNING, walks the checkout and   *)
(* claims the Place Order click in the row before it sends it.  Several    *)
(* runs of one sale can overlap: the queue hands a job out again when its  *)
(* worker stops answering, and the seller can start the sale by hand while *)
(* an old run is still in its browser.                                     *)
(***************************************************************************)
EXTENDS OrderState

JobSale(w) == run[w].job.o
JobRow(w) == row[JobSale(w)]
WorkerKeeps == UNCHANGED <<worldVars, scanVars, ctl, cleared, starts, scans>>
OnlyRun == UNCHANGED <<row, slot, jobs, amazonVars, stalls>>

At(w, pc) == run[w].pc = pc
Goto(w, pc) == run' = [run EXCEPT ![w].pc = pc]
GotoBlock(w, pc, reason) == run' = [run EXCEPT ![w].pc = pc, ![w].reason = reason]
Finish(w) == run' = [run EXCEPT ![w] = NoRun]

(* A free worker takes a job. *)
Start(w) ==
  /\ At(w, "idle")
  /\ \E j \in jobs :
       /\ jobs' = jobs \ {j}
       /\ run' = [run EXCEPT ![w] = [NoRun EXCEPT !.pc = "read", !.job = j, !.owns = TRUE]]
  /\ UNCHANGED <<row, slot, amazonVars, stalls>> /\ WorkerKeeps

(***************************************************************************)
(* runForOrder up to RUNNING.                                              *)
(***************************************************************************)
ReadOrder(w) ==
  /\ At(w, "read")
  /\ LET decision == StartDecision(JobRow(w).af, JobRow(w).stamp) IN
       \/ decision = "skip" /\ Finish(w)
       \/ decision = "unknown_outcome" /\ Goto(w, "settle")
       \/ /\ decision = "proceed"
          /\ \/ IsRealAmazonOrder(JobRow(w).amazon) /\ Goto(w, "skip")
             \/ /\ ~IsRealAmazonOrder(JobRow(w).amazon)
                /\ JobRow(w).status = "cancelled"
                /\ GotoBlock(w, "skip", "order_cancelled")
             \/ /\ ~IsRealAmazonOrder(JobRow(w).amazon)
                /\ JobRow(w).status # "cancelled"
                /\ Goto(w, "check")
  /\ OnlyRun /\ WorkerKeeps

(* settleIfClickWasSent, asked by runForOrder: its answer is not used. *)
SettleStamped(w) ==
  /\ At(w, "settle")
  /\ IF JobRow(w).stamp = NotClicked \/ JobRow(w).af \in {"placed", "blocked"}
       THEN Finish(w)
       ELSE GotoBlock(w, "block", "interrupted")
  /\ OnlyRun /\ WorkerKeeps

(* Entitlement at execution; a failed billing read lets the run go on. *)
CheckEntitled(w) ==
  /\ At(w, "check")
  /\ \/ Goto(w, "look")
     \/ ~entitled /\ GotoBlock(w, "block", "subscription_suspended")
  /\ OnlyRun /\ WorkerKeeps

(* recheckBeforePurchase: the stored status and the live one are read ... *)
LookAtSale(w) ==
  /\ At(w, "look")
  /\ run' = [run EXCEPT ![w].pc = "recheck",
                        ![w].seen = [status |-> MergeSyncedStatus(JobRow(w).status, ebay[JobSale(w)].status),
                                     cancel |-> ebay[JobSale(w)].cancel]]
  /\ OnlyRun /\ WorkerKeeps

(* ... and the merge is written by a later statement, then judged. *)
RecheckSale(w) ==
  /\ At(w, "recheck")
  /\ row' = [row EXCEPT ![JobSale(w)].status = run[w].seen.status]
  /\ LET verdict == PrePurchase(run[w].seen.status, run[w].seen.cancel,
                                ebay[JobSale(w)].kind = "multi_item", run[w].job.no > 0)
         pc == CASE verdict.to = "skipped" -> "skip"
                 [] verdict.to = "blocked" -> "block"
                 [] OTHER                  -> "running"
     IN  run' = [run EXCEPT ![w].pc = pc, ![w].reason = verdict.reason, ![w].seen = NoReading]
  /\ UNCHANGED <<slot, jobs, amazonVars, stalls>> /\ WorkerKeeps

SetRunning(w) ==
  /\ At(w, "running")
  /\ SetStatus(JobSale(w), "running", NoReason)
  /\ Goto(w, "checkout")
  /\ UNCHANGED <<slot, jobs, amazonVars, stalls>> /\ WorkerKeeps

(* SKIPPED: bought some other way, cancelled, or no longer purchasable. *)
SetSkipped(w) ==
  /\ At(w, "skip")
  /\ SetStatus(JobSale(w), "skipped", run[w].reason)
  /\ Goto(w, "release")
  /\ UNCHANGED <<slot, jobs, amazonVars, stalls>> /\ WorkerKeeps

(***************************************************************************)
(* checkout(), steps 1 to 6: one outcome of the browser session.           *)
(***************************************************************************)
Checkout(w) ==
  /\ At(w, "checkout")
  /\ \/ \E reason \in Obstacles : GotoBlock(w, "block", reason)
     \/ TRUE \in DryRunModes /\ Goto(w, "simulate")
     \/ FALSE \in DryRunModes /\ Goto(w, "claim")
  /\ OnlyRun /\ WorkerKeeps

(* The dry run's bookkeeping; when its write fails, setStatus(DRY_RUN). *)
SimulatePlacement(w) ==
  /\ At(w, "simulate")
  /\ \/ row' = [row EXCEPT ![JobSale(w)].af = "dry_run", ![JobSale(w)].amazon = Simulated,
                           ![JobSale(w)].costs = TRUE]
     \/ SetStatus(JobSale(w), "dry_run", NoReason)
     \/ UNCHANGED row
  /\ Finish(w)
  /\ UNCHANGED <<slot, jobs, amazonVars, stalls>> /\ WorkerKeeps

MutClaimableStamped(r) ==          \* mutant: the stamp is not asked for
  r.af = "running" /\ ~IsRealAmazonOrder(r.amazon)

(***************************************************************************)
(* THE CLICK BOUNDARY.  The stamp is written by a compare-and-set on a     *)
(* RUNNING, unstamped row without a real Amazon order.                     *)
(***************************************************************************)
Claimable(r) ==
  /\ r.stamp = NotClicked
  /\ r.af = "running"
  /\ ~IsRealAmazonOrder(r.amazon)

ClaimClick(w) ==
  /\ At(w, "claim")
  /\ IF Claimable(JobRow(w))
       THEN LET n == claims[JobSale(w)] + 1 IN
              /\ claims' = [claims EXCEPT ![JobSale(w)] = n]
              /\ row' = [row EXCEPT ![JobSale(w)].stamp = n]
              /\ run' = [run EXCEPT ![w].pc = "click", ![w].claim = n]
       ELSE Goto(w, "lost") /\ UNCHANGED <<row, claims>>
  /\ UNCHANGED <<slot, jobs, bought, clicked, stalls>> /\ WorkerKeeps

(* Why the claim was lost is read by a second statement. *)
LostClaim(w) ==
  /\ At(w, "lost")
  /\ \/ IsRealAmazonOrder(JobRow(w).amazon) /\ GotoBlock(w, "skip", NoReason)
     \/ /\ ~IsRealAmazonOrder(JobRow(w).amazon)
        /\ IF JobRow(w).stamp # NotClicked
             THEN GotoBlock(w, "block", "interrupted")
             ELSE Goto(w, "escape")
  /\ OnlyRun /\ WorkerKeeps

(* The click; its own errors are swallowed.  Amazon takes the order or not. *)
ClickPlaceOrder(w) ==
  /\ At(w, "click")
  /\ clicked' = [clicked EXCEPT ![JobSale(w)] = @ \cup {run[w].claim}]
  /\ \/ bought' = [bought EXCEPT ![JobSale(w)] = @ \cup {run[w].claim}]
     \/ UNCHANGED bought
  /\ Goto(w, "confirm")
  /\ UNCHANGED <<row, slot, jobs, claims, stalls>> /\ WorkerKeeps

MutParseConfirmationClicksAgain(w) ==  \* mutant: unproven means click again
  /\ At(w, "confirm")
  /\ \/ Goto(w, "click")
     \/ /\ run[w].claim \in bought[JobSale(w)]
        /\ \E id \in BOOLEAN : run' = [run EXCEPT ![w].pc = "placed", ![w].id = id]
  /\ OnlyRun /\ WorkerKeeps

(* parseConfirmation and resolveOrderIdFromHistory: a proof needs an order. *)
ParseConfirmation(w) ==
  /\ At(w, "confirm")
  /\ \/ GotoBlock(w, "block", "no_confirmation")
     \/ /\ run[w].claim \in bought[JobSale(w)]
        /\ \E id \in BOOLEAN : run' = [run EXCEPT ![w].pc = "placed", ![w].id = id]
  /\ OnlyRun /\ WorkerKeeps

(* onPlaced: the full write, the minimal one, or neither; never rethrows. *)
OnPlaced(w) ==
  /\ At(w, "placed")
  /\ LET id == IF run[w].id THEN run[w].claim ELSE NoAmazonOrder IN
       \/ row' = [row EXCEPT ![JobSale(w)].af = "placed",
                             ![JobSale(w)].amazon = IF run[w].id THEN id ELSE @,
                             ![JobSale(w)].costs = run[w].id \/ @]
       \/ row' = [row EXCEPT ![JobSale(w)].af = "placed", ![JobSale(w)].amazon = id]
       \/ UNCHANGED row
  /\ Finish(w)
  /\ UNCHANGED <<slot, jobs, amazonVars, stalls>> /\ WorkerKeeps

(***************************************************************************)
(* block(): the status, then the slot, which is released best-effort.      *)
(***************************************************************************)
SetBlocked(w) ==
  /\ run[w].pc \in {"block", "settle_block"}
  /\ SetStatus(JobSale(w), "blocked", run[w].reason)
  /\ Goto(w, "release")
  /\ UNCHANGED <<slot, jobs, amazonVars, stalls>> /\ WorkerKeeps

ReleaseSlot(w) ==
  /\ At(w, "release")
  /\ Release(JobSale(w)) \/ UNCHANGED slot
  /\ Finish(w)
  /\ UNCHANGED <<row, jobs, amazonVars, stalls>> /\ WorkerKeeps

(***************************************************************************)
(* The processor's catch.  Any statement or reading before the click may   *)
(* throw, and so may the write of a block.                                 *)
(***************************************************************************)
MayThrow == {"read", "settle", "skip", "look", "recheck", "running",
             "checkout", "claim", "lost", "block"}

Throw(w) ==
  /\ run[w].pc \in MayThrow
  /\ Goto(w, "escape")
  /\ OnlyRun /\ WorkerKeeps

(* settleIfClickWasSent; a failure of this check falls through. *)
SettleEscaped(w) ==
  /\ At(w, "escape")
  /\ \/ Goto(w, "give_up")
     \/ /\ JobRow(w).stamp # NotClicked
        /\ IF JobRow(w).af \in {"placed", "blocked"}
             THEN Finish(w)
             ELSE GotoBlock(w, "settle_block", "interrupted")
  /\ OnlyRun /\ WorkerKeeps

SettleFails(w) == At(w, "settle_block") /\ Goto(w, "give_up") /\ OnlyRun /\ WorkerKeeps

IsLast(w) == run[w].job.attempt = Attempts

(* FAILED on the last attempt, else PENDING: both spare a stamped row. *)
HandBack(w, af) ==
  \/ /\ JobRow(w).stamp = NotClicked
     /\ row' = [row EXCEPT ![JobSale(w)].af = af]
  \/ UNCHANGED row

MutGiveUpForEver(w) ==             \* mutant: attempts are not counted
  /\ At(w, "give_up")
  /\ HandBack(w, "pending")
  /\ jobs' = IF run[w].owns THEN jobs \cup {run[w].job} ELSE jobs
  /\ Finish(w)
  /\ UNCHANGED <<slot, amazonVars, stalls>> /\ WorkerKeeps

GiveUp(w) ==
  /\ At(w, "give_up")
  /\ \/ /\ IsLast(w)
        /\ HandBack(w, "failed")
        /\ Goto(w, "release")
        /\ UNCHANGED jobs
     \/ /\ ~IsLast(w)
        /\ HandBack(w, "pending")
        /\ jobs' = IF run[w].owns
                     THEN jobs \cup {[run[w].job EXCEPT !.attempt = @ + 1]} ELSE jobs
        /\ Finish(w)
  /\ UNCHANGED <<slot, amazonVars, stalls>> /\ WorkerKeeps

(***************************************************************************)
(* The queue loses touch with a worker: the job is handed out again and    *)
(* the old run goes on; or the process dies, and the job is handed out     *)
(* again or, past its stall limit, dropped.                                *)
(***************************************************************************)
Stall(w) ==
  /\ run[w].pc # "idle" /\ run[w].owns
  /\ stalls < MaxStalls
  /\ stalls' = stalls + 1
  /\ jobs' = jobs \cup {run[w].job}
  /\ run' = [run EXCEPT ![w].owns = FALSE]
  /\ UNCHANGED <<row, slot, amazonVars>> /\ WorkerKeeps

Die(w) ==
  /\ run[w].pc # "idle"
  /\ stalls < MaxStalls
  /\ stalls' = stalls + 1
  /\ \/ run[w].owns /\ jobs' = jobs \cup {run[w].job}
     \/ UNCHANGED jobs
  /\ Finish(w)
  /\ UNCHANGED <<row, slot, amazonVars>> /\ WorkerKeeps

RunStep(w) ==
  \/ Start(w) \/ ReadOrder(w) \/ SettleStamped(w) \/ CheckEntitled(w)
  \/ LookAtSale(w) \/ RecheckSale(w) \/ SetRunning(w) \/ SetSkipped(w)
  \/ Checkout(w) \/ SimulatePlacement(w) \/ ClaimClick(w) \/ LostClaim(w)
  \/ ClickPlaceOrder(w) \/ ParseConfirmation(w) \/ OnPlaced(w)
  \/ SetBlocked(w) \/ ReleaseSlot(w) \/ Throw(w)
  \/ SettleEscaped(w) \/ SettleFails(w) \/ GiveUp(w)

WorkerStep(w) == RunStep(w) \/ Stall(w) \/ Die(w)
=============================================================================
