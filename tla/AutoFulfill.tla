---------------------------- MODULE AutoFulfill -----------------------------
(***************************************************************************)
(* Automatic purchasing as a whole: workers, sync jobs, the seller's       *)
(* requests and the Amazon scan around one row per sale, in a world where  *)
(* the sale moves on eBay, the subscription lapses and the seller may buy  *)
(* the item by hand.                                                       *)
(***************************************************************************)
EXTENDS CheckoutRun, OrderSync, CostCapture

WorldKeeps == UNCHANGED <<slot, jobs, run, ctl, scanVars, claims, clicked, cleared, countVars>>

(* eBay moves a sale on; it never reports completed. *)
SaleMoves(o) ==
  /\ \E to \in LiveStatuses :
       /\ \/ ebay[o].status = "pending" /\ to \in {"waiting_shipment", "cancelled"}
          \/ ebay[o].status = "waiting_shipment" /\ to \in {"processing", "shipped", "cancelled"}
          \/ ebay[o].status = "processing" /\ to = "shipped"
       /\ ebay' = [ebay EXCEPT ![o].status = to]
  /\ UNCHANGED <<entitled, row, bought>> /\ WorldKeeps

BuyerAsksCancel(o) ==
  /\ "cancelled" \in LiveStatuses
  /\ ebay[o].status \in {"pending", "waiting_shipment"} /\ ~ebay[o].cancel
  /\ ebay' = [ebay EXCEPT ![o].cancel = TRUE]
  /\ UNCHANGED <<entitled, row, bought>> /\ WorldKeeps

SubscriptionTurns ==
  /\ MayLapse
  /\ entitled' = ~entitled
  /\ UNCHANGED <<ebay, row, bought>> /\ WorldKeeps

(* The seller buys on Amazon himself, at any time. *)
BuyByHand(o) ==
  /\ ByHand /\ row[o].known
  /\ bought' = [bought EXCEPT ![o] = @ \cup {HandPurchase}]
  /\ bought' # bought
  /\ UNCHANGED <<worldVars, row>> /\ WorldKeeps

MutLinkByHandUnstamps(o) ==      \* mutant: a link settles the click and takes its stamp off
  /\ ByHand /\ entitled /\ row[o].known
  /\ \E n \in bought[o], costs \in BOOLEAN :
       row' = [row EXCEPT ![o].amazon = n, ![o].stamp = NotClicked,
                          ![o].costs = costs \/ (@ /\ row[o].amazon = n)]
  /\ UNCHANGED <<worldVars, bought>> /\ WorldKeeps

(***************************************************************************)
(* POST link (amazon.controller.ts): the seller names a purchase he sees   *)
(* on Amazon.  The automatic status is not touched.  Its costs are read    *)
(* with it, or are left to the scan.                                       *)
(***************************************************************************)
LinkByHand(o) ==
  /\ ByHand /\ entitled /\ row[o].known
  /\ \E n \in bought[o], costs \in BOOLEAN :
       row' = [row EXCEPT ![o].amazon = n,
                          ![o].costs = costs \/ (@ /\ row[o].amazon = n)]
  /\ UNCHANGED <<worldVars, bought>> /\ WorldKeeps

World ==
  \/ \E o \in Orders : \/ SaleMoves(o) \/ BuyerAsksCancel(o)
                       \/ BuyByHand(o) \/ LinkByHand(o)
  \/ SubscriptionTurns

Next ==
  \/ \E w \in Workers : WorkerStep(w)
  \/ \E c \in Threads : ThreadStep(c)
  \/ ScanStep
  \/ World

Spec == Init /\ [][Next]_vars

(***************************************************************************)
(* Fairness.  A worker and a thread that have started go on; the 20-minute *)
(* order sync comes round for ever, so a row that stays RUNNING meets the  *)
(* stale sweep whenever a thread is free for it again and again.           *)
(***************************************************************************)
Fairness ==
  /\ \A w \in Workers : WF_vars(RunStep(w))
  /\ \A c \in Threads : WF_vars(ctl[c].pc # "idle" /\ ThreadStep(c))
  /\ \A o \in Orders : SF_vars(\E c \in Threads : SettleStale(c, o))

FairSpec == Spec /\ Fairness

(***************************************************************************)
(* What must never happen.                                                 *)
(***************************************************************************)

(* Every purchase a click of the automation made stands under the click    *)
(* stamp of its row, unless the seller declared that very click "not       *)
(* purchased".  So no crash, stall, retry, re-arming sweep or overlapping  *)
(* run buys a sale twice on its own (the click boundary of checkout()).    *)
PurchasesAccounted ==
  \A o \in Orders : \A n \in bought[o] \ {HandPurchase} :
    row[o].stamp = n \/ n \in cleared[o]

(* A sale with a purchase that was neither shown nor declared absent is    *)
(* never offered to the seller as something to buy, and neither a job, the *)
(* sweep nor the button may start it again (deriveOrderStage: "it must     *)
(* never read as to purchase").                                            *)
NeverOfferedAgain ==
  \A o \in Orders :
    (\E n \in bought[o] \ {HandPurchase} : n \notin cleared[o]) =>
      /\ OrderStage(row[o]) \notin {"to_purchase", "purchase_blocked", "awaiting_payment"}
      /\ StartDecision(row[o].af, row[o].stamp) # "proceed"
      /\ ~Resumable(row[o]) /\ ~AwaitsPayment(row[o])
      /\ ~CanStartManually(row[o], TRUE, FALSE, FALSE)

(* Several items in one eBay order are never bought, and neither is a sale *)
(* of no listing of ours, although the unpaid-order sweep re-arms sales    *)
(* without asking the gate again (decidePrePurchase is the second check).  *)
UnfitSaleNeverClicked ==
  \A o \in Orders : ebay[o].kind \in {"multi_item", "untracked"} => clicked[o] = {}

(* A worker never takes a row out of PLACED: not the loser of the click    *)
(* claim, not a retry, not a run that outlived its job (setStatus: "NEVER  *)
(* moves a row out of PLACED").                                            *)
WorkerKeepsPlaced ==
  [][run' # run => \A o \in Orders : row[o].af = "placed" => row'[o].af = "placed"]_vars

(* The first time the seller declares a click of a sale "not purchased",   *)
(* the account's order list has been read after the claim of that click:   *)
(* the watermark is the start of the scan, taken before the list is read   *)
(* and stored last (runForAccount, confirmNotPurchased: "scanned AFTER").  *)
FirstDeclarationScanned ==
  [][\A o \in Orders :
       row[o].stamp # NotClicked /\ row'[o].stamp = NotClicked /\ cleared[o] = {} =>
         listed[o] >= row[o].stamp]_vars

(* The click protocol is PurchaseOnce: the stamp is the standing claim.    *)
Once == INSTANCE PurchaseOnce WITH
  standing <- [o \in Orders |-> row[o].stamp],
  last <- claims,
  sent <- clicked,
  purchases <- [o \in Orders |-> bought[o] \ {HandPurchase}]

(* Refinement: whatever sweeps, retries and overlapping runs do to the     *)
(* status, the stamp is claimed, sent and cleared as PurchaseOnce says.    *)
ImplementsPurchaseOnce == Once!Spec

(***************************************************************************)
(* What must happen.                                                       *)
(***************************************************************************)

(* No sale reads "buying" under a RUNNING row for ever: a run whose worker *)
(* died, whose last write failed or whose purchase could not be stored is  *)
(* settled (settleStaleRunningAutoFulfill: "Nothing else ever moves such   *)
(* a row").                                                                *)
RunningSettles ==
  \A o \in Orders : row[o].af = "running" ~> row[o].af # "running"

(* A job of a sale ends: its attempts run out, whatever throws.            *)
JobsEnd ==
  \A o \in Orders :
    (\E j \in jobs : j.o = o) ~>
      ~(\E j \in jobs : j.o = o) /\ \A w \in Workers : run[w].job.o = o => run[w].pc = "idle"
=============================================================================
