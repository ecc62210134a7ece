----------------------------- MODULE OrderRules -----------------------------
(***************************************************************************)
(* The pure rules of automatic purchasing: every yes/no decision the       *)
(* order pipeline takes from one order row and one eBay reading.  They are *)
(* the functions of auto-fulfill-helpers.ts, manual-auto-fulfill.ts,       *)
(* fulfillment-state.ts and ebay-order-changes.ts, which the code keeps    *)
(* free of I/O so that the sweep, the worker, the button and the page      *)
(* decide alike.  AutoFulfill applies them to the shared row.              *)
(***************************************************************************)
EXTENDS Integers

(***************************************************************************)
(* Enumerations (orders.types.ts).  A reason is the empty string when the  *)
(* column is NULL.                                                         *)
(***************************************************************************)
OrderStatus == {"pending", "waiting_shipment", "processing", "shipped",
                "completed", "cancelled"}

AutoFulfillStatus == {"pending", "running", "placed", "blocked", "failed",
                      "dry_run", "skipped"}

NoReason == ""

RetryableReasons ==
  {"no_asin", "captcha", "otp", "login", "out_of_stock", "address", "payment",
   "cap", "proxy_required", "quota_exhausted", "subscription_suspended",
   "cart", "review_unreadable", "cancel_requested", "loss_limit"}

UnknownOutcomeReasons == {"no_confirmation", "interrupted"}

SkipReasons ==
  {"order_cancelled", "order_already_fulfilled", "order_not_paid",
   "listing_over_plan_limit", "multi_item_order"}

Reasons == RetryableReasons \cup UnknownOutcomeReasons \cup SkipReasons
           \cup {NoReason}

(***************************************************************************)
(* What the column amazon_order_id holds.  NULL and the dry run's SIM-     *)
(* placeholder are not purchases.  A purchase is numbered: 0 for the one   *)
(* the seller made by hand, n > 0 for the one the n-th Place Order click   *)
(* of the automation produced.                                             *)
(***************************************************************************)
NoAmazonOrder == -2
Simulated     == -1
HandPurchase  == 0
AmazonOrderId == Int
IsRealAmazonOrder(id) == id >= HandPurchase

(* The click stamp (auto_fulfill_submitted_at): 0 for NULL, else the number *)
(* of the click it was written for.                                        *)
NotClicked == 0

(***************************************************************************)
(* eBay's coarse status against the one held locally.                      *)
(***************************************************************************)
StatusRank ==
  [s \in OrderStatus |->
     CASE s = "pending"          -> 0
       [] s = "waiting_shipment" -> 1
       [] s = "processing"       -> 2
       [] s = "shipped"          -> 3
       [] s = "completed"        -> 4
       [] s = "cancelled"        -> 5]

MergeSyncedStatus(current, incoming) ==
  IF incoming = "cancelled" THEN incoming
  ELSE IF current = "cancelled" THEN current
  ELSE IF StatusRank[incoming] >= StatusRank[current] THEN incoming
  ELSE current

AlreadyFulfilled(status) == status \in {"shipped", "completed", "processing"}

(* NoReason: a purchase may be made for a sale in this state. *)
IneligibleReason(status) ==
  CASE status = "cancelled"        -> "order_cancelled"
    [] AlreadyFulfilled(status)    -> "order_already_fulfilled"
    [] status = "waiting_shipment" -> NoReason
    [] OTHER                       -> "order_not_paid"

MutPrePurchaseAnyCount(status, cancelRequested, multiItem, manual) ==
  IF IneligibleReason(status) # NoReason   \* mutant: items are not counted
    THEN [to |-> "skipped", reason |-> IneligibleReason(status)]
  ELSE IF cancelRequested /\ ~manual
    THEN [to |-> "blocked", reason |-> "cancel_requested"]
  ELSE [to |-> "running", reason |-> NoReason]

(* The last look at the sale before the checkout. *)
PrePurchase(status, cancelRequested, multiItem, manual) ==
  IF IneligibleReason(status) # NoReason
    THEN [to |-> "skipped", reason |-> IneligibleReason(status)]
  ELSE IF multiItem
    THEN [to |-> "skipped", reason |-> "multi_item_order"]
  ELSE IF cancelRequested /\ ~manual
    THEN [to |-> "blocked", reason |-> "cancel_requested"]
  ELSE [to |-> "running", reason |-> NoReason]

(***************************************************************************)
(* What a starting job does with the stored row.                           *)
(***************************************************************************)
SkipAtStart(af) == af \in {"placed", "blocked", "dry_run", "skipped"}

MutStartDecisionStatusOnly(af, stamp) ==   \* mutant: the stamp is not read
  IF SkipAtStart(af) THEN "skip" ELSE "proceed"

StartDecision(af, stamp) ==
  IF af = "placed" THEN "skip"
  ELSE IF stamp # NotClicked THEN "unknown_outcome"
  ELSE IF SkipAtStart(af) THEN "skip"
  ELSE "proceed"

(***************************************************************************)
(* Which rows the suspension sweep may re-arm, which the seller may start  *)
(* by hand, and when the seller may declare a click "not bought".          *)
(***************************************************************************)
Resumable(r) ==
  /\ r.af = "blocked"
  /\ r.reason = "subscription_suspended"
  /\ r.amazon = NoAmazonOrder
  /\ r.stamp = NotClicked
  /\ r.status \notin {"shipped", "completed", "cancelled"}

AwaitsPayment(r) ==
  /\ r.af = "skipped"
  /\ r.reason = "order_not_paid"
  /\ r.amazon = NoAmazonOrder
  /\ r.stamp = NotClicked

CanStartManually(r, tracked, overLimit, multiItem) ==
  /\ r.status = "waiting_shipment"
  /\ tracked /\ ~overLimit
  /\ ~IsRealAmazonOrder(r.amazon)
  /\ r.stamp = NotClicked
  /\ ~multiItem
  /\ \/ r.af = "blocked" /\ r.reason \in RetryableReasons
     \/ r.af \in {"failed", "dry_run"}
     \/ r.af = "skipped" /\ r.reason = NoReason

(* The row is in the unknown-outcome state ... *)
PurchaseUnknown(r) ==
  /\ r.stamp # NotClicked
  /\ r.amazon = NoAmazonOrder
  /\ r.status = "waiting_shipment"
  /\ r.af \notin {"placed", "pending", "running"}

(* ... and its account's order list was read after the click. *)
MayConfirmNotPurchased(r, scannedTo) ==
  PurchaseUnknown(r) /\ scannedTo >= r.stamp

MutOrderStageBlockedFirst(r) ==    \* mutant: a block outranks the click
  IF r.status = "cancelled" THEN "cancelled"
  ELSE IF r.af \in {"blocked", "failed"} THEN "purchase_blocked"
  ELSE IF r.stamp # NotClicked THEN "purchase_unknown"
  ELSE "to_purchase"

(***************************************************************************)
(* The stage the seller sees, from the fields this model has: no Amazon    *)
(* cancellation and no tracking.                                           *)
(***************************************************************************)
OrderStage(r) ==
  IF r.status = "cancelled" THEN "cancelled"
  ELSE IF r.status = "completed" THEN "delivered"
  ELSE IF r.amazon = Simulated \/ (r.af = "dry_run" /\ r.amazon = NoAmazonOrder) THEN "test_run"
  ELSE IF r.status \in {"shipped", "processing"} THEN "shipped"
  ELSE IF r.af \in {"pending", "running"} THEN "buying"
  ELSE IF r.amazon # NoAmazonOrder \/ r.af = "placed" THEN "purchased"
  ELSE IF r.stamp # NotClicked THEN "purchase_unknown"
  ELSE IF r.af \in {"blocked", "failed"} THEN "purchase_blocked"
  ELSE IF r.status = "pending" THEN "awaiting_payment"
  ELSE "to_purchase"
=============================================================================
