----------------------------- MODULE StockSync -----------------------------
(***************************************************************************)
(* Keeping eBay in step with Amazon for one product and its listings: the  *)
(* refresh claims the product and reads Amazon, sales and edits queue      *)
(* stock-sync jobs, both recompute the listings and push what moved, and   *)
(* the clean-up sweep, the seller and eBay end listings.  Each listing     *)
(* sells on a store of its own.                                            *)
(***************************************************************************)
EXTENDS Naturals, FiniteSets

CONSTANTS
  Listings,
  Cap,              \* most a listing offers of the product (its settings group)
  MaxStock,         \* bound: Amazon's stock
  MaxMoves,         \* bound: changes of Amazon's stock
  MaxSales,         \* bound: sales
  MaxBuckets,       \* bound: windows of five seconds
  MaxClaims,        \* bound: refresh batches of the product waiting at once
  Pausable,         \* listings whose seller may pause sales
  Cleaned           \* listings whose group ends them when out of stock

ASSUME StockSyncAssumption ==
  /\ Cap \in [Listings -> Nat] /\ Pausable \subseteq Listings /\ Cleaned \subseteq Listings
  /\ {MaxStock, MaxMoves, MaxSales, MaxBuckets, MaxClaims} \subseteq Nat /\ MaxBuckets >= 1
  /\ IsFiniteSet(Listings)

SaleJobs == [bucket : 1..MaxBuckets]
EditJobs == [listing : Pausable]
Jobs == SaleJobs \cup EditJobs
Refresh == [batch |-> "refresh"]
Workers == Jobs \cup {Refresh}

VARIABLES
  amazon,     \* Amazon's stock, and how often it moved
  sales,      \* sales so far, whether the last one still owes its job, the present window
  product,    \* products: stock, and when the refresh is due
  row,        \* listings: status, quantity, paused (disable_ordering)
  shop,       \* what eBay holds: live, quantity
  claims,     \* refresh batches waiting
  jobs,       \* the stock-sync jobs BullMQ knows
  work,       \* what each worker is doing
  sweep,      \* the clean-up: candidates, and those withdrawn
  ending,     \* listings the seller ended on eBay, not yet written
  trust       \* history: "crossed" while pushes of two workers for the listing are on
              \* their way, then "astray", as after a push that landed and was not
              \* written; "sure" again once a push that met no other is written

env == <<amazon, sales>>
worker == <<claims, jobs, work>>
ends == <<sweep, ending, trust>>
vars == <<amazon, sales, product, row, shop, claims, jobs, work, sweep, ending, trust>>

Least(m, n) == IF m < n THEN m ELSE n
NoPush == [l \in Listings |-> [st |-> "none", qty |-> 0]]
Off == [pc |-> "off", stock |-> 0, push |-> NoPush]

Init ==
  /\ amazon = [stock |-> MaxStock, moves |-> 0]
  /\ sales = [n |-> 0, owes |-> FALSE, bucket |-> 1]
  /\ product = [stock |-> MaxStock, due |-> "due"]
  /\ row = [l \in Listings |-> [status |-> "active", qty |-> Least(MaxStock, Cap[l]),
                                paused |-> FALSE]]
  /\ shop = [l \in Listings |-> [live |-> TRUE, qty |-> Least(MaxStock, Cap[l])]]
  /\ claims = 0
  /\ jobs = [j \in Jobs |-> "absent"]
  /\ work = [w \in Workers |-> Off]
  /\ sweep = [open |-> {}, gone |-> {}]
  /\ ending = {}
  /\ trust = [l \in Listings |-> "sure"]

-----------------------------------------------------------------------------
(* The world: Amazon, the clock, the buyers and sellers, eBay.             *)

AmazonMoves ==
  /\ amazon.moves < MaxMoves
  /\ \E n \in (0..MaxStock) \ {amazon.stock} : amazon' = [stock |-> n, moves |-> amazon.moves + 1]
  /\ UNCHANGED <<sales, product, row, shop, worker, ends>>

(* Another window; one without a job is no different from the next.        *)
NextBucket ==
  /\ sales.bucket < MaxBuckets /\ jobs[[bucket |-> sales.bucket]] # "absent"
  /\ sales' = [sales EXCEPT !.bucket = @ + 1]
  /\ UNCHANGED <<amazon, product, row, shop, worker, ends>>

MutComesDue ==              \* mutant: a claim is no lease, only a written product comes due
  /\ product.due = "later"
  /\ product' = [product EXCEPT !.due = "due"]
  /\ UNCHANGED <<env, row, shop, worker, ends>>

(* The lease of a claim ends, or the interval to the next refresh.         *)
ComesDue ==
  /\ product.due # "due"
  /\ product' = [product EXCEPT !.due = "due"]
  /\ UNCHANGED <<env, row, shop, worker, ends>>

(* A buyer takes one of the offered quantity, and the order sync records   *)
(* the sale: decrementStock, ...                                           *)
Sale(l) ==
  /\ sales.n < MaxSales /\ ~sales.owes /\ shop[l].live /\ shop[l].qty > 0
  /\ shop' = [shop EXCEPT ![l].qty = @ - 1]
  /\ sales' = [sales EXCEPT !.n = @ + 1, !.owes = TRUE]
  /\ product' = [product EXCEPT !.stock = IF @ = 0 THEN 0 ELSE @ - 1]
  /\ UNCHANGED <<amazon, row, worker, ends>>

(* ... then enqueueProductStockSync: BullMQ ignores an id it still knows,  *)
(* and keeps that of a finished job for longer than the window.            *)
EnqueueSync ==
  /\ sales.owes
  /\ sales' = [sales EXCEPT !.owes = FALSE]
  /\ LET j == [bucket |-> sales.bucket] IN
     jobs' = IF jobs[j] = "absent" THEN [jobs EXCEPT ![j] = "waiting"] ELSE jobs
  /\ UNCHANGED <<amazon, product, row, shop, claims, work, ends>>

(* The seller pauses sales; the job of an edit has an id of its own.       *)
Pause(l) ==
  /\ l \in Pausable /\ row[l].status = "active" /\ ~row[l].paused
  /\ row' = [row EXCEPT ![l].paused = TRUE]
  /\ jobs' = [jobs EXCEPT ![[listing |-> l]] = "waiting"]
  /\ UNCHANGED <<env, product, shop, claims, work, ends>>

(* endListings: eBay first, then the row. *)
EndOnEbay(l) ==
  /\ row[l].status = "active" /\ l \notin ending
  /\ shop' = [shop EXCEPT ![l].live = FALSE]
  /\ ending' = ending \cup {l}
  /\ UNCHANGED <<env, product, row, worker, sweep, trust>>

EndRow(l) ==
  /\ l \in ending
  /\ row' = [row EXCEPT ![l].status = "inactive"]
  /\ ending' = ending \ {l}
  /\ UNCHANGED <<env, product, shop, worker, sweep, trust>>

(* eBay ends it, or the seller in Seller Hub. *)
EbayEnds(l) ==
  /\ shop[l].live
  /\ shop' = [shop EXCEPT ![l].live = FALSE]
  /\ UNCHANGED <<env, product, row, worker, ends>>

-----------------------------------------------------------------------------
(* The refresh: claim, batch, and what it makes of Amazon's answer.        *)

Active == {l \in Listings : row[l].status = "active"}
Step(w, pc) == work' = [work EXCEPT ![w] = [Off EXCEPT !.pc = pc]]
Reads == [Off EXCEPT !.pc = "fetch", !.stock = product.stock]

(* selectRefreshBatch: the claim is a lease. *)
Claim ==
  /\ product.due = "due" /\ Active # {} /\ claims < MaxClaims
  /\ product' = [product EXCEPT !.due = "leased"]
  /\ claims' = claims + 1
  /\ UNCHANGED <<env, row, shop, jobs, work, ends>>

(* refreshBatch reads the product rows. *)
StartBatch ==
  /\ claims > 0 /\ work[Refresh].pc = "off"
  /\ claims' = claims - 1
  /\ work' = [work EXCEPT ![Refresh] = Reads]
  /\ UNCHANGED <<env, product, row, shop, jobs, ends>>

FetchFound ==
  /\ work[Refresh].pc = "fetch"
  /\ work' = [work EXCEPT ![Refresh].pc = "apply", ![Refresh].stock = amazon.stock]
  /\ UNCHANGED <<env, product, row, shop, claims, jobs, ends>>

(* Stock unknown: the plan keeps the stock the batch read.  A blocked page *)
(* and an ASIN without data leave the stored one.  An outage: BullMQ       *)
(* starts the batch again, or has done so often enough.                    *)
FetchFails ==
  /\ work[Refresh].pc = "fetch"
  /\ \/ work' = [work EXCEPT ![Refresh].pc = "apply"]
     \/ \E pc \in {"compute", "nodata", "off"} : Step(Refresh, pc)
     \/ work' = [work EXCEPT ![Refresh] = Reads]
  /\ UNCHANGED <<env, product, row, shop, claims, jobs, ends>>

MutApply ==                 \* mutant: "out of stock" is taken for "unknown" and not stored
  /\ work[Refresh].pc = "apply"
  /\ product' = [stock |-> IF work[Refresh].stock = 0 THEN product.stock ELSE work[Refresh].stock, due |-> "later"]
  /\ Step(Refresh, "compute")
  /\ UNCHANGED <<env, row, shop, claims, jobs, ends>>

(* applyScraperPlan, applyKeepaProduct *)
Apply ==
  /\ work[Refresh].pc = "apply"
  /\ product' = [stock |-> work[Refresh].stock, due |-> "later"]
  /\ Step(Refresh, "compute")
  /\ UNCHANGED <<env, row, shop, claims, jobs, ends>>

(* handleDataFailure: the next refresh backs off. *)
DataFailure ==
  /\ work[Refresh].pc = "nodata"
  /\ product' = [product EXCEPT !.due = "later"]
  /\ Step(Refresh, "compute")
  /\ UNCHANGED <<env, row, shop, claims, jobs, ends>>

-----------------------------------------------------------------------------
(* Recompute and push: computePendingUpdates, flushUpdates.                *)

StartSync(j) ==
  /\ jobs[j] = "waiting"
  /\ jobs' = [jobs EXCEPT ![j] = "active"]
  /\ Step(j, "compute")
  /\ UNCHANGED <<env, product, row, shop, claims, ends>>

Pushing(w) == work[w].pc = "push"
Scope(w) == IF w \in EditJobs THEN {w.listing} ELSE Listings
Want(l) == IF row[l].paused THEN 0 ELSE Least(product.stock, Cap[l])

(* The stock-sync queue runs three jobs at once, beside the refresh, and   *)
(* no lock keeps their pushes for one listing apart.                       *)
OnItsWay(w, l) == work[w].push[l].st # "none"
Another(w, l) == \E v \in Workers \ {w} : OnItsWay(v, l)

(* Only a listing that moved is sent (hasCommerceDelta). *)
Compute(w) ==
  /\ work[w].pc = "compute"
  /\ LET moved == {l \in Scope(w) \cap Active : row[l].qty # Want(l)} IN
     /\ work' = [work EXCEPT ![w].pc = "push", ![w].push =
          [l \in Listings |-> IF l \in moved THEN [st |-> "send", qty |-> Want(l)] ELSE NoPush[l]]]
     /\ trust' = [l \in Listings |-> IF l \in moved /\ Another(w, l) THEN "crossed" ELSE trust[l]]
  /\ UNCHANGED <<env, product, row, shop, claims, jobs, sweep, ending>>

Answered(w, l, st) == work' = [work EXCEPT ![w].push[l].st = st]
GoesAstray(l) == trust' = [trust EXCEPT ![l] = IF @ = "crossed" THEN @ ELSE "astray"]

(* updatePriceQuantity; eBay may take the push and the answer be lost.     *)
PushLands(w, l) ==
  /\ work[w].push[l].st = "send" /\ shop[l].live
  /\ shop' = [shop EXCEPT ![l].qty = work[w].push[l].qty]
  /\ \/ Answered(w, l, "ok") /\ UNCHANGED trust
     \/ Answered(w, l, "failed") /\ GoesAstray(l)
  /\ UNCHANGED <<env, product, row, claims, jobs, sweep, ending>>

MutPushFails(w, l) ==       \* mutant: a call eBay never answered reads as an ended listing
  /\ work[w].push[l].st = "send"
  /\ Answered(w, l, "gone")
  /\ UNCHANGED <<env, product, row, shop, claims, jobs, ends>>

(* Refused, or never sent; or eBay says there is no such offer.            *)
PushFails(w, l) ==
  /\ work[w].push[l].st = "send"
  /\ Answered(w, l, "failed") \/ (~shop[l].live /\ Answered(w, l, "gone"))
  /\ UNCHANGED <<env, product, row, shop, claims, jobs, ends>>

Settle(w, l, written) ==
  /\ work' = [work EXCEPT ![w].push[l] = NoPush[l]]
  /\ trust' = [trust EXCEPT ![l] =
       CASE @ = "crossed" -> IF Another(w, l) THEN "crossed" ELSE "astray"
         [] @ # "crossed" /\ work[w].push[l].st = "ok" -> IF written THEN "sure" ELSE "astray"
         [] OTHER -> @]

MutPersist(w, l) ==         \* mutant: the quantity is written whatever eBay said
  /\ work[w].push[l].st \in {"ok", "failed", "gone"}
  /\ row' = [row EXCEPT ![l].qty = work[w].push[l].qty]
  /\ Settle(w, l, TRUE)
  /\ UNCHANGED <<env, product, shop, claims, jobs, sweep, ending>>

(* persistApplied, markListingsEnded; when the write fails (or the process *)
(* died before it) the answer is lost: allSettled swallows the error.      *)
Persist(w, l) ==
  /\ work[w].push[l].st \in {"ok", "failed", "gone"}
  /\ \E written \in BOOLEAN :
       /\ row' = CASE written /\ work[w].push[l].st = "ok" ->
                        [row EXCEPT ![l].qty = work[w].push[l].qty]
                   [] written /\ work[w].push[l].st = "gone" ->
                        [row EXCEPT ![l].status = "inactive"]
                   [] OTHER -> row
       /\ Settle(w, l, written)
  /\ UNCHANGED <<env, product, shop, claims, jobs, sweep, ending>>

Flushed(w) ==
  /\ Pushing(w) /\ \A l \in Listings : work[w].push[l].st = "none"
  /\ work' = [work EXCEPT ![w] = Off]
  /\ jobs' = IF w \in Jobs THEN [jobs EXCEPT ![w] = "done"] ELSE jobs
  /\ UNCHANGED <<env, product, row, shop, claims, ends>>

-----------------------------------------------------------------------------
(* The clean-up sweep: candidates out of stock and not paused (for how     *)
(* long, and the day a refused one is left alone, is time left out), then  *)
(* one withdrawal and one write for each.                                  *)

Sweep ==
  /\ sweep.open = {} /\ sweep.gone = {}
  /\ \E due \in SUBSET {l \in Active \cap Cleaned : row[l].qty = 0 /\ ~row[l].paused} :
        due # {} /\ sweep' = [sweep EXCEPT !.open = due]
  /\ UNCHANGED <<env, product, row, shop, worker, ending, trust>>

(* withdrawOffer: ended, or found ended; or refused.                       *)
Withdraw(l) ==
  /\ l \in sweep.open /\ sweep.gone = {}
  /\ \/ /\ shop' = [shop EXCEPT ![l].live = FALSE]
        /\ sweep' = [sweep EXCEPT !.open = @ \ {l}, !.gone = {l}]
     \/ /\ shop[l].live
        /\ sweep' = [sweep EXCEPT !.open = @ \ {l}]
        /\ UNCHANGED shop
  /\ UNCHANGED <<env, product, row, worker, ending, trust>>

SweepWrites(l) ==
  /\ l \in sweep.gone
  /\ row' = [row EXCEPT ![l].status = "inactive"]
  /\ sweep' = [sweep EXCEPT !.gone = {}]
  /\ UNCHANGED <<env, product, shop, worker, ending, trust>>

-----------------------------------------------------------------------------
World ==
  \/ AmazonMoves \/ NextBucket
  \/ \E l \in Listings : Sale(l) \/ Pause(l) \/ EndOnEbay(l) \/ EndRow(l) \/ EbayEnds(l)

Cleanup == Sweep \/ \E l \in Listings : Withdraw(l) \/ SweepWrites(l)

Push(w) == Flushed(w) \/ \E l \in Listings : PushLands(w, l) \/ PushFails(w, l) \/ Persist(w, l)

RefreshRuns == Claim \/ StartBatch \/ FetchFound \/ FetchFails \/ Apply \/ DataFailure

Next ==
  \/ World \/ Cleanup \/ ComesDue \/ EnqueueSync \/ RefreshRuns
  \/ \E j \in Jobs : StartSync(j)
  \/ \E w \in Workers : Compute(w) \/ Push(w)

Spec == Init /\ [][Next]_vars

(* The clock moves, a refresh goes on and gets its turn, a push that is    *)
(* under way is seen through, and Amazon and eBay do not refuse a refresh  *)
(* for ever.  Nothing is asked of the stock-sync queue: the refresh alone  *)
(* has to put things right.                                                *)
FairSpec ==
  /\ Spec
  /\ WF_vars(ComesDue) /\ WF_vars(RefreshRuns) /\ SF_vars(FetchFound)
  /\ WF_vars(Compute(Refresh)) /\ \A w \in Workers : WF_vars(Push(w))
  /\ \A l \in Listings : SF_vars(PushLands(Refresh, l))

-----------------------------------------------------------------------------
(* Every variable has its type. *)
TypeOK ==
  /\ amazon \in [stock : 0..MaxStock, moves : 0..MaxMoves]
  /\ sales \in [n : 0..MaxSales, owes : BOOLEAN, bucket : 1..MaxBuckets]
  /\ product \in [stock : 0..MaxStock, due : {"due", "leased", "later"}]
  /\ row \in [Listings -> [status : {"active", "inactive"}, qty : 0..MaxStock, paused : BOOLEAN]]
  /\ shop \in [Listings -> [live : BOOLEAN, qty : 0..MaxStock]]
  /\ claims \in 0..MaxClaims
  /\ jobs \in [Jobs -> {"absent", "waiting", "active", "done"}]
  /\ work \in [Workers -> [pc : {"off", "fetch", "apply", "nodata", "compute", "push"}, stock : 0..MaxStock,
                           push : [Listings -> [st : {"none", "send", "ok", "failed", "gone"}, qty : 0..MaxStock]]]]
  /\ sweep \in [open : SUBSET Listings, gone : SUBSET Listings]
  /\ ending \in SUBSET Listings
  /\ trust \in [Listings -> {"sure", "crossed", "astray"}]

(* A listing is retired only when eBay holds it no more: "retiring a       *)
(* listing that is in fact alive is the expensive mistake", and an outage  *)
(* of eBay retires none (ended-listing.ts).                                *)
RetiredOnlyWhenGone == \A l \in Listings : row[l].status = "inactive" => ~shop[l].live

(* The row is what hasCommerceDelta takes for "what eBay holds".  eBay     *)
(* offers more than it says only after a push that landed and was never     *)
(* written, or after two pushes met; and the next push that meets no other  *)
(* and is written makes it true again.                                      *)
RowTellsEbay ==
  \A l \in Listings :
    trust[l] = "sure" /\ shop[l].live /\ (\A w \in Workers : work[w].push[l].st # "ok")
      => shop[l].qty <= row[l].qty

(* No product is lost to the refresh: as long as it has an active listing, *)
(* Amazon is asked again and again (selectRefreshBatch: the lease).        *)
AmazonIsAskedAgain == []<>(Active = {} \/ work[Refresh].pc = "fetch")

Oversold(l) == shop[l].live /\ shop[l].qty > IF row[l].paused THEN 0 ELSE Least(amazon.stock, Cap[l])

(* Once Amazon stays as it is, no live listing goes on offering more than  *)
(* Amazon has, or what its seller paused, however its pushes were refused, *)
(* but for one whose row stopped telling what eBay holds.                  *)
OversellEnds == <>[](\A l \in Active : trust[l] = "sure" => ~Oversold(l))
=============================================================================
