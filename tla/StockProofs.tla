---------------------------- MODULE StockProofs ----------------------------
(***************************************************************************)
(* What the rows say of eBay, proved for any number of listings, jobs and  *)
(* moves.  A listing is retired by four paths, and each carries what eBay  *)
(* answered in memory: that stays true because eBay brings no listing      *)
(* back.  The quantity of a row bounds eBay's wherever trust is "sure":    *)
(* there at most one push of the listing is on its way.                    *)
(***************************************************************************)
EXTENDS StockSync, TLAPS

AmazonType == [stock : 0..MaxStock, moves : 0..MaxMoves]
SalesType == [n : 0..MaxSales, owes : BOOLEAN, bucket : 1..MaxBuckets]
ProductType == [stock : 0..MaxStock, due : {"due", "leased", "later"}]
RowType == [status : {"active", "inactive"}, qty : 0..MaxStock, paused : BOOLEAN]
ShopType == [live : BOOLEAN, qty : 0..MaxStock]
JobType == {"absent", "waiting", "active", "done"}
PushType == [st : {"none", "send", "ok", "failed", "gone"}, qty : 0..MaxStock]
WorkType == [pc : {"off", "fetch", "apply", "nodata", "compute", "push"}, stock : 0..MaxStock,
             push : [Listings -> PushType]]
SweepType == [open : SUBSET Listings, gone : SUBSET Listings]
Trust == {"sure", "crossed", "astray"}

(* TypeOK over the named record sets.                                      *)
LEMMA TypeUnfolds ==
  TypeOK <=> /\ amazon \in AmazonType /\ sales \in SalesType /\ product \in ProductType
             /\ row \in [Listings -> RowType] /\ shop \in [Listings -> ShopType]
             /\ claims \in 0..MaxClaims /\ jobs \in [Jobs -> JobType]
             /\ work \in [Workers -> WorkType] /\ sweep \in SweepType /\ ending \in SUBSET Listings
             /\ trust \in [Listings -> Trust]
BY DEF TypeOK, AmazonType, SalesType, ProductType, RowType, ShopType, JobType, PushType, WorkType, SweepType, Trust

(* The same of the next state.                                             *)
LEMMA TypeFolds ==
  ASSUME amazon' \in AmazonType, sales' \in SalesType, product' \in ProductType,
         row' \in [Listings -> RowType], shop' \in [Listings -> ShopType],
         claims' \in 0..MaxClaims, jobs' \in [Jobs -> JobType],
         work' \in [Workers -> WorkType], sweep' \in SweepType, ending' \in SUBSET Listings,
         trust' \in [Listings -> Trust]
  PROVE  TypeOK'
BY DEF TypeOK, AmazonType, SalesType, ProductType, RowType, ShopType, JobType, PushType, WorkType, SweepType, Trust

(* The bounds are numbers.                                                 *)
LEMMA Bounds ==
  /\ MaxStock \in Nat /\ MaxMoves \in Nat /\ MaxSales \in Nat /\ MaxBuckets \in Nat /\ MaxClaims \in Nat
  /\ MaxBuckets >= 1 /\ Cap \in [Listings -> Nat] /\ Pausable \subseteq Listings
BY StockSyncAssumption

(* Workers of different kinds are different.                               *)
LEMMA JobsApart ==
  /\ \A l \in Pausable, b \in 1..MaxBuckets : [listing |-> l] # [bucket |-> b]
  /\ Refresh \notin Jobs
  /\ \A l, m \in Pausable : [listing |-> l] = [listing |-> m] => l = m
  /\ \A l \in Pausable : [listing |-> l] \in Jobs
  /\ Jobs \subseteq Workers /\ Refresh \in Workers
<1>1. \A l, b : [listing |-> l] # [bucket |-> b]
  <2> SUFFICES ASSUME NEW l, NEW b, [listing |-> l] = [bucket |-> b] PROVE FALSE
    OBVIOUS
  <2>1. DOMAIN [listing |-> l] = {"listing"} /\ DOMAIN [bucket |-> b] = {"bucket"}
    OBVIOUS
  <2>2. QED
    BY <2>1
<1>2. Refresh \notin Jobs
  <2>1. DOMAIN Refresh = {"batch"}
    BY DEF Refresh
  <2>2. \A j \in SaleJobs : DOMAIN j = {"bucket"}
    BY DEF SaleJobs
  <2>3. \A j \in EditJobs : DOMAIN j = {"listing"}
    BY DEF EditJobs
  <2>4. "batch" # "bucket" /\ "batch" # "listing"
    OBVIOUS
  <2>5. QED
    BY <2>1, <2>2, <2>3, <2>4 DEF Jobs
<1>3. \A l, m : [listing |-> l] = [listing |-> m] => l = m
  <2> SUFFICES ASSUME NEW l, NEW m, [listing |-> l] = [listing |-> m] PROVE l = m
    OBVIOUS
  <2>1. [listing |-> l].listing = l /\ [listing |-> m].listing = m
    OBVIOUS
  <2>2. QED
    BY <2>1
<1>4. QED
  BY <1>1, <1>2, <1>3 DEF Jobs, EditJobs, SaleJobs, Workers

LEMMA NoPushType == NoPush \in [Listings -> PushType] /\ \A l \in Listings : NoPush[l].st = "none"
BY Bounds DEF NoPush, PushType

(* A worker that is not pushing carries no push.                           *)
LEMMA OffType ==
  ASSUME NEW pc \in {"off", "fetch", "apply", "nodata", "compute"}, NEW n \in 0..MaxStock
  PROVE  /\ [Off EXCEPT !.pc = pc, !.stock = n] \in WorkType
         /\ [Off EXCEPT !.pc = pc] \in WorkType
         /\ [Off EXCEPT !.pc = pc, !.stock = n].pc = pc /\ [Off EXCEPT !.pc = pc].pc = pc
         /\ [Off EXCEPT !.pc = pc, !.stock = n].push = NoPush /\ [Off EXCEPT !.pc = pc].push = NoPush
<1>1. 0 \in 0..MaxStock /\ NoPush \in [Listings -> PushType]
  BY NoPushType, Bounds
<1>2. [Off EXCEPT !.pc = pc, !.stock = n] \in WorkType /\ [Off EXCEPT !.pc = pc] \in WorkType
  BY <1>1 DEF Off, WorkType
<1>3. [Off EXCEPT !.pc = pc, !.stock = n].pc = pc /\ [Off EXCEPT !.pc = pc].pc = pc
  BY DEF Off
<1>4. [Off EXCEPT !.pc = pc, !.stock = n].push = NoPush /\ [Off EXCEPT !.pc = pc].push = NoPush
  BY DEF Off
<1>5. QED
  BY <1>2, <1>3, <1>4

LEMMA OffIsOff == Off \in WorkType /\ Off.pc = "off" /\ Off.push = NoPush
<1>1. 0 \in 0..MaxStock /\ NoPush \in [Listings -> PushType]
  BY NoPushType, Bounds
<1>2. QED
  BY <1>1 DEF Off, WorkType

-----------------------------------------------------------------------------
(* Four ways to a retired row, each with the listing gone from eBay.       *)
Gone(l) ==
  \/ row[l].status = "inactive" \/ l \in ending \/ l \in sweep.gone
  \/ \E w \in Workers : work[w].push[l].st = "gone"
GoneIsGone == \A l \in Listings : Gone(l) => ~shop[l].live

(* Only a worker that is pushing has pushes; a job that waits, or is not   *)
(* there, has no worker; an edit's job comes with the pause.               *)
PushesArePushed == \A w \in Workers, l \in Listings : work[w].push[l].st # "none" => work[w].pc = "push"
IdleJobs == \A j \in Jobs : jobs[j] \in {"absent", "waiting"} => work[j].pc = "off"
EditsArePauses == \A l \in Pausable : jobs[[listing |-> l]] # "absent" => row[l].paused

(* Of a listing whose pushes have not crossed one worker at most has a     *)
(* push on its way; what it pushed and has not yet written down bounds     *)
(* what eBay offers.                                                       *)
OnePusher ==
  \A v, w \in Workers, l \in Listings :
    trust[l] # "crossed" /\ OnItsWay(v, l) /\ OnItsWay(w, l) => v = w
PushedIsShown ==
  \A w \in Workers, l \in Listings :
    trust[l] # "crossed" /\ work[w].push[l].st = "ok" /\ shop[l].live => shop[l].qty <= work[w].push[l].qty

(* The inductive invariants: of the endings, and of the quantities.        *)
StockInv == TypeOK /\ GoneIsGone /\ PushesArePushed /\ IdleJobs /\ EditsArePauses
RowInv == OnePusher /\ PushedIsShown /\ RowTellsEbay

LEMMA InitStock == Init => StockInv /\ RowInv
<1> SUFFICES ASSUME Init PROVE StockInv /\ RowInv
  OBVIOUS
<1>1. \A l \in Listings : Least(MaxStock, Cap[l]) \in 0..MaxStock
  BY Bounds DEF Least
<1>2. row \in [Listings -> RowType] /\ shop \in [Listings -> ShopType]
  <2>1. row = [l \in Listings |-> [status |-> "active", qty |-> Least(MaxStock, Cap[l]), paused |-> FALSE]]
    BY DEF Init
  <2>2. shop = [l \in Listings |-> [live |-> TRUE, qty |-> Least(MaxStock, Cap[l])]]
    BY DEF Init
  <2>3. QED
    BY <1>1, <2>1, <2>2 DEF RowType, ShopType
<1>3. work \in [Workers -> WorkType] /\ \A w \in Workers : work[w] = Off
  BY OffIsOff DEF Init
<1>4. TypeOK
  <2>1. amazon \in AmazonType /\ product \in ProductType
    BY Bounds DEF Init, AmazonType, ProductType
  <2>2. sales \in SalesType /\ claims \in 0..MaxClaims
    BY Bounds DEF Init, SalesType
  <2>3. jobs \in [Jobs -> JobType] /\ sweep \in SweepType /\ ending \in SUBSET Listings
    BY DEF Init, JobType, SweepType
  <2>5. trust \in [Listings -> Trust]
    BY DEF Init, Trust
  <2>4. QED
    BY <1>2, <1>3, <2>1, <2>2, <2>3, <2>5, TypeUnfolds
<1>5. \A w \in Workers : work[w].pc = "off" /\ \A l \in Listings : work[w].push[l].st = "none"
  BY <1>3, OffIsOff, NoPushType
<1>6. GoneIsGone
  BY <1>5 DEF Init, GoneIsGone, Gone
<1>7. PushesArePushed /\ OnePusher /\ PushedIsShown
  BY <1>5 DEF PushesArePushed, OnePusher, PushedIsShown, OnItsWay
<1>8. IdleJobs
  BY <1>5, JobsApart DEF IdleJobs
<1>9. EditsArePauses
  BY JobsApart DEF Init, EditsArePauses
<1>10. RowTellsEbay
  BY <1>1, Bounds DEF Init, RowTellsEbay
<1>11. QED
  BY <1>4, <1>6, <1>7, <1>8, <1>9, <1>10 DEF StockInv, RowInv

-----------------------------------------------------------------------------
(* Steps that push nothing.                                                *)
SamePushes ==
  /\ \A w \in Workers : work'[w].pc = "push" <=> work[w].pc = "push"
  /\ \A w \in Workers, l \in Listings :
       \/ work'[w].push[l] = work[w].push[l]
       \/ work'[w].push[l].st = "none" /\ work[w].push[l].st = "none"

LEMMA GoneKeeps ==
  ASSUME StockInv,
         \A l \in Listings : shop'[l].live => shop[l].live,
         \A l \in Listings : \/ row'[l].status = row[l].status \/ ~shop'[l].live,
         \A l \in ending' : l \in ending \/ ~shop'[l].live,
         \A l \in sweep'.gone : l \in sweep.gone \/ ~shop'[l].live,
         \A w \in Workers, l \in Listings :
           work'[w].push[l].st = "gone" => work[w].push[l].st = "gone" \/ ~shop'[l].live
  PROVE  GoneIsGone'
BY DEF StockInv, GoneIsGone, Gone

LEMMA QuietKeepsPushes == ASSUME PushesArePushed, SamePushes PROVE PushesArePushed'
BY DEF PushesArePushed, SamePushes

LEMMA QuietKeepsRows ==
  ASSUME TypeOK, RowInv, SamePushes, trust' = trust, shop' \in [Listings -> ShopType],
         \A l \in Listings : row'[l].qty = row[l].qty,
         \A l \in Listings : shop'[l].live => shop[l].live /\ shop'[l].qty <= shop[l].qty
  PROVE  RowInv'
<1>1. OnePusher'
  BY DEF RowInv, OnePusher, SamePushes, OnItsWay
<1>2. /\ shop \in [Listings -> ShopType] /\ row \in [Listings -> RowType] /\ work \in [Workers -> WorkType]
  BY TypeUnfolds
<1>3. \A l \in Listings : shop[l].qty \in Nat /\ shop'[l].qty \in Nat /\ row[l].qty \in Nat
  BY <1>2, Bounds DEF ShopType, RowType
<1>4. PushedIsShown'
  <2> SUFFICES ASSUME NEW w \in Workers, NEW l \in Listings, trust[l] # "crossed",
                      work'[w].push[l].st = "ok", shop'[l].live
               PROVE  shop'[l].qty <= work'[w].push[l].qty
    BY DEF PushedIsShown
  <2>1. work'[w].push[l] = work[w].push[l]
    BY DEF SamePushes
  <2>2. shop[l].qty <= work[w].push[l].qty /\ shop'[l].qty <= shop[l].qty
    BY <2>1 DEF RowInv, PushedIsShown
  <2>3. work[w].push[l].qty \in Nat
    BY <1>2, Bounds DEF WorkType, PushType
  <2>4. QED
    BY <1>3, <2>1, <2>2, <2>3
<1>5. RowTellsEbay'
  <2> SUFFICES ASSUME NEW l \in Listings, trust[l] = "sure", shop'[l].live,
                      \A w \in Workers : work'[w].push[l].st # "ok"
               PROVE  shop'[l].qty <= row'[l].qty
    BY DEF RowTellsEbay
  <2>1. \A w \in Workers : work[w].push[l].st # "ok"
    BY DEF SamePushes
  <2>2. shop[l].qty <= row[l].qty /\ shop'[l].qty <= shop[l].qty
    BY <2>1 DEF RowInv, RowTellsEbay
  <2>3. QED
    BY <1>3, <2>2
<1>6. QED
  BY <1>1, <1>4, <1>5 DEF RowInv

(* A step of the world, the sales queue or the clean-up: no worker moves,  *)
(* eBay's listings only end and sell.                                      *)
LEMMA OutsideMoves ==
  ASSUME StockInv, work' = work, trust' = trust,
         amazon' \in AmazonType, sales' \in SalesType, product' \in ProductType,
         row' \in [Listings -> RowType], shop' \in [Listings -> ShopType],
         claims' \in 0..MaxClaims, sweep' \in SweepType, ending' \in SUBSET Listings,
         jobs' = jobs,
         \A l \in Listings : row'[l].qty = row[l].qty /\ (row[l].paused => row'[l].paused),
         \A l \in Listings : shop'[l].live => shop[l].live /\ shop'[l].qty <= shop[l].qty,
         \A l \in Listings : \/ row'[l].status = row[l].status \/ ~shop'[l].live,
         \A l \in ending' : l \in ending \/ ~shop'[l].live,
         \A l \in sweep'.gone : l \in sweep.gone \/ ~shop'[l].live
  PROVE  StockInv' /\ (RowInv => RowInv')
<1>1. SamePushes
  BY DEF SamePushes
<1>2. TypeOK'
  BY TypeUnfolds, TypeFolds DEF StockInv
<1>3. GoneIsGone'
  BY GoneKeeps
<1>4. PushesArePushed' /\ IdleJobs'
  BY <1>1, QuietKeepsPushes DEF StockInv, IdleJobs
<1>5. EditsArePauses'
  BY Bounds DEF StockInv, EditsArePauses
<1>6. RowInv => RowInv'
  BY <1>1, QuietKeepsRows DEF StockInv
<1>7. QED
  BY <1>2, <1>3, <1>4, <1>5, <1>6 DEF StockInv

LEMMA OutsideStep ==
  ASSUME StockInv,
         \/ AmazonMoves \/ NextBucket \/ ComesDue \/ Claim \/ Sweep
         \/ \E l \in Listings : Sale(l) \/ EndOnEbay(l) \/ EndRow(l) \/ EbayEnds(l) \/ Withdraw(l) \/ SweepWrites(l)
  PROVE  StockInv' /\ (RowInv => RowInv')
<1>1. /\ amazon \in AmazonType /\ sales \in SalesType /\ product \in ProductType
      /\ row \in [Listings -> RowType] /\ shop \in [Listings -> ShopType]
      /\ claims \in 0..MaxClaims /\ jobs \in [Jobs -> JobType]
      /\ work \in [Workers -> WorkType] /\ sweep \in SweepType /\ ending \in SUBSET Listings
      /\ trust \in [Listings -> Trust]
  BY TypeUnfolds DEF StockInv
<1>2. \A l \in Listings : (l \in ending \/ l \in sweep.gone) => ~shop[l].live
  BY DEF StockInv, GoneIsGone, Gone
<1>3. \A l \in Listings : shop[l].qty \in Nat /\ shop[l].qty <= shop[l].qty
  BY <1>1, Bounds DEF ShopType
<1>4. CASE AmazonMoves
  <2>1. amazon' \in AmazonType
    BY <1>1, <1>4, Bounds DEF AmazonMoves, AmazonType
  <2>2. UNCHANGED <<sales, product, row, shop, claims, jobs, work, sweep, ending, trust>>
    BY <1>4 DEF AmazonMoves, worker, ends
  <2>3. QED
    BY <1>1, <1>3, <2>1, <2>2, OutsideMoves
<1>5. CASE NextBucket
  <2>1. sales' \in SalesType
    BY <1>1, <1>5, Bounds DEF NextBucket, SalesType
  <2>2. UNCHANGED <<amazon, product, row, shop, claims, jobs, work, sweep, ending, trust>>
    BY <1>5 DEF NextBucket, worker, ends
  <2>3. QED
    BY <1>1, <1>3, <2>1, <2>2, OutsideMoves
<1>6. CASE ComesDue \/ Claim
  <2>1. product' \in ProductType
    BY <1>1, <1>6 DEF ComesDue, Claim, ProductType
  <2>2. claims' \in 0..MaxClaims
    BY <1>1, <1>6, Bounds DEF ComesDue, Claim, worker
  <2>3. UNCHANGED <<amazon, sales, row, shop, jobs, work, sweep, ending, trust>>
    BY <1>6 DEF ComesDue, Claim, worker, ends, env
  <2>4. QED
    BY <1>1, <1>3, <2>1, <2>2, <2>3, OutsideMoves
<1>7. CASE Sweep
  <2>1. PICK due \in SUBSET Listings : sweep' = [sweep EXCEPT !.open = due]
    BY <1>7 DEF Sweep, Active
  <2>2. sweep' \in SweepType /\ sweep'.gone = sweep.gone
    BY <1>1, <2>1 DEF SweepType
  <2>3. UNCHANGED <<amazon, sales, product, row, shop, claims, jobs, work, ending, trust>>
    BY <1>7 DEF Sweep, worker, env
  <2>4. QED
    BY <1>1, <1>3, <2>2, <2>3, OutsideMoves
<1>8. ASSUME NEW l \in Listings, Sale(l) PROVE StockInv' /\ (RowInv => RowInv')
  <2>1. shop' = [shop EXCEPT ![l].qty = @ - 1] /\ shop[l].qty > 0
    BY <1>8 DEF Sale
  <2>2. shop' \in [Listings -> ShopType]
        /\ \A m \in Listings : shop'[m].live = shop[m].live /\ shop'[m].qty <= shop[m].qty
    <3> DEFINE n == shop[l].qty - 1
    <3>1. n \in 0..MaxStock /\ n <= shop[l].qty
      BY <1>1, <2>1, Bounds DEF ShopType
    <3>2. shop[l] \in ShopType
      BY <1>1
    <3>3. shop' = [shop EXCEPT ![l].qty = n]
      BY <2>1
    <3> HIDE DEF n
    <3>4. [shop[l] EXCEPT !.qty = n] \in ShopType
      BY <3>1, <3>2 DEF ShopType
    <3>5. shop'[l] = [shop[l] EXCEPT !.qty = n] /\ \A m \in Listings \ {l} : shop'[m] = shop[m]
      BY <1>1, <3>3
    <3>6. shop' \in [Listings -> ShopType]
      BY <1>1, <3>3, <3>4
    <3>7. shop'[l].live = shop[l].live /\ shop'[l].qty = n
      BY <3>2, <3>5 DEF ShopType
    <3>8. QED
      BY <1>3, <3>1, <3>5, <3>6, <3>7
  <2>3. sales' \in SalesType
    <3> DEFINE n == sales.n + 1
    <3>1. sales' = [sales EXCEPT !.n = n, !.owes = TRUE] /\ sales.n < MaxSales
      BY <1>8 DEF Sale
    <3>2. n \in 0..MaxSales
      BY <1>1, <3>1, Bounds DEF SalesType
    <3> HIDE DEF n
    <3>3. QED
      BY <1>1, <3>1, <3>2 DEF SalesType
  <2>4. product' \in ProductType
    <3> DEFINE n == IF product.stock = 0 THEN 0 ELSE product.stock - 1
    <3>1. product' = [product EXCEPT !.stock = n]
      BY <1>8 DEF Sale
    <3>2. n \in 0..MaxStock
      BY <1>1, Bounds DEF ProductType
    <3> HIDE DEF n
    <3>3. QED
      BY <1>1, <3>1, <3>2 DEF ProductType
  <2>5. UNCHANGED <<amazon, row, claims, jobs, work, sweep, ending, trust>>
    BY <1>8 DEF Sale, worker, ends
  <2>6. QED
    BY <1>1, <2>2, <2>3, <2>4, <2>5, OutsideMoves
<1>9. ASSUME NEW l \in Listings, EndOnEbay(l) \/ EbayEnds(l) PROVE StockInv' /\ (RowInv => RowInv')
  <2>1. shop' = [shop EXCEPT ![l].live = FALSE] /\ (ending' = ending \/ ending' = ending \cup {l})
    BY <1>9 DEF EndOnEbay, EbayEnds, ends
  <2>2. shop' \in [Listings -> ShopType] /\ ~shop'[l].live
        /\ \A m \in Listings : (shop'[m].live => shop[m].live) /\ shop'[m].qty = shop[m].qty
    BY <1>1, <2>1 DEF ShopType
  <2>3. UNCHANGED <<amazon, sales, product, row, claims, jobs, work, sweep, trust>>
    BY <1>9 DEF EndOnEbay, EbayEnds, worker, ends, env
  <2>4. QED
    BY <1>1, <1>3, <2>1, <2>2, <2>3, OutsideMoves
<1>10. ASSUME NEW l \in Listings, EndRow(l) \/ SweepWrites(l) PROVE StockInv' /\ (RowInv => RowInv')
  <2>1. row' = [row EXCEPT ![l].status = "inactive"] /\ ~shop[l].live
    BY <1>2, <1>10 DEF EndRow, SweepWrites
  <2>2. /\ row' \in [Listings -> RowType]
        /\ \A m \in Listings : row'[m].qty = row[m].qty /\ row'[m].paused = row[m].paused
        /\ \A m \in Listings \ {l} : row'[m].status = row[m].status
    BY <1>1, <2>1 DEF RowType
  <2>3. sweep' \in SweepType /\ ending' \in SUBSET Listings /\ sweep'.gone \subseteq sweep.gone /\ ending' \subseteq ending
    BY <1>1, <1>10 DEF EndRow, SweepWrites, SweepType
  <2>4. UNCHANGED <<amazon, sales, product, shop, claims, jobs, work, trust>>
    BY <1>10 DEF EndRow, SweepWrites, worker, env
  <2>5. QED
    BY <1>1, <1>3, <2>1, <2>2, <2>3, <2>4, OutsideMoves
<1>11. ASSUME NEW l \in Listings, Withdraw(l) PROVE StockInv' /\ (RowInv => RowInv')
  <2>1. UNCHANGED <<amazon, sales, product, row, claims, jobs, work, ending, trust>>
    BY <1>11 DEF Withdraw, worker, env
  <2>2. CASE shop' = [shop EXCEPT ![l].live = FALSE] /\ sweep' = [sweep EXCEPT !.open = @ \ {l}, !.gone = {l}]
    <3>1. shop' \in [Listings -> ShopType] /\ ~shop'[l].live
          /\ \A m \in Listings : (shop'[m].live => shop[m].live) /\ shop'[m].qty = shop[m].qty
      BY <1>1, <2>2 DEF ShopType
    <3>2. sweep' \in SweepType /\ sweep'.gone = {l}
      BY <1>1, <2>2 DEF SweepType
    <3>3. QED
      BY <1>1, <1>3, <2>1, <3>1, <3>2, OutsideMoves
  <2>3. CASE shop' = shop /\ sweep' = [sweep EXCEPT !.open = @ \ {l}]
    <3>1. sweep' \in SweepType /\ sweep'.gone = sweep.gone
      BY <1>1, <2>3 DEF SweepType
    <3>2. QED
      BY <1>1, <1>3, <2>1, <2>3, <3>1, OutsideMoves
  <2>4. QED
    BY <1>11, <2>2, <2>3 DEF Withdraw
<1>12. QED
  BY <1>4, <1>5, <1>6, <1>7, <1>8, <1>9, <1>10, <1>11

-----------------------------------------------------------------------------
(* Queueing: a sale's job is new or known already, an edit's comes with    *)
(* the pause.                                                              *)
LEMMA QueueStep ==
  ASSUME StockInv, EnqueueSync \/ \E l \in Listings : Pause(l)
  PROVE  StockInv' /\ (RowInv => RowInv')
<1>1. /\ amazon \in AmazonType /\ sales \in SalesType /\ product \in ProductType
      /\ row \in [Listings -> RowType] /\ shop \in [Listings -> ShopType]
      /\ claims \in 0..MaxClaims /\ jobs \in [Jobs -> JobType]
      /\ work \in [Workers -> WorkType] /\ sweep \in SweepType /\ ending \in SUBSET Listings
      /\ trust \in [Listings -> Trust]
  BY TypeUnfolds DEF StockInv
<1>2. UNCHANGED <<amazon, product, shop, claims, work, sweep, ending, trust>>
  BY DEF EnqueueSync, Pause, ends, env
<1>3. SamePushes
  BY <1>2 DEF SamePushes
<1>4. /\ row' \in [Listings -> RowType]
      /\ \A l \in Listings : row'[l].qty = row[l].qty /\ row'[l].status = row[l].status
  <2>1. row' = row \/ \E l \in Listings : row' = [row EXCEPT ![l].paused = TRUE]
    BY DEF EnqueueSync, Pause
  <2>2. ASSUME NEW l \in Listings, row' = [row EXCEPT ![l].paused = TRUE]
        PROVE  /\ row' \in [Listings -> RowType]
               /\ \A m \in Listings : row'[m].qty = row[m].qty /\ row'[m].status = row[m].status
    <3>1. row[l] \in RowType
      BY <1>1
    <3>2. /\ [row[l] EXCEPT !.paused = TRUE] \in RowType
          /\ [row[l] EXCEPT !.paused = TRUE].qty = row[l].qty
          /\ [row[l] EXCEPT !.paused = TRUE].status = row[l].status
      BY <3>1 DEF RowType
    <3>3. row'[l] = [row[l] EXCEPT !.paused = TRUE] /\ \A m \in Listings \ {l} : row'[m] = row[m]
      BY <1>1, <2>2
    <3>4. row' \in [Listings -> RowType]
      BY <1>1, <2>2, <3>2
    <3>5. QED
      BY <3>2, <3>3, <3>4
  <2>3. QED
    BY <1>1, <2>1, <2>2
<1>5. sales' \in SalesType
  BY <1>1 DEF EnqueueSync, Pause, SalesType, env
<1>6. jobs' \in [Jobs -> JobType] /\ IdleJobs' /\ EditsArePauses'
  <2>1. CASE EnqueueSync
    <3> DEFINE j == [bucket |-> sales.bucket]
    <3>1. sales.bucket \in 1..MaxBuckets /\ j \in Jobs
      BY <1>1 DEF SalesType, Jobs, SaleJobs
    <3>2. (jobs' = jobs \/ (jobs[j] = "absent" /\ jobs' = [jobs EXCEPT ![j] = "waiting"])) /\ row' = row
      BY <2>1 DEF EnqueueSync
    <3>3. \A l \in Pausable : [listing |-> l] # j /\ [listing |-> l] \in Jobs
      BY <3>1, JobsApart
    <3> HIDE DEF j
    <3>4. jobs' \in [Jobs -> JobType]
      BY <1>1, <3>1, <3>2 DEF JobType
    <3>5. \A i \in Jobs : jobs'[i] \in {"absent", "waiting"} => jobs[i] \in {"absent", "waiting"}
      BY <1>1, <3>1, <3>2
    <3>6. IdleJobs'
      BY <1>2, <3>5 DEF StockInv, IdleJobs
    <3>7. \A l \in Pausable : jobs'[[listing |-> l]] = jobs[[listing |-> l]]
      BY <1>1, <3>1, <3>2, <3>3
    <3>8. EditsArePauses'
      BY <3>2, <3>7 DEF StockInv, EditsArePauses
    <3>9. QED
      BY <3>4, <3>6, <3>8
  <2>2. ASSUME NEW l \in Listings, Pause(l) PROVE jobs' \in [Jobs -> JobType] /\ IdleJobs' /\ EditsArePauses'
    <3> DEFINE j == [listing |-> l]
    <3>1. l \in Pausable /\ ~row[l].paused /\ j \in Jobs
      BY <2>2, JobsApart DEF Pause
    <3>2. jobs[j] = "absent" /\ work[j].pc = "off"
      BY <3>1 DEF StockInv, EditsArePauses, IdleJobs
    <3>3. row' = [row EXCEPT ![l].paused = TRUE] /\ jobs' = [jobs EXCEPT ![j] = "waiting"]
      BY <2>2 DEF Pause
    <3>4. jobs' \in [Jobs -> JobType]
      BY <1>1, <3>1, <3>3 DEF JobType
    <3>5. IdleJobs'
      BY <1>1, <1>2, <3>1, <3>2, <3>3 DEF StockInv, IdleJobs
    <3>6. row'[l].paused /\ \A m \in Listings \ {l} : row'[m] = row[m]
      BY <1>1, <3>3 DEF RowType
    <3>7. \A m \in Pausable \ {l} : [listing |-> m] # j /\ [listing |-> m] \in Jobs
      BY <3>1, JobsApart
    <3>8. \A m \in Pausable \ {l} : jobs'[[listing |-> m]] = jobs[[listing |-> m]]
      BY <1>1, <3>1, <3>3, <3>7
    <3> HIDE DEF j
    <3>9. EditsArePauses'
      BY <3>6, <3>8, Bounds DEF StockInv, EditsArePauses
    <3>10. QED
      BY <3>4, <3>5, <3>9
  <2>3. QED
    BY <2>1, <2>2
<1>7. TypeOK'
  BY <1>1, <1>2, <1>4, <1>5, <1>6, TypeFolds
<1>8. GoneIsGone'
  BY <1>2, <1>4, GoneKeeps
<1>9. PushesArePushed'
  BY <1>3, QuietKeepsPushes DEF StockInv
<1>10. RowInv => RowInv'
  <2>1. \A l \in Listings : shop[l].qty <= shop[l].qty
    BY <1>1, Bounds DEF ShopType
  <2>2. QED
    BY <1>1, <1>2, <1>3, <1>4, <2>1, QuietKeepsRows DEF StockInv
<1>11. QED
  BY <1>6, <1>7, <1>8, <1>9, <1>10 DEF StockInv

(* A worker that pushes nothing moves on and pushes nothing.               *)
LEMMA WorkerMoves ==
  ASSUME StockInv, NEW w \in Workers, NEW t \in WorkType, work' = [work EXCEPT ![w] = t],
         work[w].pc # "push", t.pc # "push", \A l \in Listings : t.push[l].st = "none",
         UNCHANGED <<amazon, sales, row, shop, sweep, ending, trust>>,
         product' \in ProductType, claims' \in 0..MaxClaims, jobs' \in [Jobs -> JobType],
         IdleJobs', \A l \in Pausable : jobs'[[listing |-> l]] # "absent" => jobs[[listing |-> l]] # "absent"
  PROVE  StockInv' /\ (RowInv => RowInv')
<1>1. /\ amazon \in AmazonType /\ sales \in SalesType
      /\ row \in [Listings -> RowType] /\ shop \in [Listings -> ShopType]
      /\ work \in [Workers -> WorkType] /\ sweep \in SweepType /\ ending \in SUBSET Listings
      /\ trust \in [Listings -> Trust]
  BY TypeUnfolds DEF StockInv
<1>2. work' \in [Workers -> WorkType] /\ work'[w] = t /\ \A v \in Workers \ {w} : work'[v] = work[v]
  BY <1>1
<1>3. \A l \in Listings : work[w].push[l].st = "none"
  BY DEF StockInv, PushesArePushed
<1>4. SamePushes
  BY <1>2, <1>3 DEF SamePushes
<1>5. TypeOK'
  BY <1>1, <1>2, TypeFolds
<1>6. GoneIsGone'
  <2>1. \A v \in Workers, l \in Listings : work'[v].push[l].st = "gone" => work[v].push[l].st = "gone"
    BY <1>4 DEF SamePushes
  <2>2. QED
    BY <2>1, GoneKeeps
<1>7. PushesArePushed'
  BY <1>4, QuietKeepsPushes DEF StockInv
<1>8. EditsArePauses'
  BY DEF StockInv, EditsArePauses
<1>9. RowInv => RowInv'
  <2>1. \A l \in Listings : shop[l].qty <= shop[l].qty
    BY <1>1, Bounds DEF ShopType
  <2>2. QED
    BY <1>1, <1>4, <2>1, QuietKeepsRows DEF StockInv
<1>10. QED
  BY <1>5, <1>6, <1>7, <1>8, <1>9 DEF StockInv

(* The refresh, up to its recompute.                                       *)
LEMMA RefreshStep ==
  ASSUME StockInv, StartBatch \/ FetchFound \/ FetchFails \/ Apply \/ DataFailure
  PROVE  StockInv' /\ (RowInv => RowInv')
<1>1. /\ amazon \in AmazonType /\ product \in ProductType /\ claims \in 0..MaxClaims /\ jobs \in [Jobs -> JobType]
      /\ work \in [Workers -> WorkType] /\ Refresh \in Workers /\ work[Refresh] \in WorkType
  BY TypeUnfolds, JobsApart DEF StockInv
<1>2. UNCHANGED <<amazon, sales, row, shop, jobs, sweep, ending, trust>>
  BY DEF StartBatch, FetchFound, FetchFails, Apply, DataFailure, env, ends
<1>3. claims' \in 0..MaxClaims
  BY <1>1, Bounds DEF StartBatch, FetchFound, FetchFails, Apply, DataFailure
<1>4. product' \in ProductType
  BY <1>1 DEF StartBatch, FetchFound, FetchFails, Apply, DataFailure, ProductType, WorkType
<1>5. work[Refresh].pc # "push" /\ \A l \in Listings : work[Refresh].push[l].st = "none"
  <2>1. work[Refresh].pc # "push"
    BY DEF StartBatch, FetchFound, FetchFails, Apply, DataFailure
  <2>2. QED
    BY <1>1, <2>1 DEF StockInv, PushesArePushed
<1> DEFINE Moved == \E t \in WorkType : /\ work' = [work EXCEPT ![Refresh] = t] /\ t.pc # "push"
                                       /\ \A l \in Listings : t.push[l].st = "none"
<1>6. Moved
  <2>1. ASSUME NEW pc \in {"off", "fetch", "apply", "nodata", "compute"}, NEW n \in 0..MaxStock,
               work' = [work EXCEPT ![Refresh].pc = pc, ![Refresh].stock = n]
        PROVE  Moved
    <3> DEFINE t == [work[Refresh] EXCEPT !.pc = pc, !.stock = n]
    <3>1. t \in WorkType /\ t.pc = pc /\ t.push = work[Refresh].push
      BY <1>1 DEF WorkType
    <3>2. work' = [work EXCEPT ![Refresh] = t]
      BY <1>1, <2>1
    <3>3. QED
      BY <1>5, <3>1, <3>2
  <2>2. ASSUME NEW pc \in {"off", "fetch", "apply", "nodata", "compute"}, Step(Refresh, pc) PROVE Moved
    <3> DEFINE t == [Off EXCEPT !.pc = pc]
    <3>1. work' = [work EXCEPT ![Refresh] = t]
      BY <2>2 DEF Step
    <3>2. 0 \in 0..MaxStock
      BY Bounds
    <3>3. t \in WorkType /\ t.pc = pc /\ t.push = NoPush
      BY <3>2, OffType
    <3> HIDE DEF t
    <3>4. QED
      BY <3>1, <3>3, NoPushType
  <2>3. CASE work' = [work EXCEPT ![Refresh] = Reads]
    <3>1. product.stock \in 0..MaxStock
      BY <1>1 DEF ProductType
    <3> DEFINE t == [Off EXCEPT !.pc = "fetch", !.stock = product.stock]
    <3>2. work' = [work EXCEPT ![Refresh] = t]
      BY <2>3 DEF Reads
    <3>3. "fetch" \in {"off", "fetch", "apply", "nodata", "compute"}
      OBVIOUS
    <3>4. t \in WorkType /\ t.pc = "fetch" /\ t.push = NoPush
      BY <3>1, <3>3, OffType
    <3> HIDE DEF t
    <3>5. QED
      BY <3>2, <3>4, NoPushType
  <2>4. CASE FetchFound
    <3>1. amazon.stock \in 0..MaxStock
      BY <1>1 DEF AmazonType
    <3>2. QED
      BY <2>1, <2>4, <3>1 DEF FetchFound
  <2>5. CASE work' = [work EXCEPT ![Refresh].pc = "apply"]
    <3> DEFINE t == [work[Refresh] EXCEPT !.pc = "apply"]
    <3>1. t \in WorkType /\ t.pc = "apply" /\ t.push = work[Refresh].push
      BY <1>1 DEF WorkType
    <3>2. work' = [work EXCEPT ![Refresh] = t]
      BY <1>1, <2>5
    <3>3. QED
      BY <1>5, <3>1, <3>2
  <2>6. QED
    BY <2>2, <2>3, <2>4, <2>5 DEF StartBatch, FetchFails, Apply, DataFailure
<1>7. PICK t \in WorkType : /\ work' = [work EXCEPT ![Refresh] = t] /\ t.pc # "push"
                            /\ \A l \in Listings : t.push[l].st = "none"
  BY <1>6
<1> HIDE DEF Moved
<1>8. IdleJobs'
  BY <1>1, <1>2, <1>7, JobsApart DEF StockInv, IdleJobs
<1>9. QED
  BY <1>1, <1>2, <1>3, <1>4, <1>5, <1>7, <1>8, WorkerMoves

LEMMA StartSyncStep == ASSUME StockInv, NEW j \in Jobs, StartSync(j) PROVE StockInv' /\ (RowInv => RowInv')
<1>1. /\ product \in ProductType /\ claims \in 0..MaxClaims /\ jobs \in [Jobs -> JobType]
      /\ work \in [Workers -> WorkType] /\ j \in Workers
  BY TypeUnfolds, JobsApart DEF StockInv
<1>2. UNCHANGED <<amazon, sales, product, row, shop, claims, sweep, ending, trust>>
  BY DEF StartSync, env, ends
<1>3. jobs' = [jobs EXCEPT ![j] = "active"] /\ jobs[j] = "waiting" /\ work[j].pc = "off"
  BY DEF StartSync, StockInv, IdleJobs
<1> DEFINE t == [Off EXCEPT !.pc = "compute"]
<1>4. work' = [work EXCEPT ![j] = t]
  BY DEF StartSync, Step
<1>5. t \in WorkType /\ t.pc = "compute" /\ \A l \in Listings : t.push[l].st = "none"
  <2>1. 0 \in 0..MaxStock /\ "compute" \in {"off", "fetch", "apply", "nodata", "compute"}
    BY Bounds
  <2>2. t \in WorkType /\ t.pc = "compute" /\ t.push = NoPush
    BY <2>1, OffType
  <2>3. QED
    BY <2>2, NoPushType
<1> HIDE DEF t
<1>6. jobs' \in [Jobs -> JobType]
  BY <1>1, <1>3 DEF JobType
<1>7. IdleJobs'
  BY <1>1, <1>3, <1>4, JobsApart DEF StockInv, IdleJobs
<1>8. \A l \in Pausable : jobs'[[listing |-> l]] # "absent" => jobs[[listing |-> l]] # "absent"
  BY <1>1, <1>3, JobsApart
<1>9. QED
  BY <1>1, <1>2, <1>3, <1>4, <1>5, <1>6, <1>7, <1>8, WorkerMoves

-----------------------------------------------------------------------------
(* The recompute: what is to be sent, all of it still unanswered.          *)
LEMMA WantBounded == ASSUME TypeOK, NEW l \in Listings PROVE Want(l) \in 0..MaxStock
<1>1. product.stock \in 0..MaxStock /\ Cap[l] \in Nat /\ MaxStock \in Nat
  BY Bounds DEF TypeOK
<1>2. QED
  BY <1>1 DEF Want, Least

LEMMA ComputeStep ==
  ASSUME StockInv, NEW w \in Workers, Compute(w)
  PROVE  StockInv' /\ (RowInv => RowInv')
<1> DEFINE push == [l \in Listings |-> IF l \in Scope(w) \cap Active /\ row[l].qty # Want(l)
                                       THEN [st |-> "send", qty |-> Want(l)] ELSE NoPush[l]]
           t == [work[w] EXCEPT !.pc = "push", !.push = push]
<1>1. TypeOK /\ work \in [Workers -> WorkType] /\ work[w].pc = "compute"
  BY TypeUnfolds DEF StockInv, Compute
<1>2. UNCHANGED <<amazon, sales, product, row, shop, claims, jobs, sweep, ending>>
  BY DEF Compute, env
<1>3. push \in [Listings -> PushType] /\ \A l \in Listings : push[l].st \in {"send", "none"}
  <2> SUFFICES ASSUME NEW l \in Listings PROVE push[l] \in PushType /\ push[l].st \in {"send", "none"}
    BY Zenon
  <2>1. push[l] = [st |-> "send", qty |-> Want(l)] \/ push[l] = NoPush[l]
    OBVIOUS
  <2>2. Want(l) \in 0..MaxStock /\ NoPush[l] \in PushType /\ NoPush[l].st = "none"
    BY <1>1, WantBounded, NoPushType
  <2> HIDE DEF push
  <2>3. QED
    BY <2>1, <2>2 DEF PushType
<1>4. work' = [work EXCEPT ![w] = t]
  BY <1>1 DEF Compute
<1>14. /\ trust' \in [Listings -> Trust]
       /\ \A l \in Listings : trust'[l] # "crossed" =>
            trust'[l] = trust[l] /\ (push[l].st = "send" => ~Another(w, l))
  <2> DEFINE moved == {l \in Scope(w) \cap Active : row[l].qty # Want(l)}
  <2>1. trust' = [l \in Listings |-> IF l \in moved /\ Another(w, l) THEN "crossed" ELSE trust[l]]
    BY DEF Compute
  <2>2. \A l \in Listings : push[l].st = "send" => l \in moved
    BY NoPushType
  <2> HIDE DEF moved, push
  <2>3. trust \in [Listings -> Trust]
    BY <1>1, TypeUnfolds
  <2>4. QED
    BY <2>1, <2>2, <2>3 DEF Trust
<1> HIDE DEF push
<1>5. t \in WorkType /\ t.pc = "push" /\ t.push = push
  BY <1>1, <1>3 DEF WorkType
<1> HIDE DEF t
<1>6. work' \in [Workers -> WorkType] /\ work'[w] = t /\ \A v \in Workers \ {w} : work'[v] = work[v]
  BY <1>1, <1>4, <1>5
<1>7. TypeOK'
  BY <1>2, <1>6, <1>14, TypeUnfolds, TypeFolds DEF StockInv
<1>8. GoneIsGone'
  <2>1. \A v \in Workers, l \in Listings : work'[v].push[l].st = "gone" => work[v].push[l].st = "gone"
    BY <1>3, <1>5, <1>6
  <2>2. QED
    BY <1>2, <2>1, GoneKeeps
<1>9. PushesArePushed'
  BY <1>5, <1>6 DEF StockInv, PushesArePushed
<1>10. IdleJobs'
  BY <1>1, <1>2, <1>6, JobsApart DEF StockInv, IdleJobs
<1>11. EditsArePauses'
  BY <1>2 DEF StockInv, EditsArePauses
<1>12. ASSUME RowInv PROVE RowInv'
  <2>1. \A l \in Listings : work[w].push[l].st = "none"
    BY <1>1 DEF StockInv, PushesArePushed
  <2>2. OnePusher'
    <3> SUFFICES ASSUME NEW u \in Workers, NEW v \in Workers, NEW l \in Listings, trust'[l] # "crossed",
                        work'[u].push[l].st # "none", work'[v].push[l].st # "none"
                 PROVE  u = v
      BY DEF OnePusher, OnItsWay
    <3>1. trust[l] # "crossed" /\ (push[l].st = "send" => \A x \in Workers \ {w} : work[x].push[l].st = "none")
      BY <1>14 DEF Another, OnItsWay
    <3>2. CASE u = w \/ v = w
      BY <1>3, <1>5, <1>6, <3>1, <3>2
    <3>3. CASE u # w /\ v # w
      BY <1>6, <1>12, <3>1, <3>3 DEF RowInv, OnePusher, OnItsWay
    <3>4. QED
      BY <3>2, <3>3
  <2>3. \A v \in Workers, l \in Listings : work'[v].push[l].st = "ok" => v # w /\ work'[v] = work[v]
    BY <1>3, <1>5, <1>6
  <2>4. PushedIsShown'
    BY <1>2, <1>12, <1>14, <2>3 DEF RowInv, PushedIsShown
  <2>5. RowTellsEbay'
    <3> SUFFICES ASSUME NEW l \in Listings, trust'[l] = "sure", shop[l].live,
                        \A v \in Workers : work'[v].push[l].st # "ok"
                 PROVE  shop[l].qty <= row[l].qty
      BY <1>2 DEF RowTellsEbay
    <3>1. trust[l] = "sure" /\ \A v \in Workers : work[v].push[l].st # "ok"
      BY <1>6, <1>14, <2>1
    <3>2. QED
      BY <1>12, <3>1 DEF RowInv, RowTellsEbay
  <2>6. QED
    BY <2>2, <2>4, <2>5 DEF RowInv
<1>13. QED
  BY <1>7, <1>8, <1>9, <1>10, <1>11, <1>12 DEF StockInv

(* One push of a worker that is pushing becomes p.                         *)
Becomes(w, l, p) == work' = [work EXCEPT ![w].push[l] = p]

LEMMA PushMoves ==
  ASSUME StockInv, NEW w \in Workers, NEW l \in Listings, NEW p \in PushType,
         Becomes(w, l, p), work[w].push[l].st # "none",
         UNCHANGED <<amazon, sales, product, claims, jobs, sweep, ending>>,
         row' \in [Listings -> RowType], shop' \in [Listings -> ShopType],
         trust' \in [Listings -> Trust],
         \A m \in Listings : row[m].paused => row'[m].paused,
         \A m \in Listings : shop'[m].live => shop[m].live,
         \A m \in Listings : \/ row'[m].status = row[m].status \/ ~shop'[m].live,
         p.st = "gone" => ~shop'[l].live
  PROVE  /\ StockInv'
         /\ work'[w].push[l] = p
         /\ \A v \in Workers, m \in Listings : v # w \/ m # l => work'[v].push[m] = work[v].push[m]
<1>1. work \in [Workers -> WorkType] /\ work[w].push \in [Listings -> PushType] /\ work[w].pc = "push"
  BY TypeUnfolds DEF StockInv, PushesArePushed, WorkType
<1> DEFINE push == [work[w].push EXCEPT ![l] = p]
           t == [work[w] EXCEPT !.push = push]
<1>2. push \in [Listings -> PushType] /\ push[l] = p /\ \A m \in Listings \ {l} : push[m] = work[w].push[m]
  BY <1>1
<1>3. work' = [work EXCEPT ![w] = t]
  BY <1>1 DEF Becomes
<1> HIDE DEF push
<1>4. t \in WorkType /\ t.pc = "push" /\ t.push = push
  BY <1>1, <1>2 DEF WorkType
<1> HIDE DEF t
<1>5. work' \in [Workers -> WorkType] /\ work'[w] = t /\ \A v \in Workers \ {w} : work'[v] = work[v]
  BY <1>1, <1>3, <1>4
<1>6. /\ work'[w].push[l] = p
      /\ \A v \in Workers, m \in Listings : v # w \/ m # l => work'[v].push[m] = work[v].push[m]
  BY <1>2, <1>4, <1>5
<1>7. \A v \in Workers : work'[v].pc = work[v].pc
  BY <1>1, <1>4, <1>5
<1>8. TypeOK'
  BY <1>5, TypeUnfolds, TypeFolds DEF StockInv
<1>9. GoneIsGone'
  <2>1. \A v \in Workers, m \in Listings :
          work'[v].push[m].st = "gone" => work[v].push[m].st = "gone" \/ ~shop'[m].live
    BY <1>6
  <2>2. QED
    BY <2>1, GoneKeeps
<1>10. PushesArePushed'
  BY <1>1, <1>6, <1>7 DEF StockInv, PushesArePushed
<1>11. IdleJobs' /\ EditsArePauses'
  BY <1>7, JobsApart, Bounds DEF StockInv, IdleJobs, EditsArePauses
<1>12. QED
  BY <1>6, <1>8, <1>9, <1>10, <1>11 DEF StockInv

(* A push answered or settled is no second one.                            *)
LEMMA StillOne ==
  ASSUME OnePusher, NEW w \in Workers, NEW l \in Listings, work[w].push[l].st # "none",
         \A m \in Listings : trust[m] = "crossed" => trust'[m] = "crossed" \/ ~\E v \in Workers : OnItsWay(v, m)',
         \A v \in Workers, m \in Listings : v # w \/ m # l => work'[v].push[m] = work[v].push[m]
  PROVE  OnePusher'
<1> SUFFICES ASSUME NEW u \in Workers, NEW v \in Workers, NEW m \in Listings, trust'[m] # "crossed",
                    work'[u].push[m].st # "none", work'[v].push[m].st # "none"
             PROVE  u = v
  BY DEF OnePusher, OnItsWay
<1>1. trust[m] # "crossed"
  BY DEF OnItsWay
<1>2. work[u].push[m].st # "none" /\ work[v].push[m].st # "none"
  OBVIOUS
<1>3. QED
  BY <1>1, <1>2 DEF OnePusher, OnItsWay

(* An answer keeps the quantity sent.                                      *)
LEMMA AnswerType ==
  ASSUME StockInv, NEW w \in Workers, NEW l \in Listings, NEW st \in {"ok", "failed", "gone"}, Answered(w, l, st)
  PROVE  \E p \in PushType : /\ Becomes(w, l, p)
                             /\ p.st = st /\ p.qty = work[w].push[l].qty
<1>1. work \in [Workers -> WorkType] /\ work[w].push \in [Listings -> PushType] /\ work[w].push[l] \in PushType
  BY TypeUnfolds DEF StockInv, WorkType
<1> DEFINE p == [work[w].push[l] EXCEPT !.st = st]
<1>2. Becomes(w, l, p)
  BY <1>1 DEF Answered, Becomes
<1>3. p \in PushType /\ p.st = st /\ p.qty = work[w].push[l].qty
  BY <1>1 DEF PushType
<1> HIDE DEF p
<1>4. QED
  BY <1>2, <1>3

LEMMA LandsStep ==
  ASSUME StockInv, NEW w \in Workers, NEW l \in Listings, PushLands(w, l)
  PROVE  StockInv' /\ (RowInv => RowInv')
<1> DEFINE n == work[w].push[l].qty
<1>1. /\ row \in [Listings -> RowType] /\ shop \in [Listings -> ShopType]
      /\ work \in [Workers -> WorkType] /\ n \in 0..MaxStock /\ trust \in [Listings -> Trust]
  BY TypeUnfolds DEF StockInv, WorkType, PushType
<1>2. shop' = [shop EXCEPT ![l].qty = n] /\ shop[l].live /\ work[w].push[l].st = "send"
  BY DEF PushLands
<1> HIDE DEF n
<1>3. UNCHANGED <<amazon, sales, product, row, claims, jobs, sweep, ending>>
  BY DEF PushLands, env
<1>4. /\ shop' \in [Listings -> ShopType] /\ shop'[l].qty = n /\ shop'[l].live
      /\ \A m \in Listings \ {l} : shop'[m] = shop[m]
  BY <1>1, <1>2 DEF ShopType
<1>5. PICK p \in PushType : /\ Becomes(w, l, p) /\ p.qty = n
                            /\ \/ p.st = "ok" /\ trust' = trust
                               \/ p.st = "failed" /\ GoesAstray(l)
  <2>1. (Answered(w, l, "ok") /\ trust' = trust) \/ (Answered(w, l, "failed") /\ GoesAstray(l))
    BY DEF PushLands
  <2>2. "ok" \in {"ok", "failed", "gone"} /\ "failed" \in {"ok", "failed", "gone"}
    OBVIOUS
  <2>3. QED
    BY <2>1, <2>2, AnswerType DEF n
<1>6. /\ trust' \in [Listings -> Trust] /\ \A m \in Listings \ {l} : trust'[m] = trust[m]
      /\ trust[l] = "crossed" <=> trust'[l] = "crossed"
      /\ trust'[l] = "sure" => trust[l] = "sure" /\ p.st = "ok"
  BY <1>1, <1>5 DEF GoesAstray, Trust
<1>7. /\ StockInv' /\ work'[w].push[l] = p
      /\ \A v \in Workers, m \in Listings : v # w \/ m # l => work'[v].push[m] = work[v].push[m]
  <2>1. \A m \in Listings : shop'[m].live => shop[m].live
    BY <1>2, <1>4
  <2>2. p.st # "gone" /\ work[w].push[l].st # "none"
    BY <1>2, <1>5
  <2>3. UNCHANGED <<amazon, sales, product, claims, jobs, sweep, ending>>
    BY <1>3
  <2>4. row' \in [Listings -> RowType] /\ \A m \in Listings : row'[m] = row[m]
    BY <1>1, <1>3
  <2>5. Becomes(w, l, p)
    BY <1>5
  <2>6. shop' \in [Listings -> ShopType] /\ trust' \in [Listings -> Trust]
    BY <1>4, <1>6
  <2>7. QED
    BY <2>1, <2>2, <2>3, <2>4, <2>5, <2>6, PushMoves
<1>8. ASSUME RowInv PROVE RowInv'
  <2>1. OnePusher'
    <3>1. \A m \in Listings : trust[m] = "crossed" => trust'[m] = "crossed"
      BY <1>6
    <3>2. QED
      BY <1>2, <1>7, <1>8, <3>1, StillOne DEF RowInv
  <2>2. \A m \in Listings : m # l => shop'[m] = shop[m]
    BY <1>4
  <2>3. n <= n
    BY <1>1, Bounds
  <2>4. PushedIsShown'
    <3> SUFFICES ASSUME NEW v \in Workers, NEW m \in Listings, trust'[m] # "crossed",
                        work'[v].push[m].st = "ok", shop'[m].live
                 PROVE  shop'[m].qty <= work'[v].push[m].qty
      BY DEF PushedIsShown
    <3>1. CASE m = l /\ v = w
      BY <1>4, <1>5, <1>7, <2>3, <3>1
    <3>2. CASE m = l /\ v # w
      <4>1. work[v].push[l].st = "ok" /\ trust[l] # "crossed"
        BY <1>6, <1>7, <3>2
      <4>2. QED
        BY <1>2, <1>8, <3>2, <4>1 DEF RowInv, OnePusher, OnItsWay
    <3>3. CASE m # l
      BY <1>6, <1>7, <1>8, <2>2, <3>3 DEF RowInv, PushedIsShown
    <3>4. QED
      BY <3>1, <3>2, <3>3
  <2>5. RowTellsEbay'
    <3> SUFFICES ASSUME NEW m \in Listings, trust'[m] = "sure", shop'[m].live,
                        \A v \in Workers : work'[v].push[m].st # "ok"
                 PROVE  shop'[m].qty <= row[m].qty
      BY <1>3 DEF RowTellsEbay
    <3>1. m # l
      BY <1>6, <1>7
    <3>2. QED
      BY <1>6, <1>7, <1>8, <2>2, <3>1 DEF RowInv, RowTellsEbay
  <2>6. QED
    BY <2>1, <2>4, <2>5 DEF RowInv
<1>9. QED
  BY <1>7, <1>8

LEMMA FailsStep ==
  ASSUME StockInv, NEW w \in Workers, NEW l \in Listings, PushFails(w, l)
  PROVE  StockInv' /\ (RowInv => RowInv')
<1>1. row \in [Listings -> RowType] /\ shop \in [Listings -> ShopType] /\ trust \in [Listings -> Trust] /\ work[w].push[l].st = "send"
  BY TypeUnfolds DEF StockInv, PushFails
<1>2. UNCHANGED <<amazon, sales, product, row, shop, claims, jobs, sweep, ending, trust>>
  BY DEF PushFails, env, ends
<1>3. PICK p \in PushType : /\ Becomes(w, l, p)
                            /\ p.st \in {"failed", "gone"} /\ (p.st = "gone" => ~shop[l].live)
  <2>1. Answered(w, l, "failed") \/ (~shop[l].live /\ Answered(w, l, "gone"))
    BY DEF PushFails
  <2>2. "gone" \in {"ok", "failed", "gone"} /\ "failed" \in {"ok", "failed", "gone"} /\ "failed" # "gone"
    OBVIOUS
  <2>3. QED
    BY <2>1, <2>2, AnswerType
<1>4. /\ StockInv' /\ work'[w].push[l] = p
      /\ \A v \in Workers, m \in Listings : v # w \/ m # l => work'[v].push[m] = work[v].push[m]
  <2>1. work[w].push[l].st # "none" /\ (p.st = "gone" => ~shop'[l].live)
    BY <1>1, <1>2, <1>3
  <2>2. UNCHANGED <<amazon, sales, product, claims, jobs, sweep, ending>>
    BY <1>2
  <2>3. /\ row' \in [Listings -> RowType] /\ \A m \in Listings : row'[m] = row[m]
        /\ shop' \in [Listings -> ShopType] /\ \A m \in Listings : shop'[m] = shop[m]
        /\ trust' \in [Listings -> Trust]
    BY <1>1, <1>2
  <2>4. Becomes(w, l, p)
    BY <1>3
  <2>5. QED
    BY <2>1, <2>2, <2>3, <2>4, PushMoves
<1>5. p.st # "ok" /\ work[w].push[l].st # "ok"
  BY <1>1, <1>3
<1>6. ASSUME RowInv PROVE RowInv'
  <2>1. PushedIsShown'
    BY <1>2, <1>4, <1>5, <1>6 DEF RowInv, PushedIsShown
  <2>2. RowTellsEbay'
    BY <1>2, <1>4, <1>5, <1>6 DEF RowInv, RowTellsEbay
  <2>3. OnePusher'
    BY <1>1, <1>2, <1>4, <1>6, StillOne DEF RowInv
  <2>4. QED
    BY <2>1, <2>2, <2>3 DEF RowInv
<1>7. QED
  BY <1>4, <1>6

(* Writing down what eBay answered.                                        *)
LEMMA PersistStep ==
  ASSUME StockInv, NEW w \in Workers, NEW l \in Listings, Persist(w, l)
  PROVE  StockInv' /\ (RowInv => RowInv')
<1> DEFINE st == work[w].push[l].st
           n == work[w].push[l].qty
<1>1. /\ row \in [Listings -> RowType] /\ shop \in [Listings -> ShopType]
      /\ work \in [Workers -> WorkType] /\ n \in 0..MaxStock /\ row[l] \in RowType
      /\ trust \in [Listings -> Trust]
  BY TypeUnfolds DEF StockInv, WorkType, PushType
<1>2. st \in {"ok", "failed", "gone"} /\ (st = "gone" => ~shop[l].live)
  BY DEF Persist, StockInv, GoneIsGone, Gone
<1>3. UNCHANGED <<amazon, sales, product, shop, claims, jobs, sweep, ending>>
  BY DEF Persist, env
<1>4. PICK written \in BOOLEAN :
        /\ written /\ st = "ok" => row' = [row EXCEPT ![l].qty = n]
        /\ written /\ st = "gone" => row' = [row EXCEPT ![l].status = "inactive"]
        /\ ~written \/ st = "failed" => row' = row
        /\ Settle(w, l, written)
  BY DEF Persist
<1>5. Becomes(w, l, NoPush[l])
  BY <1>4 DEF Settle, Becomes
<1>11. /\ trust' \in [Listings -> Trust] /\ \A m \in Listings \ {l} : trust'[m] = trust[m]
       /\ trust'[l] = "crossed" <=> trust[l] = "crossed" /\ Another(w, l)
       /\ trust'[l] = "sure" /\ st = "ok" => trust[l] # "crossed" /\ written
       /\ trust'[l] = "sure" /\ st # "ok" => trust[l] = "sure"
  BY <1>1, <1>2, <1>4 DEF Settle, Trust
<1> HIDE DEF n, st
<1>6. /\ row' \in [Listings -> RowType] /\ \A m \in Listings \ {l} : row'[m] = row[m]
      /\ row'[l].paused = row[l].paused
      /\ st # "gone" => row'[l].status = row[l].status
      /\ st # "ok" => row'[l].qty = row[l].qty
      /\ st = "ok" /\ written => row'[l].qty = n
  <2>1. CASE written /\ st = "ok"
    <3>1. row' = [row EXCEPT ![l].qty = n]
      BY <1>4, <2>1
    <3>2. /\ [row[l] EXCEPT !.qty = n] \in RowType /\ [row[l] EXCEPT !.qty = n].qty = n
          /\ [row[l] EXCEPT !.qty = n].status = row[l].status
          /\ [row[l] EXCEPT !.qty = n].paused = row[l].paused
      BY <1>1 DEF RowType
    <3>3. row' \in [Listings -> RowType] /\ row'[l] = [row[l] EXCEPT !.qty = n]
      BY <1>1, <3>1, <3>2
    <3>4. \A m \in Listings \ {l} : row'[m] = row[m]
      BY <1>1, <3>1
    <3>5. QED
      BY <2>1, <3>2, <3>3, <3>4
  <2>2. CASE written /\ st = "gone"
    BY <1>1, <1>4, <2>2 DEF RowType
  <2>3. CASE ~written \/ st = "failed"
    BY <1>1, <1>4, <2>3
  <2>4. QED
    BY <1>2, <2>1, <2>2, <2>3
<1>7. /\ StockInv' /\ work'[w].push[l] = NoPush[l]
      /\ \A v \in Workers, m \in Listings : v # w \/ m # l => work'[v].push[m] = work[v].push[m]
  <2>1. NoPush[l] \in PushType /\ NoPush[l].st = "none" /\ work[w].push[l].st # "none"
    BY <1>2, NoPushType DEF st
  <2>2. \A m \in Listings : \/ row'[m].status = row[m].status \/ ~shop'[m].live
    BY <1>2, <1>3, <1>6
  <2>3. \A m \in Listings : row[m].paused => row'[m].paused
    BY <1>6
  <2>4. UNCHANGED <<amazon, sales, product, claims, jobs, sweep, ending>>
    BY <1>3
  <2>5. shop' \in [Listings -> ShopType] /\ \A m \in Listings : shop'[m] = shop[m]
    BY <1>1, <1>3
  <2>6. row' \in [Listings -> RowType] /\ trust' \in [Listings -> Trust]
    BY <1>6, <1>11
  <2>7. QED
    BY <1>5, <2>1, <2>2, <2>3, <2>4, <2>5, <2>6, PushMoves
<1>8. NoPush[l].st = "none"
  BY NoPushType
<1>9. ASSUME RowInv PROVE RowInv'
  <2>1. PushedIsShown'
    <3> SUFFICES ASSUME NEW v \in Workers, NEW m \in Listings, trust'[m] # "crossed",
                        work'[v].push[m].st = "ok", shop[m].live
                 PROVE  shop[m].qty <= work'[v].push[m].qty
      BY <1>3 DEF PushedIsShown
    <3>1. work'[v].push[m] = work[v].push[m] /\ work[v].push[m].st = "ok" /\ (m = l => v # w)
      BY <1>7, <1>8
    <3>2. trust[m] # "crossed"
      BY <1>11, <3>1 DEF Another, OnItsWay
    <3>3. QED
      BY <1>9, <3>1, <3>2 DEF RowInv, PushedIsShown
  <2>2. RowTellsEbay'
    <3> SUFFICES ASSUME NEW m \in Listings, trust'[m] = "sure", shop[m].live,
                        \A v \in Workers : work'[v].push[m].st # "ok"
                 PROVE  shop[m].qty <= row'[m].qty
      BY <1>3 DEF RowTellsEbay
    <3>1. CASE m = l /\ st = "ok"
      BY <1>6, <1>9, <1>11, <3>1 DEF RowInv, PushedIsShown, st, n
    <3>2. CASE ~(m = l /\ st = "ok")
      <4>1. \A v \in Workers : work[v].push[m].st # "ok"
        BY <1>7, <3>2 DEF st
      <4>2. row'[m].qty = row[m].qty
        BY <1>6, <3>2
      <4>3. trust[m] = "sure"
        BY <1>11, <3>2
      <4>4. QED
        BY <1>9, <4>1, <4>2, <4>3 DEF RowInv, RowTellsEbay
    <3>3. QED
      BY <3>1, <3>2
  <2>3. OnePusher'
    <3>1. ASSUME NEW m \in Listings, trust[m] = "crossed", trust'[m] # "crossed"
          PROVE  ~\E v \in Workers : OnItsWay(v, m)'
      <4>1. m = l /\ ~Another(w, l)
        BY <1>11, <3>1
      <4>2. QED
        BY <1>7, <1>8, <4>1 DEF Another, OnItsWay
    <3>2. OnePusher /\ work[w].push[l].st # "none"
      BY <1>2, <1>9 DEF RowInv, st
    <3>3. QED
      BY <1>7, <3>1, <3>2, StillOne
  <2>4. QED
    BY <2>1, <2>2, <2>3 DEF RowInv
<1>10. QED
  BY <1>7, <1>9

(* A worker with nothing left to push is done.                             *)
LEMMA FlushedStep ==
  ASSUME StockInv, NEW w \in Workers, Flushed(w)
  PROVE  StockInv' /\ (RowInv => RowInv')
<1>1. work \in [Workers -> WorkType] /\ jobs \in [Jobs -> JobType]
  BY TypeUnfolds DEF StockInv
<1>2. work' = [work EXCEPT ![w] = Off] /\ work[w].pc = "push" /\ \A l \in Listings : work[w].push[l].st = "none"
  BY DEF Flushed, Pushing
<1>3. UNCHANGED <<amazon, sales, product, row, shop, claims, sweep, ending, trust>>
  BY DEF Flushed, env, ends
<1>4. jobs' \in [Jobs -> JobType] /\ \A j \in Jobs : jobs'[j] = jobs[j] \/ (j = w /\ jobs'[j] = "done")
  BY <1>1 DEF Flushed, JobType
<1>5. work' \in [Workers -> WorkType] /\ work'[w] = Off /\ \A v \in Workers \ {w} : work'[v] = work[v]
  BY <1>1, <1>2, OffIsOff
<1>6. \A v \in Workers, l \in Listings :
        \/ work'[v].push[l] = work[v].push[l]
        \/ work'[v].push[l].st = "none" /\ work[v].push[l].st = "none"
  BY <1>2, <1>5, OffIsOff, NoPushType
<1>7. \A v \in Workers : work'[v].pc = "push" => work[v].pc = "push"
  BY <1>2, <1>5
<1>8. TypeOK'
  BY <1>3, <1>4, <1>5, TypeUnfolds, TypeFolds DEF StockInv
<1>9. GoneIsGone'
  <2>1. \A v \in Workers, l \in Listings : work'[v].push[l].st = "gone" => work[v].push[l].st = "gone"
    BY <1>6
  <2>2. QED
    BY <1>3, <2>1, GoneKeeps
<1>10. PushesArePushed'
  BY <1>2, <1>5, <1>6, OffIsOff, NoPushType DEF StockInv, PushesArePushed
<1>11. IdleJobs'
  BY <1>4, <1>5, OffIsOff, JobsApart DEF StockInv, IdleJobs
<1>12. EditsArePauses'
  <2>1. \A j \in Jobs : jobs'[j] # "absent" => jobs[j] # "absent"
    BY <1>2, <1>4 DEF StockInv, IdleJobs
  <2>2. QED
    BY <1>3, <2>1, JobsApart DEF StockInv, EditsArePauses
<1>13. ASSUME RowInv PROVE RowInv'
  <2>1. OnePusher'
    BY <1>3, <1>6, <1>13 DEF RowInv, OnePusher, OnItsWay
  <2>2. PushedIsShown'
    BY <1>3, <1>6, <1>13 DEF RowInv, PushedIsShown
  <2>3. RowTellsEbay'
    BY <1>3, <1>6, <1>13 DEF RowInv, RowTellsEbay
  <2>4. QED
    BY <2>1, <2>2, <2>3 DEF RowInv
<1>14. QED
  BY <1>8, <1>9, <1>10, <1>11, <1>12, <1>13 DEF StockInv

-----------------------------------------------------------------------------
(* Every step keeps the endings, and the quantities.                       *)
LEMMA NextStock ==
  ASSUME StockInv, [Next]_vars
  PROVE  StockInv' /\ (RowInv => RowInv')
<1>1. CASE AmazonMoves \/ NextBucket \/ ComesDue \/ Claim \/ Sweep
  BY <1>1, OutsideStep
<1>2. ASSUME NEW l \in Listings,
             Sale(l) \/ EndOnEbay(l) \/ EndRow(l) \/ EbayEnds(l) \/ Withdraw(l) \/ SweepWrites(l)
      PROVE  StockInv' /\ (RowInv => RowInv')
  BY <1>2, OutsideStep
<1>3. CASE EnqueueSync \/ \E l \in Listings : Pause(l)
  BY <1>3, QueueStep
<1>4. CASE StartBatch \/ FetchFound \/ FetchFails \/ Apply \/ DataFailure
  BY <1>4, RefreshStep
<1>5. ASSUME NEW j \in Jobs, StartSync(j) PROVE StockInv' /\ (RowInv => RowInv')
  BY <1>5, StartSyncStep
<1>6. ASSUME NEW w \in Workers, Compute(w) \/ Push(w)
      PROVE  StockInv' /\ (RowInv => RowInv')
  BY <1>6, ComputeStep, FlushedStep, LandsStep, FailsStep, PersistStep DEF Push
<1>7. CASE UNCHANGED vars
  BY <1>7 DEF vars, StockInv, RowInv, TypeOK, GoneIsGone, Gone, PushesArePushed, IdleJobs, EditsArePauses,
     OnePusher, PushedIsShown, RowTellsEbay, OnItsWay
<1>8. QED
  BY <1>1, <1>2, <1>3, <1>4, <1>5, <1>6, <1>7 DEF Next, World, Cleanup, RefreshRuns

LEMMA StockAlways == Spec => []StockInv
<1>1. StockInv /\ [Next]_vars => StockInv'
  BY NextStock
<1>2. QED
  BY InitStock, <1>1, PTL DEF Spec

(* Whatever the workers, the sweep, the seller and eBay do, a row that is  *)
(* retired is one eBay holds no more.                                      *)
THEOREM RetiredIsGone == Spec => []RetiredOnlyWhenGone
<1>1. StockInv => RetiredOnlyWhenGone
  BY DEF StockInv, GoneIsGone, Gone, RetiredOnlyWhenGone
<1>2. QED
  BY <1>1, StockAlways, PTL

(* The type invariant of the refresh, the queue and the clean-up.          *)
THEOREM StockTypeCorrect == Spec => []TypeOK
<1>1. StockInv => TypeOK
  BY DEF StockInv
<1>2. QED
  BY <1>1, StockAlways, PTL

(* With workers beside each other, answers lost and writes refused, eBay   *)
(* offers more than a row says only after a push that landed was never     *)
(* written or pushes of two workers met (trust), and no more once a push   *)
(* that met no other is written.                                           *)
THEOREM RowsBoundEbay == Spec => []RowTellsEbay
<1>1. StockInv /\ RowInv /\ [Next]_vars => (StockInv /\ RowInv)'
  BY NextStock
<1>2. Spec => [](StockInv /\ RowInv)
  BY InitStock, <1>1, PTL DEF Spec
<1>3. RowInv => RowTellsEbay
  BY DEF RowInv
<1>4. QED
  BY <1>2, <1>3, PTL
=============================================================================
