--------------------------- MODULE TrackingProofs ---------------------------
(***************************************************************************)
(* What eBay is told of an order, proved for all settings, carriers,       *)
(* accounts and any number of faults.  A tick carries what it decided in   *)
(* memory; what it carries stays true because the fulfilments on eBay only *)
(* grow, a pushed number is never taken off the row, and a store that is   *)
(* gone stays gone.                                                        *)
(***************************************************************************)
EXTENDS Tracking, TLAPS

TickType == [pc : {"off", "scrape", "read", "convert", "assign", "persist", "post", "record", "settle"},
             prev : Statuses, known : Reading, recorded : BOOLEAN, next : Statuses, applies : BOOLEAN,
             catchUp : BOOLEAN, number : Number, tells : BOOLEAN]
RowType == [status : Statuses, raw : Reading, converted : BOOLEAN,
            pushed : {"no"} \cup Number \cup ByHand, cancelled : BOOLEAN]
EbayType == [held : SUBSET (Number \cup ByHand), posts : Nat]
AmazonType == [st : {"placed", "shipped", "delivered", "cancelled"}, printed : BOOLEAN]
QueueType == [scheduler : BOOLEAN, now : BOOLEAN]
SeenType == [told : BOOLEAN, crossed : BOOLEAN, unread : BOOLEAN]
ChoiceType == [setting : Settings, carrier : Carriers, read : Reading]

(* TypeOK over the named record sets.                                      *)
LEMMA TypeUnfolds ==
  TypeOK <=> /\ choice \in ChoiceType /\ amazon \in AmazonType
             /\ account \in Accounts /\ store \in {"active", "inactive", "gone"}
             /\ ebay \in EbayType /\ row \in RowType /\ queue \in QueueType
             /\ work \in [Workers -> TickType] /\ web \in {"off", "resolve", "assign", "persist"}
             /\ faults \in 0..MaxFaults /\ seen \in SeenType
BY DEF TypeOK, TickType, RowType, EbayType, AmazonType, QueueType, SeenType, ChoiceType

(* The same of the next state.                                             *)
LEMMA TypeFolds ==
  ASSUME choice' \in ChoiceType, amazon' \in AmazonType,
         account' \in Accounts, store' \in {"active", "inactive", "gone"},
         ebay' \in EbayType, row' \in RowType, queue' \in QueueType,
         work' \in [Workers -> TickType], web' \in {"off", "resolve", "assign", "persist"},
         faults' \in 0..MaxFaults, seen' \in SeenType
  PROVE  TypeOK'
BY DEF TypeOK, TickType, RowType, EbayType, AmazonType, QueueType, SeenType, ChoiceType

LEMMA IdleType == Idle \in TickType
BY DEF Idle, TickType, Statuses, PreShip, Number, Reading

-----------------------------------------------------------------------------
(* What a seller's choice lets the buyer see, and besides once a tick could*)
(* not read it.                                                            *)
ShowsRaw(c, unread) ==
  c.setting \in {"local", "placed_only"} \/ ((c.setting = "logistics" \/ unread) /\ c.carrier = "other")
ShowsBlank(c, unread) ==
  c.setting \in {"local", "placed_only"} \/ ((c.setting = "logistics" \/ unread) /\ c.read = "other")

(* What a tick carries, against the choice, the number on the row, the     *)
(* fulfilments on eBay and the store.                                      *)
TickHolds(t, c, unread, pushed, held, st) ==
  /\ t.known = "other" => c.read = "other"
  /\ t.recorded => pushed # "no"
  /\ t.pc = "record" => t.number \in held
  /\ t.pc = "settle" /\ t.tells => held # {}
  /\ t.pc = "settle" /\ t.applies /\ t.next = "completed" => pushed # "no" \/ st = "gone"
  /\ t.pc = "post" /\ t.number = "raw" => ShowsRaw(c, unread)
  /\ t.pc = "post" /\ t.number = "blank" => ShowsBlank(c, unread)

TicksHold == \A w \in Workers : TickHolds(work[w], choice, seen.unread, row.pushed, ebay.held, store)

(* A carrier alone on the row is what the link read.                       *)
RowReads == row.raw = "other" => choice.read = "other"

(* Unless two ticks crossed, a tick between its reading of eBay and its    *)
(* post is alone there, and nothing was posted before it.                  *)
Between == {"convert", "assign", "persist", "post"}
AloneBetween ==
  ~seen.crossed =>
    \A w \in Workers : work[w].pc \in Between =>
      ebay.posts = 0 /\ \A v \in Workers \ {w} : work[v].pc \notin Between
PostsAreHeld == ebay.held = {} => ebay.posts = 0

(* The inductive invariant.                                                *)
Told == /\ TicksHold /\ RowReads /\ AloneBetween /\ PostsAreHeld
        /\ SupplierStaysHidden /\ PostedTwiceOnlyIfCrossed /\ CompletedIsPushed /\ NothingClaimedEarly
TrackInv == TypeOK /\ Told

LEMMA IdleHolds == ASSUME NEW c, NEW unread, NEW pushed, NEW held, NEW st
                  PROVE TickHolds(Idle, c, unread, pushed, held, st)
BY DEF TickHolds, Idle

LEMMA InitTrack == Init => TrackInv
<1> SUFFICES ASSUME Init PROVE TrackInv
  OBVIOUS
<1>1. amazon \in AmazonType /\ account \in Accounts /\ choice \in ChoiceType
  BY TrackingAssumption DEF Init, AmazonType, ChoiceType
<1>2. row \in RowType /\ ebay \in EbayType /\ queue \in QueueType /\ seen \in SeenType
  BY <1>1 DEF Init, RowType, EbayType, QueueType, SeenType, Statuses, PreShip, AmazonType, ChoiceType
<1>3. work \in [Workers -> TickType] /\ \A w \in Workers : work[w] = Idle
  BY IdleType DEF Init
<1>4. TypeOK
  BY <1>1, <1>2, <1>3, TypeUnfolds, TrackingAssumption DEF Init
<1>5. TicksHold
  BY <1>3, IdleHolds DEF TicksHold
<1>6. AloneBetween /\ PostsAreHeld /\ RowReads
  BY <1>3 DEF Init, AloneBetween, PostsAreHeld, RowReads, Idle, Between
<1>7. SupplierStaysHidden /\ PostedTwiceOnlyIfCrossed /\ CompletedIsPushed /\ NothingClaimedEarly
  BY DEF Init, SupplierStaysHidden, PostedTwiceOnlyIfCrossed, CompletedIsPushed, NothingClaimedEarly
<1>8. QED
  BY <1>4, <1>5, <1>6, <1>7 DEF TrackInv, Told

(* What a tick carries stays true.                                         *)
LEMMA HoldsOn ==
  ASSUME NEW t, NEW c, NEW unread, NEW pushed, NEW held, NEW st,
         NEW unread2, NEW pushed2, NEW held2, NEW st2,
         TickHolds(t, c, unread, pushed, held, st), unread => unread2,
         pushed # "no" => pushed2 # "no", held \subseteq held2, st = "gone" => st2 = "gone"
  PROVE  TickHolds(t, c, unread2, pushed2, held2, st2)
BY DEF TickHolds, ShowsRaw, ShowsBlank

(* One tick moves on, or all of them end, and the number on the row, the   *)
(* fulfilments and the store only move forward.                            *)
Forward ==
  /\ row.pushed # "no" => row'.pushed # "no"
  /\ ebay.held \subseteq ebay'.held
  /\ store = "gone" => store' = "gone"
  /\ seen.unread => seen'.unread
  /\ choice' = choice

LEMMA TicksKeep ==
  ASSUME TicksHold, Forward,
         \A w \in Workers : work'[w] = work[w] \/ TickHolds(work'[w], choice, seen'.unread, row'.pushed, ebay'.held, store')
  PROVE  TicksHold'
<1> SUFFICES ASSUME NEW w \in Workers PROVE TickHolds(work'[w], choice', seen'.unread, row'.pushed, ebay'.held, store')
  BY DEF TicksHold
<1>1. CASE work'[w] = work[w]
  <2>1. TickHolds(work[w], choice, seen.unread, row.pushed, ebay.held, store)
    BY DEF TicksHold
  <2>2. TickHolds(work[w], choice, seen'.unread, row'.pushed, ebay'.held, store')
    BY <2>1, HoldsOn DEF Forward
  <2>3. QED
    BY <1>1, <2>2 DEF Forward
<1>2. CASE TickHolds(work'[w], choice, seen'.unread, row'.pushed, ebay'.held, store')
  BY <1>2 DEF Forward
<1>3. QED
  BY <1>1, <1>2

(* Nobody newly enters between reading and posting, and nothing is posted. *)
LEMMA AloneKeeps ==
  ASSUME AloneBetween, ebay'.posts = ebay.posts, seen.crossed => seen'.crossed,
         \A w \in Workers : work'[w].pc \in Between => work[w].pc \in Between
  PROVE  AloneBetween'
BY DEF AloneBetween

(* The properties of eBay and the row, where eBay and the choice stay.     *)
LEMMA PropertiesKeep ==
  ASSUME Told, choice' = choice, ebay' = ebay, store = "gone" => store' = "gone",
         seen'.told = seen.told, seen'.crossed = seen.crossed, seen.unread => seen'.unread,
         row'.pushed = row.pushed, row'.status = "completed" => row.status = "completed",
         row'.raw = "other" => row.raw = "other"
  PROVE  /\ PostsAreHeld' /\ RowReads' /\ SupplierStaysHidden' /\ PostedTwiceOnlyIfCrossed'
         /\ CompletedIsPushed' /\ NothingClaimedEarly'
BY DEF Told, PostsAreHeld, RowReads, SupplierStaysHidden, OutOfScope, PostedTwiceOnlyIfCrossed, CompletedIsPushed,
       NothingClaimedEarly

-----------------------------------------------------------------------------
(* The steps of the world, of the seller's button and of the process.      *)
LEMMA FaultCounts == ASSUME faults \in 0..MaxFaults, Fault PROVE faults' \in 0..MaxFaults
BY TrackingAssumption DEF Fault

LEMMA OutsideStep ==
  ASSUME TrackInv,
         \/ AmazonMoves \/ AccountMoves \/ StoreMoves \/ SyncStatus
         \/ AskConversion \/ WebResolve \/ WebAssign \/ WebPersist
  PROVE  TrackInv'
<1>1. /\ choice \in ChoiceType /\ amazon \in AmazonType
      /\ account \in Accounts /\ store \in {"active", "inactive", "gone"}
      /\ ebay \in EbayType /\ row \in RowType /\ queue \in QueueType
      /\ work \in [Workers -> TickType] /\ web \in {"off", "resolve", "assign", "persist"}
      /\ faults \in 0..MaxFaults /\ seen \in SeenType
  BY TypeUnfolds DEF TrackInv
<1>2. choice' = choice /\ ebay' = ebay /\ work' = work /\ seen' = seen
  BY DEF AmazonMoves, AccountMoves, StoreMoves, SyncStatus, AskConversion, WebResolve, WebAssign, WebPersist, world
<1>3. amazon' \in AmazonType
  BY <1>1 DEF AmazonMoves, AccountMoves, StoreMoves, SyncStatus, AskConversion, WebResolve, WebAssign, WebPersist,
              world, AmazonType
<1>4. account' \in Accounts
  BY <1>1 DEF AmazonMoves, AccountMoves, StoreMoves, SyncStatus, AskConversion, WebResolve, WebAssign, WebPersist, world
<1>5. store' \in {"active", "inactive", "gone"} /\ (store = "gone" => store' = "gone")
  BY <1>1 DEF AmazonMoves, AccountMoves, StoreMoves, SyncStatus, AskConversion, WebResolve, WebAssign, WebPersist, world
<1>6. row' \in RowType /\ row'.pushed = row.pushed /\ (row'.status = "completed" => row.status = "completed")
      /\ row'.raw = row.raw
  <2>1. \/ row' = row \/ row' = [row EXCEPT !.status = "shipped"] \/ row' = [row EXCEPT !.status = "cancelled"]
        \/ row' = [row EXCEPT !.converted = TRUE]
    BY DEF AmazonMoves, AccountMoves, StoreMoves, SyncStatus, AskConversion, WebResolve, WebAssign, WebPersist
  <2>2. QED
    BY <1>1, <2>1 DEF RowType, Statuses, PreShip
<1>7. queue' \in QueueType
  <2>1. queue' = queue \/ queue' = [queue EXCEPT !.now = TRUE]
    BY DEF AmazonMoves, AccountMoves, StoreMoves, SyncStatus, AskConversion, WebResolve, WebAssign, WebPersist
  <2>2. QED
    BY <1>1, <2>1 DEF QueueType
<1>8. web' \in {"off", "resolve", "assign", "persist"}
  BY <1>1 DEF AmazonMoves, AccountMoves, StoreMoves, SyncStatus, AskConversion, WebResolve, WebAssign, WebPersist
<1>9. faults' \in 0..MaxFaults
  <2>1. faults' = faults \/ Fault
    BY DEF AmazonMoves, AccountMoves, StoreMoves, SyncStatus, AskConversion, WebResolve, WebAssign, WebPersist, Reads
  <2>2. QED
    BY <1>1, <2>1, FaultCounts
<1>10. TypeOK'
  BY <1>1, <1>2, <1>3, <1>4, <1>5, <1>6, <1>7, <1>8, <1>9, TypeFolds
<1>11. TicksHold'
  BY <1>2, <1>5, <1>6, TicksKeep DEF TrackInv, Told, Forward
<1>12. AloneBetween'
  BY <1>2, AloneKeeps DEF TrackInv, Told
<1>13. QED
  BY <1>2, <1>5, <1>6, <1>10, <1>11, <1>12, PropertiesKeep DEF TrackInv, Told

LEMMA ByHandStep == TrackInv /\ SellerShipsByHand => TrackInv'
<1> SUFFICES ASSUME TrackInv, SellerShipsByHand PROVE TrackInv'
  OBVIOUS
<1>1. PICK kind \in Entries : ebay' = [ebay EXCEPT !.held = {kind}]
  BY DEF SellerShipsByHand
<1>2. ebay.held = {} /\ choice' = choice /\ amazon' = amazon /\ account' = account /\ store' = store /\ row' = row
      /\ queue' = queue /\ work' = work /\ web' = web /\ faults' = faults /\ seen' = seen
  BY DEF SellerShipsByHand, world
<1>3. ebay \in EbayType /\ kind \in ByHand
  BY TypeUnfolds, TrackingAssumption DEF TrackInv, ByHand
<1>4. ebay'.held = {kind} /\ ebay'.posts = ebay.posts /\ ebay' \in EbayType
  BY <1>1, <1>3 DEF EbayType
<1>5. TypeOK'
  BY <1>2, <1>4, TypeUnfolds, TypeFolds DEF TrackInv
<1>6. TicksHold'
  BY <1>2, <1>4, TicksKeep DEF TrackInv, Told, Forward
<1>7. AloneBetween'
  BY <1>2, <1>4, AloneKeeps DEF TrackInv, Told
<1>8. PostsAreHeld' /\ RowReads'
  BY <1>2, <1>4 DEF TrackInv, Told, PostsAreHeld, RowReads
<1>9. SupplierStaysHidden'
  BY <1>3, <1>4 DEF SupplierStaysHidden, ByHand
<1>10. PostedTwiceOnlyIfCrossed' /\ CompletedIsPushed' /\ NothingClaimedEarly'
  BY <1>2, <1>4 DEF TrackInv, Told, PostedTwiceOnlyIfCrossed, CompletedIsPushed, NothingClaimedEarly
<1>11. QED
  BY <1>5, <1>6, <1>7, <1>8, <1>9, <1>10 DEF TrackInv, Told

LEMMA RestartStep == TrackInv /\ Restart => TrackInv'
<1> SUFFICES ASSUME TrackInv, Restart PROVE TrackInv'
  OBVIOUS
<1>1. /\ choice' = choice /\ amazon' = amazon /\ account' = account /\ store' = store /\ row' = row /\ ebay' = ebay
      /\ seen' = seen /\ web' = "off" /\ Fault /\ work' = [w \in Workers |-> Idle]
      /\ queue' = [scheduler |-> TrackedOrders, now |-> queue.now \/ work["immediate"].pc # "off"]
  BY DEF Restart, world
<1>2. queue \in QueueType /\ faults \in 0..MaxFaults
  BY TypeUnfolds DEF TrackInv
<1>3. queue' \in QueueType
  BY <1>1, <1>2 DEF QueueType, TrackedOrders
<1>4. faults' \in 0..MaxFaults
  BY <1>1, <1>2, FaultCounts
<1>5. work' \in [Workers -> TickType] /\ \A w \in Workers : work'[w] = Idle
  BY <1>1, IdleType
<1>6. TypeOK'
  BY <1>1, <1>3, <1>4, <1>5, TypeUnfolds, TypeFolds DEF TrackInv
<1>7. TicksHold'
  BY <1>1, <1>5, IdleHolds, TicksKeep DEF TrackInv, Told, Forward
<1>8. AloneBetween'
  BY <1>1, <1>5 DEF AloneBetween, Idle, Between
<1>9. QED
  BY <1>1, <1>6, <1>7, <1>8, PropertiesKeep DEF TrackInv, Told

-----------------------------------------------------------------------------
(* A step of a tick that changes what it carries, and no more of the ticks.*)
LEMMA TickMoves ==
  ASSUME TrackInv, NEW w \in Workers, NEW t \in TickType, work' = [work EXCEPT ![w] = t], Forward,
         TickHolds(t, choice, seen'.unread, row'.pushed, ebay'.held, store')
  PROVE  /\ work' \in [Workers -> TickType] /\ TicksHold'
         /\ work'[w] = t /\ \A v \in Workers \ {w} : work'[v] = work[v]
<1>1. work \in [Workers -> TickType]
  BY TypeUnfolds DEF TrackInv
<1>2. work' \in [Workers -> TickType] /\ work'[w] = t /\ \A v \in Workers \ {w} : work'[v] = work[v]
  BY <1>1
<1>3. TicksHold'
  BY <1>2, TicksKeep DEF TrackInv, Told
<1>4. QED
  BY <1>2, <1>3

(* A step of a tick away from eBay: it leaves the fulfilments and the      *)
(* status alone, and reads the setting at most.                            *)
LEMMA ResolvingTick ==
  ASSUME TrackInv, NEW w \in Workers, NEW t \in TickType, work' = [work EXCEPT ![w] = t],
         UNCHANGED <<world, ebay>>, row' \in RowType, queue' \in QueueType, seen' \in SeenType,
         web' = web, faults' \in 0..MaxFaults,
         row'.pushed = row.pushed, row'.status = row.status, row'.raw = "other" => row.raw = "other",
         seen'.told = seen.told, seen'.crossed = seen.crossed, seen.unread => seen'.unread,
         t.pc \in Between => work[w].pc \in Between,
         TickHolds(t, choice, seen'.unread, row.pushed, ebay.held, store)
  PROVE  TrackInv'
<1>1. choice' = choice /\ amazon' = amazon /\ account' = account /\ store' = store
  BY DEF world
<1>2. /\ work' \in [Workers -> TickType] /\ TicksHold'
      /\ work'[w] = t /\ \A v \in Workers \ {w} : work'[v] = work[v]
  BY <1>1, TickMoves DEF Forward
<1>3. TypeOK'
  BY <1>1, <1>2, TypeUnfolds, TypeFolds DEF TrackInv
<1>4. AloneBetween'
  BY <1>2, AloneKeeps DEF TrackInv, Told
<1>5. QED
  BY <1>1, <1>2, <1>3, <1>4, PropertiesKeep DEF TrackInv, Told

(* The same where the history stays too.                                   *)
LEMMA PlainTick ==
  ASSUME TrackInv, NEW w \in Workers, NEW t \in TickType, work' = [work EXCEPT ![w] = t],
         UNCHANGED <<world, ebay, seen>>, row' \in RowType, queue' \in QueueType,
         web' = web, faults' \in 0..MaxFaults,
         row'.pushed = row.pushed, row'.status = row.status, row'.raw = "other" => row.raw = "other",
         t.pc \in Between => work[w].pc \in Between,
         TickHolds(t, choice, seen.unread, row.pushed, ebay.held, store)
  PROVE  TrackInv'
<1>1. seen' \in SeenType /\ seen' = seen
  BY TypeUnfolds DEF TrackInv
<1>2. QED
  BY <1>1, ResolvingTick

(* A tick that ends, or stops for the scheduler to start over.             *)
LEMMA EndTick ==
  ASSUME TrackInv, NEW w \in Workers, Finish(w), UNCHANGED <<world, ebay, row, web, seen>>,
         queue' \in QueueType, faults' \in 0..MaxFaults
  PROVE  TrackInv'
<1>1. row \in RowType
  BY TypeUnfolds DEF TrackInv
<1>2. Idle.pc \notin Between
  BY DEF Idle, Between
<1>3. QED
  BY <1>1, <1>2, IdleType, IdleHolds, PlainTick DEF Finish

LEMMA FailStep == ASSUME TrackInv, NEW w \in Workers, Fail(w) PROVE TrackInv'
<1>1. faults \in 0..MaxFaults /\ queue \in QueueType
  BY TypeUnfolds DEF TrackInv
<1>2. faults' \in 0..MaxFaults
  BY <1>1, FaultCounts DEF Fail
<1>3. QED
  BY <1>1, <1>2, EndTick DEF Fail

(* The order is read: a tick that starts knows whether a number was pushed.*)
LEMMA StartStep == ASSUME TrackInv, NEW w \in Workers, Start(w) PROVE TrackInv'
<1>1. /\ queue \in QueueType /\ row \in RowType /\ work \in [Workers -> TickType] /\ work[w] \in TickType
      /\ faults \in 0..MaxFaults
  BY TypeUnfolds DEF TrackInv
<1>2. UNCHANGED <<world, ebay, row, web, faults, seen>>
  BY DEF Start
<1>3. queue' \in QueueType
  BY <1>1 DEF Start, QueueType
<1> DEFINE t == [Idle EXCEPT !.pc = "scrape", !.prev = row.status, !.known = row.raw,
                             !.recorded = row.pushed # "no"]
<1>4. work' = work \/ work' = [work EXCEPT ![w] = t]
  BY DEF Start
<1>5. t \in TickType /\ t.pc = "scrape" /\ t.known = row.raw /\ (t.recorded <=> row.pushed # "no")
  BY <1>1, IdleType DEF TickType, RowType
<1>6. TickHolds(t, choice, seen.unread, row.pushed, ebay.held, store)
  BY <1>5 DEF TickHolds, TrackInv, Told, RowReads
<1>7. t.pc \notin Between
  BY <1>5 DEF Between
<1> HIDE DEF t
<1>8. CASE work' = [work EXCEPT ![w] = t]
  BY <1>1, <1>2, <1>3, <1>5, <1>6, <1>7, <1>8, PlainTick
<1>9. CASE work' = work
  <2>1. TickHolds(work[w], choice, seen.unread, row.pushed, ebay.held, store)
    BY DEF TrackInv, Told, TicksHold
  <2>2. work' = [work EXCEPT ![w] = work[w]]
    BY <1>1, <1>9
  <2>3. QED
    BY <1>1, <1>2, <1>3, <2>1, <2>2, PlainTick
<1>10. QED
  BY <1>4, <1>8, <1>9

-----------------------------------------------------------------------------
(* The steps of a tick.                                                    *)

(* What Amazon's page makes due: a delivered order that is closed without  *)
(* a push was pushed before the tick read it.                              *)
LEMMA ScrapeStep == ASSUME TrackInv, NEW w \in Workers, Scrape(w) PROVE TrackInv'
<1>1. /\ queue \in QueueType /\ row \in RowType /\ work[w] \in TickType /\ amazon \in AmazonType
      /\ faults \in 0..MaxFaults
  BY TypeUnfolds DEF TrackInv
<1>2. (work[w].recorded => row.pushed # "no") /\ (work[w].known = "other" => choice.read = "other")
  BY DEF TrackInv, Told, TicksHold, TickHolds
<1> DEFINE Due(next) == [Idle EXCEPT !.next = next, !.applies = ShouldApplyStatus(work[w].prev, next),
                                     !.catchUp = CatchUp(work[w])]
<1> DEFINE After(next, number) ==
      CASE next = "cancelled" -> Idle
        [] next # "cancelled" /\ PushDue(work[w], next) ->
             [Due(next) EXCEPT !.pc = "read", !.known = IF number THEN "number" ELSE work[w].known]
        [] next # "cancelled" /\ ~PushDue(work[w], next) /\ ShouldApplyStatus(work[w].prev, next) ->
             [Due(next) EXCEPT !.pc = "settle"]
        [] OTHER -> Idle
<1>3. PICK next \in MapAmazonStatus \cup {"waiting_shipment"}, number \in BOOLEAN :
        /\ faults' = faults \/ Fault
        /\ row' = [row EXCEPT !.raw = IF number THEN "number" ELSE @, !.cancelled = @ \/ next = "cancelled"]
        /\ queue' = IF next = "cancelled" THEN [queue EXCEPT !.scheduler = FALSE] ELSE queue
        /\ work' = [work EXCEPT ![w] = After(next, number)]
  BY ZenonT(40), SMTT(40) DEF Scrape
<1>4. UNCHANGED <<world, ebay, seen>> /\ web' = web
  BY DEF Scrape
<1>5. next \in Statuses
  BY <1>1 DEF MapAmazonStatus, AmazonType, Statuses, PreShip
<1>6. /\ row' \in RowType /\ row'.pushed = row.pushed /\ row'.status = row.status
      /\ row'.raw = "other" => row.raw = "other"
  BY <1>1, <1>3 DEF RowType, Reading
<1>7. queue' \in QueueType
  BY <1>1, <1>3 DEF QueueType
<1>8. faults' \in 0..MaxFaults
  BY <1>1, <1>3, FaultCounts
<1>9. Due(next) \in TickType /\ Due(next).pc = "off" /\ Due(next).next = next /\ Due(next).tells = FALSE
      /\ Due(next).recorded = FALSE /\ Due(next).known = "nothing"
  BY <1>5, IdleType DEF TickType, Idle, ShouldApplyStatus, CatchUp
<1>10. ASSUME NEW t, t = After(next, number) PROVE TrackInv'
  <2>1. CASE t = Idle
    <3>1. Idle.pc \notin Between
      BY DEF Idle, Between
    <3>2. QED
      BY <1>3, <1>4, <1>6, <1>7, <1>8, <1>10, <2>1, <3>1, IdleType, IdleHolds, PlainTick
  <2>2. CASE t = [Due(next) EXCEPT !.pc = "read", !.known = IF number THEN "number" ELSE work[w].known]
    <3>1. t \in TickType /\ t.pc = "read" /\ t.recorded = FALSE
          /\ (t.known = "other" => work[w].known = "other")
      BY <1>1, <1>9, <2>2 DEF TickType, Reading
    <3>2. TickHolds(t, choice, seen.unread, row.pushed, ebay.held, store) /\ t.pc \notin Between
      BY <1>2, <3>1 DEF TickHolds, Between
    <3>3. QED
      BY <1>3, <1>4, <1>6, <1>7, <1>8, <1>10, <3>1, <3>2, PlainTick
  <2>3. CASE t = [Due(next) EXCEPT !.pc = "settle"] /\ ~PushDue(work[w], next)
                                                    /\ ShouldApplyStatus(work[w].prev, next)
    <3>1. t \in TickType /\ t.pc = "settle" /\ t.recorded = FALSE /\ t.tells = FALSE /\ t.next = next
          /\ t.known = "nothing"
      BY <1>9, <2>3 DEF TickType
    <3>2. next = "completed" => row.pushed # "no"
      BY <1>1, <1>2, <2>3 DEF PushDue, NewlyShipped, CatchUp, ShouldApplyStatus, TickType, Statuses
    <3>3. TickHolds(t, choice, seen.unread, row.pushed, ebay.held, store) /\ t.pc \notin Between
      BY <3>1, <3>2 DEF TickHolds, Between
    <3>4. QED
      BY <1>3, <1>4, <1>6, <1>7, <1>8, <1>10, <3>1, <3>3, PlainTick
  <2>4. t = Idle \/ t = [Due(next) EXCEPT !.pc = "read", !.known = IF number THEN "number" ELSE work[w].known]
        \/ (t = [Due(next) EXCEPT !.pc = "settle"] /\ ~PushDue(work[w], next)
            /\ ShouldApplyStatus(work[w].prev, next))
    <3> HIDE DEF Due
    <3>1. QED
      BY <1>10
  <2>5. QED
    BY <2>1, <2>2, <2>3, <2>4
<1> HIDE DEF After
<1>11. QED
  BY <1>10

(* The reading of eBay: what it holds is recorded; nothing held, and the   *)
(* tick goes on to convert and post, alone unless another is there.        *)
LEMMA ReadStep == ASSUME TrackInv, NEW w \in Workers, ReadEbay(w) PROVE TrackInv'
<1>1. /\ choice \in ChoiceType /\ amazon \in AmazonType
      /\ account \in Accounts /\ store \in {"active", "inactive", "gone"}
      /\ ebay \in EbayType /\ row \in RowType /\ queue \in QueueType
      /\ work \in [Workers -> TickType] /\ web \in {"off", "resolve", "assign", "persist"}
      /\ faults \in 0..MaxFaults /\ seen \in SeenType /\ work[w] \in TickType
  BY TypeUnfolds DEF TrackInv
<1>2. choice' = choice /\ amazon' = amazon /\ account' = account /\ store' = store /\ ebay' = ebay /\ web' = web
  BY DEF ReadEbay, world
<1>3. TickHolds(work[w], choice, seen.unread, row.pushed, ebay.held, store) /\ work[w].pc = "read"
  BY DEF TrackInv, Told, TicksHold, ReadEbay
<1> DEFINE Settling(tells) == [work[w] EXCEPT !.pc = "settle", !.catchUp = FALSE, !.known = "nothing",
                                              !.number = "blank", !.tells = tells]
<1>4. ASSUME NEW tells \in BOOLEAN
      PROVE  /\ Settling(tells) \in TickType /\ Settling(tells).pc = "settle" /\ Settling(tells).tells = tells
             /\ Settling(tells).recorded = work[w].recorded /\ Settling(tells).known = "nothing"
             /\ (ToSettle(w, tells) => work' = [work EXCEPT ![w] = Settling(tells)])
  BY <1>1 DEF TickType, ToSettle, Number, Reading
<1>5. CASE store = "gone" /\ ToSettle(w, FALSE) /\ UNCHANGED <<row, queue, faults, seen>>
  <2>1. TickHolds(Settling(FALSE), choice, seen.unread, row.pushed, ebay.held, store) /\ Settling(FALSE).pc \notin Between
    BY <1>3, <1>4, <1>5 DEF TickHolds, Between
  <2> HIDE DEF Settling
  <2>2. QED
    BY <1>1, <1>2, <1>4, <1>5, <2>1, PlainTick DEF world
<1>6. CASE Hold(w) /\ UNCHANGED <<row, seen>> /\ (faults' = faults \/ Fault)
  <2>1. queue' \in QueueType /\ Finish(w)
    BY <1>1, <1>6 DEF Hold, QueueType
  <2>2. faults' \in 0..MaxFaults
    BY <1>1, <1>6, FaultCounts
  <2>3. QED
    BY <1>2, <1>6, <2>1, <2>2, EndTick DEF world
<1>7. CASE /\ ebay.held # {} /\ ToSettle(w, work[w].next # "completed" /\ ~work[w].catchUp)
           /\ UNCHANGED <<queue, faults, seen>>
           /\ \E kind \in ebay.held : row' = [row EXCEPT !.pushed = IF @ = "no" THEN kind ELSE @]
  <2> DEFINE t == Settling(work[w].next # "completed" /\ ~work[w].catchUp)
  <2>1. t \in TickType /\ t.pc = "settle" /\ t.recorded = work[w].recorded /\ t.known = "nothing"
        /\ work' = [work EXCEPT ![w] = t]
    BY <1>1, <1>4, <1>7 DEF TickType
  <2>2. PICK kind \in ebay.held : row' = [row EXCEPT !.pushed = IF @ = "no" THEN kind ELSE @]
    BY <1>7
  <2>3. kind \in Number \cup ByHand /\ kind # "no"
    BY <1>1, <2>2 DEF EbayType, Number, ByHand
  <2>4. row' \in RowType /\ row'.status = row.status /\ row'.pushed # "no" /\ row'.raw = row.raw
        /\ (row.pushed # "no" => row'.pushed = row.pushed) /\ (row.pushed = "no" => row'.pushed \in ebay.held)
    BY <1>1, <2>2, <2>3 DEF RowType
  <2>5. TickHolds(t, choice, seen.unread, row'.pushed, ebay.held, store) /\ t.pc \notin Between
    BY <1>7, <2>1, <2>4 DEF TickHolds, Between
  <2> HIDE DEF t
  <2>6. /\ work' \in [Workers -> TickType] /\ TicksHold'
        /\ work'[w] = t /\ \A v \in Workers \ {w} : work'[v] = work[v]
    <3>1. Forward /\ seen'.unread = seen.unread
      BY <1>2, <1>7, <2>4 DEF Forward
    <3>2. QED
      BY <1>2, <2>1, <2>5, <3>1, TickMoves
  <2>7. TypeOK'
    BY <1>1, <1>2, <1>7, <2>4, <2>6, TypeFolds
  <2>8. AloneBetween'
    BY <1>2, <1>7, <2>5, <2>6, AloneKeeps DEF TrackInv, Told
  <2>9. PostsAreHeld' /\ RowReads' /\ SupplierStaysHidden' /\ PostedTwiceOnlyIfCrossed'
    BY <1>2, <1>7, <2>4 DEF TrackInv, Told, PostsAreHeld, RowReads, SupplierStaysHidden, OutOfScope,
                            PostedTwiceOnlyIfCrossed
  <2>10. CompletedIsPushed' /\ NothingClaimedEarly'
    BY <1>2, <1>7, <2>4 DEF TrackInv, Told, CompletedIsPushed, NothingClaimedEarly
  <2>11. QED
    BY <2>6, <2>7, <2>8, <2>9, <2>10 DEF TrackInv, Told
<1>8. CASE /\ ebay.held = {} /\ work' = [work EXCEPT ![w].pc = "convert", ![w].catchUp = FALSE]
           /\ seen' = [seen EXCEPT !.crossed = @ \/ \E v \in Workers \ {w} : work[v].pc \in Between]
           /\ UNCHANGED <<row, queue, faults>>
  <2> DEFINE t == [work[w] EXCEPT !.pc = "convert", !.catchUp = FALSE]
  <2>1. t \in TickType /\ t.pc = "convert" /\ t.recorded = work[w].recorded /\ t.known = work[w].known
    BY <1>1 DEF TickType
  <2>2. work' = [work EXCEPT ![w] = t]
    BY <1>1, <1>8
  <2>3. TickHolds(t, choice, seen.unread, row.pushed, ebay.held, store)
    BY <1>3, <2>1 DEF TickHolds
  <2> HIDE DEF t
  <2>4. /\ work' \in [Workers -> TickType] /\ TicksHold'
        /\ work'[w] = t /\ \A v \in Workers \ {w} : work'[v] = work[v]
    <3>1. seen'.unread = seen.unread
      BY <1>1, <1>8 DEF SeenType
    <3>2. QED
      BY <1>2, <1>8, <2>1, <2>2, <2>3, <3>1, TickMoves DEF Forward
  <2>5. seen' \in SeenType /\ seen'.told = seen.told /\ (seen.crossed => seen'.crossed)
        /\ seen'.unread = seen.unread
        /\ (~seen'.crossed => \A v \in Workers \ {w} : work[v].pc \notin Between)
    BY <1>1, <1>8 DEF SeenType
  <2>6. TypeOK'
    BY <1>1, <1>2, <1>8, <2>4, <2>5, TypeFolds
  <2>7. AloneBetween'
    <3> SUFFICES ASSUME ~seen'.crossed, NEW u \in Workers, work'[u].pc \in Between
                 PROVE  ebay'.posts = 0 /\ \A v \in Workers \ {u} : work'[v].pc \notin Between
      BY DEF AloneBetween
    <3>1. u = w
      BY <2>4, <2>5
    <3>2. ebay.posts = 0
      BY <1>8 DEF TrackInv, Told, PostsAreHeld
    <3>3. QED
      BY <1>2, <2>4, <2>5, <3>1, <3>2
  <2>8. /\ PostsAreHeld' /\ RowReads' /\ SupplierStaysHidden' /\ PostedTwiceOnlyIfCrossed'
        /\ CompletedIsPushed' /\ NothingClaimedEarly'
    BY <1>2, <1>8, <2>5 DEF TrackInv, Told, PostsAreHeld, RowReads, SupplierStaysHidden, OutOfScope,
                            PostedTwiceOnlyIfCrossed, CompletedIsPushed, NothingClaimedEarly
  <2>9. QED
    BY <2>4, <2>6, <2>7, <2>8 DEF TrackInv, Told
<1>9. QED
  BY <1>5, <1>6, <1>7, <1>8 DEF ReadEbay, Between

(* The number the buyer will see, as the choice of the seller allows, or   *)
(* the default where the choice cannot be read.                            *)
LEMMA ConvertStep == ASSUME TrackInv, NEW w \in Workers, Convert(w) PROVE TrackInv'
<1>1. /\ queue \in QueueType /\ row \in RowType /\ work[w] \in TickType /\ faults \in 0..MaxFaults
      /\ choice \in ChoiceType /\ seen \in SeenType
  BY TypeUnfolds DEF TrackInv
<1>2. UNCHANGED <<world, ebay>> /\ web' = web /\ row' = row
  BY DEF Convert
<1>3. TickHolds(work[w], choice, seen.unread, row.pushed, ebay.held, store)
      /\ work[w].pc = "convert" /\ "convert" \in Between
  BY DEF TrackInv, Told, TicksHold, Convert, Between
<1>4. ASSUME NEW pc \in {"assign", "post"}, NEW number \in Number,
             work' = [work EXCEPT ![w] = [work[w] EXCEPT !.pc = pc, !.known = "nothing", !.number = number]],
             queue' \in QueueType, faults' \in 0..MaxFaults, seen' \in SeenType,
             seen'.told = seen.told, seen'.crossed = seen.crossed, seen.unread => seen'.unread,
             pc = "post" /\ number = "raw" => ShowsRaw(choice, seen'.unread),
             pc = "post" /\ number = "blank" => ShowsBlank(choice, seen'.unread)
      PROVE  TrackInv'
  <2> DEFINE t == [work[w] EXCEPT !.pc = pc, !.known = "nothing", !.number = number]
  <2>1. t \in TickType /\ t.pc = pc /\ t.recorded = work[w].recorded /\ t.number = number /\ t.known = "nothing"
    BY <1>1 DEF TickType, Reading
  <2>2. TickHolds(t, choice, seen'.unread, row.pushed, ebay.held, store)
    BY <1>3, <1>4, <2>1 DEF TickHolds
  <2>3. work' = [work EXCEPT ![w] = t]
    BY <1>4
  <2> HIDE DEF t
  <2>4. QED
    BY <1>1, <1>2, <1>3, <1>4, <2>1, <2>2, <2>3, ResolvingTick
<1>5. CASE /\ work' = [work EXCEPT ![w].pc = "post", ![w].known = "nothing", ![w].number = "aqua"]
           /\ UNCHANGED <<queue, faults, seen>>
  <2>1. work' = [work EXCEPT ![w] = [work[w] EXCEPT !.pc = "post", !.known = "nothing", !.number = "aqua"]]
    BY <1>5, TypeUnfolds DEF TrackInv
  <2>2. "aqua" \in Number /\ "post" \in {"assign", "post"}
    BY DEF Number
  <2>3. QED
    BY <1>1, <1>4, <1>5, <2>1, <2>2
<1>6. ASSUME NEW setting \in {choice.setting, "logistics"}, Reads(setting),
             seen' = [seen EXCEPT !.unread = @ \/ setting # choice.setting]
      PROVE  /\ faults' \in 0..MaxFaults /\ seen' \in SeenType
             /\ seen'.told = seen.told /\ seen'.crossed = seen.crossed /\ (seen.unread => seen'.unread)
             /\ setting = choice.setting \/ (setting = "logistics" /\ seen'.unread)
  <2>1. faults' \in 0..MaxFaults
    BY <1>1, <1>6, FaultCounts DEF Reads
  <2>2. seen' \in SeenType /\ seen'.told = seen.told /\ seen'.crossed = seen.crossed
        /\ seen'.unread = (seen.unread \/ setting # choice.setting)
    BY <1>1, <1>6 DEF SeenType
  <2>3. QED
    BY <1>6, <2>1, <2>2
<1>7. ASSUME NEW setting \in {choice.setting, "logistics"}, Reads(setting),
             seen' = [seen EXCEPT !.unread = @ \/ setting # choice.setting],
             PassesThrough(setting, FALSE, work[w].known), queue' = queue,
             work' = [work EXCEPT ![w].pc = "post", ![w].known = "nothing",
                                  ![w].number = IF work[w].known = "number" THEN "raw" ELSE "blank"]
      PROVE  TrackInv'
  <2> DEFINE number == IF work[w].known = "number" THEN "raw" ELSE "blank"
  <2>1. /\ faults' \in 0..MaxFaults /\ seen' \in SeenType
        /\ seen'.told = seen.told /\ seen'.crossed = seen.crossed /\ (seen.unread => seen'.unread)
        /\ setting = choice.setting \/ (setting = "logistics" /\ seen'.unread)
    BY <1>6, <1>7
  <2>2. choice.carrier \in {"amazon", "other"} /\ work[w].known \in Reading
    BY <1>1, TrackingAssumption DEF ChoiceType, TickType
  <2>3. work[w].known = "number" => ShowsRaw(choice, seen'.unread)
    BY <1>7, <2>1, <2>2 DEF PassesThrough, AmazonCarries, ShowsRaw
  <2>4. work[w].known # "number" => ShowsBlank(choice, seen'.unread)
    <3>1. work[w].known = "other" => choice.read = "other"
      BY <1>3 DEF TickHolds
    <3>2. QED
      BY <1>7, <2>1, <2>2, <3>1 DEF PassesThrough, AmazonCarries, ShowsBlank, Reading
  <2>5. number \in Number /\ (number = "raw" => work[w].known = "number")
        /\ (number = "blank" => work[w].known # "number")
    BY DEF Number
  <2>6. work' = [work EXCEPT ![w] = [work[w] EXCEPT !.pc = "post", !.known = "nothing", !.number = number]]
    BY <1>7, TypeUnfolds DEF TrackInv
  <2> HIDE DEF number
  <2>7. "post" \in {"assign", "post"} /\ queue' \in QueueType
    BY <1>1, <1>7
  <2>8. QED
    BY <1>4, <2>1, <2>3, <2>4, <2>5, <2>6, <2>7
<1>8. ASSUME NEW setting \in {choice.setting, "logistics"}, Reads(setting),
             seen' = [seen EXCEPT !.unread = @ \/ setting # choice.setting], Hold(w)
      PROVE  TrackInv'
  <2>1. /\ faults' \in 0..MaxFaults /\ seen' \in SeenType
        /\ seen'.told = seen.told /\ seen'.crossed = seen.crossed /\ (seen.unread => seen'.unread)
    BY <1>6, <1>8
  <2>2. queue' \in QueueType /\ work' = [work EXCEPT ![w] = Idle]
    BY <1>1, <1>8 DEF Hold, QueueType, Finish
  <2>3. Idle.pc \notin Between
    BY DEF Idle, Between
  <2>4. QED
    BY <1>1, <1>2, <2>1, <2>2, <2>3, IdleType, IdleHolds, ResolvingTick
<1>9. ASSUME NEW setting \in {choice.setting, "logistics"}, Reads(setting),
             seen' = [seen EXCEPT !.unread = @ \/ setting # choice.setting], queue' = queue,
             work' = [work EXCEPT ![w].pc = "assign", ![w].known = "nothing"]
      PROVE  TrackInv'
  <2>1. /\ faults' \in 0..MaxFaults /\ seen' \in SeenType
        /\ seen'.told = seen.told /\ seen'.crossed = seen.crossed /\ (seen.unread => seen'.unread)
    BY <1>6, <1>9
  <2>2. work[w].number \in Number /\ "assign" \in {"assign", "post"} /\ queue' \in QueueType
    BY <1>1, <1>9 DEF TickType
  <2>3. [work[w] EXCEPT !.pc = "assign", !.known = "nothing"]
        = [work[w] EXCEPT !.pc = "assign", !.known = "nothing", !.number = work[w].number]
    BY <1>1 DEF TickType
  <2>4. work' = [work EXCEPT ![w] = [work[w] EXCEPT !.pc = "assign", !.known = "nothing"]]
    BY <1>9, TypeUnfolds DEF TrackInv
  <2>5. work' = [work EXCEPT ![w] = [work[w] EXCEPT !.pc = "assign", !.known = "nothing",
                                                    !.number = work[w].number]]
    BY <2>3, <2>4
  <2>6. QED
    BY <1>4, <2>1, <2>2, <2>5
<1>10. CASE \E setting \in {choice.setting, "logistics"} :
              /\ ~row.converted /\ Reads(setting)
              /\ seen' = [seen EXCEPT !.unread = @ \/ setting # choice.setting]
              /\ \/ /\ PassesThrough(setting, FALSE, work[w].known)
                    /\ work' = [work EXCEPT ![w].pc = "post", ![w].known = "nothing",
                                            ![w].number = IF work[w].known = "number" THEN "raw" ELSE "blank"]
                    /\ UNCHANGED queue
                 \/ Hold(w)
                 \/ work' = [work EXCEPT ![w].pc = "assign", ![w].known = "nothing"] /\ UNCHANGED queue
  BY <1>7, <1>8, <1>9, <1>10
<1>11. QED
  BY <1>5, <1>10 DEF Convert

LEMMA AssignStep == ASSUME TrackInv, NEW w \in Workers, Assign(w) PROVE TrackInv'
<1>1. queue \in QueueType /\ row \in RowType /\ work[w] \in TickType /\ faults \in 0..MaxFaults
  BY TypeUnfolds DEF TrackInv
<1>2. UNCHANGED <<world, ebay, seen>> /\ web' = web /\ row' = row
  BY DEF Assign
<1>3. TickHolds(work[w], choice, seen.unread, row.pushed, ebay.held, store) /\ work[w].pc \in Between
  BY DEF TrackInv, Told, TicksHold, Assign, Between
<1>4. CASE Goto(w, "persist") /\ UNCHANGED <<queue, faults>>
  <2> DEFINE t == [work[w] EXCEPT !.pc = "persist"]
  <2>1. t \in TickType /\ t.pc = "persist" /\ t.recorded = work[w].recorded /\ t.known = work[w].known
    BY <1>1 DEF TickType
  <2>2. work' = [work EXCEPT ![w] = t]
    BY <1>4, TypeUnfolds DEF TrackInv, Goto
  <2>3. TickHolds(t, choice, seen.unread, row.pushed, ebay.held, store)
    BY <1>3, <2>1 DEF TickHolds
  <2> HIDE DEF t
  <2>4. QED
    BY <1>1, <1>2, <1>3, <1>4, <2>1, <2>2, <2>3, PlainTick
<1>5. CASE Hold(w) /\ Fault
  <2>1. queue' \in QueueType /\ Finish(w) /\ faults' \in 0..MaxFaults
    BY <1>1, <1>5, FaultCounts DEF Hold, QueueType
  <2>2. QED
    BY <1>2, <2>1, EndTick
<1>6. QED
  BY <1>4, <1>5 DEF Assign

LEMMA PersistStep == ASSUME TrackInv, NEW w \in Workers, Persist(w) PROVE TrackInv'
<1>1. queue \in QueueType /\ row \in RowType /\ work[w] \in TickType /\ faults \in 0..MaxFaults
  BY TypeUnfolds DEF TrackInv
<1>2. UNCHANGED <<world, ebay, seen>> /\ web' = web /\ queue' = queue
  BY DEF Persist
<1>3. TickHolds(work[w], choice, seen.unread, row.pushed, ebay.held, store) /\ work[w].pc \in Between
  BY DEF TrackInv, Told, TicksHold, Persist, Between
<1>4. faults' \in 0..MaxFaults
  BY <1>1, FaultCounts DEF Persist
<1>5. row' \in RowType /\ row'.pushed = row.pushed /\ row'.status = row.status /\ row'.raw = row.raw
  BY <1>1 DEF Persist, RowType
<1> DEFINE t == [work[w] EXCEPT !.pc = "post", !.number = "aqua"]
<1>6. t \in TickType /\ t.pc = "post" /\ t.number = "aqua" /\ t.recorded = work[w].recorded
      /\ t.known = work[w].known
  BY <1>1 DEF TickType, Number
<1>7. work' = [work EXCEPT ![w] = t]
  BY TypeUnfolds DEF TrackInv, Persist
<1>8. TickHolds(t, choice, seen.unread, row.pushed, ebay.held, store)
  BY <1>3, <1>6 DEF TickHolds
<1> HIDE DEF t
<1>9. QED
  BY <1>1, <1>2, <1>3, <1>4, <1>5, <1>6, <1>7, <1>8, PlainTick

(* The post: a number the choice allows, and the first one if no two ticks *)
(* crossed.                                                                *)
LEMMA PostStep == ASSUME TrackInv, NEW w \in Workers, Post(w) PROVE TrackInv'
<1>1. /\ choice \in ChoiceType /\ amazon \in AmazonType
      /\ account \in Accounts /\ store \in {"active", "inactive", "gone"}
      /\ ebay \in EbayType /\ row \in RowType /\ queue \in QueueType
      /\ work \in [Workers -> TickType] /\ web \in {"off", "resolve", "assign", "persist"}
      /\ faults \in 0..MaxFaults /\ seen \in SeenType /\ work[w] \in TickType
  BY TypeUnfolds DEF TrackInv
<1>2. choice' = choice /\ amazon' = amazon /\ account' = account /\ store' = store /\ web' = web /\ row' = row
      /\ queue' = queue /\ seen' = seen
  BY DEF Post, world
<1>3. TickHolds(work[w], choice, seen.unread, row.pushed, ebay.held, store) /\ work[w].pc = "post" /\ "post" \in Between
  BY DEF TrackInv, Told, TicksHold, Post, Between
<1>4. CASE Finish(w) /\ UNCHANGED <<ebay, faults>>
  BY <1>1, <1>2, <1>4, EndTick DEF world
<1>5. CASE /\ ebay' = [held |-> ebay.held \cup {work[w].number}, posts |-> ebay.posts + 1]
           /\ (Goto(w, "record") /\ UNCHANGED faults) \/ (Finish(w) /\ Fault)
  <2> DEFINE r == [work[w] EXCEPT !.pc = "record"]
  <2>1. work[w].number \in Number /\ ebay.posts \in Nat /\ ebay.held \in SUBSET (Number \cup ByHand)
    BY <1>1 DEF TickType, EbayType
  <2>2. ebay' \in EbayType /\ ebay'.held = ebay.held \cup {work[w].number} /\ ebay'.posts = ebay.posts + 1
    BY <1>5, <2>1 DEF EbayType
  <2>3. faults' \in 0..MaxFaults
    BY <1>1, <1>5, FaultCounts
  <2>4. r \in TickType /\ r.pc = "record" /\ r.recorded = work[w].recorded /\ r.number = work[w].number
        /\ r.known = work[w].known
    BY <1>1 DEF TickType
  <2>5. TickHolds(r, choice, seen.unread, row.pushed, ebay'.held, store)
    BY <1>3, <2>2, <2>4 DEF TickHolds
  <2>6. work' = [work EXCEPT ![w] = r] \/ work' = [work EXCEPT ![w] = Idle]
    BY <1>1, <1>5 DEF Goto, Finish
  <2> HIDE DEF r
  <2>7. PICK t \in {r, Idle} : work' = [work EXCEPT ![w] = t]
    BY <2>6
  <2>8. t \in TickType /\ TickHolds(t, choice, seen.unread, row.pushed, ebay'.held, store) /\ t.pc \notin Between
    <3>1. r.pc \notin Between
      BY <2>4 DEF Between
    <3>2. Idle.pc \notin Between
      BY DEF Idle, Between
    <3>3. QED
      BY <2>4, <2>5, <2>7, <3>1, <3>2, IdleType, IdleHolds
  <2>9. /\ work' \in [Workers -> TickType] /\ TicksHold'
        /\ work'[w] = t /\ \A v \in Workers \ {w} : work'[v] = work[v]
    BY <1>2, <2>2, <2>7, <2>8, TickMoves DEF Forward
  <2>10. TypeOK'
    BY <1>1, <1>2, <2>2, <2>3, <2>9, TypeFolds
  <2>11. ~seen.crossed => ebay.posts = 0 /\ \A v \in Workers \ {w} : work[v].pc \notin Between
    BY <1>3 DEF TrackInv, Told, AloneBetween
  <2>12. AloneBetween'
    BY <1>2, <2>8, <2>9, <2>11 DEF AloneBetween
  <2>13. PostsAreHeld' /\ RowReads'
    BY <1>2, <2>2 DEF PostsAreHeld, TrackInv, Told, RowReads
  <2>14. SupplierStaysHidden'
    <3>1. work[w].number = "raw" => ShowsRaw(choice, seen.unread)
      BY <1>3 DEF TickHolds
    <3>2. work[w].number = "blank" => ShowsBlank(choice, seen.unread)
      BY <1>3 DEF TickHolds
    <3>3. QED
      BY <1>2, <2>2, <3>1, <3>2 DEF TrackInv, Told, SupplierStaysHidden, OutOfScope, ShowsRaw, ShowsBlank
  <2>15. PostedTwiceOnlyIfCrossed'
    BY <1>2, <2>2, <2>11 DEF PostedTwiceOnlyIfCrossed
  <2>16. CompletedIsPushed' /\ NothingClaimedEarly'
    BY <1>2, <2>2 DEF TrackInv, Told, CompletedIsPushed, NothingClaimedEarly
  <2>17. QED
    BY <2>9, <2>10, <2>12, <2>13, <2>14, <2>15, <2>16 DEF TrackInv, Told
<1>6. QED
  BY <1>4, <1>5 DEF Post

LEMMA RecordStep == ASSUME TrackInv, NEW w \in Workers, Record(w) PROVE TrackInv'
<1>1. /\ choice \in ChoiceType /\ amazon \in AmazonType
      /\ account \in Accounts /\ store \in {"active", "inactive", "gone"}
      /\ ebay \in EbayType /\ row \in RowType /\ queue \in QueueType
      /\ work \in [Workers -> TickType] /\ web \in {"off", "resolve", "assign", "persist"}
      /\ faults \in 0..MaxFaults /\ seen \in SeenType /\ work[w] \in TickType
  BY TypeUnfolds DEF TrackInv
<1>2. choice' = choice /\ amazon' = amazon /\ account' = account /\ store' = store /\ ebay' = ebay /\ web' = web
      /\ queue' = queue /\ seen' = seen /\ faults' = faults
  BY DEF Record, world
<1>3. work[w].number \in ebay.held /\ work[w].number \in Number /\ work[w].number # "no"
  BY <1>1 DEF TrackInv, Told, TicksHold, TickHolds, Record, TickType, Number
<1>4. row' \in RowType /\ row'.pushed = work[w].number /\ row'.status = row.status /\ row'.raw = row.raw
  BY <1>1, <1>3 DEF Record, RowType
<1> DEFINE t == [work[w] EXCEPT !.pc = "settle", !.catchUp = FALSE, !.known = "nothing", !.number = "blank",
                                !.tells = work[w].next # "completed"]
<1>5. t \in TickType /\ t.pc = "settle" /\ t.known = "nothing"
  <2>1. work[w] \in TickType
    BY <1>1
  <2>2. "blank" \in Number /\ "nothing" \in Reading
    BY DEF Number, Reading
  <2>3. (work[w].next # "completed") \in BOOLEAN
    OBVIOUS
  <2>4. QED
    BY <2>1, <2>2, <2>3 DEF TickType
<1>6. work' = [work EXCEPT ![w] = t]
  BY <1>1 DEF Record, ToSettle
<1>7. TickHolds(t, choice, seen.unread, row'.pushed, ebay'.held, store) /\ t.pc \notin Between
  BY <1>2, <1>3, <1>4, <1>5 DEF TickHolds, Between
<1> HIDE DEF t
<1>8. /\ work' \in [Workers -> TickType] /\ TicksHold'
      /\ work'[w] = t /\ \A v \in Workers \ {w} : work'[v] = work[v]
  BY <1>2, <1>3, <1>4, <1>5, <1>6, <1>7, TickMoves DEF Forward
<1>9. TypeOK'
  BY <1>1, <1>2, <1>4, <1>8, TypeFolds
<1>10. AloneBetween'
  BY <1>2, <1>7, <1>8, AloneKeeps DEF TrackInv, Told
<1>11. PostsAreHeld' /\ RowReads' /\ SupplierStaysHidden' /\ PostedTwiceOnlyIfCrossed'
  BY <1>2, <1>4 DEF TrackInv, Told, PostsAreHeld, RowReads, SupplierStaysHidden, OutOfScope,
                    PostedTwiceOnlyIfCrossed
<1>12. CompletedIsPushed' /\ NothingClaimedEarly'
  BY <1>2, <1>3, <1>4 DEF TrackInv, Told, CompletedIsPushed, NothingClaimedEarly
<1>13. QED
  BY <1>8, <1>9, <1>10, <1>11, <1>12 DEF TrackInv, Told

(* The status is written, and the buyer told, on what the tick carries.    *)
LEMMA SettleStep == ASSUME TrackInv, NEW w \in Workers, Settle(w) PROVE TrackInv'
<1>1. /\ choice \in ChoiceType /\ amazon \in AmazonType
      /\ account \in Accounts /\ store \in {"active", "inactive", "gone"}
      /\ ebay \in EbayType /\ row \in RowType /\ queue \in QueueType
      /\ work \in [Workers -> TickType] /\ web \in {"off", "resolve", "assign", "persist"}
      /\ faults \in 0..MaxFaults /\ seen \in SeenType /\ work[w] \in TickType
  BY TypeUnfolds DEF TrackInv
<1>2. choice' = choice /\ amazon' = amazon /\ account' = account /\ store' = store /\ ebay' = ebay /\ web' = web
      /\ faults' = faults
  BY DEF Settle, world
<1>3. /\ work[w].tells => ebay.held # {}
      /\ work[w].applies /\ work[w].next = "completed" => row.pushed # "no" \/ store = "gone"
  BY DEF TrackInv, Told, TicksHold, TickHolds, Settle
<1>4. seen' \in SeenType /\ seen'.crossed = seen.crossed /\ seen'.unread = seen.unread /\ (seen'.told => seen.told \/ work[w].tells)
  BY <1>1 DEF Settle, SeenType, TickType
<1>5. row' = row \/ (work[w].applies /\ row' = [row EXCEPT !.status = work[w].next])
  BY DEF Settle
<1>6. /\ row' \in RowType /\ row'.pushed = row.pushed /\ row'.raw = row.raw
      /\ row'.status = row.status \/ (work[w].applies /\ row'.status = work[w].next)
  BY <1>1, <1>5 DEF RowType, TickType
<1>7. queue' \in QueueType
  BY <1>1 DEF Settle, QueueType
<1>8. work' = [work EXCEPT ![w] = Idle] /\ Idle.pc \notin Between
  BY DEF Settle, Finish, Idle, Between
<1>9. /\ work' \in [Workers -> TickType] /\ TicksHold'
      /\ work'[w] = Idle /\ \A v \in Workers \ {w} : work'[v] = work[v]
  BY <1>2, <1>4, <1>6, <1>8, IdleType, IdleHolds, TickMoves DEF Forward
<1>10. TypeOK'
  BY <1>1, <1>2, <1>4, <1>6, <1>7, <1>9, TypeFolds
<1>11. AloneBetween'
  BY <1>2, <1>4, <1>8, <1>9, AloneKeeps DEF TrackInv, Told
<1>12. PostsAreHeld' /\ RowReads' /\ SupplierStaysHidden' /\ PostedTwiceOnlyIfCrossed'
  BY <1>2, <1>4, <1>6 DEF TrackInv, Told, PostsAreHeld, RowReads, SupplierStaysHidden, OutOfScope,
                          PostedTwiceOnlyIfCrossed
<1>13. CompletedIsPushed' /\ NothingClaimedEarly'
  BY <1>2, <1>3, <1>4, <1>6 DEF TrackInv, Told, CompletedIsPushed, NothingClaimedEarly
<1>14. QED
  BY <1>9, <1>10, <1>11, <1>12, <1>13 DEF TrackInv, Told

-----------------------------------------------------------------------------
(* The invariant is inductive.                                             *)
LEMMA NextTrack == TrackInv /\ [Next]_vars => TrackInv'
<1> SUFFICES ASSUME TrackInv, [Next]_vars PROVE TrackInv'
  OBVIOUS
<1>1. CASE \/ AmazonMoves \/ AccountMoves \/ StoreMoves \/ SyncStatus
           \/ AskConversion \/ WebResolve \/ WebAssign \/ WebPersist
  BY <1>1, OutsideStep
<1>2. CASE SellerShipsByHand
  BY <1>2, ByHandStep
<1>3. CASE Restart
  BY <1>3, RestartStep
<1>4. ASSUME NEW w \in Workers, Start(w) \/ Tick(w) \/ Fail(w) PROVE TrackInv'
  BY <1>4, StartStep, FailStep, ScrapeStep, ReadStep, ConvertStep, AssignStep, PersistStep, PostStep, RecordStep,
     SettleStep DEF Tick
<1>5. CASE UNCHANGED vars
  BY <1>5 DEF vars, TrackInv, TypeOK, Told, TicksHold, RowReads, AloneBetween, PostsAreHeld,
              SupplierStaysHidden, OutOfScope,
              PostedTwiceOnlyIfCrossed, CompletedIsPushed, NothingClaimedEarly
<1>6. QED
  BY <1>1, <1>2, <1>3, <1>4, <1>5 DEF Next

LEMMA AlwaysTrack == Spec => []TrackInv
BY InitTrack, NextTrack, PTL DEF Spec

(* Every variable keeps its type: TypeOK of Tracking.                      *)
THEOREM TrackingTypeCorrect == Spec => []TypeOK
<1>1. TrackInv => TypeOK
  BY DEF TrackInv
<1>2. QED
  BY <1>1, AlwaysTrack, PTL

(* Amazon's number, or none, reaches the buyer only by the seller's choice,*)
(* by a setting that could not be read or by a carrier the link read       *)
(* without a number, whatever else fails, is missed or races.              *)
THEOREM SupplierIsHidden == Spec => []SupplierStaysHidden
<1>1. TrackInv => SupplierStaysHidden
  BY DEF TrackInv, Told
<1>2. QED
  BY <1>1, AlwaysTrack, PTL

(* The reading of eBay before the post is the only guard it needs, until   *)
(* two ticks cross.                                                        *)
THEOREM PostedOnceUnlessCrossed == Spec => []PostedTwiceOnlyIfCrossed
<1>1. TrackInv => PostedTwiceOnlyIfCrossed
  BY DEF TrackInv, Told
<1>2. QED
  BY <1>1, AlwaysTrack, PTL

(* A delivered order is closed only when its fulfilment is on record, or   *)
(* never can be.                                                           *)
THEOREM ClosedOnlyWhenPushed == Spec => []CompletedIsPushed
<1>1. TrackInv => CompletedIsPushed
  BY DEF TrackInv, Told
<1>2. QED
  BY <1>1, AlwaysTrack, PTL

(* The row and the buyer's message claim only what eBay holds.             *)
THEOREM ClaimsAreHeld == Spec => []NothingClaimedEarly
<1>1. TrackInv => NothingClaimedEarly
  BY DEF TrackInv, Told
<1>2. QED
  BY <1>1, AlwaysTrack, PTL
=============================================================================
