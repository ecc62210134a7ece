------------------------------ MODULE Tracking ------------------------------
(***************************************************************************)
(* One order from its Amazon purchase to the fulfilment eBay holds: the    *)
(* tracking tick reads Amazon's page, has the number converted, posts the  *)
(* fulfilment, which eBay cannot change or take back, and moves the        *)
(* order's status.  A scheduled tick and an immediate one may run at once; *)
(* the seller may ship by hand or convert on demand; the process may stop  *)
(* anywhere.  The order is linked to its purchase and within the plan.     *)
(***************************************************************************)
EXTENDS Naturals, FiniteSets

CONSTANTS
  Settings,       \* what sellers of this instance have converted: ...
  Carriers,       \* ... and who carries
  Accounts,       \* the states of a seller's account in this instance
  Linked,         \* states in which the purchase is linked to the order
  Readings,       \* what its page gives when it is linked
  Entries,        \* what a seller who ships by hand enters on eBay
  MaxFaults       \* bound: failed calls, missed readings and restarts

Workers == {"scheduled", "immediate"}
Reading == {"nothing", "amazon", "other", "number"}   \* of a page: a carrier alone, or a number

ASSUME TrackingAssumption ==
  /\ Settings \subseteq {"local", "placed_only", "logistics", "all"}
  /\ Carriers \subseteq {"amazon", "other"}
  /\ "good" \in Accounts /\ Accounts \subseteq {"good", "suspended", "exhausted"}
  /\ Linked \subseteq {"placed", "shipped"} /\ Readings \subseteq Reading /\ Entries \subseteq {"own", "unnumbered"}
  /\ MaxFaults \in Nat

PreShip == {"waiting_shipment", "processing"}
Statuses == PreShip \cup {"shipped", "completed", "cancelled"}
Number == {"raw", "blank", "aqua"}           \* what the platform posts: Amazon's, none, converted
ByHand == {"own", "unnumbered"}               \* the seller: with a number, or without

VARIABLES
  choice,    \* the seller's setting, the carrier of the parcel, and what the
             \* link of the purchase read off Amazon's page
  amazon,    \* the purchase: its state, whether its page prints a number
  account,   \* what the subscription lets the seller have
  store,     \* the eBay store: active, inactive, or gone (with its row or the listing)
  ebay,      \* fulfilments eBay holds, how many the platform posted
  row,       \* the order
  queue,     \* the scheduler, and an immediate job
  work,      \* the ticks
  web,       \* the conversion asked for by the seller
  faults,    \* how many so far
  seen       \* the buyer was told; two ticks crossed between reading eBay and
             \* posting; a tick could not read the setting

vars == <<choice, amazon, account, store, ebay, row, queue, work, web, faults, seen>>
world == <<choice, amazon, account, store>>

(* What a tick remembers: the order as it read it, then what Amazon's page *)
(* makes due.                                                              *)
Idle == [pc |-> "off", prev |-> "waiting_shipment", recorded |-> FALSE, known |-> "nothing",
         next |-> "waiting_shipment", applies |-> FALSE, catchUp |-> FALSE,
         number |-> "blank", tells |-> FALSE]

(* The purchase is linked, by hand perhaps when its parcel is on the way,  *)
(* and then a tick runs at once.  The link keeps what the page gave, the   *)
(* number or only a carrier that its text names, which may be wrong.       *)
Init ==
  /\ choice \in [setting : Settings, carrier : Carriers, read : Readings]
  /\ amazon \in [st : Linked, printed : BOOLEAN]
  /\ amazon.printed => amazon.st = "shipped"
  /\ choice.read # "nothing" => amazon.st = "shipped"
  /\ choice.read = "number" => amazon.printed
  /\ account = "good" /\ store = "active"
  /\ ebay = [held |-> {}, posts |-> 0]
  /\ row = [status |-> "waiting_shipment", raw |-> choice.read, converted |-> FALSE,
            pushed |-> "no", cancelled |-> FALSE]
  /\ queue = [scheduler |-> TRUE, now |-> amazon.st = "shipped"]
  /\ work = [w \in Workers |-> Idle]
  /\ web = "off" /\ faults = 0
  /\ seen = [told |-> FALSE, crossed |-> FALSE, unread |-> FALSE]

Fault == faults < MaxFaults /\ faults' = faults + 1

-----------------------------------------------------------------------------
(* The world.                                                              *)

AmazonMoves ==
  /\ amazon' \in [st : {"placed", "shipped", "delivered", "cancelled"}, printed : BOOLEAN]
  /\ <<amazon.st, amazon'.st>> \in
       {<<"placed", "shipped">>, <<"placed", "cancelled">>, <<"shipped", "shipped">>,
        <<"shipped", "delivered">>}
  /\ amazon' # amazon /\ (amazon.printed => amazon'.printed)
  /\ amazon'.printed => amazon'.st \in {"shipped", "delivered"}
  /\ UNCHANGED <<choice, account, store, ebay, row, queue, work, web, faults, seen>>

AccountMoves ==
  /\ account' \in Accounts
  /\ UNCHANGED <<choice, amazon, store, ebay, row, queue, work, web, faults, seen>>

(* A disconnected store may be connected again; a deleted row may not. *)
StoreMoves ==
  /\ store # "gone" /\ store' \in {"active", "inactive", "gone"}
  /\ UNCHANGED <<choice, amazon, account, ebay, row, queue, work, web, faults, seen>>

SellerShipsByHand ==
  /\ ebay.held = {}
  /\ \E kind \in Entries : ebay' = [ebay EXCEPT !.held = {kind}]
  /\ UNCHANGED <<world, row, queue, work, web, faults, seen>>

(* The order sync writes eBay's view: mergeSyncedOrderStatus. *)
SyncStatus ==
  /\ \/ row.status \in PreShip /\ ebay.held # {} /\ row' = [row EXCEPT !.status = "shipped"]
     \/ row' = [row EXCEPT !.status = "cancelled"]
  /\ UNCHANGED <<world, ebay, queue, work, web, faults, seen>>

-----------------------------------------------------------------------------
(* The tick: processTracking.                                              *)

Finish(w) == work' = [work EXCEPT ![w] = Idle]
Goto(w, pc) == work' = [work EXCEPT ![w].pc = pc]

(* The order is read once; a suspended account keeps its scheduler. *)
Start(w) ==
  /\ work[w].pc = "off"
  /\ IF w = "scheduled" THEN queue.scheduler ELSE queue.now
  /\ LET left == IF w = "immediate" THEN [queue EXCEPT !.now = FALSE] ELSE queue IN
     IF row.status \in {"completed", "cancelled"}
     THEN queue' = [left EXCEPT !.scheduler = FALSE] /\ UNCHANGED work
     ELSE /\ queue' = left
          /\ work' = IF account = "suspended" THEN work
                     ELSE [work EXCEPT ![w] =
                             [Idle EXCEPT !.pc = "scrape", !.prev = row.status,
                                          !.known = row.raw, !.recorded = row.pushed # "no"]]
  /\ UNCHANGED <<world, ebay, row, web, faults, seen>>

(* A page that cannot be parsed reads as not shipped, besides. *)
MapAmazonStatus ==
  CASE amazon.st = "placed" -> PreShip
    [] amazon.st = "delivered" -> {"completed"}
    [] OTHER -> {amazon.st}

ShouldApplyStatus(prev, next) ==
  /\ prev # next /\ prev \notin {"completed", "cancelled"}
  /\ prev = "shipped" => next \in {"completed", "cancelled"}

CatchUp(t) == t.prev = "shipped" /\ ~t.recorded

MutNewlyShipped(t, next) ==       \* mutant: a delivery seen first is no shipment
  ShouldApplyStatus(t.prev, next) /\ next = "shipped"

NewlyShipped(t, next) ==
  /\ ShouldApplyStatus(t.prev, next)
  /\ next = "shipped" \/ <<t.prev, next>> \in PreShip \X {"completed"}

PushDue(t, next) == NewlyShipped(t, next) \/ CatchUp(t)

(* Amazon's page: the number, the cancellation, and what is due. *)
Scrape(w) ==
  LET t == work[w] IN
  /\ t.pc = "scrape"
  /\ \E next \in MapAmazonStatus \cup {"waiting_shipment"}, number \in BOOLEAN :
       /\ number => amazon.printed
       /\ IF next \in MapAmazonStatus /\ number = amazon.printed
          THEN UNCHANGED faults ELSE Fault
       /\ row' = [row EXCEPT !.raw = IF number THEN "number" ELSE @, !.cancelled = @ \/ next = "cancelled"]
       /\ queue' = IF next = "cancelled" THEN [queue EXCEPT !.scheduler = FALSE] ELSE queue
       /\ LET applies == ShouldApplyStatus(t.prev, next)
              due == [Idle EXCEPT !.next = next, !.applies = applies, !.catchUp = CatchUp(t)] IN
          work' = [work EXCEPT ![w] =
            CASE next = "cancelled" -> Idle
              [] next # "cancelled" /\ PushDue(t, next) ->
                   [due EXCEPT !.pc = "read", !.known = IF number THEN "number" ELSE t.known]
              [] next # "cancelled" /\ ~PushDue(t, next) /\ applies -> [due EXCEPT !.pc = "settle"]
              [] OTHER -> Idle]
  /\ UNCHANGED <<world, ebay, web, seen>>

ToSettle(w, tells) ==
  work' = [work EXCEPT ![w].pc = "settle", ![w].catchUp = FALSE, ![w].known = "nothing",
                       ![w].number = "blank", ![w].tells = tells]

(* deferShippedPush: nothing is settled, the scheduler is armed again. *)
Hold(w) == Finish(w) /\ queue' = [queue EXCEPT !.scheduler = TRUE]

MutReadEbay(w) ==            \* mutant: the post is not preceded by a reading
  /\ work[w].pc = "read" /\ store = "active"
  /\ Goto(w, "convert")
  /\ UNCHANGED <<world, ebay, row, queue, web, faults, seen>>

(* handleShipped up to the conversion: a store that is not active holds, a *)
(* fulfilment eBay holds is recorded and not posted again.                 *)
ReadEbay(w) ==
  /\ work[w].pc = "read"
  /\ \/ /\ store = "gone" /\ ToSettle(w, FALSE)
        /\ UNCHANGED <<row, queue, faults, seen>>
     \/ /\ store = "inactive" /\ Hold(w)
        /\ UNCHANGED <<row, faults, seen>>
     \/ /\ store = "active" /\ Hold(w) /\ Fault         \* the order is not visible to the store
        /\ UNCHANGED <<row, seen>>
     \/ /\ store = "active" /\ ebay.held # {}
        /\ ToSettle(w, work[w].next # "completed" /\ ~work[w].catchUp)
        /\ \E kind \in ebay.held :
             row' = [row EXCEPT !.pushed = IF @ = "no" THEN kind ELSE @]
        /\ UNCHANGED <<queue, faults, seen>>
     \/ /\ store = "active" /\ ebay.held = {}
        /\ work' = [work EXCEPT ![w].pc = "convert", ![w].catchUp = FALSE]
        /\ seen' = [seen EXCEPT !.crossed =
             @ \/ \E v \in Workers \ {w} : work[v].pc \in {"convert", "assign", "persist", "post"}]
        /\ UNCHANGED <<row, queue, faults>>
  /\ UNCHANGED <<world, ebay, web>>

-----------------------------------------------------------------------------
(* The number the buyer sees: resolveForOrder.                             *)

(* isAmazonLogisticsTracking: by the number, else by the name. *)
AmazonCarries(known) == known = "amazon" \/ (known = "number" /\ choice.carrier = "amazon")

MutPassesThrough(setting, forced, known) ==    \* mutant: an unread number is outside the scope
  \/ setting = "local"
  \/ ~forced /\ setting = "placed_only"
  \/ ~forced /\ setting = "logistics" /\ ~AmazonCarries(known)

(* The seller chose not to have it converted. *)
PassesThrough(setting, forced, known) ==
  \/ setting = "local"
  \/ ~forced /\ setting = "placed_only"      \* and the order was placed by hand
  \/ ~forced /\ setting = "logistics" /\ known # "nothing" /\ ~AmazonCarries(known)

Refused(setting, forced, known) ==
  \/ ~forced /\ setting = "logistics" /\ known = "nothing"
  \/ account # "good"

(* resolveSettings: what cannot be read is the default. *)
Reads(setting) ==
  \/ setting = choice.setting /\ UNCHANGED faults
  \/ setting = "logistics" /\ Fault

Convert(w) ==
  LET t == work[w] IN
  /\ t.pc = "convert"
  /\ \/ /\ row.converted
        /\ work' = [work EXCEPT ![w].pc = "post", ![w].known = "nothing", ![w].number = "aqua"]
        /\ UNCHANGED <<queue, faults, seen>>
     \/ \E setting \in {choice.setting, "logistics"} :
        /\ ~row.converted /\ Reads(setting)
        /\ seen' = [seen EXCEPT !.unread = @ \/ setting # choice.setting]
        /\ \/ /\ PassesThrough(setting, FALSE, t.known)
              /\ work' = [work EXCEPT ![w].pc = "post", ![w].known = "nothing",
                                        ![w].number = IF t.known = "number" THEN "raw" ELSE "blank"]
              /\ UNCHANGED queue
           \/ /\ ~PassesThrough(setting, FALSE, t.known) /\ Refused(setting, FALSE, t.known)
              /\ Hold(w)
           \/ /\ ~PassesThrough(setting, FALSE, t.known) /\ ~Refused(setting, FALSE, t.known)
              /\ work' = [work EXCEPT ![w].pc = "assign", ![w].known = "nothing"]
              /\ UNCHANGED queue
  /\ UNCHANGED <<world, ebay, row, web>>

(* The provider issues the number, or fails and the push is held. *)
Assign(w) ==
  /\ work[w].pc = "assign"
  /\ \/ Goto(w, "persist") /\ UNCHANGED <<queue, faults>>
     \/ Hold(w) /\ Fault
  /\ UNCHANGED <<world, ebay, row, web, seen>>

(* persistConverted never throws: the number is used, stored or not. *)
Persist(w) ==
  /\ work[w].pc = "persist"
  /\ \/ row' = [row EXCEPT !.converted = TRUE] /\ UNCHANGED faults
     \/ Fault /\ UNCHANGED row
  /\ work' = [work EXCEPT ![w].pc = "post", ![w].number = "aqua"]
  /\ UNCHANGED <<world, ebay, queue, web, seen>>

-----------------------------------------------------------------------------
(* createShippingFulfillment and what follows it.                          *)

MutPost(w) ==                \* mutant: a refusal is swallowed
  /\ work[w].pc = "post" /\ Goto(w, "record")
  /\ ebay' = IF store = "active"
             THEN [held |-> ebay.held \cup {work[w].number}, posts |-> ebay.posts + 1] ELSE ebay
  /\ UNCHANGED <<world, row, queue, web, faults, seen>>

(* Accepted; refused; or accepted and the answer lost. *)
Post(w) ==
  /\ work[w].pc = "post"
  /\ \/ /\ store = "active"
        /\ ebay' = [held |-> ebay.held \cup {work[w].number}, posts |-> ebay.posts + 1]
        /\ \/ Goto(w, "record") /\ UNCHANGED faults
           \/ Finish(w) /\ Fault
     \/ store # "active" /\ Finish(w) /\ UNCHANGED <<ebay, faults>>
  /\ UNCHANGED <<world, row, queue, web, seen>>

Record(w) ==
  /\ work[w].pc = "record"
  /\ row' = [row EXCEPT !.pushed = work[w].number]
  /\ ToSettle(w, work[w].next # "completed")
  /\ UNCHANGED <<world, ebay, queue, web, faults, seen>>

(* The buyer is told, and the status written over whatever the row holds   *)
(* by now.                                                                 *)
Settle(w) ==
  LET t == work[w] IN
  /\ t.pc = "settle" /\ Finish(w)
  /\ seen' = [seen EXCEPT !.told = @ \/ t.tells]
  /\ IF t.applies
     THEN /\ row' = [row EXCEPT !.status = t.next]
          /\ queue' = [queue EXCEPT !.scheduler = (@ \/ t.next = "shipped") /\ t.next # "completed"]
     ELSE UNCHANGED <<row, queue>>
  /\ UNCHANGED <<world, ebay, web, faults>>

(* A call throws: the job fails, and the next tick starts over. *)
Fail(w) ==
  /\ work[w].pc # "off" /\ Fault /\ Finish(w)
  /\ UNCHANGED <<world, ebay, row, queue, web, seen>>

MutTrackedOrders == row.status \in PreShip        \* mutant: a shipped order needs no tracking

TrackedOrders == row.status \notin {"completed", "cancelled"}

(* The process stops; on boot reconcileSchedulers, and BullMQ hands a      *)
(* stalled immediate job out again.                                        *)
Restart ==
  /\ Fault
  /\ work' = [w \in Workers |-> Idle] /\ web' = "off"
  /\ queue' = [scheduler |-> TrackedOrders,
               now |-> queue.now \/ work["immediate"].pc # "off"]
  /\ UNCHANGED <<world, ebay, row, seen>>

-----------------------------------------------------------------------------
(* The seller's button: convertOnDemand.                                   *)

AskConversion ==
  /\ web = "off" /\ ~row.converted /\ store = "active"
  /\ row.pushed \in {"no", "blank", "unnumbered"}      \* no pushed number on the row
  /\ row.raw = "number"
  /\ web' = "resolve"
  /\ UNCHANGED <<world, ebay, row, queue, work, faults, seen>>

(* A conversion found on the row meanwhile still nudges the tick. *)
WebResolve ==
  /\ web = "resolve"
  /\ \/ row.converted /\ web' = "off" /\ queue' = [queue EXCEPT !.now = TRUE] /\ UNCHANGED faults
     \/ /\ ~row.converted /\ UNCHANGED queue
        /\ \E setting \in {choice.setting, "logistics"} :
             /\ Reads(setting)
             /\ web' = IF PassesThrough(setting, TRUE, "number") \/ Refused(setting, TRUE, "number")
                       THEN "off" ELSE "assign"
  /\ UNCHANGED <<world, ebay, row, work, seen>>

WebAssign ==
  /\ web = "assign"
  /\ \/ web' = "persist" /\ UNCHANGED faults
     \/ web' = "off" /\ Fault
  /\ UNCHANGED <<world, ebay, row, queue, work, seen>>

WebPersist ==
  /\ web = "persist" /\ web' = "off"
  /\ \/ row' = [row EXCEPT !.converted = TRUE] /\ queue' = [queue EXCEPT !.now = TRUE]
        /\ UNCHANGED faults
     \/ Fault /\ UNCHANGED <<row, queue>>
  /\ UNCHANGED <<world, ebay, work, seen>>

-----------------------------------------------------------------------------
Tick(w) ==
  \/ Scrape(w) \/ ReadEbay(w) \/ Convert(w) \/ Assign(w) \/ Persist(w)
  \/ Post(w) \/ Record(w) \/ Settle(w)

Next ==
  \/ AmazonMoves \/ AccountMoves \/ StoreMoves \/ SellerShipsByHand \/ SyncStatus \/ Restart
  \/ \E w \in Workers : Start(w) \/ Tick(w) \/ Fail(w)
  \/ AskConversion \/ WebResolve \/ WebAssign \/ WebPersist

Spec == Init /\ [][Next]_vars

(* The scheduler ticks and its tick goes on; nothing else is promised,     *)
(* least of all what sellers and Amazon do.                                *)
Fairness == WF_vars(Start("scheduled") \/ Tick("scheduled"))
FairSpec == Spec /\ Fairness

-----------------------------------------------------------------------------
(* Every variable keeps its type. *)
TypeOK ==
  /\ choice \in [setting : Settings, carrier : Carriers, read : Reading]
  /\ amazon \in [st : {"placed", "shipped", "delivered", "cancelled"}, printed : BOOLEAN]
  /\ account \in Accounts /\ store \in {"active", "inactive", "gone"}
  /\ ebay \in [held : SUBSET (Number \cup ByHand), posts : Nat]
  /\ row \in [status : Statuses, raw : Reading, converted : BOOLEAN,
              pushed : {"no"} \cup Number \cup ByHand, cancelled : BOOLEAN]
  /\ queue \in [scheduler : BOOLEAN, now : BOOLEAN]
  /\ work \in [Workers -> [pc : {"off", "scrape", "read", "convert", "assign", "persist", "post",
                                 "record", "settle"},
                           prev : Statuses, known : Reading,
                           recorded : BOOLEAN, next : Statuses, applies : BOOLEAN,
                           catchUp : BOOLEAN, number : Number, tells : BOOLEAN]]
  /\ web \in {"off", "resolve", "assign", "persist"}
  /\ faults \in 0..MaxFaults
  /\ seen \in [told : BOOLEAN, crossed : BOOLEAN, unread : BOOLEAN]

(* Amazon's own number, or none, reaches the buyer only where the seller   *)
(* chose not to have this order converted, whatever fails, is missed or    *)
(* races, with two exceptions of the code: a setting that cannot be read   *)
(* counts as "Amazon Logistics only", and an order linked with another     *)
(* carrier's name and no number is outside that scope (mayPushToEbay,      *)
(* resolveForOrder).                                                       *)
OutOfScope == choice.setting = "logistics" \/ seen.unread
SupplierStaysHidden ==
  /\ "raw" \in ebay.held =>
       choice.setting \in {"local", "placed_only"} \/ (OutOfScope /\ choice.carrier = "other")
  /\ "blank" \in ebay.held =>
       choice.setting \in {"local", "placed_only"} \/ (OutOfScope /\ choice.read = "other")

(* A second fulfilment of the order is posted only if two ticks both read  *)
(* eBay before either posted: no lost answer, failed write, restart or     *)
(* retry posts one (the reading in handleShipped).                         *)
PostedTwiceOnlyIfCrossed == ebay.posts <= 1 \/ seen.crossed

(* A delivered order is closed only when eBay has its fulfilment on        *)
(* record, or can never have one (isCatchUp, the holds of handleShipped).  *)
CompletedIsPushed == row.status = "completed" => row.pushed # "no" \/ store = "gone"

(* The row and the buyer's message claim a fulfilment only when eBay holds *)
(* it.                                                                     *)
NothingClaimedEarly ==
  /\ row.pushed # "no" => row.pushed \in ebay.held
  /\ seen.told => ebay.held # {}

(* Where the store, the account and Amazon's page stay good, eBay in the   *)
(* end holds a fulfilment and the row knows it, unless the order is        *)
(* cancelled or flagged as cancelled on Amazon (deferShippedPush,          *)
(* isCatchUp).                                                             *)
Pushable == /\ amazon.st \in {"shipped", "delivered"} /\ amazon.printed
            /\ store = "active" /\ account = "good"
PushedAtLast == <>[]Pushable =>
  <>(row.pushed # "no" \/ row.cancelled \/ row.status = "cancelled")
=============================================================================
