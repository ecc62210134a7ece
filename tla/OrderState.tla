----------------------------- MODULE OrderState -----------------------------
(***************************************************************************)
(* What the actors of automatic purchasing share: the sale as eBay has it, *)
(* the row the platform keeps of it (table orders), its slot in the        *)
(* automatic-order ledger, the queue auto-fulfill, and what the seller's   *)
(* Amazon account holds.  The worker (CheckoutRun), the order sync and the *)
(* seller's requests (OrderSync) and the Amazon order scan (CostCapture)   *)
(* are the modules that move it; AutoFulfill composes them.                *)
(*                                                                         *)
(* One step is one database statement, one queue call, one external        *)
(* reading or the click.  Nothing else in the code is atomic: no           *)
(* transaction spans two statements and no lock is held across them.       *)
(***************************************************************************)
EXTENDS OrderRules, FiniteSets

CONSTANTS
  Orders,        \* eBay sales of one seller
  Workers,       \* job executions that can be in progress at once
  Threads,       \* order-sync jobs and API requests that can be at once
  Kinds,         \* which kinds of sale occur, a subset of SaleKind
  LiveStatuses,  \* the statuses eBay reports in this instance
  Obstacles,     \* why a checkout stops before the click
  DryRunModes,   \* values the buyer account's dry-run flag takes
  Attempts,      \* attempts of one job (3 in the code)
  MaxManual,     \* bound: manual starts of one sale
  MaxStalls,     \* bound: executions that lose their job, in all
  MaxConfirms,   \* bound: "not purchased" declarations for one sale
  MaxScans,      \* bound: Amazon order scans
  ByHand,        \* whether the seller also buys on Amazon himself
  MayLapse       \* whether the subscription can lapse

SaleKind == {"plain", "untracked", "over_plan_limit", "multi_item"}

ASSUME ConstantsAssumption ==
  /\ Orders # {} /\ Kinds # {}
  /\ Kinds \subseteq SaleKind
  /\ LiveStatuses \subseteq OrderStatus
  /\ Obstacles \subseteq RetryableReasons
  /\ DryRunModes \subseteq BOOLEAN
  /\ Attempts \in Nat \ {0}
  /\ MaxManual \in Nat /\ MaxStalls \in Nat /\ MaxConfirms \in Nat
  /\ MaxScans \in Nat
  /\ ByHand \in BOOLEAN /\ MayLapse \in BOOLEAN

VARIABLES
  ebay,      \* the sale on eBay: status, open cancel request, kind
  entitled,  \* the subscription allows automation
  row,       \* the orders row
  slot,      \* the sale's row in billing_ao_reservations
  jobs,      \* waiting or delayed jobs of the queue
  run,       \* what each worker is executing
  ctl,       \* what each sync job or request is executing
  scan,      \* the Amazon order scan
  scanned,   \* last_orders_sync_at, as the last click it covers
  listed,    \* history: the last click claimed when the list was last read
  bought,    \* purchases on Amazon that belong to the sale
  claims,    \* how many clicks were claimed so far: they number the stamps
  starts,    \* manual starts so far: they number the seller's jobs
  clicked,   \* history: the claims whose click was sent
  cleared,   \* history: the claims the seller declared not purchased
  scans,     \* scans started so far
  stalls     \* how many executions lost their job so far

worldVars   == <<ebay, entitled>>
amazonVars  == <<bought, claims, clicked>>
countVars   == <<starts, scans, stalls>>
scanVars    == <<scan, scanned, listed>>
vars == <<ebay, entitled, row, slot, jobs, run, ctl, scan, scanned, listed,
          bought, claims, clicked, cleared, starts, scans, stalls>>

(***************************************************************************)
(* A job names its sale; no 0 is the automatic job, no n > 0 the n-th one  *)
(* the seller started (manual: TRUE, a job id of its own).                 *)
(***************************************************************************)
Job == [o : Orders, no : 0..MaxManual, attempt : 1..Attempts]
NoJob == CHOOSE j \in Job : TRUE

WorkerPc == {"idle", "read", "settle", "skip", "check", "look", "recheck",
             "running", "checkout", "simulate", "claim", "lost", "click",
             "confirm", "placed", "block", "release",
             "escape", "settle_block", "give_up"}

Reading == [status : OrderStatus, cancel : BOOLEAN]
NoReading == [status |-> "pending", cancel |-> FALSE]

NoRun == [pc |-> "idle", job |-> NoJob, owns |-> FALSE, seen |-> NoReading,
          reason |-> NoReason, claim |-> NotClicked, id |-> FALSE]
Run == [pc : WorkerPc, job : Job, owns : BOOLEAN, seen : Reading,
        reason : Reasons, claim : Nat, id : BOOLEAN]

ThreadPc == {"idle", "resolve", "reserve", "enqueue", "recover", "rearm",
             "payment", "release_paid", "relabel", "release", "confirm"}
Source == {"ingest", "resume", "paid", "manual"}

Ctl == [pc : ThreadPc, o : Orders, src : Source, seen : OrderStatus,
        no : 0..MaxManual]
NoCtl == [pc |-> "idle", o |-> CHOOSE o \in Orders : TRUE, src |-> "ingest",
          seen |-> "pending", no |-> 0]

Row == [known : BOOLEAN, status : OrderStatus, af : AutoFulfillStatus,
        reason : Reasons, stamp : Nat, amazon : Int, costs : BOOLEAN,
        suspect : Int]

ScanPc == {"idle", "start", "scrape", "write"}
Scan == [pc : ScanPc, cands : SUBSET Orders, named : SUBSET Orders,
         clicks : SUBSET Orders, covers : [Orders -> Nat],
         link : [Orders -> Int], suspect : [Orders -> Int]]
NoPlan == [o \in Orders |-> NoAmazonOrder]
NoScan == [pc |-> "idle", cands |-> {}, named |-> {}, clicks |-> {},
           covers |-> [o \in Orders |-> 0], link |-> NoPlan, suspect |-> NoPlan]

(* The automatic order job of a sale is still waiting or active. *)
AutoJobLive(o) ==
  \/ \E j \in jobs : j.o = o /\ j.no = 0
  \/ \E w \in Workers : /\ run[w].pc # "idle" /\ run[w].owns
                        /\ run[w].job.o = o /\ run[w].job.no = 0

MutSetStatusAnyRow(o, af, reason) ==      \* mutant: PLACED is not spared
  row' = [row EXCEPT ![o].af = af,
                     ![o].reason = IF reason = NoReason THEN @ ELSE reason]

(***************************************************************************)
(* Writes.  The worker's setStatus spares a PLACED row and keeps a reason  *)
(* it is not given; the order sync's setAutoFulfillStatus does neither.    *)
(***************************************************************************)
SetStatus(o, af, reason) ==
  row' = IF row[o].af = "placed" THEN row
         ELSE [row EXCEPT ![o].af = af,
                          ![o].reason = IF reason = NoReason THEN @ ELSE reason]

SetAutoFulfillStatus(o, af, reason) ==
  row' = [row EXCEPT ![o].af = af, ![o].reason = reason]

Release(o) == slot' = [slot EXCEPT ![o] = IF @ = "reserved" THEN "released" ELSE @]

(***************************************************************************)
(* No sale is known yet; each is on eBay, unpaid or paid.                  *)
(***************************************************************************)
NoRow == [known |-> FALSE, status |-> "pending", af |-> "skipped",
          reason |-> NoReason, stamp |-> NotClicked, amazon |-> NoAmazonOrder,
          costs |-> FALSE, suspect |-> NoAmazonOrder]

Init ==
  /\ ebay \in [Orders -> [status : LiveStatuses \cap {"pending", "waiting_shipment"},
                          cancel : {FALSE}, kind : Kinds]]
  /\ entitled = TRUE
  /\ row = [o \in Orders |-> NoRow]
  /\ slot = [o \in Orders |-> "none"]
  /\ jobs = {}
  /\ run = [w \in Workers |-> NoRun]
  /\ ctl = [c \in Threads |-> NoCtl]
  /\ scan = NoScan
  /\ scanned = [o \in Orders |-> 0]
  /\ listed = [o \in Orders |-> 0]
  /\ bought = [o \in Orders |-> {}]
  /\ claims = [o \in Orders |-> 0]
  /\ clicked = [o \in Orders |-> {}]
  /\ cleared = [o \in Orders |-> {}]
  /\ starts = [o \in Orders |-> 0]
  /\ scans = 0
  /\ stalls = 0

TypeOK ==
  /\ ebay \in [Orders -> [status : OrderStatus, cancel : BOOLEAN, kind : SaleKind]]
  /\ entitled \in BOOLEAN
  /\ row \in [Orders -> Row]
  /\ slot \in [Orders -> {"none", "reserved", "released"}]
  /\ jobs \in SUBSET Job
  /\ run \in [Workers -> Run]
  /\ ctl \in [Threads -> Ctl]
  /\ scan \in Scan
  /\ scanned \in [Orders -> Nat]
  /\ listed \in [Orders -> Nat]
  /\ bought \in [Orders -> SUBSET Nat]
  /\ claims \in [Orders -> Nat]
  /\ clicked \in [Orders -> SUBSET Nat]
  /\ cleared \in [Orders -> SUBSET Nat]
  /\ starts \in [Orders -> 0..MaxManual]
  /\ scans \in 0..MaxScans
  /\ stalls \in 0..MaxStalls
=============================================================================
