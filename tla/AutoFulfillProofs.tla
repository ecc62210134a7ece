------------------------- MODULE AutoFulfillProofs --------------------------
(***************************************************************************)
(* AutoFulfill for any number of sales, workers and threads and any        *)
(* bounds: its type correctness, and the click protocol.  The lemmas first *)
(* say that the null records are well typed and that every single-field    *)
(* update keeps its record typed; then each family of actions preserves    *)
(* TypeOK, one step per action.  The click invariant and the refinement    *)
(* of PurchaseOnce follow.                                                 *)
(***************************************************************************)
EXTENDS AutoFulfill, TLAPS

(* There is a job to name: a sale exists and one attempt is allowed.       *)
LEMMA NoJobType == NoJob \in Job
<1>1. PICK o \in Orders : TRUE
  BY ConstantsAssumption
<1>2. [o |-> o, no |-> 0, attempt |-> 1] \in Job
  BY ConstantsAssumption DEF Job
<1>3. QED
  BY <1>2 DEF NoJob

(* An idle worker is a well-typed run.                                     *)
LEMMA NoRunType == NoRun \in Run
BY NoJobType DEF NoRun, Run, WorkerPc, NoReading, Reading, OrderStatus, Reasons, NoReason, NotClicked

(* An idle thread is well typed.                                           *)
LEMMA NoCtlType == NoCtl \in Ctl
<1>1. (CHOOSE o \in Orders : TRUE) \in Orders
  BY ConstantsAssumption
<1>2. QED
  BY <1>1, ConstantsAssumption DEF NoCtl, Ctl, ThreadPc, Source, OrderStatus

(* An idle scan is well typed.                                             *)
LEMMA NoScanType == NoScan \in Scan
BY DEF NoScan, Scan, ScanPc, NoPlan, NoAmazonOrder

(* Merging two statuses yields one of them.                                *)
LEMMA MergeType == 
  ASSUME NEW s \in OrderStatus, NEW t \in OrderStatus
  PROVE  MergeSyncedStatus(s, t) \in OrderStatus
BY DEF MergeSyncedStatus

(* The row of a sale not yet taken in is well typed.                       *)
LEMMA NoRowType == NoRow \in Row
BY DEF NoRow, Row, OrderStatus, AutoFulfillStatus, Reasons, NoReason, NotClicked, NoAmazonOrder

(* The initial states are well typed.                                      *)
LEMMA InitTypeOK == Init => TypeOK
<1> SUFFICES ASSUME Init PROVE TypeOK
  OBVIOUS
<1>1. ebay \in [Orders -> [status : OrderStatus, cancel : BOOLEAN, kind : SaleKind]]
  BY ConstantsAssumption DEF Init
<1>2. row \in [Orders -> Row] /\ run \in [Workers -> Run] /\ ctl \in [Threads -> Ctl] /\ scan \in Scan
  BY NoRowType, NoRunType, NoCtlType, NoScanType DEF Init
<1>3. QED
  BY <1>1, <1>2, ConstantsAssumption DEF Init, TypeOK

(* Every column update an action makes keeps a row well typed.             *)
LEMMA RowUpdate ==
  ASSUME NEW r \in Row
  PROVE  /\ \A s \in OrderStatus : [r EXCEPT !.status = s] \in Row
         /\ \A af \in AutoFulfillStatus : [r EXCEPT !.af = af] \in Row
         /\ \A af \in AutoFulfillStatus, reason \in Reasons :
              [r EXCEPT !.af = af, !.reason = reason] \in Row
         /\ \A n \in Nat : [r EXCEPT !.stamp = n] \in Row
         /\ \A n \in Int : [r EXCEPT !.suspect = n] \in Row
         /\ \A n \in Int, b \in BOOLEAN : [r EXCEPT !.amazon = n, !.costs = b] \in Row
         /\ \A af \in AutoFulfillStatus, n \in Int : [r EXCEPT !.af = af, !.amazon = n] \in Row
         /\ \A af \in AutoFulfillStatus, n \in Int, b \in BOOLEAN :
              [r EXCEPT !.af = af, !.amazon = n, !.costs = b] \in Row
BY DEF Row

(* So does the write of a link, which settles the status with the costs.   *)
LEMMA LinkUpdate ==
  ASSUME NEW r \in Row, NEW n \in Int, NEW af \in AutoFulfillStatus, NEW reason \in Reasons
  PROVE  [r EXCEPT !.amazon = n, !.costs = TRUE, !.af = af, !.reason = reason] \in Row
BY DEF Row

(* And the insert of a sale.                                               *)
LEMMA IngestUpdate ==
  ASSUME NEW r \in Row, NEW s \in OrderStatus, NEW af \in AutoFulfillStatus
  PROVE  [r EXCEPT !.known = TRUE, !.status = s, !.af = af] \in Row
BY DEF Row

(* Every field update a worker makes keeps its run well typed.             *)
LEMMA RunUpdate ==
  ASSUME NEW r \in Run
  PROVE  /\ \A pc \in WorkerPc : [r EXCEPT !.pc = pc] \in Run
         /\ \A pc \in WorkerPc, reason \in Reasons :
              [r EXCEPT !.pc = pc, !.reason = reason] \in Run
         /\ \A pc \in WorkerPc, seen \in Reading : [r EXCEPT !.pc = pc, !.seen = seen] \in Run
         /\ \A pc \in WorkerPc, reason \in Reasons, seen \in Reading :
              [r EXCEPT !.pc = pc, !.reason = reason, !.seen = seen] \in Run
         /\ \A pc \in WorkerPc, n \in Nat : [r EXCEPT !.pc = pc, !.claim = n] \in Run
         /\ \A pc \in WorkerPc, b \in BOOLEAN : [r EXCEPT !.pc = pc, !.id = b] \in Run
         /\ \A b \in BOOLEAN : [r EXCEPT !.owns = b] \in Run
BY DEF Run

(* A job that was not on its last attempt has a next one.                  *)
LEMMA NextAttempt ==
  ASSUME NEW j \in Job, j.attempt # Attempts
  PROVE  [j EXCEPT !.attempt = @ + 1] \in Job
<1>1. j.attempt \in 1..Attempts /\ j.attempt + 1 \in 1..Attempts
  BY ConstantsAssumption DEF Job
<1>2. QED
  BY <1>1 DEF Job

(* What the worker shorthands read and write is well typed.                *)
LEMMA RunTypes ==
  ASSUME TypeOK, NEW w \in Workers
  PROVE  /\ run[w] \in Run /\ JobSale(w) \in Orders /\ JobRow(w) \in Row
         /\ \A pc \in WorkerPc : Goto(w, pc) => run' \in [Workers -> Run]
         /\ \A pc \in WorkerPc, reason \in Reasons :
              GotoBlock(w, pc, reason) => run' \in [Workers -> Run]
         /\ Finish(w) => run' \in [Workers -> Run]
<1>1. run \in [Workers -> Run] /\ row \in [Orders -> Row]
  BY DEF TypeOK
<1>2. run[w] \in Run /\ JobSale(w) \in Orders /\ JobRow(w) \in Row
  BY <1>1 DEF Run, Job, JobSale, JobRow
<1>3. \A pc \in WorkerPc : [run[w] EXCEPT !.pc = pc] \in Run
  BY <1>2 DEF Run
<1>4. \A pc \in WorkerPc, reason \in Reasons :
        [run[w] EXCEPT !.pc = pc, !.reason = reason] \in Run
  BY <1>2 DEF Run
<1>5. QED
  BY <1>1, <1>2, <1>3, <1>4, NoRunType DEF Goto, GotoBlock, Finish

(* The two status writes keep the table well typed.                        *)
LEMMA RowWrites ==
  ASSUME TypeOK, NEW o \in Orders, NEW af \in AutoFulfillStatus, NEW reason \in Reasons
  PROVE  /\ SetStatus(o, af, reason) => row' \in [Orders -> Row]
         /\ SetAutoFulfillStatus(o, af, reason) => row' \in [Orders -> Row]
<1>1. row \in [Orders -> Row]
  BY DEF TypeOK
<1>2. [row[o] EXCEPT !.af = af, !.reason = reason] \in Row
  BY <1>1 DEF Row
<1>3. [row[o] EXCEPT !.af = af, !.reason = IF reason = NoReason THEN @ ELSE reason] \in Row
  BY <1>1 DEF Row
<1>4. QED
  BY <1>1, <1>2, <1>3 DEF SetStatus, SetAutoFulfillStatus

(* No step of a worker breaks a type, stalls and deaths included.          *)
LEMMA WorkerTypeOK ==
  ASSUME TypeOK, NEW w \in Workers, WorkerStep(w)
  PROVE  TypeOK'
<1> USE DEF WorkerKeeps, OnlyRun, worldVars, amazonVars, scanVars, TypeOK
<1>1. CASE Start(w)
  <2> PICK j \in jobs : run' = [run EXCEPT ![w] = [NoRun EXCEPT !.pc = "read", !.job = j, !.owns = TRUE]]
    BY <1>1 DEF Start
  <2>1. [NoRun EXCEPT !.pc = "read", !.job = j, !.owns = TRUE] \in Run
    BY NoRunType DEF Run, WorkerPc
  <2>2. QED
    BY <1>1, <2>1 DEF Start
<1>2. CASE ReadOrder(w)
  BY <1>2, RunTypes DEF ReadOrder, WorkerPc, Reasons, SkipReasons
<1>3. CASE SettleStamped(w)
  BY <1>3, RunTypes DEF SettleStamped, WorkerPc, Reasons, UnknownOutcomeReasons
<1>4. CASE CheckEntitled(w)
  BY <1>4, RunTypes DEF CheckEntitled, WorkerPc, Reasons, RetryableReasons
<1>5. CASE LookAtSale(w)
  <2>1. ebay[JobSale(w)] \in [status : OrderStatus, cancel : BOOLEAN, kind : SaleKind]
    BY RunTypes
  <2> DEFINE seen == [status |-> MergeSyncedStatus(JobRow(w).status, ebay[JobSale(w)].status),
                      cancel |-> ebay[JobSale(w)].cancel]
  <2>2. seen \in Reading
    BY <2>1, RunTypes, MergeType DEF Reading, Row
  <2>3. run' \in [Workers -> Run]
    <3>1. run' = [run EXCEPT ![w].pc = "recheck", ![w].seen = seen]
      BY <1>5 DEF LookAtSale
    <3>2. [run[w] EXCEPT !.pc = "recheck", !.seen = seen] \in Run
      <4> HIDE DEF seen
      <4> QED BY <2>2, RunTypes, RunUpdate DEF WorkerPc
    <3> HIDE DEF seen
    <3>3. QED
      BY <3>1, <3>2
  <2>4. QED
    BY <1>5, <2>3 DEF LookAtSale
<1>6. CASE RecheckSale(w)
  <2>1. run[w].seen \in Reading /\ NoReading \in Reading
    BY RunTypes DEF Run, Reading, NoReading, OrderStatus
  <2>2. row' \in [Orders -> Row]
    <3>1. [row[JobSale(w)] EXCEPT !.status = run[w].seen.status] \in Row
      BY <2>1, RunTypes, RowUpdate DEF Reading, JobRow
    <3>2. QED
      BY <1>6, <3>1, RunTypes DEF RecheckSale
  <2>3. run' \in [Workers -> Run]
    <3>1. \A pc \in {"skip", "block", "running"}, reason \in Reasons :
            [run[w] EXCEPT !.pc = pc, !.reason = reason, !.seen = NoReading] \in Run
      BY ZenonT(40), <2>1, RunTypes, RunUpdate DEF WorkerPc
    <3> DEFINE verdict == PrePurchase(run[w].seen.status, run[w].seen.cancel,
                                      ebay[JobSale(w)].kind = "multi_item", run[w].job.no > 0)
               pc == CASE verdict.to = "skipped" -> "skip"
                       [] verdict.to = "blocked" -> "block"
                       [] OTHER                  -> "running"
    <3>2. verdict.reason \in Reasons
      BY DEF PrePurchase, IneligibleReason, Reasons, SkipReasons, RetryableReasons, NoReason
    <3>3. run' = [run EXCEPT ![w].pc = pc, ![w].reason = verdict.reason, ![w].seen = NoReading]
      BY <1>6 DEF RecheckSale
    <3>4. pc \in {"skip", "block", "running"}
      <4> HIDE DEF verdict
      <4> QED OBVIOUS
    <3> HIDE DEF verdict, pc
    <3>5. [run[w] EXCEPT !.pc = pc, !.reason = verdict.reason, !.seen = NoReading] \in Run
      BY <3>1, <3>2, <3>4
    <3>6. QED
      BY <3>3, <3>5
  <2>4. QED
    BY <1>6, <2>2, <2>3 DEF RecheckSale
<1>7. CASE SetRunning(w)
  BY <1>7, RunTypes, RowWrites DEF SetRunning, WorkerPc, AutoFulfillStatus, Reasons
<1>8. CASE SetSkipped(w)
  BY <1>8, RunTypes, RowWrites DEF SetSkipped, WorkerPc, AutoFulfillStatus, Run
<1>9. CASE Checkout(w)
  BY <1>9, RunTypes, ConstantsAssumption DEF Checkout, WorkerPc, Reasons
<1>10. CASE SimulatePlacement(w)
  <2>1. [row[JobSale(w)] EXCEPT !.af = "dry_run", !.amazon = Simulated, !.costs = TRUE] \in Row
    <3>1. row[JobSale(w)] \in Row /\ "dry_run" \in AutoFulfillStatus /\ Simulated \in Int
      BY RunTypes DEF JobRow, AutoFulfillStatus, Simulated
    <3>2. QED
      BY <3>1, RowUpdate
  <2>2. "dry_run" \in AutoFulfillStatus /\ NoReason \in Reasons
    BY DEF AutoFulfillStatus, Reasons
  <2>3. row' \in [Orders -> Row]
    BY <1>10, <2>1, <2>2, RunTypes, RowWrites DEF SimulatePlacement
  <2>4. QED
    BY <1>10, <2>3, RunTypes DEF SimulatePlacement
<1>11. CASE ClaimClick(w)
  <2> DEFINE n == claims[JobSale(w)] + 1
  <2>1. n \in Nat
    BY RunTypes
  <2>2. /\ [row[JobSale(w)] EXCEPT !.stamp = n] \in Row
        /\ [run[w] EXCEPT !.pc = "click", !.claim = n] \in Run
    BY <2>1, RunTypes, RowUpdate, RunUpdate DEF JobRow, WorkerPc
  <2>3. /\ row' \in [Orders -> Row] /\ run' \in [Workers -> Run]
        /\ claims' \in [Orders -> Nat]
    BY <1>11, <2>1, <2>2, RunTypes DEF ClaimClick, WorkerPc
  <2>4. QED
    BY <1>11, <2>3 DEF ClaimClick
<1>12. CASE LostClaim(w)
  BY <1>12, RunTypes DEF LostClaim, WorkerPc, Reasons, UnknownOutcomeReasons
<1>13. CASE ClickPlaceOrder(w)
  <2>1. run[w].claim \in Nat
    BY RunTypes DEF Run
  <2>2. run' \in [Workers -> Run]
    BY <1>13, RunTypes DEF ClickPlaceOrder, WorkerPc
  <2>3. \A f \in [Orders -> SUBSET Nat] :
          [f EXCEPT ![JobSale(w)] = @ \cup {run[w].claim}] \in [Orders -> SUBSET Nat]
    BY <2>1, RunTypes
  <2>4. clicked' \in [Orders -> SUBSET Nat] /\ bought' \in [Orders -> SUBSET Nat]
    <3>1. clicked \in [Orders -> SUBSET Nat] /\ bought \in [Orders -> SUBSET Nat]
      OBVIOUS
    <3>2. QED
      BY <1>13, <2>3, <3>1 DEF ClickPlaceOrder
  <2>5. QED
    BY <1>13, <2>2, <2>4 DEF ClickPlaceOrder
<1>14. CASE ParseConfirmation(w)
  <2>1. \A id \in BOOLEAN : [run[w] EXCEPT !.pc = "placed", !.id = id] \in Run
    BY RunTypes, RunUpdate DEF WorkerPc
  <2>2. run' \in [Workers -> Run]
    BY <1>14, <2>1, RunTypes DEF ParseConfirmation, WorkerPc, Reasons, UnknownOutcomeReasons
  <2>3. QED
    BY <1>14, <2>2 DEF ParseConfirmation
<1>15. CASE OnPlaced(w)
  <2>1. \A amazon \in Int, costs \in BOOLEAN :
          /\ [row[JobSale(w)] EXCEPT !.af = "placed", !.amazon = amazon, !.costs = costs] \in Row
          /\ [row[JobSale(w)] EXCEPT !.af = "placed", !.amazon = amazon] \in Row
    BY RunTypes, RowUpdate DEF JobRow, AutoFulfillStatus
  <2>2. run[w].claim \in Int /\ run[w].id \in BOOLEAN /\ NoAmazonOrder \in Int
    BY RunTypes DEF Run, NoAmazonOrder
  <2>3. row[JobSale(w)].amazon \in Int /\ row[JobSale(w)].costs \in BOOLEAN
    BY RunTypes DEF JobRow, Row
  <2>4. row' \in [Orders -> Row]
    <3> DEFINE id == IF run[w].id THEN run[w].claim ELSE NoAmazonOrder
               full == [row EXCEPT ![JobSale(w)].af = "placed",
                          ![JobSale(w)].amazon = IF run[w].id THEN id ELSE @,
                          ![JobSale(w)].costs = run[w].id \/ @]
               minimal == [row EXCEPT ![JobSale(w)].af = "placed", ![JobSale(w)].amazon = id]
    <3>1. row' = full \/ row' = minimal \/ row' = row
      BY <1>15 DEF OnPlaced
    <3>2. full \in [Orders -> Row] /\ minimal \in [Orders -> Row]
      BY <2>1, <2>2, <2>3, RunTypes
    <3> HIDE DEF full, minimal
    <3>3. QED
      BY <3>1, <3>2
  <2>5. QED
    BY <1>15, <2>4, RunTypes DEF OnPlaced
<1>16. CASE SetBlocked(w)
  BY <1>16, RunTypes, RowWrites DEF SetBlocked, WorkerPc, AutoFulfillStatus, Run
<1>17. CASE ReleaseSlot(w)
  BY <1>17, RunTypes DEF ReleaseSlot, Release
<1>18. CASE Throw(w)
  BY <1>18, RunTypes DEF Throw, WorkerPc
<1>19. CASE SettleEscaped(w)
  BY <1>19, RunTypes DEF SettleEscaped, WorkerPc, Reasons, UnknownOutcomeReasons
<1>20. CASE SettleFails(w)
  BY <1>20, RunTypes DEF SettleFails, WorkerPc
<1>21. CASE GiveUp(w)
  <2>1. \A af \in {"failed", "pending"} : HandBack(w, af) => row' \in [Orders -> Row]
    <3>1. \A af \in {"failed", "pending"} : [row[JobSale(w)] EXCEPT !.af = af] \in Row
      BY RunTypes, RowUpdate DEF JobRow, AutoFulfillStatus
    <3>2. QED
      BY <3>1, RunTypes DEF HandBack
  <2>2. ~IsLast(w) => [run[w].job EXCEPT !.attempt = @ + 1] \in Job
    BY RunTypes, NextAttempt DEF IsLast, Run
  <2>3. row' \in [Orders -> Row] /\ jobs' \in SUBSET Job /\ run' \in [Workers -> Run]
    BY <1>21, <2>1, <2>2, RunTypes DEF GiveUp, WorkerPc
  <2>4. QED
    BY <1>21, <2>3 DEF GiveUp
<1>22. CASE Stall(w)
  <2>1. [run[w] EXCEPT !.owns = FALSE] \in Run /\ run[w].job \in Job
    BY RunTypes, RunUpdate DEF Run
  <2>2. run' \in [Workers -> Run] /\ jobs' \in SUBSET Job /\ stalls' \in 0..MaxStalls
    BY <1>22, <2>1, ConstantsAssumption DEF Stall
  <2>3. QED
    BY <1>22, <2>2 DEF Stall
<1>23. CASE Die(w)
  <2>1. run[w].job \in Job
    BY RunTypes DEF Run
  <2>2. run' \in [Workers -> Run] /\ jobs' \in SUBSET Job /\ stalls' \in 0..MaxStalls
    BY <1>23, <2>1, RunTypes, ConstantsAssumption DEF Die
  <2>3. QED
    BY <1>23, <2>2 DEF Die
<1>24. QED
  BY <1>1, <1>2, <1>3, <1>4, <1>5, <1>6, <1>7, <1>8, <1>9, <1>10, <1>11, <1>12,
     <1>13, <1>14, <1>15, <1>16, <1>17, <1>18, <1>19, <1>20, <1>21, <1>22, <1>23
  DEF WorkerStep, RunStep

(* Every field update a thread makes keeps its record well typed.          *)
LEMMA CtlUpdate ==
  ASSUME NEW r \in Ctl
  PROVE  /\ \A pc \in ThreadPc : [r EXCEPT !.pc = pc] \in Ctl
         /\ \A pc \in ThreadPc, s \in OrderStatus : [r EXCEPT !.pc = pc, !.seen = s] \in Ctl
BY DEF Ctl

(* What the thread shorthands read and write is well typed.                *)
LEMMA CtlTypes ==
  ASSUME TypeOK, NEW c \in Threads
  PROVE  /\ ctl[c] \in Ctl /\ CtlSale(c) \in Orders /\ row[CtlSale(c)] \in Row
         /\ \A pc \in ThreadPc : Proceed(c, pc) => ctl' \in [Threads -> Ctl]
         /\ \A o \in Orders, pc \in ThreadPc, src \in Source :
              Begin(c, o, pc, src) => ctl' \in [Threads -> Ctl]
         /\ Return(c) => ctl' \in [Threads -> Ctl]
<1>1. ctl \in [Threads -> Ctl] /\ row \in [Orders -> Row]
  BY DEF TypeOK
<1>2. ctl[c] \in Ctl /\ CtlSale(c) \in Orders /\ row[CtlSale(c)] \in Row
  BY <1>1 DEF Ctl, CtlSale
<1>3. \A o \in Orders, pc \in ThreadPc, src \in Source :
        [pc |-> pc, o |-> o, src |-> src, seen |-> "pending", no |-> 0] \in Ctl
  BY ConstantsAssumption DEF Ctl, OrderStatus
<1>4. QED
  BY <1>1, <1>2, <1>3, CtlUpdate, NoCtlType DEF Proceed, Begin, Return

(* No step of a sync job or of a request breaks a type.                    *)
LEMMA ThreadTypeOK ==
  ASSUME TypeOK, NEW c \in Threads, ThreadStep(c)
  PROVE  TypeOK'
<1> USE DEF ThreadKeeps, OnlyCtl, worldVars, amazonVars, scanVars, TypeOK
<1>1. ASSUME NEW o \in Orders, IngestSale(c, o) PROVE TypeOK'
  <2>1. ebay[o].status \in OrderStatus
    OBVIOUS
  <2>2. \A af \in AutoFulfillStatus, s \in OrderStatus :
          [row[o] EXCEPT !.known = TRUE, !.status = s, !.af = af] \in Row
    <3>1. row[o] \in Row
      OBVIOUS
    <3>2. QED
      BY ONLY <3>1, IngestUpdate
  <2>3. row' \in [Orders -> Row]
    BY <1>1, <2>1, <2>2 DEF IngestSale, AutoFulfillStatus
  <2>4. [pc |-> "resolve", o |-> o, src |-> "ingest", seen |-> ebay[o].status, no |-> 0] \in Ctl
    BY <2>1, ConstantsAssumption DEF Ctl, ThreadPc, Source
  <2>5. ctl' \in [Threads -> Ctl]
    BY <1>1, <2>4 DEF IngestSale
  <2>6. QED
    BY <1>1, <2>3, <2>5 DEF IngestSale
<1>2. ASSUME NEW o \in Orders, ResyncSale(c, o) PROVE TypeOK'
  <2>1. MergeSyncedStatus(row[o].status, ebay[o].status) \in OrderStatus
    BY MergeType DEF Row
  <2>2. row' \in [Orders -> Row]
    BY <1>2, <2>1, RowUpdate DEF ResyncSale
  <2>3. QED
    BY <1>2, <2>2 DEF ResyncSale
<1>3. ASSUME NEW o \in Orders, ResumeSuspended(c, o) PROVE TypeOK'
  BY <1>3, CtlTypes DEF ResumeSuspended, ThreadPc, Source
<1>4. ASSUME NEW o \in Orders, RecheckUnpaid(c, o) PROVE TypeOK'
  BY <1>4, CtlTypes DEF RecheckUnpaid, ThreadPc, Source
<1>5. ASSUME NEW o \in Orders, SettleStale(c, o) PROVE TypeOK'
  BY <1>5, CtlTypes, RowWrites DEF SettleStale, ThreadPc, Source, AutoFulfillStatus, Reasons, UnknownOutcomeReasons
<1>6. ASSUME NEW o \in Orders, StartManually(c, o) PROVE TypeOK'
  <2> DEFINE r(b) == [row[o] EXCEPT !.af = "pending", !.reason = NoReason,
                                    !.amazon = NoAmazonOrder, !.costs = b]
  <2>1. row[o] \in Row /\ NoAmazonOrder \in Int /\ NoReason \in Reasons
    BY DEF NoAmazonOrder, Reasons
  <2>2. \A b \in BOOLEAN : r(b) \in Row
    BY <2>1 DEF Row, AutoFulfillStatus
  <2>3. row[o].costs \in BOOLEAN
    BY <2>1 DEF Row
  <2>4. row' \in [Orders -> Row]
    BY <1>6, <2>2, <2>3 DEF StartManually
  <2>5. starts[o] + 1 \in 0..MaxManual
    BY <1>6, ConstantsAssumption DEF StartManually
  <2>6. [pc |-> "reserve", o |-> o, src |-> "manual", seen |-> "pending", no |-> starts[o] + 1] \in Ctl
    BY <2>5 DEF Ctl, ThreadPc, Source, OrderStatus
  <2>7. ctl' \in [Threads -> Ctl] /\ starts' \in [Orders -> 0..MaxManual]
    BY <1>6, <2>5, <2>6 DEF StartManually
  <2>8. QED
    BY <1>6, <2>4, <2>7 DEF StartManually
<1>7. ASSUME NEW o \in Orders, AskNotPurchased(c, o) PROVE TypeOK'
  BY <1>7, CtlTypes DEF AskNotPurchased, ThreadPc, Source
<1>8. CASE Resolve(c)
  <2>1. GateReason(c) \in Reasons /\ "skipped" \in AutoFulfillStatus
    BY DEF GateReason, IneligibleReason, Reasons, SkipReasons, NoReason, AutoFulfillStatus
  <2>2. row' \in [Orders -> Row] /\ ctl' \in [Threads -> Ctl]
    BY <1>8, <2>1, CtlTypes, RowWrites DEF Resolve, ThreadPc
  <2>3. QED
    BY <1>8, <2>2 DEF Resolve
<1>9. CASE Reserve(c)
  BY <1>9, CtlTypes, RowWrites DEF Reserve, ThreadPc, AutoFulfillStatus, Reasons, RetryableReasons
<1>10. CASE Enqueue(c)
  <2>1. /\ [o |-> CtlSale(c), no |-> ctl[c].no, attempt |-> 1] \in Job
        /\ [o |-> CtlSale(c), no |-> 0, attempt |-> 1] \in Job
    BY CtlTypes, ConstantsAssumption DEF Job, Ctl
  <2>2. QED
    BY <1>10, <2>1, CtlTypes DEF Enqueue
<1>11. CASE Fail(c)
  BY <1>11, CtlTypes DEF Fail, ThreadPc
<1>12. CASE Recover(c)
  <2>1. /\ {"failed", "blocked", "skipped"} \subseteq AutoFulfillStatus
        /\ {NoReason, "subscription_suspended", "order_not_paid"} \subseteq Reasons
    BY DEF AutoFulfillStatus, Reasons, RetryableReasons, SkipReasons
  <2>2. row' \in [Orders -> Row] /\ ctl' \in [Threads -> Ctl]
    BY <1>12, <2>1, CtlTypes, RowWrites DEF Recover, ThreadPc
  <2>3. QED
    BY <1>12, <2>2 DEF Recover
<1>13. CASE ReleaseHold(c)
  BY <1>13, CtlTypes DEF ReleaseHold, Release
<1>14. CASE Rearm(c)
  BY <1>14, CtlTypes, RowWrites DEF Rearm, ThreadPc, AutoFulfillStatus, Reasons
<1>15. CASE ReadPayment(c)
  <2>1. ebay[CtlSale(c)].status \in OrderStatus
    BY CtlTypes
  <2>2. [ctl[c] EXCEPT !.pc = "release_paid", !.seen = ebay[CtlSale(c)].status] \in Ctl
    BY <2>1, CtlTypes, CtlUpdate DEF ThreadPc
  <2>3. QED
    BY ZenonT(40), <1>15, <2>2, CtlTypes DEF ReadPayment
<1>16. CASE ReleasePaid(c)
  <2>1. ctl[c].seen \in OrderStatus
    BY CtlTypes DEF Ctl
  <2>2. [row[CtlSale(c)] EXCEPT !.status = ctl[c].seen] \in Row
    BY <2>1, CtlTypes, RowUpdate
  <2>3. QED
    BY <1>16, <2>2, CtlTypes DEF ReleasePaid, ThreadPc
<1>17. CASE Relabel(c)
  <2>1. IneligibleReason(ctl[c].seen) \in Reasons /\ "skipped" \in AutoFulfillStatus
    BY DEF IneligibleReason, Reasons, SkipReasons, AutoFulfillStatus
  <2>2. QED
    BY <1>17, <2>1, CtlTypes, RowWrites DEF Relabel
<1>18. CASE ClearStamp(c)
  <2> DEFINE r == [row[CtlSale(c)] EXCEPT !.stamp = NotClicked, !.suspect = NoAmazonOrder,
                                          !.af = "failed", !.reason = NoReason]
  <2>1. row[CtlSale(c)] \in Row /\ row[CtlSale(c)].stamp \in Nat
    BY CtlTypes DEF Row
  <2>2. NoAmazonOrder \in Int /\ NoReason \in Reasons /\ NotClicked \in Nat
    BY DEF NoAmazonOrder, Reasons, NotClicked
  <2>3. r \in Row
    BY <2>1, <2>2 DEF Row, AutoFulfillStatus
  <2>4. row' \in [Orders -> Row] /\ cleared' \in [Orders -> SUBSET Nat]
    <3>1. \/ row' = row /\ cleared' = cleared
          \/ /\ row' = [row EXCEPT ![CtlSale(c)] = r]
             /\ cleared' = [cleared EXCEPT ![CtlSale(c)] = @ \cup {row[CtlSale(c)].stamp}]
      BY <1>18, CtlTypes DEF ClearStamp
    <3> HIDE DEF r
    <3>2. row' \in [Orders -> Row]
      BY <2>3, <3>1
    <3>3. cleared' \in [Orders -> SUBSET Nat]
      BY <2>1, <3>1
    <3>4. QED
      BY <3>2, <3>3
  <2>5. QED
    BY <1>18, <2>4, CtlTypes DEF ClearStamp
<1>19. CASE Abandon(c)
  BY <1>19, CtlTypes DEF Abandon
<1>20. QED
  BY <1>1, <1>2, <1>3, <1>4, <1>5, <1>6, <1>7, <1>8, <1>9, <1>10, <1>11, <1>12,
     <1>13, <1>14, <1>15, <1>16, <1>17, <1>18, <1>19
  DEF ThreadStep

(* No step of the Amazon scan breaks a type, whatever the list shows.      *)
LEMMA ScanTypeOK ==
  ASSUME TypeOK, ScanStep
  PROVE  TypeOK'
<1> USE DEF ScanKeeps, worldVars, amazonVars, scanVars, TypeOK
<1>1. CASE SelectCandidates
  <2> PICK cands \in SUBSET Orders :
        scan' = [NoScan EXCEPT !.pc = "start", !.cands = cands,
                   !.named = {o \in cands : row[o].amazon # NoAmazonOrder},
                   !.clicks = {o \in cands : row[o].stamp # NotClicked}]
    BY <1>1 DEF SelectCandidates
  <2>1. scan' \in Scan
    BY NoScanType DEF Scan, ScanPc
  <2>2. scans' \in 0..MaxScans
    BY <1>1, ConstantsAssumption DEF SelectCandidates
  <2>3. QED
    BY <1>1, <2>1, <2>2 DEF SelectCandidates
<1>2. CASE StartScan
  <2>1. [scan EXCEPT !.pc = "scrape", !.covers = claims] \in Scan
    BY DEF Scan, ScanPc
  <2>2. QED
    BY <1>2, <2>1 DEF StartScan
<1>3. CASE ScrapeAndPlan
  <2> DEFINE Plan == [link : Int, suspect : Int]
  <2>1. \A o \in Orders, shown \in SUBSET Nat : Plans(o, shown) \subseteq Plan
    BY DEF Plans, NoAmazonOrder
  <2>2. PICK plan \in [Orders -> Plan] :
          scan' = [scan EXCEPT !.pc = "write",
                               !.link = [o \in Orders |-> plan[o].link],
                               !.suspect = [o \in Orders |-> plan[o].suspect]]
    <3>1. PICK shown \in [Orders -> SUBSET Nat] :
            \E plan \in [Orders -> UNION {Plans(o, shown[o]) : o \in Orders}] :
              scan' = [scan EXCEPT !.pc = "write",
                                   !.link = [o \in Orders |-> plan[o].link],
                                   !.suspect = [o \in Orders |-> plan[o].suspect]]
      <4> DEFINE Planned(shown) ==
            \E plan \in [Orders -> UNION {Plans(o, shown[o]) : o \in Orders}] :
              scan' = [scan EXCEPT !.pc = "write",
                                   !.link = [o \in Orders |-> plan[o].link],
                                   !.suspect = [o \in Orders |-> plan[o].suspect]]
      <4>1. PICK shown \in [Orders -> UNION {SUBSET bought[o] : o \in Orders}] : Planned(shown)
        BY <1>3 DEF ScrapeAndPlan
      <4>2. shown \in [Orders -> SUBSET Nat]
        OBVIOUS
      <4> HIDE DEF Planned
      <4>3. \E f \in [Orders -> SUBSET Nat] : Planned(f)
        BY <4>1, <4>2
      <4>4. QED
        BY <4>3 DEF Planned
    <3>2. UNION {Plans(o, shown[o]) : o \in Orders} \subseteq Plan
      <4> HIDE DEF Plan
      <4> QED BY <2>1
    <3> DEFINE S == UNION {Plans(o, shown[o]) : o \in Orders}
    <3>3. [Orders -> S] \subseteq [Orders -> Plan]
      <4> HIDE DEF S, Plan
      <4> SUFFICES ASSUME S \subseteq Plan PROVE [Orders -> S] \subseteq [Orders -> Plan]
        BY <3>2 DEF S
      <4> QED OBVIOUS
    <3>4. QED
      BY <3>1, <3>3
  <2>3. scan' \in Scan
    <3>1. [o \in Orders |-> plan[o].link] \in [Orders -> Int]
      OBVIOUS
    <3>2. [o \in Orders |-> plan[o].suspect] \in [Orders -> Int]
      OBVIOUS
    <3>3. \A f, g \in [Orders -> Int] :
            [scan EXCEPT !.pc = "write", !.link = f, !.suspect = g] \in Scan
      BY DEF Scan, ScanPc
    <3>4. QED
      BY <2>2, <3>1, <3>2, <3>3
  <2>4. QED
    BY <1>3, <2>3 DEF ScrapeAndPlan
<1>4. ASSUME NEW o \in Orders, WriteSuspect(o) PROVE TypeOK'
  <2>1. scan.suspect \in [Orders -> Int] /\ NoAmazonOrder \in Int
    BY DEF Scan, NoAmazonOrder
  <2>2. [scan EXCEPT !.suspect[o] = NoAmazonOrder] \in Scan
    BY <2>1 DEF Scan
  <2>3. [row[o] EXCEPT !.suspect = scan.suspect[o]] \in Row
    BY <2>1, RowUpdate
  <2>4. QED
    BY <1>4, <2>2, <2>3 DEF WriteSuspect
<1>5. ASSUME NEW o \in Orders, WriteLink(o) PROVE TypeOK'
  <2>1. scan.link \in [Orders -> Int] /\ NoAmazonOrder \in Int /\ NoReason \in Reasons
    BY DEF Scan, NoAmazonOrder, Reasons
  <2>2. [scan EXCEPT !.link[o] = NoAmazonOrder] \in Scan
    BY <2>1 DEF Scan
  <2>3. \A n \in Int, af \in AutoFulfillStatus, reason \in Reasons :
          [row[o] EXCEPT !.amazon = n, !.costs = TRUE, !.af = af, !.reason = reason] \in Row
    <3>1. row[o] \in Row
      OBVIOUS
    <3>2. QED
      BY ONLY <3>1, LinkUpdate
  <2>4. row[o].af \in AutoFulfillStatus /\ row[o].reason \in Reasons /\ "placed" \in AutoFulfillStatus
    BY DEF Row, AutoFulfillStatus
  <2> DEFINE r == [row[o] EXCEPT
                     !.amazon = scan.link[o], !.costs = TRUE,
                     !.af = IF row[o].stamp # NotClicked THEN "placed" ELSE @,
                     !.reason = IF row[o].stamp # NotClicked THEN NoReason ELSE @]
  <2>5. r \in Row
    BY <2>1, <2>3, <2>4
  <2>6. row' = [row EXCEPT ![o] = r] \/ row' = row
    BY <1>5 DEF WriteLink
  <2>7. row' \in [Orders -> Row]
    <3> HIDE DEF r
    <3> QED BY <2>5, <2>6
  <2>8. QED
    BY <1>5, <2>2, <2>7 DEF WriteLink
<1>6. CASE AdvanceSyncedAt
  BY <1>6, NoScanType DEF AdvanceSyncedAt, Scan
<1>7. CASE AbortScan
  BY <1>7, NoScanType DEF AbortScan
<1>8. QED
  BY <1>1, <1>2, <1>3, <1>4, <1>5, <1>6, <1>7 DEF ScanStep

(* Nothing eBay, billing or the seller does breaks a type.                 *)
LEMMA WorldTypeOK ==
  ASSUME TypeOK, World
  PROVE  TypeOK'
<1> USE DEF WorldKeeps, worldVars, scanVars, countVars, TypeOK
<1>1. ASSUME NEW o \in Orders, SaleMoves(o) PROVE TypeOK'
  <2>1. PICK to \in OrderStatus : ebay' = [ebay EXCEPT ![o].status = to]
    BY <1>1, ConstantsAssumption DEF SaleMoves
  <2>2. QED
    BY SMTT(40), <1>1, <2>1 DEF SaleMoves
<1>2. ASSUME NEW o \in Orders, BuyerAsksCancel(o) PROVE TypeOK'
  BY <1>2 DEF BuyerAsksCancel
<1>3. ASSUME NEW o \in Orders, BuyByHand(o) PROVE TypeOK'
  BY <1>3 DEF BuyByHand, HandPurchase
<1>4. ASSUME NEW o \in Orders, LinkByHand(o) PROVE TypeOK'
  <2>1. \A n \in Int, b \in BOOLEAN : [row[o] EXCEPT !.amazon = n, !.costs = b] \in Row
    BY RowUpdate
  <2>2. bought[o] \subseteq Int /\ row[o].costs \in BOOLEAN
    BY DEF Row
  <2>3. row' \in [Orders -> Row]
    <3>1. PICK n \in bought[o], costs \in BOOLEAN :
            row' = [row EXCEPT ![o].amazon = n, ![o].costs = costs \/ (@ /\ row[o].amazon = n)]
      BY <1>4 DEF LinkByHand
    <3> DEFINE b == costs \/ (row[o].costs /\ row[o].amazon = n)
    <3>2. row' = [row EXCEPT ![o] = [row[o] EXCEPT !.amazon = n, !.costs = b]]
      BY <3>1 DEF Row
    <3>3. n \in Int /\ b \in BOOLEAN
      BY <2>2
    <3> HIDE DEF b
    <3>4. QED
      BY <2>1, <3>2, <3>3
  <2>4. QED
    BY <1>4, <2>3 DEF LinkByHand
<1>5. CASE SubscriptionTurns
  BY <1>5 DEF SubscriptionTurns
<1>6. QED
  BY <1>1, <1>2, <1>3, <1>4, <1>5 DEF World

(* Every reachable state is well typed: whatever the actors interleave, a  *)
(* status, a reason, a stamp and a job stay within what the code declares. *)
THEOREM TypeCorrect == Spec => []TypeOK
<1>1. Init => TypeOK
  BY InitTypeOK
<1>2. TypeOK /\ [Next]_vars => TypeOK'
  <2>1. ASSUME TypeOK, Next PROVE TypeOK'
    BY <2>1, WorkerTypeOK, ThreadTypeOK, ScanTypeOK, WorldTypeOK DEF Next
  <2>2. ASSUME TypeOK, UNCHANGED vars PROVE TypeOK'
    BY <2>2 DEF vars, TypeOK
  <2>3. QED
    BY <2>1, <2>2
<1>3. QED
  BY <1>1, <1>2, PTL DEF Spec

(***************************************************************************)
(* The click protocol.                                                     *)
(* PurchasesAccounted is not inductive on its own: between the claim and   *)
(* the click the claimed number lives in the worker only, and a            *)
(* declaration may meet it there.  ClickInv adds what is known of a claim  *)
(* on its way.  All but three actions are Quiet, so the argument is about  *)
(* ClaimClick, ClickPlaceOrder and ClearStamp.                             *)
(***************************************************************************)
(* A claim that is about to be sent is numbered, is not sent yet, is the   *)
(* only one of its number and is held: by the stamp of its row, or by the  *)
(* seller's declaration against it.                                        *)
PendingClicks ==
  \A w \in Workers : At(w, "click") =>
    /\ run[w].claim \in 1..claims[JobSale(w)]
    /\ run[w].claim \notin clicked[JobSale(w)]
    /\ run[w].claim = JobRow(w).stamp \/ run[w].claim \in cleared[JobSale(w)]

ClaimsApart ==
  \A v, w \in Workers :
    At(v, "click") /\ At(w, "click") /\ JobSale(v) = JobSale(w)
      /\ run[v].claim = run[w].claim => v = w

SentClaims == \A o \in Orders : clicked[o] \subseteq 1..claims[o]

ClickInv == PendingClicks /\ ClaimsApart /\ SentClaims /\ PurchasesAccounted

(* A step that touches no stamp, no claim, no click and no declaration.    *)
Quiet ==
  /\ \A o \in Orders : row'[o].stamp = row[o].stamp
  /\ \A o \in Orders : bought'[o] \ {HandPurchase} = bought[o] \ {HandPurchase}
  /\ UNCHANGED <<claims, clicked, cleared>>
  /\ \A w \in Workers :
       run'[w].pc = "click" =>
         /\ run[w].pc = "click" /\ run'[w].claim = run[w].claim
         /\ run'[w].job.o = run[w].job.o

(* A quiet step preserves the click invariant.                             *)
LEMMA QuietKeepsClickInv ==
  ASSUME TypeOK, ClickInv, Quiet
  PROVE  ClickInv'
<1>1. \A w \in Workers : run'[w].pc = "click" => run'[w].job.o \in Orders
  BY RunTypes DEF Quiet, JobSale
<1>2. PendingClicks'
  BY <1>1 DEF ClickInv, Quiet, PendingClicks, At, JobSale, JobRow
<1>3. ClaimsApart'
  BY <1>1 DEF ClickInv, Quiet, ClaimsApart, At, JobSale
<1>4. SentClaims' /\ PurchasesAccounted'
  BY DEF ClickInv, Quiet, SentClaims, PurchasesAccounted
<1>5. QED
  BY <1>2, <1>3, <1>4 DEF ClickInv

(***************************************************************************)
(* The worker.                                                             *)
(***************************************************************************)
(* The two status writes leave every stamp alone.                          *)
LEMMA StampKept ==
  ASSUME TypeOK, NEW o \in Orders, NEW af, NEW reason
  PROVE  /\ SetStatus(o, af, reason) => \A p \in Orders : row'[p].stamp = row[p].stamp
         /\ SetAutoFulfillStatus(o, af, reason) => \A p \in Orders : row'[p].stamp = row[p].stamp
<1>1. row \in [Orders -> Row]
  BY DEF TypeOK
<1>2. QED
  BY <1>1 DEF SetStatus, SetAutoFulfillStatus, Row

(* Moving a worker anywhere but to the click makes no claim pending.       *)
LEMMA NoNewClick ==
  ASSUME TypeOK, NEW w \in Workers
  PROVE  LET kept == \A v \in Workers : run'[v].pc = "click" =>
                       /\ run[v].pc = "click" /\ run'[v].claim = run[v].claim
                       /\ run'[v].job.o = run[v].job.o
         IN  /\ \A pc : pc # "click" /\ Goto(w, pc) => kept
             /\ \A pc, reason : pc # "click" /\ GotoBlock(w, pc, reason) => kept
             /\ Finish(w) => kept
<1>1. run \in [Workers -> Run]
  BY DEF TypeOK
<1>2. QED
  BY <1>1 DEF Goto, GotoBlock, Finish, NoRun, Run

(* Every step of a worker but the claim and the click is quiet.            *)
LEMMA WorkerQuiet ==
  ASSUME TypeOK, NEW w \in Workers, WorkerStep(w),
         ~ClaimClick(w), ~ClickPlaceOrder(w)
  PROVE  Quiet
<1> USE DEF WorkerKeeps, OnlyRun, amazonVars
<1>1. CASE Start(w)
  <2>1. run \in [Workers -> Run]
    BY DEF TypeOK
  <2>2. QED
    BY <1>1, <2>1 DEF Start, Quiet, NoRun
<1>2. CASE ReadOrder(w) \/ SettleStamped(w) \/ CheckEntitled(w)
  BY <1>2, NoNewClick DEF ReadOrder, SettleStamped, CheckEntitled, Quiet
<1>3. CASE LookAtSale(w)
  <2>1. run \in [Workers -> Run]
    BY DEF TypeOK
  <2>2. QED
    BY <1>3, <2>1 DEF LookAtSale, Quiet, Run
<1>4. CASE RecheckSale(w)
  <2>1. run \in [Workers -> Run] /\ row \in [Orders -> Row]
    BY DEF TypeOK
  <2> DEFINE verdict == PrePurchase(run[w].seen.status, run[w].seen.cancel,
                                    ebay[JobSale(w)].kind = "multi_item", run[w].job.no > 0)
             pc == CASE verdict.to = "skipped" -> "skip"
                     [] verdict.to = "blocked" -> "block"
                     [] OTHER                  -> "running"
  <2>2. run' = [run EXCEPT ![w].pc = pc, ![w].reason = verdict.reason, ![w].seen = NoReading]
    BY <1>4 DEF RecheckSale
  <2>3. pc # "click"
    <3> HIDE DEF verdict
    <3> QED OBVIOUS
  <2> HIDE DEF pc, verdict
  <2>4. \A v \in Workers : run'[v].pc = "click" => run'[v] = run[v]
    BY <2>1, <2>2, <2>3 DEF Run
  <2>5. \A o \in Orders : row'[o].stamp = row[o].stamp
    BY <1>4, <2>1 DEF RecheckSale, Row
  <2>6. UNCHANGED <<bought, claims, clicked, cleared>>
    BY <1>4 DEF RecheckSale
  <2>7. QED
    BY <2>4, <2>5, <2>6 DEF Quiet
<1>5. CASE SetRunning(w) \/ SetSkipped(w) \/ SetBlocked(w)
  BY <1>5, RunTypes, NoNewClick, StampKept DEF SetRunning, SetSkipped, SetBlocked, Quiet
<1>6. CASE Checkout(w) \/ LostClaim(w) \/ Throw(w) \/ SettleEscaped(w) \/ SettleFails(w)
  BY <1>6, NoNewClick DEF Checkout, LostClaim, Throw, SettleEscaped, SettleFails, Quiet
<1>7. CASE SimulatePlacement(w)
  <2>1. row \in [Orders -> Row]
    BY DEF TypeOK
  <2>2. \A o \in Orders : row'[o].stamp = row[o].stamp
    BY <1>7, <2>1, RunTypes, StampKept DEF SimulatePlacement, Row
  <2>3. QED
    BY <1>7, <2>2, NoNewClick DEF SimulatePlacement, Quiet
<1>8. CASE ParseConfirmation(w)
  <2>1. run \in [Workers -> Run]
    BY DEF TypeOK
  <2>2. \A v \in Workers : run'[v].pc = "click" => run'[v] = run[v]
    BY <1>8, <2>1 DEF ParseConfirmation, GotoBlock, Run
  <2>3. QED
    BY <1>8, <2>2 DEF ParseConfirmation, Quiet
<1>9. CASE OnPlaced(w)
  <2>1. row \in [Orders -> Row]
    BY DEF TypeOK
  <2>2. \A o \in Orders : row'[o].stamp = row[o].stamp
    BY <1>9, <2>1 DEF OnPlaced, Row
  <2>3. QED
    BY <1>9, <2>2, NoNewClick DEF OnPlaced, Quiet
<1>10. CASE ReleaseSlot(w)
  BY <1>10, NoNewClick DEF ReleaseSlot, Quiet
<1>11. CASE GiveUp(w)
  <2>1. row \in [Orders -> Row]
    BY DEF TypeOK
  <2>2. \A o \in Orders : row'[o].stamp = row[o].stamp
    BY <1>11, <2>1 DEF GiveUp, HandBack, Row
  <2>3. QED
    BY <1>11, <2>2, NoNewClick DEF GiveUp, Quiet
<1>12. CASE Stall(w)
  <2>1. run \in [Workers -> Run]
    BY DEF TypeOK
  <2>2. QED
    BY <1>12, <2>1 DEF Stall, Quiet, Run
<1>13. CASE Die(w)
  BY <1>13, NoNewClick DEF Die, Quiet
<1>14. QED
  BY <1>1, <1>2, <1>3, <1>4, <1>5, <1>6, <1>7, <1>8, <1>9, <1>10, <1>11, <1>12, <1>13
  DEF WorkerStep, RunStep

(* The claim takes a number nobody has and stamps an unstamped row, so no  *)
(* purchase loses its stamp.                                               *)
LEMMA ClaimKeepsClickInv ==
  ASSUME TypeOK, ClickInv, NEW w \in Workers, ClaimClick(w)
  PROVE  ClickInv'
<1> DEFINE s == JobSale(w)
           n == claims[s] + 1
<1>1. s \in Orders /\ n \in Nat \ {0} /\ claims \in [Orders -> Nat]
  BY RunTypes DEF TypeOK
<1>2. row \in [Orders -> Row] /\ run \in [Workers -> Run]
  BY DEF TypeOK
<1>3. UNCHANGED <<bought, clicked, cleared>>
  BY DEF ClaimClick, WorkerKeeps
<1>4. CASE ~Claimable(JobRow(w))
  <2>1. Quiet
    BY <1>3, <1>4, NoNewClick DEF ClaimClick, Quiet
  <2>2. QED
    BY <2>1, QuietKeepsClickInv
<1>5. CASE Claimable(JobRow(w))
  <2>1. /\ claims' = [claims EXCEPT ![s] = n]
        /\ row' = [row EXCEPT ![s].stamp = n]
        /\ run' = [run EXCEPT ![w].pc = "click", ![w].claim = n]
        /\ row[s].stamp = NotClicked
    BY <1>5 DEF ClaimClick, Claimable, JobRow
  <2> HIDE DEF n
  <2>2. \A o \in Orders : row'[o].stamp = IF o = s THEN n ELSE row[o].stamp
    BY <1>1, <1>2, <2>1 DEF Row
  <2>3. \A v \in Workers : /\ run'[v].job = run[v].job
                           /\ v # w => run'[v] = run[v]
                           /\ v = w => run'[v].pc = "click" /\ run'[v].claim = n
    BY <1>2, <2>1 DEF Run
  <2>4. \A v \in Workers : JobSale(v) \in Orders
    BY RunTypes
  <2>5. \A o \in Orders : claims'[o] = IF o = s THEN n ELSE claims[o]
    BY <1>1, <2>1
  <2>6. /\ \A m \in 1..claims[s] : m \in 1..n /\ m # n
        /\ n \in 1..n /\ n # NotClicked
    BY <1>1 DEF n, NotClicked
  <2>7. SentClaims' /\ n \notin clicked[s]
    BY <1>1, <1>3, <2>5, <2>6 DEF ClickInv, SentClaims
  <2>8. PurchasesAccounted'
    <3> SUFFICES ASSUME NEW o \in Orders, NEW m \in bought[o] \ {HandPurchase}
                 PROVE  row'[o].stamp = m \/ m \in cleared[o]
      BY <1>3 DEF PurchasesAccounted
    <3>1. row[o].stamp = m \/ m \in cleared[o]
      BY DEF ClickInv, PurchasesAccounted
    <3>2. QED
      BY <2>1, <2>2, <3>1 DEF NotClicked, HandPurchase
  <2>9. PendingClicks'
    <3> SUFFICES ASSUME NEW v \in Workers, At(v, "click")'
                 PROVE  /\ run'[v].claim \in 1..claims'[JobSale(v)]
                        /\ run'[v].claim \notin clicked[JobSale(v)]
                        /\ \/ run'[v].claim = row'[JobSale(v)].stamp
                           \/ run'[v].claim \in cleared[JobSale(v)]
      BY <1>3, <2>3 DEF PendingClicks, JobSale, JobRow
    <3>1. CASE v = w
      BY <1>1, <2>2, <2>3, <2>5, <2>6, <2>7, <3>1
    <3>2. CASE v # w
      <4>1. /\ run[v].claim \in 1..claims[JobSale(v)]
            /\ run[v].claim \notin clicked[JobSale(v)]
            /\ run[v].claim = row[JobSale(v)].stamp \/ run[v].claim \in cleared[JobSale(v)]
        BY <2>3, <3>2 DEF At, ClickInv, PendingClicks, JobRow
      <4>2. run[v].claim # NotClicked
        BY <4>1, <2>4, <1>1 DEF NotClicked
      <4>3. QED
        BY ZenonT(40), <2>1, <2>2, <2>3, <2>4, <2>5, <2>6, <3>2, <4>1, <4>2
    <3>3. QED
      BY <3>1, <3>2
  <2>10. ClaimsApart'
    <3>1. \A v \in Workers : At(v, "click") /\ JobSale(v) = s => run[v].claim # n
      BY <1>1, <2>6 DEF ClickInv, PendingClicks
    <3>2. QED
      BY <2>3, <3>1 DEF ClickInv, ClaimsApart, At, JobSale
  <2>11. QED
    BY <2>7, <2>8, <2>9, <2>10 DEF ClickInv
<1>6. QED
  BY <1>4, <1>5

(* The click sends a claim that is still held, so what it buys is          *)
(* accounted for.                                                          *)
LEMMA ClickKeepsClickInv ==
  ASSUME TypeOK, ClickInv, NEW w \in Workers, ClickPlaceOrder(w)
  PROVE  ClickInv'
<1> DEFINE s == JobSale(w)
           n == run[w].claim
<1>1. s \in Orders /\ run \in [Workers -> Run]
  BY RunTypes DEF TypeOK
<1>2. /\ UNCHANGED <<row, claims, cleared>>
      /\ clicked' = [clicked EXCEPT ![s] = @ \cup {n}]
      /\ bought' = [bought EXCEPT ![s] = @ \cup {n}] \/ bought' = bought
      /\ run' = [run EXCEPT ![w].pc = "confirm"]
  BY DEF ClickPlaceOrder, WorkerKeeps, Goto
<1>3. n \in 1..claims[s] /\ n \notin clicked[s] /\ (n = row[s].stamp \/ n \in cleared[s])
  BY DEF ClickPlaceOrder, ClickInv, PendingClicks, JobRow
<1>4. clicked \in [Orders -> SUBSET Nat] /\ bought \in [Orders -> SUBSET Nat]
  BY DEF TypeOK
<1>5. \A v \in Workers : /\ run'[v].job = run[v].job /\ run'[v].claim = run[v].claim
                         /\ run'[v].pc = "click" => v # w /\ run[v].pc = "click"
  BY <1>1, <1>2 DEF Run
<1>6. \A v \in Workers : JobSale(v) \in Orders
  BY RunTypes
<1>7. PendingClicks'
  <2> SUFFICES ASSUME NEW v \in Workers, run'[v].pc = "click"
               PROVE  /\ run'[v].claim \in 1..claims'[JobSale(v)]
                      /\ run'[v].claim \notin clicked'[JobSale(v)]
                      /\ \/ run'[v].claim = row'[JobSale(v)].stamp
                         \/ run'[v].claim \in cleared'[JobSale(v)]
    BY <1>5 DEF PendingClicks, At, JobSale, JobRow
  <2>1. v # w /\ At(v, "click") /\ At(w, "click") /\ run'[v].claim = run[v].claim
    BY <1>5 DEF At, ClickPlaceOrder
  <2>2. /\ run[v].claim \in 1..claims[JobSale(v)]
        /\ run[v].claim \notin clicked[JobSale(v)]
        /\ \/ run[v].claim = row[JobSale(v)].stamp
           \/ run[v].claim \in cleared[JobSale(v)]
    BY <2>1 DEF ClickInv, PendingClicks, JobRow
  <2>3. JobSale(v) = s => run[v].claim # n
    BY <2>1 DEF ClickInv, ClaimsApart
  <2>4. clicked'[JobSale(v)] = IF JobSale(v) = s THEN clicked[JobSale(v)] \cup {n}
                               ELSE clicked[JobSale(v)]
    BY <1>2, <1>4, <1>6
  <2>5. QED
    BY <1>2, <2>1, <2>2, <2>3, <2>4
<1>8. ClaimsApart'
  BY <1>5 DEF ClickInv, ClaimsApart, At, JobSale
<1>9. SentClaims' /\ PurchasesAccounted'
  BY <1>1, <1>2, <1>3, <1>4 DEF ClickInv, SentClaims, PurchasesAccounted
<1>10. QED
  BY <1>7, <1>8, <1>9 DEF ClickInv

(***************************************************************************)
(* Sync jobs and requests, the scan and the world.                         *)
(***************************************************************************)
(* Every step of a sync job or request but the declaration is quiet.       *)
LEMMA ThreadQuiet ==
  ASSUME TypeOK, NEW c \in Threads, ThreadStep(c), ~ClearStamp(c)
  PROVE  Quiet
<1> USE DEF ThreadKeeps, OnlyCtl, amazonVars
<1>1. row \in [Orders -> Row] /\ UNCHANGED <<run, bought, claims, clicked>>
  BY DEF TypeOK, ThreadStep, IngestSale, ResyncSale, ResumeSuspended, RecheckUnpaid, SettleStale,
         StartManually, AskNotPurchased, Resolve, Reserve, Enqueue, Fail, Recover, ReleaseHold,
         Rearm, ReadPayment, ReleasePaid, Relabel, Abandon
<1> SUFFICES (\A o \in Orders : row'[o].stamp = row[o].stamp) /\ UNCHANGED cleared
  BY <1>1 DEF Quiet
<1>2. ASSUME NEW o \in Orders, \/ IngestSale(c, o) \/ ResyncSale(c, o) \/ StartManually(c, o)
      PROVE  (\A p \in Orders : row'[p].stamp = row[p].stamp) /\ UNCHANGED cleared
  <2>1. CASE IngestSale(c, o)
    BY <1>1, <2>1 DEF IngestSale, Row
  <2>2. CASE ResyncSale(c, o)
    BY <1>1, <2>2 DEF ResyncSale, Row
  <2>3. CASE StartManually(c, o)
    <3> DEFINE costs == IF row[o].amazon = Simulated THEN FALSE ELSE row[o].costs
    <3>1. row' = [row EXCEPT ![o] = [row[o] EXCEPT !.af = "pending", !.reason = NoReason,
                                       !.amazon = NoAmazonOrder, !.costs = costs]]
      BY <1>1, <2>3 DEF StartManually, Row
    <3> HIDE DEF costs
    <3>2. \A p \in Orders : row'[p].stamp = row[p].stamp
      BY <1>1, <3>1 DEF Row
    <3>3. QED
      BY <2>3, <3>2 DEF StartManually
  <2>4. QED
    BY <1>2, <2>1, <2>2, <2>3
<1>3. ASSUME NEW o \in Orders, \/ ResumeSuspended(c, o) \/ RecheckUnpaid(c, o) \/ AskNotPurchased(c, o)
      PROVE  (\A p \in Orders : row'[p].stamp = row[p].stamp) /\ UNCHANGED cleared
  BY <1>3 DEF ResumeSuspended, RecheckUnpaid, AskNotPurchased
<1>4. ASSUME NEW o \in Orders, SettleStale(c, o)
      PROVE  (\A p \in Orders : row'[p].stamp = row[p].stamp) /\ UNCHANGED cleared
  BY <1>4, StampKept DEF SettleStale
<1>5. CASE Resolve(c) \/ Reserve(c) \/ Recover(c) \/ Rearm(c) \/ Relabel(c)
  BY <1>5, CtlTypes, StampKept DEF Resolve, Reserve, Recover, Rearm, Relabel
<1>6. CASE Enqueue(c) \/ Fail(c) \/ ReleaseHold(c) \/ ReadPayment(c) \/ Abandon(c)
  BY <1>6 DEF Enqueue, Fail, ReleaseHold, ReadPayment, Abandon
<1>7. CASE ReleasePaid(c)
  BY <1>1, <1>7, CtlTypes DEF ReleasePaid, Row
<1>8. QED
  BY <1>2, <1>3, <1>4, <1>5, <1>6, <1>7 DEF ThreadStep

(* The declaration moves the standing claim to the declared ones.          *)
LEMMA ClearKeepsClickInv ==
  ASSUME TypeOK, ClickInv, NEW c \in Threads, ClearStamp(c)
  PROVE  ClickInv'
<1> DEFINE s == CtlSale(c)
<1>1. s \in Orders /\ row \in [Orders -> Row] /\ cleared \in [Orders -> SUBSET Nat]
  BY CtlTypes DEF TypeOK
<1>2. UNCHANGED <<run, bought, claims, clicked>>
  BY DEF ClearStamp, ThreadKeeps, amazonVars
<1>3. \A o \in Orders : /\ cleared[o] \subseteq cleared'[o]
                        /\ row'[o].stamp = row[o].stamp \/ row[o].stamp \in cleared'[o]
  BY SMTT(40), <1>1 DEF ClearStamp, Row
<1>4. \A v \in Workers : JobSale(v) \in Orders
  BY RunTypes
<1>5. PendingClicks'
  BY <1>2, <1>3, <1>4 DEF ClickInv, PendingClicks, At, JobSale, JobRow
<1>6. ClaimsApart' /\ SentClaims'
  BY <1>2 DEF ClickInv, ClaimsApart, SentClaims, At, JobSale
<1>7. PurchasesAccounted'
  BY <1>2, <1>3 DEF ClickInv, PurchasesAccounted
<1>8. QED
  BY <1>5, <1>6, <1>7 DEF ClickInv

(* The Amazon scan is quiet: it never touches a stamp.                     *)
LEMMA ScanQuiet ==
  ASSUME TypeOK, ScanStep
  PROVE  Quiet
<1> USE DEF ScanKeeps, amazonVars
<1>1. row \in [Orders -> Row]
  BY DEF TypeOK
<1>2. UNCHANGED <<run, bought, claims, clicked, cleared>>
  BY DEF ScanStep, SelectCandidates, StartScan, ScrapeAndPlan, WriteSuspect, WriteLink,
         AdvanceSyncedAt, AbortScan
<1>3. \A o \in Orders : row'[o].stamp = row[o].stamp
  <2>1. ASSUME NEW o \in Orders, WriteSuspect(o)
        PROVE  \A p \in Orders : row'[p].stamp = row[p].stamp
    BY <1>1, <2>1 DEF WriteSuspect, Row
  <2>2. ASSUME NEW o \in Orders, WriteLink(o)
        PROVE  \A p \in Orders : row'[p].stamp = row[p].stamp
    <3> DEFINE af == IF row[o].stamp # NotClicked THEN "placed" ELSE row[o].af
               reason == IF row[o].stamp # NotClicked THEN NoReason ELSE row[o].reason
    <3>1. \/ UNCHANGED row
          \/ row' = [row EXCEPT ![o] = [row[o] EXCEPT !.amazon = scan.link[o], !.costs = TRUE,
                                                     !.af = af, !.reason = reason]]
      BY <1>1, <2>2 DEF WriteLink, Row
    <3> HIDE DEF af, reason
    <3>2. \A n : [row[o] EXCEPT !.amazon = n, !.costs = TRUE,
                               !.af = af, !.reason = reason].stamp = row[o].stamp
      BY <1>1 DEF Row
    <3>3. QED
      BY ZenonT(40), <1>1, <3>1, <3>2
  <2>3. CASE SelectCandidates \/ StartScan \/ ScrapeAndPlan \/ AdvanceSyncedAt \/ AbortScan
    BY <2>3 DEF SelectCandidates, StartScan, ScrapeAndPlan, AdvanceSyncedAt, AbortScan
  <2>4. QED
    BY <2>1, <2>2, <2>3 DEF ScanStep
<1>4. QED
  BY <1>2, <1>3 DEF Quiet

(* The world is quiet: a purchase by hand is not a click.                  *)
LEMMA WorldQuiet ==
  ASSUME TypeOK, World
  PROVE  Quiet
<1> USE DEF WorldKeeps
<1>1. row \in [Orders -> Row] /\ bought \in [Orders -> SUBSET Nat]
  BY DEF TypeOK
<1>2. UNCHANGED <<run, claims, clicked, cleared>>
  BY DEF World, SaleMoves, BuyerAsksCancel, SubscriptionTurns, BuyByHand, LinkByHand
<1>3. \A o \in Orders : row'[o].stamp = row[o].stamp
  <2>1. ASSUME NEW o \in Orders, LinkByHand(o)
        PROVE  \A p \in Orders : row'[p].stamp = row[p].stamp
    <3>1. PICK n \in bought[o], costs \in BOOLEAN :
            row' = [row EXCEPT ![o].amazon = n, ![o].costs = costs \/ (@ /\ row[o].amazon = n)]
      BY <2>1 DEF LinkByHand
    <3> DEFINE b == costs \/ (row[o].costs /\ row[o].amazon = n)
    <3>2. row' = [row EXCEPT ![o] = [row[o] EXCEPT !.amazon = n, !.costs = b]]
      BY <3>1, <1>1 DEF Row
    <3> HIDE DEF b
    <3>3. QED
      BY <1>1, <3>2 DEF Row
  <2>2. QED
    BY <2>1 DEF World, SaleMoves, BuyerAsksCancel, SubscriptionTurns, BuyByHand
<1>4. \A o \in Orders : bought'[o] \ {HandPurchase} = bought[o] \ {HandPurchase}
  BY <1>1 DEF World, SaleMoves, BuyerAsksCancel, SubscriptionTurns, BuyByHand, LinkByHand
<1>5. QED
  BY <1>2, <1>3, <1>4 DEF Quiet

(***************************************************************************)
(* The theorems.                                                           *)
(***************************************************************************)
(* Nothing is claimed, sent or bought at first.                            *)
LEMMA InitClickInv == Init => ClickInv
BY DEF Init, ClickInv, PendingClicks, ClaimsApart, SentClaims, PurchasesAccounted, At, NoRun

(* Every step preserves the click invariant.                               *)
LEMMA NextClickInv == TypeOK /\ ClickInv /\ [Next]_vars => ClickInv'
<1>1. ASSUME TypeOK, ClickInv, NEW w \in Workers, WorkerStep(w) PROVE ClickInv'
  BY <1>1, WorkerQuiet, QuietKeepsClickInv, ClaimKeepsClickInv, ClickKeepsClickInv
<1>2. ASSUME TypeOK, ClickInv, NEW c \in Threads, ThreadStep(c) PROVE ClickInv'
  BY <1>2, ThreadQuiet, QuietKeepsClickInv, ClearKeepsClickInv
<1>3. ASSUME TypeOK, ClickInv, ScanStep \/ World PROVE ClickInv'
  BY <1>3, ScanQuiet, WorldQuiet, QuietKeepsClickInv
<1>4. ASSUME TypeOK, ClickInv, UNCHANGED vars PROVE ClickInv'
  <2>1. Quiet
    BY <1>4 DEF vars, Quiet
  <2>2. QED
    BY <1>4, <2>1, QuietKeepsClickInv
<1>5. QED
  BY <1>1, <1>2, <1>3, <1>4 DEF Next

(* The click invariant holds in every reachable state.                     *)
LEMMA ClickInvHolds == Spec => []ClickInv
<1>1. TypeOK /\ ClickInv /\ [Next]_vars => ClickInv'
  BY NextClickInv
<1>2. Init => ClickInv
  BY InitClickInv
<1>3. QED
  BY <1>1, <1>2, TypeCorrect, PTL DEF Spec

(* No crash, stall, retry, sweep or overlapping run loses track of a       *)
(* purchase: it stands under the stamp until the seller declares otherwise. *)
THEOREM EveryPurchaseAccounted == Spec => []PurchasesAccounted
<1>1. ClickInv => PurchasesAccounted
  BY DEF ClickInv
<1>2. QED
  BY <1>1, ClickInvHolds, PTL

(* A stamp alone already keeps a row from every rule that starts a         *)
(* purchase and from every stage that invites one.                         *)
LEMMA StampedIsOff ==
  ASSUME NEW r \in Row, r.stamp # NotClicked
  PROVE  /\ OrderStage(r) \notin {"to_purchase", "purchase_blocked", "awaiting_payment"}
         /\ StartDecision(r.af, r.stamp) # "proceed"
         /\ ~Resumable(r) /\ ~AwaitsPayment(r)
         /\ ~CanStartManually(r, TRUE, FALSE, FALSE)
<1>1. OrderStage(r) \in {"cancelled", "delivered", "test_run", "shipped", "buying",
                        "purchased", "purchase_unknown"}
  BY DEF OrderStage
<1>2. QED
  BY <1>1 DEF StartDecision, Resumable, AwaitsPayment, CanStartManually

(* A sale whose purchase was neither shown nor declared absent is never    *)
(* offered as something to buy and never started again.                    *)
THEOREM BoughtNeverOfferedAgain == Spec => []NeverOfferedAgain
<1>1. TypeOK /\ ClickInv => NeverOfferedAgain
  <2> SUFFICES ASSUME TypeOK, ClickInv, NEW o \in Orders,
                      NEW n \in bought[o] \ {HandPurchase}, n \notin cleared[o]
               PROVE  /\ OrderStage(row[o]) \notin {"to_purchase", "purchase_blocked", "awaiting_payment"}
                      /\ StartDecision(row[o].af, row[o].stamp) # "proceed"
                      /\ ~Resumable(row[o]) /\ ~AwaitsPayment(row[o])
                      /\ ~CanStartManually(row[o], TRUE, FALSE, FALSE)
    BY DEF NeverOfferedAgain
  <2>1. row[o] \in Row /\ row[o].stamp # NotClicked
    BY DEF TypeOK, ClickInv, PurchasesAccounted, HandPurchase, NotClicked
  <2>2. QED
    BY <2>1, StampedIsOff
<1>2. QED
  BY <1>1, TypeCorrect, ClickInvHolds, PTL

(***************************************************************************)
(* The refinement of PurchaseOnce.                                         *)
(***************************************************************************)
(* A quiet step changes nothing PurchaseOnce sees.                         *)
LEMMA QuietStutters == Quiet => UNCHANGED Once!once
BY DEF Quiet, Once!once

(* The claim is PurchaseOnce!Claim, or a stutter when it is lost.          *)
LEMMA ClaimImplements ==
  ASSUME TypeOK, ClickInv, NEW w \in Workers, ClaimClick(w)
  PROVE  [Once!Next]_(Once!once)
<1> PICK s \in Orders : s = JobSale(w)
  BY RunTypes
<1>1. s \in Orders /\ row \in [Orders -> Row] /\ claims \in [Orders -> Nat]
  BY RunTypes DEF TypeOK
<1>2. UNCHANGED <<bought, clicked, cleared>>
  BY DEF ClaimClick, WorkerKeeps
<1>3. CASE ~Claimable(JobRow(w))
  BY <1>2, <1>3 DEF ClaimClick, Once!once
<1>4. CASE Claimable(JobRow(w))
  <2>1. /\ row[s].stamp = 0
        /\ claims' = [claims EXCEPT ![s] = claims[s] + 1]
        /\ row' = [row EXCEPT ![s].stamp = claims[s] + 1]
    BY <1>4 DEF ClaimClick, Claimable, JobRow, NotClicked
  <2>2. [o \in Orders |-> row'[o].stamp] =
          [[o \in Orders |-> row[o].stamp] EXCEPT ![s] = claims[s] + 1]
    BY <1>1, <2>1 DEF Row
  <2>3. Once!Claim(s)
    BY <1>1, <1>2, <2>1, <2>2 DEF Once!Claim
  <2>4. Once!Next
    BY <1>1, <2>3 DEF Once!Next
  <2>5. QED
    BY <2>4
<1>5. QED
  BY <1>3, <1>4

(* The click is PurchaseOnce!Send of a claim not yet sent.                 *)
LEMMA ClickImplements ==
  ASSUME TypeOK, ClickInv, NEW w \in Workers, ClickPlaceOrder(w)
  PROVE  [Once!Next]_(Once!once)
<1> PICK s \in Orders : s = JobSale(w)
  BY RunTypes
<1> DEFINE n == run[w].claim
           now == [o \in Orders |-> bought[o] \ {HandPurchase}]
           after == [o \in Orders |-> bought'[o] \ {HandPurchase}]
<1>1. s \in Orders /\ claims \in [Orders -> Nat] /\ bought \in [Orders -> SUBSET Nat]
  BY RunTypes DEF TypeOK
<1>2. /\ UNCHANGED <<row, claims>>
      /\ clicked' = [clicked EXCEPT ![s] = @ \cup {n}]
      /\ bought' = [bought EXCEPT ![s] = @ \cup {n}] \/ bought' = bought
  BY DEF ClickPlaceOrder, WorkerKeeps
<1>3. n \in 1..claims[s] /\ n \notin clicked[s] /\ n # HandPurchase
  BY <1>1 DEF ClickPlaceOrder, ClickInv, PendingClicks, HandPurchase
<1>4. after = [now EXCEPT ![s] = @ \cup {n}] \/ after = now
  <2>1. CASE bought' = bought
    BY <2>1
  <2>2. CASE bought' = [bought EXCEPT ![s] = @ \cup {n}]
    <3>1. \A o \in Orders : bought'[o] \ {HandPurchase} =
            IF o = s THEN (bought[o] \ {HandPurchase}) \cup {n} ELSE bought[o] \ {HandPurchase}
      BY <1>1, <1>3, <2>2
    <3>2. QED
      BY <1>1, <3>1
  <2>3. QED
    BY <1>2, <2>1, <2>2
<1>5. Once!Send(s)
  BY <1>2, <1>3, <1>4 DEF Once!Send
<1>6. Once!Next
  BY <1>1, <1>5 DEF Once!Next
<1>7. QED
  BY <1>6

(* The declaration is PurchaseOnce!DeclareEmpty, or a stutter.             *)
LEMMA ClearImplements ==
  ASSUME TypeOK, NEW c \in Threads, ClearStamp(c)
  PROVE  [Once!Next]_(Once!once)
<1> PICK s \in Orders : s = CtlSale(c)
  BY CtlTypes
<1>1. s \in Orders /\ row \in [Orders -> Row]
  BY CtlTypes DEF TypeOK
<1>2. UNCHANGED <<bought, claims, clicked>>
  BY DEF ClearStamp, ThreadKeeps, amazonVars
<1>3. CASE UNCHANGED row
  BY <1>2, <1>3 DEF Once!once
<1>4. CASE row' # row
  <2>1. row[s].stamp # 0 /\ \A o \in Orders : row'[o].stamp = IF o = s THEN 0 ELSE row[o].stamp
    BY <1>1, <1>4 DEF ClearStamp, Row, NotClicked
  <2>2. [o \in Orders |-> row'[o].stamp] = [[o \in Orders |-> row[o].stamp] EXCEPT ![s] = 0]
    BY <1>1, <2>1
  <2>3. Once!DeclareEmpty(s)
    BY <1>1, <1>2, <2>1, <2>2 DEF Once!DeclareEmpty
  <2>4. Once!Next
    BY <1>1, <2>3 DEF Once!Next
  <2>5. QED
    BY <2>4
<1>5. QED
  BY <1>3, <1>4

(* The code's click protocol is PurchaseOnce, for any number of workers,   *)
(* threads, retries, stalls, scans and sales.                              *)
THEOREM PurchaseOnceImplemented == Spec => ImplementsPurchaseOnce
<1>1. Init => Once!Init
  BY DEF Init, Once!Init, NoRow, NotClicked
<1>2. TypeOK /\ ClickInv /\ [Next]_vars => [Once!Next]_(Once!once)
  <2>1. ASSUME TypeOK, ClickInv, NEW w \in Workers, WorkerStep(w) PROVE [Once!Next]_(Once!once)
    BY <2>1, WorkerQuiet, QuietStutters, ClaimImplements, ClickImplements
  <2>2. ASSUME TypeOK, ClickInv, NEW c \in Threads, ThreadStep(c) PROVE [Once!Next]_(Once!once)
    BY <2>2, ThreadQuiet, QuietStutters, ClearImplements
  <2>3. ASSUME TypeOK, ScanStep \/ World PROVE [Once!Next]_(Once!once)
    BY <2>3, ScanQuiet, WorldQuiet, QuietStutters
  <2>4. ASSUME UNCHANGED vars PROVE [Once!Next]_(Once!once)
    BY <2>4 DEF vars, Once!once
  <2>5. QED
    BY <2>1, <2>2, <2>3, <2>4 DEF Next
<1>3. QED
  BY <1>1, <1>2, TypeCorrect, ClickInvHolds, PTL DEF Spec, ImplementsPurchaseOnce, Once!Spec
=============================================================================
