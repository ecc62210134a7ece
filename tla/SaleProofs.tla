----------------------------- MODULE SaleProofs -----------------------------
(***************************************************************************)
(* Three more facts of automatic purchasing, for every value of the        *)
(* constants, on top of the click protocol: what a declaration "not        *)
(* purchased" rests on (the scan), which sales never get as far as a       *)
(* click, and when a worker leaves a placed row placed.                    *)
(***************************************************************************)
EXTENDS AutoFulfillProofs, FiniteSetTheorems

(***************************************************************************)
(* The first declaration of a sale follows a reading of the Amazon list    *)
(* that followed the claim of the click.  ScanInv orders the three marks   *)
(* (what the watermark covers, what the list was read after, what was      *)
(* claimed) and carries the seller's check to the statement that acts on   *)
(* it.                                                                     *)
(***************************************************************************)
(* The watermark never runs ahead of a reading of the list, and a scan on  *)
(* its way covers what was claimed when it began.                          *)
Watermarks ==
  \A o \in Orders :
    /\ scanned[o] <= listed[o] /\ listed[o] <= claims[o]
    /\ scan.pc \in {"scrape", "write"} =>
         scanned[o] <= scan.covers[o] /\ scan.covers[o] <= claims[o]
    /\ scan.pc = "write" => scan.covers[o] <= listed[o]

(* A request that was let through still finds the click it was let through *)
(* for, covered by the watermark, as long as nothing was declared before.  *)
DeclarationsCovered ==
  \A c \in Threads : In(c, "confirm") /\ cleared[CtlSale(c)] = {} =>
    row[CtlSale(c)].stamp # NotClicked /\ row[CtlSale(c)].stamp <= scanned[CtlSale(c)]

ScanInv == Watermarks /\ DeclarationsCovered

(***************************************************************************)
(* The marks.                                                              *)
(***************************************************************************)
(* A step that leaves the scan alone preserves the marks.                  *)
LEMMA ScanAloneKeepsMarks ==
  ASSUME TypeOK, Watermarks, UNCHANGED scanVars,
         \A o \in Orders : claims'[o] \in Nat /\ claims[o] <= claims'[o]
  PROVE  Watermarks'
<1>1. /\ scanned \in [Orders -> Nat] /\ listed \in [Orders -> Nat] /\ claims \in [Orders -> Nat]
      /\ scan.covers \in [Orders -> Nat]
  BY DEF TypeOK, Scan
<1>2. QED
  BY <1>1 DEF Watermarks, scanVars

(* The scan moves the watermark forward only, to its own start, and only   *)
(* after a reading of the list.                                            *)
LEMMA ScanKeepsMarks ==
  ASSUME TypeOK, Watermarks, ScanStep
  PROVE  Watermarks' /\ \A o \in Orders : scanned[o] <= scanned'[o]
<1>1. /\ scanned \in [Orders -> Nat] /\ listed \in [Orders -> Nat] /\ claims \in [Orders -> Nat]
      /\ scan \in Scan /\ scan.covers \in [Orders -> Nat]
  BY DEF TypeOK, Scan
<1>2. UNCHANGED claims
  BY DEF ScanStep, SelectCandidates, StartScan, ScrapeAndPlan, WriteSuspect, WriteLink,
         AdvanceSyncedAt, AbortScan, ScanKeeps, amazonVars
<1>3. ASSUME UNCHANGED <<scanned, listed>>, scan'.pc \notin {"scrape", "write"}
      PROVE  Watermarks' /\ \A o \in Orders : scanned[o] <= scanned'[o]
  BY <1>1, <1>2, <1>3 DEF Watermarks
<1>4. CASE SelectCandidates
  BY <1>3, <1>4 DEF SelectCandidates, NoScan
<1>5. CASE AbortScan
  BY <1>3, <1>5 DEF AbortScan, NoScan
<1>6. CASE StartScan
  BY <1>1, <1>2, <1>6 DEF StartScan, Watermarks, Scan
<1>7. CASE ScrapeAndPlan
  <2>1. /\ scan.pc = "scrape" /\ scan'.pc = "write" /\ scan'.covers = scan.covers
        /\ listed' = claims /\ scanned' = scanned
    BY <1>1, <1>7 DEF ScrapeAndPlan, ScanAt, Scan
  <2>2. QED
    BY <1>1, <1>2, <2>1 DEF Watermarks
<1>8. ASSUME NEW o \in Orders, WriteSuspect(o) \/ WriteLink(o)
      PROVE  Watermarks' /\ \A p \in Orders : scanned[p] <= scanned'[p]
  <2>1. scan'.pc = scan.pc /\ scan'.covers = scan.covers /\ UNCHANGED <<scanned, listed>>
    BY <1>1, <1>8 DEF WriteSuspect, WriteLink, Scan
  <2>2. QED
    BY <1>1, <1>2, <2>1 DEF Watermarks
<1>9. CASE AdvanceSyncedAt
  <2>1. /\ scan.pc = "write" /\ scan'.pc = "idle"
        /\ scanned' = scan.covers /\ listed' = listed
    BY <1>9 DEF AdvanceSyncedAt, ScanAt, NoScan
  <2>2. QED
    BY <1>1, <1>2, <2>1 DEF Watermarks
<1>10. QED
  BY <1>4, <1>5, <1>6, <1>7, <1>8, <1>9 DEF ScanStep

(***************************************************************************)
(* The declarations.                                                       *)
(***************************************************************************)
(* What a step must respect for a request that was let through to stay     *)
(* right: stamps fall only with a declaration, and the watermark grows.    *)
LEMMA DeclarationsKept ==
  ASSUME TypeOK, TypeOK', DeclarationsCovered,
         \A o \in Orders : /\ \/ row'[o].stamp = row[o].stamp
                              \/ row[o].stamp = NotClicked
                              \/ cleared'[o] # {}
                           /\ scanned[o] <= scanned'[o]
                           /\ cleared[o] \subseteq cleared'[o],
         \A c \in Threads : ctl'[c].pc = "confirm" =>
           \/ ctl[c].pc = "confirm" /\ ctl'[c].o = ctl[c].o
           \/ /\ row'[ctl'[c].o].stamp # NotClicked
              /\ row'[ctl'[c].o].stamp <= scanned'[ctl'[c].o]
  PROVE  DeclarationsCovered'
<1> SUFFICES ASSUME NEW c \in Threads, ctl'[c].pc = "confirm", cleared'[ctl'[c].o] = {}
             PROVE  /\ row'[ctl'[c].o].stamp # NotClicked
                    /\ row'[ctl'[c].o].stamp <= scanned'[ctl'[c].o]
  BY DEF DeclarationsCovered, In, CtlSale
<1>1. CASE /\ row'[ctl'[c].o].stamp # NotClicked
           /\ row'[ctl'[c].o].stamp <= scanned'[ctl'[c].o]
  BY <1>1
<1>2. CASE ctl[c].pc = "confirm" /\ ctl'[c].o = ctl[c].o
  <2> PICK s \in Orders : s = ctl[c].o
    BY CtlTypes DEF CtlSale
  <2>1. row[s].stamp # NotClicked /\ row[s].stamp <= scanned[s]
    BY <1>2 DEF DeclarationsCovered, In, CtlSale
  <2>2. row'[s].stamp = row[s].stamp /\ scanned[s] <= scanned'[s]
    BY <1>2, <2>1
  <2>3. row[s].stamp \in Nat /\ scanned[s] \in Nat /\ scanned'[s] \in Nat
    BY DEF TypeOK, Row
  <2>4. QED
    BY <1>2, <2>1, <2>2, <2>3
<1>3. QED
  BY <1>1, <1>2

(* A worker stamps only rows that have no stamp.                           *)
LEMMA WorkerKeepsScanInv ==
  ASSUME TypeOK, TypeOK', ScanInv, NEW w \in Workers, WorkerStep(w)
  PROVE  /\ ScanInv'
         /\ \A o \in Orders : row[o].stamp # NotClicked => row'[o].stamp = row[o].stamp
<1>1. UNCHANGED <<scanVars, ctl, cleared>>
  BY DEF WorkerStep, RunStep, Start, ReadOrder, SettleStamped, CheckEntitled, LookAtSale,
         RecheckSale, SetRunning, SetSkipped, Checkout, SimulatePlacement, ClaimClick, LostClaim,
         ClickPlaceOrder, ParseConfirmation, OnPlaced, SetBlocked, ReleaseSlot, Throw,
         SettleEscaped, SettleFails, GiveUp, Stall, Die, WorkerKeeps
<1>2. \A o \in Orders : /\ row[o].stamp # NotClicked => row'[o].stamp = row[o].stamp
                        /\ claims[o] \in Nat /\ claims'[o] \in Nat /\ claims[o] <= claims'[o]
  <2>1. \A o \in Orders : claims[o] \in Nat /\ claims'[o] \in Nat
    BY DEF TypeOK
  <2>2. CASE ~ClaimClick(w) /\ ~ClickPlaceOrder(w)
    BY <2>1, <2>2, WorkerQuiet DEF Quiet
  <2>3. CASE ClickPlaceOrder(w)
    BY <2>1, <2>3 DEF ClickPlaceOrder
  <2>4. CASE ClaimClick(w)
    <3> PICK s \in Orders : s = JobSale(w)
      BY RunTypes
    <3>1. \/ UNCHANGED <<row, claims>>
          \/ /\ row[s].stamp = NotClicked
             /\ claims' = [claims EXCEPT ![s] = claims[s] + 1]
             /\ row' = [row EXCEPT ![s].stamp = claims[s] + 1]
      BY <2>4 DEF ClaimClick, Claimable, JobRow
    <3>2. row \in [Orders -> Row] /\ claims \in [Orders -> Nat]
      BY DEF TypeOK
    <3>3. \A o \in Orders : row[o].stamp # NotClicked => row'[o].stamp = row[o].stamp
      BY <3>1, <3>2
    <3>4. \A o \in Orders : claims[o] <= claims'[o]
      BY <3>1, <3>2
    <3>5. QED
      BY <2>1, <3>3, <3>4
  <2>5. QED
    BY <2>2, <2>3, <2>4
<1>3. Watermarks'
  BY <1>1, <1>2, ScanAloneKeepsMarks DEF ScanInv
<1>4. \A o \in Orders : scanned[o] <= scanned'[o] /\ cleared[o] \subseteq cleared'[o]
  BY <1>1 DEF scanVars, TypeOK
<1>5. DeclarationsCovered'
  BY <1>1, <1>2, <1>4, DeclarationsKept DEF ScanInv
<1>6. QED
  BY <1>2, <1>3, <1>5 DEF ScanInv

(* Moving a thread anywhere but to the declaration lets no request through. *)
LEMMA NoNewDeclaration ==
  ASSUME TypeOK, NEW c \in Threads
  PROVE  LET kept == \A d \in Threads : ctl'[d].pc = "confirm" => ctl'[d] = ctl[d]
         IN  /\ \A pc : pc # "confirm" /\ Proceed(c, pc) => kept
             /\ \A o, pc, src : pc # "confirm" /\ Begin(c, o, pc, src) => kept
             /\ \A r : r.pc # "confirm" /\ ctl' = [ctl EXCEPT ![c] = r] => kept
             /\ Return(c) => kept
             /\ UNCHANGED ctl => kept
<1>1. ctl \in [Threads -> Ctl]
  BY DEF TypeOK
<1>2. QED
  BY <1>1 DEF Proceed, Begin, Return, NoCtl, Ctl

(* A request is let through only for a click the watermark covers.         *)
LEMMA ThreadKeepsScanInv ==
  ASSUME TypeOK, TypeOK', ScanInv, NEW c \in Threads, ThreadStep(c), ~ClearStamp(c)
  PROVE  ScanInv'
<1>1. UNCHANGED <<scanVars, claims>> /\ Quiet
  BY ZenonT(40), ThreadQuiet DEF ThreadStep, ThreadKeeps, IngestSale, ResyncSale, ResumeSuspended, RecheckUnpaid,
     SettleStale, StartManually, AskNotPurchased, Resolve, Reserve, Enqueue, Fail, Recover,
     ReleaseHold, Rearm, ReadPayment, ReleasePaid, Relabel, Abandon, amazonVars
<1>2. ctl \in [Threads -> Ctl]
  BY DEF TypeOK
<1>3. \A o \in Orders : /\ row'[o].stamp = row[o].stamp
                        /\ scanned'[o] = scanned[o] /\ cleared'[o] = cleared[o]
                        /\ scanned[o] \in Nat /\ claims[o] \in Nat
  BY <1>1 DEF Quiet, scanVars, TypeOK
<1>4. \A d \in Threads : ctl'[d].pc = "confirm" =>
        \/ ctl[d].pc = "confirm" /\ ctl'[d].o = ctl[d].o
        \/ /\ row'[ctl'[d].o].stamp # NotClicked
           /\ row'[ctl'[d].o].stamp <= scanned'[ctl'[d].o]
  <2>1. ASSUME NEW o \in Orders, AskNotPurchased(c, o)
        PROVE  \A d \in Threads : ctl'[d].pc = "confirm" =>
                 \/ ctl[d].pc = "confirm" /\ ctl'[d].o = ctl[d].o
                 \/ /\ row'[ctl'[d].o].stamp # NotClicked
                    /\ row'[ctl'[d].o].stamp <= scanned'[ctl'[d].o]
    <3>1. row[o].stamp # NotClicked /\ row[o].stamp <= scanned[o]
      <4>1. row[o].stamp \in Nat /\ scanned[o] \in Nat
        BY DEF TypeOK, Row
      <4>2. row[o].stamp # NotClicked /\ scanned[o] >= row[o].stamp
        BY <2>1 DEF AskNotPurchased, MayConfirmNotPurchased, PurchaseUnknown
      <4>3. QED
        BY <4>1, <4>2
    <3>2. \A d \in Threads : IF d = c THEN ctl'[d].o = o ELSE ctl'[d] = ctl[d]
      BY <1>2, <2>1 DEF AskNotPurchased, Begin
    <3>3. QED
      BY <1>3, <3>1, <3>2
  <2>2. ASSUME ~\E o \in Orders : AskNotPurchased(c, o)
        PROVE  \A d \in Threads : ctl'[d].pc = "confirm" => ctl'[d] = ctl[d]
    <3>1. ASSUME NEW o \in Orders, IngestSale(c, o) \/ StartManually(c, o)
          PROVE  \A d \in Threads : ctl'[d].pc = "confirm" => ctl'[d] = ctl[d]
      BY <3>1, NoNewDeclaration DEF IngestSale, StartManually
    <3>2. ASSUME NEW o \in Orders, \/ ResyncSale(c, o) \/ ResumeSuspended(c, o)
                                   \/ RecheckUnpaid(c, o) \/ SettleStale(c, o)
          PROVE  \A d \in Threads : ctl'[d].pc = "confirm" => ctl'[d] = ctl[d]
      BY <3>2, NoNewDeclaration DEF ResyncSale, ResumeSuspended, RecheckUnpaid, SettleStale
    <3>3. CASE Resolve(c) \/ Reserve(c) \/ Enqueue(c) \/ Recover(c) \/ ReleaseHold(c)
      BY <3>3, NoNewDeclaration DEF Resolve, Reserve, Enqueue, Recover, ReleaseHold
    <3>4. CASE Fail(c) \/ Rearm(c) \/ Relabel(c) \/ Abandon(c)
      BY <3>4, NoNewDeclaration DEF Fail, Rearm, Relabel, Abandon
    <3>5. CASE ReadPayment(c)
      <4>1. CASE Return(c)
        BY <4>1, NoNewDeclaration
      <4>2. CASE ctl' = [ctl EXCEPT ![c].pc = "release_paid", ![c].seen = ebay[CtlSale(c)].status]
        BY <1>2, <4>2 DEF Ctl
      <4>3. QED
        BY <3>5, <4>1, <4>2 DEF ReadPayment
    <3>6. CASE ReleasePaid(c)
      <4> PICK pc \in {"rearm", "relabel"} : Proceed(c, pc)
        BY <3>6 DEF ReleasePaid
      <4> QED BY NoNewDeclaration
    <3>7. QED
      BY <2>2, <3>1, <3>2, <3>3, <3>4, <3>5, <3>6 DEF ThreadStep
  <2>3. QED
    BY <2>1, <2>2
<1>5. Watermarks'
  <2>1. \A o \in Orders : claims'[o] \in Nat /\ claims[o] <= claims'[o]
    BY <1>1, <1>3
  <2>2. QED
    BY <1>1, <2>1, ScanAloneKeepsMarks DEF ScanInv
<1>6. DeclarationsCovered'
  <2>1. \A o \in Orders : scanned[o] <= scanned'[o] /\ cleared[o] \subseteq cleared'[o]
    BY <1>3
  <2>2. QED
    BY <1>3, <1>4, <2>1, DeclarationsKept DEF ScanInv
<1>7. QED
  BY <1>5, <1>6 DEF ScanInv

(* The declaration, and the reading of the list it rests on.               *)
LEMMA ClearKeepsScanInv ==
  ASSUME TypeOK, TypeOK', ScanInv, NEW c \in Threads, ClearStamp(c)
  PROVE  /\ ScanInv'
         /\ \A o \in Orders :
              row[o].stamp # NotClicked /\ row'[o].stamp = NotClicked /\ cleared[o] = {} =>
                listed[o] >= row[o].stamp
<1> PICK s \in Orders : s = CtlSale(c)
  BY CtlTypes
<1>1. /\ row \in [Orders -> Row] /\ cleared \in [Orders -> SUBSET Nat]
      /\ ctl \in [Threads -> Ctl] /\ claims \in [Orders -> Nat]
      /\ scanned \in [Orders -> Nat] /\ listed \in [Orders -> Nat]
  BY DEF TypeOK
<1>2. UNCHANGED <<scanVars, claims>>
  BY DEF ClearStamp, ThreadKeeps, amazonVars
<1>3. \/ UNCHANGED <<row, cleared>>
      \/ /\ \A o \in Orders : row'[o].stamp = IF o = s THEN NotClicked ELSE row[o].stamp
         /\ cleared' = [cleared EXCEPT ![s] = @ \cup {row[s].stamp}]
  <2>1. \/ UNCHANGED <<row, cleared>>
        \/ /\ row' = [row EXCEPT ![s].stamp = NotClicked, ![s].suspect = NoAmazonOrder,
                                 ![s].af = "failed", ![s].reason = NoReason]
           /\ cleared' = [cleared EXCEPT ![s] = @ \cup {row[s].stamp}]
    BY DEF ClearStamp
  <2>2. QED
    BY <1>1, <2>1 DEF Row
<1>4. \A o \in Orders : /\ row'[o].stamp = row[o].stamp \/ cleared'[o] # {}
                        /\ cleared[o] \subseteq cleared'[o]
                        /\ scanned[o] <= scanned'[o]
  <2>1. \A o \in Orders : scanned[o] <= scanned'[o]
    BY <1>1, <1>2 DEF scanVars
  <2>2. CASE UNCHANGED <<row, cleared>>
    BY <2>1, <2>2
  <2>3. CASE /\ \A o \in Orders : row'[o].stamp = IF o = s THEN NotClicked ELSE row[o].stamp
             /\ cleared' = [cleared EXCEPT ![s] = @ \cup {row[s].stamp}]
    <3>1. \A o \in Orders : cleared[o] \subseteq cleared'[o]
      BY <1>1, <2>3
    <3>2. row[s].stamp \in cleared'[s]
      BY <1>1, <2>3
    <3>3. QED
      BY <2>1, <2>3, <3>1, <3>2
  <2>4. QED
    BY <1>3, <2>2, <2>3
<1>5. \A d \in Threads : ctl'[d].pc = "confirm" => ctl[d].pc = "confirm" /\ ctl'[d].o = ctl[d].o
  BY <1>1 DEF ClearStamp, Return, NoCtl
<1>6. Watermarks'
  BY <1>1, <1>2, ScanAloneKeepsMarks DEF ScanInv
<1>7. DeclarationsCovered'
  BY <1>4, <1>5, DeclarationsKept DEF ScanInv
<1>8. ASSUME NEW o \in Orders, row[o].stamp # NotClicked, row'[o].stamp = NotClicked, cleared[o] = {}
      PROVE  listed[o] >= row[o].stamp
  <2>1. o = s
    BY <1>3, <1>8
  <2>2. row[o].stamp <= scanned[o]
    BY <1>8, <2>1 DEF ScanInv, DeclarationsCovered, ClearStamp
  <2>3. scanned[o] <= listed[o]
    BY DEF ScanInv, Watermarks
  <2>4. row[o].stamp \in Nat /\ scanned[o] \in Nat /\ listed[o] \in Nat
    BY <1>1 DEF Row
  <2>5. QED
    BY <2>2, <2>3, <2>4
<1>9. QED
  BY <1>6, <1>7, <1>8 DEF ScanInv

(***************************************************************************)
(* The invariant and the theorem.                                          *)
(***************************************************************************)
(* Nothing is claimed, read or asked at first.                             *)
LEMMA InitScanInv == Init => ScanInv
BY DEF Init, ScanInv, Watermarks, DeclarationsCovered, In, NoCtl, NoScan

(* What the property says of one step.                                     *)
DeclarationScanned ==
  \A o \in Orders :
    row[o].stamp # NotClicked /\ row'[o].stamp = NotClicked /\ cleared[o] = {} =>
      listed[o] >= row[o].stamp

(* Every step preserves the invariant and is as the property says.         *)
LEMMA NextScanInv == TypeOK /\ TypeOK' /\ ScanInv /\ [Next]_vars => ScanInv' /\ DeclarationScanned
<1> SUFFICES ASSUME TypeOK, TypeOK', ScanInv, [Next]_vars PROVE ScanInv' /\ DeclarationScanned
  OBVIOUS
<1>1. ASSUME NEW w \in Workers, WorkerStep(w) PROVE ScanInv' /\ DeclarationScanned
  BY <1>1, WorkerKeepsScanInv DEF DeclarationScanned
<1>2. ASSUME NEW c \in Threads, ThreadStep(c) PROVE ScanInv' /\ DeclarationScanned
  <2>1. CASE ClearStamp(c)
    BY <2>1, ClearKeepsScanInv DEF DeclarationScanned
  <2>2. CASE ~ClearStamp(c)
    BY <1>2, <2>2, ThreadKeepsScanInv, ThreadQuiet DEF DeclarationScanned, Quiet
  <2>3. QED
    BY <2>1, <2>2
<1>3. CASE ScanStep
  <2>1. Quiet /\ Watermarks' /\ UNCHANGED ctl /\ \A o \in Orders : scanned[o] <= scanned'[o]
    BY <1>3, ScanQuiet, ScanKeepsMarks DEF ScanInv, ScanStep, ScanKeeps, SelectCandidates, StartScan,
       ScrapeAndPlan, WriteSuspect, WriteLink, AdvanceSyncedAt, AbortScan
  <2>2. DeclarationsCovered'
    BY <2>1, DeclarationsKept DEF ScanInv, Quiet
  <2>3. QED
    BY <2>1, <2>2 DEF ScanInv, DeclarationScanned, Quiet
<1>4. CASE World \/ UNCHANGED vars
  <2>1. Quiet /\ UNCHANGED <<ctl, claims>> /\ UNCHANGED scanVars
    BY <1>4, WorldQuiet DEF Quiet, vars, scanVars, World, WorldKeeps, SaleMoves, BuyerAsksCancel,
       SubscriptionTurns, BuyByHand, LinkByHand
  <2>2. \A o \in Orders : /\ scanned[o] <= scanned'[o]
                          /\ claims'[o] \in Nat /\ claims[o] <= claims'[o]
    BY <2>1 DEF TypeOK, scanVars
  <2>3. Watermarks'
    BY <2>1, <2>2, ScanAloneKeepsMarks DEF ScanInv
  <2>4. DeclarationsCovered'
    BY <2>1, <2>2, DeclarationsKept DEF ScanInv, Quiet
  <2>5. QED
    BY <2>1, <2>3, <2>4 DEF ScanInv, DeclarationScanned, Quiet
<1>5. QED
  BY <1>1, <1>2, <1>3, <1>4 DEF Next

(* The first declaration of a sale follows a reading of the Amazon list    *)
(* that followed the claim of the click it settles.                        *)
THEOREM FirstDeclarationIsScanned == Spec => FirstDeclarationScanned
<1>1. Init => ScanInv
  BY InitScanInv
<1>2. TypeOK /\ TypeOK' /\ ScanInv /\ [Next]_vars => ScanInv'
  BY NextScanInv
<1>3. TypeOK /\ TypeOK' /\ ScanInv /\ [Next]_vars => [DeclarationScanned]_vars
  BY NextScanInv
<1>4. Spec => [][DeclarationScanned]_vars
  BY <1>1, <1>2, <1>3, TypeCorrect, PTL DEF Spec
<1>5. QED
  BY <1>4 DEF FirstDeclarationScanned, DeclarationScanned

(***************************************************************************)
(* Sales that must not be bought.  A sale of several items is held back    *)
(* where the live sale is judged, one that is not of our listings never    *)
(* gets as far as a job.                                                   *)
(***************************************************************************)
(* A sale nothing is about: its row stays as it was taken in, and no job,  *)
(* run, sync step or request names it.                                     *)
LeftAlone(o) ==
  /\ row[o].af = "skipped" /\ row[o].reason = NoReason /\ row[o].stamp = NotClicked
  /\ \A j \in jobs : j.o # o
  /\ \A w \in Workers : ~At(w, "idle") => JobSale(w) # o
  /\ \A c \in Threads : ~In(c, "idle") => CtlSale(c) # o

UntrackedLeftAlone == \A o \in Orders : ebay[o].kind = "untracked" => LeftAlone(o)

PastRecheck == {"running", "checkout", "simulate", "claim", "click", "confirm", "placed"}

MultiItemStopped ==
  \A w \in Workers : ebay[JobSale(w)].kind = "multi_item" => run[w].pc \notin PastRecheck

UnfitInv == UntrackedLeftAlone /\ MultiItemStopped /\ UnfitSaleNeverClicked

(* What kind of sale it is never changes.                                  *)
KindKept == \A o \in Orders : ebay'[o].kind = ebay[o].kind

(* No step of any actor changes it.                                        *)
LEMMA NextKeepsKind == TypeOK /\ [Next]_vars => KindKept
<1> SUFFICES ASSUME TypeOK, [Next]_vars PROVE KindKept
  OBVIOUS
<1>1. ebay \in [Orders -> [status : OrderStatus, cancel : BOOLEAN, kind : SaleKind]]
  BY DEF TypeOK
<1>2. CASE \E w \in Workers : WorkerStep(w)
  <2>1. ASSUME NEW w \in Workers, WorkerStep(w) PROVE UNCHANGED ebay
    BY <2>1 DEF WorkerStep, RunStep, WorkerKeeps, worldVars, Start, ReadOrder, SettleStamped, CheckEntitled,
       LookAtSale, RecheckSale, SetRunning, SetSkipped, Checkout, SimulatePlacement, ClaimClick,
       LostClaim, ClickPlaceOrder, ParseConfirmation, OnPlaced, SetBlocked, ReleaseSlot, Throw,
       SettleEscaped, SettleFails, GiveUp, Stall, Die
  <2>2. QED
    BY <1>2, <2>1 DEF KindKept
<1>3. CASE \E c \in Threads : ThreadStep(c)
  <2>1. ASSUME NEW c \in Threads, ThreadStep(c) PROVE UNCHANGED ebay
    BY <2>1 DEF ThreadStep, ThreadKeeps, worldVars, IngestSale, ResyncSale, ResumeSuspended,
       RecheckUnpaid, SettleStale, StartManually, AskNotPurchased, Resolve, Reserve, Enqueue, Fail,
       Recover, ReleaseHold, Rearm, ReadPayment, ReleasePaid, Relabel, ClearStamp, Abandon
  <2>2. QED
    BY <1>3, <2>1 DEF KindKept
<1>4. CASE ScanStep
  BY <1>4 DEF ScanStep, ScanKeeps, worldVars, SelectCandidates, StartScan, ScrapeAndPlan,
     WriteSuspect, WriteLink, AdvanceSyncedAt, AbortScan, KindKept
<1>5. CASE World \/ UNCHANGED vars
  BY <1>1, <1>5 DEF World, WorldKeeps, worldVars, vars, SaleMoves, BuyerAsksCancel, SubscriptionTurns,
     BuyByHand, LinkByHand, KindKept
<1>6. QED
  BY <1>2, <1>3, <1>4, <1>5 DEF Next

(* Where a worker's step leaves its own run: gone, or on the same job; the *)
(* others stay as they are.                                                *)
StaysOnJob(w) ==
  /\ \A v \in Workers : v # w => run'[v] = run[v]
  /\ run'[w].pc = "idle" \/ run'[w].job = run[w].job

(* Every step but the start of a job stays on it.                          *)
LEMMA StepStaysOnJob ==
  ASSUME TypeOK, NEW w \in Workers, WorkerStep(w), ~Start(w)
  PROVE  StaysOnJob(w) /\ run[w].pc # "idle"
<1>1. run \in [Workers -> Run] /\ run[w] \in Run
  BY DEF TypeOK
<1>2. \A pc : Goto(w, pc) => StaysOnJob(w)
  BY <1>1 DEF Goto, StaysOnJob, Run
<1>3. \A pc, reason : GotoBlock(w, pc, reason) => StaysOnJob(w)
  BY <1>1 DEF GotoBlock, StaysOnJob, Run
<1>4. Finish(w) => StaysOnJob(w)
  BY <1>1 DEF Finish, StaysOnJob, NoRun
<1>5. CASE LookAtSale(w)
  BY <1>1, <1>5 DEF LookAtSale, StaysOnJob, Run, At
<1>6. CASE RecheckSale(w)
  BY <1>1, <1>6 DEF RecheckSale, StaysOnJob, Run, At
<1>7. CASE ClaimClick(w)
  BY <1>1, <1>2, <1>7 DEF ClaimClick, StaysOnJob, Run, At
<1>8. CASE ParseConfirmation(w)
  BY <1>1, <1>3, <1>8 DEF ParseConfirmation, StaysOnJob, Run, At
<1>9. CASE Stall(w)
  BY <1>1, <1>9 DEF Stall, StaysOnJob, Run
<1>10. QED
  BY <1>2, <1>3, <1>4, <1>5, <1>6, <1>7, <1>8, <1>9 DEF WorkerStep, RunStep, At, ReadOrder, SettleStamped,
     CheckEntitled, SetRunning, SetSkipped, Checkout, SimulatePlacement, LostClaim, ClickPlaceOrder,
     OnPlaced, SetBlocked, ReleaseSlot, Throw, MayThrow, SettleEscaped, SettleFails, GiveUp, Die

(* A worker writes the row of its own sale and hands back its own job.     *)
LEMMA StepIsAboutJob ==
  ASSUME TypeOK, NEW w \in Workers, WorkerStep(w), ~Start(w)
  PROVE  /\ \A o \in Orders : o # JobSale(w) => row'[o] = row[o] /\ clicked'[o] = clicked[o]
         /\ \A j \in jobs' : j \in jobs \/ j.o = JobSale(w)
<1> USE DEF WorkerKeeps, OnlyRun, amazonVars
<1>1. row \in [Orders -> Row] /\ clicked \in [Orders -> SUBSET Nat]
  BY DEF TypeOK
<1>2. run[w].job \in Job /\ [run[w].job EXCEPT !.attempt = @ + 1].o = JobSale(w)
  BY RunTypes DEF Run, Job, JobSale
<1>3. \A af, reason : SetStatus(JobSale(w), af, reason) => \A o \in Orders : o # JobSale(w) => row'[o] = row[o]
  BY <1>1 DEF SetStatus
<1>4. CASE GiveUp(w)
  BY <1>1, <1>2, <1>4 DEF GiveUp, HandBack
<1>5. CASE Stall(w) \/ Die(w)
  BY <1>5 DEF Stall, Die, JobSale
<1>6. CASE SetRunning(w) \/ SetSkipped(w) \/ SetBlocked(w)
  BY <1>3, <1>6 DEF SetRunning, SetSkipped, SetBlocked
<1>7. CASE RecheckSale(w) \/ SimulatePlacement(w) \/ ClaimClick(w) \/ ClickPlaceOrder(w) \/ OnPlaced(w)
  BY <1>1, <1>3, <1>7 DEF RecheckSale, SimulatePlacement, ClaimClick, ClickPlaceOrder, OnPlaced
<1>8. QED
  BY <1>4, <1>5, <1>6, <1>7 DEF WorkerStep, RunStep, ReadOrder, SettleStamped, CheckEntitled, LookAtSale,
     Checkout, LostClaim, ParseConfirmation, ReleaseSlot, Throw, SettleEscaped, SettleFails

(* A worker leaves alone what nothing is about.                            *)
LEMMA WorkerLeavesAlone ==
  ASSUME TypeOK, NEW o \in Orders, LeftAlone(o), NEW w \in Workers, WorkerStep(w)
  PROVE  LeftAlone(o)'
<1> USE DEF LeftAlone, At, In, JobSale, CtlSale
<1>1. CASE Start(w)
  <2>1. run \in [Workers -> Run]
    BY DEF TypeOK
  <2>2. PICK j \in jobs : run' = [run EXCEPT ![w] = [NoRun EXCEPT !.pc = "read", !.job = j, !.owns = TRUE]]
    BY <1>1 DEF Start
  <2>3. \A v \in Workers : run'[v].pc # "idle" => run'[v].job.o # o
    BY <2>1, <2>2 DEF NoRun
  <2>4. QED
    BY <1>1, <2>3 DEF Start, WorkerKeeps
<1>2. CASE ~Start(w)
  <2>1. UNCHANGED ctl
    BY <1>2 DEF WorkerStep, RunStep, WorkerKeeps, ReadOrder, SettleStamped, CheckEntitled,
       LookAtSale, RecheckSale, SetRunning, SetSkipped, Checkout, SimulatePlacement, ClaimClick,
       LostClaim, ClickPlaceOrder, ParseConfirmation, OnPlaced, SetBlocked, ReleaseSlot, Throw,
       SettleEscaped, SettleFails, GiveUp, Stall, Die
  <2>2. JobSale(w) # o
    BY <1>2, StepStaysOnJob
  <2>3. \A v \in Workers : run'[v].pc # "idle" => run'[v].job.o # o
    BY <1>2, <2>2, StepStaysOnJob DEF StaysOnJob
  <2>4. QED
    BY <1>2, <2>1, <2>2, <2>3, StepIsAboutJob
<1>3. QED
  BY <1>1, <1>2

(* A thread that is free takes up no sale that nothing is about, and one   *)
(* that is busy is about another.                                          *)
LEMMA ThreadLeavesAlone ==
  ASSUME TypeOK, NEW o \in Orders, ebay[o].kind = "untracked", LeftAlone(o),
         NEW c \in Threads, ThreadStep(c)
  PROVE  LeftAlone(o)'
<1> USE DEF LeftAlone, At, JobSale, CtlSale, ThreadKeeps, OnlyCtl
<1>1. row \in [Orders -> Row] /\ row[o] \in Row /\ ctl \in [Threads -> Ctl]
  BY DEF TypeOK
<1>2. \A p, pc, src : p # o /\ Begin(c, p, pc, src) => \A b \in Threads : ctl'[b].pc # "idle" => ctl'[b].o # o
  BY <1>1 DEF Begin, In
<1>3. ASSUME NEW p \in Orders, IngestSale(c, p) PROVE LeftAlone(o)'
  <2>1. CASE p = o
    BY <1>1, <1>3, <2>1 DEF IngestSale, Row, In
  <2>2. CASE p # o
    BY <1>1, <1>3, <2>2 DEF IngestSale, In
  <2>3. QED
    BY <2>1, <2>2
<1>4. ASSUME NEW p \in Orders, ResyncSale(c, p) PROVE LeftAlone(o)'
  BY <1>1, <1>4 DEF ResyncSale, Row, In
<1>5. ASSUME NEW p \in Orders, StartManually(c, p) PROVE LeftAlone(o)'
  <2>1. p # o
    BY <1>5 DEF StartManually, CanStartManually
  <2>2. QED
    BY <1>1, <1>5, <2>1 DEF StartManually, In
<1>6. ASSUME NEW p \in Orders, SettleStale(c, p) PROVE LeftAlone(o)'
  <2>1. p # o
    BY <1>6 DEF SettleStale
  <2>2. row'[o] = row[o]
    BY <1>1, <1>6, <2>1 DEF SettleStale, SetAutoFulfillStatus
  <2>3. QED
    BY <1>2, <1>6, <2>1, <2>2 DEF SettleStale, In
<1>7. ASSUME NEW p \in Orders, ResumeSuspended(c, p) \/ RecheckUnpaid(c, p) \/ AskNotPurchased(c, p)
      PROVE  LeftAlone(o)'
  <2>1. p # o
    BY <1>7 DEF ResumeSuspended, RecheckUnpaid, AskNotPurchased, Resumable, AwaitsPayment,
       MayConfirmNotPurchased, PurchaseUnknown, NoReason
  <2>2. QED
    BY <1>2, <1>7, <2>1 DEF ResumeSuspended, RecheckUnpaid, AskNotPurchased, In
<1>8. ASSUME ctl[c].pc # "idle"
      PROVE  /\ CtlSale(c) # o
             /\ \A pc : Proceed(c, pc) => \A b \in Threads : ctl'[b].pc # "idle" => ctl'[b].o # o
             /\ Return(c) => \A b \in Threads : ctl'[b].pc # "idle" => ctl'[b].o # o
             /\ \A af, reason : SetAutoFulfillStatus(CtlSale(c), af, reason) => row'[o] = row[o]
  BY <1>1, <1>8 DEF Proceed, Return, NoCtl, Ctl, SetAutoFulfillStatus, In
<1>9. CASE Resolve(c) \/ Reserve(c) \/ Recover(c) \/ Rearm(c) \/ Relabel(c)
  BY <1>8, <1>9 DEF Resolve, Reserve, Recover, Rearm, Relabel, In
<1>10. CASE Enqueue(c)
  BY <1>8, <1>10 DEF Enqueue, In
<1>11. CASE Fail(c) \/ ReleaseHold(c) \/ Abandon(c)
  BY <1>8, <1>11 DEF Fail, ReleaseHold, Abandon, In
<1>12. CASE ReadPayment(c)
  <2>1. ctl[c].pc # "idle"
    BY <1>12 DEF ReadPayment, In
  <2>2. \A b \in Threads : ctl'[b].pc # "idle" => ctl'[b].o # o
    BY <1>1, <1>8, <1>12, <2>1 DEF ReadPayment, In, Ctl
  <2>3. QED
    BY <1>12, <2>2 DEF ReadPayment, In
<1>13. CASE ReleasePaid(c) \/ ClearStamp(c)
  <2>1. ctl[c].pc # "idle"
    BY <1>13 DEF ReleasePaid, ClearStamp, In
  <2>2. row'[o] = row[o]
    BY <1>1, <1>8, <1>13, <2>1 DEF ReleasePaid, ClearStamp
  <2>3. QED
    BY <1>8, <1>13, <2>1, <2>2 DEF ReleasePaid, ClearStamp, In
<1>14. QED
  BY <1>3, <1>4, <1>5, <1>6, <1>7, <1>9, <1>10, <1>11, <1>12, <1>13 DEF ThreadStep

(* The Amazon scan, eBay and the seller's own purchases do not make a job. *)
LEMMA OthersLeaveAlone ==
  ASSUME TypeOK, NEW o \in Orders, LeftAlone(o), ScanStep \/ World \/ UNCHANGED vars
  PROVE  LeftAlone(o)'
<1>1. row \in [Orders -> Row] /\ row[o] \in Row
  BY DEF TypeOK
<1>2. row'[o].af = row[o].af /\ row'[o].reason = row[o].reason /\ row'[o].stamp = row[o].stamp
  <2>1. ASSUME NEW p \in Orders, WriteSuspect(p) \/ WriteLink(p) \/ LinkByHand(p)
        PROVE  row'[o].af = row[o].af /\ row'[o].reason = row[o].reason /\ row'[o].stamp = row[o].stamp
    <3>1. CASE p = o
      <4>1. CASE WriteSuspect(p)
        BY <1>1, <3>1, <4>1 DEF WriteSuspect, Row
      <4>2. CASE WriteLink(p)
        BY <1>1, <3>1, <4>2 DEF LeftAlone, WriteLink, Row
      <4>3. CASE LinkByHand(p)
        BY <1>1, <3>1, <4>3 DEF LinkByHand, Row
      <4>4. QED
        BY <2>1, <4>1, <4>2, <4>3
    <3>2. CASE p # o
      BY <1>1, <2>1, <3>2 DEF WriteSuspect, WriteLink, LinkByHand
    <3>3. QED
      BY <3>1, <3>2
  <2>2. UNCHANGED row \/ \E p \in Orders : WriteSuspect(p) \/ WriteLink(p) \/ LinkByHand(p)
    BY DEF ScanStep, SelectCandidates, StartScan, ScrapeAndPlan, AdvanceSyncedAt, AbortScan, World,
       WorldKeeps, vars, SaleMoves, BuyerAsksCancel, SubscriptionTurns, BuyByHand
  <2>3. QED
    BY <2>1, <2>2
<1>3. UNCHANGED <<jobs, run, ctl>>
  <2>1. CASE ScanStep
    BY <2>1 DEF ScanStep, ScanKeeps, SelectCandidates, StartScan, ScrapeAndPlan, WriteSuspect,
       WriteLink, AdvanceSyncedAt, AbortScan
  <2>2. CASE World \/ UNCHANGED vars
    BY <2>2 DEF World, WorldKeeps, vars, SaleMoves, BuyerAsksCancel, SubscriptionTurns, BuyByHand,
       LinkByHand
  <2>3. QED
    BY <2>1, <2>2
<1>4. QED
  BY <1>2, <1>3 DEF LeftAlone, At, In, JobSale, CtlSale

(* Only the worker touches a run.                                          *)
LEMMA OthersKeepRuns ==
  ASSUME (\E c \in Threads : ThreadStep(c)) \/ ScanStep \/ World \/ UNCHANGED vars
  PROVE  UNCHANGED <<run, clicked>>
<1>1. ASSUME NEW c \in Threads, ThreadStep(c) PROVE UNCHANGED <<run, clicked>>
  BY <1>1 DEF ThreadStep, ThreadKeeps, amazonVars, IngestSale, ResyncSale, ResumeSuspended, RecheckUnpaid,
     SettleStale, StartManually, AskNotPurchased, Resolve, Reserve, Enqueue, Fail, Recover, ReleaseHold,
     Rearm, ReadPayment, ReleasePaid, Relabel, ClearStamp, Abandon
<1>2. CASE ScanStep
  BY <1>2 DEF ScanStep, ScanKeeps, amazonVars, SelectCandidates, StartScan, ScrapeAndPlan, WriteSuspect,
     WriteLink, AdvanceSyncedAt, AbortScan
<1>3. CASE World \/ UNCHANGED vars
  BY <1>3 DEF World, WorldKeeps, vars, SaleMoves, BuyerAsksCancel, SubscriptionTurns, BuyByHand, LinkByHand
<1>4. QED
  BY <1>1, <1>2, <1>3

(* A run gets past the last look at the sale through RecheckSale only, and *)
(* PrePurchase never lets a sale of several items through.                 *)
LEMMA MultiItemStaysStopped ==
  ASSUME TypeOK, KindKept, MultiItemStopped, NEW w \in Workers, WorkerStep(w)
  PROVE  MultiItemStopped'
<1>1. run \in [Workers -> Run] /\ run[w] \in Run
  BY DEF TypeOK
<1>2. \A v \in Workers : JobSale(v) \in Orders
  BY RunTypes
<1>3. CASE Start(w)
  BY <1>1, <1>2, <1>3 DEF Start, MultiItemStopped, KindKept, NoRun, PastRecheck, JobSale, TypeOK, Job
<1>4. CASE ~Start(w)
  <2>1. StaysOnJob(w)
    BY <1>4, StepStaysOnJob
  <2>2. ASSUME ebay[JobSale(w)].kind = "multi_item", run'[w].pc \in PastRecheck PROVE FALSE
    <3>1. run[w].pc \notin PastRecheck
      BY <2>2 DEF MultiItemStopped
    <3>2. CASE RecheckSale(w)
      <4> DEFINE verdict == PrePurchase(run[w].seen.status, run[w].seen.cancel,
                                        ebay[JobSale(w)].kind = "multi_item", run[w].job.no > 0)
                 pc == CASE verdict.to = "skipped" -> "skip"
                         [] verdict.to = "blocked" -> "block"
                         [] OTHER                  -> "running"
      <4>1. verdict.to = "skipped"
        BY <2>2 DEF PrePurchase
      <4>2. run' = [run EXCEPT ![w].pc = pc, ![w].reason = verdict.reason, ![w].seen = NoReading]
        BY <3>2 DEF RecheckSale
      <4>3. pc = "skip"
        BY <4>1
      <4> HIDE DEF pc, verdict
      <4>4. run'[w].pc = "skip"
        BY <1>1, <4>2, <4>3 DEF Run
      <4>5. QED
        BY <2>2, <4>4 DEF PastRecheck
    <3>3. \A pc : Goto(w, pc) => run'[w].pc = pc
      BY <1>1 DEF Goto, Run
    <3>4. \A pc, reason : GotoBlock(w, pc, reason) => run'[w].pc = pc
      BY <1>1 DEF GotoBlock, Run
    <3>5. Finish(w) => run'[w].pc = "idle"
      BY <1>1 DEF Finish, NoRun
    <3>6. CASE LookAtSale(w) \/ Stall(w)
      BY <1>1, <2>2, <3>1, <3>6 DEF LookAtSale, Stall, Run, PastRecheck
    <3>7. QED
      BY <1>4, <2>2, <3>1, <3>2, <3>3, <3>4, <3>5, <3>6 DEF WorkerStep, RunStep, At, ReadOrder,
         SettleStamped, CheckEntitled, SetRunning, SetSkipped, Checkout, SimulatePlacement, ClaimClick,
         LostClaim, ClickPlaceOrder, ParseConfirmation, OnPlaced, SetBlocked, ReleaseSlot, Throw,
         SettleEscaped, SettleFails, GiveUp, Die, PastRecheck
  <2>3. QED
    BY <1>2, <2>1, <2>2 DEF MultiItemStopped, KindKept, StaysOnJob, JobSale, PastRecheck
<1>5. QED
  BY <1>3, <1>4

(* Nothing is queued and nothing runs at the start.                        *)
LEMMA InitUnfitInv == Init => UnfitInv
BY DEF Init, UnfitInv, UntrackedLeftAlone, LeftAlone, MultiItemStopped, UnfitSaleNeverClicked, PastRecheck,
   NoRow, NoRun, NoCtl, At, In

(* Every step preserves the invariant.                                     *)
LEMMA NextUnfitInv == TypeOK /\ UnfitInv /\ [Next]_vars => UnfitInv'
<1> SUFFICES ASSUME TypeOK, UnfitInv, [Next]_vars PROVE UnfitInv'
  OBVIOUS
<1>1. KindKept
  BY NextKeepsKind
<1>2. UntrackedLeftAlone'
  <2> SUFFICES ASSUME NEW o \in Orders, ebay[o].kind = "untracked", LeftAlone(o) PROVE LeftAlone(o)'
    BY <1>1 DEF UnfitInv, UntrackedLeftAlone, KindKept
  <2>1. QED
    BY WorkerLeavesAlone, ThreadLeavesAlone, OthersLeaveAlone DEF Next
<1>3. MultiItemStopped'
  <2>1. CASE \E w \in Workers : WorkerStep(w)
    BY <1>1, <2>1, MultiItemStaysStopped DEF UnfitInv
  <2>2. CASE ~(\E w \in Workers : WorkerStep(w))
    <3>1. UNCHANGED run
      BY <2>2, OthersKeepRuns DEF Next
    <3>2. QED
      BY <1>1, <3>1, RunTypes DEF UnfitInv, MultiItemStopped, KindKept, JobSale
  <2>3. QED
    BY <2>1, <2>2
<1>4. UnfitSaleNeverClicked'
  <2>1. ASSUME NEW w \in Workers, WorkerStep(w), NEW o \in Orders, ebay[o].kind \in {"multi_item", "untracked"}
        PROVE  clicked'[o] = clicked[o]
    <3>1. CASE ClickPlaceOrder(w)
      <4>1. JobSale(w) # o
        BY <2>1, <3>1 DEF UnfitInv, MultiItemStopped, UntrackedLeftAlone, LeftAlone, ClickPlaceOrder, At,
           PastRecheck
      <4>2. QED
        BY <3>1, <4>1 DEF ClickPlaceOrder, TypeOK
    <3>2. CASE ~ClickPlaceOrder(w)
      BY <2>1, <3>2 DEF WorkerStep, RunStep, OnlyRun, amazonVars, Start, ReadOrder, SettleStamped, CheckEntitled,
         LookAtSale, RecheckSale, SetRunning, SetSkipped, Checkout, SimulatePlacement, ClaimClick,
         LostClaim, ParseConfirmation, OnPlaced, SetBlocked, ReleaseSlot, Throw, SettleEscaped,
         SettleFails, GiveUp, Stall, Die
    <3>3. QED
      BY <3>1, <3>2
  <2>2. \A o \in Orders : ebay[o].kind \in {"multi_item", "untracked"} => clicked'[o] = clicked[o]
    BY <2>1, OthersKeepRuns DEF Next
  <2>3. QED
    BY <1>1, <2>2 DEF UnfitInv, UnfitSaleNeverClicked, KindKept
<1>5. QED
  BY <1>2, <1>3, <1>4 DEF UnfitInv

(* No sale of several items and no sale of no listing of ours is ever      *)
(* clicked for, whatever sweeps re-arm and whoever starts it.              *)
THEOREM UnfitNeverClicked == Spec => []UnfitSaleNeverClicked
<1>1. Init => UnfitInv
  BY InitUnfitInv
<1>2. TypeOK /\ UnfitInv /\ [Next]_vars => UnfitInv'
  BY NextUnfitInv
<1>3. UnfitInv => UnfitSaleNeverClicked
  BY DEF UnfitInv
<1>4. QED
  BY <1>1, <1>2, <1>3, TypeCorrect, PTL DEF Spec

(***************************************************************************)
(* A row the platform placed.  The statements of a worker that do not ask  *)
(* for PLACED ask for an unstamped row, or are a dry run's: where nobody   *)
(* declares a purchase absent and no account is on dry runs, a placed row  *)
(* keeps its stamp, so no worker takes it back.                            *)
(***************************************************************************)
PlacedIsStamped ==
  /\ \A o \in Orders : row[o].af = "placed" => row[o].stamp # NotClicked
  /\ \A w \in Workers : run[w].pc \in {"click", "confirm", "placed"} => JobRow(w).stamp # NotClicked

NobodyDeclares ==
  /\ \A o \in Orders : cleared[o] = {}
  /\ \A c \in Threads : ~In(c, "confirm")

NothingSimulated == \A w \in Workers : ~At(w, "simulate")

PlacedInv == PlacedIsStamped /\ NobodyDeclares /\ NothingSimulated

(* What the property says of one step.                                     *)
PlacedKept == run' # run => \A o \in Orders : row[o].af = "placed" => row'[o].af = "placed"

(* Nothing is placed at the start.                                         *)
LEMMA InitPlacedInv == Init => PlacedInv
BY DEF Init, PlacedInv, PlacedIsStamped, NobodyDeclares, NothingSimulated, NoRow, NoRun, NoCtl, At, In

(* Without declarations no thread gets to the statement that clears.       *)
LEMMA NobodyStartsToDeclare ==
  ASSUME TypeOK, MaxConfirms = 0, NobodyDeclares, NEW c \in Threads, ThreadStep(c)
  PROVE  NobodyDeclares' /\ ~ClearStamp(c)
<1>1. ctl \in [Threads -> Ctl]
  BY DEF TypeOK
<1>2. ~ClearStamp(c)
  BY DEF NobodyDeclares, ClearStamp
<1>3. \A o \in Orders : ~AskNotPurchased(c, o)
  BY FS_EmptySet DEF NobodyDeclares, AskNotPurchased
<1>4. UNCHANGED cleared
  BY <1>2 DEF ThreadStep, OnlyCtl, IngestSale, ResyncSale, ResumeSuspended, RecheckUnpaid, SettleStale,
     StartManually, AskNotPurchased, Resolve, Reserve, Enqueue, Fail, Recover, ReleaseHold, Rearm,
     ReadPayment, ReleasePaid, Relabel, Abandon
<1>5. /\ \A pc : pc # "confirm" /\ Proceed(c, pc) => \A b \in Threads : ctl'[b].pc = "confirm" => ctl[b].pc = "confirm"
      /\ \A o, pc, src : pc # "confirm" /\ Begin(c, o, pc, src) =>
           \A b \in Threads : ctl'[b].pc = "confirm" => ctl[b].pc = "confirm"
      /\ Return(c) => \A b \in Threads : ctl'[b].pc = "confirm" => ctl[b].pc = "confirm"
  BY <1>1 DEF Proceed, Begin, Return, NoCtl, Ctl
<1>6. \A b \in Threads : ctl'[b].pc = "confirm" => ctl[b].pc = "confirm"
  <2>1. ASSUME NEW o \in Orders, IngestSale(c, o) \/ StartManually(c, o) \/ ResyncSale(c, o)
        PROVE  \A b \in Threads : ctl'[b].pc = "confirm" => ctl[b].pc = "confirm"
    <3>1. CASE IngestSale(c, o)
      BY <1>1, <3>1 DEF IngestSale
    <3>2. CASE StartManually(c, o)
      BY <1>1, <3>2 DEF StartManually
    <3>3. CASE ResyncSale(c, o)
      BY <3>3 DEF ResyncSale
    <3>4. QED
      BY <2>1, <3>1, <3>2, <3>3
  <2>2. CASE ReadPayment(c)
    BY <1>1, <1>5, <2>2 DEF ReadPayment, Ctl
  <2>3. ASSUME NEW o \in Orders, ResumeSuspended(c, o) \/ RecheckUnpaid(c, o) \/ SettleStale(c, o)
        PROVE  \A b \in Threads : ctl'[b].pc = "confirm" => ctl[b].pc = "confirm"
    BY <1>5, <2>3 DEF ResumeSuspended, RecheckUnpaid, SettleStale
  <2>4. QED
    BY <1>2, <1>3, <1>5, <2>1, <2>2, <2>3 DEF ThreadStep, Resolve, Reserve, Enqueue, Fail, Recover, ReleaseHold,
       Rearm, ReleasePaid, Relabel, Abandon
<1>7. QED
  BY <1>2, <1>4, <1>6 DEF NobodyDeclares, In

(* No status a thread writes is PLACED.                                    *)
LEMMA ThreadPlacesNothing ==
  ASSUME TypeOK, NEW c \in Threads, ThreadStep(c), NEW o \in Orders, row'[o].af = "placed"
  PROVE  row[o].af = "placed"
<1>1. row \in [Orders -> Row]
  BY DEF TypeOK
<1>2. \A p, af, reason : af # "placed" /\ SetAutoFulfillStatus(p, af, reason) => (row'[o].af = "placed" => row[o].af = "placed")
  BY <1>1 DEF SetAutoFulfillStatus, Row
<1>3. ASSUME NEW p \in Orders, IngestSale(c, p) \/ StartManually(c, p) \/ ResyncSale(c, p)
      PROVE  row[o].af = "placed"
  <2>1. CASE IngestSale(c, p)
    BY <1>1, <2>1 DEF IngestSale, Row
  <2>2. CASE StartManually(c, p)
    BY <1>1, <2>2 DEF StartManually, Row
  <2>3. CASE ResyncSale(c, p)
    BY <1>1, <2>3 DEF ResyncSale, Row
  <2>4. QED
    BY <1>3, <2>1, <2>2, <2>3
<1>4. CASE ReleasePaid(c)
  BY <1>1, <1>4 DEF ReleasePaid, Row
<1>5. CASE ClearStamp(c)
  BY <1>1, <1>5 DEF ClearStamp, Row
<1>6. ASSUME NEW p \in Orders,
             ResumeSuspended(c, p) \/ RecheckUnpaid(c, p) \/ SettleStale(c, p) \/ AskNotPurchased(c, p)
      PROVE  row[o].af = "placed"
  BY <1>2, <1>6 DEF ResumeSuspended, RecheckUnpaid, SettleStale, AskNotPurchased, OnlyCtl
<1>7. QED
  BY <1>2, <1>3, <1>4, <1>5, <1>6 DEF ThreadStep, OnlyCtl, Resolve, Reserve, Enqueue, Fail, Recover, ReleaseHold,
     Rearm, ReadPayment, Relabel, Abandon

(* A worker writes PLACED after its click, and leaves a placed and stamped *)
(* row placed.                                                             *)
LEMMA WorkerPlaces ==
  ASSUME TypeOK, NothingSimulated, NEW w \in Workers, WorkerStep(w), NEW o \in Orders
  PROVE  /\ row'[o].af = "placed" => row[o].af = "placed" \/ (run[w].pc = "placed" /\ o = JobSale(w))
         /\ row[o].af = "placed" /\ row[o].stamp # NotClicked => row'[o].af = "placed"
<1> DEFINE Goal == /\ row'[o].af = "placed" => row[o].af = "placed" \/ (run[w].pc = "placed" /\ o = JobSale(w))
                   /\ row[o].af = "placed" /\ row[o].stamp # NotClicked => row'[o].af = "placed"
<1>1. row \in [Orders -> Row] /\ JobSale(w) \in Orders
  BY RunTypes DEF TypeOK
<1>2. \A af, reason : af # "placed" /\ SetStatus(JobSale(w), af, reason) => Goal
  BY <1>1 DEF SetStatus, Row
<1>3. CASE RecheckSale(w)
  BY <1>1, <1>3 DEF RecheckSale, Row
<1>4. CASE SetRunning(w) \/ SetSkipped(w) \/ SetBlocked(w)
  BY <1>2, <1>4 DEF SetRunning, SetSkipped, SetBlocked
<1>5. CASE ClaimClick(w)
  BY <1>1, <1>5 DEF ClaimClick, Row
<1>6. CASE OnPlaced(w)
  BY <1>1, <1>6 DEF OnPlaced, Row, At
<1>7. CASE GiveUp(w)
  BY <1>1, <1>7 DEF GiveUp, HandBack, JobRow, Row
<1>8. ~SimulatePlacement(w)
  BY DEF SimulatePlacement, NothingSimulated
<1>9. QED
  BY <1>3, <1>4, <1>5, <1>6, <1>7, <1>8 DEF WorkerStep, RunStep, OnlyRun, Start, ReadOrder, SettleStamped,
     CheckEntitled, LookAtSale, Checkout, LostClaim, ClickPlaceOrder, ParseConfirmation, ReleaseSlot, Throw,
     SettleEscaped, SettleFails, Stall, Die

(* Without dry runs no worker gets to the simulated placement, and none    *)
(* gets past the click without having claimed it.                          *)
LEMMA WorkerGoesOn ==
  ASSUME TypeOK, TRUE \notin DryRunModes, NothingSimulated, NEW w \in Workers, WorkerStep(w), ~ClaimClick(w)
  PROVE  /\ NothingSimulated'
         /\ \A v \in Workers : run'[v].pc \in {"click", "confirm", "placed"} =>
              run[v].pc \in {"click", "confirm", "placed"} /\ run'[v].job = run[v].job
<1> DEFINE Late == {"click", "confirm", "placed"}
           Goal == /\ NothingSimulated'
                   /\ \A v \in Workers : run'[v].pc \in Late => run[v].pc \in Late /\ run'[v].job = run[v].job
<1> USE DEF NothingSimulated, At
<1>1. run \in [Workers -> Run]
  BY DEF TypeOK
<1>2. \A pc : pc # "simulate" /\ (pc \in Late => run[w].pc \in Late) /\ Goto(w, pc) => Goal
  BY <1>1 DEF Goto, Run
<1>3. \A pc, reason : pc \notin Late /\ pc # "simulate" /\ GotoBlock(w, pc, reason) => Goal
  BY <1>1 DEF GotoBlock, Run
<1>4. Finish(w) => Goal
  BY <1>1 DEF Finish, NoRun
<1>5. CASE Start(w)
  BY <1>1, <1>5 DEF Start, NoRun
<1>6. CASE LookAtSale(w) \/ Stall(w)
  BY <1>1, <1>6 DEF LookAtSale, Stall, Run
<1>7. CASE RecheckSale(w)
  <2> DEFINE verdict == PrePurchase(run[w].seen.status, run[w].seen.cancel,
                                    ebay[JobSale(w)].kind = "multi_item", run[w].job.no > 0)
             pc == CASE verdict.to = "skipped" -> "skip"
                     [] verdict.to = "blocked" -> "block"
                     [] OTHER                  -> "running"
  <2>1. run' = [run EXCEPT ![w].pc = pc, ![w].reason = verdict.reason, ![w].seen = NoReading]
    BY <1>7 DEF RecheckSale
  <2>2. pc \in {"skip", "block", "running"}
    <3> HIDE DEF verdict
    <3> QED OBVIOUS
  <2> HIDE DEF pc, verdict
  <2>3. QED
    BY <1>1, <2>1, <2>2 DEF Run
<1>8. CASE ParseConfirmation(w)
  <2>1. CASE GotoBlock(w, "block", "no_confirmation")
    BY <1>3, <2>1
  <2>2. CASE \E id \in BOOLEAN : run' = [run EXCEPT ![w].pc = "placed", ![w].id = id]
    <3>1. PICK id \in BOOLEAN : run' = [run EXCEPT ![w].pc = "placed", ![w].id = id]
      BY <2>2
    <3>2. /\ run'[w].pc = "placed" /\ run'[w].job = run[w].job
          /\ \A v \in Workers : v # w => run'[v] = run[v]
      <4>1. run[w] \in Run
        BY <1>1
      <4>2. [[run[w] EXCEPT !.pc = "placed"] EXCEPT !.id = id].job = run[w].job
        BY <4>1 DEF Run
      <4>3. [[run[w] EXCEPT !.pc = "placed"] EXCEPT !.id = id].pc = "placed"
        BY <4>1 DEF Run
      <4>4. QED
        BY <1>1, <3>1, <4>2, <4>3
    <3>3. \A v \in Workers : run'[v].pc # "simulate"
      BY <3>2
    <3>4. run[w].pc = "confirm"
      BY <1>8 DEF ParseConfirmation
    <3>5. \A v \in Workers : run'[v].pc \in Late => run[v].pc \in Late /\ run'[v].job = run[v].job
      BY <3>2, <3>4
    <3>6. QED
      BY <3>3, <3>5
  <2>3. QED
    BY <1>8, <2>1, <2>2 DEF ParseConfirmation
<1>9. CASE ReadOrder(w) \/ SettleStamped(w) \/ CheckEntitled(w)
  BY <1>2, <1>3, <1>4, <1>9 DEF ReadOrder, SettleStamped, CheckEntitled
<1>10. CASE SetRunning(w) \/ SetSkipped(w) \/ SetBlocked(w) \/ Checkout(w) \/ SimulatePlacement(w)
  BY <1>2, <1>3, <1>4, <1>10 DEF SetRunning, SetSkipped, SetBlocked, Checkout, SimulatePlacement
<1>11. CASE LostClaim(w) \/ OnPlaced(w) \/ ReleaseSlot(w) \/ Throw(w) \/ GiveUp(w) \/ Die(w)
  BY <1>2, <1>3, <1>4, <1>11 DEF LostClaim, OnPlaced, ReleaseSlot, Throw, GiveUp, Die
<1>12. CASE ClickPlaceOrder(w) \/ SettleEscaped(w) \/ SettleFails(w)
  BY <1>2, <1>3, <1>4, <1>12 DEF ClickPlaceOrder, SettleEscaped, SettleFails
<1>13. QED
  BY <1>5, <1>6, <1>7, <1>8, <1>9, <1>10, <1>11, <1>12 DEF WorkerStep, RunStep

(* A claim stamps its row and moves on to the click; it places nothing.    *)
LEMMA ClaimStamps ==
  ASSUME TypeOK, NothingSimulated, NEW w \in Workers, ClaimClick(w)
  PROVE  /\ NothingSimulated'
         /\ \A o \in Orders : row[o].stamp # NotClicked => row'[o].stamp # NotClicked
         /\ \A v \in Workers : run'[v].pc \in {"click", "confirm", "placed"} =>
              /\ run'[v].job = run[v].job
              /\ run[v].pc \in {"click", "confirm", "placed"} \/ row'[run[v].job.o].stamp # NotClicked
<1>1. run \in [Workers -> Run] /\ row \in [Orders -> Row] /\ JobSale(w) \in Orders
  BY RunTypes DEF TypeOK
<1>2. claims[JobSale(w)] + 1 # NotClicked
  BY <1>1 DEF TypeOK, NotClicked
<1>3. CASE Claimable(JobRow(w))
  <2> DEFINE n == claims[JobSale(w)] + 1
  <2>1. row' = [row EXCEPT ![JobSale(w)].stamp = n] /\ run' = [run EXCEPT ![w].pc = "click", ![w].claim = n]
    BY <1>3 DEF ClaimClick
  <2>2. n # NotClicked
    BY <1>2
  <2> HIDE DEF n
  <2>3. QED
    BY <1>1, <2>1, <2>2 DEF NothingSimulated, At, Row, Run, JobSale
<1>4. CASE ~Claimable(JobRow(w))
  BY <1>1, <1>4 DEF ClaimClick, Goto, NothingSimulated, At, Run
<1>5. QED
  BY <1>3, <1>4

(* Every step preserves the invariant and is as the property says.         *)
LEMMA NextPlacedInv ==
  ASSUME TypeOK, MaxConfirms = 0, TRUE \notin DryRunModes, PlacedInv, [Next]_vars
  PROVE  PlacedInv' /\ PlacedKept
<1> USE DEF PlacedInv, PlacedIsStamped, JobRow, JobSale
<1>1. \A v \in Workers : run[v].job.o \in Orders
  BY RunTypes
<1>2. ASSUME NEW w \in Workers, WorkerStep(w) PROVE PlacedInv' /\ PlacedKept
  <2>1. NobodyDeclares'
    <3>1. UNCHANGED <<ctl, cleared>>
      BY <1>2 DEF WorkerStep, RunStep, WorkerKeeps, Start, ReadOrder, SettleStamped, CheckEntitled,
         LookAtSale, RecheckSale, SetRunning, SetSkipped, Checkout, SimulatePlacement, ClaimClick,
         LostClaim, ClickPlaceOrder, ParseConfirmation, OnPlaced, SetBlocked, ReleaseSlot, Throw,
         SettleEscaped, SettleFails, GiveUp, Stall, Die
    <3>2. QED
      BY <3>1 DEF NobodyDeclares, In
  <2>2. PlacedKept
    BY <1>2, WorkerPlaces DEF PlacedKept
  <2>3. NothingSimulated'
    BY <1>2, WorkerGoesOn, ClaimStamps
  <2>4. \A o \in Orders : row[o].stamp # NotClicked => row'[o].stamp # NotClicked
    <3>1. CASE ClaimClick(w)
      BY <3>1, ClaimStamps
    <3>2. CASE ClickPlaceOrder(w)
      BY <3>2 DEF ClickPlaceOrder
    <3>3. CASE ~ClaimClick(w) /\ ~ClickPlaceOrder(w)
      BY <1>2, <3>3, WorkerQuiet DEF Quiet
    <3>4. QED
      BY <3>1, <3>2, <3>3
  <2>5. \A o \in Orders : row'[o].af = "placed" => row'[o].stamp # NotClicked
    BY <1>2, <2>4, WorkerPlaces
  <2>6. \A v \in Workers : run'[v].pc \in {"click", "confirm", "placed"} => row'[run'[v].job.o].stamp # NotClicked
    BY <1>1, <1>2, <2>4, WorkerGoesOn, ClaimStamps
  <2>7. QED
    BY <2>1, <2>2, <2>3, <2>5, <2>6
<1>3. ASSUME NEW c \in Threads, ThreadStep(c) PROVE PlacedInv' /\ PlacedKept
  <2>1. NobodyDeclares' /\ ~ClearStamp(c)
    BY <1>3, NobodyStartsToDeclare
  <2>2. Quiet /\ UNCHANGED run
    BY <1>3, <2>1, ThreadQuiet, OthersKeepRuns
  <2>3. QED
    BY <1>1, <1>3, <2>1, <2>2, ThreadPlacesNothing DEF PlacedKept, Quiet, NothingSimulated, At
<1>4. CASE ScanStep \/ World \/ UNCHANGED vars
  <2>1. Quiet /\ UNCHANGED run
    <3>1. UNCHANGED vars => Quiet
      BY DEF vars, Quiet
    <3>2. QED
      BY <1>4, <3>1, ScanQuiet, WorldQuiet, OthersKeepRuns
  <2>2. \A o \in Orders : row'[o].af = "placed" => row[o].af = "placed" \/ row[o].stamp # NotClicked
    <3>1. row \in [Orders -> Row]
      BY DEF TypeOK
    <3>2. ASSUME NEW p \in Orders, WriteSuspect(p) \/ WriteLink(p) \/ LinkByHand(p), NEW o \in Orders
          PROVE  row'[o].af = "placed" => row[o].af = "placed" \/ row[o].stamp # NotClicked
      <4>1. CASE p # o
        BY <3>1, <3>2, <4>1 DEF WriteSuspect, WriteLink, LinkByHand
      <4>2. CASE p = o /\ WriteSuspect(p)
        BY <3>1, <4>2 DEF WriteSuspect, Row
      <4>3. CASE p = o /\ WriteLink(p)
        BY <3>1, <4>3 DEF WriteLink, Row
      <4>4. CASE p = o /\ LinkByHand(p)
        BY <3>1, <4>4 DEF LinkByHand, Row
      <4>5. QED
        BY <3>2, <4>1, <4>2, <4>3, <4>4
    <3>3. UNCHANGED row \/ \E p \in Orders : WriteSuspect(p) \/ WriteLink(p) \/ LinkByHand(p)
      BY <1>4 DEF ScanStep, SelectCandidates, StartScan, ScrapeAndPlan, AdvanceSyncedAt, AbortScan, World,
         WorldKeeps, vars, SaleMoves, BuyerAsksCancel, SubscriptionTurns, BuyByHand
    <3>4. QED
      BY <3>2, <3>3
  <2>3. UNCHANGED <<ctl, cleared>>
    <3>1. CASE ScanStep
      BY <3>1 DEF ScanStep, ScanKeeps, SelectCandidates, StartScan, ScrapeAndPlan, WriteSuspect, WriteLink,
         AdvanceSyncedAt, AbortScan
    <3>2. CASE World \/ UNCHANGED vars
      BY <3>2 DEF World, WorldKeeps, vars, SaleMoves, BuyerAsksCancel, SubscriptionTurns, BuyByHand,
         LinkByHand
    <3>3. QED
      BY <1>4, <3>1, <3>2
  <2>4. QED
    BY <1>1, <2>1, <2>2, <2>3 DEF PlacedKept, Quiet, NothingSimulated, NobodyDeclares, At, In
<1>5. QED
  BY <1>2, <1>3, <1>4 DEF Next

(* Where nobody declares a purchase absent and no account is on dry runs,  *)
(* no worker takes a row out of PLACED.                                    *)
THEOREM PlacedKeptByWorkers ==
  ASSUME MaxConfirms = 0, TRUE \notin DryRunModes
  PROVE  Spec => WorkerKeepsPlaced
<1>1. Init => PlacedInv
  BY InitPlacedInv
<1>2. TypeOK /\ PlacedInv /\ [Next]_vars => PlacedInv'
  BY NextPlacedInv
<1>3. TypeOK /\ PlacedInv /\ [Next]_vars => [PlacedKept]_vars
  BY NextPlacedInv
<1>4. Spec => [][PlacedKept]_vars
  BY <1>1, <1>2, <1>3, TypeCorrect, PTL DEF Spec
<1>5. QED
  BY <1>4 DEF WorkerKeepsPlaced, PlacedKept
=============================================================================
