---------------------------- MODULE CostCapture -----------------------------
(***************************************************************************)
(* The Amazon order scan (amazon-order-sync.service.ts): it reads which    *)
(* sales still wait for an Amazon order, reads the account's order list,   *)
(* plans which purchase belongs to which sale (cost-capture-plan.ts) and   *)
(* writes the plan sale by sale.  Finding a clicked sale's purchase is     *)
(* what settles its unknown outcome.                                       *)
(***************************************************************************)
EXTENDS OrderState

ScanKeeps == UNCHANGED <<worldVars, slot, jobs, run, ctl, amazonVars, cleared, starts, stalls>>

ScanAt(pc) == scan.pc = pc

(* The candidates are read first; without one nothing is scanned. *)
SelectCandidates ==
  /\ ScanAt("idle") /\ entitled
  /\ scans < MaxScans /\ scans' = scans + 1
  /\ LET cands == {o \in Orders : row[o].known /\ ~row[o].costs} IN
       /\ cands # {}
       /\ scan' = [NoScan EXCEPT !.pc = "start", !.cands = cands,
                     !.named = {o \in cands : row[o].amazon # NoAmazonOrder},
                     !.clicks = {o \in cands : row[o].stamp # NotClicked}]
  /\ UNCHANGED <<row, scanned, listed>> /\ ScanKeeps

(* startedAt, taken next, is what the watermark will say. *)
StartScan ==
  /\ ScanAt("start")
  /\ scan' = [scan EXCEPT !.pc = "scrape", !.covers = claims]
  /\ UNCHANGED <<row, scanned, listed, scans>> /\ ScanKeeps

(***************************************************************************)
(* What the plan may say of a candidate, for the purchases the list shows: *)
(* a purchase its row already names; else one the strict matcher gives it; *)
(* else, for a clicked sale, one that only may be its purchase.            *)
(***************************************************************************)
Plans(o, shown) ==
  LET none == [link |-> NoAmazonOrder, suspect |-> NoAmazonOrder] IN
  IF o \notin scan.cands THEN {none}
  ELSE IF row[o].amazon \in shown THEN {[none EXCEPT !.link = row[o].amazon]}
  ELSE IF o \in scan.named THEN {none}
  ELSE {none} \cup {[none EXCEPT !.link = n] : n \in shown}
       \cup {[none EXCEPT !.suspect = n] : n \in {m \in shown : o \in scan.clicks}}

(* Amazon's list can lag behind what was bought. *)
ScrapeAndPlan ==
  /\ ScanAt("scrape")
  /\ \E shown \in [Orders -> UNION {SUBSET bought[o] : o \in Orders}] :
       /\ \A o \in Orders : shown[o] \subseteq bought[o]
       /\ \E plan \in [Orders -> UNION {Plans(o, shown[o]) : o \in Orders}] :
            /\ \A o \in Orders : plan[o] \in Plans(o, shown[o])
            /\ scan' = [scan EXCEPT !.pc = "write",
                                    !.link = [o \in Orders |-> plan[o].link],
                                    !.suspect = [o \in Orders |-> plan[o].suspect]]
  /\ listed' = claims
  /\ UNCHANGED <<row, scanned, scans>> /\ ScanKeeps

(* A suspect is recorded unless the sale got its Amazon order meanwhile; a *)
(* failed write is only logged.                                            *)
WriteSuspect(o) ==
  /\ ScanAt("write") /\ scan.suspect[o] # NoAmazonOrder
  /\ \/ /\ row[o].amazon = NoAmazonOrder
        /\ row' = [row EXCEPT ![o].suspect = scan.suspect[o]]
     \/ UNCHANGED row
  /\ scan' = [scan EXCEPT !.suspect[o] = NoAmazonOrder]
  /\ UNCHANGED <<scanned, listed, scans>> /\ ScanKeeps

(* A link is written whatever the row says by now. *)
WriteLink(o) ==
  /\ ScanAt("write") /\ scan.suspect = NoPlan /\ scan.link[o] # NoAmazonOrder
  /\ \/ row' = [row EXCEPT ![o].amazon = scan.link[o], ![o].costs = TRUE,
                           ![o].af = IF row[o].stamp # NotClicked THEN "placed" ELSE @,
                           ![o].reason = IF row[o].stamp # NotClicked THEN NoReason ELSE @]
     \/ UNCHANGED row
  /\ scan' = [scan EXCEPT !.link[o] = NoAmazonOrder]
  /\ UNCHANGED <<scanned, listed, scans>> /\ ScanKeeps

MutAdvanceSyncedAtNow ==           \* mutant: the end of the scan is stored
  /\ ScanAt("write") /\ scan.suspect = NoPlan /\ scan.link = NoPlan
  /\ scanned' = claims
  /\ scan' = NoScan
  /\ UNCHANGED <<row, listed, scans>> /\ ScanKeeps

AdvanceSyncedAt ==
  /\ ScanAt("write") /\ scan.suspect = NoPlan /\ scan.link = NoPlan
  /\ scanned' = scan.covers
  /\ scan' = NoScan
  /\ UNCHANGED <<row, listed, scans>> /\ ScanKeeps

(* A failed scrape, a suspect empty page, a crash: nothing is advanced. *)
AbortScan ==
  /\ ~ScanAt("idle")
  /\ scan' = NoScan
  /\ UNCHANGED <<row, scanned, listed, scans>> /\ ScanKeeps

ScanStep ==
  \/ SelectCandidates \/ StartScan \/ ScrapeAndPlan
  \/ \E o \in Orders : WriteSuspect(o) \/ WriteLink(o)
  \/ AdvanceSyncedAt \/ AbortScan
=============================================================================
