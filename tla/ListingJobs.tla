---------------------------- MODULE ListingJobs ----------------------------
(***************************************************************************)
(* Creating listings in bulk.  A seller submits a job; the API filters the *)
(* ASINs, reserves plan slots and queues batches; a worker prepares the    *)
(* items of a batch concurrently, writes them to eBay in one call and      *)
(* records each result; the seller may cancel; workers and requests may    *)
(* die at any statement.  One store, one seller, one plan limit.           *)
(***************************************************************************)
EXTENDS Naturals, FiniteSets

CONSTANTS
  Jobs, Batches,
  JobOf,            \* the job a batch belongs to
  AsinsOf,          \* the ASINs of a batch
  KindsOf,          \* the kinds a job may be submitted as
  CancelJobs,       \* jobs the seller may cancel
  Limit,            \* listing slots of the plan
  MaxAttempts,      \* BullMQ attempts of a batch
  MaxStalls,        \* a job stalled more often than this is failed by BullMQ
  MaxDeferrals,     \* bound: how often a batch meets a spent eBay budget
  ItemConcurrency   \* items of one batch prepared at once

Items == UNION {{b} \X AsinsOf[b] : b \in Batches}
Asins == UNION {AsinsOf[b] : b \in Batches}
JobKinds == {"live", "draft", "scheduled"}   \* published now; stopped before eBay; spread over days
BatchesOf(j) == {b \in Batches : JobOf[b] = j}
ItemsOf(j) == {i \in Items : JobOf[i[1]] = j}
ItemsIn(b) == {i \in Items : i[1] = b}

ASSUME ListingJobsAssumption ==
  /\ JobOf \in [Batches -> Jobs]
  /\ AsinsOf \in [Batches -> SUBSET Asins]
  /\ \A b, c \in Batches : b # c /\ JobOf[b] = JobOf[c] => AsinsOf[b] \cap AsinsOf[c] = {}
  /\ KindsOf \in [Jobs -> SUBSET JobKinds] /\ CancelJobs \subseteq Jobs
  /\ {Limit, MaxStalls, MaxDeferrals} \subseteq Nat
  /\ {MaxAttempts, ItemConcurrency} \subseteq Nat \ {0}
  /\ IsFiniteSet(Items)

VARIABLES
  job,      \* listing_jobs: kind, status and the two counts the job page shows
  item,     \* listing_job_items.status ("none": no such row)
  slot,     \* billing_listing_reservations of an item ("stuck": still reserved,
            \* the database refused its release)
  rows,     \* listings rows written for an item
  live,     \* ASINs whose offer is published on eBay
  queue,    \* the BullMQ job of a batch
  work,     \* the worker that runs it
  task,     \* what the worker is doing with an item
  req,      \* the request that creates a job
  stop      \* the request that cancels it

apiVars == <<req, stop>>
dbVars == <<job, item, slot, rows>>
vars == <<job, item, slot, rows, live, queue, work, task, req, stop>>

Idle == [pc |-> "idle", keep |-> FALSE, snap |-> <<0, 0>>]
Off == [pc |-> "off", budget |-> FALSE, throw |-> FALSE]
NoStop == [pc |-> "no", ids |-> {}, snap |-> <<0, 0>>]

Settled == {"active", "error"}
Finished == {"completed", "failed", "cancelled"}
Recording == {"item", "count", "tally", "hand"}     \* an item whose result is being written

Count(j, st) == Cardinality({i \in ItemsOf(j) : item[i] = st})
Counts(j) == <<Count(j, "active"), Count(j, "error")>>
MutListed(a) ==             \* mutant: asks the job items, not the listings
  \E i \in Items : i[2] = a /\ item[i] = "active"
Listed(a) == \E i \in Items : i[2] = a /\ rows[i] > 0
Kind(i) == job[JobOf[i[1]]].kind
ActiveRows == {p \in Items \X (1..2) : Kind(p[1]) # "draft" /\ p[2] <= rows[p[1]]}
Held == {"reserved", "stuck"}
InUse == Cardinality(ActiveRows) + Cardinality({i \in Items : slot[i] \in Held})
Reserve(is) == slot' = [i \in Items |-> IF i \in is /\ slot[i] = "none" THEN "reserved" ELSE slot[i]]

(* releaseSlot, once per item: a database error is warned about and        *)
(* swallowed, and the caller goes on.                                      *)
Release(is) ==
  \E freed \in SUBSET is :
    slot' = [i \in Items |-> IF i \in is /\ slot[i] \in Held
                            THEN IF i \in freed THEN "released" ELSE "stuck" ELSE slot[i]]

MutTally(j, snap) ==        \* mutant: the counts also decide for a cancelled job
  LET total == Cardinality({i \in ItemsOf(j) : item[i] # "none"}) IN
  job' = [job EXCEPT ![j] =
            [kind |-> @.kind, status |-> IF snap[1] + snap[2] < total THEN "processing" ELSE "completed",
             success |-> snap[1], failed |-> snap[2]]]

(* updateJobCounts, its second statement: the status follows from counts   *)
(* read earlier; only a cancelled job keeps its own.                       *)
Tally(j, snap) ==
  LET total == Cardinality({i \in ItemsOf(j) : item[i] # "none"})
      status == IF snap[1] + snap[2] < total THEN "processing"
                ELSE IF snap[2] = total THEN "failed" ELSE "completed"
  IN job' = [job EXCEPT ![j] = IF @.status = "gone" THEN @
               ELSE [kind |-> @.kind, status |-> IF @.status = "cancelled" THEN @.status ELSE status,
                     success |-> snap[1], failed |-> snap[2]]]

Init ==
  /\ job = [j \in Jobs |-> [kind |-> "live", status |-> "gone", success |-> 0, failed |-> 0]]
  /\ item = [i \in Items |-> "none"]
  /\ slot = [i \in Items |-> "none"]
  /\ rows = [i \in Items |-> 0]
  /\ live = {}
  /\ queue = [b \in Batches |-> [st |-> "absent", attempts |-> 0, stalls |-> 0, defers |-> 0]]
  /\ work = [b \in Batches |-> Off]
  /\ task = [i \in Items |-> Idle]
  /\ req = [j \in Jobs |-> "new"]
  /\ stop = [j \in Jobs |-> NoStop]

-----------------------------------------------------------------------------
(* The create request: createJob, then addListingJob.                      *)

Submit(j) ==
  /\ req[j] = "new"
  /\ LET fresh == {i \in ItemsOf(j) : ~Listed(i[2])} IN
     \E kind \in KindsOf[j] :
     /\ job' = [job EXCEPT ![j].kind = kind,
                           ![j].status = IF fresh = {} THEN "completed" ELSE "pending"]
     /\ item' = [i \in Items |-> IF i \in fresh THEN "draft" ELSE item[i]]
     /\ req' = [req EXCEPT ![j] = CASE fresh = {} -> "sent"
                                    [] fresh # {} /\ kind # "live" -> "queueing"
                                    [] OTHER -> "counting"]
  /\ UNCHANGED <<slot, rows, live, queue, work, task, stop>>

Known(j) == {i \in ItemsOf(j) : item[i] # "none"}

(* reserveForBulkCreate: the count is taken before the lock that guards    *)
(* the inserts.                                                            *)
MutCountSlots(j) ==         \* mutant: the refusal is swallowed
  /\ req[j] = "counting"
  /\ req' = [req EXCEPT ![j] = IF InUse + Cardinality(Known(j)) <= Limit THEN "reserving" ELSE "queueing"]
  /\ UNCHANGED <<dbVars, live, queue, work, task, stop>>

CountSlots(j) ==
  /\ req[j] = "counting"
  /\ req' = [req EXCEPT ![j] = IF InUse + Cardinality(Known(j)) <= Limit THEN "reserving" ELSE "refusing"]
  /\ UNCHANGED <<dbVars, live, queue, work, task, stop>>

InsertSlots(j) ==
  /\ req[j] = "reserving"
  /\ Reserve(Known(j))
  /\ req' = [req EXCEPT ![j] = "queueing"]
  /\ UNCHANGED <<job, item, rows, live, queue, work, task, stop>>

DeleteUnstarted(j) ==
  /\ req[j] = "refusing"
  /\ req' = [req EXCEPT ![j] = "refused"]
  /\ IF job[j].status = "pending" /\ \A i \in Known(j) : item[i] = "draft"
     THEN /\ job' = [job EXCEPT ![j].status = "gone"]
          /\ item' = [i \in Items |-> IF i \in ItemsOf(j) THEN "none" ELSE item[i]]
     ELSE UNCHANGED <<job, item>>
  /\ UNCHANGED <<slot, rows, live, queue, work, task, stop>>

Enqueue(j) ==
  /\ req[j] = "queueing"
  /\ req' = [req EXCEPT ![j] = "sent"]
  /\ queue' = [b \in Batches |-> IF b \in {i[1] : i \in Known(j)}
                                 THEN [queue[b] EXCEPT !.st = "waiting"] ELSE queue[b]]
  /\ UNCHANGED <<dbVars, live, work, task, stop>>

RequestDies(j) ==
  /\ req[j] \in {"counting", "reserving", "refusing", "queueing"}
  /\ req' = [req EXCEPT ![j] = "dead"]
  /\ UNCHANGED <<dbVars, live, queue, work, task, stop>>

-----------------------------------------------------------------------------
(* The cancel request: cancelJob, then releaseCancelledReservations.       *)

AskCancel(j) ==
  /\ j \in CancelJobs /\ stop[j].pc = "no" /\ job[j].status \in {"pending", "processing"}
  /\ stop' = [stop EXCEPT ![j].pc = "items"]
  /\ UNCHANGED <<dbVars, live, queue, work, task, req>>

CancelItems(j) ==
  /\ stop[j].pc = "items"
  /\ LET open == {i \in Known(j) : item[i] \notin Settled} IN
     /\ item' = [i \in Items |-> IF i \in open THEN "error" ELSE item[i]]
     /\ stop' = [stop EXCEPT ![j].pc = "job", ![j].ids = open]
  /\ UNCHANGED <<job, slot, rows, live, queue, work, task, req>>

CancelJob(j) ==
  /\ stop[j].pc = "job"
  /\ job' = [job EXCEPT ![j].status = IF @ = "gone" THEN @ ELSE "cancelled"]
  /\ stop' = [stop EXCEPT ![j].pc = "count"]
  /\ UNCHANGED <<item, slot, rows, live, queue, work, task, req>>

CancelCounts(j) ==
  /\ stop[j].pc = "count"
  /\ stop' = [stop EXCEPT ![j].pc = "tally", ![j].snap = Counts(j)]
  /\ UNCHANGED <<dbVars, live, queue, work, task, req>>

CancelTally(j) ==
  /\ stop[j].pc = "tally"
  /\ Tally(j, stop[j].snap)
  /\ stop' = [stop EXCEPT ![j].pc = "release", ![j].snap = <<0, 0>>]
  /\ UNCHANGED <<item, slot, rows, live, queue, work, task, req>>

CancelReleases(j) ==
  /\ stop[j].pc = "release"
  /\ Release(stop[j].ids)
  /\ stop' = [stop EXCEPT ![j] = [NoStop EXCEPT !.pc = "done"]]
  /\ UNCHANGED <<job, item, rows, live, queue, work, task, req>>

CancelDies(j) ==
  /\ stop[j].pc \notin {"no", "done"}
  /\ stop' = [stop EXCEPT ![j] = [NoStop EXCEPT !.pc = "done"]]
  /\ UNCHANGED <<dbVars, live, queue, work, task, req>>

-----------------------------------------------------------------------------
(* The worker.  How a run of a batch ends.                                 *)

Forget(b) == /\ work' = [work EXCEPT ![b] = Off]
             /\ task' = [i \in Items |-> IF i[1] = b THEN Idle ELSE task[i]]

Finish(b) == Forget(b) /\ queue' = [queue EXCEPT ![b].st = "done"]

MutDefer(b) ==              \* mutant: the deferral completes the job
  Forget(b) /\ queue' = [queue EXCEPT ![b].st = "done", ![b].defers = @ + 1]

(* moveToDelayed: no attempt is spent, and the batch starts over.          *)
Defer(b) == Forget(b) /\ queue' = [queue EXCEPT ![b].st = "waiting", ![b].defers = @ + 1]

(* An attempt that throws. *)
Throw(b) ==
  /\ Forget(b)
  /\ queue' = [queue EXCEPT ![b].attempts = @ + 1,
                 ![b].st = IF queue[b].attempts + 1 >= MaxAttempts THEN "failed" ELSE "waiting"]

Goto(b, pc) == work' = [work EXCEPT ![b].pc = pc]
SetTasks(is, pc) == task' = [i \in Items |-> IF i \in is THEN [Idle EXCEPT !.pc = pc] ELSE task[i]]
Sent(b) == {i \in ItemsIn(b) : item[i] # "none"}
InState(b, pcs) == {i \in ItemsIn(b) : task[i].pc \in pcs}

(* isJobCancelled, once per run of a batch. *)
Pick(b) ==
  /\ queue[b].st = "waiting"
  /\ IF job[JobOf[b]].status = "cancelled"
     THEN /\ queue' = [queue EXCEPT ![b].st = "done"]
          /\ UNCHANGED work
     ELSE /\ queue' = [queue EXCEPT ![b].st = "running"]
          /\ Goto(b, "mark")
  /\ UNCHANGED <<dbVars, live, task, apiVars>>

MutMarkProcessing(b) ==     \* mutant: waits for a pending job
  /\ work[b].pc = "mark" /\ job[JobOf[b]].status = "pending"
  /\ job' = [job EXCEPT ![JobOf[b]].status = "processing"]
  /\ Goto(b, "store")
  /\ UNCHANGED <<item, slot, rows, live, queue, task, apiVars>>

MarkProcessing(b) ==
  /\ work[b].pc = "mark"
  /\ job' = [job EXCEPT ![JobOf[b]].status = IF @ = "pending" THEN "processing" ELSE @]
  /\ Goto(b, "store")
  /\ UNCHANGED <<item, slot, rows, live, queue, task, apiVars>>

(* A store or a settings group that is gone closes every item. *)
CloseAll(b) == Goto(b, "close") /\ SetTasks(Sent(b), "fail")

CheckStore(b) ==
  /\ work[b].pc = "store"
  /\ CloseAll(b) \/ (Goto(b, "reserve") /\ UNCHANGED task)
  /\ UNCHANGED <<dbVars, live, queue, apiVars>>

ReserveAtRun(b) ==
  /\ work[b].pc = "reserve"
  /\ IF job[JobOf[b]].kind = "scheduled" /\ queue[b].attempts = 0
     THEN IF InUse + Cardinality(Sent(b)) <= Limit
          THEN Reserve(Sent(b)) /\ Goto(b, "group") /\ UNCHANGED task
          ELSE CloseAll(b) /\ UNCHANGED slot
     ELSE Goto(b, "group") /\ UNCHANGED <<slot, task>>
  /\ UNCHANGED <<job, item, rows, live, queue, apiVars>>

CheckGroup(b) ==
  /\ work[b].pc = "group"
  /\ CloseAll(b) \/ (Goto(b, "prepare") /\ SetTasks(Sent(b), "todo"))
  /\ UNCHANGED <<dbVars, live, queue, apiVars>>

(* prepareItem: a duplicate or a refused product fails, a draft gets its   *)
(* row, any other item is ready to be written; a spent eBay budget stops   *)
(* further items from starting.                                            *)
PrepareItem(i) ==
  LET b == i[1] IN
  /\ work[b].pc = "prepare" /\ task[i].pc = "todo" /\ ~work[b].budget
  /\ Cardinality(InState(b, Recording \cup {"fail", "draft"})) < ItemConcurrency
  /\ \/ SetTasks({i}, "fail") /\ UNCHANGED work
     \/ /\ ~Listed(i[2])
        /\ SetTasks({i}, IF Kind(i) = "draft" THEN "draft" ELSE "ready")
        /\ UNCHANGED work
     \/ /\ ~Listed(i[2]) /\ Kind(i) # "draft" /\ queue[b].defers < MaxDeferrals
        /\ SetTasks({i}, "idle")
        /\ work' = [work EXCEPT ![b].budget = TRUE]
  /\ UNCHANGED <<dbVars, live, queue, apiVars>>

Prepared(b) ==
  /\ work[b].pc = "prepare"
  /\ InState(b, Recording \cup {"fail", "draft"}) = {}
  /\ work[b].budget \/ InState(b, {"todo"}) = {}
  /\ IF work[b].budget THEN Defer(b)
     ELSE IF InState(b, {"ready"}) = {} THEN Finish(b)
     ELSE Goto(b, "write") /\ UNCHANGED <<queue, task>>
  /\ UNCHANGED <<dbVars, live, apiVars>>

(* createListings (BulkCall), and failPreparedItems when it throws.  Only   *)
(* a published item is told ok; one that failed, or any item of a call     *)
(* that throws, may be published too.                                      *)
WriteToEbay(b) ==
  /\ work[b].pc = "write"
  /\ LET ready == InState(b, {"ready"}) IN
     \E published \in SUBSET ready :
       /\ live' = live \cup {i[2] : i \in published}
       /\ \/ \E told \in SUBSET published :
               /\ Goto(b, "record")
               /\ task' = [i \in Items |-> IF i \in ready
                             THEN [Idle EXCEPT !.pc = IF i \in told THEN "ok" ELSE "fail"] ELSE task[i]]
               /\ UNCHANGED queue
          \/ queue[b].defers < MaxDeferrals /\ Defer(b)
          \/ \E again \in BOOLEAN :
               LET retry == again /\ queue[b].attempts + 1 < MaxAttempts IN
               /\ work' = [work EXCEPT ![b].pc = "close", ![b].throw = retry]
               /\ SetTasks(ready, IF retry THEN "retry" ELSE "fail")
               /\ UNCHANGED queue
  /\ UNCHANGED <<dbVars, apiVars>>

(* Only one item at a time is recorded outside the preparation. *)
MayRecord(i) == work[i[1]].pc = "prepare" \/ InState(i[1], Recording) = {}

MutWriteRow(i) ==           \* mutant: an outcome that is not ok is recorded too
  /\ task[i].pc \in {"ok", "draft", "fail"} /\ MayRecord(i)
  /\ rows' = [rows EXCEPT ![i] = @ + 1]
  /\ task' = [task EXCEPT ![i].pc = "item", ![i].keep = task[i].pc = "draft"]
  /\ UNCHANGED <<job, item, slot, live, queue, work, apiVars>>

WriteRow(i) ==
  /\ task[i].pc \in {"ok", "draft"} /\ MayRecord(i)
  /\ rows' = [rows EXCEPT ![i] = @ + 1]
  /\ task' = [task EXCEPT ![i].pc = "item", ![i].keep = task[i].pc = "draft"]
  /\ UNCHANGED <<job, item, slot, live, queue, work, apiVars>>

(* updateJobItemResult: the item, then the counts of its job. *)
WriteItem(i) ==
  /\ \/ task[i].pc = "item"
     \/ task[i].pc \in {"fail", "retry"} /\ MayRecord(i)
  /\ item' = [item EXCEPT ![i] = CASE task[i].pc = "item" -> "active"
                                   [] task[i].pc = "fail" -> "error"
                                   [] task[i].pc = "retry" -> "retrying"]
  /\ task' = [task EXCEPT ![i].pc = "count", ![i].keep = @ \/ task[i].pc = "retry"]
  /\ UNCHANGED <<job, slot, rows, live, queue, work, apiVars>>

ReadCounts(i) ==
  /\ task[i].pc = "count"
  /\ task' = [task EXCEPT ![i].pc = "tally", ![i].snap = Counts(JobOf[i[1]])]
  /\ UNCHANGED <<dbVars, live, queue, work, apiVars>>

WriteCounts(i) ==
  /\ task[i].pc = "tally"
  /\ Tally(JobOf[i[1]], task[i].snap)
  /\ task' = [task EXCEPT ![i] = [Idle EXCEPT !.pc = IF task[i].keep THEN "idle" ELSE "hand"]]
  /\ UNCHANGED <<item, slot, rows, live, queue, work, apiVars>>

(* consumeForCreate and releaseForCreate are one statement. *)
HandOver(i) ==
  /\ task[i].pc = "hand"
  /\ Release({i})
  /\ task' = [task EXCEPT ![i] = Idle]
  /\ UNCHANGED <<job, item, rows, live, queue, work, apiVars>>

Recorded(b) ==
  /\ work[b].pc \in {"close", "record"}
  /\ \A i \in ItemsIn(b) : task[i].pc = "idle"
  /\ IF work[b].throw THEN Throw(b) ELSE Finish(b)
  /\ UNCHANGED <<dbVars, live, apiVars>>

(* A statement of the run throws; the worker dies and the job stalls. *)
AttemptFails(b) ==
  /\ work[b].pc # "off"
  /\ Throw(b)
  /\ UNCHANGED <<dbVars, live, apiVars>>

WorkerDies(b) ==
  /\ work[b].pc # "off"
  /\ Forget(b)
  /\ queue' = [queue EXCEPT ![b].stalls = @ + 1,
                 ![b].st = IF queue[b].stalls + 1 > MaxStalls THEN "failed" ELSE "waiting"]
  /\ UNCHANGED <<dbVars, live, apiVars>>

-----------------------------------------------------------------------------
Seller(j) ==
  \/ Submit(j) \/ CountSlots(j) \/ InsertSlots(j) \/ DeleteUnstarted(j) \/ Enqueue(j) \/ RequestDies(j)
  \/ AskCancel(j) \/ CancelItems(j) \/ CancelJob(j) \/ CancelCounts(j) \/ CancelTally(j)
  \/ CancelReleases(j) \/ CancelDies(j)

Runs(b) ==
  \/ Pick(b) \/ MarkProcessing(b) \/ CheckStore(b) \/ ReserveAtRun(b) \/ CheckGroup(b)
  \/ Prepared(b) \/ WriteToEbay(b) \/ Recorded(b)
  \/ \E i \in ItemsIn(b) : PrepareItem(i) \/ WriteRow(i) \/ WriteItem(i) \/ ReadCounts(i)
                           \/ WriteCounts(i) \/ HandOver(i)

Next ==
  \/ \E j \in Jobs : Seller(j)
  \/ \E b \in Batches : Runs(b) \/ AttemptFails(b) \/ WorkerDies(b)

Spec == Init /\ [][Next]_vars

(* BullMQ keeps handing waiting jobs to its workers and a worker goes on   *)
(* with its statements; nothing makes a seller act.                        *)
FairSpec == Spec /\ \A b \in Batches : WF_vars(Runs(b))

-----------------------------------------------------------------------------
(* Every variable has its type; a batch spends no more attempts than       *)
(* BullMQ grants it.                                                       *)
TypeOK ==
  /\ job \in [Jobs -> [kind : JobKinds, status : {"gone", "pending", "processing"} \cup Finished, success : Nat, failed : Nat]]
  /\ item \in [Items -> {"none", "draft", "retrying"} \cup Settled]
  /\ slot \in [Items -> {"none", "reserved", "stuck", "released"}]
  /\ rows \in [Items -> Nat] /\ live \in SUBSET Asins
  /\ queue \in [Batches -> [st : {"absent", "waiting", "running", "done", "failed"},
                            attempts : 0..MaxAttempts, stalls : Nat, defers : 0..MaxDeferrals]]
  /\ work \in [Batches -> [pc : {"off", "mark", "store", "reserve", "group", "prepare", "write", "record", "close"},
                           budget : BOOLEAN, throw : BOOLEAN]]
  /\ task \in [Items -> [pc : Recording \cup {"idle", "todo", "ready", "fail", "retry", "draft", "ok"},
                         keep : BOOLEAN, snap : Nat \X Nat]]
  /\ req \in [Jobs -> {"new", "counting", "reserving", "refusing", "queueing", "sent", "refused", "dead"}]
  /\ stop \in [Jobs -> [pc : {"no", "items", "job", "count", "tally", "release", "done"},
                        ids : SUBSET Items, snap : Nat \X Nat]]

(* A cancelled job stays cancelled: a batch that was in flight, and the    *)
(* counts it goes on writing, never bring it back                          *)
(* (listings.service.ts, updateJobCounts and markJobProcessing).           *)
CancelledForGood == [][\A j \in Jobs : job[j].status = "cancelled" => job'[j].status = "cancelled"]_vars

(* However often a batch is retried, after a throw, a stall or a deferral  *)
(* and whatever it had already written, no item gets a second listing row  *)
(* (the duplicate check of prepareItem).                                   *)
RetryNeverListsTwice == \A i \in Items : rows[i] <= 1

(* A row of a live job exists only for an offer eBay published; and an     *)
(* item shown as created has its row.                                      *)
NoPhantomListing ==
  \A i \in Items :
    /\ rows[i] > 0 /\ Kind(i) # "draft" => i[2] \in live
    /\ item[i] = "active" => rows[i] > 0

(* A batch that BullMQ counts as done has settled every item it carried    *)
(* and has asked every plan slot back, unless the seller cancelled the     *)
(* job: a slot it still holds is one whose release the database refused    *)
(* and releaseSlot swallowed, never one that a retry, a stall, a deferral  *)
(* or a failed write forgot.                                               *)
DoneBatchIsSettled ==
  \A b \in Batches : queue[b].st = "done" /\ job[JobOf[b]].status # "cancelled" =>
    \A i \in Sent(b) : item[i] \in Settled /\ slot[i] # "reserved"

(* No item goes to eBay that was never counted against the plan: it holds  *)
(* its slot, or has handed it back (a failure of an earlier attempt, a     *)
(* cancel).  Only a scheduled group whose first attempt threw before it    *)
(* reserved goes uncounted.                                                *)
PublishIsCounted ==
  \A i \in Items :
    task[i].pc \in {"ready", "ok"} =>
      slot[i] # "none" \/ (Kind(i) = "scheduled" /\ queue[i[1]].attempts > 0)

(* When every item is settled and nobody is writing any more, the job      *)
(* shows as finished, so that its page stops waiting (updateJobCounts).    *)
SettledJobIsFinished ==
  \A j \in Jobs :
    /\ req[j] = "sent" /\ stop[j].pc \in {"no", "done"}
    /\ \A b \in BatchesOf(j) : work[b].pc = "off" /\ queue[b].st \in {"absent", "done"}
    /\ \A i \in ItemsOf(j) : item[i] \in Settled \cup {"none"}
    => job[j].status \in Finished

(* Every batch handed to the queue ends, by success or by failure. *)
BatchesEnd == \A b \in Batches : queue[b].st = "waiting" ~> queue[b].st \in {"done", "failed"}
=============================================================================
