----------------------------- MODULE ListingProofs -----------------------------
(***************************************************************************)
(* Bulk creation of listings, for any jobs, batches, items, limits and     *)
(* numbers of attempts.  The invariant is stated job by job (Requested),   *)
(* batch by batch (Queued) and item by item (Fits); a step of one batch    *)
(* leaves the items of the others alone, so that each proof looks at the   *)
(* one item the step is about.                                             *)
(***************************************************************************)
EXTENDS ListingJobs, FiniteSetTheorems, TLAPS

(***************************************************************************)
(* The inductive invariant.                                                *)
(***************************************************************************)
JobStatus == {"gone", "pending", "processing"} \cup Finished
Job == [kind : JobKinds, status : JobStatus, success : Nat, failed : Nat]
QueueSt == {"absent", "waiting", "running", "done", "failed"}
WorkPc == {"off", "mark", "store", "reserve", "group", "prepare", "write", "record", "close"}
TaskPc == Recording \cup {"idle", "todo", "ready", "fail", "retry", "draft", "ok"}
Work == [pc : WorkPc, budget : BOOLEAN, throw : BOOLEAN]
Stop == [pc : {"no", "items", "job", "count", "tally", "release", "done"}, ids : SUBSET Items, snap : Nat \X Nat]
Batch == [st : QueueSt, attempts : 0..MaxAttempts, stalls : Nat, defers : 0..MaxDeferrals]
Task == [pc : TaskPc, keep : BOOLEAN, snap : Nat \X Nat]

Types ==
  /\ job \in [Jobs -> Job]
  /\ item \in [Items -> {"none", "draft", "retrying"} \cup Settled]
  /\ slot \in [Items -> {"none", "reserved", "stuck", "released"}]
  /\ rows \in [Items -> Nat] /\ live \in SUBSET Asins
  /\ queue \in [Batches -> Batch]
  /\ work \in [Batches -> Work]
  /\ task \in [Items -> Task]
  /\ req \in [Jobs -> {"new", "counting", "reserving", "refusing", "queueing", "sent", "refused", "dead"}]
  /\ stop \in [Jobs -> Stop]

(* A job that is not submitted has nothing; one that is not sent has no    *)
(* batch on the queue; only an immediate job asks for its slots at once.   *)
Requested ==
  /\ \A j \in Jobs : req[j] = "new" =>
       /\ job[j].status = "gone"
       /\ \A i \in ItemsOf(j) : item[i] = "none" /\ rows[i] = 0 /\ slot[i] = "none"
  /\ \A j \in Jobs : req[j] \in {"counting", "reserving", "refusing"} => job[j].kind = "live"
  /\ \A b \in Batches : req[JobOf[b]] # "sent" => queue[b].st = "absent"

(* A batch has a worker while BullMQ counts it as running, and is not run  *)
(* once its attempts are spent.                                            *)
Queued(b) ==
  /\ work[b].pc # "off" <=> queue[b].st = "running"
  /\ work[b].pc = "off" => work[b] = Off
  /\ queue[b].st \in {"absent", "waiting", "running"} => queue[b].attempts < MaxAttempts
  /\ work[b].budget => work[b].pc = "prepare" /\ queue[b].defers < MaxDeferrals
  /\ work[b].throw => work[b].pc = "close"

(* What a worker may be doing with an item, by where its batch stands.     *)
MayBe(pc) == CASE pc = "prepare" -> Recording \cup {"idle", "todo", "ready", "fail", "draft"}
               [] pc = "write" -> {"idle", "ready"}
               [] pc = "record" -> Recording \cup {"idle", "ok", "fail"}
               [] pc = "close" -> Recording \cup {"idle", "fail", "retry"}
               [] OTHER -> {"idle"}
Worked(i) ==
  /\ task[i].pc \in MayBe(work[i[1]].pc)
  /\ task[i].pc # "idle" => item[i] # "none"
  /\ task[i].keep => task[i].pc \in Recording

(* What is on its way to be listed has no row yet.                         *)
ListedOnce(i) ==
  /\ rows[i] <= 1
  /\ task[i].pc \in {"ready", "ok", "draft"} => rows[i] = 0
ListedTruly(i) ==
  /\ task[i].pc = "draft" => Kind(i) = "draft"
  /\ task[i].pc \in {"ready", "ok"} => Kind(i) # "draft"
  /\ task[i].pc = "ok" => i[2] \in live
  /\ task[i].pc = "item" => rows[i] > 0
  /\ item[i] = "active" => rows[i] > 0
  /\ rows[i] > 0 /\ Kind(i) # "draft" => i[2] \in live

(* A slot that was taken is never untaken; a draft takes none, an          *)
(* immediate job takes its slots before it is queued, a scheduled group    *)
(* before it goes on in its first attempt.                                 *)
Counted(i) ==
  /\ Kind(i) = "draft" => slot[i] = "none"
  /\ Kind(i) = "live" /\ req[JobOf[i[1]]] \in {"queueing", "sent"} /\ item[i] # "none" => slot[i] # "none"
  /\ /\ Kind(i) = "scheduled" /\ queue[i[1]].attempts = 0 /\ item[i] # "none"
     /\ work[i[1]].pc \in {"group", "prepare", "write", "record"}
     => slot[i] # "none"

(* In a run that neither throws nor defers, an item that is left alone is  *)
(* settled and its slot asked back; so it is when the batch is done.       *)
Closed(i) == item[i] # "none" => item[i] \in Settled /\ slot[i] # "reserved"
Handed(i) ==
  /\ task[i].keep => Kind(i) = "draft" \/ work[i[1]].throw
  /\ task[i].pc = "retry" => work[i[1]].throw
  /\ task[i].pc \in {"count", "tally", "hand"} /\ ~work[i[1]].throw => item[i] \in Settled
  /\ /\ work[i[1]].pc \in {"prepare", "write", "record", "close"}
     /\ ~work[i[1]].throw /\ ~work[i[1]].budget /\ task[i].pc = "idle"
     => Closed(i)
  /\ queue[i[1]].st = "done" /\ job[JobOf[i[1]]].status # "cancelled" => Closed(i)

Fits(i) == Worked(i) /\ ListedOnce(i) /\ ListedTruly(i) /\ Counted(i) /\ Handed(i)

JobsInv == /\ Types /\ Requested
           /\ \A b \in Batches : Queued(b)
           /\ \A i \in Items : Fits(i)

(***************************************************************************)
(* Types.                                                                  *)
(***************************************************************************)
(* Where an item belongs.                                                  *)
LEMMA ItemFacts ==
  ASSUME NEW i \in Items
  PROVE  i[1] \in Batches /\ i[2] \in Asins /\ JobOf[i[1]] \in Jobs /\ i \in ItemsIn(i[1]) /\ i \in ItemsOf(JobOf[i[1]])
<1>1. PICK b \in Batches : i \in {b} \X AsinsOf[b]
  BY DEF Items
<1>2. i[1] = b /\ i[2] \in AsinsOf[b]
  BY <1>1
<1>3. QED
  BY <1>2, ListingJobsAssumption DEF Asins, ItemsIn, ItemsOf

(* Counting the items of a job gives numbers.                              *)
LEMMA CountsTyped == \A j \in Jobs : Counts(j) \in Nat \X Nat
<1>1. ASSUME NEW j \in Jobs, NEW st PROVE Count(j, st) \in Nat
  <2> DEFINE S == {i \in ItemsOf(j) : item[i] = st}
  <2>1. S \in SUBSET Items
    BY DEF ItemsOf
  <2>2. IsFiniteSet(S)
    BY <2>1, ListingJobsAssumption, FS_Subset
  <2>3. Cardinality(S) \in Nat
    BY <2>2, FS_CardinalityType
  <2>4. QED
    BY <2>3 DEF Count
<1>2. QED
  BY <1>1 DEF Counts

(* What becomes of the jobs in every step but the first and the last of a  *)
(* request: no kind changes, none comes or goes, cancelled ones stay so.   *)
JobsGoOn ==
  \A j \in Jobs : /\ job'[j].kind = job[j].kind
                  /\ job'[j].status = "gone" <=> job[j].status = "gone"
                  /\ job[j].status = "cancelled" => job'[j].status = "cancelled"

(* The second statement of updateJobCounts keeps a cancelled job cancelled *)
(* and a deleted one deleted, whatever counts it was given.                *)
LEMMA TallyKeeps ==
  ASSUME Types, NEW j \in Jobs, NEW snap \in Nat \X Nat, Tally(j, snap)
  PROVE  job' \in [Jobs -> Job] /\ JobsGoOn
<1> DEFINE total == Cardinality({i \in ItemsOf(j) : item[i] # "none"})
           status == IF snap[1] + snap[2] < total THEN "processing"
                     ELSE IF snap[2] = total THEN "failed" ELSE "completed"
           old == job[j].status
           st == IF old = "cancelled" THEN old ELSE status
           new == [kind |-> job[j].kind, status |-> st, success |-> snap[1], failed |-> snap[2]]
<1>1. job \in [Jobs -> Job] /\ job[j] \in Job /\ snap[1] \in Nat /\ snap[2] \in Nat
  BY DEF Types
<1>2. status \in {"processing", "failed", "completed"}
  OBVIOUS
<1>3. job' = [job EXCEPT ![j] = IF old = "gone" THEN job[j] ELSE new]
  BY DEF Tally
<1> HIDE DEF status
<1>4. /\ st \in JobStatus /\ (old # "gone" => st # "gone") /\ (old = "cancelled" => st = "cancelled")
  BY <1>2 DEF JobStatus, Finished
<1> HIDE DEF st
<1>5. new \in Job /\ new.kind = job[j].kind /\ new.status = st
  BY <1>1, <1>4 DEF Job
<1> HIDE DEF new
<1>6. job' \in [Jobs -> Job]
  BY <1>1, <1>3, <1>5
<1>7. JobsGoOn
  BY <1>1, <1>3, <1>4, <1>5 DEF JobsGoOn
<1>8. QED
  BY <1>6, <1>7

(* Setting the status of a job.                                            *)
LEMMA StatusTyped ==
  ASSUME Types, NEW j \in Jobs, NEW st \in JobStatus, job' = [job EXCEPT ![j].status = st]
  PROVE  /\ job' \in [Jobs -> Job]
         /\ \A k \in Jobs : job'[k].kind = job[k].kind /\ (k # j => job'[k] = job[k])
         /\ job'[j].status = st
<1>1. job \in [Jobs -> Job]
  BY DEF Types
<1>2. [job[j] EXCEPT !.status = st] \in Job
  BY <1>1 DEF Job
<1>3. job' \in [Jobs -> Job]
  BY <1>1, <1>2
<1>4. QED
  BY <1>1, <1>3 DEF Job

(* How a batch stands after it is let go of.                               *)
LEMMA ForgetTyped ==
  ASSUME Types, NEW b \in Batches, Forget(b)
  PROVE  /\ work' \in [Batches -> Work] /\ task' \in [Items -> Task]
         /\ work'[b] = Off /\ \A c \in Batches : c # b => work'[c] = work[c]
         /\ \A i \in Items : task'[i] = IF i[1] = b THEN Idle ELSE task[i]
<1>1. Off \in Work /\ Idle \in Task
  BY DEF Off, Idle, Work, Task, WorkPc, TaskPc
<1>2. work \in [Batches -> Work] /\ task \in [Items -> Task]
  BY DEF Types
<1>3. work' = [work EXCEPT ![b] = Off] /\ task' = [i \in Items |-> IF i[1] = b THEN Idle ELSE task[i]]
  BY DEF Forget
<1>4. QED
  BY <1>1, <1>2, <1>3

(* Moving a batch on.                                                      *)
LEMMA GotoTyped ==
  ASSUME Types, NEW b \in Batches, NEW pc \in WorkPc, Goto(b, pc)
  PROVE  /\ work' \in [Batches -> Work]
         /\ work'[b].pc = pc /\ work'[b].budget = work[b].budget /\ work'[b].throw = work[b].throw
         /\ \A c \in Batches : c # b => work'[c] = work[c]
<1>1. work \in [Batches -> Work]
  BY DEF Types
<1>2. [work[b] EXCEPT !.pc = pc] \in Work
  BY <1>1 DEF Work
<1>3. work' = [work EXCEPT ![b].pc = pc]
  BY DEF Goto
<1>4. QED
  BY <1>1, <1>2, <1>3 DEF Work

(* Setting what is done with some items.                                   *)
LEMMA TasksTyped ==
  ASSUME Types, NEW is, NEW pc \in TaskPc, SetTasks(is, pc)
  PROVE  /\ task' \in [Items -> Task]
         /\ \A i \in Items : /\ i \in is => task'[i].pc = pc /\ ~task'[i].keep
                             /\ i \notin is => task'[i] = task[i]
<1>1. task \in [Items -> Task]
  BY DEF Types
<1> DEFINE new == [Idle EXCEPT !.pc = pc]
<1>2. Idle \in Task /\ ~Idle.keep
  BY DEF Idle, Task, TaskPc
<1>3. new \in Task /\ new.pc = pc /\ new.keep = Idle.keep
  BY <1>2 DEF Task
<1>4. task' = [i \in Items |-> IF i \in is THEN new ELSE task[i]]
  BY DEF SetTasks
<1> HIDE DEF new
<1>6. QED
  BY <1>1, <1>2, <1>3, <1>4

(* Moving one item on.                                                     *)
LEMMA TaskMoved ==
  ASSUME Types, NEW i \in Items, NEW pc \in TaskPc, NEW keep \in BOOLEAN,
         task' = [task EXCEPT ![i].pc = pc, ![i].keep = keep]
  PROVE  /\ task' \in [Items -> Task] /\ task'[i].pc = pc /\ task'[i].keep = keep
         /\ \A k \in Items : k # i => task'[k] = task[k]
<1>1. task \in [Items -> Task]
  BY DEF Types
<1>2. [[task[i] EXCEPT !.pc = pc] EXCEPT !.keep = keep] \in Task
  BY <1>1 DEF Task
<1>3. task' \in [Items -> Task]
  BY <1>1, <1>2
<1>4. QED
  BY <1>1, <1>3 DEF Task

(* Writing a row.                                                          *)
LEMMA RowEffect ==
  ASSUME Types, NEW i \in Items, WriteRow(i)
  PROVE  /\ rows' \in [Items -> Nat] /\ rows'[i] = rows[i] + 1
         /\ \A k \in Items : k # i => rows'[k] = rows[k] /\ task'[k] = task[k]
         /\ task' \in [Items -> Task] /\ task'[i].pc = "item"
         /\ task[i].pc \in {"ok", "draft"} /\ (task'[i].keep <=> task[i].pc = "draft")
<1>1. rows \in [Items -> Nat] /\ rows[i] + 1 \in Nat
  BY DEF Types
<1>2. rows' = [rows EXCEPT ![i] = rows[i] + 1] /\ task[i].pc \in {"ok", "draft"}
  BY DEF WriteRow
<1> DEFINE keep == task[i].pc = "draft"
<1>3. task' = [task EXCEPT ![i].pc = "item", ![i].keep = keep] /\ keep \in BOOLEAN /\ "item" \in TaskPc
  BY DEF WriteRow, TaskPc, Recording
<1> HIDE DEF keep
<1>4. /\ task' \in [Items -> Task] /\ task'[i].pc = "item" /\ task'[i].keep = keep
      /\ \A k \in Items : k # i => task'[k] = task[k]
  BY <1>3, TaskMoved
<1>5. QED
  BY <1>1, <1>2, <1>4 DEF keep

(* Writing the item a result.                                              *)
LEMMA ItemEffect ==
  ASSUME Types, NEW i \in Items, WriteItem(i)
  PROVE  /\ item' \in [Items -> {"none", "draft", "retrying"} \cup Settled]
         /\ task[i].pc \in {"item", "fail", "retry"}
         /\ item'[i] = CASE task[i].pc = "item" -> "active" [] task[i].pc = "fail" -> "error" [] task[i].pc = "retry" -> "retrying"
         /\ \A k \in Items : k # i => item'[k] = item[k] /\ task'[k] = task[k]
         /\ task' \in [Items -> Task] /\ task'[i].pc = "count"
         /\ (task'[i].keep <=> task[i].keep \/ task[i].pc = "retry")
<1> DEFINE keep == task[i].keep \/ task[i].pc = "retry"
           st == CASE task[i].pc = "item" -> "active" [] task[i].pc = "fail" -> "error" [] task[i].pc = "retry" -> "retrying"
<1>1. task \in [Items -> Task] /\ task[i].keep \in BOOLEAN /\ item \in [Items -> {"none", "draft", "retrying"} \cup Settled]
  BY DEF Types, Task
<1>2. task[i].pc \in {"item", "fail", "retry"}
  BY DEF WriteItem
<1>3. st \in {"active", "error", "retrying"}
  BY <1>2
<1>4. item' = [item EXCEPT ![i] = st]
  BY DEF WriteItem
<1>5. "count" \in TaskPc /\ keep \in BOOLEAN
  BY <1>1 DEF TaskPc, Recording
<1>6. task' = [task EXCEPT ![i].pc = "count", ![i].keep = keep]
  BY <1>1 DEF WriteItem, Task
<1> HIDE DEF keep, st
<1>7. /\ task' \in [Items -> Task] /\ task'[i].pc = "count" /\ task'[i].keep = keep
      /\ \A k \in Items : k # i => task'[k] = task[k]
  BY <1>5, <1>6, TaskMoved
<1>8. item' \in [Items -> {"none", "draft", "retrying"} \cup Settled]
  BY <1>1, <1>3, <1>4 DEF Settled
<1>9. item'[i] = st /\ \A k \in Items : k # i => item'[k] = item[k]
  BY <1>1, <1>4
<1>10. QED
  BY <1>2, <1>7, <1>8, <1>9 DEF keep, st

(* Reading the counts of its job.                                          *)
LEMMA SnapEffect ==
  ASSUME Types, NEW i \in Items, ReadCounts(i)
  PROVE  /\ task' \in [Items -> Task] /\ task[i].pc = "count" /\ task'[i].pc = "tally" /\ task'[i].keep = task[i].keep
         /\ \A k \in Items : k # i => task'[k] = task[k]
<1> DEFINE snap == Counts(JobOf[i[1]])
<1>1. task \in [Items -> Task] /\ snap \in Nat \X Nat
  BY ItemFacts, CountsTyped DEF Types
<1>2. task' = [task EXCEPT ![i].pc = "tally", ![i].snap = snap] /\ task[i].pc = "count"
  BY DEF ReadCounts
<1> HIDE DEF snap
<1>3. [[task[i] EXCEPT !.pc = "tally"] EXCEPT !.snap = snap] \in Task
  <2>1. task[i] \in Task /\ "tally" \in TaskPc
    BY <1>1 DEF TaskPc, Recording
  <2>2. QED
    BY <1>1, <2>1 DEF Task
<1>4. task' \in [Items -> Task]
  BY <1>1, <1>2, <1>3
<1>5. QED
  BY <1>1, <1>2, <1>4 DEF Task

(* Writing the counts of its job.                                          *)
LEMMA TallyEffect ==
  ASSUME Types, NEW i \in Items, WriteCounts(i)
  PROVE  /\ job' \in [Jobs -> Job] /\ JobsGoOn /\ task' \in [Items -> Task] /\ task[i].pc = "tally"
         /\ task'[i].pc = (IF task[i].keep THEN "idle" ELSE "hand") /\ ~task'[i].keep
         /\ \A k \in Items : k # i => task'[k] = task[k]
<1>1. task \in [Items -> Task] /\ task[i].snap \in Nat \X Nat /\ task[i].keep \in BOOLEAN
  BY DEF Types, Task
<1>2. job' \in [Jobs -> Job] /\ JobsGoOn
  BY <1>1, ItemFacts, TallyKeeps DEF WriteCounts
<1> DEFINE p == IF task[i].keep THEN "idle" ELSE "hand"
           new == [Idle EXCEPT !.pc = p]
<1>3. p \in TaskPc
  BY DEF TaskPc, Recording
<1>4. task' = [task EXCEPT ![i] = new] /\ task[i].pc = "tally"
  BY DEF WriteCounts
<1> HIDE DEF p
<1>5. new \in Task /\ new.pc = p /\ ~new.keep
  <2>1. Idle \in Task /\ ~Idle.keep
    BY DEF Idle, Task, TaskPc
  <2>2. QED
    BY <1>3, <2>1 DEF Task
<1> HIDE DEF new
<1>6. /\ task' \in [Items -> Task] /\ task'[i].pc = p /\ ~task'[i].keep
      /\ \A k \in Items : k # i => task'[k] = task[k]
  BY <1>1, <1>4, <1>5
<1>7. QED
  BY <1>2, <1>4, <1>6 DEF p

(* Handing its slot back.                                                  *)
LEMMA HandEffect ==
  ASSUME Types, NEW i \in Items, HandOver(i)
  PROVE  /\ task' \in [Items -> Task] /\ task[i].pc = "hand" /\ task'[i] = Idle
         /\ slot' \in [Items -> {"none", "reserved", "stuck", "released"}]
         /\ slot'[i] # "reserved" /\ (slot'[i] = "none" <=> slot[i] = "none")
         /\ \A k \in Items : k # i => task'[k] = task[k] /\ slot'[k] = slot[k]
<1>1. /\ task \in [Items -> Task] /\ Idle \in Task /\ slot \in [Items -> {"none", "reserved", "stuck", "released"}]
  BY DEF Types, Idle, Task, TaskPc
<1>2. QED
  BY <1>1 DEF HandOver, Release, Held

(* What the steps that end a run do to the queue.                          *)
LEMMA QueueEffect ==
  ASSUME Types, NEW b \in Batches
  PROVE  /\ \A st \in QueueSt : queue' = [queue EXCEPT ![b].st = st] =>
              /\ queue' \in [Batches -> Batch] /\ queue'[b].st = st
              /\ queue'[b].attempts = queue[b].attempts /\ queue'[b].defers = queue[b].defers
              /\ \A c \in Batches : c # b => queue'[c] = queue[c]
         /\ Throw(b) /\ queue[b].attempts < MaxAttempts =>
              /\ queue' \in [Batches -> Batch] /\ queue'[b].attempts = queue[b].attempts + 1
              /\ queue'[b].st \in {"failed", "waiting"}
              /\ queue'[b].st = "waiting" => queue'[b].attempts < MaxAttempts
              /\ \A c \in Batches : c # b => queue'[c] = queue[c]
         /\ Defer(b) /\ queue[b].defers < MaxDeferrals =>
              /\ queue' \in [Batches -> Batch] /\ queue'[b].st = "waiting"
              /\ queue'[b].attempts = queue[b].attempts
              /\ \A c \in Batches : c # b => queue'[c] = queue[c]
         /\ WorkerDies(b) =>
              /\ queue' \in [Batches -> Batch] /\ queue'[b].st \in {"failed", "waiting"}
              /\ queue'[b].attempts = queue[b].attempts
              /\ \A c \in Batches : c # b => queue'[c] = queue[c]
<1>1. /\ queue \in [Batches -> Batch] /\ queue[b] \in Batch
      /\ queue[b].attempts \in 0..MaxAttempts /\ queue[b].stalls \in Nat /\ queue[b].defers \in 0..MaxDeferrals
      /\ MaxAttempts \in Nat /\ MaxDeferrals \in Nat
  BY ListingJobsAssumption DEF Types, Batch
<1>2. ASSUME NEW st \in QueueSt, queue' = [queue EXCEPT ![b].st = st]
      PROVE  /\ queue' \in [Batches -> Batch] /\ queue'[b].st = st
             /\ queue'[b].attempts = queue[b].attempts /\ queue'[b].defers = queue[b].defers
             /\ \A c \in Batches : c # b => queue'[c] = queue[c]
  <2>1. [queue[b] EXCEPT !.st = st] \in Batch
    BY <1>1 DEF Batch
  <2>2. QED
    BY <1>1, <1>2, <2>1 DEF Batch
<1>3. ASSUME Throw(b), queue[b].attempts < MaxAttempts
      PROVE  /\ queue' \in [Batches -> Batch] /\ queue'[b].attempts = queue[b].attempts + 1
             /\ queue'[b].st \in {"failed", "waiting"}
             /\ queue'[b].st = "waiting" => queue'[b].attempts < MaxAttempts
             /\ \A c \in Batches : c # b => queue'[c] = queue[c]
  <2> DEFINE n == queue[b].attempts + 1
             st == IF n >= MaxAttempts THEN "failed" ELSE "waiting"
  <2>1. n \in 0..MaxAttempts /\ st \in QueueSt /\ st \in {"failed", "waiting"} /\ (st = "waiting" => n < MaxAttempts)
    BY <1>1, <1>3 DEF QueueSt
  <2>2. queue' = [queue EXCEPT ![b].attempts = n, ![b].st = st]
    BY <1>3 DEF Throw
  <2>3. n = queue[b].attempts + 1
    OBVIOUS
  <2> HIDE DEF n, st
  <2>4. [[queue[b] EXCEPT !.attempts = n] EXCEPT !.st = st] \in Batch
    BY <1>1, <2>1 DEF Batch
  <2>5. queue' \in [Batches -> Batch] /\ queue'[b].attempts = n /\ queue'[b].st = st
        /\ \A c \in Batches : c # b => queue'[c] = queue[c]
    BY <1>1, <2>2, <2>4 DEF Batch
  <2>6. QED
    BY <2>1, <2>3, <2>5
<1>4. ASSUME Defer(b), queue[b].defers < MaxDeferrals
      PROVE  /\ queue' \in [Batches -> Batch] /\ queue'[b].st = "waiting"
             /\ queue'[b].attempts = queue[b].attempts
             /\ \A c \in Batches : c # b => queue'[c] = queue[c]
  <2> DEFINE n == queue[b].defers + 1
  <2>1. n \in 0..MaxDeferrals
    BY <1>1, <1>4
  <2>2. queue' = [queue EXCEPT ![b].st = "waiting", ![b].defers = n]
    BY <1>1, <1>4 DEF Defer, Batch
  <2> HIDE DEF n
  <2>3. [[queue[b] EXCEPT !.st = "waiting"] EXCEPT !.defers = n] \in Batch
    BY <1>1, <2>1 DEF Batch, QueueSt
  <2>4. QED
    BY <1>1, <2>2, <2>3 DEF Batch
<1>5. ASSUME WorkerDies(b)
      PROVE  /\ queue' \in [Batches -> Batch] /\ queue'[b].st \in {"failed", "waiting"}
             /\ queue'[b].attempts = queue[b].attempts
             /\ \A c \in Batches : c # b => queue'[c] = queue[c]
  <2> DEFINE n == queue[b].stalls + 1
             st == IF n > MaxStalls THEN "failed" ELSE "waiting"
  <2>1. n \in Nat /\ st \in QueueSt /\ st \in {"failed", "waiting"}
    BY <1>1 DEF QueueSt
  <2>2. queue' = [queue EXCEPT ![b].stalls = n, ![b].st = st]
    BY <1>5 DEF WorkerDies
  <2> HIDE DEF n, st
  <2>3. [[queue[b] EXCEPT !.stalls = n] EXCEPT !.st = st] \in Batch
    BY <1>1, <2>1 DEF Batch
  <2>4. QED
    BY <1>1, <2>1, <2>2, <2>3 DEF Batch
<1>6. QED
  BY <1>2, <1>3, <1>4, <1>5

(* What a submission leaves of the job.                                    *)
LEMMA SubmitEffect ==
  ASSUME Types, NEW j \in Jobs, Submit(j)
  PROVE  /\ job' \in [Jobs -> Job] /\ \A k \in Jobs : k # j => job'[k] = job[k]
         /\ job'[j].status \in {"completed", "pending"}
         /\ item' \in [Items -> {"none", "draft", "retrying"} \cup Settled]
         /\ \A i \in Items : /\ i \notin ItemsOf(j) => item'[i] = item[i]
                             /\ item'[i] = item[i] \/ item'[i] = "draft"
         /\ req' \in [Jobs -> {"new", "counting", "reserving", "refusing", "queueing", "sent", "refused", "dead"}]
         /\ req[j] = "new" /\ req'[j] \in {"sent", "queueing", "counting"}
         /\ req'[j] = "sent" => item' = item
         /\ req'[j] = "queueing" => job'[j].kind # "live"
         /\ req'[j] = "counting" => job'[j].kind = "live"
         /\ \A k \in Jobs : k # j => req'[k] = req[k]
<1> DEFINE fresh == {i \in ItemsOf(j) : ~Listed(i[2])}
<1>1. PICK kind \in KindsOf[j] :
        /\ job' = [job EXCEPT ![j].kind = kind, ![j].status = IF fresh = {} THEN "completed" ELSE "pending"]
        /\ item' = [i \in Items |-> IF i \in fresh THEN "draft" ELSE item[i]]
        /\ req' = [req EXCEPT ![j] = CASE fresh = {} -> "sent"
                                       [] fresh # {} /\ kind # "live" -> "queueing"
                                       [] OTHER -> "counting"]
  BY DEF Submit
<1>2. kind \in JobKinds /\ \A i \in fresh : i \in ItemsOf(j)
  BY ListingJobsAssumption
<1>3. fresh = {} \/ fresh # {}
  OBVIOUS
<1> HIDE DEF fresh
<1>4. job \in [Jobs -> Job] /\ job[j] \in Job
  BY DEF Types
<1> DEFINE st == IF fresh = {} THEN "completed" ELSE "pending"
<1>5. st \in {"completed", "pending"} /\ st \in JobStatus
  BY DEF JobStatus, Finished
<1>6. job' = [job EXCEPT ![j].kind = kind, ![j].status = st]
  BY <1>1
<1> HIDE DEF st
<1>7. [[job[j] EXCEPT !.kind = kind] EXCEPT !.status = st] \in Job
  BY <1>2, <1>4, <1>5 DEF Job
<1>8. /\ job' \in [Jobs -> Job] /\ \A k \in Jobs : k # j => job'[k] = job[k]
      /\ job'[j].kind = kind /\ job'[j].status = st
  BY <1>4, <1>6, <1>7 DEF Job
<1>9. /\ item' \in [Items -> {"none", "draft", "retrying"} \cup Settled]
      /\ \A i \in Items : /\ i \notin ItemsOf(j) => item'[i] = item[i]
                          /\ item'[i] = item[i] \/ item'[i] = "draft"
  BY <1>1, <1>2 DEF Types
<1>10. fresh = {} => item' = item
  BY <1>1 DEF Types
<1> DEFINE to == CASE fresh = {} -> "sent"
                   [] fresh # {} /\ kind # "live" -> "queueing"
                   [] OTHER -> "counting"
<1>11. /\ to \in {"sent", "queueing", "counting"}
       /\ to = "sent" => fresh = {}
       /\ to = "queueing" => kind # "live"
       /\ to = "counting" => kind = "live"
  BY <1>3
<1>12. req' = [req EXCEPT ![j] = to]
  BY <1>1
<1> HIDE DEF to
<1>13. /\ req' \in [Jobs -> {"new", "counting", "reserving", "refusing", "queueing", "sent", "refused", "dead"}]
       /\ req'[j] = to /\ \A k \in Jobs : k # j => req'[k] = req[k]
  BY <1>11, <1>12 DEF Types
<1>14. req[j] = "new"
  BY DEF Submit
<1>15. QED
  BY <1>5, <1>8, <1>9, <1>10, <1>11, <1>13, <1>14

(* What a refused request deletes.                                         *)
LEMMA DeleteEffect ==
  ASSUME Types, NEW j \in Jobs, DeleteUnstarted(j)
  PROVE  /\ job' \in [Jobs -> Job] /\ \A k \in Jobs : job'[k].kind = job[k].kind /\ (k # j => job'[k] = job[k])
         /\ job'[j] = job[j] \/ (job[j].status = "pending" /\ job'[j].status = "gone")
         /\ item' \in [Items -> {"none", "draft", "retrying"} \cup Settled]
         /\ \A i \in Items : item'[i] = item[i] \/ (i \in ItemsOf(j) /\ item'[i] = "none")
<1>1. job \in [Jobs -> Job] /\ item \in [Items -> {"none", "draft", "retrying"} \cup Settled]
  BY DEF Types
<1>2. CASE UNCHANGED <<job, item>>
  BY <1>1, <1>2
<1>3. CASE /\ job[j].status = "pending" /\ job' = [job EXCEPT ![j].status = "gone"]
           /\ item' = [i \in Items |-> IF i \in ItemsOf(j) THEN "none" ELSE item[i]]
  <2>1. /\ job' \in [Jobs -> Job] /\ \A k \in Jobs : job'[k].kind = job[k].kind /\ (k # j => job'[k] = job[k])
        /\ job'[j].status = "gone"
    BY <1>3, StatusTyped DEF JobStatus
  <2>2. QED
    BY <1>1, <1>3, <2>1
<1>4. QED
  BY <1>2, <1>3 DEF DeleteUnstarted

(* Reserving and releasing.                                                *)
LEMMA SlotEffect ==
  ASSUME Types, NEW is
  PROVE  /\ Reserve(is) =>
              /\ slot' \in [Items -> {"none", "reserved", "stuck", "released"}]
              /\ \A i \in Items : /\ i \notin is => slot'[i] = slot[i]
                                  /\ i \in is => slot'[i] # "none"
                                  /\ slot[i] # "none" => slot'[i] = slot[i]
         /\ Release(is) =>
              /\ slot' \in [Items -> {"none", "reserved", "stuck", "released"}]
              /\ \A i \in Items : slot'[i] = slot[i] \/ (slot[i] \in Held /\ slot'[i] \in {"stuck", "released"})
BY DEF Types, Reserve, Release, Held

(* A cancel changes jobs and items only.                                   *)
LEMMA CancelTypes ==
  ASSUME Types, NEW j \in Jobs,
         AskCancel(j) \/ CancelItems(j) \/ CancelJob(j) \/ CancelCounts(j) \/ CancelTally(j) \/ CancelReleases(j) \/ CancelDies(j)
  PROVE  Types' /\ JobsGoOn
<1> USE DEF dbVars
<1>1. /\ stop \in [Jobs -> Stop] /\ stop[j] \in Stop /\ job \in [Jobs -> Job] /\ job[j] \in Job
      /\ item \in [Items -> {"none", "draft", "retrying"} \cup Settled]
  BY DEF Types
<1>2. [NoStop EXCEPT !.pc = "done"] \in Stop /\ stop[j].snap \in Nat \X Nat
  BY <1>1 DEF Stop, NoStop
<1>3. ASSUME job' = job PROVE JobsGoOn
  BY <1>3 DEF JobsGoOn
<1>4. CASE AskCancel(j)
  <2>1. [stop[j] EXCEPT !.pc = "items"] \in Stop
    BY <1>1 DEF Stop
  <2>2. stop' \in [Jobs -> Stop]
    BY <1>1, <1>4, <2>1 DEF AskCancel
  <2>3. QED
    BY <1>3, <1>4, <2>2 DEF AskCancel, Types
<1>5. CASE CancelItems(j)
  <2> DEFINE open == {i \in Known(j) : item[i] \notin Settled}
  <2>1. open \in SUBSET Items
    BY DEF Known, ItemsOf
  <2>2. /\ stop' = [stop EXCEPT ![j].pc = "job", ![j].ids = open]
        /\ item' = [i \in Items |-> IF i \in open THEN "error" ELSE item[i]]
        /\ UNCHANGED <<job, slot, rows, live, queue, work, task, req>>
    BY <1>5 DEF CancelItems
  <2> HIDE DEF open
  <2>3. [[stop[j] EXCEPT !.pc = "job"] EXCEPT !.ids = open] \in Stop
    BY <1>1, <2>1 DEF Stop
  <2>4. stop' \in [Jobs -> Stop]
    BY <1>1, <2>2, <2>3
  <2>5. item' \in [Items -> {"none", "draft", "retrying"} \cup Settled]
    BY <1>1, <2>2 DEF Settled
  <2>6. QED
    BY <1>3, <2>2, <2>4, <2>5 DEF Types
<1>6. CASE CancelJob(j)
  <2> DEFINE st == IF job[j].status = "gone" THEN "gone" ELSE "cancelled"
  <2>1. job' = [job EXCEPT ![j].status = st] /\ st \in JobStatus
    BY <1>1, <1>6 DEF CancelJob, JobStatus, Finished, Job
  <2>2. (st = "gone" <=> job[j].status = "gone") /\ (job[j].status = "cancelled" => st = "cancelled")
    OBVIOUS
  <2> HIDE DEF st
  <2>3. job' \in [Jobs -> Job] /\ JobsGoOn
    BY <2>1, <2>2, StatusTyped DEF JobsGoOn
  <2>4. [stop[j] EXCEPT !.pc = "count"] \in Stop
    BY <1>1 DEF Stop
  <2>5. stop' \in [Jobs -> Stop]
    BY <1>1, <1>6, <2>4 DEF CancelJob
  <2>6. QED
    BY <1>6, <2>3, <2>5 DEF CancelJob, Types
<1>7. CASE CancelCounts(j)
  <2> DEFINE snap == Counts(j)
  <2>1. stop' = [stop EXCEPT ![j].pc = "tally", ![j].snap = snap] /\ snap \in Nat \X Nat
    BY <1>7, CountsTyped DEF CancelCounts
  <2> HIDE DEF snap
  <2>2. [[stop[j] EXCEPT !.pc = "tally"] EXCEPT !.snap = snap] \in Stop
    BY <1>1, <2>1 DEF Stop
  <2>3. stop' \in [Jobs -> Stop]
    BY <1>1, <2>1, <2>2
  <2>4. QED
    BY <1>3, <1>7, <2>3 DEF CancelCounts, Types
<1>8. CASE CancelTally(j)
  <2> DEFINE zero == <<0, 0>>
  <2>1. job' \in [Jobs -> Job] /\ JobsGoOn
    BY <1>2, <1>8, TallyKeeps DEF CancelTally
  <2>2. stop' = [stop EXCEPT ![j].pc = "release", ![j].snap = zero] /\ zero \in Nat \X Nat
    BY <1>8 DEF CancelTally
  <2> HIDE DEF zero
  <2>3. [[stop[j] EXCEPT !.pc = "release"] EXCEPT !.snap = zero] \in Stop
    BY <1>1, <2>2 DEF Stop
  <2>4. stop' \in [Jobs -> Stop]
    BY <1>1, <2>2, <2>3
  <2>5. QED
    BY <1>8, <2>1, <2>4 DEF CancelTally, Types
<1>9. CASE CancelReleases(j)
  <2>1. stop' \in [Jobs -> Stop]
    BY <1>1, <1>2, <1>9 DEF CancelReleases
  <2>2. slot' \in [Items -> {"none", "reserved", "stuck", "released"}]
    BY <1>9, SlotEffect DEF CancelReleases
  <2>3. QED
    BY <1>3, <1>9, <2>1, <2>2 DEF CancelReleases, Types
<1>10. CASE CancelDies(j)
  <2>1. stop' \in [Jobs -> Stop]
    BY <1>1, <1>2, <1>10 DEF CancelDies
  <2>2. QED
    BY <1>3, <1>10, <2>1 DEF CancelDies, Types
<1>11. QED
  BY <1>4, <1>5, <1>6, <1>7, <1>8, <1>9, <1>10

(* The request that creates a job keeps the types.                         *)
LEMMA RequestTypes ==
  ASSUME Types, NEW j \in Jobs,
         Submit(j) \/ CountSlots(j) \/ InsertSlots(j) \/ DeleteUnstarted(j) \/ Enqueue(j) \/ RequestDies(j)
  PROVE  Types'
<1> USE DEF dbVars
<1> DEFINE ReqPc == {"new", "counting", "reserving", "refusing", "queueing", "sent", "refused", "dead"}
<1>1. ASSUME NEW pc \in ReqPc, req' = [req EXCEPT ![j] = pc] PROVE req' \in [Jobs -> ReqPc]
  BY <1>1 DEF Types
<1>2. CASE Submit(j)
  BY <1>2, SubmitEffect DEF Submit, Types
<1>3. CASE CountSlots(j)
  <2>1. req' \in [Jobs -> ReqPc]
    BY <1>3 DEF CountSlots, Types
  <2>2. QED
    BY <1>3, <2>1 DEF CountSlots, Types
<1>4. CASE InsertSlots(j)
  BY <1>1, <1>4, SlotEffect DEF InsertSlots, Types
<1>5. CASE DeleteUnstarted(j)
  BY <1>1, <1>5, DeleteEffect DEF DeleteUnstarted, Types
<1>6. CASE Enqueue(j)
  <2>1. \A b \in Batches : queue[b] \in Batch /\ [queue[b] EXCEPT !.st = "waiting"] \in Batch
    BY DEF Types, Batch, QueueSt
  <2>2. queue' \in [Batches -> Batch]
    BY <1>6, <2>1 DEF Enqueue
  <2>3. QED
    BY <1>1, <1>6, <2>2 DEF Enqueue, Types
<1>7. CASE RequestDies(j)
  BY <1>1, <1>7 DEF RequestDies, Types
<1>8. QED
  BY <1>2, <1>3, <1>4, <1>5, <1>6, <1>7

(* What the call to eBay leaves: some items published, told or not; or the *)
(* batch deferred; or the call thrown, to be retried or not.               *)
LEMMA WriteEffect ==
  ASSUME Types, NEW b \in Batches, WriteToEbay(b)
  PROVE  \E published \in SUBSET InState(b, {"ready"}) :
           /\ live' = live \cup {i[2] : i \in published}
           /\ \/ \E told \in SUBSET published :
                   /\ Goto(b, "record") /\ UNCHANGED queue
                   /\ task' \in [Items -> Task]
                   /\ \A i \in Items : /\ i \in told => task'[i].pc = "ok" /\ ~task'[i].keep
                                       /\ i \in InState(b, {"ready"}) \ told => task'[i].pc = "fail" /\ ~task'[i].keep
                                       /\ i \notin InState(b, {"ready"}) => task'[i] = task[i]
              \/ queue[b].defers < MaxDeferrals /\ Defer(b)
              \/ \E retry \in BOOLEAN :
                   /\ UNCHANGED queue
                   /\ work' \in [Batches -> Work] /\ work'[b].pc = "close" /\ work'[b].throw = retry
                   /\ work'[b].budget = work[b].budget
                   /\ \A c \in Batches : c # b => work'[c] = work[c]
                   /\ SetTasks(InState(b, {"ready"}), IF retry THEN "retry" ELSE "fail")
<1> DEFINE ready == InState(b, {"ready"})
<1>1. PICK published \in SUBSET ready :
        /\ live' = live \cup {i[2] : i \in published}
        /\ \/ \E told \in SUBSET published :
                /\ Goto(b, "record")
                /\ task' = [i \in Items |-> IF i \in ready
                              THEN [Idle EXCEPT !.pc = IF i \in told THEN "ok" ELSE "fail"] ELSE task[i]]
                /\ UNCHANGED queue
           \/ queue[b].defers < MaxDeferrals /\ Defer(b)
           \/ \E again \in BOOLEAN :
                LET retry == again /\ queue[b].attempts + 1 < MaxAttempts IN
                /\ work' = [work EXCEPT ![b].pc = "close", ![b].throw = retry]
                /\ SetTasks(ready, IF retry THEN "retry" ELSE "fail")
                /\ UNCHANGED queue
  BY DEF WriteToEbay
<1> HIDE DEF ready
<1>2. ASSUME NEW told \in SUBSET published,
             task' = [i \in Items |-> IF i \in ready
                        THEN [Idle EXCEPT !.pc = IF i \in told THEN "ok" ELSE "fail"] ELSE task[i]]
      PROVE  /\ task' \in [Items -> Task]
             /\ \A i \in Items : /\ i \in told => task'[i].pc = "ok" /\ ~task'[i].keep
                                 /\ i \in ready \ told => task'[i].pc = "fail" /\ ~task'[i].keep
                                 /\ i \notin ready => task'[i] = task[i]
  <2> DEFINE new(i) == [Idle EXCEPT !.pc = IF i \in told THEN "ok" ELSE "fail"]
  <2>1. Idle \in Task /\ ~Idle.keep /\ "ok" \in TaskPc /\ "fail" \in TaskPc
    BY DEF Idle, Task, TaskPc
  <2>2. \A i \in Items : /\ new(i) \in Task /\ ~new(i).keep
                         /\ i \in told => new(i).pc = "ok"
                         /\ i \notin told => new(i).pc = "fail"
    BY <2>1 DEF Task
  <2>3. task' = [i \in Items |-> IF i \in ready THEN new(i) ELSE task[i]]
    BY <1>2
  <2> HIDE DEF new
  <2>4. task \in [Items -> Task]
    BY DEF Types
  <2>5. QED
    BY <1>1, <2>2, <2>3, <2>4
<1>3. ASSUME NEW retry \in BOOLEAN, work' = [work EXCEPT ![b].pc = "close", ![b].throw = retry]
      PROVE  /\ work' \in [Batches -> Work] /\ work'[b].pc = "close" /\ work'[b].throw = retry
             /\ work'[b].budget = work[b].budget
             /\ \A c \in Batches : c # b => work'[c] = work[c]
  <2>1. work \in [Batches -> Work]
    BY DEF Types
  <2>2. [[work[b] EXCEPT !.pc = "close"] EXCEPT !.throw = retry] \in Work
    BY <2>1 DEF Work, WorkPc
  <2>3. QED
    BY <1>3, <2>1, <2>2 DEF Work
<1>4. CASE \E told \in SUBSET published :
             /\ Goto(b, "record")
             /\ task' = [i \in Items |-> IF i \in ready
                           THEN [Idle EXCEPT !.pc = IF i \in told THEN "ok" ELSE "fail"] ELSE task[i]]
             /\ UNCHANGED queue
  <2>1. PICK told \in SUBSET published :
          /\ Goto(b, "record")
          /\ task' = [i \in Items |-> IF i \in ready
                        THEN [Idle EXCEPT !.pc = IF i \in told THEN "ok" ELSE "fail"] ELSE task[i]]
          /\ UNCHANGED queue
    BY <1>4
  <2>2. /\ task' \in [Items -> Task]
        /\ \A i \in Items : /\ i \in told => task'[i].pc = "ok" /\ ~task'[i].keep
                            /\ i \in ready \ told => task'[i].pc = "fail" /\ ~task'[i].keep
                            /\ i \notin ready => task'[i] = task[i]
    BY <1>2, <2>1
  <2>3. QED
    BY <1>1, <2>1, <2>2 DEF ready
<1>5. CASE queue[b].defers < MaxDeferrals /\ Defer(b)
  BY <1>1, <1>5 DEF ready
<1>6. CASE \E again \in BOOLEAN :
             LET retry == again /\ queue[b].attempts + 1 < MaxAttempts IN
             /\ work' = [work EXCEPT ![b].pc = "close", ![b].throw = retry]
             /\ SetTasks(ready, IF retry THEN "retry" ELSE "fail")
             /\ UNCHANGED queue
  <2>1. PICK retry \in BOOLEAN : /\ work' = [work EXCEPT ![b].pc = "close", ![b].throw = retry]
                                 /\ SetTasks(ready, IF retry THEN "retry" ELSE "fail")
                                 /\ UNCHANGED queue
    BY <1>6
  <2>2. QED
    BY <1>1, <1>3, <2>1 DEF ready
<1>7. QED
  BY <1>1, <1>4, <1>5, <1>6

(* Publishing adds to the offers of eBay.                                  *)
LEMMA PublishedTyped ==
  ASSUME Types, NEW b \in Batches, NEW published \in SUBSET InState(b, {"ready"}),
         live' = live \cup {i[2] : i \in published}
  PROVE  live' \in SUBSET Asins /\ live \subseteq live' /\ \A i \in published : i[2] \in live'
BY ItemFacts DEF Types, InState, ItemsIn

(* The spent budget stops further items of the batch.                      *)
LEMMA BudgetEffect ==
  ASSUME Types, NEW b \in Batches, work' = [work EXCEPT ![b].budget = TRUE]
  PROVE  /\ work' \in [Batches -> Work] /\ work'[b].pc = work[b].pc /\ work'[b].throw = work[b].throw /\ work'[b].budget
         /\ \A c \in Batches : c # b => work'[c] = work[c]
<1>1. work \in [Batches -> Work]
  BY DEF Types
<1>2. [work[b] EXCEPT !.budget = TRUE] \in Work
  BY <1>1 DEF Work
<1>3. QED
  BY <1>1, <1>2 DEF Work

(* What a worker does with a batch keeps the types.                        *)
LEMMA BatchTypes ==
  ASSUME Types, NEW b \in Batches, Queued(b),
         \/ Pick(b) \/ MarkProcessing(b) \/ CheckStore(b) \/ ReserveAtRun(b) \/ CheckGroup(b)
         \/ Prepared(b) \/ WriteToEbay(b) \/ Recorded(b) \/ AttemptFails(b) \/ WorkerDies(b)
  PROVE  Types'
<1> USE DEF dbVars, apiVars
<1>1. "mark" \in WorkPc /\ "store" \in WorkPc /\ "close" \in WorkPc /\ "reserve" \in WorkPc /\ "group" \in WorkPc
      /\ "prepare" \in WorkPc /\ "write" \in WorkPc /\ "record" \in WorkPc
      /\ "done" \in QueueSt /\ "running" \in QueueSt
      /\ "fail" \in TaskPc /\ "todo" \in TaskPc /\ "retry" \in TaskPc
  BY DEF WorkPc, QueueSt, TaskPc
<1>2. ASSUME CloseAll(b) PROVE work' \in [Batches -> Work] /\ task' \in [Items -> Task]
  BY <1>1, <1>2, GotoTyped, TasksTyped DEF CloseAll
<1>3. ASSUME NEW pc \in {"mark", "store", "reserve", "group", "prepare", "write", "record"}, Goto(b, pc)
      PROVE  work' \in [Batches -> Work]
  BY <1>1, <1>3, GotoTyped
<1>4. CASE Pick(b)
  <2>1. queue' \in [Batches -> Batch]
    BY <1>1, <1>4, QueueEffect DEF Pick
  <2>2. work' \in [Batches -> Work]
    BY <1>3, <1>4 DEF Pick, Types
  <2>3. QED
    BY <1>4, <2>1, <2>2 DEF Pick, Types
<1>5. CASE MarkProcessing(b)
  <2> DEFINE st == IF job[JobOf[b]].status = "pending" THEN "processing" ELSE job[JobOf[b]].status
  <2>1. JobOf[b] \in Jobs /\ st \in JobStatus
    BY ListingJobsAssumption DEF Types, Job, JobStatus
  <2>2. job' = [job EXCEPT ![JobOf[b]].status = st]
    BY <1>5 DEF MarkProcessing
  <2> HIDE DEF st
  <2>3. job' \in [Jobs -> Job]
    BY <2>1, <2>2, StatusTyped
  <2>4. QED
    BY <1>3, <1>5, <2>3 DEF MarkProcessing, Types
<1>6. CASE CheckStore(b)
  BY <1>2, <1>3, <1>6 DEF CheckStore, Types
<1>7. CASE ReserveAtRun(b)
  <2>1. slot' \in [Items -> {"none", "reserved", "stuck", "released"}]
    BY <1>7, SlotEffect DEF ReserveAtRun, Types
  <2>2. work' \in [Batches -> Work] /\ task' \in [Items -> Task]
    BY <1>2, <1>3, <1>7 DEF ReserveAtRun, Types
  <2>3. QED
    BY <1>7, <2>1, <2>2 DEF ReserveAtRun, Types
<1>8. CASE CheckGroup(b)
  <2>1. SetTasks(Sent(b), "todo") => task' \in [Items -> Task]
    BY <1>1, TasksTyped
  <2>2. QED
    BY <1>2, <1>3, <1>8, <2>1 DEF CheckGroup, Types
<1>9. ASSUME UNCHANGED <<job, item, slot, rows, live, req, stop>>, Finish(b) PROVE Types'
  BY <1>1, <1>9, ForgetTyped, QueueEffect DEF Finish, Types
<1>10. ASSUME UNCHANGED <<job, item, slot, rows, req, stop>>, live' \in SUBSET Asins,
              Defer(b), queue[b].defers < MaxDeferrals
       PROVE  Types'
  BY <1>10, ForgetTyped, QueueEffect DEF Defer, Types
<1>11. ASSUME UNCHANGED <<job, item, slot, rows, live, req, stop>>, Throw(b), work[b].pc # "off" PROVE Types'
  <2>1. queue[b].attempts < MaxAttempts
    BY <1>11 DEF Queued
  <2>2. QED
    BY <1>11, <2>1, ForgetTyped, QueueEffect DEF Throw, Types
<1>12. CASE Prepared(b)
  <2>1. UNCHANGED <<job, item, slot, rows, live, req, stop>>
    BY <1>12 DEF Prepared
  <2>2. CASE work[b].budget
    BY <1>10, <1>12, <2>1, <2>2 DEF Prepared, Queued, Types
  <2>3. CASE Goto(b, "write") /\ UNCHANGED <<queue, task>>
    BY <1>3, <2>1, <2>3 DEF Types
  <2>4. QED
    BY <1>9, <1>12, <2>1, <2>2, <2>3 DEF Prepared
<1>13. CASE WriteToEbay(b)
  <2>1. UNCHANGED <<job, item, slot, rows, req, stop>>
    BY <1>13 DEF WriteToEbay
  <2>2. live' \in SUBSET Asins
    BY <1>13, WriteEffect, PublishedTyped
  <2>3. CASE queue[b].defers < MaxDeferrals /\ Defer(b)
    BY <1>10, <2>1, <2>2, <2>3
  <2>4. CASE task' \in [Items -> Task] /\ Goto(b, "record") /\ UNCHANGED queue
    BY <1>3, <2>1, <2>2, <2>4 DEF Types
  <2>5. CASE /\ UNCHANGED queue /\ work' \in [Batches -> Work]
             /\ \E retry \in BOOLEAN : SetTasks(InState(b, {"ready"}), IF retry THEN "retry" ELSE "fail")
    <3>1. task' \in [Items -> Task]
      BY <1>1, <2>5, TasksTyped
    <3>2. QED
      BY <2>1, <2>2, <2>5, <3>1 DEF Types
  <2>6. QED
    BY <1>13, <2>3, <2>4, <2>5, WriteEffect
<1>14. CASE Recorded(b)
  BY <1>9, <1>11, <1>14 DEF Recorded
<1>15. CASE AttemptFails(b)
  BY <1>11, <1>15 DEF AttemptFails
<1>16. CASE WorkerDies(b)
  BY <1>16, ForgetTyped, QueueEffect DEF WorkerDies, Types
<1>17. QED
  BY <1>4, <1>5, <1>6, <1>7, <1>8, <1>12, <1>13, <1>14, <1>15, <1>16

(* What a worker does with an item keeps the types.                        *)
LEMMA ItemTypes ==
  ASSUME Types, NEW i \in Items,
         PrepareItem(i) \/ WriteRow(i) \/ WriteItem(i) \/ ReadCounts(i) \/ WriteCounts(i) \/ HandOver(i)
  PROVE  Types'
<1> USE DEF dbVars, apiVars
<1>1. i[1] \in Batches
  BY ItemFacts
<1>2. CASE PrepareItem(i)
  <2>1. UNCHANGED <<job, item, slot, rows, live, queue, req, stop>>
    BY <1>2 DEF PrepareItem
  <2>2. task' \in [Items -> Task]
    <3>1. PICK pc \in {"fail", "draft", "ready", "idle"} : SetTasks({i}, pc)
      BY <1>2 DEF PrepareItem
    <3>2. pc \in TaskPc
      BY DEF TaskPc
    <3>3. QED
      BY <3>1, <3>2, TasksTyped
  <2>3. work' \in [Batches -> Work]
    BY <1>1, <1>2, BudgetEffect DEF PrepareItem, Types
  <2>4. QED
    BY <2>1, <2>2, <2>3 DEF Types
<1>3. CASE WriteRow(i)
  BY <1>3, RowEffect DEF WriteRow, Types
<1>4. CASE WriteItem(i)
  BY <1>4, ItemEffect DEF WriteItem, Types
<1>5. CASE ReadCounts(i)
  BY <1>5, SnapEffect DEF ReadCounts, Types
<1>6. CASE WriteCounts(i)
  BY <1>6, TallyEffect DEF WriteCounts, Types
<1>7. CASE HandOver(i)
  BY <1>7, HandEffect DEF HandOver, Types
<1>8. QED
  BY <1>2, <1>3, <1>4, <1>5, <1>6, <1>7


(***************************************************************************)
(* What is left alone.                                                     *)
(***************************************************************************)
(* An item that the step at most closes by a cancel: it keeps its task and *)
(* its rows, its batch stands where it stood, and its job goes on.         *)
Spared(i) ==
  LET b == i[1]
      j == JobOf[i[1]]
  IN /\ job'[j].kind = job[j].kind
     /\ job[j].status = "cancelled" => job'[j].status = "cancelled"
     /\ req'[j] \in {"queueing", "sent"} => req[j] \in {"queueing", "sent"}
     /\ live \subseteq live'
     /\ task'[i] = task[i] /\ rows'[i] = rows[i]
     /\ item'[i] = item[i] \/ (item[i] \in {"draft", "retrying"} /\ item'[i] = "error")
     /\ slot'[i] = slot[i] \/ (slot[i] \in Held /\ slot'[i] \in {"stuck", "released"})
     /\ work'[b].pc = work[b].pc /\ work'[b].throw = work[b].throw
     /\ work[b].budget => work'[b].budget
     /\ queue'[b].attempts = queue[b].attempts
     /\ queue'[b].st = "done" => queue[b].st = "done"

(* Such an item still fits.                                                *)
LEMMA SparedFits ==
  ASSUME Types, NEW i \in Items, Fits(i), Spared(i)
  PROVE  Fits(i)'
<1>1. /\ Worked(i) /\ ListedOnce(i) /\ ListedTruly(i) /\ Counted(i) /\ Handed(i)
      /\ item[i] \in {"none", "draft", "retrying"} \cup Settled
      /\ "error" \in Settled /\ "error" # "active" /\ "draft" \notin Settled /\ "retrying" \notin Settled
  BY DEF Fits, Types, Settled
<1>2. job'[JobOf[i[1]]].kind = job[JobOf[i[1]]].kind
  BY DEF Spared
<1>3. Kind(i)' = Kind(i)
  BY <1>2 DEF Kind
<1>4. /\ item'[i] = "none" <=> item[i] = "none"
      /\ slot'[i] = "none" <=> slot[i] = "none"
      /\ item[i] \in Settled => item'[i] = item[i]
      /\ item'[i] = "active" => item[i] = "active"
      /\ slot[i] # "reserved" => slot'[i] # "reserved"
      /\ item'[i] = item[i] \/ item'[i] \in Settled
  BY <1>1 DEF Spared, Held
<1>5. Worked(i)'
  BY <1>1, <1>4 DEF Spared, Worked
<1>6. ListedOnce(i)'
  BY <1>1 DEF Spared, ListedOnce
<1>7. ListedTruly(i)'
  BY <1>1, <1>3, <1>4 DEF Spared, ListedTruly
<1>8. Counted(i)'
  BY <1>1, <1>3, <1>4 DEF Spared, Counted
<1>9. Closed(i) => Closed(i)'
  BY <1>4 DEF Closed
<1>10. Handed(i)'
  BY <1>1, <1>3, <1>4, <1>9 DEF Spared, Handed
<1>11. QED
  BY <1>5, <1>6, <1>7, <1>8, <1>10 DEF Fits

(* A batch whose worker and place in the queue stay stands as it did.      *)
LEMMA QueuedKept ==
  ASSUME NEW b \in Batches, Queued(b), queue'[b] = queue[b], work'[b] = work[b]
  PROVE  Queued(b)'
BY DEF Queued

(* Once its request is made, a job is changed only where it has items.     *)
LEMMA RequestedKept ==
  ASSUME Requested, req' = req, JobsGoOn,
         \A b \in Batches : queue[b].st = "absent" => queue'[b].st = "absent",
         \A i \in Items : /\ item[i] = "none" => item'[i] = "none" /\ rows'[i] = rows[i]
                          /\ item[i] = "none" /\ slot[i] = "none" => slot'[i] = "none"
  PROVE  Requested'
<1>1. ASSUME NEW j \in Jobs, req'[j] = "new"
      PROVE  /\ job'[j].status = "gone"
             /\ \A i \in ItemsOf(j) : item'[i] = "none" /\ rows'[i] = 0 /\ slot'[i] = "none"
  <2>1. /\ job[j].status = "gone"
        /\ \A i \in ItemsOf(j) : item[i] = "none" /\ rows[i] = 0 /\ slot[i] = "none"
    BY <1>1 DEF Requested
  <2>2. QED
    BY <2>1 DEF JobsGoOn, ItemsOf
<1>2. \A j \in Jobs : req'[j] \in {"counting", "reserving", "refusing"} => job'[j].kind = "live"
  BY DEF Requested, JobsGoOn
<1>3. \A b \in Batches : req'[JobOf[b]] # "sent" => queue'[b].st = "absent"
  BY DEF Requested
<1>4. QED
  BY <1>1, <1>2, <1>3 DEF Requested

(* A worker touches only items that exist, and lets no job go.             *)
LEMMA OthersSpared ==
  ASSUME Types, JobsGoOn, req' = req, live \subseteq live', NEW i \in Items,
         queue'[i[1]] = queue[i[1]], work'[i[1]] = work[i[1]],
         task'[i] = task[i], rows'[i] = rows[i], item'[i] = item[i], slot'[i] = slot[i]
  PROVE  Spared(i)
BY ItemFacts DEF Spared, JobsGoOn

-----------------------------------------------------------------------------
(* The first state.                                                        *)
LEMMA InitJobs == Init => JobsInv
<1> SUFFICES ASSUME Init PROVE JobsInv
  OBVIOUS
<1>1. "live" \in JobKinds /\ "gone" \in JobStatus /\ "absent" \in QueueSt
  BY DEF JobKinds, JobStatus, QueueSt
<1>2. Off \in Work /\ Idle \in Task /\ NoStop \in Stop
  BY DEF Off, Work, WorkPc, Idle, Task, TaskPc, NoStop, Stop
<1>3. MaxAttempts \in Nat /\ MaxAttempts > 0 /\ MaxDeferrals \in Nat
  BY ListingJobsAssumption
<1>4. [kind |-> "live", status |-> "gone", success |-> 0, failed |-> 0] \in Job
  BY <1>1 DEF Job
<1>5. [st |-> "absent", attempts |-> 0, stalls |-> 0, defers |-> 0] \in Batch
  BY <1>1, <1>3 DEF Batch
<1>6. Types
  BY <1>2, <1>4, <1>5 DEF Init, Types
<1>7. Requested
  BY ListingJobsAssumption DEF Init, Requested, ItemsOf
<1>8. \A b \in Batches : Queued(b)
  BY <1>3 DEF Init, Queued, Off
<1>9. ASSUME NEW i \in Items PROVE Fits(i)
  <2>1. i[1] \in Batches /\ JobOf[i[1]] \in Jobs
    BY ItemFacts
  <2>2. /\ task[i] = Idle /\ work[i[1]] = Off /\ item[i] = "none" /\ slot[i] = "none" /\ rows[i] = 0
        /\ queue[i[1]].st = "absent"
    BY <2>1 DEF Init
  <2>3. QED
    BY <2>2 DEF Fits, Worked, MayBe, ListedOnce, ListedTruly, Counted, Handed, Closed, Idle, Off
<1>10. QED
  BY <1>6, <1>7, <1>8, <1>9 DEF JobsInv

(***************************************************************************)
(* The steps of the seller.                                                *)
(***************************************************************************)
(* A cancel closes open items and gives slots back.                        *)
LEMMA CancelKeeps ==
  ASSUME JobsInv, NEW j \in Jobs,
         AskCancel(j) \/ CancelItems(j) \/ CancelJob(j) \/ CancelCounts(j) \/ CancelTally(j) \/ CancelReleases(j) \/ CancelDies(j)
  PROVE  JobsInv'
<1> USE DEF dbVars
<1>1. Types /\ Requested /\ Types' /\ JobsGoOn
  BY CancelTypes DEF JobsInv
<1>2. UNCHANGED <<rows, live, queue, work, task, req>>
  BY DEF AskCancel, CancelItems, CancelJob, CancelCounts, CancelTally, CancelReleases, CancelDies
<1>3. \A i \in Items : item'[i] = item[i] \/ (item[i] \in {"draft", "retrying"} /\ item'[i] = "error")
  <2>1. CASE CancelItems(j)
    <3>1. \A i \in Items : item[i] \in {"none", "draft", "retrying"} \cup Settled
      BY <1>1 DEF Types
    <3>2. item' = [i \in Items |-> IF i \in {k \in Known(j) : item[k] \notin Settled} THEN "error" ELSE item[i]]
      BY <2>1 DEF CancelItems
    <3>3. QED
      BY <3>1, <3>2 DEF Known
  <2>2. CASE item' = item
    BY <2>2
  <2>3. QED
    BY <2>1, <2>2 DEF AskCancel, CancelJob, CancelCounts, CancelTally, CancelReleases, CancelDies
<1>4. \A i \in Items : slot'[i] = slot[i] \/ (slot[i] \in Held /\ slot'[i] \in {"stuck", "released"})
  BY <1>1, SlotEffect DEF AskCancel, CancelItems, CancelJob, CancelCounts, CancelTally, CancelReleases, CancelDies
<1>5. Requested'
  BY <1>1, <1>2, <1>3, <1>4, RequestedKept DEF Held
<1>6. \A b \in Batches : Queued(b)'
  BY <1>2, QueuedKept DEF JobsInv
<1>7. ASSUME NEW i \in Items PROVE Fits(i)'
  <2>1. Spared(i)
    BY <1>1, <1>2, <1>3, <1>4, ItemFacts DEF Spared, JobsGoOn
  <2>2. QED
    BY <1>1, <2>1, SparedFits DEF JobsInv
<1>8. QED
  BY <1>1, <1>5, <1>6, <1>7 DEF JobsInv

(* A job that is not sent yet has no worker and nothing in work.           *)
LEMMA NotSentYet ==
  ASSUME JobsInv, NEW i \in Items, req[JobOf[i[1]]] # "sent"
  PROVE  /\ queue[i[1]].st = "absent" /\ work[i[1]] = Off
         /\ task[i].pc = "idle" /\ ~task[i].keep
<1>1. i[1] \in Batches
  BY ItemFacts
<1>2. queue[i[1]].st = "absent"
  BY <1>1 DEF JobsInv, Requested
<1>3. work[i[1]] = Off
  BY <1>1, <1>2 DEF JobsInv, Queued
<1>4. task[i].pc = "idle"
  BY <1>3 DEF JobsInv, Fits, Worked, MayBe, Off
<1>5. task[i].keep = FALSE
  <2>1. task[i].keep \in BOOLEAN /\ (task[i].keep => task[i].pc \in Recording)
    BY DEF JobsInv, Types, Task, Fits, Worked
  <2>2. QED
    BY <1>4, <2>1 DEF Recording
<1>6. QED
  BY <1>2, <1>3, <1>4, <1>5

(* The items of other jobs are spared by a request.                        *)
LEMMA OtherJobsSpared ==
  ASSUME Types, NEW j \in Jobs, NEW i \in Items, i \notin ItemsOf(j),
         \A k \in Jobs : k # j => job'[k] = job[k] /\ req'[k] = req[k],
         UNCHANGED <<rows, live, work, task>>, item'[i] = item[i], slot'[i] = slot[i], queue'[i[1]] = queue[i[1]]
  PROVE  Spared(i)
<1>1. JobOf[i[1]] \in Jobs /\ JobOf[i[1]] # j
  BY ItemFacts DEF ItemsOf
<1>2. QED
  BY <1>1 DEF Spared

(* Submitting: drafts of a job that had nothing.                           *)
LEMMA SubmitKeeps ==
  ASSUME JobsInv, NEW j \in Jobs, Submit(j)
  PROVE  JobsInv'
<1>1. Types /\ Types'
  BY RequestTypes DEF JobsInv
<1>2. /\ \A k \in Jobs : k # j => job'[k] = job[k] /\ req'[k] = req[k]
      /\ \A i \in Items : /\ i \notin ItemsOf(j) => item'[i] = item[i]
                          /\ item'[i] = item[i] \/ item'[i] = "draft"
      /\ req[j] = "new" /\ req'[j] \in {"sent", "queueing", "counting"}
      /\ req'[j] = "sent" => item' = item
      /\ req'[j] = "queueing" => job'[j].kind # "live"
      /\ req'[j] = "counting" => job'[j].kind = "live"
  BY <1>1, SubmitEffect
<1>3. UNCHANGED <<slot, rows, live, queue, work, task>>
  BY DEF Submit
<1>4. Requested'
  <2>1. ASSUME NEW k \in Jobs, req'[k] = "new"
        PROVE  /\ job'[k].status = "gone"
               /\ \A i \in ItemsOf(k) : item'[i] = "none" /\ rows'[i] = 0 /\ slot'[i] = "none"
    <3>1. k # j /\ req[k] = "new" /\ job'[k] = job[k]
      BY <1>2, <2>1
    <3>2. \A i \in ItemsOf(k) : i \in Items /\ i \notin ItemsOf(j)
      BY <3>1 DEF ItemsOf
    <3>3. QED
      BY <1>2, <1>3, <3>1, <3>2 DEF JobsInv, Requested
  <2>2. ASSUME NEW k \in Jobs, req'[k] \in {"counting", "reserving", "refusing"} PROVE job'[k].kind = "live"
    BY <1>2, <2>2 DEF JobsInv, Requested
  <2>3. ASSUME NEW b \in Batches, req'[JobOf[b]] # "sent" PROVE queue'[b].st = "absent"
    BY <1>2, <1>3, <2>3, ListingJobsAssumption DEF JobsInv, Requested
  <2>4. QED
    BY <2>1, <2>2, <2>3 DEF Requested
<1>5. \A b \in Batches : Queued(b)'
  BY <1>3, QueuedKept DEF JobsInv
<1>6. ASSUME NEW i \in Items PROVE Fits(i)'
  <2>1. CASE i \notin ItemsOf(j)
    BY <1>1, <1>2, <1>3, <2>1, OtherJobsSpared, SparedFits DEF JobsInv
  <2>2. CASE i \in ItemsOf(j)
    <3>1. JobOf[i[1]] = j /\ req[JobOf[i[1]]] # "sent"
      BY <1>2, <2>2 DEF ItemsOf
    <3>2. /\ queue'[i[1]].st = "absent" /\ work'[i[1]] = Off
          /\ task'[i].pc = "idle" /\ ~task'[i].keep
      BY <1>3, <3>1, NotSentYet
    <3>3. item[i] = "none" /\ rows'[i] = 0 /\ slot'[i] = "none" /\ item'[i] \in {"none", "draft"}
      BY <1>2, <1>3, <2>2 DEF JobsInv, Requested
    <3>4. ~(job'[j].kind = "live" /\ req'[j] \in {"queueing", "sent"} /\ item'[i] # "none")
      BY <1>2, <3>3
    <3>5. QED
      BY <3>1, <3>2, <3>3, <3>4
      DEF Fits, Worked, MayBe, ListedOnce, ListedTruly, Counted, Handed, Closed, Off, Kind, Recording
  <2>3. QED
    BY <2>1, <2>2
<1>7. QED
  BY <1>1, <1>4, <1>5, <1>6 DEF JobsInv

(* Counting and inserting slots, queueing, dying, deleting.                *)
LEMMA RequestKeeps ==
  ASSUME JobsInv, NEW j \in Jobs,
         CountSlots(j) \/ InsertSlots(j) \/ DeleteUnstarted(j) \/ Enqueue(j) \/ RequestDies(j)
  PROVE  JobsInv'
<1> USE DEF dbVars
<1>1. Types /\ Types'
  BY RequestTypes DEF JobsInv
<1>2. /\ req[j] \in {"counting", "reserving", "refusing", "queueing"}
      /\ req'[j] \notin {"new"}
      /\ req'[j] \in {"counting", "reserving", "refusing"} => req[j] = "counting"
      /\ req'[j] = "sent" => Enqueue(j)
      /\ req'[j] = "queueing" => InsertSlots(j)
      /\ \A k \in Jobs : k # j => req'[k] = req[k]
  BY <1>1 DEF Types, CountSlots, InsertSlots, DeleteUnstarted, Enqueue, RequestDies
<1>3. UNCHANGED <<rows, live, work, task>>
  BY DEF CountSlots, InsertSlots, DeleteUnstarted, Enqueue, RequestDies
<1>4. \A k \in Jobs : /\ job'[k].kind = job[k].kind /\ (k # j => job'[k] = job[k])
                      /\ job[k].status = "cancelled" => job'[k].status = "cancelled"
  BY <1>1, DeleteEffect DEF CountSlots, InsertSlots, Enqueue, RequestDies
<1>5. \A i \in Items : /\ i \notin ItemsOf(j) => item'[i] = item[i] /\ slot'[i] = slot[i]
                       /\ item'[i] = item[i] \/ (DeleteUnstarted(j) /\ item'[i] = "none")
                       /\ slot'[i] = slot[i] \/ InsertSlots(j)
  <2>1. CASE DeleteUnstarted(j)
    BY <1>1, <2>1, DeleteEffect DEF DeleteUnstarted
  <2>2. CASE InsertSlots(j)
    <3>1. \A i \in Known(j) : i \in ItemsOf(j)
      BY DEF Known
    <3>2. QED
      BY <1>1, <2>2, <3>1, SlotEffect DEF InsertSlots
  <2>3. QED
    BY <2>1, <2>2 DEF CountSlots, Enqueue, RequestDies
<1>6. \A b \in Batches : \/ queue'[b] = queue[b]
                         \/ /\ JobOf[b] = j /\ Enqueue(j)
                            /\ queue'[b].st = "waiting" /\ queue'[b].attempts = queue[b].attempts
  <2>1. CASE Enqueue(j)
    <3>1. \A i \in Known(j) : JobOf[i[1]] = j
      BY DEF Known, ItemsOf
    <3>2. \A b \in Batches : queue'[b] = IF b \in {i[1] : i \in Known(j)} THEN [queue[b] EXCEPT !.st = "waiting"] ELSE queue[b]
      BY <2>1 DEF Enqueue
    <3>3. \A b \in Batches : queue[b] \in Batch
      BY <1>1 DEF Types
    <3>4. ASSUME NEW b \in Batches, b \in {i[1] : i \in Known(j)}
          PROVE  JobOf[b] = j /\ queue'[b].st = "waiting" /\ queue'[b].attempts = queue[b].attempts
      <4>1. JobOf[b] = j
        BY <3>1, <3>4
      <4>2. queue'[b] = [queue[b] EXCEPT !.st = "waiting"] /\ queue[b] \in Batch
        BY <3>2, <3>3, <3>4
      <4>3. QED
        BY <4>1, <4>2 DEF Batch
    <3>5. QED
      BY <2>1, <3>2, <3>4
  <2>2. CASE queue' = queue
    BY <2>2
  <2>3. QED
    BY <2>1, <2>2 DEF CountSlots, InsertSlots, DeleteUnstarted, RequestDies
<1>7. Requested'
  <2>1. ASSUME NEW k \in Jobs, req'[k] = "new"
        PROVE  /\ job'[k].status = "gone"
               /\ \A i \in ItemsOf(k) : item'[i] = "none" /\ rows'[i] = 0 /\ slot'[i] = "none"
    <3>1. k # j /\ req[k] = "new" /\ job'[k] = job[k]
      BY <1>2, <1>4, <2>1
    <3>2. \A i \in ItemsOf(k) : i \in Items /\ i \notin ItemsOf(j)
      BY <3>1 DEF ItemsOf
    <3>3. QED
      BY <1>3, <1>5, <3>1, <3>2 DEF JobsInv, Requested
  <2>2. ASSUME NEW k \in Jobs, req'[k] \in {"counting", "reserving", "refusing"} PROVE job'[k].kind = "live"
    <3>1. req[k] \in {"counting", "reserving", "refusing"}
      BY <1>2, <2>2
    <3>2. QED
      BY <1>4, <3>1 DEF JobsInv, Requested
  <2>3. ASSUME NEW b \in Batches, req'[JobOf[b]] # "sent" PROVE queue'[b].st = "absent"
    <3>1. req[JobOf[b]] # "sent"
      BY <1>2, <2>3, ListingJobsAssumption
    <3>2. ~(JobOf[b] = j /\ Enqueue(j))
      BY <1>1, <2>3 DEF Enqueue, Types
    <3>3. QED
      BY <1>6, <3>1, <3>2 DEF JobsInv, Requested
  <2>4. QED
    BY <2>1, <2>2, <2>3 DEF Requested
<1>8. ASSUME NEW b \in Batches PROVE Queued(b)'
  <2>1. CASE queue'[b] = queue[b]
    BY <1>3, <2>1, QueuedKept DEF JobsInv
  <2>2. CASE JobOf[b] = j /\ queue'[b].st = "waiting" /\ queue'[b].attempts = queue[b].attempts
    <3>1. queue[b].st = "absent"
      BY <1>2, <2>2 DEF JobsInv, Requested
    <3>2. work'[b] = Off /\ queue'[b].attempts < MaxAttempts
      BY <1>3, <2>2, <3>1 DEF JobsInv, Queued
    <3>3. QED
      BY <2>2, <3>2 DEF Queued, Off
  <2>3. QED
    BY <1>6, <2>1, <2>2
<1>9. ASSUME NEW i \in Items PROVE Fits(i)'
  <2>1. i[1] \in Batches /\ JobOf[i[1]] \in Jobs /\ (i \in ItemsOf(j) <=> JobOf[i[1]] = j)
    BY ItemFacts DEF ItemsOf
  <2>2. CASE item'[i] = item[i] /\ slot'[i] = slot[i] /\ ~InsertSlots(j)
    <3>1. req'[JobOf[i[1]]] \in {"queueing", "sent"} => req[JobOf[i[1]]] \in {"queueing", "sent"}
      BY <1>2, <2>1, <2>2 DEF Enqueue
    <3>2. queue'[i[1]].attempts = queue[i[1]].attempts /\ (queue'[i[1]].st = "done" => queue[i[1]].st = "done")
      BY <1>6, <2>1
    <3>3. Spared(i)
      BY <1>3, <1>4, <2>1, <2>2, <3>1, <3>2 DEF Spared
    <3>4. QED
      BY <1>1, <3>3, SparedFits DEF JobsInv
  <2>3. CASE i \notin ItemsOf(j)
    <3>1. queue'[i[1]] = queue[i[1]]
      BY <1>6, <2>1, <2>3
    <3>2. QED
      BY <1>1, <1>2, <1>3, <1>4, <1>5, <2>3, <3>1, OtherJobsSpared, SparedFits DEF JobsInv
  <2>4. CASE i \in ItemsOf(j) /\ DeleteUnstarted(j) /\ item'[i] = "none"
    <3>1. req[JobOf[i[1]]] # "sent" /\ queue' = queue /\ slot' = slot /\ rows' = rows
      BY <1>2, <2>1, <2>4 DEF DeleteUnstarted
    <3>2. queue'[i[1]].st = "absent" /\ work'[i[1]] = Off /\ task'[i].pc = "idle" /\ ~task'[i].keep
      BY <1>3, <3>1, NotSentYet
    <3>3. Kind(i)' = Kind(i)
      BY <1>4, <2>1 DEF Kind
    <3>4. Fits(i)
      BY DEF JobsInv
    <3>5. QED
      BY <1>3, <2>4, <3>1, <3>2, <3>3, <3>4
      DEF Fits, Worked, MayBe, ListedOnce, ListedTruly, Counted, Handed, Closed, Off, Recording
  <2>5. CASE i \in ItemsOf(j) /\ InsertSlots(j)
    <3>1. req[j] = "reserving" /\ Reserve(Known(j)) /\ queue' = queue /\ item' = item
      BY <2>5 DEF InsertSlots
    <3>2. queue'[i[1]].st = "absent" /\ work'[i[1]] = Off /\ task'[i].pc = "idle" /\ ~task'[i].keep
      BY <1>3, <2>1, <2>5, <3>1, NotSentYet
    <3>3. Kind(i)' = Kind(i) /\ Kind(i) = "live"
      BY <1>4, <2>1, <2>5, <3>1 DEF Kind, JobsInv, Requested
    <3>4. item'[i] # "none" => slot'[i] # "none"
      BY <1>1, <2>5, <3>1, SlotEffect DEF Known
    <3>5. Fits(i)
      BY DEF JobsInv
    <3>6. QED
      BY <1>3, <3>1, <3>2, <3>3, <3>4, <3>5
      DEF Fits, Worked, MayBe, ListedOnce, ListedTruly, Counted, Handed, Closed, Off, Recording
  <2>6. QED
    BY <1>5, <2>2, <2>3, <2>4, <2>5
<1>10. QED
  BY <1>1, <1>7, <1>8, <1>9 DEF JobsInv

(***************************************************************************)
(* The steps of a worker, for the items of its batch.                      *)
(***************************************************************************)
(* An item its worker lets go of.  Only a batch that is done must have     *)
(* closed it.                                                              *)
LEMMA LetGoFits ==
  ASSUME NEW i \in Items, Fits(i),
         work'[i[1]] = Off, task'[i] = Idle, item'[i] = item[i], slot'[i] = slot[i], rows'[i] = rows[i],
         Kind(i)' = Kind(i), req' = req, live \subseteq live',
         queue'[i[1]].st = "done" => Closed(i)
  PROVE  Fits(i)'
<1>1. task'[i].pc = "idle" /\ ~task'[i].keep /\ work'[i[1]].pc = "off" /\ ~work'[i[1]].throw
  BY DEF Idle, Off
<1>2. Closed(i) => Closed(i)'
  BY DEF Closed
<1>3. QED
  BY <1>1, <1>2 DEF Fits, Worked, MayBe, ListedOnce, ListedTruly, Counted, Handed, Recording

(* A batch that is let go of is queued again, or has ended.                *)
LEMMA LetGoQueued ==
  ASSUME NEW b \in Batches, work'[b] = Off, queue'[b].st \in {"waiting", "done", "failed"},
         queue'[b].st = "waiting" => queue'[b].attempts < MaxAttempts
  PROVE  Queued(b)'
BY DEF Queued, Off

(* While a batch is being run, BullMQ counts it as running.                *)
LEMMA RunsWhileWorked ==
  ASSUME JobsInv, NEW b \in Batches, work[b].pc # "off"
  PROVE  queue[b].st = "running" /\ queue[b].attempts < MaxAttempts
BY DEF JobsInv, Queued

(* How a run ends: the whole batch step, given that a run which ends well  *)
(* has closed its items.                                                   *)
LEMMA LetGoKeeps ==
  ASSUME JobsInv, Types', NEW b \in Batches, work[b].pc # "off", Forget(b),
         UNCHANGED <<job, item, slot, rows, req, stop>>, live \subseteq live',
         \A c \in Batches : c # b => queue'[c] = queue[c],
         queue'[b].st \in {"waiting", "done", "failed"},
         queue'[b].st = "waiting" => queue'[b].attempts < MaxAttempts,
         queue'[b].st = "done" => \A i \in ItemsIn(b) : Closed(i)
  PROVE  JobsInv'
<1>1. /\ Types
      /\ work'[b] = Off /\ \A c \in Batches : c # b => work'[c] = work[c]
      /\ \A i \in Items : task'[i] = IF i[1] = b THEN Idle ELSE task[i]
  BY ForgetTyped DEF JobsInv
<1>2. JobsGoOn
  BY DEF JobsGoOn
<1>3. queue[b].st = "running"
  BY RunsWhileWorked
<1>4. Requested'
  BY <1>2, <1>3, RequestedKept DEF JobsInv
<1>5. \A c \in Batches : Queued(c)'
  BY <1>1, LetGoQueued, QueuedKept DEF JobsInv
<1>6. ASSUME NEW i \in Items PROVE Fits(i)'
  <2>1. i[1] \in Batches /\ Fits(i) /\ Kind(i)' = Kind(i)
    BY ItemFacts DEF JobsInv, Kind
  <2>2. CASE i[1] = b
    <3>1. queue'[i[1]].st = "done" => Closed(i)
      BY <2>2 DEF ItemsIn
    <3>2. work'[i[1]] = Off /\ task'[i] = Idle
      BY <1>1, <2>2
    <3>3. QED
      BY <2>1, <3>1, <3>2, LetGoFits
  <2>3. CASE i[1] # b
    <3>1. Spared(i)
      BY <1>1, <1>2, <2>1, <2>3, OthersSpared
    <3>2. QED
      BY <1>1, <2>1, <3>1, SparedFits
  <2>4. QED
    BY <2>2, <2>3
<1>7. QED
  BY <1>4, <1>5, <1>6 DEF JobsInv

(* How a run goes on: the batch stays running, its items are looked at one *)
(* by one.                                                                 *)
LEMMA GoOnKeeps ==
  ASSUME JobsInv, Types', JobsGoOn, NEW b \in Batches,
         queue[b].st # "absent", queue'[b].st = "running", queue'[b].attempts < MaxAttempts,
         work'[b].pc # "off", ~work'[b].budget, work'[b].throw => work'[b].pc = "close",
         UNCHANGED <<item, rows, req>>, live \subseteq live',
         \A c \in Batches : c # b => queue'[c] = queue[c] /\ work'[c] = work[c],
         \A i \in Items : i[1] # b => task'[i] = task[i] /\ slot'[i] = slot[i],
         \A i \in Items : item[i] = "none" => slot'[i] = slot[i],
         \A i \in ItemsIn(b) : Fits(i)'
  PROVE  JobsInv'
<1>1. Requested'
  BY RequestedKept DEF JobsInv
<1>2. \A c \in Batches : Queued(c)'
  BY QueuedKept DEF JobsInv, Queued
<1>3. ASSUME NEW i \in Items PROVE Fits(i)'
  <2>1. i[1] \in Batches
    BY ItemFacts
  <2>2. CASE i[1] = b
    BY <2>2 DEF ItemsIn
  <2>3. CASE i[1] # b
    BY <2>1, <2>3, OthersSpared, SparedFits DEF JobsInv
  <2>4. QED
    BY <2>2, <2>3
<1>4. QED
  BY <1>1, <1>2, <1>3 DEF JobsInv

(* What holds of an item before its batch is prepared.                     *)
LEMMA EarlyIdle ==
  ASSUME JobsInv, NEW i \in Items, work[i[1]].pc \in {"off", "mark", "store", "reserve", "group"}
  PROVE  task[i].pc = "idle" /\ ~task[i].keep
<1>1. task[i].pc = "idle"
  BY DEF JobsInv, Fits, Worked, MayBe
<1>2. task[i].keep \in BOOLEAN /\ (task[i].keep => task[i].pc \in Recording)
  BY DEF JobsInv, Types, Task, Fits, Worked
<1>3. QED
  BY <1>1, <1>2 DEF Recording

(* Picking a batch, of a cancelled job or not.                             *)
LEMMA PickKeeps ==
  ASSUME JobsInv, NEW b \in Batches, Pick(b)
  PROVE  JobsInv'
<1> USE DEF dbVars, apiVars
<1>1. Types /\ Types' /\ Queued(b)
  BY BatchTypes DEF JobsInv
<1>2. /\ queue[b].st = "waiting" /\ UNCHANGED <<job, item, slot, rows, live, task, req, stop>> /\ JobsGoOn
      /\ "done" \in QueueSt /\ "running" \in QueueSt /\ "mark" \in WorkPc
  BY DEF Pick, JobsGoOn, QueueSt, WorkPc
<1>3. work[b] = Off /\ queue[b].attempts < MaxAttempts
  BY <1>1, <1>2 DEF Queued
<1>4. CASE /\ job[JobOf[b]].status = "cancelled"
           /\ queue' = [queue EXCEPT ![b].st = "done"] /\ UNCHANGED work
  <2>1. queue'[b].st = "done" /\ \A c \in Batches : c # b => queue'[c] = queue[c]
    BY <1>1, <1>2, <1>4, QueueEffect
  <2>2. Requested'
    BY <1>2, <2>1, RequestedKept DEF JobsInv
  <2>3. \A c \in Batches : Queued(c)'
    <3>1. Queued(b)'
      BY <1>3, <1>4, <2>1 DEF Queued, Off
    <3>2. QED
      BY <1>4, <2>1, <3>1, QueuedKept DEF JobsInv
  <2>4. ASSUME NEW i \in Items PROVE Fits(i)'
    <3>1. i[1] \in Batches /\ Fits(i)
      BY ItemFacts DEF JobsInv
    <3>2. CASE i[1] = b
      <4>1. work'[i[1]] = Off /\ job'[JobOf[i[1]]].status = "cancelled" /\ Kind(i)' = Kind(i)
        BY <1>2, <1>3, <1>4, <3>2 DEF Kind
      <4>2. task'[i].pc = "idle" /\ ~task'[i].keep
        BY <1>2, <1>3, <3>2, EarlyIdle DEF Off
      <4>3. QED
        BY <1>2, <3>1, <4>1, <4>2
        DEF Fits, Worked, MayBe, ListedOnce, ListedTruly, Counted, Handed, Off, Recording
    <3>3. CASE i[1] # b
      BY <1>1, <1>2, <1>4, <2>1, <3>1, <3>3, OthersSpared, SparedFits
    <3>4. QED
      BY <3>2, <3>3
  <2>5. QED
    BY <1>1, <2>2, <2>3, <2>4 DEF JobsInv
<1>5. CASE queue' = [queue EXCEPT ![b].st = "running"] /\ Goto(b, "mark")
  <2>1. /\ queue'[b].st = "running" /\ queue'[b].attempts = queue[b].attempts
        /\ \A c \in Batches : c # b => queue'[c] = queue[c]
    BY <1>1, <1>2, <1>5, QueueEffect
  <2>2. /\ work'[b].pc = "mark" /\ ~work'[b].budget /\ ~work'[b].throw
        /\ \A c \in Batches : c # b => work'[c] = work[c]
    BY <1>1, <1>2, <1>3, <1>5, GotoTyped DEF Off
  <2>3. ASSUME NEW i \in ItemsIn(b) PROVE Fits(i)'
    <3>1. i \in Items /\ i[1] = b /\ Fits(i) /\ Kind(i)' = Kind(i)
      BY <1>2 DEF ItemsIn, JobsInv, Kind
    <3>2. task'[i].pc = "idle" /\ ~task'[i].keep
      BY <1>2, <1>3, <3>1, EarlyIdle DEF Off
    <3>3. QED
      BY <1>2, <2>1, <2>2, <3>1, <3>2
      DEF Fits, Worked, MayBe, ListedOnce, ListedTruly, Counted, Handed, Recording
  <2>4. QED
    BY <1>1, <1>2, <1>3, <2>1, <2>2, <2>3, GoOnKeeps
<1>6. QED
  BY <1>4, <1>5 DEF Pick

(* Marking the job, looking for the store, reserving: no item is touched.  *)
LEMMA EarlyFits ==
  ASSUME JobsInv, NEW i \in Items, work[i[1]].pc \in {"off", "mark", "store", "reserve"},
         work'[i[1]].pc \in {"store", "reserve", "group"}, ~work'[i[1]].throw,
         queue' = queue, req' = req, live' = live, task'[i] = task[i], item'[i] = item[i], rows'[i] = rows[i],
         queue[i[1]].st = "running", Kind(i)' = Kind(i),
         \/ slot'[i] = slot[i]
         \/ Kind(i) = "scheduled" /\ (slot[i] # "none" => slot'[i] = slot[i]),
         /\ work'[i[1]].pc = "group" /\ Kind(i) = "scheduled" /\ queue[i[1]].attempts = 0 /\ item[i] # "none"
         => slot'[i] # "none"
  PROVE  Fits(i)'
<1>1. task'[i].pc = "idle" /\ ~task'[i].keep
  BY EarlyIdle
<1>2. Fits(i)
  BY DEF JobsInv
<1>3. Counted(i)'
  BY <1>2 DEF Fits, Counted
<1>4. QED
  BY <1>1, <1>2, <1>3 DEF Fits, Worked, MayBe, ListedOnce, ListedTruly, Handed, Recording

(* Closing every item of a batch whose store or group is gone.             *)
LEMMA CloseKeeps ==
  ASSUME JobsInv, Types', NEW b \in Batches, work[b].pc \in {"store", "reserve", "group"}, CloseAll(b),
         UNCHANGED <<job, item, slot, rows, live, queue, req, stop>>
  PROVE  JobsInv'
<1>1. Types /\ Queued(b) /\ JobsGoOn /\ "close" \in WorkPc /\ "fail" \in TaskPc
  BY DEF JobsInv, JobsGoOn, WorkPc, TaskPc
<1>2. /\ work'[b].pc = "close" /\ work'[b].budget = work[b].budget /\ work'[b].throw = work[b].throw
      /\ \A c \in Batches : c # b => work'[c] = work[c]
  BY <1>1, GotoTyped DEF CloseAll
<1>3. ~work[b].budget /\ ~work[b].throw
  BY <1>1 DEF Queued
<1>4. \A i \in Items : /\ i \in Sent(b) => task'[i].pc = "fail" /\ ~task'[i].keep
                       /\ i \notin Sent(b) => task'[i] = task[i]
  BY <1>1, TasksTyped DEF CloseAll
<1>5. queue[b].st = "running" /\ queue[b].attempts < MaxAttempts
  BY RunsWhileWorked
<1>6. ASSUME NEW i \in ItemsIn(b) PROVE Fits(i)'
  <2>1. i \in Items /\ i[1] = b /\ Fits(i) /\ Kind(i)' = Kind(i)
    BY DEF ItemsIn, JobsInv, Kind
  <2>2. task[i].pc = "idle" /\ ~task[i].keep
    BY <2>1, EarlyIdle
  <2>3. CASE i \in Sent(b)
    <3>1. item[i] # "none" /\ task'[i].pc = "fail" /\ ~task'[i].keep
      BY <1>4, <2>1, <2>3 DEF Sent
    <3>2. QED
      BY <1>2, <1>5, <2>1, <3>1 DEF Fits, Worked, MayBe, ListedOnce, ListedTruly, Counted, Handed
  <2>4. CASE i \notin Sent(b)
    <3>1. item[i] = "none" /\ task'[i] = task[i]
      BY <1>4, <2>1, <2>4 DEF Sent
    <3>2. QED
      BY <1>2, <1>5, <2>1, <2>2, <3>1
      DEF Fits, Worked, MayBe, ListedOnce, ListedTruly, Counted, Handed, Closed, Recording
  <2>5. QED
    BY <2>3, <2>4
<1>7. \A i \in Items : i[1] # b => task'[i] = task[i]
  BY <1>4 DEF Sent, ItemsIn
<1>8. QED
  BY <1>1, <1>2, <1>3, <1>5, <1>6, <1>7, GoOnKeeps

(* Marking the job as processing, and looking for the store.               *)
LEMMA EarlyKeeps ==
  ASSUME JobsInv, NEW b \in Batches, MarkProcessing(b) \/ CheckStore(b) \/ ReserveAtRun(b)
  PROVE  JobsInv'
<1> USE DEF dbVars, apiVars
<1>1. Types /\ Types' /\ Queued(b) /\ JobOf[b] \in Jobs
  BY BatchTypes, ListingJobsAssumption DEF JobsInv
<1>2. CASE CloseAll(b) /\ (CheckStore(b) \/ (ReserveAtRun(b) /\ UNCHANGED slot))
  BY <1>1, <1>2, CloseKeeps DEF CheckStore, ReserveAtRun
<1>3. ASSUME NEW pc \in {"store", "reserve", "group"}, Goto(b, pc), work[b].pc \in {"mark", "store", "reserve"},
             JobsGoOn, UNCHANGED <<item, rows, live, queue, task, req, stop>>,
             \A i \in Items : \/ slot'[i] = slot[i]
                              \/ /\ i \in Sent(b) /\ Kind(i) = "scheduled"
                                 /\ slot[i] # "none" => slot'[i] = slot[i],
             \A i \in Sent(b) : pc = "group" /\ Kind(i) = "scheduled" /\ queue[b].attempts = 0 => slot'[i] # "none"
      PROVE  JobsInv'
  <2>1. queue[b].st = "running" /\ queue[b].attempts < MaxAttempts
    BY <1>3, RunsWhileWorked
  <2>2. /\ work'[b].pc = pc /\ ~work'[b].budget /\ ~work'[b].throw
        /\ \A c \in Batches : c # b => work'[c] = work[c]
    <3>1. pc \in WorkPc
      BY DEF WorkPc
    <3>2. ~work[b].budget /\ ~work[b].throw
      BY <1>1, <1>3 DEF Queued
    <3>3. QED
      BY <1>1, <1>3, <3>1, <3>2, GotoTyped
  <2>3. ASSUME NEW i \in ItemsIn(b) PROVE Fits(i)'
    <3>1. i \in Items /\ i[1] = b /\ Kind(i)' = Kind(i)
      BY <1>1, <1>3 DEF ItemsIn, Kind, JobsGoOn
    <3>2. item[i] # "none" => i \in Sent(b)
      BY DEF Sent
    <3>3. QED
      BY <1>3, <2>1, <2>2, <3>1, <3>2, EarlyFits
  <2>4. \A i \in Items : /\ i[1] # b => slot'[i] = slot[i]
                         /\ item[i] = "none" => slot'[i] = slot[i]
    BY <1>3 DEF Sent, ItemsIn
  <2>5. QED
    BY <1>1, <1>3, <2>1, <2>2, <2>3, <2>4, GoOnKeeps
<1>4. CASE MarkProcessing(b)
  <2> DEFINE st == IF job[JobOf[b]].status = "pending" THEN "processing" ELSE job[JobOf[b]].status
  <2>1. job' = [job EXCEPT ![JobOf[b]].status = st] /\ st \in JobStatus
    BY <1>1, <1>4 DEF MarkProcessing, JobStatus, Types, Job
  <2>2. (st = "gone" <=> job[JobOf[b]].status = "gone") /\ (job[JobOf[b]].status = "cancelled" => st = "cancelled")
    OBVIOUS
  <2> HIDE DEF st
  <2>3. JobsGoOn
    BY <1>1, <2>1, <2>2, StatusTyped DEF JobsGoOn
  <2>4. QED
    BY <1>3, <1>4, <2>3 DEF MarkProcessing
<1>5. CASE CheckStore(b) /\ Goto(b, "reserve") /\ UNCHANGED task
  BY <1>3, <1>5 DEF CheckStore, JobsGoOn
<1>6. CASE ReserveAtRun(b) /\ Goto(b, "group")
  <2>1. UNCHANGED <<job, item, rows, live, queue, req, stop>> /\ JobsGoOn /\ work[b].pc = "reserve"
    BY <1>6 DEF ReserveAtRun, JobsGoOn
  <2>2. \A i \in Sent(b) : i \in Items /\ Kind(i) = job[JobOf[b]].kind
    BY DEF Sent, ItemsIn, Kind
  <2>3. CASE /\ job[JobOf[b]].kind = "scheduled" /\ queue[b].attempts = 0
             /\ Reserve(Sent(b)) /\ UNCHANGED task
    <3>1. \A i \in Items : /\ i \notin Sent(b) => slot'[i] = slot[i]
                           /\ i \in Sent(b) => slot'[i] # "none"
                           /\ slot[i] # "none" => slot'[i] = slot[i]
      BY <1>1, <2>3, SlotEffect
    <3>2. QED
      BY <1>3, <1>6, <2>1, <2>2, <2>3, <3>1
  <2>4. CASE /\ ~(job[JobOf[b]].kind = "scheduled" /\ queue[b].attempts = 0)
             /\ UNCHANGED <<slot, task>>
    BY <1>3, <1>6, <2>1, <2>2, <2>4
  <2>5. CASE CloseAll(b) /\ UNCHANGED slot
    BY <1>2, <1>6, <2>5
  <2>6. QED
    BY <1>6, <2>3, <2>4, <2>5 DEF ReserveAtRun
<1>7. QED
  BY <1>2, <1>4, <1>5, <1>6 DEF CheckStore, ReserveAtRun

(* Handing the items of a batch out to be prepared.                        *)
LEMMA GroupKeeps ==
  ASSUME JobsInv, NEW b \in Batches, CheckGroup(b)
  PROVE  JobsInv'
<1> USE DEF dbVars, apiVars
<1>1. Types /\ Types' /\ Queued(b) /\ JobsGoOn /\ "prepare" \in WorkPc /\ "todo" \in TaskPc
  BY BatchTypes DEF JobsInv, CheckGroup, JobsGoOn, WorkPc, TaskPc
<1>2. work[b].pc = "group" /\ UNCHANGED <<job, item, slot, rows, live, queue, req, stop>>
  BY DEF CheckGroup
<1>3. CASE CloseAll(b)
  BY <1>1, <1>2, <1>3, CloseKeeps
<1>4. CASE Goto(b, "prepare") /\ SetTasks(Sent(b), "todo")
  <2>1. queue[b].st = "running" /\ queue[b].attempts < MaxAttempts
    BY <1>2, RunsWhileWorked
  <2>2. /\ work'[b].pc = "prepare" /\ ~work'[b].budget /\ ~work'[b].throw
        /\ \A c \in Batches : c # b => work'[c] = work[c]
    BY <1>1, <1>2, <1>4, GotoTyped DEF Queued
  <2>3. \A i \in Items : /\ i \in Sent(b) => task'[i].pc = "todo" /\ ~task'[i].keep
                         /\ i \notin Sent(b) => task'[i] = task[i]
    BY <1>1, <1>4, TasksTyped
  <2>4. ASSUME NEW i \in ItemsIn(b) PROVE Fits(i)'
    <3>1. i \in Items /\ i[1] = b /\ Fits(i) /\ Kind(i)' = Kind(i)
      BY <1>2 DEF ItemsIn, JobsInv, Kind
    <3>2. task[i].pc = "idle" /\ ~task[i].keep
      BY <1>2, <3>1, EarlyIdle
    <3>3. CASE i \in Sent(b)
      <4>1. item[i] # "none" /\ task'[i].pc = "todo" /\ ~task'[i].keep
        BY <2>3, <3>1, <3>3 DEF Sent
      <4>2. QED
        BY <1>2, <2>1, <2>2, <3>1, <4>1 DEF Fits, Worked, MayBe, ListedOnce, ListedTruly, Counted, Handed
    <3>4. CASE i \notin Sent(b)
      <4>1. item[i] = "none" /\ task'[i] = task[i]
        BY <2>3, <3>1, <3>4 DEF Sent
      <4>2. QED
        BY <1>2, <2>1, <2>2, <3>1, <3>2, <4>1
        DEF Fits, Worked, MayBe, ListedOnce, ListedTruly, Counted, Handed, Closed, Recording
    <3>5. QED
      BY <3>3, <3>4
  <2>5. \A i \in Items : i[1] # b => task'[i] = task[i]
    BY <2>3 DEF Sent, ItemsIn
  <2>6. QED
    BY <1>1, <1>2, <2>1, <2>2, <2>4, <2>5, GoOnKeeps
<1>5. QED
  BY <1>3, <1>4 DEF CheckGroup

(* The end of a run: completed, thrown, deferred.                          *)
LEMMA EndKeeps ==
  ASSUME JobsInv, Types', NEW b \in Batches, work[b].pc # "off",
         UNCHANGED <<job, item, slot, rows, req, stop>>, live \subseteq live',
         \/ Finish(b) /\ \A i \in ItemsIn(b) : Closed(i)
         \/ Throw(b)
         \/ Defer(b) /\ queue[b].defers < MaxDeferrals
  PROVE  JobsInv'
<1>1. Types /\ queue[b].attempts < MaxAttempts /\ "done" \in QueueSt
  BY RunsWhileWorked DEF JobsInv, QueueSt
<1>2. CASE Finish(b) /\ \A i \in ItemsIn(b) : Closed(i)
  <2>1. queue'[b].st = "done" /\ \A c \in Batches : c # b => queue'[c] = queue[c]
    BY <1>1, <1>2, QueueEffect DEF Finish
  <2>2. QED
    BY <1>2, <2>1, LetGoKeeps DEF Finish
<1>3. CASE Throw(b)
  <2>1. /\ queue'[b].st \in {"failed", "waiting"}
        /\ queue'[b].st = "waiting" => queue'[b].attempts < MaxAttempts
        /\ \A c \in Batches : c # b => queue'[c] = queue[c]
    BY <1>1, <1>3, QueueEffect
  <2>2. QED
    BY <1>3, <2>1, LetGoKeeps DEF Throw
<1>4. CASE Defer(b) /\ queue[b].defers < MaxDeferrals
  <2>1. /\ queue'[b].st = "waiting" /\ queue'[b].attempts = queue[b].attempts
        /\ \A c \in Batches : c # b => queue'[c] = queue[c]
    BY <1>1, <1>4, QueueEffect
  <2>2. QED
    BY <1>1, <1>4, <2>1, LetGoKeeps DEF Defer
<1>5. QED
  BY <1>2, <1>3, <1>4

(* A statement that throws, and a worker that dies.                        *)
LEMMA CrashKeeps ==
  ASSUME JobsInv, NEW b \in Batches, AttemptFails(b) \/ WorkerDies(b)
  PROVE  JobsInv'
<1> USE DEF dbVars, apiVars
<1>1. Types /\ Types' /\ work[b].pc # "off" /\ UNCHANGED <<job, item, slot, rows, live, req, stop>>
  BY BatchTypes DEF JobsInv, AttemptFails, WorkerDies
<1>2. CASE AttemptFails(b)
  BY <1>1, <1>2, EndKeeps DEF AttemptFails
<1>3. CASE WorkerDies(b)
  <2>1. /\ queue'[b].st \in {"failed", "waiting"} /\ queue'[b].attempts = queue[b].attempts
        /\ \A c \in Batches : c # b => queue'[c] = queue[c]
    BY <1>1, <1>3, QueueEffect
  <2>2. QED
    BY <1>1, <1>3, <2>1, RunsWhileWorked, LetGoKeeps DEF WorkerDies
<1>4. QED
  BY <1>2, <1>3

(* The end of the preparation: nothing is being recorded any more, and     *)
(* what is not ready is closed.                                            *)
LEMMA PreparedKeeps ==
  ASSUME JobsInv, NEW b \in Batches, Prepared(b)
  PROVE  JobsInv'
<1> USE DEF dbVars, apiVars
<1>1. Types /\ Types' /\ Queued(b) /\ JobsGoOn /\ "write" \in WorkPc
  BY BatchTypes DEF JobsInv, Prepared, JobsGoOn, WorkPc
<1>2. work[b].pc = "prepare" /\ UNCHANGED <<job, item, slot, rows, live, req, stop>> /\ ~work[b].throw
  BY <1>1 DEF Prepared, Queued
<1>3. queue[b].st = "running" /\ queue[b].attempts < MaxAttempts
  BY <1>2, RunsWhileWorked
<1>4. ASSUME ~work[b].budget, NEW i \in ItemsIn(b)
      PROVE  task[i].pc \in {"idle", "ready"} /\ (task[i].pc = "idle" => Closed(i))
  <2>1. i \in Items /\ i[1] = b /\ Fits(i)
    BY DEF ItemsIn, JobsInv
  <2>2. task[i].pc \notin Recording \cup {"fail", "draft"} /\ task[i].pc # "todo"
    BY <1>4 DEF Prepared, InState
  <2>3. task[i].pc \in {"idle", "ready"}
    BY <1>2, <2>1, <2>2 DEF Fits, Worked, MayBe
  <2>4. QED
    BY <1>2, <1>4, <2>1, <2>3 DEF Fits, Handed
<1>5. CASE work[b].budget
  <2>1. Defer(b) /\ queue[b].defers < MaxDeferrals
    BY <1>1, <1>5 DEF Prepared, Queued
  <2>2. QED
    BY <1>1, <1>2, <2>1, EndKeeps
<1>6. CASE ~work[b].budget /\ InState(b, {"ready"}) = {} /\ Finish(b)
  <2>1. \A i \in ItemsIn(b) : Closed(i)
    BY <1>4, <1>6 DEF InState
  <2>2. QED
    BY <1>1, <1>2, <1>6, <2>1, EndKeeps
<1>7. CASE ~work[b].budget /\ Goto(b, "write") /\ UNCHANGED <<queue, task>>
  <2>1. /\ work'[b].pc = "write" /\ ~work'[b].budget /\ ~work'[b].throw
        /\ \A c \in Batches : c # b => work'[c] = work[c]
    BY <1>1, <1>2, <1>7, GotoTyped
  <2>2. ASSUME NEW i \in ItemsIn(b) PROVE Fits(i)'
    <3>1. i \in Items /\ i[1] = b /\ Fits(i) /\ Kind(i)' = Kind(i) /\ task'[i] = task[i]
      BY <1>2, <1>7 DEF ItemsIn, JobsInv, Kind
    <3>2. task[i].pc \in {"idle", "ready"} /\ (task[i].pc = "idle" => Closed(i)')
      BY <1>2, <1>4, <1>7 DEF Closed
    <3>3. QED
      BY <1>2, <1>3, <1>7, <2>1, <3>1, <3>2
      DEF Fits, Worked, MayBe, ListedOnce, ListedTruly, Counted, Handed, Recording
  <2>3. QED
    BY <1>1, <1>2, <1>3, <1>7, <2>1, <2>2, GoOnKeeps
<1>8. QED
  BY <1>5, <1>6, <1>7 DEF Prepared

(* The end of the recording: every item of the batch is left alone.        *)
LEMMA RecordedKeeps ==
  ASSUME JobsInv, NEW b \in Batches, Recorded(b)
  PROVE  JobsInv'
<1> USE DEF dbVars, apiVars
<1>1. Types /\ Types' /\ Queued(b) /\ work[b].pc \in {"close", "record"}
      /\ UNCHANGED <<job, item, slot, rows, live, req, stop>>
  BY BatchTypes DEF JobsInv, Recorded
<1>2. CASE work[b].throw /\ Throw(b)
  BY <1>1, <1>2, EndKeeps
<1>3. CASE ~work[b].throw /\ Finish(b)
  <2>1. ASSUME NEW i \in ItemsIn(b) PROVE Closed(i)
    <3>1. i \in Items /\ i[1] = b /\ Fits(i) /\ task[i].pc = "idle"
      BY DEF ItemsIn, JobsInv, Recorded
    <3>2. ~work[b].budget
      BY <1>1 DEF Queued
    <3>3. QED
      BY <1>1, <1>3, <3>1, <3>2 DEF Fits, Handed
  <2>2. QED
    BY <1>1, <1>3, <2>1, EndKeeps
<1>4. QED
  BY <1>2, <1>3 DEF Recorded

(* The call to eBay: what it told is published, what it did not tell may   *)
(* be; a call that throws closes what was ready or leaves it to a retry.   *)
LEMMA WriteKeeps ==
  ASSUME JobsInv, NEW b \in Batches, WriteToEbay(b)
  PROVE  JobsInv'
<1> USE DEF dbVars, apiVars
<1>1. /\ Types /\ Types' /\ Queued(b) /\ JobsGoOn
      /\ "record" \in WorkPc /\ "retry" \in TaskPc /\ "fail" \in TaskPc
  BY BatchTypes DEF JobsInv, WriteToEbay, JobsGoOn, WorkPc, TaskPc
<1>2. /\ work[b].pc = "write" /\ UNCHANGED <<job, item, slot, rows, req, stop>>
      /\ ~work[b].throw /\ ~work[b].budget
  BY <1>1 DEF WriteToEbay, Queued
<1>3. queue[b].st = "running" /\ queue[b].attempts < MaxAttempts
  BY <1>2, RunsWhileWorked
<1> DEFINE ready == InState(b, {"ready"})
<1>4. PICK published \in SUBSET ready :
        /\ live' = live \cup {i[2] : i \in published}
        /\ \/ \E told \in SUBSET published :
                /\ Goto(b, "record") /\ UNCHANGED queue
                /\ task' \in [Items -> Task]
                /\ \A i \in Items : /\ i \in told => task'[i].pc = "ok" /\ ~task'[i].keep
                                    /\ i \in ready \ told => task'[i].pc = "fail" /\ ~task'[i].keep
                                    /\ i \notin ready => task'[i] = task[i]
           \/ queue[b].defers < MaxDeferrals /\ Defer(b)
           \/ \E retry \in BOOLEAN :
                /\ UNCHANGED queue
                /\ work' \in [Batches -> Work] /\ work'[b].pc = "close" /\ work'[b].throw = retry
                /\ work'[b].budget = work[b].budget
                /\ \A c \in Batches : c # b => work'[c] = work[c]
                /\ SetTasks(ready, IF retry THEN "retry" ELSE "fail")
  BY <1>1, WriteEffect
<1>5. live \subseteq live' /\ \A i \in published : i[2] \in live'
  BY <1>1, <1>4, PublishedTyped
<1>6. ASSUME NEW i \in ItemsIn(b)
      PROVE  /\ i \in Items /\ i[1] = b /\ Fits(i) /\ Kind(i)' = Kind(i)
             /\ i \in ready => task[i].pc = "ready"
             /\ i \notin ready => task[i].pc = "idle" /\ ~task[i].keep /\ Closed(i) /\ Closed(i)'
  <2>1. i \in Items /\ i[1] = b /\ Fits(i) /\ Kind(i)' = Kind(i)
    BY <1>2 DEF ItemsIn, JobsInv, Kind
  <2>2. i \in ready <=> task[i].pc = "ready"
    BY DEF InState
  <2>3. task[i].pc \in {"idle", "ready"}
    BY <1>2, <2>1 DEF Fits, Worked, MayBe
  <2>4. task[i].pc = "idle" => Closed(i)
    BY <1>2, <2>1 DEF Fits, Handed
  <2>5. Closed(i) => Closed(i)'
    BY <1>2, <2>1 DEF Closed
  <2>6. task[i].keep \in BOOLEAN /\ (task[i].keep => task[i].pc \in Recording)
    BY <1>1, <2>1 DEF Types, Task, Fits, Worked
  <2>7. QED
    BY <2>1, <2>2, <2>3, <2>4, <2>5, <2>6 DEF Recording
<1>7. \A i \in ready : i[1] = b
  BY DEF InState, ItemsIn
<1>8. CASE \E told \in SUBSET published :
             /\ Goto(b, "record") /\ UNCHANGED queue
             /\ task' \in [Items -> Task]
             /\ \A i \in Items : /\ i \in told => task'[i].pc = "ok" /\ ~task'[i].keep
                                 /\ i \in ready \ told => task'[i].pc = "fail" /\ ~task'[i].keep
                                 /\ i \notin ready => task'[i] = task[i]
  <2>1. PICK told \in SUBSET published :
             /\ Goto(b, "record") /\ UNCHANGED queue
             /\ task' \in [Items -> Task]
             /\ \A i \in Items : /\ i \in told => task'[i].pc = "ok" /\ ~task'[i].keep
                                 /\ i \in ready \ told => task'[i].pc = "fail" /\ ~task'[i].keep
                                 /\ i \notin ready => task'[i] = task[i]
    BY <1>8
  <2>2. /\ work'[b].pc = "record" /\ ~work'[b].budget /\ ~work'[b].throw
        /\ \A c \in Batches : c # b => work'[c] = work[c]
    BY <1>1, <1>2, <2>1, GotoTyped
  <2>3. ASSUME NEW i \in ItemsIn(b) PROVE Fits(i)'
    <3> HIDE DEF ready
    <3>1. CASE i \in told
      <4>1. i \in ready /\ i[2] \in live' /\ task'[i].pc = "ok" /\ ~task'[i].keep
        BY <1>5, <1>6, <2>1, <3>1
      <4>2. QED
        BY <1>2, <1>3, <1>6, <2>1, <2>2, <4>1 DEF Fits, Worked, MayBe, ListedOnce, ListedTruly, Counted, Handed
    <3>2. CASE i \in ready \ told
      <4>1. task'[i].pc = "fail" /\ ~task'[i].keep
        BY <1>6, <2>1, <3>2
      <4>2. QED
        BY <1>2, <1>3, <1>5, <1>6, <2>1, <2>2, <3>2, <4>1
        DEF Fits, Worked, MayBe, ListedOnce, ListedTruly, Counted, Handed
    <3>3. CASE i \notin ready
      <4>1. task'[i] = task[i]
        BY <1>6, <2>1, <3>3
      <4>2. QED
        BY <1>2, <1>3, <1>5, <1>6, <2>1, <2>2, <3>3, <4>1
        DEF Fits, Worked, MayBe, ListedOnce, ListedTruly, Counted, Handed, Recording
    <3>4. QED
      BY <3>1, <3>2, <3>3
  <2>4. \A i \in Items : i[1] # b => task'[i] = task[i]
    BY <1>7, <2>1
  <2>5. QED
    BY <1>1, <1>2, <1>3, <1>5, <2>1, <2>2, <2>3, <2>4, GoOnKeeps
<1>9. CASE queue[b].defers < MaxDeferrals /\ Defer(b)
  BY <1>1, <1>2, <1>5, <1>9, EndKeeps
<1>10. CASE \E retry \in BOOLEAN :
              /\ UNCHANGED queue
              /\ work' \in [Batches -> Work] /\ work'[b].pc = "close" /\ work'[b].throw = retry
              /\ work'[b].budget = work[b].budget
              /\ \A c \in Batches : c # b => work'[c] = work[c]
              /\ SetTasks(ready, IF retry THEN "retry" ELSE "fail")
  <2>1. PICK retry \in BOOLEAN :
              /\ UNCHANGED queue
              /\ work' \in [Batches -> Work] /\ work'[b].pc = "close" /\ work'[b].throw = retry
              /\ work'[b].budget = work[b].budget
              /\ \A c \in Batches : c # b => work'[c] = work[c]
              /\ SetTasks(ready, IF retry THEN "retry" ELSE "fail")
    BY <1>10
  <2> HIDE DEF ready
  <2>2. \A i \in Items : /\ i \in ready => task'[i].pc = (IF retry THEN "retry" ELSE "fail") /\ ~task'[i].keep
                         /\ i \notin ready => task'[i] = task[i]
    BY <1>1, <2>1, TasksTyped
  <2>3. ASSUME NEW i \in ItemsIn(b) PROVE Fits(i)'
    <3>1. CASE i \in ready
      <4>1. task'[i].pc \in {"retry", "fail"} /\ ~task'[i].keep /\ (task'[i].pc = "retry" => retry)
        BY <1>6, <2>2, <3>1
      <4>2. QED
        BY <1>2, <1>3, <1>5, <1>6, <2>1, <3>1, <4>1
        DEF Fits, Worked, MayBe, ListedOnce, ListedTruly, Counted, Handed
    <3>2. CASE i \notin ready
      <4>1. task'[i] = task[i]
        BY <1>6, <2>2, <3>2
      <4>2. QED
        BY <1>2, <1>3, <1>5, <1>6, <2>1, <3>2, <4>1
        DEF Fits, Worked, MayBe, ListedOnce, ListedTruly, Counted, Handed, Recording
    <3>3. QED
      BY <3>1, <3>2
  <2>4. \A i \in Items : i[1] # b => task'[i] = task[i]
    BY <1>7, <2>2
  <2>5. QED
    BY <1>1, <1>2, <1>3, <1>5, <2>1, <2>3, <2>4, GoOnKeeps
<1>11. QED
  BY <1>4, <1>8, <1>9, <1>10

(***************************************************************************)
(* The steps of a worker for one item.                                     *)
(***************************************************************************)
(* The other items, of this batch and of others, are left alone; the item  *)
(* exists, and its batch is being run.                                     *)
LEMMA ItemStepKeeps ==
  ASSUME JobsInv, Types', JobsGoOn, NEW i \in Items, task[i].pc # "idle",
         UNCHANGED <<live, queue, req>>, item'[i] # "none",
         \A b \in Batches : Queued(b)',
         \A b \in Batches : /\ work'[b].pc = work[b].pc /\ work'[b].throw = work[b].throw
                            /\ work[b].budget => work'[b].budget,
         \A k \in Items : k # i => /\ task'[k] = task[k] /\ rows'[k] = rows[k]
                                   /\ item'[k] = item[k] /\ slot'[k] = slot[k],
         Fits(i)'
  PROVE  JobsInv'
<1>1. item[i] # "none"
  BY DEF JobsInv, Fits, Worked
<1>2. Requested'
  <2>1. \A k \in Items : /\ item[k] = "none" => item'[k] = "none" /\ rows'[k] = rows[k]
                         /\ item[k] = "none" /\ slot[k] = "none" => slot'[k] = "none"
    BY <1>1
  <2>2. QED
    BY <2>1, RequestedKept DEF JobsInv
<1>3. ASSUME NEW k \in Items, k # i PROVE Fits(k)'
  <2>1. Spared(k)
    BY <1>3, ItemFacts DEF Spared, JobsGoOn
  <2>2. QED
    BY <2>1, SparedFits DEF JobsInv
<1>4. QED
  BY <1>2, <1>3 DEF JobsInv

(* A step for an item that leaves its worker alone.                        *)
LEMMA WorkerStays ==
  ASSUME JobsInv, UNCHANGED <<work, queue>>
  PROVE  /\ \A b \in Batches : Queued(b)'
         /\ \A b \in Batches : /\ work'[b].pc = work[b].pc /\ work'[b].throw = work[b].throw
                               /\ work[b].budget => work'[b].budget
BY DEF JobsInv, Queued

(* An item that is worked on belongs to a batch that is run.               *)
LEMMA ItemIsRun ==
  ASSUME JobsInv, NEW i \in Items, task[i].pc # "idle"
  PROVE  /\ i[1] \in Batches /\ JobOf[i[1]] \in Jobs /\ queue[i[1]].st = "running"
         /\ item[i] # "none" /\ Types /\ Fits(i) /\ Queued(i[1])
         /\ rows[i] \in Nat
<1>1. i[1] \in Batches /\ JobOf[i[1]] \in Jobs /\ Types /\ Fits(i) /\ Queued(i[1])
  BY ItemFacts DEF JobsInv
<1>2. work[i[1]].pc # "off" /\ item[i] # "none"
  BY <1>1 DEF Fits, Worked, MayBe
<1>3. QED
  BY <1>1, <1>2 DEF Queued, Types

(* Preparing an item: refused, ready to be written, or stopped by a spent  *)
(* budget.                                                                 *)
LEMMA PrepareKeeps ==
  ASSUME JobsInv, NEW i \in Items, PrepareItem(i)
  PROVE  JobsInv'
<1> USE DEF dbVars, apiVars
<1> DEFINE b == i[1]
<1>1. /\ work[b].pc = "prepare" /\ task[i].pc = "todo" /\ ~work[b].budget
      /\ UNCHANGED <<job, item, slot, rows, live, queue, req, stop>>
  BY DEF PrepareItem
<1>2. /\ b \in Batches /\ queue[b].st = "running" /\ item[i] # "none" /\ Types /\ Fits(i) /\ Queued(b)
      /\ rows[i] \in Nat
  BY <1>1, ItemIsRun
<1>3. Types' /\ JobsGoOn /\ Kind(i)' = Kind(i)
  BY <1>1, <1>2, ItemTypes DEF JobsGoOn, Kind
<1>4. ASSUME NEW pc \in {"fail", "draft", "ready", "idle"}, SetTasks({i}, pc)
      PROVE  /\ task'[i].pc = pc /\ ~task'[i].keep
             /\ \A k \in Items : k # i => task'[k] = task[k]
  <2>1. pc \in TaskPc
    BY DEF TaskPc
  <2>2. QED
    BY <1>2, <1>4, <2>1, TasksTyped
<1>5. CASE \/ SetTasks({i}, "fail") /\ UNCHANGED work
           \/ /\ ~Listed(i[2]) /\ UNCHANGED work
              /\ SetTasks({i}, IF Kind(i) = "draft" THEN "draft" ELSE "ready")
  <2>1. PICK pc \in {"fail", "draft", "ready"} :
          /\ SetTasks({i}, pc)
          /\ pc # "fail" => ~Listed(i[2])
          /\ pc = "draft" => Kind(i) = "draft"
          /\ pc = "ready" => Kind(i) # "draft"
    BY <1>5
  <2>2. pc # "fail" => rows[i] = 0
    BY <1>2, <2>1 DEF Listed
  <2>3. /\ task'[i].pc = pc /\ ~task'[i].keep
        /\ \A k \in Items : k # i => task'[k] = task[k]
    BY <1>4, <2>1
  <2>4. UNCHANGED work
    BY <1>5
  <2>5. Fits(i)'
    BY <1>1, <1>2, <1>3, <2>1, <2>2, <2>3, <2>4
    DEF Fits, Worked, MayBe, ListedOnce, ListedTruly, Counted, Handed
  <2>6. QED
    BY <1>1, <1>2, <1>3, <2>3, <2>4, <2>5, WorkerStays, ItemStepKeeps
<1>6. CASE /\ queue[b].defers < MaxDeferrals /\ SetTasks({i}, "idle")
           /\ work' = [work EXCEPT ![b].budget = TRUE]
  <2>1. /\ work'[b].pc = "prepare" /\ work'[b].throw = work[b].throw /\ work'[b].budget
        /\ \A c \in Batches : c # b => work'[c] = work[c]
    BY <1>1, <1>2, <1>6, BudgetEffect
  <2>2. /\ task'[i].pc = "idle" /\ ~task'[i].keep
        /\ \A k \in Items : k # i => task'[k] = task[k]
    BY <1>4, <1>6
  <2>3. \A c \in Batches : Queued(c)'
    <3>1. Queued(b)'
      BY <1>1, <1>2, <1>6, <2>1 DEF Queued
    <3>2. QED
      BY <1>1, <2>1, <3>1, QueuedKept DEF JobsInv
  <2>4. Fits(i)'
    BY <1>1, <1>2, <1>3, <2>1, <2>2
    DEF Fits, Worked, MayBe, ListedOnce, ListedTruly, Counted, Handed
  <2>5. \A c \in Batches : /\ work'[c].pc = work[c].pc /\ work'[c].throw = work[c].throw
                           /\ work[c].budget => work'[c].budget
    BY <1>1, <2>1
  <2>6. QED
    BY <1>1, <1>2, <1>3, <2>2, <2>3, <2>4, <2>5, ItemStepKeeps
<1>7. QED
  BY <1>5, <1>6 DEF PrepareItem

(* Recording an item: its row, its result, the counts, its slot.           *)
LEMMA RecordKeeps ==
  ASSUME JobsInv, NEW i \in Items, WriteRow(i) \/ WriteItem(i) \/ ReadCounts(i) \/ WriteCounts(i) \/ HandOver(i)
  PROVE  JobsInv'
<1> USE DEF dbVars, apiVars
<1> DEFINE b == i[1]
<1>1. task[i].pc # "idle"
  BY DEF WriteRow, WriteItem, ReadCounts, WriteCounts, HandOver
<1>2. /\ b \in Batches /\ JobOf[b] \in Jobs /\ queue[b].st = "running" /\ item[i] # "none"
      /\ Types /\ Fits(i) /\ Queued(b) /\ rows[i] \in Nat
  BY <1>1, ItemIsRun
<1>3. Types' /\ UNCHANGED <<live, queue, work, req>>
  BY <1>2, ItemTypes DEF WriteRow, WriteItem, ReadCounts, WriteCounts, HandOver
<1>4. JobsGoOn
  BY <1>2, TallyEffect DEF JobsGoOn, WriteRow, WriteItem, ReadCounts, WriteCounts, HandOver
<1>5. Kind(i)' = Kind(i)
  BY <1>2, <1>4 DEF JobsGoOn, Kind
<1>6. /\ task[i].keep \in BOOLEAN /\ Worked(i) /\ ListedOnce(i) /\ ListedTruly(i) /\ Counted(i) /\ Handed(i)
      /\ item[i] \in {"none", "draft", "retrying"} \cup Settled
  BY <1>2 DEF Types, Task, Fits
<1>7. CASE WriteRow(i)
  <2>1. /\ rows'[i] = rows[i] + 1 /\ task'[i].pc = "item"
        /\ \A k \in Items : k # i => rows'[k] = rows[k] /\ task'[k] = task[k]
        /\ task[i].pc \in {"ok", "draft"} /\ (task'[i].keep <=> task[i].pc = "draft")
        /\ UNCHANGED <<job, item, slot>>
    BY <1>2, <1>7, RowEffect DEF WriteRow
  <2>2. Worked(i)'
    BY <1>2, <1>3, <1>6, <2>1 DEF Worked, MayBe, Recording
  <2>3. rows[i] = 0 /\ rows'[i] = 1
    BY <1>6, <2>1 DEF ListedOnce
  <2>4. ListedOnce(i)'
    BY <2>1, <2>3 DEF ListedOnce
  <2>5. ListedTruly(i)'
    BY <1>3, <1>5, <1>6, <2>1, <2>3 DEF ListedTruly
  <2>6. Counted(i)'
    BY <1>3, <1>5, <1>6, <2>1 DEF Counted
  <2>7. Handed(i)'
    BY <1>2, <1>3, <1>5, <1>6, <2>1 DEF Handed, ListedTruly
  <2>8. QED
    BY <1>1, <1>2, <1>3, <1>4, <2>1, <2>2, <2>4, <2>5, <2>6, <2>7, WorkerStays, ItemStepKeeps DEF Fits
<1>8. CASE WriteItem(i)
  <2>1. /\ task[i].pc \in {"item", "fail", "retry"} /\ task'[i].pc = "count"
        /\ item'[i] = CASE task[i].pc = "item" -> "active" [] task[i].pc = "fail" -> "error" [] task[i].pc = "retry" -> "retrying"
        /\ \A k \in Items : k # i => item'[k] = item[k] /\ task'[k] = task[k]
        /\ (task'[i].keep <=> task[i].keep \/ task[i].pc = "retry")
        /\ UNCHANGED <<job, slot, rows>>
    BY <1>2, <1>8, ItemEffect DEF WriteItem
  <2>2. /\ item'[i] # "none" /\ (item'[i] = "active" <=> task[i].pc = "item")
        /\ task[i].pc # "retry" => item'[i] \in Settled
    BY <2>1 DEF Settled
  <2>3. Worked(i)'
    BY <1>2, <1>3, <1>6, <2>1, <2>2 DEF Worked, MayBe, Recording
  <2>4. ListedOnce(i)'
    BY <1>6, <2>1 DEF ListedOnce
  <2>5. ListedTruly(i)'
    BY <1>3, <1>5, <1>6, <2>1, <2>2 DEF ListedTruly
  <2>6. Counted(i)'
    BY <1>2, <1>3, <1>5, <1>6, <2>1 DEF Counted
  <2>7. Handed(i)'
    BY <1>2, <1>3, <1>5, <1>6, <2>1, <2>2 DEF Handed
  <2>8. QED
    BY <1>1, <1>2, <1>3, <1>4, <2>1, <2>2, <2>3, <2>4, <2>5, <2>6, <2>7, WorkerStays, ItemStepKeeps DEF Fits
<1>9. CASE ReadCounts(i)
  <2>1. /\ task[i].pc = "count" /\ task'[i].pc = "tally" /\ task'[i].keep = task[i].keep
        /\ \A k \in Items : k # i => task'[k] = task[k]
        /\ UNCHANGED <<job, item, slot, rows>>
    BY <1>2, <1>9, SnapEffect DEF ReadCounts
  <2>2. Worked(i)'
    BY <1>2, <1>3, <1>6, <2>1 DEF Worked, MayBe, Recording
  <2>3. Fits(i)'
    BY <1>2, <1>3, <1>5, <1>6, <2>1, <2>2 DEF Fits, ListedOnce, ListedTruly, Counted, Handed
  <2>4. QED
    BY <1>1, <1>2, <1>3, <1>4, <2>1, <2>3, WorkerStays, ItemStepKeeps
<1>10. CASE WriteCounts(i)
  <2>1. /\ task[i].pc = "tally" /\ task'[i].pc = (IF task[i].keep THEN "idle" ELSE "hand") /\ ~task'[i].keep
        /\ \A k \in Items : k # i => task'[k] = task[k]
        /\ UNCHANGED <<item, slot, rows>>
    BY <1>2, <1>10, TallyEffect DEF WriteCounts
  <2>2. Worked(i)'
    BY <1>2, <1>3, <1>6, <2>1 DEF Worked, MayBe, Recording
  <2>3. task'[i].pc = "idle" /\ ~work[b].throw => Closed(i)'
    BY <1>6, <2>1 DEF Handed, Counted, Closed
  <2>4. Handed(i)'
    BY <1>2, <1>3, <1>6, <2>1, <2>3 DEF Handed
  <2>5. Fits(i)'
    BY <1>3, <1>5, <1>6, <2>1, <2>2, <2>4 DEF Fits, ListedOnce, ListedTruly, Counted
  <2>6. QED
    BY <1>1, <1>2, <1>3, <1>4, <2>1, <2>5, WorkerStays, ItemStepKeeps
<1>11. CASE HandOver(i)
  <2>1. /\ task[i].pc = "hand" /\ task'[i] = Idle
        /\ slot'[i] # "reserved" /\ (slot'[i] = "none" <=> slot[i] = "none")
        /\ \A k \in Items : k # i => task'[k] = task[k] /\ slot'[k] = slot[k]
        /\ UNCHANGED <<job, item, rows>>
    BY <1>2, <1>11, HandEffect DEF HandOver
  <2>2. task'[i].pc = "idle" /\ ~task'[i].keep /\ slot'[i] # "reserved" /\ (slot'[i] = "none" <=> slot[i] = "none")
    BY <2>1 DEF Idle
  <2>3. Worked(i)'
    BY <1>3, <1>6, <2>1, <2>2 DEF Worked, MayBe
  <2>4. ~work[b].throw => Closed(i)'
    BY <1>6, <2>1, <2>2 DEF Handed, Closed
  <2>5. Handed(i)'
    BY <1>2, <1>3, <2>2, <2>4 DEF Handed
  <2>6. Fits(i)'
    BY <1>3, <1>5, <1>6, <2>1, <2>2, <2>3, <2>5 DEF Fits, ListedOnce, ListedTruly, Counted
  <2>7. QED
    BY <1>1, <1>2, <1>3, <1>4, <2>1, <2>6, WorkerStays, ItemStepKeeps
<1>12. QED
  BY <1>7, <1>8, <1>9, <1>10, <1>11

(***************************************************************************)
(* The theorems.                                                           *)
(***************************************************************************)
(* Every step keeps the invariant.                                         *)
LEMMA JobsStep == JobsInv /\ [Next]_vars => JobsInv'
<1> SUFFICES ASSUME JobsInv, [Next]_vars PROVE JobsInv'
  OBVIOUS
<1>1. ASSUME NEW j \in Jobs, Seller(j) PROVE JobsInv'
  <2>1. CASE Submit(j)
    BY <2>1, SubmitKeeps
  <2>2. CASE CountSlots(j) \/ InsertSlots(j) \/ DeleteUnstarted(j) \/ Enqueue(j) \/ RequestDies(j)
    BY <2>2, RequestKeeps
  <2>3. CASE \/ AskCancel(j) \/ CancelItems(j) \/ CancelJob(j) \/ CancelCounts(j) \/ CancelTally(j)
             \/ CancelReleases(j) \/ CancelDies(j)
    BY <2>3, CancelKeeps
  <2>4. QED
    BY <1>1, <2>1, <2>2, <2>3, Zenon DEF Seller
<1>2. ASSUME NEW b \in Batches, NEW i \in ItemsIn(b),
             \/ PrepareItem(i) \/ WriteRow(i) \/ WriteItem(i) \/ ReadCounts(i) \/ WriteCounts(i) \/ HandOver(i)
      PROVE  JobsInv'
  <2>1. i \in Items
    BY DEF ItemsIn
  <2>2. QED
    BY <1>2, <2>1, PrepareKeeps, RecordKeeps
<1>3. ASSUME NEW b \in Batches, Runs(b) PROVE JobsInv'
  <2>1. CASE Pick(b)
    BY <2>1, PickKeeps
  <2>2. CASE MarkProcessing(b) \/ CheckStore(b) \/ ReserveAtRun(b)
    BY <2>2, EarlyKeeps
  <2>3. CASE CheckGroup(b)
    BY <2>3, GroupKeeps
  <2>4. CASE Prepared(b)
    BY <2>4, PreparedKeeps
  <2>5. CASE WriteToEbay(b)
    BY <2>5, WriteKeeps
  <2>6. CASE Recorded(b)
    BY <2>6, RecordedKeeps
  <2>7. QED
    BY <1>2, <1>3, <2>1, <2>2, <2>3, <2>4, <2>5, <2>6, Zenon DEF Runs
<1>4. ASSUME NEW b \in Batches, AttemptFails(b) \/ WorkerDies(b) PROVE JobsInv'
  BY <1>4, CrashKeeps
<1>5. CASE UNCHANGED vars
  <2>1. UNCHANGED <<job, item, slot, rows, live, queue, work, task, req, stop>>
    BY <1>5 DEF vars
  <2>2. JobsGoOn /\ Types'
    BY <2>1 DEF JobsInv, Types, JobsGoOn
  <2>3. Requested'
    BY <2>1, <2>2, RequestedKept DEF JobsInv
  <2>4. \A b \in Batches : Queued(b)'
    BY <2>1, QueuedKept DEF JobsInv
  <2>5. \A i \in Items : Fits(i)'
    BY <2>1, <2>2, OthersSpared, SparedFits DEF JobsInv
  <2>6. QED
    BY <2>2, <2>3, <2>4, <2>5 DEF JobsInv
<1>6. QED
  BY <1>1, <1>3, <1>4, <1>5, Zenon DEF Next

(* So it always holds.                                                     *)
LEMMA JobsAlways == Spec => []JobsInv
<1>1. Init => JobsInv
  BY InitJobs
<1>2. JobsInv /\ [Next]_vars => JobsInv'
  BY JobsStep
<1>3. QED
  BY <1>1, <1>2, PTL DEF Spec

(* Every variable keeps its type, and no batch is given more attempts than *)
(* BullMQ grants it.                                                       *)
THEOREM JobsTypeCorrect == Spec => []TypeOK
<1>1. JobsInv => TypeOK
  BY DEF JobsInv, Types, TypeOK, Job, JobStatus, Batch, QueueSt, Work, WorkPc, Task, TaskPc, Stop
<1>2. QED
  BY <1>1, JobsAlways, PTL

(* However a batch is retried, after a throw, a stall or a deferral, no    *)
(* item gets a second listing row: what is on its way to be listed has     *)
(* none, for the duplicate check of prepareItem looked while it prepared.  *)
THEOREM ListedAtMostOnce == Spec => []RetryNeverListsTwice
<1>1. JobsInv => RetryNeverListsTwice
  BY DEF JobsInv, Fits, ListedOnce, RetryNeverListsTwice
<1>2. QED
  BY <1>1, JobsAlways, PTL

(* A row of a job that is not a draft stands for an offer eBay published,  *)
(* and an item shown as created has its row: WriteRow follows only what    *)
(* createListings told ok.                                                 *)
THEOREM NothingListedUnpublished == Spec => []NoPhantomListing
<1>1. JobsInv => NoPhantomListing
  BY DEF JobsInv, Fits, ListedTruly, NoPhantomListing
<1>2. QED
  BY <1>1, JobsAlways, PTL

(* No item goes to eBay that was never counted against the plan, whoever   *)
(* reserved for it (reserveForBulkCreate at the request or at the run).    *)
THEOREM CountedBeforePublished == Spec => []PublishIsCounted
<1>1. ASSUME JobsInv, NEW i \in Items, task[i].pc \in {"ready", "ok"}, slot[i] = "none"
      PROVE  Kind(i) = "scheduled" /\ queue[i[1]].attempts > 0
  <2>1. /\ i[1] \in Batches /\ JobOf[i[1]] \in Jobs /\ queue[i[1]].st = "running" /\ item[i] # "none"
        /\ Types /\ Fits(i) /\ Queued(i[1])
    BY <1>1, ItemIsRun
  <2>2. Kind(i) # "draft" /\ Kind(i) \in JobKinds
    BY <1>1, <2>1 DEF Fits, ListedTruly, Types, Job, Kind
  <2>3. req[JobOf[i[1]]] = "sent"
    BY <1>1, <2>1 DEF JobsInv, Requested
  <2>4. Kind(i) = "scheduled"
    BY <1>1, <2>1, <2>2, <2>3 DEF Fits, Counted, JobKinds
  <2>5. work[i[1]].pc \in {"group", "prepare", "write", "record"}
    <3>1. work[i[1]].pc \in WorkPc
      BY <2>1 DEF Types, Work
    <3>2. QED
      BY <1>1, <2>1, <3>1 DEF Fits, Worked, MayBe, Recording, WorkPc
  <2>6. queue[i[1]].attempts \in 0..MaxAttempts /\ queue[i[1]].attempts # 0
    BY <1>1, <2>1, <2>4, <2>5 DEF Fits, Counted, Types, Batch
  <2>7. QED
    BY <2>4, <2>6, ListingJobsAssumption
<1>2. JobsInv => PublishIsCounted
  BY <1>1 DEF PublishIsCounted
<1>3. QED
  BY <1>2, JobsAlways, PTL

(* A batch that BullMQ counts as done has settled every item it carried    *)
(* and asked its slot back, unless the seller cancelled the job: a run     *)
(* that neither throws nor defers leaves no item alone before it is        *)
(* closed.  A slot it still holds is one whose release the database        *)
(* refused, which releaseSlot only warns about.                            *)
THEOREM DoneMeansSettled == Spec => []DoneBatchIsSettled
<1>1. JobsInv => DoneBatchIsSettled
  BY DEF JobsInv, Fits, Handed, Closed, DoneBatchIsSettled, Sent, ItemsIn
<1>2. QED
  BY <1>1, JobsAlways, PTL

(* No step brings a cancelled job back, whatever counts are written late   *)
(* (updateJobCounts, markJobProcessing) and whichever request is late: a   *)
(* submission finds no job there, a refusal deletes only a pending one.    *)
THEOREM CancelIsFinal == Spec => CancelledForGood
<1>1. ASSUME JobsInv, [Next]_vars, NEW j \in Jobs, job[j].status = "cancelled"
      PROVE  job'[j].status = "cancelled"
  <2>1. Types /\ \A b \in Batches : Queued(b)
    BY <1>1 DEF JobsInv
  <2>2. CASE job' = job
    BY <1>1, <2>2
  <2>3. CASE JobsGoOn
    BY <1>1, <2>3 DEF JobsGoOn
  <2>4. ASSUME NEW k \in Jobs, Submit(k) PROVE job'[j].status = "cancelled"
    <3>1. req[k] = "new" /\ \A l \in Jobs : l # k => job'[l] = job[l]
      BY <2>1, <2>4, SubmitEffect
    <3>2. j # k
      BY <1>1, <3>1 DEF JobsInv, Requested
    <3>3. QED
      BY <1>1, <3>1, <3>2
  <2>5. ASSUME NEW k \in Jobs, DeleteUnstarted(k) PROVE job'[j].status = "cancelled"
    BY <1>1, <2>1, <2>5, DeleteEffect
  <2>6. ASSUME NEW b \in Batches, MarkProcessing(b) PROVE job'[j].status = "cancelled"
    <3>1. JobOf[b] \in Jobs /\ job \in [Jobs -> Job]
      BY <2>1, ListingJobsAssumption DEF Types
    <3>2. QED
      BY <1>1, <2>6, <3>1 DEF MarkProcessing, Job
  <2>7. ASSUME NEW i \in Items, WriteCounts(i) PROVE JobsGoOn
    BY <2>1, <2>7, TallyEffect
  <2>8. ASSUME NEW k \in Jobs,
               \/ AskCancel(k) \/ CancelItems(k) \/ CancelJob(k) \/ CancelCounts(k) \/ CancelTally(k)
               \/ CancelReleases(k) \/ CancelDies(k)
        PROVE  JobsGoOn
    BY <2>1, <2>8, CancelTypes
  <2>9. ASSUME NEW k \in Jobs, CountSlots(k) \/ InsertSlots(k) \/ Enqueue(k) \/ RequestDies(k) PROVE job' = job
    BY <2>9 DEF CountSlots, InsertSlots, Enqueue, RequestDies, dbVars
  <2>10. ASSUME NEW b \in Batches,
                \/ Pick(b) \/ CheckStore(b) \/ ReserveAtRun(b) \/ CheckGroup(b) \/ Prepared(b) \/ WriteToEbay(b)
                \/ Recorded(b) \/ AttemptFails(b) \/ WorkerDies(b)
         PROVE  job' = job
    BY <2>10 DEF Pick, CheckStore, ReserveAtRun, CheckGroup, Prepared, WriteToEbay, Recorded, AttemptFails,
                 WorkerDies, dbVars
  <2>11. ASSUME NEW i \in Items, PrepareItem(i) \/ WriteRow(i) \/ WriteItem(i) \/ ReadCounts(i) \/ HandOver(i)
         PROVE  job' = job
    BY <2>11 DEF PrepareItem, WriteRow, WriteItem, ReadCounts, HandOver, dbVars
  <2>12. ASSUME NEW k \in Jobs, Seller(k) PROVE job'[j].status = "cancelled"
    BY <2>2, <2>3, <2>4, <2>5, <2>8, <2>9, <2>12, Zenon DEF Seller
  <2>13. ASSUME NEW b \in Batches, Runs(b) PROVE job'[j].status = "cancelled"
    <3>1. \A i \in ItemsIn(b) : i \in Items
      BY DEF ItemsIn
    <3>2. QED
      BY <2>2, <2>3, <2>6, <2>7, <2>10, <2>11, <2>13, <3>1, Zenon DEF Runs
  <2>14. CASE UNCHANGED vars
    BY <2>2, <2>14 DEF vars
  <2>15. QED
    BY <1>1, <2>2, <2>10, <2>12, <2>13, <2>14, Zenon DEF Next
<1>2. JobsInv /\ [Next]_vars => [\A j \in Jobs : job[j].status = "cancelled" => job'[j].status = "cancelled"]_vars
  BY <1>1
<1>3. QED
  BY <1>2, JobsAlways, PTL DEF Spec, CancelledForGood
=============================================================================
