------------------------------ MODULE PoolProofs -------------------------------
(***************************************************************************)
(* The proxy pool, for every value of the constants: any number of         *)
(* proxies, threads, requests and tasks.  The invariant has four parts:    *)
(* the types, where a task is (Places), what is counted of it (Counting)   *)
(* and what a cooling proxy may still send (Cooling); each part is         *)
(* preserved by every step, given the types and, for the counting, the     *)
(* places.                                                                 *)
(***************************************************************************)
EXTENDS ProxyPool, FiniteSetTheorems, SequenceTheorems, TLAPS

(***************************************************************************)
(* The inductive invariant.                                                *)
(***************************************************************************)
Outcomes == Wire \cup {"proxy_error", "expired"}
Items == [prio : Nat, seq : Nat, task : Tasks]
WorkerPc == {"off", "loop", "get", "got", "turn", "fetch", "record", "gone"}
RequestPc == {"new", "submit", "wait", "record", "answered"}
Worker == [pc : WorkerPc, item : Items \cup {None}, outcome : Outcomes \cup {"-"}]
Proxy == [threads : 0..Threads, block_streak : 0..(StreakLimit - 1), cooling : BOOLEAN]
Future == [result : {"unborn", "open"} \cup Wire, born : Nat]

(* A worker has a task in hand.                                            *)
Holds(w) == worker[w].pc \in {"got", "turn", "fetch", "record"}

Hands ==
  /\ worker \in [Workers -> Worker]
  /\ \A w \in Workers : /\ Holds(w) <=> worker[w].item # None
                        /\ worker[w].pc = "record" => worker[w].outcome \in Outcomes

PoolTypes ==
  /\ life \in [Urls -> 0..MaxLives] /\ lives \in [Urls -> 0..MaxLives]
  /\ proxy \in [Objects -> Proxy]
  /\ Hands
  /\ queue \subseteq Items /\ seq \in Nat
  /\ fut \in [Tasks -> Future]
  /\ req \in [Requests -> [pc : RequestPc, i : Nat]]
  /\ \A r \in Requests : req[r].i \in 1..Len(Batch[r])
  /\ events \in [Tasks -> Seq(Outcomes)]
  /\ page \in [Tasks -> Outcomes \cup {"-"}]
  /\ overrun \in [Workers -> Nat]

(* The item a task goes through the pool with: requeued or not, it keeps   *)
(* its lane and the number of its submission.                              *)
ItemOf(t) == [prio |-> Priority[t], seq |-> fut[t].born, task |-> t]

ItemsAreTasks ==
  /\ \A i \in queue : i = ItemOf(i.task) /\ fut[i.task].result # "unborn"
  /\ \A w \in Workers : Holds(w) => worker[w].item = ItemOf(Task(w)) /\ fut[Task(w)].result # "unborn"

(* A task is on the queue or in one pair of hands, never both; one that    *)
(* waits for its answer is in one of the two, and is not recorded yet.     *)
OnePlace ==
  /\ \A w \in Workers : Holds(w) => \A i \in queue : i.task # Task(w)
  /\ \A v, w \in Workers : Holds(v) /\ Holds(w) /\ Task(v) = Task(w) => v = w
  /\ \A t \in Tasks : fut[t].result = "open" =>
       (\E i \in queue : i.task = t) \/ (\E w \in Workers : Holds(w) /\ Task(w) = t)
  /\ \A w \in Workers : worker[w].pc = "record" => fut[Task(w)].result # "open"

(* What a request has not submitted is unborn.                             *)
Awaits(r, j) == req[r].pc = "new" \/ (req[r].pc = "submit" /\ req[r].i <= j)
NotYetSubmitted ==
  \A r \in Requests : \A j \in 1..Len(Batch[r]) :
    Awaits(r, j) => fut[Batch[r][j]].result = "unborn"

Places == ItemsAreTasks /\ OnePlace /\ NotYetSubmitted

(* The winner of a task, a worker or the request itself, still owes its    *)
(* event.                                                                  *)
WorkerOwes(w, t) == worker[w].pc = "record" /\ Task(w) = t
RequestOwes(r, t) == req[r].pc = "record" /\ Current(r) = t
Owed(t) == (\E w \in Workers : WorkerOwes(w, t)) \/ (\E r \in Requests : RequestOwes(r, t))

Tally(t) ==
  /\ fut[t].result \notin Wire => events[t] = <<>> /\ ~Owed(t)
  /\ fut[t].result \in Wire => \/ events[t] = <<>> /\ Owed(t)
                               \/ ~Owed(t) /\ \E o \in Outcomes : events[t] = <<o>>
  /\ \A w \in Workers, r \in Requests : ~(WorkerOwes(w, t) /\ RequestOwes(r, t))

(* The true cause, owed or recorded; a page that was counted is on no      *)
(* queue and in no hands, so it is not fetched again.                      *)
Cause(t, o) == fut[t].result = WIRE_OUTCOME(o) /\ (o \notin {"expired", "no_proxy"} => page[t] = o)
Gone(t) == (\A i \in queue : i.task # t) /\ (\A w \in Workers : Holds(w) => Task(w) # t)
TrueCause(t) ==
  /\ \A w \in Workers : WorkerOwes(w, t) => Cause(t, worker[w].outcome)
  /\ (\E r \in Requests : RequestOwes(r, t)) => Cause(t, "expired")
  /\ \A o \in Outcomes : events[t] = <<o>> => Cause(t, o) /\ (o \notin {"expired", "no_proxy"} => Gone(t))

Counting == \A t \in Tasks : Tally(t) /\ TrueCause(t)

(* A thread that is not between the loop's check and its page sends        *)
(* nothing before it is at the check again; what it sent while its proxy   *)
(* cools it sent from there, and the thread whose block began the cooldown *)
(* was not there.                                                          *)
Quiet(w) == worker[w].pc \notin {"get", "got", "turn"}
Cool(w) ==
  /\ overrun[w] <= 1
  /\ overrun[w] = 1 => Quiet(w)
  /\ ~proxy[Of(w)].cooling => overrun[w] = 0
Starter(o, w) == Of(w) = o /\ worker[w].pc # "off" /\ overrun[w] = 0 /\ Quiet(w)
Cooling ==
  /\ \A w \in Workers : Cool(w)
  /\ \A o \in Objects : proxy[o].cooling => \E w \in Workers : Starter(o, w)

(***************************************************************************)
(* Facts about the shorthands.                                             *)
(***************************************************************************)
(* The sentinel is not an item.                                            *)
LEMMA NoneIsNoItem == None \notin Items
BY BatchAssumption DEF None, Items

(* A worker bound to no task is well typed and holds nothing.              *)
LEMMA AtType ==
  ASSUME NEW pc \in WorkerPc
  PROVE  At(pc) \in Worker /\ At(pc).pc = pc /\ At(pc).item = None /\ At(pc).outcome = "-"
BY DEF At, Worker

(* The task a request is at is a task.                                     *)
LEMMA CurrentType ==
  ASSUME PoolTypes, NEW r \in Requests
  PROVE  Current(r) \in Tasks /\ Batch[r] \in Seq(Tasks) /\ Len(Batch[r]) \in Nat
<1>1. Batch[r] \in Seq(Tasks)
  BY ProxyPoolAssumption
<1>2. Len(Batch[r]) \in Nat
  BY <1>1
<1>3. req[r].i \in 1..Len(Batch[r])
  BY DEF PoolTypes, Hands
<1>4. QED
  BY <1>1, <1>2, <1>3, ElementOfSeq DEF Current

(* The item in hand is one of a task.                                      *)
LEMMA TaskType ==
  ASSUME PoolTypes, NEW w \in Workers, Holds(w)
  PROVE  worker[w].item \in Items /\ Task(w) \in Tasks
<1>1. worker[w] \in Worker /\ worker[w].item # None
  BY DEF PoolTypes, Hands
<1>2. worker[w].item \in Items
  BY <1>1 DEF Worker
<1>3. QED
  BY <1>2 DEF Items, Task

(* What moving a worker changes.                                           *)
LEMMA Moves ==
  ASSUME PoolTypes, NEW w \in Workers
  PROVE  /\ \A pc : Goes(w, pc) =>
              /\ worker'[w].pc = pc /\ worker'[w].item = worker[w].item
              /\ worker'[w].outcome = worker[w].outcome
              /\ \A v \in Workers : v # w => worker'[v] = worker[v]
         /\ \A pc : Drops(w, pc) =>
              /\ worker'[w] = At(pc)
              /\ \A v \in Workers : v # w => worker'[v] = worker[v]
<1>1. worker \in [Workers -> Worker]
  BY DEF PoolTypes, Hands
<1>2. QED
  BY <1>1 DEF Goes, Drops, Worker

(* A worker that moves stays well typed, as long as it keeps its item where *)
(* it must have one and gives it up where it must not.                     *)
LEMMA MovesTyped ==
  ASSUME PoolTypes, NEW w \in Workers
  PROVE  /\ \A pc \in WorkerPc \ {"record"} :
              Goes(w, pc) /\ (pc \in {"got", "turn", "fetch"} <=> Holds(w)) => Hands'
         /\ \A pc \in {"loop", "gone"} : Drops(w, pc) => Hands'
<1>1. worker \in [Workers -> Worker]
  BY DEF PoolTypes, Hands
<1>2. ASSUME NEW pc \in WorkerPc \ {"record"}, Goes(w, pc), pc \in {"got", "turn", "fetch"} <=> Holds(w)
      PROVE  Hands'
  <2>1. [worker[w] EXCEPT !.pc = pc] \in Worker
    BY <1>1 DEF Worker
  <2>2. worker' \in [Workers -> Worker]
    BY <1>1, <1>2, <2>1 DEF Goes
  <2>3. worker'[w].pc = pc /\ worker'[w].item = worker[w].item /\ \A v \in Workers : v # w => worker'[v] = worker[v]
    BY <1>2, Moves
  <2>4. ASSUME NEW v \in Workers
        PROVE  /\ worker'[v].pc \in {"got", "turn", "fetch", "record"} <=> worker'[v].item # None
               /\ worker'[v].pc = "record" => worker'[v].outcome \in Outcomes
    <3>1. CASE v = w
      BY <1>2, <2>3, <3>1 DEF PoolTypes, Hands
    <3>2. CASE v # w
      BY <2>3, <3>2 DEF PoolTypes, Hands, Holds
    <3>3. QED
      BY <3>1, <3>2
  <2>5. QED
    BY <2>2, <2>4 DEF Hands, Holds
<1>3. ASSUME NEW pc \in {"loop", "gone"}, Drops(w, pc) PROVE Hands'
  <2>1. At(pc) \in Worker /\ At(pc).pc = pc /\ At(pc).item = None
    BY AtType DEF WorkerPc
  <2>2. worker' \in [Workers -> Worker]
    BY <1>1, <1>3, <2>1 DEF Drops
  <2>3. worker'[w] = At(pc) /\ \A v \in Workers : v # w => worker'[v] = worker[v]
    BY <1>3, Moves
  <2>4. QED
    BY <2>1, <2>2, <2>3 DEF PoolTypes, Hands, Holds
<1>4. QED
  BY <1>2, <1>3

(* The record step of a worker that won.                                   *)
LEMMA RecordTyped ==
  ASSUME PoolTypes, NEW w \in Workers, Holds(w), NEW o \in Outcomes,
         worker' = [worker EXCEPT ![w].pc = "record", ![w].outcome = o]
  PROVE  /\ Hands'
         /\ worker'[w].pc = "record" /\ worker'[w].item = worker[w].item /\ worker'[w].outcome = o
         /\ \A v \in Workers : v # w => worker'[v] = worker[v]
<1>1. worker \in [Workers -> Worker]
  BY DEF PoolTypes, Hands
<1>2. [[worker[w] EXCEPT !.pc = "record"] EXCEPT !.outcome = o] \in Worker
  BY <1>1 DEF Worker, WorkerPc
<1>3. worker' \in [Workers -> Worker]
  BY <1>1, <1>2
<1>4. /\ worker'[w].pc = "record" /\ worker'[w].item = worker[w].item /\ worker'[w].outcome = o
      /\ \A v \in Workers : v # w => worker'[v] = worker[v]
  BY <1>1 DEF Worker
<1>5. Hands'
  BY <1>3, <1>4 DEF PoolTypes, Hands, Holds
<1>6. QED
  BY <1>4, <1>5

(* set_result wins once, and only over an open task.                       *)
LEMMA Resolves ==
  ASSUME PoolTypes, NEW t \in Tasks, NEW o \in Outcomes, Resolve(t, WIRE_OUTCOME(o))
  PROVE  /\ WIRE_OUTCOME(o) \in Wire
         /\ fut' \in [Tasks -> Future]
         /\ \A u \in Tasks : fut'[u].born = fut[u].born /\ (u # t => fut'[u] = fut[u])
         /\ Won(t) <=> fut[t].result = "open"
         /\ Won(t) => fut'[t].result = WIRE_OUTCOME(o)
         /\ ~Won(t) => fut' = fut
<1>1. fut \in [Tasks -> Future] /\ fut[t] \in Future
  BY DEF PoolTypes, Hands
<1>2. WIRE_OUTCOME(o) \in Wire
  BY DEF Outcomes, WIRE_OUTCOME, Wire
<1>3. [fut[t] EXCEPT !.result = WIRE_OUTCOME(o)] \in Future
  BY <1>1, <1>2 DEF Future
<1>4. "open" \notin Wire
  BY DEF Wire
<1>5. CASE fut[t].result = "open"
  <2>1. fut' = [fut EXCEPT ![t].result = WIRE_OUTCOME(o)]
    BY <1>5 DEF Resolve
  <2>2. fut'[t].result = WIRE_OUTCOME(o) /\ fut'[t].born = fut[t].born
    BY <1>1, <2>1 DEF Future
  <2>3. fut'[t] # fut[t]
    BY <1>2, <1>4, <1>5, <2>2
  <2>4. QED
    BY <1>1, <1>2, <1>3, <1>5, <2>1, <2>2, <2>3 DEF Won
<1>6. CASE fut[t].result # "open"
  BY <1>1, <1>2, <1>6 DEF Resolve, Won
<1>7. QED
  BY <1>5, <1>6

(* ensure starts threads that were off and touches no other.               *)
LEMMA EnsureFacts ==
  ASSUME PoolTypes, NEW list \in SUBSET Urls, NEW wanted \in 1..Threads, Ensure(list, wanted)
  PROVE  /\ life' \in [Urls -> 0..MaxLives] /\ lives' \in [Urls -> 0..MaxLives]
         /\ proxy' \in [Objects -> Proxy]
         /\ \A o \in Objects : proxy'[o].cooling = proxy[o].cooling
         /\ Hands'
         /\ \A w \in Workers : worker'[w] = worker[w]
                               \/ (worker[w].pc = "off" /\ worker'[w] = At("loop"))
<1>1. /\ life \in [Urls -> 0..MaxLives] /\ lives \in [Urls -> 0..MaxLives]
      /\ proxy \in [Objects -> Proxy] /\ worker \in [Workers -> Worker]
      /\ Threads \in Nat /\ MaxLives \in Nat
  BY ProxyPoolAssumption DEF PoolTypes, Hands
<1>2. lives' \in [Urls -> 0..MaxLives]
  <2>1. \A u \in list : life[u] = 0 => lives[u] + 1 \in 0..MaxLives
    BY <1>1 DEF Ensure
  <2>2. QED
    BY <1>1, <2>1 DEF Ensure
<1>3. life' \in [Urls -> 0..MaxLives]
  BY <1>1, <1>2 DEF Ensure
<1> DEFINE grown == {w \in Workers : w[1] \in list /\ w[2] = lives'[w[1]] /\ w[3] <= wanted}
           n(o) == Cardinality({k \in 1..Threads : worker'[<<o[1], o[2], k>>].pc # "off"})
<1>4. worker' = [w \in Workers |-> IF w \in grown /\ worker[w].pc = "off" THEN At("loop") ELSE worker[w]]
  BY DEF Ensure
<1>5. At("loop") \in Worker
  BY AtType DEF WorkerPc
<1>6. proxy' = [o \in Objects |-> [proxy[o] EXCEPT !.threads = n(o)]]
  BY DEF Ensure
<1>7. \A o \in Objects : n(o) \in 0..Threads
  <2> TAKE o \in Objects
  <2> DEFINE K == {k \in 1..Threads : worker'[<<o[1], o[2], k>>].pc # "off"}
  <2>1. K \in SUBSET (1..Threads)
    OBVIOUS
  <2>2. IsFiniteSet(1..Threads) /\ Cardinality(1..Threads) = Threads
    BY <1>1, FS_Interval, ProxyPoolAssumption
  <2>3. IsFiniteSet(K) /\ Cardinality(K) <= Threads
    BY <2>1, <2>2, FS_Subset
  <2>4. Cardinality(K) \in Nat
    BY <2>3, FS_CardinalityType
  <2> HIDE DEF K
  <2>5. Cardinality(K) \in 0..Threads
    BY <1>1, <2>3, <2>4
  <2>6. QED
    BY <2>5 DEF K
<1> HIDE DEF n, grown
<1>8. \A o \in Objects : /\ [proxy[o] EXCEPT !.threads = n(o)] \in Proxy
                         /\ [proxy[o] EXCEPT !.threads = n(o)].cooling = proxy[o].cooling
  BY <1>1, <1>7 DEF Proxy
<1>9. worker' \in [Workers -> Worker] /\ \A w \in Workers : worker'[w] = worker[w]
                                           \/ (worker[w].pc = "off" /\ worker'[w] = At("loop"))
  BY <1>1, <1>4, <1>5
<1>10. Hands'
  <2>1. At("loop").pc = "loop" /\ At("loop").item = None
    BY AtType DEF WorkerPc
  <2>2. QED
    BY <1>9, <2>1 DEF PoolTypes, Hands, Holds
<1>11. QED
  BY <1>1, <1>2, <1>3, <1>6, <1>8, <1>9, <1>10

(* A request that goes on to its next task stays within its batch.         *)
LEMMA NextTaskTyped ==
  ASSUME PoolTypes, NEW r \in Requests, NextTask(r)
  PROVE  /\ req' \in [Requests -> [pc : RequestPc, i : Nat]]
         /\ \A q \in Requests : req'[q].i \in 1..Len(Batch[q])
         /\ \A q \in Requests : q # r => req'[q] = req[q]
         /\ req'[r].pc \in {"wait", "answered"}
<1>1. /\ req \in [Requests -> [pc : RequestPc, i : Nat]] /\ req[r].i \in 1..Len(Batch[r])
      /\ Len(Batch[r]) \in Nat
  BY CurrentType DEF PoolTypes
<1>2. CASE req[r].i < Len(Batch[r])
  <2> DEFINE n == req[r].i + 1
  <2>1. n \in 1..Len(Batch[r]) /\ n \in Nat
    BY <1>1, <1>2
  <2>2. req' = [req EXCEPT ![r] = [pc |-> "wait", i |-> n]]
    BY <1>2 DEF NextTask
  <2> HIDE DEF n
  <2>3. QED
    BY <1>1, <2>1, <2>2 DEF RequestPc, PoolTypes
<1>3. CASE ~(req[r].i < Len(Batch[r]))
  <2>1. req' = [req EXCEPT ![r] = [req[r] EXCEPT !.pc = "answered"]]
    BY <1>3 DEF NextTask
  <2>2. QED
    BY <1>1, <2>1 DEF RequestPc, PoolTypes
<1>4. QED
  BY <1>2, <1>3

(* Moving a request on keeps its place in the batch.                       *)
LEMMA RequestMoves ==
  ASSUME PoolTypes, NEW r \in Requests, NEW pc \in RequestPc, req' = [req EXCEPT ![r].pc = pc]
  PROVE  /\ req' \in [Requests -> [pc : RequestPc, i : Nat]]
         /\ \A q \in Requests : req'[q].i = req[q].i /\ (q # r => req'[q] = req[q])
         /\ req'[r].pc = pc
BY DEF PoolTypes, Hands

(***************************************************************************)
(* Types.                                                                  *)
(***************************************************************************)
LEMMA InitTypes == Init => PoolTypes
<1> SUFFICES ASSUME Init PROVE PoolTypes
  OBVIOUS
<1>1. StreakLimit \in Nat \ {0} /\ Threads \in Nat \ {0} /\ MaxLives \in Nat \ {0}
  BY ProxyPoolAssumption
<1>2. life \in [Urls -> 0..MaxLives] /\ lives \in [Urls -> 0..MaxLives]
  BY <1>1 DEF Init
<1>3. proxy \in [Objects -> Proxy]
  BY <1>1 DEF Init, Proxy
<1>4. Hands
  BY AtType DEF Init, WorkerPc, Hands, Holds
<1>5. \A r \in Requests : 1 \in 1..Len(Batch[r])
  <2> TAKE r \in Requests
  <2>1. Batch[r] \in Seq(Tasks) /\ Batch[r] # <<>>
    BY ProxyPoolAssumption, BatchAssumption
  <2>2. Len(Batch[r]) \in Nat \ {0}
    BY <2>1, EmptySeq
  <2>3. QED
    BY <2>2
<1>6. req \in [Requests -> [pc : RequestPc, i : Nat]] /\ \A r \in Requests : req[r].i \in 1..Len(Batch[r])
  BY <1>5 DEF Init, RequestPc
<1>7. events \in [Tasks -> Seq(Outcomes)]
  BY EmptySeq DEF Init
<1>8. fut \in [Tasks -> Future] /\ page \in [Tasks -> Outcomes \cup {"-"}] /\ overrun \in [Workers -> Nat]
  BY DEF Init, Future
<1>9. QED
  BY <1>2, <1>3, <1>4, <1>6, <1>7, <1>8 DEF Init, PoolTypes

(* An answer of either kind is an outcome.                                 *)
LEMMA AnswersTyped == \A o \in Answers \cup Raised : o \in Outcomes
BY ProxyPoolAssumption DEF Outcomes, Wire

(* Recording appends to the counts of one task.                            *)
LEMMA RecordsTyped ==
  ASSUME PoolTypes, NEW t \in Tasks, NEW o \in Outcomes, Record(t, o)
  PROVE  /\ events' \in [Tasks -> Seq(Outcomes)]
         /\ events'[t] = Append(events[t], o)
         /\ \A u \in Tasks : u # t => events'[u] = events[u]
<1>1. events \in [Tasks -> Seq(Outcomes)] /\ Append(events[t], o) \in Seq(Outcomes)
  BY DEF PoolTypes
<1>2. QED
  BY <1>1 DEF Record

(* The streak of a proxy stays below its limit.                            *)
LEMMA StreakTyped ==
  ASSUME NEW p \in Proxy, NEW o
  PROVE  StreakAfter(p, o) \in Proxy /\ (p.cooling => StreakAfter(p, o).cooling)
<1>1. StreakLimit \in Nat \ {0}
  BY ProxyPoolAssumption
<1>2. 0 \in 0..(StreakLimit - 1)
  BY <1>1
<1>3. CASE o \notin {"blocked", "proxy_error"}
  BY <1>2, <1>3 DEF StreakAfter, Proxy
<1>4. CASE o \in {"blocked", "proxy_error"} /\ p.block_streak + 1 >= StreakLimit
  BY <1>2, <1>4 DEF StreakAfter, Proxy
<1>5. CASE o \in {"blocked", "proxy_error"} /\ ~(p.block_streak + 1 >= StreakLimit)
  <2> DEFINE n == p.block_streak + 1
  <2>1. p.block_streak \in 0..(StreakLimit - 1)
    BY DEF Proxy
  <2>2. n \in 0..(StreakLimit - 1)
    BY <1>1, <1>5, <2>1
  <2>3. StreakAfter(p, o) = [p EXCEPT !.block_streak = n]
    BY <1>5 DEF StreakAfter
  <2> HIDE DEF n
  <2>4. QED
    BY <2>2, <2>3 DEF Proxy
<1>6. QED
  BY <1>3, <1>4, <1>5

(* What a request does is well typed.                                      *)
LEMMA PostTypes ==
  ASSUME PoolTypes, NEW r \in Requests, Post(r)
  PROVE  PoolTypes'
<1> USE DEF tasks
<1>1. PICK list \in Lists, wanted \in 1..Threads :
        /\ Ensure(list, wanted)
        /\ IF list = {}
           THEN /\ req' = [req EXCEPT ![r].pc = "answered"]
                /\ events' = [t \in Tasks |-> IF t \in ToSet(Batch[r]) THEN Append(events[t], "no_proxy") ELSE events[t]]
                /\ fut' = [t \in Tasks |-> IF t \in ToSet(Batch[r]) THEN [fut[t] EXCEPT !.result = "no_proxy"] ELSE fut[t]]
           ELSE /\ req' = [req EXCEPT ![r].pc = "submit"]
                /\ UNCHANGED <<events, fut>>
  BY DEF Post
<1>2. list \in SUBSET Urls
  BY ProxyPoolAssumption
<1>3. /\ life' \in [Urls -> 0..MaxLives] /\ lives' \in [Urls -> 0..MaxLives]
      /\ proxy' \in [Objects -> Proxy] /\ Hands'
  BY <1>1, <1>2, EnsureFacts
<1>5. /\ req' \in [Requests -> [pc : RequestPc, i : Nat]]
      /\ \A q \in Requests : req'[q].i \in 1..Len(Batch[q])
  BY <1>1, RequestMoves DEF RequestPc, PoolTypes
<1>6. events' \in [Tasks -> Seq(Outcomes)] /\ fut' \in [Tasks -> Future]
  <2>1. "no_proxy" \in Outcomes /\ "no_proxy" \in Wire
    BY DEF Outcomes, Wire
  <2>2. \A t \in Tasks : Append(events[t], "no_proxy") \in Seq(Outcomes) /\ events[t] \in Seq(Outcomes)
    BY <2>1 DEF PoolTypes
  <2>3. \A t \in Tasks : [fut[t] EXCEPT !.result = "no_proxy"] \in Future /\ fut[t] \in Future
    BY <2>1 DEF PoolTypes, Future
  <2>4. CASE list = {}
    BY <1>1, <2>2, <2>3, <2>4
  <2>5. CASE list # {}
    BY <1>1, <2>5 DEF PoolTypes
  <2>6. QED
    BY <2>4, <2>5
<1>7. UNCHANGED <<queue, seq, page, overrun>>
  BY DEF Post
<1>8. QED
  BY <1>3, <1>5, <1>6, <1>7 DEF PoolTypes

(* What a request submits is an item of the queue.                         *)
LEMMA SubmitFacts ==
  ASSUME PoolTypes, NEW r \in Requests, Submit(r)
  PROVE  /\ queue' = queue \cup {[prio |-> Priority[Current(r)], seq |-> seq, task |-> Current(r)]}
         /\ [prio |-> Priority[Current(r)], seq |-> seq, task |-> Current(r)] \in Items
         /\ fut' \in [Tasks -> Future]
         /\ fut'[Current(r)] = [result |-> "open", born |-> seq]
         /\ \A u \in Tasks : u # Current(r) => fut'[u] = fut[u]
         /\ req' \in [Requests -> [pc : RequestPc, i : Nat]]
         /\ \A q \in Requests : req'[q].i \in 1..Len(Batch[q]) /\ (q # r => req'[q] = req[q])
         /\ req'[r] = IF req[r].i < Len(Batch[r]) THEN [pc |-> "submit", i |-> req[r].i + 1] ELSE [pc |-> "wait", i |-> 1]
<1>1. Current(r) \in Tasks /\ Len(Batch[r]) \in Nat
  BY CurrentType
<1>2. /\ fut \in [Tasks -> Future] /\ seq \in Nat /\ Priority[Current(r)] \in Nat
      /\ req \in [Requests -> [pc : RequestPc, i : Nat]] /\ req[r].i \in 1..Len(Batch[r])
      /\ req[r].pc = "submit"
  BY <1>1, ProxyPoolAssumption DEF PoolTypes, Submit
<1>3. [prio |-> Priority[Current(r)], seq |-> seq, task |-> Current(r)] \in Items
  BY <1>1, <1>2 DEF Items
<1>4. [result |-> "open", born |-> seq] \in Future
  BY <1>2 DEF Future
<1> DEFINE n == req[r].i + 1
<1>5. req[r].i < Len(Batch[r]) => n \in 1..Len(Batch[r])
  BY <1>1, <1>2
<1>6. 1 \in 1..Len(Batch[r])
  BY <1>1, <1>2
<1>7. n \in Nat
  BY <1>1, <1>2
<1>9. req' = [req EXCEPT ![r] = IF req[r].i < Len(Batch[r]) THEN [pc |-> "submit", i |-> n] ELSE [pc |-> "wait", i |-> 1]]
  BY DEF Submit
<1> HIDE DEF n
<1>11. req'[r] = IF req[r].i < Len(Batch[r]) THEN [pc |-> "submit", i |-> n] ELSE [pc |-> "wait", i |-> 1]
  BY <1>2, <1>9
<1>12. req' \in [Requests -> [pc : RequestPc, i : Nat]] /\ \A q \in Requests : q # r => req'[q] = req[q]
  BY <1>2, <1>7, <1>9 DEF RequestPc
<1>13. \A q \in Requests : req'[q].i \in 1..Len(Batch[q])
  <2>1. req'[r].i \in 1..Len(Batch[r])
    BY <1>5, <1>6, <1>11
  <2>2. QED
    BY <1>12, <2>1 DEF PoolTypes
<1>14. queue' = queue \cup {[prio |-> Priority[Current(r)], seq |-> seq, task |-> Current(r)]}
  BY DEF Submit
<1>15. /\ fut' \in [Tasks -> Future] /\ fut'[Current(r)] = [result |-> "open", born |-> seq]
       /\ \A u \in Tasks : u # Current(r) => fut'[u] = fut[u]
  BY <1>1, <1>2, <1>4 DEF Submit
<1>16. QED
  BY <1>3, <1>11, <1>12, <1>13, <1>14, <1>15 DEF n

(* A worker that takes an item has it in hand.                             *)
LEMMA TakesTyped ==
  ASSUME PoolTypes, NEW w \in Workers, NEW item \in Items,
         worker' = [worker EXCEPT ![w].pc = "got", ![w].item = item]
  PROVE  /\ Hands'
         /\ worker'[w].pc = "got" /\ worker'[w].item = item
         /\ \A v \in Workers : v # w => worker'[v] = worker[v]
<1>1. worker \in [Workers -> Worker] /\ item # None
  BY NoneIsNoItem DEF PoolTypes, Hands
<1>2. [[worker[w] EXCEPT !.pc = "got"] EXCEPT !.item = item] \in Worker
  BY <1>1 DEF Worker, WorkerPc
<1>3. worker' \in [Workers -> Worker]
  BY <1>1, <1>2
<1>4. /\ worker'[w].pc = "got" /\ worker'[w].item = item
      /\ \A v \in Workers : v # w => worker'[v] = worker[v]
  BY <1>1 DEF Worker
<1>5. Hands'
  BY <1>1, <1>3, <1>4 DEF PoolTypes, Hands, Holds
<1>6. QED
  BY <1>4, <1>5

(* What a request does is well typed.                                      *)
LEMMA HandleTypes ==
  ASSUME PoolTypes, NEW r \in Requests, Handle(r)
  PROVE  PoolTypes'
<1> USE DEF tasks, proxies
<1>1. CASE Post(r)
  BY <1>1, PostTypes
<1>2. CASE Submit(r)
  <2>1. queue' \subseteq Items
    BY <1>2, SubmitFacts DEF PoolTypes
  <2>2. seq' \in Nat
    BY <1>2 DEF PoolTypes, Submit
  <2>3. UNCHANGED <<life, lives, proxy, worker, events, page, overrun>>
    BY <1>2 DEF Submit
  <2>4. QED
    BY <1>2, <2>1, <2>2, <2>3, SubmitFacts DEF PoolTypes, Hands, Holds
<1>3. CASE Wait(r)
  <2>1. UNCHANGED <<life, lives, proxy, worker, queue, seq, events, page, overrun>>
    BY <1>3 DEF Wait
  <2>2. CASE NextTask(r) /\ UNCHANGED fut
    BY <2>1, <2>2, NextTaskTyped DEF PoolTypes, Hands, Holds
  <2>3. CASE ExpireFuture(r)
    <3>1. Current(r) \in Tasks /\ "expired" \in Outcomes
      BY CurrentType DEF Outcomes
    <3>2. fut' \in [Tasks -> Future]
      BY <2>3, <3>1, Resolves DEF ExpireFuture
    <3>3. /\ req' \in [Requests -> [pc : RequestPc, i : Nat]]
          /\ \A q \in Requests : req'[q].i \in 1..Len(Batch[q])
      BY <2>3, NextTaskTyped, RequestMoves DEF ExpireFuture, RequestPc, PoolTypes
    <3>4. QED
      BY <2>1, <3>2, <3>3 DEF PoolTypes, Hands, Holds
  <2>4. QED
    BY <1>3, <2>2, <2>3 DEF Wait
<1>4. CASE RecordExpired(r)
  <2>1. Current(r) \in Tasks /\ "expired" \in Outcomes
    BY CurrentType DEF Outcomes
  <2>2. events' \in [Tasks -> Seq(Outcomes)]
    BY <1>4, <2>1, RecordsTyped DEF RecordExpired
  <2>3. UNCHANGED <<life, lives, proxy, worker, queue, seq, fut, page, overrun>>
    BY <1>4 DEF RecordExpired
  <2>4. NextTask(r)
    BY <1>4 DEF RecordExpired
  <2>5. QED
    BY <2>2, <2>3, <2>4, NextTaskTyped DEF PoolTypes, Hands, Holds
<1>5. QED
  BY <1>1, <1>2, <1>3, <1>4 DEF Handle

(* What a worker does is well typed.                                       *)
LEMMA RunTypes ==
  ASSUME PoolTypes, NEW w \in Workers, Run(w)
  PROVE  PoolTypes'
<1> USE DEF tasks, proxies
<1>0. w = <<w[1], w[2], w[3]>> /\ Of(w) \in Objects
  BY DEF Workers, Objects, Of
<1>1. CASE Loop(w)
  <2>1. PICK pc \in {"gone", "get"} : Goes(w, pc)
    BY <1>1 DEF Loop
  <2>2. ~Holds(w) /\ pc \in WorkerPc \ {"record"} /\ pc \notin {"got", "turn", "fetch"}
    BY <1>1 DEF Loop, Holds, WorkerPc
  <2>3. Hands'
    BY <2>1, <2>2, MovesTyped
  <2>4. QED
    BY <1>1, <2>3 DEF PoolTypes, Loop
<1>2. CASE Get(w)
  <2>1. CASE Goes(w, "loop") /\ UNCHANGED queue
    <3>1. ~Holds(w) /\ "loop" \in WorkerPc \ {"record"} /\ "loop" \notin {"got", "turn", "fetch"}
      BY <1>2 DEF Get, Holds, WorkerPc
    <3>2. Hands'
      BY <2>1, <3>1, MovesTyped
    <3>3. QED
      BY <1>2, <2>1, <3>2 DEF PoolTypes, Get
  <2>2. ASSUME NEW item \in queue, queue' = queue \ {item},
               worker' = [worker EXCEPT ![w].pc = "got", ![w].item = item]
        PROVE  PoolTypes'
    <3>1. item \in Items /\ item # None /\ queue' \subseteq Items
      BY <2>2, NoneIsNoItem DEF PoolTypes
    <3>2. Hands'
      BY <2>2, <3>1, TakesTyped
    <3>3. QED
      BY <1>2, <2>2, <3>1, <3>2 DEF PoolTypes, Get
  <2>3. QED
    BY <1>2, <2>1, <2>2 DEF Get
<1>3. ASSUME Holds(w), NEW pc \in {"turn", "fetch"}, Goes(w, pc) PROVE Hands'
  BY <1>3, MovesTyped DEF WorkerPc
<1>4. ASSUME Holds(w), Requeue(w) PROVE queue' \subseteq Items /\ seq' \in Nat /\ Hands'
  BY <1>4, TaskType, MovesTyped DEF Requeue, PoolTypes
<1>5. CASE Took(w)
  <2>1. Holds(w) /\ UNCHANGED <<life, lives, proxy, req, events, page, overrun>>
    BY <1>5 DEF Took, Holds
  <2>2. CASE Requeue(w) /\ UNCHANGED fut
    BY <1>4, <2>1, <2>2 DEF PoolTypes
  <2>3. CASE Drops(w, "loop") /\ UNCHANGED <<fut, queue, seq>>
    BY <2>1, <2>3, MovesTyped DEF PoolTypes
  <2>4. CASE /\ Resolve(Task(w), WIRE_OUTCOME("expired")) /\ UNCHANGED <<queue, seq>>
             /\ worker' = [worker EXCEPT ![w].pc = "record", ![w].outcome = "expired"]
    <3>1. Task(w) \in Tasks /\ "expired" \in Outcomes
      BY <2>1, TaskType DEF Outcomes
    <3>2. fut' \in [Tasks -> Future] /\ Hands'
      BY <2>1, <2>4, <3>1, Resolves, RecordTyped
    <3>3. QED
      BY <2>1, <2>4, <3>2 DEF PoolTypes
  <2>5. CASE Goes(w, "turn") /\ UNCHANGED <<fut, queue, seq>>
    BY <1>3, <2>1, <2>5 DEF PoolTypes
  <2>6. QED
    BY <1>5, <2>2, <2>3, <2>4, <2>5 DEF Took
<1>6. CASE WaitTurn(w)
  <2>1. Holds(w) /\ UNCHANGED <<life, lives, proxy, fut, req, events, page>>
    BY <1>6 DEF WaitTurn, Holds
  <2>2. CASE Requeue(w) /\ UNCHANGED overrun
    BY <1>4, <2>1, <2>2 DEF PoolTypes
  <2>3. CASE /\ Goes(w, "fetch") /\ UNCHANGED <<queue, seq>>
             /\ overrun' = IF proxy[Of(w)].cooling THEN [overrun EXCEPT ![w] = @ + 1] ELSE overrun
    <3>1. overrun[w] + 1 \in Nat
      BY <1>0 DEF PoolTypes
    <3>2. overrun' \in [Workers -> Nat]
      BY <2>3, <3>1 DEF PoolTypes
    <3>3. QED
      BY <1>3, <2>1, <2>3, <3>2 DEF PoolTypes
  <2>4. QED
    BY <1>6, <2>2, <2>3 DEF WaitTurn
<1>7. CASE Finish(w)
  <2>1. Holds(w) /\ Task(w) \in Tasks /\ UNCHANGED <<life, lives, queue, seq, req, events, overrun>>
    BY <1>7, TaskType DEF Finish, Holds
  <2>2. PICK o \in Answers \cup Raised :
          /\ page' = [page EXCEPT ![Task(w)] = o]
          /\ \/ o \in Answers /\ proxy' = [proxy EXCEPT ![Of(w)] = StreakAfter(@, o)]
             \/ o \in Raised /\ UNCHANGED proxy
          /\ Resolve(Task(w), WIRE_OUTCOME(o))
          /\ IF Won(Task(w)) THEN worker' = [worker EXCEPT ![w].pc = "record", ![w].outcome = o]
                             ELSE Drops(w, "loop")
    BY <1>7 DEF Finish
  <2>3. o \in Outcomes
    BY AnswersTyped
  <2>4. page' \in [Tasks -> Outcomes \cup {"-"}] /\ fut' \in [Tasks -> Future]
    BY <2>1, <2>2, <2>3, Resolves DEF PoolTypes
  <2>5. proxy' \in [Objects -> Proxy]
    <3>1. proxy \in [Objects -> Proxy]
      BY DEF PoolTypes
    <3>2. StreakAfter(proxy[Of(w)], o) \in Proxy
      BY <1>0, <3>1, StreakTyped
    <3>3. QED
      BY <1>0, <2>2, <3>1, <3>2
  <2>6. Hands'
    BY <2>1, <2>2, <2>3, RecordTyped, MovesTyped
  <2>7. QED
    BY <2>1, <2>4, <2>5, <2>6 DEF PoolTypes
<1>8. CASE RecordResult(w)
  <2>1. Holds(w) /\ Task(w) \in Tasks /\ worker[w].outcome \in Outcomes
    BY <1>8, TaskType DEF RecordResult, Holds, PoolTypes, Hands
  <2>2. events' \in [Tasks -> Seq(Outcomes)] /\ Hands'
    BY <1>8, <2>1, RecordsTyped, MovesTyped DEF RecordResult
  <2>3. QED
    BY <1>8, <2>2 DEF PoolTypes, RecordResult
<1>9. QED
  BY <1>1, <1>2, <1>5, <1>6, <1>7, <1>8 DEF Run

(* Deadlines and cooldowns touch no other type.                            *)
LEMMA TimeTypes ==
  ASSUME PoolTypes, (\E t \in Tasks : DeadlinePasses(t)) \/ (\E o \in Objects : CooldownEnds(o)) \/ UNCHANGED vars
  PROVE  PoolTypes'
<1> USE DEF tasks, proxies
<1>1. ASSUME NEW o \in Objects, CooldownEnds(o) PROVE PoolTypes'
  <2>1. [proxy[o] EXCEPT !.cooling = FALSE] \in Proxy
    <3>1. proxy[o] \in Proxy
      BY DEF PoolTypes
    <3>2. QED
      BY <3>1 DEF Proxy
  <2>2. proxy' \in [Objects -> Proxy] /\ overrun' \in [Workers -> Nat]
    BY <1>1, <2>1 DEF PoolTypes, CooldownEnds
  <2>3. QED
    BY <1>1, <2>2 DEF PoolTypes, Hands, Holds, CooldownEnds
<1>2. CASE (\E t \in Tasks : DeadlinePasses(t)) \/ UNCHANGED vars
  BY <1>2 DEF PoolTypes, Hands, Holds, DeadlinePasses, vars
<1>3. QED
  BY <1>1, <1>2

(* Every step keeps the types.                                             *)
LEMMA NextTypes == PoolTypes /\ [Next]_vars => PoolTypes'
BY HandleTypes, RunTypes, TimeTypes DEF Next

(* Every variable keeps its type.                                          *)
THEOREM PoolTypeCorrect == Spec => []TypeOK
<1>1. Init => PoolTypes
  BY InitTypes
<1>2. PoolTypes /\ [Next]_vars => PoolTypes'
  BY NextTypes
<1>3. PoolTypes => TypeOK
  BY DEF PoolTypes, TypeOK, Hands, Holds, Worker, WorkerPc, Proxy, Future, RequestPc
<1>4. QED
  BY <1>1, <1>2, <1>3, PTL DEF Spec

(***************************************************************************)
(* Where a task is.                                                        *)
(***************************************************************************)
(* The futures of a step: no submission is renumbered, nothing is unborn   *)
(* again or opened, and a holder lets go of answered tasks only.           *)
FuturesGoOn ==
  \A t \in Tasks :
    /\ fut'[t].born = fut[t].born
    /\ fut[t].result # "unborn" => fut'[t].result # "unborn"
    /\ fut'[t].result = "open" =>
         /\ fut[t].result = "open"
         /\ \A w \in Workers : Holds(w) /\ Task(w) = t => Holds(w)'

(* The hands of a step: nobody takes anything up, and who goes to record   *)
(* has an answered task.                                                   *)
NothingTaken ==
  \A w \in Workers :
    /\ Holds(w)' => Holds(w) /\ worker'[w].item = worker[w].item
    /\ worker'[w].pc = "record" => worker[w].pc = "record" \/ fut'[Task(w)].result # "open"

SubmissionsGoOn ==
  \A r \in Requests : \A j \in 1..Len(Batch[r]) :
    Awaits(r, j)' => Awaits(r, j) /\ fut'[Batch[r][j]].result = fut[Batch[r][j]].result

(* A step of that kind that leaves the queue alone keeps every task where  *)
(* it must be.                                                             *)
LEMMA PlacesKept ==
  ASSUME PoolTypes, Places, FuturesGoOn, NothingTaken, SubmissionsGoOn, queue' = queue
  PROVE  Places'
<1>1. \A i \in queue : i.task \in Tasks
  BY DEF PoolTypes, Items
<1>2. \A w \in Workers : Holds(w) => Task(w) \in Tasks
  BY TaskType
<1>3. \A w \in Workers : Holds(w)' => Task(w)' = Task(w) /\ Holds(w) /\ worker'[w].item = worker[w].item
  BY DEF NothingTaken, Task
<1>4. \A t \in Tasks : ItemOf(t)' = ItemOf(t)
  BY DEF FuturesGoOn, ItemOf
<1>5. ItemsAreTasks'
  <2>1. \A i \in queue' : i = ItemOf(i.task)' /\ fut'[i.task].result # "unborn"
    BY <1>1, <1>4 DEF Places, ItemsAreTasks, FuturesGoOn
  <2>2. ASSUME NEW w \in Workers, Holds(w)'
        PROVE  worker'[w].item = ItemOf(Task(w))' /\ fut'[Task(w)'].result # "unborn"
    <3>1. Task(w) \in Tasks /\ Task(w)' = Task(w) /\ worker[w].item = ItemOf(Task(w))
          /\ fut[Task(w)].result # "unborn"
      BY <1>2, <1>3, <2>2 DEF Places, ItemsAreTasks
    <3>2. ItemOf(Task(w))' = ItemOf(Task(w))
      BY <3>1 DEF FuturesGoOn, ItemOf
    <3>3. QED
      BY <1>3, <2>2, <3>1, <3>2 DEF FuturesGoOn
  <2>3. QED
    BY <2>1, <2>2 DEF ItemsAreTasks
<1>6. OnePlace'
  <2>1. \A w \in Workers : Holds(w)' => \A i \in queue' : i.task # Task(w)'
    BY <1>3 DEF Places, OnePlace
  <2>2. \A v, w \in Workers : Holds(v)' /\ Holds(w)' /\ Task(v)' = Task(w)' => v = w
    BY <1>3 DEF Places, OnePlace
  <2>3. ASSUME NEW t \in Tasks, fut'[t].result = "open"
        PROVE  (\E i \in queue' : i.task = t) \/ (\E w \in Workers : Holds(w)' /\ Task(w)' = t)
    BY <1>3, <2>3 DEF Places, OnePlace, FuturesGoOn
  <2>4. ASSUME NEW w \in Workers, worker'[w].pc = "record" PROVE fut'[Task(w)'].result # "open"
    <3>1. Holds(w)'
      BY <2>4 DEF Holds
    <3>2. Holds(w) /\ Task(w)' = Task(w) /\ Task(w) \in Tasks
      BY <1>2, <1>3, <3>1
    <3>3. CASE worker[w].pc = "record"
      BY <3>2, <3>3 DEF Places, OnePlace, FuturesGoOn
    <3>4. CASE fut'[Task(w)].result # "open"
      BY <3>2, <3>4
    <3>5. QED
      BY <2>4, <3>3, <3>4 DEF NothingTaken
  <2>5. QED
    BY <2>1, <2>2, <2>3, <2>4 DEF OnePlace
<1>7. NotYetSubmitted'
  BY DEF Places, NotYetSubmitted, SubmissionsGoOn
<1>8. QED
  BY <1>5, <1>6, <1>7 DEF Places

(* A request that only waits has submitted everything.                     *)
LEMMA WaitingSubmits ==
  ASSUME PoolTypes, NEW r \in Requests, NextTask(r) \/ req' = [req EXCEPT ![r].pc = "record"]
  PROVE  \A q \in Requests : \A j \in 1..Len(Batch[q]) : Awaits(q, j)' => q # r /\ Awaits(q, j)
<1>1. \A q \in Requests : q # r => req'[q] = req[q]
  BY NextTaskTyped, RequestMoves DEF RequestPc
<1>2. req'[r].pc \in {"wait", "answered", "record"}
  BY NextTaskTyped, RequestMoves DEF RequestPc
<1>3. QED
  BY <1>1, <1>2 DEF Awaits

(* A new request starts threads, and may be turned away at once: what it   *)
(* answers was never submitted.                                            *)
LEMMA PostPlaces ==
  ASSUME PoolTypes, Places, NEW r \in Requests, Post(r)
  PROVE  Places'
<1>1. PICK list \in Lists, wanted \in 1..Threads :
        /\ Ensure(list, wanted)
        /\ IF list = {}
           THEN /\ req' = [req EXCEPT ![r].pc = "answered"]
                /\ events' = [t \in Tasks |-> IF t \in ToSet(Batch[r]) THEN Append(events[t], "no_proxy") ELSE events[t]]
                /\ fut' = [t \in Tasks |-> IF t \in ToSet(Batch[r]) THEN [fut[t] EXCEPT !.result = "no_proxy"] ELSE fut[t]]
           ELSE /\ req' = [req EXCEPT ![r].pc = "submit"]
                /\ UNCHANGED <<events, fut>>
  BY DEF Post
<1>2. list \in SUBSET Urls
  BY ProxyPoolAssumption
<1>3. \A w \in Workers : worker'[w] = worker[w] \/ (worker[w].pc = "off" /\ worker'[w] = At("loop"))
  BY <1>1, <1>2, EnsureFacts
<1>4. \A w \in Workers : /\ Holds(w)' => worker'[w] = worker[w]
                         /\ Holds(w) => worker'[w] = worker[w]
  BY <1>3, AtType DEF Holds, WorkerPc
<1>5. NothingTaken
  BY <1>4 DEF NothingTaken, Holds
<1>6. /\ \A q \in Requests : q # r => req'[q] = req[q]
      /\ req'[r].pc \in {"answered", "submit"}
      /\ req'[r].pc = "submit" => UNCHANGED fut
      /\ req[r].pc = "new"
  BY <1>1, RequestMoves DEF Post, RequestPc
<1>7. queue' = queue
  BY DEF Post, tasks
<1>8. CASE list = {}
  <2>1. \A t \in ToSet(Batch[r]) : fut[t].result = "unborn"
    <3>1. \A j \in 1..Len(Batch[r]) : fut[Batch[r][j]].result = "unborn"
      BY <1>6 DEF Places, NotYetSubmitted, Awaits
    <3>2. Batch[r] \in Seq(Tasks)
      BY CurrentType
    <3>3. QED
      BY <3>1, <3>2 DEF ToSet
  <2>2. fut' = [t \in Tasks |-> IF t \in ToSet(Batch[r]) THEN [fut[t] EXCEPT !.result = "no_proxy"] ELSE fut[t]]
    BY <1>1, <1>8
  <2>3. \A t \in Tasks : /\ fut'[t].born = fut[t].born
                         /\ t \notin ToSet(Batch[r]) => fut'[t] = fut[t]
                         /\ t \in ToSet(Batch[r]) => fut'[t].result = "no_proxy"
    BY <2>2 DEF PoolTypes, Future
  <2>4. FuturesGoOn
    BY <1>4, <2>1, <2>3 DEF FuturesGoOn, Holds
  <2>5. \A q \in Requests : \A j \in 1..Len(Batch[q]) : q # r => Batch[q][j] \notin ToSet(Batch[r])
    <3>1. ToSet(Batch[r]) = {Batch[r][i] : i \in 1..Len(Batch[r])}
      BY DEF ToSet
    <3>2. QED
      BY <3>1, BatchAssumption
  <2>6. req'[r].pc = "answered"
    BY <1>1, <1>8, RequestMoves DEF RequestPc
  <2>7. SubmissionsGoOn
    <3> SUFFICES ASSUME NEW q \in Requests, NEW j \in 1..Len(Batch[q]), Awaits(q, j)'
                 PROVE  Awaits(q, j) /\ fut'[Batch[q][j]].result = fut[Batch[q][j]].result
      BY DEF SubmissionsGoOn
    <3>1. q # r
      BY <2>6 DEF Awaits
    <3>2. Batch[q][j] \in Tasks
      BY CurrentType, ElementOfSeq
    <3>3. QED
      BY <1>6, <2>3, <2>5, <3>1, <3>2 DEF Awaits
  <2>8. QED
    BY <1>5, <1>7, <2>4, <2>7, PlacesKept
<1>9. CASE list # {}
  <2>1. UNCHANGED fut
    BY <1>1, <1>9
  <2>2. FuturesGoOn
    BY <1>4, <2>1 DEF FuturesGoOn, Holds
  <2>3. SubmissionsGoOn
    BY <1>6, <2>1 DEF SubmissionsGoOn, Awaits
  <2>4. QED
    BY <1>5, <1>7, <2>2, <2>3, PlacesKept
<1>10. QED
  BY <1>8, <1>9

(* A submitted task goes on the queue; it was nowhere before.              *)
LEMMA SubmitPlaces ==
  ASSUME PoolTypes, Places, NEW r \in Requests, Submit(r)
  PROVE  Places'
<1> SUFFICES ASSUME NEW t \in Tasks, t = Current(r),
                    NEW item \in Items, item = [prio |-> Priority[t], seq |-> seq, task |-> t]
             PROVE  Places'
  BY CurrentType, SubmitFacts
<1>1. /\ t \in Tasks /\ Len(Batch[r]) \in Nat /\ req[r].i \in 1..Len(Batch[r])
      /\ req[r].pc = "submit" /\ t = Batch[r][req[r].i]
  BY CurrentType DEF PoolTypes, Submit, Current
<1>2. fut[t].result = "unborn"
  BY <1>1 DEF Places, NotYetSubmitted, Awaits
<1>3. /\ queue' = queue \cup {item} /\ item \in Items
      /\ fut'[t] = [result |-> "open", born |-> seq]
      /\ \A u \in Tasks : u # t => fut'[u] = fut[u]
      /\ \A q \in Requests : q # r => req'[q] = req[q]
      /\ req'[r] = IF req[r].i < Len(Batch[r]) THEN [pc |-> "submit", i |-> req[r].i + 1] ELSE [pc |-> "wait", i |-> 1]
  BY SubmitFacts
<1>4. UNCHANGED worker
  BY DEF Submit
<1>5. /\ \A i \in queue : i.task \in Tasks /\ i.task # t
      /\ \A w \in Workers : Holds(w) => Task(w) \in Tasks /\ Task(w) # t
  BY <1>2, TaskType DEF Places, ItemsAreTasks, PoolTypes, Items
<1>6. /\ item.task = t
      /\ item = [prio |-> Priority[t], seq |-> fut'[t].born, task |-> t]
  BY <1>3
<1>7. ItemsAreTasks'
  <2>1. \A i \in queue' : i = ItemOf(i.task)' /\ fut'[i.task].result # "unborn"
    BY <1>3, <1>5, <1>6 DEF Places, ItemsAreTasks, ItemOf
  <2>2. ASSUME NEW w \in Workers, Holds(w)
        PROVE  worker[w].item = [prio |-> Priority[Task(w)], seq |-> fut'[Task(w)].born, task |-> Task(w)]
               /\ fut'[Task(w)].result # "unborn"
    BY <1>3, <1>5, <2>2 DEF Places, ItemsAreTasks, ItemOf
  <2>3. QED
    BY <1>4, <2>1, <2>2 DEF ItemsAreTasks, Holds, Task, ItemOf
<1>8. OnePlace'
  <2>1. \A w \in Workers : Holds(w) => \A i \in queue' : i.task # Task(w)
    BY <1>3, <1>5, <1>6 DEF Places, OnePlace
  <2>2. \A u \in Tasks : fut'[u].result = "open" =>
          (\E i \in queue' : i.task = u) \/ (\E w \in Workers : Holds(w) /\ Task(w) = u)
    BY <1>3, <1>6 DEF Places, OnePlace
  <2>3. \A w \in Workers : worker[w].pc = "record" => fut'[Task(w)].result # "open"
    BY <1>3, <1>5 DEF Places, OnePlace, Holds
  <2>4. QED
    BY <1>4, <2>1, <2>2, <2>3 DEF Places, OnePlace, Holds, Task
<1>9. NotYetSubmitted'
  <2> SUFFICES ASSUME NEW q \in Requests, NEW j \in 1..Len(Batch[q]), Awaits(q, j)'
               PROVE  fut'[Batch[q][j]].result = "unborn"
    BY DEF NotYetSubmitted
  <2>1. Awaits(q, j) /\ (q = r => j # req[r].i)
    <3>1. CASE q = r
      BY <1>1, <1>3, <3>1 DEF Awaits
    <3>2. CASE q # r
      BY <1>3, <3>2 DEF Awaits
    <3>3. QED
      BY <3>1, <3>2
  <2>2. Batch[q][j] # t
    BY <1>1, <2>1, BatchAssumption
  <2>3. Batch[q][j] \in Tasks
    BY CurrentType, ElementOfSeq
  <2>4. QED
    BY <1>3, <2>1, <2>2, <2>3 DEF Places, NotYetSubmitted
<1>10. QED
  BY <1>7, <1>8, <1>9 DEF Places

(* A request that waits moves no task; one it gives up on is answered.     *)
LEMMA WaitPlaces ==
  ASSUME PoolTypes, Places, NEW r \in Requests, Wait(r) \/ RecordExpired(r)
  PROVE  Places'
<1>1. UNCHANGED <<queue, worker>>
  BY DEF Wait, RecordExpired, tasks
<1>2. NothingTaken
  BY <1>1 DEF NothingTaken, Holds
<1>3. NextTask(r) \/ req' = [req EXCEPT ![r].pc = "record"]
  <2>1. CASE ExpireFuture(r)
    BY <2>1, Zenon DEF ExpireFuture
  <2>2. QED
    BY <2>1, Zenon DEF Wait, RecordExpired
<1>4. \A q \in Requests : \A j \in 1..Len(Batch[q]) : Awaits(q, j)' => q # r /\ Awaits(q, j)
  BY <1>3, WaitingSubmits
<1>5. CASE fut' = fut
  <2>1. FuturesGoOn
    BY <1>1, <1>5, Zenon DEF FuturesGoOn, Holds
  <2>2. SubmissionsGoOn
    BY <1>4, <1>5, Zenon DEF SubmissionsGoOn
  <2>3. QED
    BY <1>1, <1>2, <2>1, <2>2, PlacesKept
<1>6. CASE ExpireFuture(r)
  <2> DEFINE t == Current(r)
  <2>1. t \in Tasks /\ "expired" \in Outcomes /\ req[r].i \in 1..Len(Batch[r]) /\ t = Batch[r][req[r].i]
    BY CurrentType DEF Outcomes, PoolTypes, Current
  <2>2. /\ \A u \in Tasks : fut'[u].born = fut[u].born /\ (u # t => fut'[u] = fut[u])
        /\ fut[t].result # "open" => fut' = fut
        /\ fut[t].result = "open" => fut'[t].result \in Wire
    BY <1>6, <2>1, Resolves DEF ExpireFuture
  <2> HIDE DEF t
  <2>3. FuturesGoOn
    BY <1>1, <2>1, <2>2 DEF FuturesGoOn, Holds, Wire
  <2>4. SubmissionsGoOn
    <3> SUFFICES ASSUME NEW q \in Requests, NEW j \in 1..Len(Batch[q]), Awaits(q, j)'
                 PROVE  Awaits(q, j) /\ fut'[Batch[q][j]].result = fut[Batch[q][j]].result
      BY DEF SubmissionsGoOn
    <3>1. q # r /\ Awaits(q, j) /\ Batch[q][j] \in Tasks
      BY <1>4, CurrentType, ElementOfSeq
    <3>2. Batch[q][j] # t
      BY <2>1, <3>1, BatchAssumption
    <3>3. QED
      BY <2>2, <3>1, <3>2
  <2>5. QED
    BY <1>1, <1>2, <2>3, <2>4, PlacesKept
<1>7. QED
  BY <1>5, <1>6 DEF Wait, RecordExpired

(* A worker step that leaves the queue and the other workers alone and     *)
(* lets go of answered tasks only.                                         *)
LEMMA WorkerPlaces ==
  ASSUME PoolTypes, Places, NEW w \in Workers, queue' = queue, req' = req,
         \A v \in Workers : v # w => worker'[v] = worker[v],
         Holds(w)' => Holds(w) /\ worker'[w].item = worker[w].item,
         worker'[w].pc = "record" => worker[w].pc = "record" \/ fut'[Task(w)].result # "open",
         \A t \in Tasks :
           /\ fut'[t].born = fut[t].born
           /\ fut'[t].result = "unborn" <=> fut[t].result = "unborn"
           /\ fut'[t].result = "open" => fut[t].result = "open" /\ (Holds(w) /\ Task(w) = t => Holds(w)')
  PROVE  Places'
<1>1. FuturesGoOn
  BY DEF FuturesGoOn, Holds
<1>2. NothingTaken
  BY DEF NothingTaken, Holds
<1>3. SubmissionsGoOn
  <2> SUFFICES ASSUME NEW r \in Requests, NEW j \in 1..Len(Batch[r]), Awaits(r, j)'
               PROVE  Awaits(r, j) /\ fut'[Batch[r][j]].result = fut[Batch[r][j]].result
    BY DEF SubmissionsGoOn
  <2>1. Awaits(r, j) /\ Batch[r][j] \in Tasks
    BY CurrentType, ElementOfSeq DEF Awaits
  <2>2. fut[Batch[r][j]].result = "unborn"
    BY <2>1 DEF Places, NotYetSubmitted
  <2>3. QED
    BY <2>1, <2>2
<1>4. QED
  BY <1>1, <1>2, <1>3, PlacesKept

(* An item taken off the queue is in one pair of hands.                    *)
LEMMA TakePlaces ==
  ASSUME PoolTypes, Places, NEW w \in Workers, NEW item \in queue, ~Holds(w),
         queue' = queue \ {item}, UNCHANGED <<fut, req>>,
         worker' = [worker EXCEPT ![w].pc = "got", ![w].item = item]
  PROVE  Places'
<1>1. /\ item \in Items /\ item.task \in Tasks
      /\ item = ItemOf(item.task) /\ fut[item.task].result # "unborn"
  BY DEF PoolTypes, Items, Places, ItemsAreTasks
<1>2. /\ worker'[w].pc = "got" /\ worker'[w].item = item
      /\ \A v \in Workers : v # w => worker'[v] = worker[v]
  BY <1>1, TakesTyped
<1>3. /\ \A v \in Workers : v # w => (Holds(v)' <=> Holds(v)) /\ Task(v)' = Task(v)
      /\ Holds(w)' /\ Task(w)' = item.task
  BY <1>2 DEF Holds, Task
<1>4. \A i \in queue : i.task = item.task => i = item
  BY <1>1 DEF Places, ItemsAreTasks
<1>5. \A v \in Workers : Holds(v) => v # w /\ Task(v) # item.task
  BY DEF Places, OnePlace
<1>6. ItemsAreTasks'
  <2>1. \A i \in queue' : i = ItemOf(i.task)' /\ fut'[i.task].result # "unborn"
    BY DEF Places, ItemsAreTasks, ItemOf
  <2>2. \A v \in Workers : Holds(v)' => worker'[v].item = ItemOf(Task(v))' /\ fut'[Task(v)'].result # "unborn"
    BY <1>1, <1>2, <1>3 DEF Places, ItemsAreTasks, ItemOf
  <2>3. QED
    BY <2>1, <2>2 DEF ItemsAreTasks
<1>7. OnePlace'
  <2>1. \A v \in Workers : Holds(v)' => \A i \in queue' : i.task # Task(v)'
    BY <1>3, <1>4 DEF Places, OnePlace
  <2>2. \A u, v \in Workers : Holds(u)' /\ Holds(v)' /\ Task(u)' = Task(v)' => u = v
    BY <1>3, <1>5 DEF Places, OnePlace
  <2>3. ASSUME NEW t \in Tasks, fut'[t].result = "open"
        PROVE  (\E i \in queue' : i.task = t) \/ (\E v \in Workers : Holds(v)' /\ Task(v)' = t)
    <3>1. (\E i \in queue : i.task = t) \/ (\E v \in Workers : Holds(v) /\ Task(v) = t)
      BY <2>3 DEF Places, OnePlace
    <3>2. QED
      BY <1>3, <1>5, <3>1
  <2>4. \A v \in Workers : worker'[v].pc = "record" => fut'[Task(v)'].result # "open"
    BY <1>2, <1>3 DEF Places, OnePlace
  <2>5. QED
    BY <2>1, <2>2, <2>3, <2>4 DEF OnePlace
<1>8. NotYetSubmitted'
  BY DEF Places, NotYetSubmitted, Awaits
<1>9. QED
  BY <1>6, <1>7, <1>8 DEF Places

(* A requeued item goes back as it was, and its worker keeps nothing.      *)
LEMMA RequeuePlaces ==
  ASSUME PoolTypes, Places, NEW w \in Workers, Holds(w), Requeue(w), UNCHANGED <<fut, req>>
  PROVE  Places'
<1> DEFINE item == worker[w].item
<1>1. item \in Items /\ Task(w) \in Tasks /\ item.task = Task(w) /\ fut[Task(w)].result # "unborn"
      /\ item = [prio |-> Priority[Task(w)], seq |-> fut[Task(w)].born, task |-> Task(w)]
  BY TaskType DEF Places, ItemsAreTasks, ItemOf, Task
<1>2. queue' = queue \cup {item}
  BY DEF Requeue
<1>3. worker'[w] = At("gone") /\ \A v \in Workers : v # w => worker'[v] = worker[v]
  BY Moves DEF Requeue
<1>4. /\ \A v \in Workers : v # w => (Holds(v)' <=> Holds(v)) /\ Task(v)' = Task(v)
      /\ ~Holds(w)' /\ worker'[w].pc = "gone"
  BY <1>3, AtType DEF Holds, Task, WorkerPc
<1>5. \A v \in Workers : Holds(v)' => v # w /\ Holds(v) /\ Task(v)' = Task(v) /\ Task(v) # Task(w) /\ worker'[v] = worker[v]
  BY <1>3, <1>4 DEF Places, OnePlace
<1> HIDE DEF item
<1>6. ItemsAreTasks'
  <2>1. \A i \in queue' : i = ItemOf(i.task)' /\ fut'[i.task].result # "unborn"
    BY <1>1, <1>2 DEF Places, ItemsAreTasks, ItemOf
  <2>2. \A v \in Workers : Holds(v)' => worker'[v].item = ItemOf(Task(v))' /\ fut'[Task(v)'].result # "unborn"
    BY <1>5 DEF Places, ItemsAreTasks, ItemOf
  <2>3. QED
    BY <2>1, <2>2 DEF ItemsAreTasks
<1>7. OnePlace'
  <2>1. \A v \in Workers : Holds(v)' => \A i \in queue' : i.task # Task(v)'
    BY <1>1, <1>2, <1>5 DEF Places, OnePlace
  <2>2. \A u, v \in Workers : Holds(u)' /\ Holds(v)' /\ Task(u)' = Task(v)' => u = v
    BY <1>5 DEF Places, OnePlace
  <2>3. ASSUME NEW t \in Tasks, fut'[t].result = "open"
        PROVE  (\E i \in queue' : i.task = t) \/ (\E v \in Workers : Holds(v)' /\ Task(v)' = t)
    <3>1. (\E i \in queue : i.task = t) \/ (\E v \in Workers : Holds(v) /\ Task(v) = t)
      BY <2>3 DEF Places, OnePlace
    <3>2. QED
      BY <1>1, <1>2, <1>4, <3>1
  <2>4. \A v \in Workers : worker'[v].pc = "record" => fut'[Task(v)'].result # "open"
    <3> SUFFICES ASSUME NEW v \in Workers, worker'[v].pc = "record" PROVE fut'[Task(v)'].result # "open"
      OBVIOUS
    <3>1. Holds(v)'
      BY DEF Holds
    <3>2. QED
      BY <1>5, <3>1 DEF Places, OnePlace
  <2>5. QED
    BY <2>1, <2>2, <2>3, <2>4 DEF OnePlace
<1>8. NotYetSubmitted'
  BY DEF Places, NotYetSubmitted, Awaits
<1>9. QED
  BY <1>6, <1>7, <1>8 DEF Places

(* Whatever a worker does, each task stays where it must be.               *)
LEMMA RunPlaces ==
  ASSUME PoolTypes, Places, NEW w \in Workers, Run(w)
  PROVE  Places'
<1>1. ASSUME NEW pc, Goes(w, pc), pc # "record", Holds(w) <=> pc \in {"got", "turn", "fetch"},
             queue' = queue, UNCHANGED <<fut, req>>
      PROVE  Places'
  <2>1. /\ worker'[w].pc = pc /\ worker'[w].item = worker[w].item
        /\ \A v \in Workers : v # w => worker'[v] = worker[v]
    BY <1>1, Moves
  <2>2. Holds(w)' <=> Holds(w)
    BY <1>1, <2>1 DEF Holds
  <2>3. QED
    BY <1>1, <2>1, <2>2, WorkerPlaces
<1>2. ASSUME Drops(w, "loop"), Holds(w), queue' = queue, req' = req,
             \A t \in Tasks :
               /\ fut'[t].born = fut[t].born
               /\ fut'[t].result = "unborn" <=> fut[t].result = "unborn"
               /\ fut'[t].result = "open" => fut[t].result = "open",
             fut'[Task(w)].result # "open"
      PROVE  Places'
  <2>1. worker'[w] = At("loop") /\ \A v \in Workers : v # w => worker'[v] = worker[v]
    BY <1>2, Moves
  <2>2. ~Holds(w)' /\ worker'[w].pc = "loop"
    BY <2>1, AtType DEF Holds, WorkerPc
  <2>3. QED
    BY <1>2, <2>1, <2>2, WorkerPlaces
<1>3. ASSUME NEW o \in Outcomes, Holds(w), queue' = queue, req' = req,
             Resolve(Task(w), WIRE_OUTCOME(o)), Won(Task(w)),
             worker' = [worker EXCEPT ![w].pc = "record", ![w].outcome = o]
      PROVE  Places'
  <2>1. Task(w) \in Tasks
    BY <1>3, TaskType
  <2>2. /\ \A u \in Tasks : fut'[u].born = fut[u].born /\ (u # Task(w) => fut'[u] = fut[u])
        /\ fut[Task(w)].result = "open" /\ fut'[Task(w)].result \in Wire
    BY <1>3, <2>1, Resolves
  <2>3. /\ worker'[w].pc = "record" /\ worker'[w].item = worker[w].item
        /\ \A v \in Workers : v # w => worker'[v] = worker[v]
    BY <1>3, RecordTyped
  <2>4. Holds(w)' /\ "open" \notin Wire /\ "unborn" \notin Wire
    BY <2>3 DEF Holds, Wire
  <2>5. QED
    BY <1>3, <2>1, <2>2, <2>3, <2>4, WorkerPlaces
<1>4. CASE Loop(w)
  <2>1. PICK pc \in {"gone", "get"} : Goes(w, pc)
    BY <1>4 DEF Loop
  <2>2. ~Holds(w) /\ queue' = queue /\ UNCHANGED <<fut, req>>
    BY <1>4 DEF Loop, Holds, tasks
  <2>3. QED
    BY <1>1, <2>1, <2>2
<1>5. CASE Get(w)
  <2>1. ~Holds(w) /\ UNCHANGED <<fut, req>>
    BY <1>5 DEF Get, Holds
  <2>2. CASE Goes(w, "loop") /\ UNCHANGED queue
    BY <1>1, <2>1, <2>2
  <2>3. CASE \E item \in queue : /\ queue' = queue \ {item}
                                 /\ worker' = [worker EXCEPT ![w].pc = "got", ![w].item = item]
    BY <2>1, <2>3, TakePlaces
  <2>4. QED
    BY <1>5, <2>2, <2>3, Zenon DEF Get
<1>6. CASE Took(w)
  <2>1. Holds(w) /\ req' = req
    BY <1>6 DEF Took, Holds
  <2>2. CASE Requeue(w) /\ UNCHANGED fut
    BY <2>1, <2>2, RequeuePlaces
  <2>3. CASE fut[Task(w)].result # "open" /\ Drops(w, "loop") /\ UNCHANGED fut /\ queue' = queue
    BY <1>2, <2>1, <2>3
  <2>4. CASE /\ fut[Task(w)].result = "open" /\ Resolve(Task(w), WIRE_OUTCOME("expired")) /\ queue' = queue
             /\ worker' = [worker EXCEPT ![w].pc = "record", ![w].outcome = "expired"]
    <3>1. Task(w) \in Tasks /\ "expired" \in Outcomes
      BY <2>1, TaskType DEF Outcomes
    <3>2. Won(Task(w))
      BY <2>4, <3>1, Resolves
    <3>3. QED
      BY <1>3, <2>1, <2>4, <3>1, <3>2
  <2>5. CASE Goes(w, "turn") /\ UNCHANGED fut /\ queue' = queue
    BY <1>1, <2>1, <2>5
  <2>6. QED
    BY <1>6, <2>2, <2>3, <2>4, <2>5, Zenon DEF Took
<1>7. CASE WaitTurn(w)
  <2>1. Holds(w) /\ UNCHANGED <<fut, req>>
    BY <1>7 DEF WaitTurn, Holds
  <2>2. CASE Requeue(w)
    BY <2>1, <2>2, RequeuePlaces
  <2>3. CASE Goes(w, "fetch") /\ queue' = queue
    BY <1>1, <2>1, <2>3
  <2>4. QED
    BY <1>7, <2>2, <2>3 DEF WaitTurn
<1>8. CASE Finish(w)
  <2>1. Holds(w) /\ Task(w) \in Tasks /\ queue' = queue /\ req' = req
    BY <1>8, TaskType DEF Finish, Holds, tasks
  <2>2. PICK o \in Answers \cup Raised :
          /\ Resolve(Task(w), WIRE_OUTCOME(o))
          /\ IF Won(Task(w)) THEN worker' = [worker EXCEPT ![w].pc = "record", ![w].outcome = o]
                             ELSE Drops(w, "loop")
    BY <1>8, Zenon DEF Finish
  <2>3. o \in Outcomes
    BY AnswersTyped
  <2>4. CASE Won(Task(w))
    BY <1>3, <2>1, <2>2, <2>3, <2>4
  <2>5. CASE ~Won(Task(w))
    <3>1. fut' = fut /\ fut[Task(w)].result # "open"
      BY <2>1, <2>2, <2>3, <2>5, Resolves
    <3>2. Drops(w, "loop")
      BY <2>2, <2>5
    <3>3. QED
      BY <1>2, <2>1, <3>1, <3>2
  <2>6. QED
    BY <2>4, <2>5
<1>9. CASE RecordResult(w)
  <2>1. Holds(w) /\ Task(w) \in Tasks /\ fut[Task(w)].result # "open"
    BY <1>9, TaskType DEF RecordResult, Holds, Places, OnePlace
  <2>2. Drops(w, "loop") /\ queue' = queue /\ UNCHANGED <<fut, req>>
    BY <1>9 DEF RecordResult, tasks
  <2>3. QED
    BY <1>2, <2>1, <2>2
<1>10. QED
  BY <1>4, <1>5, <1>6, <1>7, <1>8, <1>9 DEF Run

(* Every step keeps every task where it must be.                           *)
LEMMA NextPlaces == PoolTypes /\ Places /\ [Next]_vars => Places'
<1> SUFFICES ASSUME PoolTypes, Places, [Next]_vars PROVE Places'
  OBVIOUS
<1>1. ASSUME NEW r \in Requests, Handle(r) PROVE Places'
  BY <1>1, PostPlaces, SubmitPlaces, WaitPlaces DEF Handle
<1>2. ASSUME NEW w \in Workers, Run(w) PROVE Places'
  BY <1>2, RunPlaces
<1>3. ASSUME UNCHANGED <<worker, queue, fut, req>> PROVE Places'
  BY <1>3 DEF Places, ItemsAreTasks, OnePlace, NotYetSubmitted, Holds, Task, ItemOf, Awaits
<1>4. ASSUME NEW t \in Tasks, DeadlinePasses(t) PROVE Places'
  BY <1>3, <1>4 DEF DeadlinePasses
<1>5. ASSUME NEW o \in Objects, CooldownEnds(o) PROVE Places'
  BY <1>3, <1>5 DEF CooldownEnds, tasks
<1>6. CASE UNCHANGED vars
  BY <1>3, <1>6 DEF vars, tasks
<1>7. QED
  BY <1>1, <1>2, <1>4, <1>5, <1>6 DEF Next

(* At the start nothing is submitted and no worker runs.                   *)
LEMMA InitPlaces == Init => Places
<1> SUFFICES ASSUME Init PROVE Places
  OBVIOUS
<1>1. \A w \in Workers : ~Holds(w) /\ worker[w].pc # "record"
  BY AtType DEF Init, Holds, WorkerPc
<1>2. \A r \in Requests : \A j \in 1..Len(Batch[r]) : Batch[r][j] \in Tasks
  BY ProxyPoolAssumption, ElementOfSeq
<1>3. QED
  BY <1>1, <1>2 DEF Init, Places, ItemsAreTasks, OnePlace, NotYetSubmitted

(* An open task is on the queue or in one pair of hands: the requeue of a  *)
(* retired worker, an expiry or a late answer neither loses nor doubles it.*)
THEOREM OpenTaskHeldOnce == Spec => []OpenTaskIsHeldOnce
<1>1. ASSUME PoolTypes, Places PROVE OpenTaskIsHeldOnce
  <2> SUFFICES ASSUME NEW t \in Tasks, fut[t].result = "open"
               PROVE  Cardinality({i \in queue : i.task = t}) + Cardinality({w \in Workers : Task(w) = t}) = 1
    BY DEF OpenTaskIsHeldOnce
  <2> DEFINE Q == {i \in queue : i.task = t}
             W == {w \in Workers : Task(w) = t}
  <2>1. \A w \in Workers : Task(w) = t => Holds(w)
    BY <1>1, BatchAssumption DEF PoolTypes, Hands, Task, None
  <2>2. \A i \in Q : i = ItemOf(t)
    BY <1>1 DEF Places, ItemsAreTasks
  <2>3. (\E i \in Q : TRUE) \/ (\E w \in W : TRUE)
    BY <1>1 DEF Places, OnePlace
  <2>4. CASE \E i \in Q : TRUE
    <3>1. Q = {ItemOf(t)}
      BY <2>2, <2>4
    <3>2. W = {}
      BY <1>1, <2>1, <2>4 DEF Places, OnePlace
    <3>3. Cardinality(Q) = 1 /\ Cardinality(W) = 0
      BY <3>1, <3>2, FS_Singleton, FS_EmptySet
    <3>4. QED
      BY <3>3
  <2>5. CASE \E w \in W : TRUE
    <3>1. PICK w \in Workers : Task(w) = t
      BY <2>5
    <3>2. W = {w} /\ Q = {}
      BY <1>1, <2>1, <3>1 DEF Places, OnePlace
    <3>3. Cardinality(W) = 1 /\ Cardinality(Q) = 0
      BY <3>2, FS_Singleton, FS_EmptySet
    <3>4. QED
      BY <3>3
  <2>6. QED
    BY <2>3, <2>4, <2>5
<1>2. QED
  BY <1>1, InitTypes, InitPlaces, NextTypes, NextPlaces, PTL DEF Spec

(* Tasks are taken in the order of their lanes and, within a lane, of      *)
(* their submission; a requeued task keeps its turn.                       *)
THEOREM TasksInOrder == Spec => TakenInOrder
<1> DEFINE Ordered == \A t \in Tasks : (\E i \in queue \ queue' : i.task = t) =>
                        \A i \in queue' : \/ Priority[t] < Priority[i.task]
                                          \/ Priority[t] = Priority[i.task] /\ fut[t].born < fut[i.task].born
<1>1. ASSUME PoolTypes, Places, Next PROVE Ordered \/ queue \subseteq queue'
  <2>1. ASSUME NEW r \in Requests, Handle(r) PROVE queue \subseteq queue'
    BY <2>1, SubmitFacts, <1>1 DEF Handle, Post, Wait, RecordExpired, tasks
  <2>2. ASSUME NEW w \in Workers, Loop(w) \/ Took(w) \/ WaitTurn(w) \/ Finish(w) \/ RecordResult(w)
        PROVE  queue \subseteq queue'
    BY <2>2 DEF Loop, Took, WaitTurn, Finish, RecordResult, Requeue, tasks
  <2>3. ASSUME NEW w \in Workers, Get(w) PROVE Ordered \/ queue \subseteq queue'
    <3>1. CASE UNCHANGED queue
      BY <3>1
    <3>2. ASSUME NEW item \in queue, \A other \in queue \ {item} : Before(item, other), queue' = queue \ {item}
          PROVE  Ordered
      <4>1. \A i \in queue : i = ItemOf(i.task)
        BY <1>1 DEF Places, ItemsAreTasks
      <4>2. \A i \in queue : i.prio = Priority[i.task] /\ i.seq = fut[i.task].born
        BY <4>1 DEF ItemOf
      <4>3. QED
        BY <3>2, <4>2 DEF Before
    <3>3. QED
      BY <2>3, <3>1, <3>2, Zenon DEF Get
  <2>4. ASSUME (\E t \in Tasks : DeadlinePasses(t)) \/ (\E o \in Objects : CooldownEnds(o)) PROVE queue \subseteq queue'
    BY <2>4 DEF DeadlinePasses, CooldownEnds, tasks
  <2>5. QED
    BY <1>1, <2>1, <2>2, <2>3, <2>4 DEF Next, Run
<1>2. ASSUME PoolTypes, Places, [Next]_vars PROVE [Ordered]_vars
  BY <1>1, <1>2
<1>3. QED
  BY <1>2, InitTypes, InitPlaces, NextTypes, NextPlaces, PTL DEF Spec, TakenInOrder

(***************************************************************************)
(* What is counted of a task.                                              *)
(***************************************************************************)
(* A step that a task does not take part in: the same counts, the same     *)
(* owers, and no new place once it is answered.                            *)
Apart(t) ==
  /\ events'[t] = events[t] /\ page'[t] = page[t]
  /\ fut[t].result \in Wire => fut'[t].result = fut[t].result /\ (Gone(t) => Gone(t)')
  /\ fut'[t].result \in Wire => fut[t].result \in Wire
  /\ \A w \in Workers : /\ WorkerOwes(w, t)' <=> WorkerOwes(w, t)
                        /\ WorkerOwes(w, t) => worker'[w].outcome = worker[w].outcome
  /\ \A r \in Requests : RequestOwes(r, t)' <=> RequestOwes(r, t)

(* Such a step changes nothing of what is counted of the task.             *)
LEMMA ApartCounts ==
  ASSUME NEW t \in Tasks, Tally(t), TrueCause(t), Apart(t)
  PROVE  Tally(t)' /\ TrueCause(t)'
<1>1. /\ fut[t].result \notin Wire => fut'[t].result \notin Wire
      /\ fut[t].result \in Wire => fut'[t].result = fut[t].result
      /\ events'[t] = events[t] /\ page'[t] = page[t]
  BY DEF Apart
<1>2. Owed(t)' <=> Owed(t)
  BY DEF Apart, Owed
<1>3. Tally(t)'
  <2>1. \A w \in Workers, r \in Requests : ~(WorkerOwes(w, t)' /\ RequestOwes(r, t)')
    BY DEF Apart, Tally
  <2>2. fut'[t].result \notin Wire => events'[t] = <<>> /\ ~Owed(t)'
    BY <1>1, <1>2 DEF Tally
  <2>3. fut'[t].result \in Wire => \/ events'[t] = <<>> /\ Owed(t)'
                                   \/ ~Owed(t)' /\ \E o \in Outcomes : events'[t] = <<o>>
    BY <1>1, <1>2 DEF Tally
  <2>4. QED
    BY <2>1, <2>2, <2>3, Zenon DEF Tally
<1>5. ~Owed(t) /\ events[t] = <<>> => TrueCause(t)'
  <2>1. \A o : events[t] = <<>> => events[t] # <<o>>
    OBVIOUS
  <2>2. QED
    BY <1>1, <1>2, <2>1 DEF TrueCause, Owed
<1>6. CASE fut[t].result \notin Wire
  BY <1>3, <1>5, <1>6 DEF Tally
<1>7. CASE fut[t].result \in Wire
  <2>1. Gone(t) => Gone(t)'
    BY <1>7 DEF Apart
  <2>2. \A o : Cause(t, o) => Cause(t, o)'
    BY <1>1, <1>7 DEF Cause
  <2>3. \A w \in Workers : WorkerOwes(w, t)' => Cause(t, worker[w].outcome)'
    BY <1>1, <1>7 DEF Apart, TrueCause, Cause
  <2>4. (\E r \in Requests : RequestOwes(r, t)') => Cause(t, "expired")'
    BY <2>2 DEF Apart, TrueCause
  <2>5. \A o \in Outcomes : events'[t] = <<o>> => Cause(t, o)' /\ (o \notin {"expired", "no_proxy"} => Gone(t)')
    BY <1>1, <2>1, <2>2 DEF TrueCause
  <2>6. TrueCause(t)'
    BY <2>3, <2>4, <2>5, Zenon DEF TrueCause
  <2>7. QED
    BY <1>3, <2>6
<1>8. QED
  BY <1>6, <1>7

(* Whoever wins an open task owes its event, alone, and knows its cause.   *)
LEMMA WinnerCounts ==
  ASSUME PoolTypes, NEW t \in Tasks, NEW o \in Outcomes, Tally(t),
         fut[t].result = "open", fut'[t].result = WIRE_OUTCOME(o), events'[t] = events[t],
         o \notin {"expired", "no_proxy"} => page'[t] = o,
         \/ \E w \in Workers : /\ WorkerOwes(w, t)' /\ worker'[w].outcome = o
                               /\ \A v \in Workers : v # w => (WorkerOwes(v, t)' <=> WorkerOwes(v, t))
                               /\ \A r \in Requests : RequestOwes(r, t)' <=> RequestOwes(r, t)
         \/ /\ o = "expired"
            /\ \E r \in Requests : RequestOwes(r, t)'
            /\ \A w \in Workers : WorkerOwes(w, t)' <=> WorkerOwes(w, t)
  PROVE  Tally(t)' /\ TrueCause(t)'
<1>1. fut[t].result \notin Wire /\ fut'[t].result \in Wire
  BY DEF Wire, WIRE_OUTCOME, Outcomes
<1>2. /\ events'[t] = <<>>
      /\ \A w \in Workers : ~WorkerOwes(w, t)
      /\ \A r \in Requests : ~RequestOwes(r, t)
  BY <1>1 DEF Tally, Owed
<1>3. Owed(t)' /\ \A w \in Workers, r \in Requests : ~(WorkerOwes(w, t)' /\ RequestOwes(r, t)')
  BY <1>2 DEF Owed
<1>4. Tally(t)'
  BY <1>1, <1>2, <1>3 DEF Tally
<1>5. Cause(t, o)'
  BY DEF Cause
<1>6. \A w \in Workers : WorkerOwes(w, t)' => worker'[w].outcome = o
  BY <1>2
<1>7. (\E r \in Requests : RequestOwes(r, t)') => o = "expired"
  BY <1>2
<1>8. \A p \in Outcomes : events'[t] # <<p>>
  BY <1>2
<1>9. TrueCause(t)'
  BY <1>5, <1>6, <1>7, <1>8 DEF TrueCause
<1>10. QED
  BY <1>4, <1>9

(* The event of the winner is the one event of the task.                   *)
LEMMA RecordCounts ==
  ASSUME PoolTypes, NEW t \in Tasks, NEW o \in Outcomes, Tally(t), Owed(t), Cause(t, o),
         Record(t, o), fut' = fut, page' = page,
         o \notin {"expired", "no_proxy"} => Gone(t)', ~Owed(t)'
  PROVE  Tally(t)' /\ TrueCause(t)'
<1>1. events[t] = <<>> /\ fut[t].result \in Wire
  BY DEF Tally
<1>2. events'[t] = <<o>>
  BY <1>1, RecordsTyped
<1>3. Cause(t, o)'
  BY DEF Cause
<1>4. \A p \in Outcomes : events'[t] = <<p>> => p = o
  BY <1>2
<1>5. Tally(t)'
  BY <1>1, <1>2 DEF Tally, Owed
<1>6. TrueCause(t)'
  BY <1>3, <1>4 DEF TrueCause, Owed
<1>7. QED
  BY <1>5, <1>6

(* A task that no queue and no hands have stays so: workers take what is   *)
(* on the queue and put back what they hold.                               *)
LEMMA StaysGone ==
  ASSUME NEW w \in Workers, NEW t \in Tasks, Gone(t),
         \A v \in Workers : v # w => worker'[v] = worker[v],
         \A i \in queue' : i \in queue \/ (Holds(w) /\ i = worker[w].item),
         Holds(w)' => (Holds(w) /\ worker'[w].item = worker[w].item) \/ worker'[w].item \in queue
  PROVE  Gone(t)'
<1>1. \A i \in queue' : i.task # t
  BY DEF Gone, Task
<1>2. \A v \in Workers : Holds(v)' => Task(v)' # t
  BY DEF Gone, Task, Holds
<1>3. QED
  BY <1>1, <1>2 DEF Gone

(* A worker step a task has no part in.                                    *)
LEMMA WorkerAside ==
  ASSUME NEW w \in Workers, NEW t \in Tasks, Tally(t), TrueCause(t),
         \A v \in Workers : v # w => worker'[v] = worker[v],
         ~WorkerOwes(w, t), ~WorkerOwes(w, t)', req' = req,
         events'[t] = events[t], page'[t] = page[t], fut'[t] = fut[t], Gone(t) => Gone(t)'
  PROVE  Tally(t)' /\ TrueCause(t)'
<1>1. \A v \in Workers : /\ WorkerOwes(v, t)' <=> WorkerOwes(v, t)
                         /\ WorkerOwes(v, t) => worker'[v].outcome = worker[v].outcome
  BY DEF WorkerOwes, Task
<1>2. \A r \in Requests : RequestOwes(r, t)' <=> RequestOwes(r, t)
  BY DEF RequestOwes, Current
<1>3. Apart(t)
  BY <1>1, <1>2 DEF Apart
<1>4. QED
  BY <1>3, ApartCounts

(* A request step a task has no part in.                                   *)
LEMMA RequestAside ==
  ASSUME NEW r \in Requests, NEW t \in Tasks, Tally(t), TrueCause(t),
         \A q \in Requests : q # r => req'[q] = req[q],
         ~RequestOwes(r, t), ~RequestOwes(r, t)',
         \A w \in Workers : /\ WorkerOwes(w, t)' <=> WorkerOwes(w, t)
                            /\ WorkerOwes(w, t) => worker'[w].outcome = worker[w].outcome,
         events'[t] = events[t], page'[t] = page[t],
         fut[t].result \in Wire => fut'[t] = fut[t] /\ (Gone(t) => Gone(t)'),
         fut'[t].result \in Wire => fut[t].result \in Wire
  PROVE  Tally(t)' /\ TrueCause(t)'
<1>1. \A q \in Requests : RequestOwes(q, t)' <=> RequestOwes(q, t)
  BY DEF RequestOwes, Current
<1>2. Apart(t)
  BY <1>1 DEF Apart
<1>3. QED
  BY <1>2, ApartCounts

(* Two requests never stand at one task.                                   *)
LEMMA CurrentIsOwn ==
  ASSUME PoolTypes, NEW r \in Requests, NEW q \in Requests, Current(r) = Current(q)
  PROVE  r = q
BY BatchAssumption DEF PoolTypes, Current

(* What a request does is counted.                                         *)
LEMMA PostCounts ==
  ASSUME PoolTypes, Places, Counting, NEW r \in Requests, Post(r)
  PROVE  Counting'
<1> SUFFICES ASSUME NEW t \in Tasks PROVE Tally(t)' /\ TrueCause(t)'
  BY DEF Counting
<1>1. PICK list \in Lists, wanted \in 1..Threads :
        /\ Ensure(list, wanted)
        /\ IF list = {}
           THEN /\ req' = [req EXCEPT ![r].pc = "answered"]
                /\ events' = [u \in Tasks |-> IF u \in ToSet(Batch[r]) THEN Append(events[u], "no_proxy") ELSE events[u]]
                /\ fut' = [u \in Tasks |-> IF u \in ToSet(Batch[r]) THEN [fut[u] EXCEPT !.result = "no_proxy"] ELSE fut[u]]
           ELSE /\ req' = [req EXCEPT ![r].pc = "submit"]
                /\ UNCHANGED <<events, fut>>
  BY DEF Post
<1>2. list \in SUBSET Urls
  BY ProxyPoolAssumption
<1>3. \A w \in Workers : worker'[w] = worker[w] \/ (worker[w].pc = "off" /\ worker'[w] = At("loop"))
  BY <1>1, <1>2, EnsureFacts
<1>4. \A w \in Workers : /\ Holds(w)' => worker'[w] = worker[w]
                         /\ Holds(w) => worker'[w] = worker[w]
  BY <1>3, AtType DEF Holds, WorkerPc
<1>5. \A w \in Workers : /\ WorkerOwes(w, t)' <=> WorkerOwes(w, t)
                         /\ WorkerOwes(w, t) => worker'[w].outcome = worker[w].outcome
  BY <1>4 DEF WorkerOwes, Holds, Task
<1>6. queue' = queue /\ page' = page
  BY DEF Post, tasks
<1>7. Gone(t) => Gone(t)'
  BY <1>4, <1>6 DEF Gone, Holds, Task
<1>8. /\ \A q \in Requests : q # r => req'[q] = req[q]
      /\ ~RequestOwes(r, t) /\ ~RequestOwes(r, t)'
  BY <1>1, RequestMoves DEF Post, RequestPc, RequestOwes
<1>9. Tally(t) /\ TrueCause(t)
  BY DEF Counting
<1>10. CASE list # {} \/ t \notin ToSet(Batch[r])
  <2>1. events'[t] = events[t] /\ fut'[t] = fut[t]
    BY <1>1, <1>10
  <2>2. QED
    BY <1>5, <1>6, <1>7, <1>8, <1>9, <2>1, RequestAside
<1>11. CASE list = {} /\ t \in ToSet(Batch[r])
  <2>1. events'[t] = Append(events[t], "no_proxy") /\ fut'[t].result = "no_proxy"
    BY <1>1, <1>11 DEF PoolTypes, Future
  <2>2. fut[t].result = "unborn"
    <3>1. \A j \in 1..Len(Batch[r]) : fut[Batch[r][j]].result = "unborn"
      BY DEF Post, Places, NotYetSubmitted, Awaits
    <3>2. QED
      BY <1>11, <3>1, CurrentType DEF ToSet
  <2>3. events[t] = <<>> /\ ~Owed(t)
    BY <1>9, <2>2 DEF Tally, Wire
  <2>4. events'[t] = <<"no_proxy">> /\ "no_proxy" \in Outcomes /\ "no_proxy" \in Wire
    BY <2>1, <2>3 DEF Outcomes, Wire
  <2>5. \A q \in Requests : ~RequestOwes(q, t)'
    BY <1>8, <2>3 DEF Owed, RequestOwes, Current
  <2>6. \A w \in Workers : ~WorkerOwes(w, t)'
    BY <1>5, <2>3 DEF Owed
  <2>7. ~Owed(t)'
    BY <2>5, <2>6 DEF Owed
  <2>8. Tally(t)'
    BY <2>1, <2>4, <2>5, <2>7 DEF Tally
  <2>9. Cause(t, "no_proxy")'
    BY <2>1 DEF Cause, WIRE_OUTCOME
  <2>10. \A o \in Outcomes : events'[t] = <<o>> => o = "no_proxy"
    BY <2>4
  <2>11. TrueCause(t)'
    BY <2>5, <2>6, <2>9, <2>10 DEF TrueCause
  <2>12. QED
    BY <2>8, <2>11
<1>12. QED
  BY <1>10, <1>11

(* A submission counts nothing.                                            *)
LEMMA SubmitCounts ==
  ASSUME PoolTypes, Places, Counting, NEW r \in Requests, Submit(r)
  PROVE  Counting'
<1> SUFFICES ASSUME NEW t \in Tasks PROVE Tally(t)' /\ TrueCause(t)'
  BY DEF Counting
<1>1. Tally(t) /\ TrueCause(t) /\ Current(r) \in Tasks
  BY CurrentType DEF Counting
<1>2. UNCHANGED <<worker, events, page>>
  BY DEF Submit
<1>0. /\ queue' = queue \cup {[prio |-> Priority[Current(r)], seq |-> seq, task |-> Current(r)]}
      /\ fut'[Current(r)] = [result |-> "open", born |-> seq]
  BY SubmitFacts
<1>3. fut[Current(r)].result = "unborn"
  <2>1. /\ req[r].pc = "submit" /\ req[r].i \in 1..Len(Batch[r]) /\ Len(Batch[r]) \in Nat
        /\ Current(r) = Batch[r][req[r].i]
    BY CurrentType DEF PoolTypes, Submit, Current
  <2>2. QED
    BY <2>1 DEF Places, NotYetSubmitted, Awaits
<1>4. t = Current(r) => fut[t].result \notin Wire /\ fut'[t].result \notin Wire
  <2> SUFFICES ASSUME t = Current(r) PROVE fut[t].result \notin Wire /\ fut'[t].result \notin Wire
    OBVIOUS
  <2>1. fut[t].result = "unborn" /\ fut'[t].result = "open"
    BY <1>0, <1>3
  <2>2. "unborn" \notin Wire /\ "open" \notin Wire
    BY DEF Wire
  <2>3. QED
    BY <2>1, <2>2
<1>5. t # Current(r) => fut'[t] = fut[t]
  BY SubmitFacts
<1>6. t # Current(r) /\ Gone(t) => Gone(t)'
  <2> SUFFICES ASSUME t # Current(r), Gone(t) PROVE Gone(t)'
    OBVIOUS
  <2>1. \A i \in queue' : i \in queue \/ i.task = Current(r)
    BY <1>0
  <2>2. \A i \in queue' : i.task # t
    BY <2>1 DEF Gone
  <2>3. \A w \in Workers : Holds(w)' => Task(w)' # t
    BY <1>2 DEF Gone, Holds, Task
  <2>4. QED
    BY <2>2, <2>3 DEF Gone
<1>7. ~RequestOwes(r, t) /\ ~RequestOwes(r, t)'
  BY SubmitFacts DEF Submit, RequestOwes
<1>8. \A w \in Workers : /\ WorkerOwes(w, t)' <=> WorkerOwes(w, t)
                         /\ WorkerOwes(w, t) => worker'[w].outcome = worker[w].outcome
  BY <1>2 DEF WorkerOwes, Task
<1>9. events'[t] = events[t] /\ page'[t] = page[t]
  BY <1>2
<1>10. \A q \in Requests : q # r => req'[q] = req[q]
  BY SubmitFacts
<1>11. QED
  BY <1>1, <1>4, <1>5, <1>6, <1>7, <1>8, <1>9, <1>10, RequestAside

(* A request that gives up on an open task owes its event.                 *)
LEMMA WaitCounts ==
  ASSUME PoolTypes, Counting, NEW r \in Requests, Wait(r)
  PROVE  Counting'
<1> SUFFICES ASSUME NEW t \in Tasks PROVE Tally(t)' /\ TrueCause(t)'
  BY DEF Counting
<1>1. Tally(t) /\ TrueCause(t) /\ Current(r) \in Tasks /\ "expired" \in Outcomes
  BY CurrentType DEF Counting, Outcomes
<1>2. UNCHANGED <<worker, queue, events, page>>
  BY DEF Wait, tasks
<1>3. Gone(t) => Gone(t)'
  BY <1>2 DEF Gone, Holds, Task
<1>4. \A w \in Workers : /\ WorkerOwes(w, t)' <=> WorkerOwes(w, t)
                         /\ WorkerOwes(w, t) => worker'[w].outcome = worker[w].outcome
  BY <1>2 DEF WorkerOwes, Task
<1>5. events'[t] = events[t] /\ page'[t] = page[t]
  BY <1>2
<1>6. ~RequestOwes(r, t)
  BY DEF Wait, RequestOwes
<1>7. ASSUME NextTask(r), fut' = fut PROVE Tally(t)' /\ TrueCause(t)'
  <2>1. (\A q \in Requests : q # r => req'[q] = req[q]) /\ ~RequestOwes(r, t)'
    BY <1>7, NextTaskTyped DEF RequestOwes
  <2>2. QED
    BY <1>1, <1>3, <1>4, <1>5, <1>6, <1>7, <2>1, RequestAside
<1>8. CASE ExpireFuture(r)
  <2>1. Resolve(Current(r), WIRE_OUTCOME("expired"))
    BY <1>8 DEF ExpireFuture
  <2>2. CASE ~Won(Current(r))
    <3>1. fut' = fut /\ NextTask(r)
      BY <1>1, <1>8, <2>1, <2>2, Resolves DEF ExpireFuture
    <3>2. QED
      BY <1>7, <3>1
  <2>3. CASE Won(Current(r))
    <3>1. /\ fut[Current(r)].result = "open" /\ fut'[Current(r)].result = WIRE_OUTCOME("expired")
          /\ \A u \in Tasks : u # Current(r) => fut'[u] = fut[u]
      BY <1>1, <2>1, <2>3, Resolves
    <3>2. req' = [req EXCEPT ![r].pc = "record"]
      BY <1>8, <2>3 DEF ExpireFuture
    <3>3. /\ \A q \in Requests : q # r => req'[q] = req[q]
          /\ req'[r].pc = "record" /\ req'[r].i = req[r].i
      BY <3>2, RequestMoves DEF RequestPc
    <3>4. RequestOwes(r, t)' <=> t = Current(r)
      BY <3>3 DEF RequestOwes, Current
    <3>5. CASE t = Current(r)
      BY <1>1, <1>4, <1>5, <3>1, <3>4, <3>5, WinnerCounts
    <3>6. CASE t # Current(r)
      BY <1>1, <1>3, <1>4, <1>5, <1>6, <3>1, <3>3, <3>4, <3>6, RequestAside
    <3>7. QED
      BY <3>5, <3>6
  <2>4. QED
    BY <2>2, <2>3
<1>9. QED
  BY <1>7, <1>8 DEF Wait

(* The event a request owes is the one event of its task.                  *)
LEMMA ExpiryCounts ==
  ASSUME PoolTypes, Counting, NEW r \in Requests, RecordExpired(r)
  PROVE  Counting'
<1> SUFFICES ASSUME NEW t \in Tasks PROVE Tally(t)' /\ TrueCause(t)'
  BY DEF Counting
<1>1. Tally(t) /\ TrueCause(t) /\ Current(r) \in Tasks /\ "expired" \in Outcomes
  BY CurrentType DEF Counting, Outcomes
<1>2. /\ UNCHANGED <<worker, queue, fut, page>> /\ Record(Current(r), "expired") /\ NextTask(r)
      /\ req[r].pc = "record"
  BY DEF RecordExpired, tasks
<1>3. (\A q \in Requests : q # r => req'[q] = req[q]) /\ ~RequestOwes(r, t)'
  BY <1>2, NextTaskTyped DEF RequestOwes
<1>4. \A w \in Workers : /\ WorkerOwes(w, t)' <=> WorkerOwes(w, t)
                         /\ WorkerOwes(w, t) => worker'[w].outcome = worker[w].outcome
  BY <1>2 DEF WorkerOwes, Task
<1>5. CASE t = Current(r)
  <2>1. RequestOwes(r, t) /\ Owed(t) /\ Cause(t, "expired")
    BY <1>1, <1>2, <1>5 DEF RequestOwes, Owed, TrueCause
  <2>2. \A w \in Workers : ~WorkerOwes(w, t)'
    BY <1>1, <1>4, <2>1 DEF Tally
  <2>3. \A q \in Requests : ~RequestOwes(q, t)'
    <3> SUFFICES ASSUME NEW q \in Requests, q # r PROVE ~RequestOwes(q, t)'
      BY <1>3
    <3>1. Current(q) # t
      BY <1>5, CurrentIsOwn
    <3>2. QED
      BY <1>3, <3>1 DEF RequestOwes, Current
  <2>4. ~Owed(t)'
    BY <2>2, <2>3 DEF Owed
  <2>5. QED
    BY <1>1, <1>2, <1>5, <2>1, <2>4, RecordCounts
<1>6. CASE t # Current(r)
  <2>1. ~RequestOwes(r, t)
    BY <1>6 DEF RequestOwes
  <2>2. events'[t] = events[t]
    BY <1>1, <1>2, <1>6, RecordsTyped
  <2>3. Gone(t) => Gone(t)'
    BY <1>2 DEF Gone, Holds, Task
  <2>4. QED
    BY <1>1, <1>2, <1>3, <1>4, <2>1, <2>2, <2>3, RequestAside
<1>7. QED
  BY <1>5, <1>6

(* Whatever a worker does is counted.                                      *)
LEMMA RunCounts ==
  ASSUME PoolTypes, Places, Counting, NEW w \in Workers, Run(w)
  PROVE  Counting'
<1> SUFFICES ASSUME NEW t \in Tasks PROVE Tally(t)' /\ TrueCause(t)'
  BY DEF Counting
<1>1. Tally(t) /\ TrueCause(t)
  BY DEF Counting
<1>2. ASSUME NEW pc \in WorkerPc \ {"record"}, Goes(w, pc) \/ (pc \in {"loop", "gone"} /\ Drops(w, pc)),
             worker[w].pc # "record", Holds(w)' => Holds(w),
             \A i \in queue' : i \in queue \/ (Holds(w) /\ i = worker[w].item),
             UNCHANGED <<fut, req, events, page>>
      PROVE  Tally(t)' /\ TrueCause(t)'
  <2>1. /\ worker'[w].pc = pc
        /\ Goes(w, pc) => worker'[w].item = worker[w].item
        /\ \A v \in Workers : v # w => worker'[v] = worker[v]
    BY <1>2, Moves, AtType
  <2>2. Drops(w, pc) /\ pc \in {"loop", "gone"} => ~Holds(w)'
    BY <2>1 DEF Holds
  <2>3. Gone(t) => Gone(t)'
    BY <1>2, <2>1, <2>2, StaysGone
  <2>4. ~WorkerOwes(w, t) /\ ~WorkerOwes(w, t)'
    BY <1>2, <2>1 DEF WorkerOwes
  <2>5. QED
    BY <1>1, <1>2, <2>1, <2>3, <2>4, WorkerAside
<1>3. ASSUME NEW o \in Outcomes, Holds(w), queue' = queue, UNCHANGED <<req, events>>,
             worker[w].pc # "record", Resolve(Task(w), WIRE_OUTCOME(o)), Won(Task(w)),
             worker' = [worker EXCEPT ![w].pc = "record", ![w].outcome = o],
             \A u \in Tasks : u # Task(w) => page'[u] = page[u],
             o \notin {"expired", "no_proxy"} => page'[Task(w)] = o
      PROVE  Tally(t)' /\ TrueCause(t)'
  <2>1. Task(w) \in Tasks
    BY <1>3, TaskType
  <2>2. /\ \A u \in Tasks : u # Task(w) => fut'[u] = fut[u]
        /\ fut[Task(w)].result = "open" /\ fut'[Task(w)].result = WIRE_OUTCOME(o)
    BY <1>3, <2>1, Resolves
  <2>3. /\ worker'[w].pc = "record" /\ worker'[w].item = worker[w].item /\ worker'[w].outcome = o
        /\ \A v \in Workers : v # w => worker'[v] = worker[v]
    BY <1>3, RecordTyped
  <2>4. WorkerOwes(w, t)' <=> t = Task(w)
    BY <2>3 DEF WorkerOwes, Task
  <2>5. \A v \in Workers : v # w => (WorkerOwes(v, t)' <=> WorkerOwes(v, t))
    BY <2>3 DEF WorkerOwes, Task
  <2>6. \A r \in Requests : RequestOwes(r, t)' <=> RequestOwes(r, t)
    BY <1>3 DEF RequestOwes, Current
  <2>7. CASE t = Task(w)
    <3>1. /\ fut[t].result = "open" /\ fut'[t].result = WIRE_OUTCOME(o) /\ events'[t] = events[t]
          /\ o \notin {"expired", "no_proxy"} => page'[t] = o
      BY <1>3, <2>2, <2>7
    <3>2. \E x \in Workers : /\ WorkerOwes(x, t)' /\ worker'[x].outcome = o
                             /\ \A v \in Workers : v # x => (WorkerOwes(v, t)' <=> WorkerOwes(v, t))
                             /\ \A r \in Requests : RequestOwes(r, t)' <=> RequestOwes(r, t)
      BY <2>3, <2>4, <2>5, <2>6, <2>7
    <3>3. QED
      BY <1>1, <3>1, <3>2, WinnerCounts
  <2>8. CASE t # Task(w)
    <3>1. ~WorkerOwes(w, t)
      BY <2>8 DEF WorkerOwes
    <3>2. Gone(t) => Gone(t)'
      BY <1>3, <2>3, StaysGone DEF Holds
    <3>3. fut'[t] = fut[t] /\ page'[t] = page[t] /\ events'[t] = events[t]
      BY <1>3, <2>2, <2>8
    <3>4. QED
      BY <1>1, <1>3, <2>3, <2>4, <2>8, <3>1, <3>2, <3>3, WorkerAside
  <2>9. QED
    BY <2>7, <2>8
<1>4. CASE Loop(w)
  <2>1. PICK pc \in {"gone", "get"} : Goes(w, pc)
    BY <1>4 DEF Loop
  <2>2. /\ pc \in WorkerPc \ {"record"} /\ worker[w].pc = "loop" /\ ~Holds(w)
        /\ queue' = queue /\ UNCHANGED <<fut, req, events, page>>
    BY <1>4 DEF Loop, Holds, tasks, WorkerPc
  <2>3. ~Holds(w)'
    BY <2>1, Moves DEF Holds
  <2>4. QED
    BY <1>2, <2>1, <2>2, <2>3
<1>5. CASE Get(w)
  <2>1. worker[w].pc = "get" /\ ~Holds(w) /\ UNCHANGED <<fut, req, events, page>>
    BY <1>5 DEF Get, Holds
  <2>2. CASE Goes(w, "loop") /\ UNCHANGED queue
    <3>1. ~Holds(w)'
      BY <2>2, Moves DEF Holds
    <3>2. "loop" \in WorkerPc \ {"record"}
      BY DEF WorkerPc
    <3>3. QED
      BY <1>2, <2>1, <2>2, <3>1, <3>2
  <2>3. ASSUME NEW item \in queue, queue' = queue \ {item},
               worker' = [worker EXCEPT ![w].pc = "got", ![w].item = item]
        PROVE  Tally(t)' /\ TrueCause(t)'
    <3>1. item \in Items
      BY DEF PoolTypes
    <3>2. /\ worker'[w].pc = "got" /\ worker'[w].item = item
          /\ \A v \in Workers : v # w => worker'[v] = worker[v]
      BY <2>3, <3>1, TakesTyped
    <3>3. Gone(t) => Gone(t)'
      BY <2>3, <3>2, StaysGone
    <3>4. ~WorkerOwes(w, t) /\ ~WorkerOwes(w, t)'
      BY <2>1, <3>2 DEF WorkerOwes
    <3>5. QED
      BY <1>1, <2>1, <3>2, <3>3, <3>4, WorkerAside
  <2>4. QED
    BY <1>5, <2>2, <2>3, Zenon DEF Get
<1>6. ASSUME Requeue(w), Holds(w), worker[w].pc # "record", UNCHANGED <<fut, req, events, page>>
      PROVE  Tally(t)' /\ TrueCause(t)'
  <2>1. Drops(w, "gone") /\ \A i \in queue' : i \in queue \/ (Holds(w) /\ i = worker[w].item)
    BY <1>6 DEF Requeue
  <2>2. "gone" \in WorkerPc \ {"record"}
    BY DEF WorkerPc
  <2>3. QED
    BY <1>2, <1>6, <2>1, <2>2
<1>7. CASE Took(w)
  <2>1. Holds(w) /\ worker[w].pc = "got" /\ UNCHANGED <<req, events, page>>
    BY <1>7 DEF Took, Holds
  <2>2. "loop" \in WorkerPc \ {"record"} /\ "turn" \in WorkerPc \ {"record"} /\ "expired" \in Outcomes
    BY DEF WorkerPc, Outcomes
  <2>3. CASE Requeue(w) /\ UNCHANGED fut
    BY <1>6, <2>1, <2>3
  <2>4. CASE Drops(w, "loop") /\ UNCHANGED fut /\ queue' = queue
    BY <1>2, <2>1, <2>2, <2>4
  <2>5. CASE /\ fut[Task(w)].result = "open" /\ Resolve(Task(w), WIRE_OUTCOME("expired")) /\ queue' = queue
             /\ worker' = [worker EXCEPT ![w].pc = "record", ![w].outcome = "expired"]
    <3>1. Won(Task(w))
      BY <2>1, <2>2, <2>5, TaskType, Resolves
    <3>2. QED
      BY <1>3, <2>1, <2>2, <2>5, <3>1
  <2>6. CASE Goes(w, "turn") /\ UNCHANGED fut /\ queue' = queue
    BY <1>2, <2>1, <2>2, <2>6
  <2>7. QED
    BY <1>7, <2>3, <2>4, <2>5, <2>6, Zenon DEF Took
<1>8. CASE WaitTurn(w)
  <2>1. Holds(w) /\ worker[w].pc = "turn" /\ UNCHANGED <<fut, req, events, page>>
    BY <1>8 DEF WaitTurn, Holds
  <2>2. CASE Requeue(w)
    BY <1>6, <2>1, <2>2
  <2>3. CASE Goes(w, "fetch") /\ queue' = queue
    <3>1. "fetch" \in WorkerPc \ {"record"}
      BY DEF WorkerPc
    <3>2. QED
      BY <1>2, <2>1, <2>3, <3>1
  <2>4. QED
    BY <1>8, <2>2, <2>3 DEF WaitTurn
<1>9. CASE Finish(w)
  <2>1. Holds(w) /\ worker[w].pc = "fetch" /\ Task(w) \in Tasks /\ queue' = queue /\ UNCHANGED <<req, events>>
    BY <1>9, TaskType DEF Finish, Holds, tasks
  <2>2. PICK o \in Answers \cup Raised :
          /\ page' = [page EXCEPT ![Task(w)] = o]
          /\ Resolve(Task(w), WIRE_OUTCOME(o))
          /\ IF Won(Task(w)) THEN worker' = [worker EXCEPT ![w].pc = "record", ![w].outcome = o]
                             ELSE Drops(w, "loop")
    BY <1>9, Zenon DEF Finish
  <2>3. o \in Outcomes
    BY AnswersTyped
  <2>4. page'[Task(w)] = o /\ \A u \in Tasks : u # Task(w) => page'[u] = page[u]
    BY <2>1, <2>2 DEF PoolTypes
  <2>5. CASE Won(Task(w))
    BY <1>3, <2>1, <2>2, <2>3, <2>4, <2>5
  <2>6. CASE ~Won(Task(w))
    <3>1. fut' = fut /\ Drops(w, "loop")
      BY <2>1, <2>2, <2>3, <2>6, Resolves
    <3>2. worker'[w].pc = "loop" /\ \A v \in Workers : v # w => worker'[v] = worker[v]
      BY <3>1, Moves, AtType DEF WorkerPc
    <3>3. ~WorkerOwes(w, t) /\ ~WorkerOwes(w, t)'
      BY <2>1, <3>2 DEF WorkerOwes
    <3>4. CASE t # Task(w)
      <4>1. Gone(t) => Gone(t)'
        BY <2>1, <3>2, StaysGone DEF Holds
      <4>2. QED
        BY <1>1, <2>1, <2>4, <3>1, <3>2, <3>3, <3>4, <4>1, WorkerAside
    <3>5. CASE t = Task(w)
      <4>1. \A v \in Workers : ~WorkerOwes(v, t) /\ ~WorkerOwes(v, t)'
        BY <2>1, <3>2, <3>3, <3>5 DEF Places, OnePlace, WorkerOwes, Holds, Task
      <4>2. \A r \in Requests : RequestOwes(r, t)' <=> RequestOwes(r, t)
        BY <2>1 DEF RequestOwes, Current
      <4>3. Owed(t)' <=> Owed(t)
        BY <4>1, <4>2 DEF Owed
      <4>4. Tally(t)'
        BY <1>1, <2>1, <3>1, <4>1, <4>3 DEF Tally
      <4>5. \A p \in {"expired", "no_proxy"} : Cause(t, p) => Cause(t, p)'
        BY <3>1 DEF Cause
      <4>6. ~Gone(t)
        BY <2>1, <3>5 DEF Gone
      <4>7. TrueCause(t)'
        BY <1>1, <2>1, <4>1, <4>2, <4>5, <4>6 DEF TrueCause
      <4>8. QED
        BY <4>4, <4>7
    <3>6. QED
      BY <3>4, <3>5
  <2>7. QED
    BY <2>5, <2>6
<1>10. CASE RecordResult(w)
  <2>1. /\ Holds(w) /\ worker[w].pc = "record" /\ Task(w) \in Tasks /\ worker[w].outcome \in Outcomes
        /\ Record(Task(w), worker[w].outcome) /\ Drops(w, "loop")
        /\ UNCHANGED <<queue, fut, req, page>>
    BY <1>10, TaskType DEF RecordResult, Holds, PoolTypes, Hands, tasks
  <2>2. worker'[w].pc = "loop" /\ \A v \in Workers : v # w => worker'[v] = worker[v]
    BY <2>1, Moves, AtType DEF WorkerPc
  <2>3. ~WorkerOwes(w, t)'
    BY <2>2 DEF WorkerOwes
  <2>4. CASE t # Task(w)
    <3>1. ~WorkerOwes(w, t) /\ events'[t] = events[t]
      BY <2>1, <2>4, RecordsTyped DEF WorkerOwes
    <3>2. Gone(t) => Gone(t)'
      BY <2>1, <2>2, StaysGone DEF Holds
    <3>3. QED
      BY <1>1, <2>1, <2>2, <2>3, <3>1, <3>2, WorkerAside
  <2>5. CASE t = Task(w)
    <3>1. WorkerOwes(w, t) /\ Owed(t) /\ Cause(t, worker[w].outcome)
      BY <1>1, <2>1, <2>5 DEF WorkerOwes, Owed, TrueCause
    <3>2. \A v \in Workers : v # w => ~(Holds(v) /\ Task(v) = t)
      BY <2>1, <2>5 DEF Places, OnePlace
    <3>3. Gone(t)'
      BY <2>1, <2>2, <2>5, <3>2 DEF Gone, Places, OnePlace, Holds, Task
    <3>4. \A v \in Workers : ~WorkerOwes(v, t)'
      BY <2>2, <2>3, <3>2 DEF WorkerOwes, Holds, Task
    <3>5. \A r \in Requests : ~RequestOwes(r, t)'
      BY <1>1, <2>1, <3>1 DEF Tally, RequestOwes, Current
    <3>6. ~Owed(t)'
      BY <3>4, <3>5 DEF Owed
    <3>7. QED
      BY <1>1, <2>1, <2>5, <3>1, <3>3, <3>6, RecordCounts
  <2>6. QED
    BY <2>4, <2>5
<1>11. QED
  BY <1>4, <1>5, <1>7, <1>8, <1>9, <1>10 DEF Run

(* Every step counts each answered task once.                              *)
LEMMA NextCounts == PoolTypes /\ Places /\ Counting /\ [Next]_vars => Counting'
<1> SUFFICES ASSUME PoolTypes, Places, Counting, [Next]_vars PROVE Counting'
  OBVIOUS
<1>1. ASSUME NEW r \in Requests, Handle(r) PROVE Counting'
  BY <1>1, PostCounts, SubmitCounts, WaitCounts, ExpiryCounts DEF Handle
<1>2. ASSUME NEW w \in Workers, Run(w) PROVE Counting'
  BY <1>2, RunCounts
<1>3. ASSUME UNCHANGED <<worker, queue, fut, req, events, page>> PROVE Counting'
  BY <1>3 DEF Counting, Tally, TrueCause, Owed, WorkerOwes, RequestOwes, Cause, Gone, Holds, Task, Current
<1>4. ASSUME NEW t \in Tasks, DeadlinePasses(t) PROVE Counting'
  BY <1>3, <1>4 DEF DeadlinePasses
<1>5. ASSUME NEW o \in Objects, CooldownEnds(o) PROVE Counting'
  BY <1>3, <1>5 DEF CooldownEnds, tasks
<1>6. CASE UNCHANGED vars
  BY <1>3, <1>6 DEF vars, tasks
<1>7. QED
  BY <1>1, <1>2, <1>4, <1>5, <1>6 DEF Next

(* At the start nothing is answered, owed or counted.                      *)
LEMMA InitCounts == Init => Counting
<1> SUFFICES ASSUME Init, NEW t \in Tasks PROVE Tally(t) /\ TrueCause(t)
  BY DEF Counting
<1>1. /\ \A w \in Workers : ~WorkerOwes(w, t)
      /\ \A r \in Requests : ~RequestOwes(r, t)
  BY AtType DEF Init, WorkerOwes, RequestOwes, WorkerPc
<1>2. fut[t].result = "unborn" /\ events[t] = <<>> /\ "unborn" \notin Wire
  BY DEF Init, Wire
<1>3. \A o : <<o>> # <<>>
  OBVIOUS
<1>4. QED
  BY <1>1, <1>2, <1>3 DEF Tally, TrueCause, Owed

(* The stats count every answered task once, under its true cause, however *)
(* the worker that fetches it, the worker that finds it expired and the    *)
(* request that gives up on it interleave.                                 *)
THEOREM CountedOnce == Spec => []CountedOnceByCause
<1>1. ASSUME PoolTypes, Places, Counting PROVE CountedOnceByCause
  <2> SUFFICES ASSUME NEW t \in Tasks
               PROVE  LET owed == Cardinality({w \in Workers : worker[w].pc = "record" /\ Task(w) = t})
                                  + Cardinality({r \in Requests : req[r].pc = "record" /\ Current(r) = t}) IN
                      /\ fut[t].result \in Wire => Len(events[t]) + owed = 1
                      /\ fut[t].result \notin Wire => Len(events[t]) + owed = 0
                      /\ \A o \in ToSet(events[t]) :
                           /\ fut[t].result = WIRE_OUTCOME(o)
                           /\ o \notin {"expired", "no_proxy"} => page[t] = o
    BY DEF CountedOnceByCause
  <2> DEFINE W == {w \in Workers : worker[w].pc = "record" /\ Task(w) = t}
             R == {r \in Requests : req[r].pc = "record" /\ Current(r) = t}
  <2>1. Tally(t) /\ TrueCause(t)
    BY <1>1 DEF Counting
  <2>2. /\ \A w \in Workers : w \in W <=> WorkerOwes(w, t)
        /\ \A r \in Requests : r \in R <=> RequestOwes(r, t)
    BY DEF WorkerOwes, RequestOwes
  <2>3. \A v, w \in W : v = w
    BY <1>1 DEF Places, OnePlace, Holds
  <2>4. \A q, r \in R : q = r
    BY <1>1, CurrentIsOwn
  <2>5. Owed(t) <=> W # {} \/ R # {}
    BY <2>2 DEF Owed
  <2>6. W = {} \/ R = {}
    BY <2>1, <2>2 DEF Tally
  <2>7. ~Owed(t) => Cardinality(W) = 0 /\ Cardinality(R) = 0
    BY <2>5, FS_EmptySet
  <2>8. Owed(t) => Cardinality(W) + Cardinality(R) = 1
    <3>1. CASE W # {}
      <4>1. PICK w \in W : TRUE
        BY <3>1
      <4>2. W = {w} /\ R = {}
        BY <2>3, <2>6, <4>1
      <4>3. Cardinality(W) = 1 /\ Cardinality(R) = 0
        BY <4>2, FS_Singleton, FS_EmptySet
      <4>4. QED
        BY <4>3
    <3>2. CASE R # {}
      <4>1. PICK r \in R : TRUE
        BY <3>2
      <4>2. R = {r} /\ W = {}
        BY <2>4, <2>6, <4>1
      <4>3. Cardinality(R) = 1 /\ Cardinality(W) = 0
        BY <4>2, FS_Singleton, FS_EmptySet
      <4>4. QED
        BY <4>3
    <3>3. QED
      BY <2>5, <3>1, <3>2
  <2> HIDE DEF W, R
  <2>9. CASE fut[t].result \notin Wire \/ (events[t] = <<>> /\ Owed(t))
    <3>1. events[t] = <<>> /\ Len(events[t]) = 0
      BY <2>1, <2>9 DEF Tally
    <3>2. ToSet(events[t]) = {}
      BY <3>1 DEF ToSet
    <3>3. /\ fut[t].result \in Wire => Len(events[t]) + (Cardinality(W) + Cardinality(R)) = 1
          /\ fut[t].result \notin Wire => Len(events[t]) + (Cardinality(W) + Cardinality(R)) = 0
      BY <2>1, <2>7, <2>8, <2>9, <3>1 DEF Tally
    <3>4. QED
      BY <3>2, <3>3 DEF W, R
  <2>10. CASE fut[t].result \in Wire /\ ~Owed(t)
    <3>1. PICK o \in Outcomes : events[t] = <<o>>
      BY <2>1, <2>10 DEF Tally
    <3>2. Len(events[t]) = 1 /\ ToSet(events[t]) = {o}
      BY <3>1 DEF ToSet
    <3>3. Cause(t, o)
      BY <2>1, <3>1 DEF TrueCause
    <3>4. Len(events[t]) + (Cardinality(W) + Cardinality(R)) = 1
      BY <2>7, <2>10, <3>2
    <3>5. QED
      BY <2>10, <3>2, <3>3, <3>4 DEF Cause, W, R
  <2>11. QED
    BY <2>1, <2>9, <2>10 DEF Tally
<1>2. QED
  BY <1>1, InitTypes, InitPlaces, InitCounts, NextTypes, NextPlaces, NextCounts, PTL DEF Spec

(***************************************************************************)
(* What a cooling proxy may still send.                                    *)
(***************************************************************************)
(* A worker is a thread of a proxy.                                        *)
LEMMA WorkerOfProxy == ASSUME NEW w \in Workers PROVE Of(w) \in Objects
BY DEF Workers, Objects, Of

(* A step that sends nothing, begins and ends no cooldown, and takes no    *)
(* thread of a cooling proxy past the check.                               *)
LEMMA StaysCool ==
  ASSUME Cooling, overrun' = overrun, \A o \in Objects : proxy'[o].cooling = proxy[o].cooling,
         \A w \in Workers : Quiet(w) /\ proxy[Of(w)].cooling => Quiet(w)',
         \A w \in Workers : worker[w].pc # "off" => worker'[w].pc # "off"
  PROVE  Cooling'
<1>1. ASSUME NEW w \in Workers PROVE Cool(w)'
  BY <1>1, WorkerOfProxy DEF Cooling, Cool
<1>2. ASSUME NEW o \in Objects, proxy'[o].cooling PROVE \E w \in Workers : Starter(o, w)'
  <2>1. PICK w \in Workers : Starter(o, w)
    BY <1>2 DEF Cooling
  <2>2. Starter(o, w)'
    BY <1>2, <2>1 DEF Starter
  <2>3. QED
    BY <2>2
<1>3. QED
  BY <1>1, <1>2 DEF Cooling

(* Whatever a worker does, a cooling proxy sends no more than it may.      *)
LEMMA RunCools ==
  ASSUME PoolTypes, Cooling, NEW w \in Workers, Run(w)
  PROVE  Cooling'
<1>1. /\ Of(w) \in Objects /\ Cool(w) /\ overrun \in [Workers -> Nat] /\ proxy \in [Objects -> Proxy]
      /\ proxy[Of(w)].cooling \in BOOLEAN
  BY WorkerOfProxy DEF Cooling, PoolTypes, Proxy
<1>2. ASSUME \A v \in Workers : v # w => worker'[v] = worker[v], worker'[w].pc # "off",
             Quiet(w) /\ proxy[Of(w)].cooling => worker'[w].pc \notin {"get", "got", "turn"},
             overrun' = overrun, \A o \in Objects : proxy'[o].cooling = proxy[o].cooling
      PROVE  Cooling'
  <2>1. \A v \in Workers : Quiet(v) /\ proxy[Of(v)].cooling => Quiet(v)'
    BY <1>2 DEF Quiet
  <2>2. \A v \in Workers : worker[v].pc # "off" => worker'[v].pc # "off"
    BY <1>2
  <2>3. QED
    BY <1>2, <2>1, <2>2, StaysCool
<1>3. ASSUME NEW pc \in WorkerPc \ {"off"}, Goes(w, pc) \/ Drops(w, pc), UNCHANGED <<proxy, overrun>>,
             Quiet(w) /\ proxy[Of(w)].cooling => pc \notin {"get", "got", "turn"}
      PROVE  Cooling'
  <2>1. worker'[w].pc = pc /\ \A v \in Workers : v # w => worker'[v] = worker[v]
    BY <1>3, Moves, AtType
  <2>2. QED
    BY <1>2, <1>3, <2>1
<1>4. CASE Loop(w)
  BY <1>3, <1>4 DEF Loop, MayTake, WorkerPc
<1>5. CASE Get(w)
  <2>1. ~Quiet(w) /\ UNCHANGED <<proxy, overrun>> /\ "loop" \in WorkerPc \ {"off"}
    BY <1>5 DEF Get, Quiet, WorkerPc
  <2>2. CASE Goes(w, "loop")
    BY <1>3, <2>1, <2>2
  <2>3. CASE \E item \in queue : worker' = [worker EXCEPT ![w].pc = "got", ![w].item = item]
    <3>1. worker'[w].pc = "got" /\ \A v \in Workers : v # w => worker'[v] = worker[v]
      BY <2>3, TakesTyped DEF PoolTypes
    <3>2. QED
      BY <1>2, <2>1, <3>1
  <2>4. QED
    BY <1>5, <2>2, <2>3, Zenon DEF Get
<1>6. CASE Took(w)
  <2>1. ~Quiet(w) /\ UNCHANGED <<proxy, overrun>> /\ Holds(w)
    BY <1>6 DEF Took, Holds, Quiet
  <2>2. /\ {"loop", "gone", "turn"} \subseteq WorkerPc \ {"off"} /\ "expired" \in Outcomes
    BY DEF WorkerPc, Outcomes
  <2>3. CASE Drops(w, "loop") \/ Drops(w, "gone") \/ Goes(w, "turn")
    BY <1>3, <2>1, <2>2, <2>3
  <2>4. CASE worker' = [worker EXCEPT ![w].pc = "record", ![w].outcome = "expired"]
    <3>1. worker'[w].pc = "record" /\ \A v \in Workers : v # w => worker'[v] = worker[v]
      BY <2>1, <2>2, <2>4, RecordTyped
    <3>2. QED
      BY <1>2, <2>1, <3>1
  <2>5. QED
    BY <1>6, <2>3, <2>4, Zenon DEF Took, Requeue
<1>7. CASE WaitTurn(w)
  <2>1. ~Quiet(w) /\ UNCHANGED proxy /\ {"gone", "fetch"} \subseteq WorkerPc \ {"off"}
    BY <1>7 DEF WaitTurn, Quiet, WorkerPc
  <2>2. CASE Drops(w, "gone") /\ UNCHANGED overrun
    BY <1>3, <2>1, <2>2
  <2>3. CASE Goes(w, "fetch") /\ ~proxy[Of(w)].cooling /\ UNCHANGED overrun
    BY <1>3, <2>1, <2>3
  <2>4. CASE Goes(w, "fetch") /\ proxy[Of(w)].cooling /\ overrun' = [overrun EXCEPT ![w] = @ + 1]
    <3>1. overrun[w] = 0
      BY <1>1, <2>1 DEF Cool
    <3>2. overrun'[w] = 1 /\ \A v \in Workers : v # w => overrun'[v] = overrun[v]
      BY <1>1, <2>4, <3>1
    <3>3. worker'[w].pc = "fetch" /\ \A v \in Workers : v # w => worker'[v] = worker[v]
      BY <2>4, Moves
    <3>4. ASSUME NEW v \in Workers PROVE Cool(v)'
      <4>1. CASE v = w
        BY <2>1, <2>4, <3>2, <3>3, <4>1 DEF Cool, Quiet
      <4>2. CASE v # w
        BY <2>1, <3>2, <3>3, <4>2 DEF Cooling, Cool, Quiet
      <4>3. QED
        BY <4>1, <4>2
    <3>5. ASSUME NEW o \in Objects, proxy'[o].cooling PROVE \E v \in Workers : Starter(o, v)'
      <4>1. PICK v \in Workers : Starter(o, v)
        BY <2>1, <3>5 DEF Cooling
      <4>2. v # w
        BY <2>1, <4>1 DEF Starter
      <4>3. Starter(o, v)'
        BY <3>2, <3>3, <4>1, <4>2 DEF Starter, Quiet
      <4>4. QED
        BY <4>3
    <3>6. QED
      BY <3>4, <3>5 DEF Cooling
  <2>5. QED
    BY <1>7, <2>2, <2>3, <2>4 DEF WaitTurn, Requeue
<1>8. CASE Finish(w)
  <2>1. worker[w].pc = "fetch" /\ Holds(w) /\ overrun' = overrun
    BY <1>8 DEF Finish, Holds
  <2>2. PICK a \in Answers \cup Raised :
          /\ proxy' = [proxy EXCEPT ![Of(w)] = StreakAfter(@, a)] \/ proxy' = proxy
          /\ worker' = [worker EXCEPT ![w].pc = "record", ![w].outcome = a] \/ Drops(w, "loop")
    BY <1>8, Zenon DEF Finish
  <2>3. a \in Outcomes
    BY AnswersTyped
  <2>4. worker'[w].pc \in {"record", "loop"} /\ \A v \in Workers : v # w => worker'[v] = worker[v]
    BY <2>1, <2>2, <2>3, RecordTyped, Moves, AtType DEF WorkerPc
  <2>5. /\ \A o \in Objects : o # Of(w) => proxy'[o] = proxy[o]
        /\ proxy[Of(w)].cooling => proxy'[Of(w)].cooling
        /\ proxy'[Of(w)].cooling \in BOOLEAN
    <3>1. proxy[Of(w)] \in Proxy /\ StreakAfter(proxy[Of(w)], a) \in Proxy
          /\ (proxy[Of(w)].cooling => StreakAfter(proxy[Of(w)], a).cooling)
      BY <1>1, StreakTyped
    <3>2. StreakAfter(proxy[Of(w)], a).cooling \in BOOLEAN
      BY <3>1 DEF Proxy
    <3>3. QED
      BY <1>1, <2>2, <3>1, <3>2
  <2>6. CASE proxy'[Of(w)].cooling = proxy[Of(w)].cooling
    BY <1>2, <2>1, <2>4, <2>5, <2>6
  <2>7. CASE proxy'[Of(w)].cooling # proxy[Of(w)].cooling
    <3>1. ~proxy[Of(w)].cooling /\ proxy'[Of(w)].cooling /\ overrun'[w] = 0
      BY <1>1, <2>1, <2>5, <2>7 DEF Cool
    <3>2. ASSUME NEW v \in Workers PROVE Cool(v)'
      <4>1. overrun'[v] <= 1 /\ (overrun'[v] = 1 => Quiet(v))
            /\ (~proxy'[Of(v)].cooling => overrun'[v] = 0)
        BY <2>1, <2>5, <3>1, WorkerOfProxy DEF Cooling, Cool
      <4>2. Quiet(v) => Quiet(v)'
        BY <2>4 DEF Quiet
      <4>3. QED
        BY <4>1, <4>2 DEF Cool
    <3>3. ASSUME NEW o \in Objects, proxy'[o].cooling PROVE \E v \in Workers : Starter(o, v)'
      <4>1. CASE o = Of(w)
        <5>1. Starter(o, w)'
          BY <2>4, <3>1, <4>1 DEF Starter, Quiet
        <5>2. QED
          BY <5>1
      <4>2. CASE o # Of(w)
        <5>1. PICK v \in Workers : Starter(o, v)
          BY <2>5, <3>3, <4>2 DEF Cooling
        <5>2. Starter(o, v)'
          BY <2>1, <2>4, <4>2, <5>1 DEF Starter, Quiet
        <5>3. QED
          BY <5>2
      <4>3. QED
        BY <4>1, <4>2
    <3>4. QED
      BY <3>2, <3>3 DEF Cooling
  <2>8. QED
    BY <2>6, <2>7
<1>9. CASE RecordResult(w)
  <2>1. Drops(w, "loop") /\ UNCHANGED <<proxy, overrun>> /\ "loop" \in WorkerPc \ {"off"}
    BY <1>9 DEF RecordResult, WorkerPc
  <2>2. QED
    BY <1>3, <2>1
<1>10. QED
  BY <1>4, <1>5, <1>6, <1>7, <1>8, <1>9 DEF Run

(* Every step keeps a cooling proxy within what its threads may send.      *)
LEMMA NextCools == PoolTypes /\ Cooling /\ [Next]_vars => Cooling'
<1> SUFFICES ASSUME PoolTypes, Cooling, [Next]_vars PROVE Cooling'
  OBVIOUS
<1>1. ASSUME UNCHANGED <<worker, proxy, overrun>> PROVE Cooling'
  BY <1>1, StaysCool DEF Quiet
<1>2. ASSUME NEW r \in Requests, Post(r) PROVE Cooling'
  <2>1. PICK list \in SUBSET Urls, wanted \in 1..Threads : Ensure(list, wanted)
    BY <1>2, ProxyPoolAssumption DEF Post
  <2>2. /\ \A w \in Workers : worker'[w] = worker[w] \/ (worker[w].pc = "off" /\ worker'[w] = At("loop"))
        /\ \A o \in Objects : proxy'[o].cooling = proxy[o].cooling
    BY <2>1, EnsureFacts
  <2>3. \A w \in Workers : worker'[w] = worker[w] \/ worker'[w].pc = "loop"
    BY <2>2, AtType DEF WorkerPc
  <2>4. /\ \A w \in Workers : Quiet(w) => Quiet(w)'
        /\ \A w \in Workers : worker[w].pc # "off" => worker'[w].pc # "off"
    BY <2>3 DEF Quiet
  <2>5. overrun' = overrun
    BY <1>2 DEF Post
  <2>6. QED
    BY <2>2, <2>4, <2>5, StaysCool
<1>3. ASSUME NEW r \in Requests, Submit(r) \/ Wait(r) \/ RecordExpired(r) PROVE Cooling'
  BY <1>1, <1>3 DEF Submit, Wait, RecordExpired
<1>4. ASSUME NEW w \in Workers, Run(w) PROVE Cooling'
  BY <1>4, RunCools
<1>5. ASSUME NEW t \in Tasks, DeadlinePasses(t) PROVE Cooling'
  BY <1>1, <1>5 DEF DeadlinePasses
<1>6. ASSUME NEW p \in Objects, CooldownEnds(p) PROVE Cooling'
  <2>1. /\ proxy' = [proxy EXCEPT ![p].cooling = FALSE] /\ worker' = worker
        /\ overrun' = [w \in Workers |-> IF Of(w) = p THEN 0 ELSE overrun[w]]
    BY <1>6 DEF CooldownEnds
  <2>2. proxy \in [Objects -> Proxy] /\ proxy'[p].cooling = FALSE
        /\ \A o \in Objects : o # p => proxy'[o] = proxy[o]
    BY <2>1 DEF PoolTypes, Proxy
  <2>3. ASSUME NEW w \in Workers PROVE Cool(w)'
    <3>1. CASE Of(w) = p
      <4>1. overrun'[w] = 0
        BY <2>1, <3>1
      <4>2. QED
        BY <4>1 DEF Cool
    <3>2. CASE Of(w) # p
      <4>1. overrun'[w] = overrun[w] /\ proxy'[Of(w)] = proxy[Of(w)] /\ Cool(w)
        BY <2>1, <2>2, <3>2, WorkerOfProxy DEF Cooling
      <4>2. QED
        BY <2>1, <4>1 DEF Cool, Quiet
    <3>3. QED
      BY <3>1, <3>2
  <2>4. ASSUME NEW o \in Objects, proxy'[o].cooling PROVE \E w \in Workers : Starter(o, w)'
    <3>1. o # p /\ proxy[o].cooling
      BY <2>2, <2>4
    <3>2. PICK w \in Workers : Starter(o, w)
      BY <3>1 DEF Cooling
    <3>3. Starter(o, w)'
      BY <2>1, <3>1, <3>2 DEF Starter, Quiet
    <3>4. QED
      BY <3>3
  <2>5. QED
    BY <2>3, <2>4 DEF Cooling
<1>7. CASE UNCHANGED vars
  BY <1>1, <1>7 DEF vars
<1>8. QED
  BY <1>2, <1>3, <1>4, <1>5, <1>6, <1>7 DEF Next, Handle

(* While a proxy cools down no thread of it sends more than one task, the  *)
(* one it takes after a check it had passed before, however long it waits  *)
(* at the queue or for its turn; one of its threads sends none.            *)
THEOREM CoolingLetsOneMoreEach == Spec => []OneMoreEachWhileCooling
<1>1. Init => Cooling
  BY WorkerOfProxy DEF Init, Cooling, Cool
<1>2. Cooling => OneMoreEachWhileCooling
  BY DEF Cooling, Cool, Starter, OneMoreEachWhileCooling
<1>3. QED
  BY <1>1, <1>2, InitTypes, NextTypes, NextCools, PTL DEF Spec
=============================================================================
