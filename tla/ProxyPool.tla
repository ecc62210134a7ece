------------------------------ MODULE ProxyPool ------------------------------
(***************************************************************************)
(* The proxy pool of the Amazon scraper (services/amazon-scraper): HTTP    *)
(* requests that each name the proxies to use, put their tasks on one      *)
(* priority queue and wait for them one by one; worker threads bound to    *)
(* one proxy for life; proxies that cool down after blocks and are retired *)
(* when a request no longer names them; deadlines the waiter enforces.     *)
(* A proxy removed and named again is a new _Proxy: its lives are numbered *)
(* and a worker is <<url, life, thread>>.                                  *)
(***************************************************************************)
EXTENDS Naturals, Sequences, FiniteSets, SequencesExt

CONSTANTS
  Urls, Requests, Tasks,
  Batch,        \* [Requests -> Seq(Tasks)], the asins of a request
  Priority,     \* [Tasks -> Nat], _LANE_PRIORITY of the task's lane
  Lists,        \* usable proxies a request may come with
  Threads,      \* most workers of one proxy
  StreakLimit,  \* block_streak_for_cooldown
  Answers,      \* outcomes a fetch returns
  Raised,       \* outcomes given to a fetch that raises
  MaxLives      \* bound: times one proxy is set up

ASSUME ProxyPoolAssumption ==
  /\ Batch \in [Requests -> Seq(Tasks)] /\ Priority \in [Tasks -> Nat]
  /\ Lists \subseteq SUBSET Urls
  /\ Threads \in Nat \ {0} /\ StreakLimit \in Nat \ {0} /\ MaxLives \in Nat \ {0}
  /\ Answers \subseteq {"found", "not_found", "blocked", "parse_failed", "proxy_error"}
  /\ Raised \subseteq {"no_proxy", "parse_failed"}

(* A request has at least one asin (the body is refused otherwise), its    *)
(* asins are distinct (dict.fromkeys) and each submission makes a Future   *)
(* of its own, so a task stands in one place of one batch.                 *)
ASSUME BatchAssumption ==
  /\ "-" \notin Tasks
  /\ \A r \in Requests : Batch[r] # <<>>
  /\ \A r, q \in Requests : \A i \in 1..Len(Batch[r]), j \in 1..Len(Batch[q]) :
       Batch[r][i] = Batch[q][j] => r = q /\ i = j

VARIABLES
  life,    \* _proxies: the life of a url in use, 0 when it is in none
  lives,   \* lives a url has had
  proxy,   \* _Proxy of a url and life: threads, block_streak, cooling
  worker,  \* where a thread stands, the item it holds, the outcome to record
  queue,   \* the PriorityQueue: [prio, seq, task]
  seq,     \* next value of _seq
  fut,     \* the Future of a task: its result and its submission
  late,    \* tasks past their deadline
  req,     \* a request: where it stands, the task it waits for
  events,  \* outcomes recorded in the stats for a task
  page,    \* what the page fetched for a task said (history)
  overrun  \* tasks a thread sent since its proxy cools (history)

proxies == <<life, lives>>
tasks == <<queue, seq, late>>
vars == <<proxies, proxy, worker, tasks, fut, req, events, page, overrun>>

Objects == Urls \X (1..MaxLives)
Workers == Urls \X (1..MaxLives) \X (1..Threads)
Of(w) == <<w[1], w[2]>>
Retired(o) == life[o[1]] # o[2]

None == [prio |-> 0, seq |-> 0, task |-> "-"]
At(pc) == [pc |-> pc, item |-> None, outcome |-> "-"]
Task(w) == worker[w].item.task
Current(r) == Batch[r][req[r].i]

WIRE_OUTCOME(o) == IF o \in {"expired", "proxy_error"} THEN "blocked" ELSE o

Init ==
  /\ life = [u \in Urls |-> 0] /\ lives = life
  /\ proxy = [o \in Objects |-> [threads |-> 0, block_streak |-> 0, cooling |-> FALSE]]
  /\ worker = [w \in Workers |-> At("off")]
  /\ queue = {} /\ seq = 1 /\ late = {}
  /\ fut = [t \in Tasks |-> [result |-> "unborn", born |-> 0]]
  /\ req = [r \in Requests |-> [pc |-> "new", i |-> 1]]
  /\ events = [t \in Tasks |-> <<>>]
  /\ page = [t \in Tasks |-> "-"]
  /\ overrun = [w \in Workers |-> 0]

-----------------------------------------------------------------------------
(* Results: set_result wins once; whoever won records the outcome next.    *)

MutResolve(t, wire) ==      \* mutant: a second result is taken for the first
  fut' = [fut EXCEPT ![t].result = wire]

Resolve(t, wire) ==
  fut' = IF fut[t].result = "open" THEN [fut EXCEPT ![t].result = wire] ELSE fut

Won(t) == fut'[t] # fut[t]

Record(t, o) == events' = [events EXCEPT ![t] = Append(@, o)]

-----------------------------------------------------------------------------
(* A request.  ensure runs under _lock; the proxies it no longer finds in  *)
(* its list retire, the others get at least the wanted number of workers.  *)

Ensure(list, wanted) ==
  LET fresh == {u \in list : life[u] = 0} IN
  /\ \A u \in fresh : lives[u] < MaxLives
  /\ lives' = [u \in Urls |-> IF u \in fresh THEN lives[u] + 1 ELSE lives[u]]
  /\ life' = [u \in Urls |-> IF u \in list THEN lives'[u] ELSE 0]
  /\ LET grown == {w \in Workers : w[1] \in list /\ w[2] = lives'[w[1]] /\ w[3] <= wanted} IN
     /\ worker' = [w \in Workers |-> IF w \in grown /\ worker[w].pc = "off" THEN At("loop") ELSE worker[w]]
     /\ proxy' = [o \in Objects |->
                    [proxy[o] EXCEPT !.threads = Cardinality({k \in 1..Threads : worker'[<<o[1], o[2], k>>].pc # "off"})]]

Post(r) ==
  /\ req[r].pc = "new"
  /\ \E list \in Lists, wanted \in 1..Threads :
       /\ Ensure(list, wanted)
       /\ IF list = {}
          THEN /\ req' = [req EXCEPT ![r].pc = "answered"]        \* record_no_proxy
               /\ events' = [t \in Tasks |-> IF t \in ToSet(Batch[r]) THEN Append(events[t], "no_proxy") ELSE events[t]]
               /\ fut' = [t \in Tasks |-> IF t \in ToSet(Batch[r]) THEN [fut[t] EXCEPT !.result = "no_proxy"] ELSE fut[t]]
          ELSE /\ req' = [req EXCEPT ![r].pc = "submit"]
               /\ UNCHANGED <<events, fut>>
  /\ UNCHANGED <<tasks, page, overrun>>

Submit(r) ==
  /\ req[r].pc = "submit"
  /\ LET t == Current(r) IN
     /\ queue' = queue \cup {[prio |-> Priority[t], seq |-> seq, task |-> t]}
     /\ fut' = [fut EXCEPT ![t] = [result |-> "open", born |-> seq]]
  /\ seq' = seq + 1
  /\ req' = [req EXCEPT ![r] = IF @.i < Len(Batch[r]) THEN [pc |-> "submit", i |-> @.i + 1] ELSE [pc |-> "wait", i |-> 1]]
  /\ UNCHANGED <<proxies, proxy, worker, late, events, page, overrun>>

NextTask(r) ==
  req' = [req EXCEPT ![r] = IF @.i < Len(Batch[r]) THEN [pc |-> "wait", i |-> @.i + 1] ELSE [@ EXCEPT !.pc = "answered"]]

MutExpireFuture(r) == FALSE \* mutant: the waiter leaves the deadline to the workers

ExpireFuture(r) ==
  /\ Current(r) \in late
  /\ Resolve(Current(r), WIRE_OUTCOME("expired"))
  /\ IF Won(Current(r)) THEN req' = [req EXCEPT ![r].pc = "record"] ELSE NextTask(r)

Wait(r) ==
  /\ req[r].pc = "wait"
  /\ \/ fut[Current(r)].result # "open" /\ NextTask(r) /\ UNCHANGED fut
     \/ ExpireFuture(r)
  /\ UNCHANGED <<proxies, proxy, worker, tasks, events, page, overrun>>

RecordExpired(r) ==
  /\ req[r].pc = "record"
  /\ Record(Current(r), "expired")
  /\ NextTask(r)
  /\ UNCHANGED <<proxies, proxy, worker, tasks, fut, page, overrun>>

(* Every task has the same time, so deadlines pass in the order of          *)
(* submission; that of a task already answered is asked by nobody.         *)
DeadlinePasses(t) ==
  /\ fut[t].result = "open" /\ t \notin late
  /\ \A u \in Tasks : fut[u].result = "open" /\ fut[u].born < fut[t].born => u \in late
  /\ late' = late \cup {t}
  /\ UNCHANGED <<proxies, proxy, worker, queue, seq, fut, req, events, page, overrun>>

-----------------------------------------------------------------------------
(* A worker thread.                                                        *)

Goes(w, pc) == worker' = [worker EXCEPT ![w].pc = pc]
Drops(w, pc) == worker' = [worker EXCEPT ![w] = At(pc)]

MutMayTake(w) == TRUE       \* mutant: a cooling proxy goes on taking tasks
MayTake(w) == ~proxy[Of(w)].cooling

MutLeaves(w) == FALSE       \* mutant: only a worker that took a task sees the retirement
Leaves(w) == Retired(Of(w))

Loop(w) ==
  /\ worker[w].pc = "loop"
  /\ \/ Leaves(w) /\ Goes(w, "gone")
     \/ ~Leaves(w) /\ MayTake(w) /\ Goes(w, "get")
  /\ UNCHANGED <<proxies, proxy, tasks, fut, req, events, page, overrun>>

Before(a, b) == a.prio < b.prio \/ (a.prio = b.prio /\ a.seq < b.seq)

Get(w) ==
  /\ worker[w].pc = "get"
  /\ \/ /\ queue = {} /\ Goes(w, "loop")
        /\ UNCHANGED queue
     \/ \E item \in queue :
          /\ \A other \in queue \ {item} : Before(item, other)
          /\ queue' = queue \ {item}
          /\ worker' = [worker EXCEPT ![w].pc = "got", ![w].item = item]
  /\ UNCHANGED <<proxies, proxy, seq, late, fut, req, events, page, overrun>>

MutRequeue(w) ==            \* mutant: the item goes to the end of its lane
  /\ queue' = queue \cup {[worker[w].item EXCEPT !.seq = seq]}
  /\ seq' = seq + 1 /\ Drops(w, "gone")

MutRequeueLoses(w) == Drops(w, "gone") /\ UNCHANGED <<queue, seq>>
                            \* mutant: the worker ends with the item in hand

Requeue(w) ==
  /\ queue' = queue \cup {worker[w].item}
  /\ Drops(w, "gone") /\ UNCHANGED seq

Took(w) ==
  /\ worker[w].pc = "got"
  /\ \/ /\ Retired(Of(w)) /\ Requeue(w)
        /\ UNCHANGED fut
     \/ /\ ~Retired(Of(w))
        /\ \/ fut[Task(w)].result # "open" /\ Drops(w, "loop") /\ UNCHANGED fut
           \/ /\ fut[Task(w)].result = "open" /\ Task(w) \in late
              /\ Resolve(Task(w), WIRE_OUTCOME("expired"))
              /\ worker' = [worker EXCEPT ![w].pc = "record", ![w].outcome = "expired"]
           \/ /\ fut[Task(w)].result = "open" /\ Task(w) \notin late
              /\ Goes(w, "turn") /\ UNCHANGED fut
        /\ UNCHANGED <<queue, seq>>
  /\ UNCHANGED <<proxies, proxy, late, req, events, page, overrun>>

(* wait_turn may sleep for seconds: the proxy is asked again after it, and *)
(* not whether it cools or whether the task is still open.                 *)
WaitTurn(w) ==
  /\ worker[w].pc = "turn"
  /\ \/ /\ Retired(Of(w)) /\ Requeue(w)
        /\ UNCHANGED overrun
     \/ /\ ~Retired(Of(w)) /\ Goes(w, "fetch")
        /\ overrun' = IF proxy[Of(w)].cooling THEN [overrun EXCEPT ![w] = @ + 1] ELSE overrun
        /\ UNCHANGED <<queue, seq>>
  /\ UNCHANGED <<proxies, proxy, late, fut, req, events, page>>

StreakAfter(p, o) ==
  IF o \notin {"blocked", "proxy_error"} THEN [p EXCEPT !.block_streak = 0]
  ELSE IF p.block_streak + 1 >= StreakLimit THEN [p EXCEPT !.block_streak = 0, !.cooling = TRUE]
  ELSE [p EXCEPT !.block_streak = @ + 1]

Finish(w) ==
  /\ worker[w].pc = "fetch"
  /\ \E o \in Answers \cup Raised :
       /\ page' = [page EXCEPT ![Task(w)] = o]
       /\ \/ o \in Answers /\ proxy' = [proxy EXCEPT ![Of(w)] = StreakAfter(@, o)]
          \/ o \in Raised /\ UNCHANGED proxy
       /\ Resolve(Task(w), WIRE_OUTCOME(o))
       /\ IF Won(Task(w)) THEN worker' = [worker EXCEPT ![w].pc = "record", ![w].outcome = o]
                          ELSE Drops(w, "loop")
  /\ UNCHANGED <<proxies, tasks, req, events, overrun>>

RecordResult(w) ==
  /\ worker[w].pc = "record"
  /\ Record(Task(w), worker[w].outcome)
  /\ Drops(w, "loop")
  /\ UNCHANGED <<proxies, proxy, tasks, fut, req, page, overrun>>

CooldownEnds(o) ==
  /\ proxy[o].cooling
  /\ proxy' = [proxy EXCEPT ![o].cooling = FALSE]
  /\ overrun' = [w \in Workers |-> IF Of(w) = o THEN 0 ELSE overrun[w]]
  /\ UNCHANGED <<proxies, worker, tasks, fut, req, events, page>>

-----------------------------------------------------------------------------
Handle(r) == Post(r) \/ Submit(r) \/ Wait(r) \/ RecordExpired(r)
Run(w) == Loop(w) \/ Get(w) \/ Took(w) \/ WaitTurn(w) \/ Finish(w) \/ RecordResult(w)

Next ==
  \/ \E r \in Requests : Handle(r)
  \/ \E w \in Workers : Run(w)
  \/ \E t \in Tasks : DeadlinePasses(t)
  \/ \E o \in Objects : CooldownEnds(o)

Spec == Init /\ [][Next]_vars

(* The threads of the server and of the pool run, time passes.  Post is a  *)
(* request of the API and owes nothing.                                    *)
FairSpec ==
  /\ Spec
  /\ WF_vars(\E r \in Requests : Submit(r) \/ Wait(r) \/ RecordExpired(r))
  /\ WF_vars(\E t \in Tasks : DeadlinePasses(t))
  /\ \A w \in Workers : WF_vars(Run(w))

-----------------------------------------------------------------------------
(* Every variable holds values of its type; what a caller gets is one of   *)
(* the outcomes the API knows.                                             *)
Wire == {"found", "not_found", "blocked", "parse_failed", "no_proxy"}

TypeOK ==
  /\ life \in [Urls -> 0..MaxLives] /\ lives \in [Urls -> 0..MaxLives]
  /\ proxy \in [Objects -> [threads : 0..Threads, block_streak : 0..(StreakLimit - 1), cooling : BOOLEAN]]
  /\ \A w \in Workers :
       /\ worker[w].pc \in {"off", "loop", "get", "got", "turn", "fetch", "record", "gone"}
       /\ worker[w].pc \in {"got", "turn", "fetch", "record"} <=> worker[w].item # None
  /\ \A t \in Tasks : fut[t].result \in {"unborn", "open"} \cup Wire
  /\ \A r \in Requests : req[r].pc \in {"new", "submit", "wait", "record", "answered"} /\ req[r].i \in 1..Len(Batch[r])

(* A task that is not answered yet is in exactly one place: on the queue,  *)
(* or in the hands of one worker that has not left.  Retirement at any     *)
(* point (the two requeues of _worker) neither loses nor doubles it.       *)
OpenTaskIsHeldOnce ==
  \A t \in Tasks : fut[t].result = "open" =>
    Cardinality({i \in queue : i.task = t}) + Cardinality({w \in Workers : Task(w) = t}) = 1

(* The stats count every answered task once, whoever answered it first,    *)
(* and under the true cause: an expiry or a dead proxy reaches the caller  *)
(* as blocked and never the block rate.  A winner between set_result and   *)
(* _record still owes its event.                                           *)
CountedOnceByCause ==
  \A t \in Tasks :
    LET owed == Cardinality({w \in Workers : worker[w].pc = "record" /\ Task(w) = t})
                + Cardinality({r \in Requests : req[r].pc = "record" /\ Current(r) = t}) IN
    /\ fut[t].result \in Wire => Len(events[t]) + owed = 1
    /\ fut[t].result \notin Wire => Len(events[t]) + owed = 0
    /\ \A o \in ToSet(events[t]) :
         /\ fut[t].result = WIRE_OUTCOME(o)
         /\ o \notin {"expired", "no_proxy"} => page[t] = o

(* Once a proxy cools down, a thread that had passed the loop's check, and *)
(* may still wait at the queue, sends one task more; no thread sends two,  *)
(* and at least one that runs, the one whose block began it, sends none.   *)
OneMoreEachWhileCooling ==
  /\ \A w \in Workers : overrun[w] <= 1
  /\ \A o \in Objects : proxy[o].cooling =>
       \E w \in Workers : Of(w) = o /\ worker[w].pc # "off" /\ overrun[w] = 0

(* Of two tasks of one lane on the queue, the one submitted first is taken *)
(* first, and no lane is served before a more urgent one, requeued tasks   *)
(* included.                                                               *)
TakenInOrder ==
  [][\A t \in Tasks : (\E i \in queue \ queue' : i.task = t) =>
       \A i \in queue' : \/ Priority[t] < Priority[i.task]
                         \/ Priority[t] = Priority[i.task] /\ fut[t].born < fut[i.task].born]_vars

(* The requests in hand are answered, whatever happens to the proxies: none *)
(* left, all cooling, a page that never comes.                              *)
EveryRequestAnswered ==
  (\E r \in Requests : req[r].pc = "wait") ~> (\A r \in Requests : req[r].pc \in {"new", "answered"})

(* The threads of a proxy that left the list end: a long run of changing   *)
(* lists does not gather threads.                                          *)
RetiredThreadsEnd ==
  []<>(\A w \in Workers : Retired(Of(w)) => worker[w].pc \in {"off", "gone"})
=============================================================================
