------------------------- MODULE SubscriptionProofs -------------------------
(***************************************************************************)
(* Who is served, proved for any number of subscriptions, tabs, webhooks   *)
(* and periods.  Every copy of a Stripe object on its way to a row lags    *)
(* behind Stripe, and so does the end of a row, unless it was made up;     *)
(* Stripe, and the start of a row, never run ahead of the calendar.  So a  *)
(* row that reaches into the present period was carried there by Stripe or *)
(* made up, and a row that ends before it starts is a lapsed one.          *)
(***************************************************************************)
EXTENDS Subscription, TLAPS

EventType == [kind : {"none", "subscription", "topup"}, sub : Subs \cup {"none"},
              object : Objects, inbox : {"received", "processing", "closed"},
              pc : {"off", "trial", "upsert", "grant", "mark"}]
RowType == [status : Status, start : 0..MaxPeriods, end : 0..MaxPeriods + 1, made : BOOLEAN]
TabType == [pc : {"off", "open", "paid", "confirm"}, sub : Subs \cup {"none"}, object : Objects]
SweepType == [pc : {"off", "rows", "write"}, todo : SUBSET Subs, sub : Subs \cup {"none"}, object : Objects]

(* TypeOK over the named record sets.                                      *)
LEMMA TypeUnfolds ==
  TypeOK <=> /\ now \in 0..MaxPeriods /\ stripe \in [Subs -> Objects]
             /\ event \in [Events -> EventType] /\ rows \in [Subs -> RowType]
             /\ trial \in {"trialing", "ended"} /\ tab \in [Tabs -> TabType]
             /\ sweep \in SweepType /\ credits \in [Events -> {0, 1}]
BY DEF TypeOK, EventType, RowType, TabType, SweepType

(* The same of the next state.                                             *)
LEMMA TypeFolds ==
  ASSUME now' \in 0..MaxPeriods, stripe' \in [Subs -> Objects], event' \in [Events -> EventType],
         rows' \in [Subs -> RowType], trial' \in {"trialing", "ended"}, tab' \in [Tabs -> TabType],
         sweep' \in SweepType, credits' \in [Events -> {0, 1}]
  PROVE  TypeOK'
BY DEF TypeOK, EventType, RowType, TabType, SweepType

(* The empty records are typed.                                            *)
LEMMA NullTypes ==
  NoSub \in Objects /\ NoEvent \in EventType /\ NoRow \in RowType /\ Idle \in TabType /\ Asleep \in SweepType
<1>1. NoSub \in Objects
  BY SubscriptionAssumption DEF NoSub, Objects, Status
<1>2. QED
  BY <1>1, SubscriptionAssumption DEF NoEvent, EventType, NoRow, RowType, Idle, Asleep, TabType, SweepType, Status

(* The field updates of an event.                                          *)
LEMMA EventUpdate ==
  ASSUME NEW v \in EventType
  PROVE  /\ \A pc \in {"off", "trial", "upsert", "grant", "mark"} : [v EXCEPT !.pc = pc] \in EventType
         /\ \A inbox \in {"received", "processing", "closed"}, pc \in {"off", "trial", "upsert", "grant", "mark"} :
              [v EXCEPT !.inbox = inbox, !.pc = pc] \in EventType
         /\ [NoEvent EXCEPT !.kind = v.kind, !.inbox = "closed"] \in EventType
BY NullTypes DEF EventType, NoEvent

(* A new webhook is typed.                                                 *)
LEMMA ReportType ==
  ASSUME TypeOK, NEW kind \in {"subscription", "topup"}, NEW s \in Subs \cup {"none"}, NEW object \in Objects,
         Reports(kind, s, object)
  PROVE  event' \in [Events -> EventType]
<1>1. [NoEvent EXCEPT !.kind = kind, !.sub = s, !.object = object] \in EventType
  BY NullTypes DEF EventType, NoEvent
<1>2. QED
  BY <1>1, TypeUnfolds DEF Reports

(* What is extracted from an object is a row.                              *)
LEMMA ExtractType ==
  ASSUME TypeOK, NEW object \in Objects, NEW fields \in Extracts(object)
  PROVE  fields \in RowType /\ fields.start \in {object.period, now} /\ fields.status = object.status
         /\ (fields.made \/ fields.end = object.period)
<1>1. now \in 0..MaxPeriods /\ now + 1 \in 0..MaxPeriods + 1 /\ object.period \in 0..MaxPeriods
      /\ object.period \in 0..MaxPeriods + 1 /\ now \in 0..MaxPeriods + 1 /\ object.status \in Status
  BY TypeUnfolds, SubscriptionAssumption DEF Objects
<1>2. CASE fields = [status |-> object.status, start |-> object.period, end |-> object.period, made |-> FALSE]
  BY <1>1, <1>2 DEF RowType
<1>3. ASSUME NEW end \in {object.period, now, now + 1},
             fields = [status |-> object.status, start |-> now, end |-> end, made |-> TRUE]
      PROVE  fields \in RowType /\ fields.start = now /\ fields.status = object.status /\ fields.made
  <2>1. end \in 0..MaxPeriods + 1
    BY <1>1
  <2>2. QED
    BY <1>1, <1>3, <2>1 DEF RowType
<1>4. fields = [status |-> object.status, start |-> object.period, end |-> object.period, made |-> FALSE]
      \/ \E end \in {object.period, now, now + 1} :
            fields = [status |-> object.status, start |-> now, end |-> end, made |-> TRUE]
  BY DEF Extracts
<1>5. QED
  BY <1>2, <1>3, <1>4

(* The write of a row is typed; its start is the old one, that of the      *)
(* object or now.                                                          *)
LEMMA UpsertType ==
  ASSUME TypeOK, NEW s \in Subs, NEW object \in Objects, Upsert(s, object)
  PROVE  /\ rows' \in [Subs -> RowType] /\ \A r \in Subs \ {s} : rows'[r] = rows[r]
         /\ rows'[s].status = object.status /\ (rows'[s].made \/ rows'[s].end = object.period)
         /\ rows'[s].start \in {rows[s].start, object.period, now}
<1>1. rows \in [Subs -> RowType] /\ rows[s] \in RowType /\ rows[s].start \in 0..MaxPeriods
  BY TypeUnfolds DEF RowType
<1>2. PICK fields \in Extracts(object) :
        rows' = [rows EXCEPT ![s] = [fields EXCEPT !.start = IF @ > rows[s].start THEN @ ELSE rows[s].start]]
  BY DEF Upsert
<1>3. /\ fields \in RowType /\ fields.start \in {object.period, now} /\ fields.status = object.status
      /\ (fields.made \/ fields.end = object.period)
  BY ExtractType
<1> DEFINE start == IF fields.start > rows[s].start THEN fields.start ELSE rows[s].start
<1> DEFINE row == [fields EXCEPT !.start = start]
<1>4. start \in {rows[s].start, object.period, now} /\ start \in 0..MaxPeriods
  BY <1>1, <1>3 DEF RowType
<1>5. rows' = [rows EXCEPT ![s] = row]
  BY <1>2, <1>3 DEF RowType
<1> HIDE DEF start
<1>6. row \in RowType /\ row.start = start /\ row.status = fields.status /\ row.made = fields.made
      /\ row.end = fields.end
  BY <1>3, <1>4 DEF RowType
<1> HIDE DEF row
<1>7. rows' \in [Subs -> RowType] /\ rows'[s] = row /\ \A r \in Subs \ {s} : rows'[r] = rows[r]
  BY <1>1, <1>5, <1>6
<1>8. QED
  BY <1>3, <1>4, <1>6, <1>7

-----------------------------------------------------------------------------
(* What a copy of a Stripe object may say: the subscription exists, and    *)
(* its period is none Stripe has not reached.                              *)
Copy(held, s, object) ==
  /\ s \in Subs /\ object \in Objects /\ object.status # "none"
  /\ held[s].status # "none" /\ object.period <= held[s].period

StripeInTime == \A s \in Subs : stripe[s].period <= now
RowLags(held, row, s) ==
  row.status # "none" => held[s].status # "none" /\ (row.made \/ row.end <= held[s].period)
RowsLag == \A s \in Subs : RowLags(stripe, rows[s], s) /\ rows[s].start <= now
EventLags(held, v) ==
  /\ v.kind = "subscription" /\ v.inbox # "closed" => Copy(held, v.sub, v.object)
  /\ v.pc \in {"trial", "upsert"} => v.kind = "subscription"
  /\ v.pc # "off" => v.inbox # "closed"
EventsLag == \A e \in Events : EventLags(stripe, event[e])
TabLags(held, w) ==
  /\ w.pc = "paid" => w.sub \in Subs /\ held[w.sub].status # "none"
  /\ w.pc = "confirm" => Copy(held, w.sub, w.object)
TabsLag == \A t \in Tabs : TabLags(stripe, tab[t])
SweepLags ==
  /\ \A s \in sweep.todo : stripe[s].status # "none"
  /\ sweep.pc = "write" => Copy(stripe, sweep.sub, sweep.object)

(* The inductive invariant.                                                *)
Lag == StripeInTime /\ RowsLag /\ EventsLag /\ TabsLag /\ SweepLags
PaidInv == TypeOK /\ Lag

(* A seller on trial, and nothing else, is a good start.                   *)
LEMMA InitPaid == Init => PaidInv
<1> SUFFICES ASSUME Init PROVE PaidInv
  OBVIOUS
<1>1. TypeOK
  BY NullTypes, TypeUnfolds, SubscriptionAssumption DEF Init
<1>2. StripeInTime /\ RowsLag /\ SweepLags
  BY SubscriptionAssumption DEF Init, StripeInTime, RowsLag, RowLags, SweepLags, NoSub, NoRow, Asleep
<1>3. EventsLag /\ TabsLag
  BY DEF Init, EventsLag, TabsLag, EventLags, TabLags, NoEvent, Idle
<1>4. QED
  BY <1>1, <1>2, <1>3 DEF PaidInv, Lag

(* What lags behind Stripe lags behind what Stripe holds later.            *)
LEMMA HeldGrows ==
  ASSUME PaidInv, stripe' \in [Subs -> Objects],
         \A r \in Subs : stripe[r].status # "none" => stripe'[r].status # "none",
         \A r \in Subs : stripe[r].period <= stripe'[r].period
  PROVE  /\ \A r, o : Copy(stripe, r, o) => Copy(stripe', r, o)
         /\ \A v : EventLags(stripe, v) => EventLags(stripe', v)
         /\ \A w : TabLags(stripe, w) => TabLags(stripe', w)
         /\ \A row \in RowType, s \in Subs : RowLags(stripe, row, s) => RowLags(stripe', row, s)
<1>1. \A r, o : Copy(stripe, r, o) => Copy(stripe', r, o)
  <2> SUFFICES ASSUME NEW r, NEW o, Copy(stripe, r, o) PROVE Copy(stripe', r, o)
    OBVIOUS
  <2>1. r \in Subs /\ o \in Objects /\ o.status # "none" /\ stripe[r].status # "none" /\ o.period <= stripe[r].period
    BY DEF Copy
  <2>2. o.period \in Nat /\ stripe[r].period \in Nat /\ stripe'[r].period \in Nat
    BY <2>1, TypeUnfolds, SubscriptionAssumption DEF PaidInv, Objects
  <2>3. QED
    BY <2>1, <2>2 DEF Copy
<1>2. \A v : EventLags(stripe, v) => EventLags(stripe', v)
  BY <1>1 DEF EventLags
<1>3. \A w : TabLags(stripe, w) => TabLags(stripe', w)
  BY <1>1 DEF TabLags
<1>4. \A row \in RowType, s \in Subs : RowLags(stripe, row, s) => RowLags(stripe', row, s)
  <2> SUFFICES ASSUME NEW row \in RowType, NEW s \in Subs, RowLags(stripe, row, s), row.status # "none"
               PROVE  stripe'[s].status # "none" /\ (row.made \/ row.end <= stripe'[s].period)
    BY DEF RowLags
  <2>1. stripe[s].status # "none" /\ (row.made \/ row.end <= stripe[s].period)
    BY DEF RowLags
  <2>2. row.end \in Nat /\ stripe[s].period \in Nat /\ stripe'[s].period \in Nat
        /\ stripe[s].period <= stripe'[s].period
    BY TypeUnfolds, SubscriptionAssumption DEF PaidInv, Objects, RowType
  <2>3. CASE row.made
    BY <2>1, <2>3
  <2>4. CASE row.end <= stripe[s].period
    BY <2>1, <2>2, <2>4
  <2>5. QED
    BY <2>1, <2>3, <2>4
<1>5. QED
  BY <1>1, <1>2, <1>3, <1>4

(* Steps of Stripe on one subscription that keep or advance its period,    *)
(* and leave every tab but those that paid for it as it is.                *)
LEMMA StripeMoves ==
  ASSUME PaidInv, NEW s \in Subs, NEW object \in Objects,
         object.status # "none", stripe[s].period <= object.period, object.period <= now,
         Becomes(s, object), tab' \in [Tabs -> TabType],
         \A t \in Tabs : \/ tab'[t] = tab[t] \/ tab'[t].pc = "off"
                         \/ tab'[t].pc = "paid" /\ tab'[t].sub = s
  PROVE  PaidInv'
<1>1. stripe \in [Subs -> Objects] /\ now \in 0..MaxPeriods /\ event \in [Events -> EventType]
      /\ rows \in [Subs -> RowType] /\ trial \in {"trialing", "ended"} /\ sweep \in SweepType
      /\ credits \in [Events -> {0, 1}]
  BY TypeUnfolds DEF PaidInv
<1>2. StripeInTime /\ RowsLag /\ EventsLag /\ TabsLag /\ SweepLags
  BY DEF PaidInv, Lag
<1>3. stripe' = [stripe EXCEPT ![s] = object]
      /\ Reports("subscription", s, object) /\ now' = now /\ rows' = rows /\ trial' = trial /\ sweep' = sweep
      /\ credits' = credits
  BY DEF Becomes
<1>4. stripe' \in [Subs -> Objects] /\ stripe'[s] = object /\ \A r \in Subs \ {s} : stripe'[r] = stripe[r]
  BY <1>1, <1>3
<1>5. event' \in [Events -> EventType]
  BY <1>3, ReportType DEF PaidInv
<1>6. \A r \in Subs : stripe[r].period \in Nat /\ stripe'[r].period \in Nat
  BY <1>1, <1>4, SubscriptionAssumption DEF Objects
<1>7. /\ \A r \in Subs : stripe[r].status # "none" => stripe'[r].status # "none"
      /\ \A r \in Subs : stripe[r].period <= stripe'[r].period
  BY <1>4, <1>6
<1>8. /\ \A r, o : Copy(stripe, r, o) => Copy(stripe', r, o)
      /\ \A v : EventLags(stripe, v) => EventLags(stripe', v)
      /\ \A w : TabLags(stripe, w) => TabLags(stripe', w)
      /\ \A row \in RowType, r \in Subs : RowLags(stripe, row, r) => RowLags(stripe', row, r)
  BY <1>4, <1>7, HeldGrows
<1>9. Copy(stripe', s, object)
  BY <1>4, <1>6 DEF Copy
<1>10. StripeInTime'
  BY <1>2, <1>3, <1>4 DEF StripeInTime
<1>11. RowsLag'
  BY <1>1, <1>2, <1>3, <1>8 DEF RowsLag
<1>12. EventsLag'
  <2> SUFFICES ASSUME NEW f \in Events PROVE EventLags(stripe', event'[f])
    BY DEF EventsLag
  <2> DEFINE sent == [NoEvent EXCEPT !.kind = "subscription", !.sub = s, !.object = object]
  <2>1. event'[f] = event[f] \/ event'[f] = sent
    BY <1>1, <1>3 DEF Reports
  <2>2. EventLags(stripe', event[f])
    BY <1>2, <1>8 DEF EventsLag
  <2>3. EventLags(stripe', sent)
    BY <1>9 DEF EventLags, NoEvent
  <2>4. QED
    BY <2>1, <2>2, <2>3
<1>13. TabsLag'
  <2> SUFFICES ASSUME NEW t \in Tabs PROVE TabLags(stripe', tab'[t])
    BY DEF TabsLag
  <2>1. CASE tab'[t] = tab[t]
    BY <1>2, <1>8, <2>1 DEF TabsLag
  <2>2. CASE tab'[t].pc = "off"
    BY <2>2 DEF TabLags
  <2>3. CASE tab'[t].pc = "paid" /\ tab'[t].sub = s
    BY <1>4, <2>3 DEF TabLags
  <2>4. QED
    BY <2>1, <2>2, <2>3
<1>14. SweepLags'
  BY <1>1, <1>2, <1>3, <1>7, <1>8 DEF SweepLags, SweepType
<1>15. TypeOK'
  BY <1>1, <1>3, <1>4, <1>5, TypeFolds
<1>16. QED
  BY <1>10, <1>11, <1>12, <1>13, <1>14, <1>15 DEF PaidInv, Lag

(* Every step of Stripe and of the calendar.                               *)
LEMMA StripeStep == PaidInv /\ Stripe => PaidInv'
<1> SUFFICES ASSUME PaidInv, Stripe PROVE PaidInv'
  OBVIOUS
<1>1. /\ now \in 0..MaxPeriods /\ stripe \in [Subs -> Objects] /\ event \in [Events -> EventType]
      /\ rows \in [Subs -> RowType] /\ trial \in {"trialing", "ended"} /\ tab \in [Tabs -> TabType]
      /\ sweep \in SweepType /\ credits \in [Events -> {0, 1}]
  BY TypeUnfolds DEF PaidInv
<1>2. StripeInTime /\ RowsLag /\ EventsLag /\ TabsLag /\ SweepLags
  BY DEF PaidInv, Lag
<1>3. CASE NextPeriod
  <2>1. now' \in 0..MaxPeriods /\ now <= now'
    BY <1>1, <1>3, SubscriptionAssumption DEF NextPeriod
  <2>2. stripe' = stripe /\ event' = event /\ rows' = rows /\ trial' = trial /\ tab' = tab /\ sweep' = sweep
        /\ credits' = credits
    BY <1>3 DEF NextPeriod
  <2>3. StripeInTime'
    <3> SUFFICES ASSUME NEW s \in Subs PROVE stripe[s].period <= now'
      BY <2>2 DEF StripeInTime
    <3>1. stripe[s].period <= now /\ stripe[s].period \in Nat /\ now \in Nat /\ now' \in Nat
      BY <1>1, <1>2, <2>1, SubscriptionAssumption DEF StripeInTime, Objects
    <3>2. QED
      BY <3>1, <2>1
  <2>4. TypeOK'
    BY <1>1, <2>1, <2>2, TypeFolds
  <2>5. EventsLag' /\ TabsLag' /\ SweepLags'
    BY <1>2, <2>2 DEF EventsLag, TabsLag, SweepLags
  <2>6. RowsLag'
    <3> SUFFICES ASSUME NEW s \in Subs PROVE RowLags(stripe, rows[s], s) /\ rows[s].start <= now'
      BY <2>2 DEF RowsLag
    <3>1. RowLags(stripe, rows[s], s) /\ rows[s].start <= now
      BY <1>2 DEF RowsLag
    <3>2. rows[s].start \in Nat /\ now \in Nat /\ now' \in Nat
      BY <1>1, <2>1, SubscriptionAssumption DEF RowType
    <3>3. QED
      BY <2>1, <3>1, <3>2
  <2>7. QED
    BY <2>3, <2>4, <2>5, <2>6 DEF PaidInv, Lag
<1>4. CASE BuysTopUp
  <2>1. Reports("topup", "none", NoSub) /\ now' = now /\ stripe' = stripe /\ rows' = rows /\ trial' = trial
        /\ tab' = tab /\ sweep' = sweep /\ credits' = credits
    BY <1>4 DEF BuysTopUp
  <2>2. event' \in [Events -> EventType]
    BY <2>1, ReportType, NullTypes DEF PaidInv
  <2>3. EventsLag'
    <3> SUFFICES ASSUME NEW f \in Events PROVE EventLags(stripe, event'[f])
      BY <2>1 DEF EventsLag
    <3> DEFINE sent == [NoEvent EXCEPT !.kind = "topup", !.sub = "none", !.object = NoSub]
    <3>1. event'[f] = event[f] \/ event'[f] = sent
      BY <1>1, <2>1 DEF Reports
    <3>2. EventLags(stripe, event[f])
      BY <1>2 DEF EventsLag
    <3>3. EventLags(stripe, sent)
      BY DEF EventLags, NoEvent
    <3>4. QED
      BY <3>1, <3>2, <3>3
  <2>4. TypeOK'
    BY <1>1, <2>1, <2>2, TypeFolds
  <2>5. StripeInTime' /\ RowsLag' /\ TabsLag' /\ SweepLags'
    BY <1>2, <2>1 DEF StripeInTime, RowsLag, TabsLag, SweepLags
  <2>6. QED
    BY <2>3, <2>4, <2>5 DEF PaidInv, Lag
<1>5. ASSUME NEW s \in Subs, PeriodTurns(s) \/ PaymentFails(s) \/ PaymentArrives(s) \/ Cancels(s)
      PROVE  PaidInv'
  <2>1. stripe[s] \in Objects /\ stripe[s].period <= now /\ stripe[s].period \in Nat /\ now \in Nat
    BY <1>1, <1>2, SubscriptionAssumption DEF StripeInTime, Objects
  <2>2. tab' = tab
    BY <1>5 DEF PeriodTurns, PaymentFails, PaymentArrives, Cancels
  <2>3. CASE PeriodTurns(s)
    <3> DEFINE object == [stripe[s] EXCEPT !.period = now]
    <3>1. object \in Objects /\ object.period = now /\ object.status = stripe[s].status
      BY <2>1, <1>1 DEF Objects
    <3>2. Becomes(s, object) /\ stripe[s].status # "none"
      BY <2>3 DEF PeriodTurns, Live
    <3> HIDE DEF object
    <3>3. QED
      BY <1>1, <2>1, <2>2, <3>1, <3>2, StripeMoves
  <2>4. ASSUME NEW st \in {"past_due", "active", "canceled"}, Becomes(s, [stripe[s] EXCEPT !.status = st])
        PROVE  PaidInv'
    <3> DEFINE object == [stripe[s] EXCEPT !.status = st]
    <3>1. object \in Objects /\ object.status = st /\ object.period = stripe[s].period
      BY <2>1 DEF Objects, Status
    <3>2. Becomes(s, object)
      BY <2>4
    <3> HIDE DEF object
    <3>3. QED
      BY <1>1, <2>1, <2>2, <3>1, <3>2, StripeMoves
  <2>5. QED
    BY <1>5, <2>3, <2>4 DEF PaymentFails, PaymentArrives, Cancels
<1>6. QED
  BY <1>3, <1>4, <1>5 DEF Stripe

-----------------------------------------------------------------------------
(* Writing a copy of what Stripe holds, or held, keeps the rows behind it. *)
LEMMA UpsertLags ==
  ASSUME PaidInv, NEW s, NEW object, Copy(stripe, s, object), Upsert(s, object), stripe' = stripe, now' = now
  PROVE  rows' \in [Subs -> RowType] /\ RowsLag'
<1>1. s \in Subs /\ object \in Objects /\ stripe[s].status # "none" /\ object.period <= stripe[s].period
  BY DEF Copy
<1>2. rows \in [Subs -> RowType] /\ TypeOK /\ RowsLag /\ stripe[s].period <= now
  BY <1>1, TypeUnfolds DEF PaidInv, Lag, StripeInTime
<1>3. /\ rows' \in [Subs -> RowType] /\ \A r \in Subs \ {s} : rows'[r] = rows[r]
      /\ rows'[s].status = object.status /\ (rows'[s].made \/ rows'[s].end = object.period)
      /\ rows'[s].start \in {rows[s].start, object.period, now}
  BY <1>1, <1>2, UpsertType
<1>4. RowLags(stripe, rows'[s], s)
  BY <1>1, <1>3 DEF RowLags
<1>5. rows'[s].start <= now
  <2>1. object.period \in Nat /\ stripe[s].period \in Nat /\ now \in Nat
    BY <1>1, TypeUnfolds, SubscriptionAssumption DEF PaidInv, Objects
  <2>2. rows[s].start <= now /\ object.period <= now /\ now <= now
    BY <1>1, <1>2, <2>1 DEF RowsLag
  <2>3. QED
    BY <1>3, <2>2
<1>6. RowsLag'
  BY <1>2, <1>3, <1>4, <1>5 DEF RowsLag
<1>7. QED
  BY <1>3, <1>6

(* One webhook moves on, and is still a webhook.                           *)
LEMMA WebhookMoves ==
  ASSUME PaidInv, NEW e \in Events, NEW v \in EventType, event' = [event EXCEPT ![e] = v], stripe' = stripe,
         EventLags(stripe, v)
  PROVE  event' \in [Events -> EventType] /\ EventsLag'
<1>1. event \in [Events -> EventType]
  BY TypeUnfolds DEF PaidInv
<1>2. EventsLag
  BY DEF PaidInv, Lag
<1>3. QED
  BY <1>1, <1>2 DEF EventsLag

(* Every step of a webhook.                                                *)
LEMMA WebhookStep == ASSUME PaidInv, NEW e \in Events, Webhook(e) PROVE PaidInv'
<1>1. /\ now \in 0..MaxPeriods /\ stripe \in [Subs -> Objects] /\ event \in [Events -> EventType]
      /\ rows \in [Subs -> RowType] /\ trial \in {"trialing", "ended"} /\ tab \in [Tabs -> TabType]
      /\ sweep \in SweepType /\ credits \in [Events -> {0, 1}]
  BY TypeUnfolds DEF PaidInv
<1>2. StripeInTime /\ RowsLag /\ TabsLag /\ SweepLags
  BY DEF PaidInv, Lag
<1>3. event[e] \in EventType /\ EventLags(stripe, event[e])
  BY <1>1 DEF PaidInv, Lag, EventsLag
<1>4. now' = now /\ stripe' = stripe /\ tab' = tab /\ sweep' = sweep
  BY DEF Webhook, Deliver, DropStale, WebhookEndsTrial, WebhookUpserts, GrantCredit, MarkProcessed, WebhookFails
<1>5. trial' \in {"trialing", "ended"}
  BY <1>1 DEF Webhook, Deliver, DropStale, WebhookEndsTrial, WebhookUpserts, GrantCredit, MarkProcessed, WebhookFails, EndTrial
<1>6. credits' \in [Events -> {0, 1}]
  BY <1>1 DEF Webhook, Deliver, DropStale, WebhookEndsTrial, WebhookUpserts, GrantCredit, MarkProcessed, WebhookFails
<1>7. rows' \in [Subs -> RowType] /\ RowsLag'
  <2>1. CASE WebhookUpserts(e)
    <3>1. Upsert(event[e].sub, event[e].object) /\ event[e].pc = "upsert"
      BY <2>1 DEF WebhookUpserts
    <3>2. Copy(stripe, event[e].sub, event[e].object)
      BY <1>3, <3>1 DEF EventLags
    <3>3. QED
      BY <1>4, <3>1, <3>2, UpsertLags
  <2>2. CASE ~WebhookUpserts(e)
    <3>1. rows' = rows
      BY <2>2 DEF Webhook, Deliver, DropStale, WebhookEndsTrial, GrantCredit, MarkProcessed, WebhookFails
    <3>2. QED
      BY <1>1, <1>2, <1>4, <3>1 DEF RowsLag
  <2>3. QED
    BY <2>1, <2>2
<1>8. event' \in [Events -> EventType] /\ EventsLag'
  <2>1. CASE Deliver(e)
    <3> DEFINE pc == IF event[e].kind = "topup" THEN "grant" ELSE "trial"
    <3> DEFINE v == [event[e] EXCEPT !.inbox = "processing", !.pc = pc]
    <3>1. event' = [event EXCEPT ![e] = v] /\ event[e].kind # "none" /\ event[e].inbox = "received"
      BY <1>1, <2>1 DEF Deliver
    <3>2. v \in EventType /\ v.kind = event[e].kind /\ v.sub = event[e].sub /\ v.object = event[e].object
          /\ v.inbox = "processing" /\ v.pc = pc
      BY <1>3 DEF EventType
    <3>3. EventLags(stripe, v)
      BY <1>3, <3>1, <3>2 DEF EventLags, EventType
    <3> HIDE DEF v
    <3>4. QED
      BY <1>4, <3>1, <3>2, <3>3, WebhookMoves
  <2>2. CASE Closes(e)
    <3> DEFINE v == [NoEvent EXCEPT !.kind = event[e].kind, !.inbox = "closed"]
    <3>1. v \in EventType /\ EventLags(stripe, v)
      BY <1>3, EventUpdate DEF EventLags, NoEvent
    <3>2. event' = [event EXCEPT ![e] = v]
      BY <2>2 DEF Closes
    <3> HIDE DEF v
    <3>3. QED
      BY <1>4, <3>1, <3>2, WebhookMoves
  <2>3. CASE WebhookEndsTrial(e) \/ WebhookUpserts(e) \/ GrantCredit(e)
    <3>1. PICK pc \in {"upsert", "mark"} :
            /\ Goes(e, pc) /\ event[e].pc # "off"
            /\ pc = "upsert" => event[e].pc = "trial"
      BY <2>3 DEF WebhookEndsTrial, WebhookUpserts, GrantCredit
    <3> DEFINE v == [event[e] EXCEPT !.pc = pc]
    <3>2. v \in EventType
      BY <1>3, EventUpdate
    <3>3. EventLags(stripe, v)
      <4>1. v.kind = event[e].kind /\ v.sub = event[e].sub /\ v.object = event[e].object
            /\ v.inbox = event[e].inbox /\ v.pc = pc
        BY <1>3 DEF EventType
      <4>2. QED
        BY <1>3, <3>1, <4>1 DEF EventLags
    <3>4. event' = [event EXCEPT ![e] = v]
      BY <1>1, <3>1 DEF Goes
    <3> HIDE DEF v
    <3>5. QED
      BY <1>4, <3>2, <3>3, <3>4, WebhookMoves
  <2>4. CASE event' = [event EXCEPT ![e].inbox = "received", ![e].pc = "off"] /\ event[e].pc # "off"
    <3> DEFINE v == [event[e] EXCEPT !.inbox = "received", !.pc = "off"]
    <3>1. v \in EventType /\ v.kind = event[e].kind /\ v.sub = event[e].sub /\ v.object = event[e].object
          /\ v.inbox = "received" /\ v.pc = "off"
      BY <1>3 DEF EventType
    <3>2. EventLags(stripe, v)
      BY <1>3, <2>4, <3>1 DEF EventLags
    <3>3. event' = [event EXCEPT ![e] = v]
      BY <1>1, <2>4
    <3> HIDE DEF v
    <3>4. QED
      BY <1>4, <3>1, <3>2, <3>3, WebhookMoves
  <2>5. QED
    BY <2>1, <2>2, <2>3, <2>4 DEF Webhook, DropStale, MarkProcessed, WebhookFails
<1>9. TypeOK'
  BY <1>1, <1>4, <1>5, <1>6, <1>7, <1>8, TypeFolds
<1>10. StripeInTime' /\ TabsLag' /\ SweepLags'
  BY <1>2, <1>4 DEF StripeInTime, TabsLag, SweepLags
<1>11. QED
  BY <1>7, <1>8, <1>9, <1>10 DEF PaidInv, Lag

-----------------------------------------------------------------------------
(* One tab moves on, and is still a tab.                                   *)
LEMMA TabMoves ==
  ASSUME PaidInv, NEW t \in Tabs, NEW w \in TabType, tab' = [tab EXCEPT ![t] = w], stripe' = stripe,
         TabLags(stripe, w)
  PROVE  tab' \in [Tabs -> TabType] /\ TabsLag'
<1>1. tab \in [Tabs -> TabType] /\ TabsLag
  BY TypeUnfolds DEF PaidInv, Lag
<1>2. QED
  BY <1>1 DEF TabsLag

(* Every step of a checkout.                                               *)
LEMMA CheckoutStep == ASSUME PaidInv, NEW t \in Tabs, Checkout(t) PROVE PaidInv'
<1>1. /\ now \in 0..MaxPeriods /\ stripe \in [Subs -> Objects] /\ event \in [Events -> EventType]
      /\ rows \in [Subs -> RowType] /\ trial \in {"trialing", "ended"} /\ tab \in [Tabs -> TabType]
      /\ sweep \in SweepType /\ credits \in [Events -> {0, 1}]
  BY TypeUnfolds DEF PaidInv
<1>2. StripeInTime /\ RowsLag /\ EventsLag /\ SweepLags
  BY DEF PaidInv, Lag
<1>3. tab[t] \in TabType /\ TabLags(stripe, tab[t])
  BY <1>1 DEF PaidInv, Lag, TabsLag
<1>4. Idle \in TabType /\ Idle.pc = "off" /\ TabLags(stripe, Idle)
  BY NullTypes DEF Idle, TabLags
<1>5. ASSUME NEW s \in Subs, Pay(t, s) PROVE PaidInv'
  <2> DEFINE object == [status |-> "active", period |-> now]
  <2>1. object \in Objects /\ object.status # "none" /\ object.period = now
    BY <1>1 DEF Objects, Status
  <2>2. Becomes(s, object)
    BY <1>5 DEF Pay
  <2>3. stripe[s].period <= now
    BY <1>2 DEF StripeInTime
  <2>4. now <= now
    BY <1>1, SubscriptionAssumption
  <2> DEFINE w == [Idle EXCEPT !.pc = "paid", !.sub = s]
  <2>5. w \in TabType /\ w.pc = "paid" /\ w.sub = s
    BY NullTypes DEF TabType, Idle
  <2>6. tab' = [tab EXCEPT ![t] = w] \/ tab' = [tab EXCEPT ![t] = Idle]
    BY <1>5 DEF Pay
  <2> HIDE DEF object, w
  <2>7. tab' \in [Tabs -> TabType]
        /\ \A u \in Tabs : tab'[u] = tab[u] \/ tab'[u].pc = "off" \/ (tab'[u].pc = "paid" /\ tab'[u].sub = s)
    <3>1. ASSUME NEW z \in {w, Idle}, tab' = [tab EXCEPT ![t] = z]
          PROVE  /\ tab' \in [Tabs -> TabType] /\ tab'[t] = z
                 /\ \A u \in Tabs \ {t} : tab'[u] = tab[u]
      <4>1. z \in TabType
        BY <1>4, <2>5
      <4>2. QED
        BY <1>1, <3>1, <4>1
    <3>2. QED
      BY <1>4, <2>5, <2>6, <3>1
  <2>8. QED
    BY <2>1, <2>2, <2>3, <2>4, <2>7, StripeMoves
<1>6. CASE OpenCheckout(t) \/ ReadSession(t) \/ Confirm(t) \/ CloseTab(t)
  <2>1. now' = now /\ stripe' = stripe /\ event' = event /\ sweep' = sweep /\ credits' = credits
    BY <1>6 DEF OpenCheckout, ReadSession, Confirm, CloseTab
  <2>2. trial' \in {"trialing", "ended"}
    BY <1>1, <1>6 DEF OpenCheckout, ReadSession, Confirm, CloseTab, EndTrial
  <2>3. rows' \in [Subs -> RowType] /\ RowsLag'
    <3>1. CASE Confirm(t)
      <4>1. Copy(stripe, tab[t].sub, tab[t].object) /\ Upsert(tab[t].sub, tab[t].object)
        BY <1>3, <3>1 DEF Confirm, TabLags
      <4>2. QED
        BY <2>1, <4>1, UpsertLags
    <3>2. CASE rows' = rows
      BY <1>1, <1>2, <2>1, <3>2 DEF RowsLag
    <3>3. QED
      BY <1>6, <3>1, <3>2 DEF OpenCheckout, ReadSession, CloseTab
  <2>4. tab' \in [Tabs -> TabType] /\ TabsLag'
    <3>1. CASE OpenCheckout(t)
      <4> DEFINE w == [tab[t] EXCEPT !.pc = "open"]
      <4>1. tab' = [tab EXCEPT ![t] = w]
        BY <1>1, <3>1 DEF OpenCheckout
      <4>2. w \in TabType /\ w.pc = "open"
        BY <1>3 DEF TabType
      <4>3. TabLags(stripe, w)
        BY <4>2 DEF TabLags
      <4> HIDE DEF w
      <4>4. QED
        BY <2>1, <4>1, <4>2, <4>3, TabMoves
    <3>2. CASE ReadSession(t)
      <4> DEFINE w == [tab[t] EXCEPT !.pc = "confirm", !.object = stripe[tab[t].sub]]
      <4>1. tab' = [tab EXCEPT ![t] = w]
        BY <1>1, <3>2 DEF ReadSession
      <4>2. tab[t].sub \in Subs /\ stripe[tab[t].sub] \in Objects /\ stripe[tab[t].sub].status # "none"
        BY <1>1, <1>3, <3>2 DEF ReadSession, TabLags
      <4>3. w \in TabType /\ w.pc = "confirm" /\ w.sub = tab[t].sub /\ w.object = stripe[tab[t].sub]
        BY <1>3, <4>2 DEF TabType
      <4>4. stripe[tab[t].sub].period \in Nat
        BY <4>2, SubscriptionAssumption DEF Objects
      <4>5. Copy(stripe, tab[t].sub, stripe[tab[t].sub])
        BY <4>2, <4>4 DEF Copy
      <4>6. TabLags(stripe, w)
        BY <4>3, <4>5 DEF TabLags
      <4> HIDE DEF w
      <4>7. QED
        BY <2>1, <4>1, <4>3, <4>6, TabMoves
    <3>3. CASE tab' = [tab EXCEPT ![t] = Idle]
      BY <1>4, <2>1, <3>3, TabMoves
    <3>4. QED
      BY <1>6, <3>1, <3>2, <3>3 DEF Confirm, CloseTab
  <2>5. TypeOK'
    BY <1>1, <2>1, <2>2, <2>3, <2>4, TypeFolds
  <2>6. StripeInTime' /\ EventsLag' /\ SweepLags'
    BY <1>2, <2>1 DEF StripeInTime, EventsLag, SweepLags
  <2>7. QED
    BY <2>3, <2>4, <2>5, <2>6 DEF PaidInv, Lag
<1>7. QED
  BY <1>5, <1>6 DEF Checkout

(* Every step of the hourly jobs.  The reconcile reads a subscription that *)
(* Stripe holds: it knows the row, or has found a live one.                *)
SweepSteps ==
  \/ SweepStarts \/ SweepFails \/ SweepEnds \/ ExpireTrials
  \/ \E s \in Subs : SweepReads(s) \/ Recovers(s) \/ SweepWrites(s)

LEMMA SweepStep == ASSUME PaidInv, SweepSteps PROVE PaidInv'
<1>1. /\ now \in 0..MaxPeriods /\ stripe \in [Subs -> Objects] /\ event \in [Events -> EventType]
      /\ rows \in [Subs -> RowType] /\ trial \in {"trialing", "ended"} /\ tab \in [Tabs -> TabType]
      /\ sweep \in SweepType /\ credits \in [Events -> {0, 1}]
  BY TypeUnfolds DEF PaidInv
<1>2. StripeInTime /\ RowsLag /\ EventsLag /\ TabsLag /\ SweepLags
  BY DEF PaidInv, Lag
<1>3. now' = now /\ stripe' = stripe /\ event' = event /\ tab' = tab /\ credits' = credits
  BY DEF SweepSteps, SweepStarts, SweepReads, Recovers, SweepWrites, SweepFails, SweepEnds, ExpireTrials
<1>4. trial' \in {"trialing", "ended"}
  BY <1>1 DEF SweepSteps, SweepStarts, SweepReads, Recovers, SweepWrites, SweepFails, SweepEnds, ExpireTrials,
              EndTrial
<1>5. rows' \in [Subs -> RowType] /\ RowsLag'
  <2>1. ASSUME NEW s \in Subs, SweepWrites(s) PROVE rows' \in [Subs -> RowType] /\ RowsLag'
    <3>1. Copy(stripe, s, sweep.object) /\ Upsert(s, sweep.object)
      BY <1>2, <2>1 DEF SweepWrites, SweepLags
    <3>2. QED
      BY <1>3, <3>1, UpsertLags
  <2>2. CASE rows' = rows
    BY <1>1, <1>2, <1>3, <2>2 DEF RowsLag
  <2>3. QED
    BY <2>1, <2>2 DEF SweepSteps, SweepStarts, SweepReads, Recovers, SweepFails, SweepEnds, ExpireTrials
<1>6. sweep.todo \in SUBSET Subs /\ Asleep \in SweepType
      /\ \A s \in Subs : stripe[s] \in Objects /\ stripe[s].period \in Nat
  BY <1>1, NullTypes, SubscriptionAssumption DEF SweepType, Objects
<1>7. sweep' \in SweepType /\ SweepLags'
  <2>1. ASSUME NEW todo \in SUBSET Subs, \A s \in todo : stripe[s].status # "none",
               sweep' = [Asleep EXCEPT !.pc = "rows", !.todo = todo]
        PROVE  sweep' \in SweepType /\ SweepLags'
    <3>1. sweep' \in SweepType /\ sweep'.todo = todo /\ sweep'.pc = "rows"
      BY <1>6, <2>1 DEF SweepType, Asleep
    <3>2. QED
      BY <1>3, <2>1, <3>1 DEF SweepLags
  <2>2. ASSUME NEW s \in Subs, NEW todo \in SUBSET Subs, \A r \in todo : stripe[r].status # "none",
               stripe[s].status # "none", sweep' = [pc |-> "write", todo |-> todo, sub |-> s, object |-> stripe[s]]
        PROVE  sweep' \in SweepType /\ SweepLags'
    <3>1. sweep' \in SweepType
      BY <1>6, <2>2 DEF SweepType
    <3>2. Copy(stripe, s, stripe[s])
      BY <1>6, <2>2 DEF Copy
    <3>3. QED
      BY <1>3, <2>2, <3>1, <3>2 DEF SweepLags
  <2>3. CASE sweep' = Asleep
    BY <1>6, <2>3 DEF SweepLags, Asleep
  <2>4. CASE SweepStarts
    <3>1. PICK picked \in Picks : sweep' = [Asleep EXCEPT !.pc = "rows", !.todo = picked]
      BY <2>4 DEF SweepStarts
    <3>2. picked \in SUBSET Subs /\ \A s \in picked : stripe[s].status # "none"
      BY <1>2 DEF Picks, AtRisk, Known, RowsLag, RowLags
    <3>3. QED
      BY <2>1, <3>1, <3>2
  <2>5. ASSUME NEW s \in Subs, SweepReads(s) PROVE sweep' \in SweepType /\ SweepLags'
    <3>1. /\ s \in sweep.todo /\ sweep.todo \ {s} \in SUBSET Subs
          /\ sweep' = [pc |-> "write", todo |-> sweep.todo \ {s}, sub |-> s, object |-> stripe[s]]
      BY <1>6, <2>5 DEF SweepReads
    <3>2. \A r \in sweep.todo : stripe[r].status # "none"
      BY <1>2 DEF SweepLags
    <3>3. QED
      BY <2>2, <3>1, <3>2
  <2>6. ASSUME NEW s \in Subs, Recovers(s) PROVE sweep' \in SweepType /\ SweepLags'
    <3>1. sweep' = [pc |-> "write", todo |-> {}, sub |-> s, object |-> stripe[s]] /\ stripe[s].status # "none"
      BY <2>6 DEF Recovers, Live
    <3>2. QED
      BY <2>2, <3>1
  <2>7. CASE sweep' = [Asleep EXCEPT !.pc = "rows", !.todo = sweep.todo]
    BY <1>2, <1>6, <2>1, <2>7 DEF SweepLags
  <2>8. CASE SweepFails
    <3>1. CASE sweep.pc = "rows" /\ \E s \in sweep.todo : sweep' = [sweep EXCEPT !.todo = @ \ {s}]
      <4>1. PICK s \in sweep.todo : sweep' = [sweep EXCEPT !.todo = @ \ {s}]
        BY <3>1
      <4>2. sweep' \in SweepType /\ sweep'.todo = sweep.todo \ {s} /\ sweep'.pc = "rows"
        BY <1>1, <3>1, <4>1 DEF SweepType
      <4>3. QED
        BY <1>2, <1>3, <4>2 DEF SweepLags
    <3>2. QED
      BY <2>3, <2>7, <2>8, <3>1 DEF SweepFails
  <2>9. CASE ExpireTrials
    BY <1>1, <1>2, <1>3, <2>9 DEF ExpireTrials, SweepLags
  <2>10. QED
    BY <2>3, <2>4, <2>5, <2>6, <2>7, <2>8, <2>9 DEF SweepSteps, SweepWrites, SweepEnds
<1>8. TypeOK'
  BY <1>1, <1>3, <1>4, <1>5, <1>7, TypeFolds
<1>9. StripeInTime' /\ EventsLag' /\ TabsLag'
  BY <1>2, <1>3 DEF StripeInTime, EventsLag, TabsLag
<1>10. QED
  BY <1>5, <1>7, <1>8, <1>9 DEF PaidInv, Lag

(* The invariant is inductive.                                             *)
LEMMA NextPaid == PaidInv /\ [Next]_vars => PaidInv'
<1> SUFFICES ASSUME PaidInv, [Next]_vars PROVE PaidInv'
  OBVIOUS
<1>1. CASE Stripe
  BY <1>1, StripeStep
<1>2. CASE SweepSteps
  BY <1>2, SweepStep
<1>3. ASSUME NEW e \in Events, Webhook(e) PROVE PaidInv'
  BY <1>3, WebhookStep
<1>4. ASSUME NEW t \in Tabs, Checkout(t) PROVE PaidInv'
  BY <1>4, CheckoutStep
<1>5. CASE UNCHANGED vars
  <2>1. /\ now' = now /\ stripe' = stripe /\ event' = event /\ rows' = rows /\ trial' = trial
        /\ tab' = tab /\ sweep' = sweep /\ credits' = credits
    BY <1>5 DEF vars
  <2>2. TypeOK'
    BY <2>1 DEF PaidInv, TypeOK
  <2>3. Lag'
    BY <2>1 DEF PaidInv, Lag, StripeInTime, RowsLag, EventsLag, TabsLag, SweepLags
  <2>4. QED
    BY <2>2, <2>3 DEF PaidInv
<1>6. QED
  BY <1>1, <1>2, <1>3, <1>4, <1>5 DEF Next, SweepSteps

LEMMA AlwaysPaid == Spec => []PaidInv
BY InitPaid, NextPaid, PTL DEF Spec

(* The records of the subscription keep their types: TypeOK.               *)
THEOREM TypeCorrect == Spec => []TypeOK
<1>1. PaidInv => TypeOK
  BY DEF PaidInv
<1>2. QED
  BY <1>1, AlwaysPaid, PTL

(* Nobody is served on a row alone, however reports are lost, repeated and *)
(* reordered: the row that entitles reaches into the present period, and   *)
(* then Stripe has, or the end was made up; or it ends before it starts,   *)
(* and then it ended before today and the reconcile reads it.              *)
THEOREM ServedInside == Spec => []ServedInsidePeriod
<1>1. PaidInv => ServedInsidePeriod
  <2> SUFFICES ASSUME PaidInv, Entitled, Known # {}
               PROVE  \E s \in Current : /\ rows[s].status = "active"
                                        /\ \/ stripe[s].period = now
                                           \/ rows[s].made
                                           \/ Malformed(s) /\ s \in AtRisk
    BY DEF ServedInsidePeriod, Entitled
  <2>1. PICK s \in Current : rows[s].status = "active" /\ (now <= rows[s].end \/ Malformed(s))
    BY DEF Entitled
  <2>2. s \in Known /\ s \in Subs
    BY DEF Current, Known
  <2>3. /\ rows[s].made \/ rows[s].end <= stripe[s].period
        /\ stripe[s].period <= now /\ rows[s].start <= now
    BY <2>1, <2>2 DEF PaidInv, Lag, RowsLag, RowLags, StripeInTime
  <2>4. stripe[s].period \in Nat /\ rows[s].end \in Nat /\ rows[s].start \in Nat /\ now \in Nat
    BY <2>2, TypeUnfolds, SubscriptionAssumption DEF PaidInv, Objects, RowType
  <2>5. CASE Malformed(s)
    <3>1. rows[s].end < now
      BY <2>3, <2>4, <2>5 DEF Malformed
    <3>2. s \in AtRisk
      BY <2>2, <3>1 DEF AtRisk
    <3>3. QED
      BY <2>1, <2>5, <3>2
  <2>6. CASE rows[s].made
    BY <2>1, <2>6
  <2>7. CASE now <= rows[s].end /\ rows[s].end <= stripe[s].period
    <3>1. stripe[s].period = now
      BY <2>3, <2>4, <2>7
    <3>2. QED
      BY <2>1, <3>1
  <2>8. QED
    BY <2>1, <2>3, <2>5, <2>6, <2>7
<1>2. QED
  BY <1>1, AlwaysPaid, PTL
=============================================================================
