---------------------------- MODULE Subscription ----------------------------
(***************************************************************************)
(* What one seller has paid for: the subscriptions Stripe holds, the local *)
(* rows that follow them by webhook, by the return page of the checkout    *)
(* and by the hourly reconcile, the local trial, and the entitlement that  *)
(* is resolved from the rows whenever it is asked for.                     *)
(* Time is counted in billing periods; the grace of a late webhook is left *)
(* out, so a row past its period counts as unpaid at once.                 *)
(***************************************************************************)
EXTENDS Naturals, FiniteSets

CONSTANTS
  Subs,           \* subscriptions Stripe may come to hold
  Tabs,           \* browser tabs that may open a checkout
  MaxPeriods,     \* bound: periods
  MaxEvents,      \* bound: webhooks Stripe sends; all others are lost
  TopUps,         \* TRUE: the seller may buy quota
  Itemless,       \* TRUE: a payload of Stripe may lack the period
  Limit           \* how many rows the reconcile reads at most in one run

ASSUME SubscriptionAssumption ==
  /\ IsFiniteSet(Subs) /\ IsFiniteSet(Tabs)
  /\ MaxPeriods \in Nat /\ MaxEvents \in Nat
  /\ TopUps \in BOOLEAN /\ Itemless \in BOOLEAN /\ Limit \in Nat

Events == 1..MaxEvents
TrialEnd == 1           \* the trial is over when period 1 begins
Status == {"none", "active", "past_due", "canceled"}

VARIABLES
  now,        \* the present period
  stripe,     \* Stripe: status and period of each subscription
  event,      \* webhooks: the object each carries, the inbox status, its handler
  rows,       \* billing_subscriptions that Stripe backs; "made" is no column,
              \* it remembers that the period was not in the payload
  trial,      \* the local trial row: "trialing" or "ended"
  tab,        \* checkouts
  sweep,      \* the reconcile job
  credits     \* quota credits granted for each webhook of a top-up

vars == <<now, stripe, event, rows, trial, tab, sweep, credits>>

NoSub == [status |-> "none", period |-> 0]
NoRow == [status |-> "none", start |-> 0, end |-> 0, made |-> FALSE]
NoEvent == [kind |-> "none", sub |-> "none", object |-> NoSub, inbox |-> "received", pc |-> "off"]
Idle == [pc |-> "off", sub |-> "none", object |-> NoSub]
Asleep == [pc |-> "off", todo |-> {}, sub |-> "none", object |-> NoSub]

Init ==
  /\ now = 0
  /\ stripe = [s \in Subs |-> NoSub]
  /\ event = [e \in Events |-> NoEvent]
  /\ rows = [s \in Subs |-> NoRow]
  /\ trial = "trialing"
  /\ tab = [t \in Tabs |-> Idle]
  /\ sweep = Asleep
  /\ credits = [e \in Events |-> 0]

-----------------------------------------------------------------------------
(* Entitlement, resolved at read time.                                     *)

Known == {s \in Subs : rows[s].status # "none"}
Rank(status) == CASE status = "active" -> 1 [] status = "past_due" -> 2 [] OTHER -> 3

(* findCurrentSubscription: a row Stripe backs outranks the trial, then by *)
(* status, then the later end.                                             *)
Current ==
  {s \in Known : \A t \in Known :
     \/ Rank(rows[s].status) < Rank(rows[t].status)
     \/ Rank(rows[s].status) = Rank(rows[t].status) /\ rows[s].end >= rows[t].end}

MutEntitled ==              \* mutant: the raw status, whatever the period
  IF Known = {} THEN trial = "trialing" /\ now < TrialEnd
  ELSE \E s \in Current : rows[s].status = "active"

(* A period that ends before it starts; a late report leaves one behind,   *)
(* because only the start is kept (GREATEST).                              *)
Malformed(s) == rows[s].end < rows[s].start

(* resolveEffectiveEntitlement and normalizeExpiredTrial.  A malformed     *)
(* period is replaced by the calendar month, which always holds today.     *)
Entitled ==
  IF Known = {} THEN trial = "trialing" /\ now < TrialEnd
  ELSE \E s \in Current : rows[s].status = "active" /\ (now <= rows[s].end \/ Malformed(s))

-----------------------------------------------------------------------------
(* Stripe.  Whatever it does to a subscription it reports by a webhook     *)
(* that carries the object as it is then; some are never delivered.        *)

Free == {e \in Events : event[e].kind = "none"}
Reports(kind, s, object) ==
  \/ UNCHANGED event
  \/ \E e \in Free :
       /\ \A f \in Free : e <= f
       /\ event' = [event EXCEPT ![e] = [NoEvent EXCEPT !.kind = kind, !.sub = s, !.object = object]]

Becomes(s, object) ==
  /\ stripe' = [stripe EXCEPT ![s] = object]
  /\ Reports("subscription", s, object)
  /\ UNCHANGED <<now, rows, trial, sweep, credits>>

Live(s) == stripe[s].status \in {"active", "past_due"}

NextPeriod ==
  /\ now < MaxPeriods
  /\ now' = now + 1
  /\ UNCHANGED <<stripe, event, rows, trial, tab, sweep, credits>>

PeriodTurns(s) ==
  /\ Live(s) /\ stripe[s].period < now
  /\ Becomes(s, [stripe[s] EXCEPT !.period = now])
  /\ UNCHANGED tab

PaymentFails(s) ==
  /\ stripe[s].status = "active"
  /\ Becomes(s, [stripe[s] EXCEPT !.status = "past_due"])
  /\ UNCHANGED tab

PaymentArrives(s) ==
  /\ stripe[s].status = "past_due"
  /\ Becomes(s, [stripe[s] EXCEPT !.status = "active"])
  /\ UNCHANGED tab

Cancels(s) ==
  /\ Live(s)
  /\ Becomes(s, [stripe[s] EXCEPT !.status = "canceled"])
  /\ UNCHANGED tab

BuysTopUp ==
  /\ TopUps /\ \A e \in Events : event[e].kind # "topup"
  /\ Reports("topup", "none", NoSub)
  /\ UNCHANGED <<now, stripe, rows, trial, tab, sweep, credits>>

-----------------------------------------------------------------------------
(* The two writes every path makes.                                        *)

(* extractStripeSubscriptionFields: a start that is missing is now, an end *)
(* that is missing is thirty days later and may reach into the next period.*)
Extracts(object) ==
  {[status |-> object.status, start |-> object.period, end |-> object.period, made |-> FALSE]}
  \cup {[status |-> object.status, start |-> now, end |-> end, made |-> TRUE] :
          end \in IF Itemless THEN {object.period, now, now + 1} ELSE {}}

(* upsertSubscriptionByProvider: the whole row, but the anchor of the      *)
(* quota window never moves back.                                          *)
Upsert(s, object) == \E fields \in Extracts(object) :
  rows' = [rows EXCEPT ![s] = [fields EXCEPT !.start = IF @ > rows[s].start THEN @ ELSE rows[s].start]]

(* endTrialSubscriptionsForUser *)
EndTrial == trial' = "ended"

-----------------------------------------------------------------------------
(* The webhook: claim, apply, mark.                                        *)

Goes(e, pc) == event' = [event EXCEPT ![e].pc = pc]

(* Nobody claims the row again.                                            *)
Closes(e) == event' = [event EXCEPT ![e] = [NoEvent EXCEPT !.kind = event[e].kind, !.inbox = "closed"]]

(* insertWebhook and claimWebhook: a row that is processed, or owned by    *)
(* another delivery, is left as it is and the delivery answered with 200.  *)
Deliver(e) ==
  /\ event[e].kind # "none" /\ event[e].inbox = "received"
  /\ event' = [event EXCEPT ![e].inbox = "processing",
                            ![e].pc = IF event[e].kind = "topup" THEN "grant" ELSE "trial"]
  /\ UNCHANGED <<now, stripe, rows, trial, tab, sweep, credits>>

(* isStaleEvent: too old, so recorded and dropped. *)
DropStale(e) ==
  /\ event[e].pc \in {"trial", "grant"}
  /\ Closes(e)
  /\ UNCHANGED <<now, stripe, rows, trial, tab, sweep, credits>>

(* applyStripeEvent: the trial first; its failure is only logged.          *)
WebhookEndsTrial(e) ==
  /\ event[e].pc = "trial"
  /\ EndTrial \/ UNCHANGED trial
  /\ Goes(e, "upsert")
  /\ UNCHANGED <<now, stripe, rows, tab, sweep, credits>>

WebhookUpserts(e) ==
  /\ event[e].pc = "upsert"
  /\ Upsert(event[e].sub, event[e].object)
  /\ Goes(e, "mark")
  /\ UNCHANGED <<now, stripe, trial, tab, sweep, credits>>

MutGrantCredit(e) ==        \* mutant: no unique key on the event
  /\ event[e].pc = "grant"
  /\ credits' = [credits EXCEPT ![e] = @ + 1]
  /\ Goes(e, "mark")
  /\ UNCHANGED <<now, stripe, rows, trial, tab, sweep>>

(* applyAddonPurchase: one credit for one event, however often it comes.   *)
GrantCredit(e) ==
  /\ event[e].pc = "grant"
  /\ credits' = [credits EXCEPT ![e] = IF @ = 0 THEN 1 ELSE @]
  /\ Goes(e, "mark")
  /\ UNCHANGED <<now, stripe, rows, trial, tab, sweep>>

MarkProcessed(e) ==
  /\ event[e].pc = "mark"
  /\ Closes(e)
  /\ UNCHANGED <<now, stripe, rows, trial, tab, sweep, credits>>

(* A statement throws: markWebhookFailed, and Stripe delivers it again     *)
(* ("failed" is claimed like "received").  Or the process dies: the row    *)
(* stays "processing" and nobody ever claims it.                           *)
WebhookFails(e) ==
  /\ event[e].pc \in {"upsert", "grant", "mark"}
  /\ \/ event' = [event EXCEPT ![e].inbox = "received", ![e].pc = "off"]
     \/ Closes(e)
  /\ UNCHANGED <<now, stripe, rows, trial, tab, sweep, credits>>

-----------------------------------------------------------------------------
(* The checkout: createCheckout asks Stripe, outside any lock; the seller  *)
(* pays; the return page confirms what Stripe then shows, unless the tab   *)
(* was closed.                                                             *)

OpenCheckout(t) ==
  /\ tab[t].pc = "off" /\ ~\E s \in Subs : Live(s)
  /\ tab' = [tab EXCEPT ![t].pc = "open"]
  /\ UNCHANGED <<now, stripe, event, rows, trial, sweep, credits>>

Pay(t, s) ==
  /\ tab[t].pc = "open" /\ stripe[s].status = "none"
  /\ Becomes(s, [status |-> "active", period |-> now])
  /\ \/ tab' = [tab EXCEPT ![t] = [Idle EXCEPT !.pc = "paid", !.sub = s]]
     \/ tab' = [tab EXCEPT ![t] = Idle]

ReadSession(t) ==
  /\ tab[t].pc = "paid"
  /\ tab' = [tab EXCEPT ![t].pc = "confirm", ![t].object = stripe[tab[t].sub]]
  /\ UNCHANGED <<now, stripe, event, rows, trial, sweep, credits>>

(* applyProviderSubscription: the row first, then the trial, whose failure *)
(* is swallowed.                                                           *)
Confirm(t) ==
  /\ tab[t].pc = "confirm"
  /\ Upsert(tab[t].sub, tab[t].object)
  /\ EndTrial \/ UNCHANGED trial
  /\ tab' = [tab EXCEPT ![t] = Idle]
  /\ UNCHANGED <<now, stripe, event, sweep, credits>>

(* The seller gives up, or the confirmation fails. *)
CloseTab(t) ==
  /\ tab[t].pc # "off"
  /\ tab' = [tab EXCEPT ![t] = Idle]
  /\ UNCHANGED <<now, stripe, event, rows, trial, sweep, credits>>

-----------------------------------------------------------------------------
(* The hourly jobs.                                                        *)

MutAtRisk == {s \in Known : rows[s].end < now}    \* mutant: only what has lapsed

(* listSubscriptionsNeedingReconcile: past the period, or past due.        *)
AtRisk == {s \in Known : rows[s].end < now \/ rows[s].status = "past_due"}

(* The query takes the rows that ended first, whatever became of them.     *)
Picks == {picked \in SUBSET AtRisk :
  /\ \A s \in picked, t \in AtRisk \ picked : rows[s].end <= rows[t].end
  /\ Cardinality(picked) <= Limit
  /\ picked = AtRisk \/ Cardinality(picked) = Limit}

SweepStarts ==
  /\ sweep.pc = "off"
  /\ \E picked \in Picks : sweep' = [Asleep EXCEPT !.pc = "rows", !.todo = picked]
  /\ UNCHANGED <<now, stripe, event, rows, trial, tab, credits>>

(* reconcileOne: ask Stripe for one of them after the other ...            *)
SweepReads(s) ==
  /\ sweep.pc = "rows" /\ s \in sweep.todo
  /\ sweep' = [pc |-> "write", todo |-> sweep.todo \ {s}, sub |-> s, object |-> stripe[s]]
  /\ UNCHANGED <<now, stripe, event, rows, trial, tab, credits>>

(* recoverMissingFirstSubscriptions: after them, a subscription nobody     *)
(* knows of is looked for, if Stripe backs no row at all.                  *)
Recovers(s) ==
  /\ sweep.pc = "rows" /\ sweep.todo = {} /\ Known = {} /\ Live(s)
  /\ sweep' = [pc |-> "write", todo |-> {}, sub |-> s, object |-> stripe[s]]
  /\ UNCHANGED <<now, stripe, event, rows, trial, tab, credits>>

(* ... then write it as the webhook would have (applyProviderSubscription).*)
SweepWrites(s) ==
  /\ sweep.pc = "write" /\ sweep.sub = s
  /\ Upsert(s, sweep.object)
  /\ EndTrial \/ UNCHANGED trial
  /\ sweep' = [Asleep EXCEPT !.pc = "rows", !.todo = sweep.todo]
  /\ UNCHANGED <<now, stripe, event, tab, credits>>

(* Stripe or the database fails: that row is left as it is until the next  *)
(* run.  Or the process dies.                                              *)
SweepFails ==
  /\ \/ /\ sweep.pc = "rows"
        /\ \E s \in sweep.todo : sweep' = [sweep EXCEPT !.todo = @ \ {s}]
     \/ sweep.pc = "write" /\ sweep' = [Asleep EXCEPT !.pc = "rows", !.todo = sweep.todo]
     \/ sweep.pc # "off" /\ sweep' = Asleep
  /\ UNCHANGED <<now, stripe, event, rows, trial, tab, credits>>

SweepEnds ==
  /\ sweep.pc = "rows" /\ sweep.todo = {}
  /\ sweep' = Asleep
  /\ UNCHANGED <<now, stripe, event, rows, trial, tab, credits>>

(* expireElapsedTrials *)
ExpireTrials ==
  /\ trial = "trialing" /\ now >= TrialEnd
  /\ EndTrial
  /\ UNCHANGED <<now, stripe, event, rows, tab, sweep, credits>>

-----------------------------------------------------------------------------
Stripe ==
  \/ NextPeriod \/ BuysTopUp
  \/ \E s \in Subs : PeriodTurns(s) \/ PaymentFails(s) \/ PaymentArrives(s) \/ Cancels(s)

Webhook(e) ==
  \/ Deliver(e) \/ DropStale(e) \/ WebhookEndsTrial(e) \/ WebhookUpserts(e)
  \/ GrantCredit(e) \/ MarkProcessed(e) \/ WebhookFails(e)

Checkout(t) ==
  \/ OpenCheckout(t) \/ ReadSession(t) \/ Confirm(t) \/ CloseTab(t)
  \/ \E s \in Subs : Pay(t, s)

Next ==
  \/ Stripe \/ SweepStarts \/ SweepFails \/ SweepEnds \/ ExpireTrials
  \/ \E e \in Events : Webhook(e)
  \/ \E t \in Tabs : Checkout(t)
  \/ \E s \in Subs : SweepReads(s) \/ Recovers(s) \/ SweepWrites(s)

Spec == Init /\ [][Next]_vars

(* Only the hourly reconcile is sure to run and to reach the end of its    *)
(* list, and neither Stripe nor the database fails one row of the list for *)
(* ever.  Nothing says that a row ever gets on the list.                   *)
FairSpec ==
  /\ Spec
  /\ WF_vars(SweepStarts) /\ WF_vars(SweepEnds)
  /\ \A s \in Subs : SF_vars(SweepReads(s)) /\ SF_vars(SweepWrites(s))

-----------------------------------------------------------------------------
Objects == [status : Status, period : 0..MaxPeriods]

(* Every variable has its type; a purchase of quota is credited once.      *)
TypeOK ==
  /\ now \in 0..MaxPeriods
  /\ stripe \in [Subs -> Objects]
  /\ event \in [Events -> [kind : {"none", "subscription", "topup"}, sub : Subs \cup {"none"},
                           object : Objects, inbox : {"received", "processing", "closed"},
                           pc : {"off", "trial", "upsert", "grant", "mark"}]]
  /\ rows \in [Subs -> [status : Status, start : 0..MaxPeriods, end : 0..MaxPeriods + 1, made : BOOLEAN]]
  /\ trial \in {"trialing", "ended"}
  /\ tab \in [Tabs -> [pc : {"off", "open", "paid", "confirm"}, sub : Subs \cup {"none"}, object : Objects]]
  /\ sweep \in [pc : {"off", "rows", "write"}, todo : SUBSET Subs, sub : Subs \cup {"none"}, object : Objects]
  /\ credits \in [Events -> {0, 1}]

(* Nobody is served on a row alone: whatever order the reports come in and *)
(* whatever is lost, an entitled seller is on trial, or the row that       *)
(* serves her was carried into the present period by Stripe, with two      *)
(* exceptions of the code: a payload without a period, for which one is    *)
(* made up, and a malformed row, which the next reconcile reads again.     *)
ServedInsidePeriod ==
  Entitled => \/ Known = {} /\ now < TrialEnd
              \/ \E s \in Current : /\ rows[s].status = "active"
                                    /\ \/ stripe[s].period = now
                                       \/ rows[s].made
                                       \/ Malformed(s) /\ s \in AtRisk

Paid(s) == stripe[s].status = "active" /\ stripe[s].period = now

(* The list of a run is full of rows that ended no later than that of s:   *)
(* nothing ever takes a canceled row out of the candidates.                *)
Crowded(s) == Cardinality({t \in AtRisk \ {s} : rows[t].end <= rows[s].end}) >= Limit

(* A seller who pays is served again, with no webhook at all: a row that   *)
(* has lapsed, or reads past due, is read again, as long as the list has   *)
(* room for it (SubscriptionReconcileProcessor: "picked up within the      *)
(* hour").                                                                 *)
PaidIsServed ==
  \A s \in Subs : Paid(s) /\ s \in Known ~> Entitled \/ ~Paid(s) \/ Crowded(s)
=============================================================================
