# SellerHill's background work, in TLA+

SellerHill runs an eBay seller's dropshipping business: it lists Amazon products on eBay, keeps
price and stock in step, takes the sales in, buys each sold item on Amazon through a browser, follows the
parcel and tells eBay and the buyer. Nearly all of that is done by queued jobs that are retried,
redelivered, delayed and re-armed, over database rows that several actors write with no
transaction across two statements, and against services that cannot take an answer back: a click on
*Place Order*, a fulfilment posted to eBay, a listing ended, a plan paid for.

This project models those parts, checks them with TLC, and proves the central claims about them
with TLAPS. The oldest and most detailed part is automatic purchasing:
*the automation never buys a sale twice on its own, and never forgets that it clicked.*

All paths are relative to `apps/api/src/modules/` unless they start otherwise.

## 1. Inventory

### 1.1 What is modelled

| Component | Code | State it keeps | Operations | Module |
|---|---|---|---|---|
| Purchasing rules | `amazon/auto-fulfill-helpers.ts`, `orders/ebay-order-changes.ts`, `packages/shared/src/domain/orders/*` | none (pure) | eligibility, pre-purchase verdict, start decision, resumable, manual start, declaration, stage, status merge | `OrderRules` |
| Checkout worker | `amazon/amazon-checkout.service.ts`, `amazon/auto-fulfill-processor.service.ts` | `auto_fulfill_*` and `amazon_order_id` of `orders`; a run's memory | `runForOrder`, `checkout`, `claimPlaceOrderClick`, `onPlaced`, `block`, `settleIfClickWasSent`, the processor's catch | `CheckoutRun`, `OrderState` |
| Automatic order queue | `orders/auto-fulfill-queue.service.ts` (BullMQ) | waiting, delayed, active jobs; deduplication id | `enqueue`, `enqueueManual`, attempts, redelivery | `OrderSync`, `CheckoutRun` |
| Order sync and seller requests | `orders/order-sync.service.ts` | the same columns and `status` | ingest, merge, gate, three sweeps, manual start, `recheckBeforePurchase`, `confirmNotPurchased` | `OrderSync` |
| Amazon order scan | `amazon/amazon-order-sync.service.ts`, `amazon/cost-capture-plan.ts` | `last_orders_sync_at`, the suspect column | candidates, scrape, plan, suspects, links, watermark | `CostCapture` |
| Linking by hand | `amazon/amazon.controller.ts` | `amazon_order_id` | link | `AutoFulfill` |
| Automatic order allowance | `billing/quota-enforcement.service.ts` | `billing_ao_reservations` | reserve, release (one sale's slot) | `OrderState` |
| Listing creation jobs | `listings/listings.service.ts`, `listing-queue.service.ts`, `listing-processor.service.ts` | `listing_jobs`, `listing_job_items`, `listings`, `billing_listing_reservations`, the queue | create request, slots, batch run, record, cancel | `ListingJobs` |
| Bulk create on eBay | `ebay/ebay-bulk.service.ts`, `ebay-bulk.helpers.ts` | what a call remembers of each draft | item, offer, publish, replay, verdicts | `BulkCreate`, refining `BulkCall` |
| Refresh, stock push, clean-up | `listings/refresh-processor.service.ts`, `product-sync.service.ts`, `stock-sync-processor.service.ts`, `listing-cleanup.service.ts`, `orders/stock-sync-queue.service.ts` | `products`, `listings`, the stock-sync queue | claim, fetch, apply, recompute, push, write back, sweep | `StockSync` |
| Subscription and webhooks | `billing/stripe-event-applier.ts`, `billing-webhook-processor.ts`, `subscription-reconcile*.ts`, `billing.service.ts` | `billing_subscriptions`, the webhook inbox, credits | claim, apply, mark; checkout, return page; hourly reconcile; entitlement | `Subscription` |
| Tracking and conversion | `amazon/amazon-tracking-*.service.ts`, `tracking-conversion.service.ts`, `orders/ebay-fulfillment.service.ts` | `status` and the tracking columns of `orders`; the scheduler | tick, conversion, push, hold, catch-up, on-demand conversion | `Tracking` |
| Amazon scraper pool | `services/amazon-scraper/sellerhill/pool.py`, `app.py` | proxies, threads, the priority queue, futures, statistics | ensure, submit, wait, expire, work, cool down, retire | `ProxyPool` |

How they meet: through shared rows and queues, never by a call across two of them. A listing
exists because a batch recorded it; the refresh and the sales keep its quantity; the order
sync brings a sale in and queues the purchase; the worker buys it and the scan settles
what the worker could not prove; a linked order starts the tracking tick; the subscription decides at each of these
places whether the platform works for the seller. The scraper pool serves the refresh and the listing preparation by HTTP.
Each module models one of these protocols and takes its neighbours as an
environment that may do anything its code allows; `AutoFulfill` composes the parts of the purchase, and `BulkCall` is the
contract at which `ListingJobs` (caller) and `BulkCreate` (callee) meet.

What is hard about it: decisions are made on rows read earlier; a job may be executed twice at once
(BullMQ redelivers a stalled job while the first execution goes on); an error can come before or after the
effect on the other side; batches are retried whole, half of them done; counters are read by one statement and written by
another; webhooks come late, twice or never; a thread holds a task while its proxy is taken away.
`PROJECT.json` lists these hazards at their lines with the property that watches each, or the reason none does.

### 1.2 What is not modelled

| Component | Why |
|---|---|
| Listing plan limit | one ranking statement, run again daily and after a plan change; in `AutoFulfill` "over the limit" is a kind of sale |
| eBay call budget | one atomic Redis script that fails open; its refusals are the deferrals of `ListingJobs` |
| Campaign account lock | one Postgres advisory lock behind an in-process queue |
| Campaign actions and reports, returns, buyer messages, digest | REST calls and single-statement claims over single rows |
| Price migration, plan change, portal; listing import; provider webhooks of tracking | out of the modules that would hold them; see section 6 |
| OAuth, REST and Trading clients, browser automation, scraping, sessions, administration, catalogue, settings, text generation, web and UI packages | I/O, queries and presentation: no state machine of their own |

The web application and the component library are more than half of the repository's lines; they present what the API
holds. The full list with files is in `PROJECT.json` (`components`).

## 2. The modules

| Module | What it is |
|---|---|
| `OrderRules`, `OrderState`, `CheckoutRun`, `OrderSync`, `CostCapture` | automatic purchasing: rules, shared variables, worker, sync and requests, scan |
| `PurchaseOnce` | the abstract protocol of a click: claim, send, declare |
| `AutoFulfill` | their composition with the world around it, and its properties |
| `ListingJobs` | listing jobs from the request to the last recorded item |
| `BulkCall`, `BulkCreate` | the contract of the bulk create, and its implementation |
| `StockSync` | one product and its listings: refresh, sales, push, clean-up, endings |
| `Subscription` | one seller's subscriptions at Stripe and here |
| `Tracking` | one order from its purchase to the fulfilment eBay holds |
| `ProxyPool` | the scraper's queue, threads and proxies |
| `MC...` | model values for TLC; one `.cfg` per run |
| `...Proofs` | the theorems (section 4) |

### 2.1 Automatic purchasing

| Variable | In the system |
|---|---|
| `ebay[o]` | the sale on eBay: status, an open cancellation request, and its kind (plain; of no listing of ours; of a listing over the plan limit; several items) |
| `row[o]` | the `orders` row. `stamp` is `auto_fulfill_submitted_at` with the number of the claim it was written for in place of a time; `amazon` is `amazon_order_id` (none, a dry run's `SIM-` id, the seller's own purchase `0`, or the purchase of click `n`); `costs` is "costs captured"; `suspect` is the suspect column |
| `slot[o]` | the sale's row in `billing_ao_reservations` |
| `jobs` | waiting and delayed jobs; `no` tells the automatic job (0) from the seller's |
| `run[w]` | an execution: where it is, its job, whether the queue still thinks it owns the job, and what it read and carries |
| `ctl[c]` | a sync job's or request's place, the sale it works on, what it read |
| `scan`, `scanned` | a scan in progress, and `last_orders_sync_at` as the last click it covers |
| `bought[o]` | the purchases that exist on Amazon: what the code cannot see directly |
| `claims`, `starts`, `scans`, `stalls` | counters (numbers for stamps and jobs; bounds) |
| `listed`, `clicked`, `cleared` | history; no guard of the system reads them, except that the bound on declarations counts `cleared` |

Numbering stamps by claim instead of time keeps what the code compares (`scanned_to >= submitted_at`,
`IS NULL`, `IS NOT NULL`) and nothing else. One step is one database statement, one queue call, one external reading, or the
click. The browser session before the click is one step with a free outcome: blocked for a reason in
`Obstacles`, a dry run, or at the button. Every statement before the click may throw (`Throw`), and so may the writes whose failure the
code handles. `Stall` hands a job out again while the old run goes on; `Die` ends a run anywhere. The rows of different sales
are independent, so the configurations use one sale; the theorems hold for any set.

### 2.2 Listing creation

`ListingJobs` has one action for each statement of the create request (`Submit` ... `Enqueue`), of the cancel
request (`AskCancel` ... `CancelReleases`) and of a batch run (`Pick` ... `Recorded`); requests and workers may die between
any two. An item is a batch and an ASIN; up to `ItemConcurrency` items are in preparation at once
(`LISTING_ITEM_CONCURRENCY`), each recording its own result by `WriteRow`, `WriteItem`, `ReadCounts`, `WriteCounts`, `HandOver`. `HandOver` gives the slot back, and like every
release it may be refused by the database and only warned about: then the slot is `stuck`. `rows[i]` counts the
`listings` rows of an item and `live` is what eBay holds, so a row without its listing and a listing recorded twice are states the
properties can name. The call to eBay is one step whose outcome is exactly what `BulkCall` allows: any of the sent items published, at most those told
"ok", or a throw. `BulkCreate` is that call in detail: three requests per pass, one entry per draft, replays of what a replay may
help, offers left over from an earlier call, a request lost with or without its effect.

### 2.3 Stock

`StockSync` is one product with its listings. `Refresh` is a worker beside the stock-sync jobs, because all of them run the same
`computePendingUpdates` and `flushUpdates` (`Compute`, `PushLands`, `PushFails`, `Persist`, `Flushed`), and no lock keeps them apart: their pushes for
one listing may overlap and land in any order. A push may land and its answer be lost, and the write after it may fail or never be reached (the code swallows it). The row's quantity is what the code takes for
"what eBay holds"; `shop` is what eBay really holds. `trust` is history: whether the row can still be believed, `crossed` while two pushes for the listing
are under way, `astray` after that or after a landed push that was not written, `sure` again once a push that met no other is written. The lease of `selectRefreshBatch`, the window of
a sale's job id, the clean-up's candidates and the seller's ending are state of their own.

### 2.4 Subscription

Time is the number of the billing period. `stripe` is what Stripe holds; each change may send a webhook carrying the object *as it was then*, and the
inbox hands it to `claim`, `apply`, `mark` in any order and at any time, again after a failure, or never. `rows` follow by
webhook, by the return page (`ReadSession`, `Confirm`) and by the hourly reconcile: each reads first and
writes later. A run of the reconcile picks its list first (`SweepStarts`: at most `Limit` rows, those that ended first), reads and writes one after
the other (`SweepReads`, `SweepWrites`), and then looks for a first subscription nobody knows of (`Recovers`). Every write goes through `Extracts`, which makes up a period for a payload
without one, and `Upsert`, which keeps the later start. `Entitled` is the read-time rule of `quota-helpers.ts`, its rule for a malformed period included.

### 2.5 Tracking

One order. `Start`, `Scrape`, `ReadEbay`, `Convert`, `Assign`, `Persist`, `Post`, `Record`, `Settle` are the awaits of `processTracking` in
order, for a scheduled and an immediate tick that may run at once; `Hold` is `deferShippedPush`. What is known of the parcel is nothing, a carrier
alone (Amazon's or another), or its number; the link of the purchase may leave a carrier without a number behind. The seller's setting is read at each conversion and may fail to be read. `ebay.held` is the set of
fulfilments eBay holds, by what their number shows: Amazon's own (`raw`), none (`blank`), a converted one (`aqua`), or the seller's. `Fault` bounds
failed calls, misread pages, lost answers and restarts together. `seen` is history: two ticks stood between reading eBay and posting at once (`crossed`), a tick could not read the setting (`unread`), the buyer was told.

### 2.6 Scraper pool

A worker is a url, the life of its proxy (a removed and re-added proxy is a new object in the code) and a thread. The
queue is the set of `(priority, seq, task)` entries, `Get` takes the least. `fut` is the `Future`: whoever resolves it first records the outcome in a
later step. Deadlines pass in the order of submission. `page` and `overrun` are history.

## 3. Runs

Times are with two workers of TLC.

| Run | Instance and bounds | Properties | What it shows |
|---|---|---|---|
| `crash` | one sale, 2 workers, 1 thread, 2 attempts, 1 stall or death; fair | `PurchasesAccounted`, `WorkerKeepsPlaced`, `RunningSettles`, `JobsEnd` | retried and redelivered runs that overlap: every purchase stands under its stamp, no worker takes a row out of `placed`, no row stays `running`, every job ends |
| `confirm` | one sale, 1 worker, 2 threads, 1 scan, 1 declaration, 1 manual start, 1 stall, the seller buying and linking by hand | `NeverOfferedAgain`, `PurchasesAccounted`, `ImplementsPurchaseOnce`, `FirstDeclarationScanned` | the scan, the declaration, a manual start and purchases by hand against running jobs |
| `sweeps` | one sale, 2 workers, 1 thread, every eBay status, three kinds of sale, lapsing subscription, dry run on and off, 1 stall | `TypeOK`, `PurchasesAccounted`, `UnfitSaleNeverClicked` | the two re-arming sweeps buy nothing twice and nothing that may not be bought |
| `jobs` | two jobs with one batch each, one ASIN, one plan slot, 2 attempts, the second job may be cancelled | `RetryNeverListsTwice`, `NoPhantomListing`, `PublishIsCounted`, `CancelledForGood` | racing, retried and cancelled batches against rows, slots and eBay |
| `batch` | one job, one batch of two items in preparation at once, 2 attempts, 1 stall, 1 deferral; fair | `DoneBatchIsSettled`, `BatchesEnd` | a batch ends, leaves no item open and has asked every slot back |
| `v_tally` | as `batch` | `SettledJobIsFinished` | expects a counterexample (section 5) |
| `bulk` | two drafts in one call, 3 attempts, 2 item specifics; fair | `ExhaustedIsAboutAspects`, `OkIsCurrent`, `ImplementsBulkCall`, `CallEnds` | replays, leftovers and lost requests keep the caller's contract, and the call ends |
| `stock` | one listing, stock up to 2, one move of Amazon, one sale, one window, one claim, a pause; refresh and two jobs push at once | `RetiredOnlyWhenGone`, `RowTellsEbay` | refresh, sale, edit, clean-up and endings race, answers and writes are lost |
| `refresh` | the same with two windows and no pause; fair | `AmazonIsAskedAgain`, `OversellEnds` | no product is lost to the lease; once Amazon rests no listing whose row can be believed is oversold |
| `paid` | one subscription, one tab, two periods, one webhook, a top-up, payloads with and without a period; fair | `TypeOK`, `ServedInsidePeriod`, `PaidIsServed` | webhooks late, repeated, lost or cut short |
| `tracking` | one order of an Amazon parcel, setting `logistics`, linked when placed or when shipped and then with or without a carrier, which may be the wrong one; both ticks, on-demand conversion, one fault; fair | `SupplierStaysHidden`, `PostedTwiceOnlyIfCrossed`, `CompletedIsPushed`, `NothingClaimedEarly`, `PushedAtLast` | what eBay is told, that it is told once, and that a held push is taken up again |
| `pool` | a refresh of two products and a create, one proxy that lists may name or not, two threads, no re-adding; fair | `OpenTaskIsHeldOnce`, `CountedOnceByCause`, `OneMoreEachWhileCooling`, `TakenInOrder`, `EveryRequestAnswered`, `RetiredThreadsEnd` | no task is lost, doubled, miscounted or overtaken, and every request is answered |

Each run takes from a few seconds to three minutes, alone on two cores; `jobs` and `stock` (2.9 million states each), `tracking` (1.7 million) and `sweeps` (1.5 million) are the largest.

**Why the bounds are enough.** Every hazard needs few steps of few actors: a second execution (two workers, or one stall, or one
retry), a reading that is out of date (one other actor between it and the write), an effect without its answer (one fault). The
instances hold one of each, and mostly two at a time:

* `crash`, `confirm`, `sweeps`: two workers are the least at which two executions meet at the claim; two threads the least at which a
  request falls between another's reading and its write; one declaration is the least that lets a sale be bought again, one scan lets it happen.
  `Attempts` is 3 in the code and 1 or 2 here: the last attempt and one that is not. The rows of different sales do not meet.
* `jobs` has the last slot wanted twice and one ASIN wanted twice; `batch` two items whose results interleave; the cancel is in `jobs`. More jobs add no statement that
  reads a third job's rows; but no run has both two jobs *and* two concurrent items.
* `bulk`: an answer that belongs to the neighbour needs two drafts; three attempts have a first, a middle and the last one, as in the code.
* `stock`, `refresh`: one run of all this would be too large, so the pause is in the first and the second window in the other. Two is the least stock at which "one less" differs from "none". Three workers push at once in `stock` (the refresh, a sale's job, an edit's), as many as two crossing pushes and a bystander need;
  two windows in `refresh` are the least at which a job's id is known and another is free. One claim waits while a batch runs. A second product shares nothing with the first.
* `paid`: the period turns once, so that a webhook, a tab and the reconcile can each carry the old one past it. A list of one row holds every row of one subscription: that a list may be full (`Crowded`) is stated, not reached.
* `tracking`: one fault puts a lost answer, a restart or a misread page anywhere. The setting is the one under which a hold and a passing order both occur. The theorems (section 4) hold for any number of faults, for all four settings
  and an unread one, for any carrier and for accounts suspended or out of conversions; that a push held for the account is taken up again is not checked.
* `pool`: a batch has two tasks so that an order exists within a lane, and a more urgent one overtakes; two threads of one proxy, so that one cools while the other holds a task or waits for one. A proxy that comes back under the same url and a requeue that meets a second lane are in the theorems, not in the run.

**What `WorkerKeepsPlaced` does not say.** It is checked without declarations and without dry
runs, where the code promises it. With a declaration, an `onPlaced` that arrives late can put `placed` on
a row whose stamp is gone, and a later failed attempt takes it to `failed`; and if the dry-run switch is
turned between two overlapping runs, `simulatePlacement`, which has no condition, writes `dry_run` over `placed`.

**Deadlock** is checked where the system runs for ever (the purchase and tracking). Listing jobs, a call of the bulk
create and the requests of the pool really end; and the bounds of `StockSync` and `Subscription` (moves, sales,
periods, webhooks) use the world up. There the liveness properties say that what has to go on does.

### Fairness

| Module | Assumed | Because |
|---|---|---|
| `AutoFulfill` | WF of each worker's `RunStep` and of a thread that has started; SF of the stale sweep of each sale | BullMQ runs a handler as long as the process lives; the order sync is a repeated 20-minute job. `Stall` and `Die` are not fair, and bounded |
| `ListingJobs` | WF of `Runs(b)` | BullMQ hands a waiting batch out again, and its handler goes on. Nothing makes a seller act |
| `BulkCreate` | WF of `Next` | one request of one process |
| `StockSync` | WF of the due time, of the refresh and its recompute, of pushes under way; SF of Amazon's answer and of a push of the refresh | the refresh is a repeated job; Amazon and eBay do not refuse one product for ever. Nothing is asked of the sale and edit jobs, nor of a write after a push: the refresh alone must put things right |
| `Subscription` | WF of the start and the end of a run of the reconcile; SF of its reading and its write of each subscription *on its list* | a repeated job that goes through its candidates one by one; neither Stripe nor the database fails one of them for ever. That a row gets on the list is not assumed: `PaidIsServed` excepts one for which the list has no room (`Crowded`, section 5). No webhook is fair |
| `Tracking` | WF of the scheduled tick, start and steps | the job scheduler of each order. Neither immediate ticks, nor sellers, nor Amazon |
| `ProxyPool` | WF of the handling of requests, of deadlines and of each worker thread | threads of one process, and time |

## 4. Theorems

All hold for every value of the constants; the only assumptions are the named `ASSUME`s of the modules, which TLC evaluates in
the runs, and what a theorem states itself.

| Theorem | Module | Says |
|---|---|---|
| `TypeCorrect` | `AutoFulfillProofs` | `[]TypeOK` of the purchase |
| `EveryPurchaseAccounted` | `AutoFulfillProofs` | `[]PurchasesAccounted`: a purchase of click `n` means the row's stamp is `n`, or `n` was declared empty |
| `BoughtNeverOfferedAgain` | `AutoFulfillProofs` | `[]NeverOfferedAgain` |
| `PurchaseOnceImplemented` | `AutoFulfillProofs` | `Spec => ImplementsPurchaseOnce` (the refinement) |
| `FirstDeclarationIsScanned` | `SaleProofs` | `Spec => FirstDeclarationScanned` |
| `UnfitNeverClicked` | `SaleProofs` | `[]UnfitSaleNeverClicked`, for any kinds of sale and any number of sweeps |
| `PlacedKeptByWorkers` | `SaleProofs` | `Spec => WorkerKeepsPlaced`, assuming `MaxConfirms = 0` and no dry runs (`TRUE \notin DryRunModes`), where alone the code promises it |
| `JobsTypeCorrect` | `ListingProofs` | `[]TypeOK` of the listing jobs |
| `ListedAtMostOnce`, `NothingListedUnpublished`, `CountedBeforePublished`, `DoneMeansSettled` | `ListingProofs` | `[]` of `RetryNeverListsTwice`, `NoPhantomListing`, `PublishIsCounted`, `DoneBatchIsSettled`, for any jobs, batches, limits, deaths and refused releases |
| `CancelIsFinal` | `ListingProofs` | `Spec => CancelledForGood` |
| `BulkTypeCorrect`, `EveryDraftHasItsPlace` | `BulkProofs` | `[]Types`; `[]Whereabouts`: a draft without a verdict is in one place of the call, once |
| `ExhaustedMeansAspects` | `BulkProofs` | `[]ExhaustedIsAboutAspects`, whatever eBay answers or leaves out |
| `OkAtThisPrice`, `KeepsTheContract` | `BulkProofs` | `[]OkIsCurrent` and `Spec => ImplementsBulkCall` (the refinement), assuming `Complete`: eBay answers every entry |
| `PoolTypeCorrect` | `PoolProofs` | `[]TypeOK` of the pool |
| `OpenTaskHeldOnce`, `CountedOnce`, `CoolingLetsOneMoreEach` | `PoolProofs` | `[]` of `OpenTaskIsHeldOnce`, `CountedOnceByCause`, `OneMoreEachWhileCooling`, for any requests, products, proxies and threads |
| `TasksInOrder` | `PoolProofs` | `Spec => TakenInOrder` |
| `TypeCorrect` | `SubscriptionProofs` | `[]TypeOK` of the subscription |
| `ServedInside` | `SubscriptionProofs` | `[]ServedInsidePeriod`, payloads without a period and malformed rows included |
| `SupplierIsHidden`, `PostedOnceUnlessCrossed`, `ClosedOnlyWhenPushed`, `ClaimsAreHeld` | `TrackingProofs` | `[]` of the four safety properties of the run, for any number of faults, and all settings, readings and accounts |
| `TrackingTypeCorrect` | `TrackingProofs` | `[]TypeOK` |
| `RetiredIsGone` | `StockProofs` | `[]RetiredOnlyWhenGone`, likewise |
| `RowsBoundEbay` | `StockProofs` | `[]RowTellsEbay`, lost answers, failed writes and overlapping pushes included |
| `StockTypeCorrect` | `StockProofs` | `[]TypeOK` |

**The purchase.** `PurchasesAccounted` is not inductive: a purchase is made by a worker that carries its
claim in memory, and nothing in the property says the row still knows that claim. `ClickInv` adds
three facts. `PendingClicks`: a worker at the click holds a claim that was handed out, is not yet sent, and is
either the row's stamp or already declared empty. `ClaimsApart`: no two workers hold the same claim.
`SentClaims`: only claims handed out were sent. The heart of it is that the claim is a compare-and-set on an
*unstamped* row: it never replaces a stamp, so it never loses a purchase, and it always takes a fresh number.
Almost every other action does not concern the click: `Quiet` says so, `QuietKeepsClickInv` is proved once, and
`WorkerQuiet`, `ThreadQuiet`, `ScanQuiet` and `WorldQuiet` show that every action but `ClaimClick`,
`ClickPlaceOrder` and `ClearStamp` is quiet. This is also the refinement: a quiet step stutters in `PurchaseOnce` and the three others
are its `Claim`, `Send` and `DeclareEmpty`. `NeverOfferedAgain` follows since a stamp alone turns off every stage,
decision, sweep and button that could buy (`StampedIsOff`).
`FirstDeclarationIsScanned` orders three marks, `scanned <= listed <= claims` (`Watermarks`), and carries a request that was let
through to the statement that acts on it (`DeclarationsCovered`): until the first declaration of a sale its
stamp is neither replaced nor cleared, so what the check saw still holds at the update. After a
declaration this is no longer so, and the theorem says *first* for that reason (section 5).
`UnfitSaleNeverClicked` is about two kinds of sale, kept from the click by two different things. A sale of no listing of ours is never on the
way: no job, worker or request names it, since every action that would name it asks the gate or a row that is not `skipped`
(`UntrackedLeftAlone`). A sale of several items does get jobs, as the sweeps re-arm it; it is stopped by the last check in the
worker, so no run of it is past that check (`MultiItemStopped`). `WorkerKeepsPlaced` follows once a placed row is stamped and nobody takes
stamps off (`PlacedIsStamped`, `NobodyDeclares`): every write of a worker that would take the row back asks for an unstamped one.

**Listing jobs.** `JobsInv` says of each batch how its worker and the queue agree (`Queued`), and of each item where it can be while its
batch stands where it stands (`Worked`), that nothing on its way to a row has one (`ListedOnce`) and that what is called listed is (`ListedTruly`). Two
parts are less obvious. `Counted`: a slot, once taken, is released but never untaken, and is taken before the request is
on the queue, or, for a scheduled group, before its *first* attempt goes on; the exception in `PublishIsCounted` is what this cannot say of a
later one. `Handed`: a run that neither throws nor defers leaves no item behind that is not settled and whose slot was not asked back. A step of one item spares
the others (`SparedFits`), so each action is argued for the item it moves. `CancelledForGood` needs little of it (`Requested`: only a new
job is submitted): every other statement that writes a job's status carries a condition that a cancelled one does not meet.

**Bulk create.** `Whereabouts`: the drafts without a verdict are those to come, unread, gone on and to replay, and these four are
apart; so no draft is told twice, and when nothing is left everyone was told. What is *told* is true by
`Truth`: entry `k` of the answer is that of draft `k` and says what eBay did, and what goes to be published carries its own offer. Here `Complete` is needed: with an entry left out
the rest are matched by position, and a draft reads its neighbour's (section 5). In the refinement a pass that starts and a stage that ends stutter;
a request, an answer that is read and the end of a pass are `Proceed`, for they only touch drafts that were not told.

**Scraper pool.** `Places` says where a task is: on the queue, in one pair of hands, or answered. It rests on `NotYetSubmitted` (what a request has not put on the
queue is unborn, so nobody holds it) and on sequence numbers being given once. `Counting` follows the *debt* of whoever
resolved a `Future`: it owes the task's one event until it records it, and the event it owes has the true cause. `Cooling` says of each thread of a cooling proxy
what it may still send: one task while it is past the check and has sent none (`Quiet` is where it stands once it has), and that the thread whose block began the cooling, which was back at the check
with nothing in hand, has sent none (`Starter`): a thread that finds its proxy cooling at the check goes no further.
A batch names a product once (`BatchAssumption`): the server removes duplicates (`app.py:185`).

**The subscription.** Every object in flight is an old copy of Stripe's: the one a webhook carries, the one a tab or the reconcile has
read, the row itself. `Lag` says of each of them that it is a copy that lags (`StripeInTime`, `RowsLag`, `EventsLag`, `TabsLag`, `SweepLags`); it
is kept since Stripe itself only moves forward (`StripeMoves`) and the upsert joins a lagging
copy to a lagging row (`UpsertLags`). The end of a row lags unless it was made up, and its start never runs ahead of the calendar. Then whoever is served is so on a period Stripe really
carried, or on one made up, or on a row that ends before it starts; such a row ended before today, so the reconcile is due to read it. That a top-up is credited once is part of `TypeOK`.

**Tracking.** `TicksHold` says what each tick carries from the place it has reached (a number it may post, a status it read), and
`AloneBetween` that, as long as no two ticks crossed, a tick between its reading of eBay and its post is alone there and nothing was posted. Both survive
the steps of everyone else because some things only grow (`Forward`): fulfilments on eBay are
not taken back, a pushed number is not taken off the row, a store that is gone stays gone. `RowReads` says
where a carrier without a number can come from: the link alone.

**Stock.** A listing is retired by four paths, and each carries eBay's answer in memory or in the sweep before it writes the row: `GoneIsGone` says that each of the
four, from the moment it knows, is about a listing eBay no longer holds. It is inductive because eBay brings no listing
back. `RowTellsEbay` assumes nothing of the workers. It rests on what `trust` means: while it is `sure` at most one push for the listing is under way, so what that worker
pushed and has not yet written bounds what eBay offers, and when it is written the row does. Where `trust` is lost the row says nothing, and nothing in the code finds out (section 5).

**Only model-checked:** liveness, which with `ENABLED` is out of the prover's reach: `RunningSettles` and `JobsEnd`, `BatchesEnd`, `CallEnds`,
`AmazonIsAskedAgain` and `OversellEnds`, `PaidIsServed`, `PushedAtLast`, `EveryRequestAnswered` and `RetiredThreadsEnd`. Every safety property, action property and
refinement that a passing run checks is a theorem. No module uses a recursive operator, so nothing here needs an induction
over data; the filter of the bulk create is stated by positions (`Only`), because the library's `SelectSeq` is recursive.

**Each property can fail.** Every property of a passing run has a mutant, an operator `Mut...` beside
the definition it replaces (a claim that does not ask for the stamp, a deferral that completes the job, a call eBay never answered read as an ended
listing, a credit without its unique key, a refused push that is swallowed, a worker that ends with a task in hand, ...), under which TLC finds it violated.

## 5. Divergences between the code and what it says of itself

**With a run.** `v_tally`: `listing-processor.service.ts:549-550` guards items because otherwise "the job would never reach a
terminal state". `updateJobCounts` (`listings.service.ts:1928`) reads the counts and writes status and counts by a second statement: of two items recorded at once the
one that read first may write last, and the job shows `processing` for good with all its items settled.

**Without a run.** What follows was met while modelling, most of it as a counterexample of these modules. Purchasing first:

| Statement | What the code does |
|---|---|
| from the click on, "no path may return it to PENDING or FAILED" (`amazon-checkout.service.ts:702`) | the suspension sweep selects, then updates by id: a row clicked in between is written back to `pending`. The stamp stays, so no second purchase follows (`PurchasesAccounted`) |
| "Nothing re-arms a blocked purchase on its own" (`order-sync.service.ts:1043`) | with a redelivered job one execution blocks and the other's retry returns the row to `pending` |
| "the order only ever moves FORWARD" (`ebay-order-changes.ts:131`) | the pre-purchase look merges in memory and writes after a call to eBay; the awaiting-payment recheck writes without a merge (`order-sync.service.ts:1718`) |
| "the hold is already counted" (`quota-enforcement.service.ts:568`) | a released reservation stays released on the conflict, and the sale is let through |
| while a suspect stands the seller cannot declare (`cost-capture-plan.ts:34`) | the suspect is read before the update and is no part of its condition |
| `pending` means "a purchase job is about to be queued" (`ebay-order-changes.ts:189`) | a crash between insert and enqueue leaves `pending` with no job, and a later sync only updates |
| "Only listings within the plan's listing limit are automated" (`order-sync.service.ts:926`) | the unpaid sweep queues without the gate, and the last check does not know the plan limit |
| a declaration is approved for a click | `confirmNotPurchased` approves one stamp and clears whichever it finds (`order-sync.service.ts:1335` against `1407-1417`): why `FirstDeclarationScanned` says *first* |
| the suspension sweep is the "ONLY mechanism" that takes `blocked` back (`order-sync.service.ts:1525`) | the manual start does so too |
| "PLACED is written by `onPlaced` alone and is final" (`amazon-checkout.service.ts:2771`) | the scan's link writes it too |
| the last slot of an allowance is let through (`quota-helpers.ts:92`, `quota-measures.spec.ts:91-93`) | `reserveAmazonOrder` inserts before it counts, and refuses it |

Also: `simulatePlacement` (`amazon-checkout.service.ts:2119-2192`) replaces a hand link by its `SIM-` placeholder; the second, minimal write of `onPlaced` sets the
order id even when none was parsed, over one linked by hand; the processor's comments speak of a fixed job id where the queue deduplicates.

**Listing jobs and bulk create.**

* `quota-enforcement.service.ts:379-399` calls the reservation race-safe; the count is taken before the advisory lock, so two requests may both take the last slot. `reserveForPublish` takes no lock.
* A scheduled group reserves on the first attempt only (`listing-processor.service.ts:288-294`): one that dies before is published uncounted on its retry, the exception in `PublishIsCounted`.
* A retried batch records an item that is already active as a duplicate error; `failPreparedItems` writes `retrying` over cancelled items; `updateJobCounts` takes a `failed` job up again, where the doc of its neighbour says that a terminal job "is never resurrected" (`listings.service.ts:2001-2002`).
* A cancel releases the slots of items in flight, and a released slot is not reserved again when they publish; a request that dies between reserve and enqueue leaves its slots and a pending job behind; two jobs at once may both list one ASIN (`cross-store-asin.ts:10`).
* "An item with no entry at all is reported as failed" (`ebay-bulk.helpers.ts:101`): entries that miss their key are matched by position, so with an entry missing (`Complete = FALSE`) a draft may be told its neighbour's listing.
* `releaseSlot` (`billing-repository.service.ts:1797-1804`) swallows a database error: a batch is done and its slot stays reserved, counted against the plan for good. `DoneBatchIsSettled` says that a slot was *asked* back.
* A request that throws in a later pass discards the outcomes already settled: listings are live that the caller records as failed. `BulkCall` allows it.

**Stock.**

* A failed push of a sale's job is only logged (`product-sync.service.ts:359`), where `stock-sync-queue.service.ts:13-17` counts on a retry.
* "Not overselling. The cache only depletes between syncs", and the eBay quantity "never inflates beyond what Amazon had" (`docs/superpowers/specs/2026-07-10-sale-driven-stock-sync.md:118-119`).
  `hasCommerceDelta` (`product-sync.service.ts:359`) compares the wanted quantity with the row, not with eBay. When two pushes cross, or a landed one is reported as failed or not
  written down, the row can hold what is wanted while eBay offers more, and then no refresh sends it again. `RowTellsEbay` says that nothing else makes a row say less than eBay offers, and `OversellEnds` that this is the only way to oversell for good.
* `hasCommerceDelta` compares with the row, so a quantity eBay took down for a sale is not replenished when the wanted one is unchanged.
* A page whose stock is unknown writes back the stock the batch read, over sales recorded since.
* A sale after its window's job has run, within the same five seconds, queues nothing. `OversellEnds` rests on the refresh alone.

**Subscription.**

* A subscription whose period is past "resolves to UNPAID and the account is suspended" (`subscription-reconcile.processor.ts:28-31`). A reading of the old period written after the renewal (by a late webhook, or by a
  return page that read before it) keeps the new start and brings the old end back; `resolveQuotaWindow` takes `end <= start` for a malformed row (`quota-helpers.ts:328`) before it looks at the end, and serves it on the calendar month until the reconcile reads the row again.
  `ServedInsidePeriod` names this exception.
* "A renewal that really happened is picked up within the hour" (`subscription-reconcile.processor.ts:41-43`). Canceled rows past their end never leave the candidates, which are cut at the 200 that ended first
  (`billing-repository.service.ts:338-345`): once so many have gathered, a row that lapsed later is never read. `PaidIsServed` without `Crowded` fails with two subscriptions and a list of one.
* "Never missing" (`subscription-reconcile.ts:61-63`) holds of a customer's first subscription only; `PaidIsServed` is about subscriptions that have a row.
* A crash between claim and mark leaves a webhook in `processing` that no delivery takes again; `failed`, called terminal, can be claimed.
* A late past-due or older end overwrites a newer row until the hourly reconcile; only the anchor is guarded.
* The trial is ended before the row is written; a failure in between serves neither until it is delivered again, and slots are not released then.
* Two tabs can pay two subscriptions; a top-up paid asynchronously is never granted; an upgrade goes on when `cancelScheduledChange` failed; the price migration reads Stripe's schedule and then replaces it (`price-migration.processor.ts:149-193`).

**Tracking.**

* "A setting we cannot read must never put the raw Amazon number in front of a buyer" (`tracking-conversion.service.ts:885-886`). The empty settings (`901`) keep the provider, but their scope is Amazon Logistics only (`220-223`): of a
  seller who has everything converted, a parcel of another carrier then passes with its raw number.
* An order without a number is to be held, since a fulfilment without one cannot be taken back (`tracking-conversion.service.ts:223-229`). The hold (`230-235`) asks for number *and* carrier to be empty. The parser takes a carrier from the text of a page
  without a number (`amazon-order-parser.service.ts:484-487`), the link stores the two apart (`amazon.controller.ts:283-284`, `320-321`), and such an order is passed through without a number. `SupplierStaysHidden` names these two cases and says that there is no third.
* "Pure spend ... refuse BEFORE the quota is touched" (`tracking-conversion.service.ts:599-603`): a seller who shipped by hand without a number is sold a conversion that can never reach the buyer.
* "READ before it is written ... never posted twice" (`amazon-tracking-processor.service.ts:269-271`): two ticks that cross may both post. `PostedTwiceOnlyIfCrossed` says that nothing else does.
* A relinked order can receive `amazon_cancelled_at` from a tick of the old purchase (`amazon.controller.ts:328`); a converted number is kept over a newer one by `COALESCE`; the status is written without a condition (`348-366`), and so does `updateOrder` (`orders.service.ts:615`).

**Scraper pool.**

* A proxy left out of one request and named in the next is a new object: its cool-down and its place in the rate limit are gone.
* While a proxy cools down each of its other threads may still take and send a task: the check (`pool.py:213`) is before `queue.get`, where a thread may wait. `OneMoreEachWhileCooling` says that it is one each.
* After `wait_turn` neither deadline nor answer is asked again: a page may be fetched for nobody.

### Hazards no property covers

`PROJECT.json` lists forty hazards. Those without a property are there with the reason. These others were left out of the list:

| Place | Hazard | Why no property |
|---|---|---|
| `amazon-checkout.service.ts:2119`, `2711` | a dry run, and the second write of `onPlaced`, replace what was linked meanwhile | the code promises nothing there |
| `amazon-order-sync.service.ts:138`, `226` | two clocks; a link from candidates read before the scrape | one clock, one sale in the model |
| `order-sync.service.ts:449`, `460`, `order-sync-processor.service.ts:20` | the watermark passes a failed order or a page cap; syncs at once | the watermark is not modelled |
| `listing-processor.service.ts:294`, `ebay-bulk.service.ts:298`, `stock-sync-queue.service.ts:32`, `refresh-processor.service.ts:524`, `listing-cleanup.service.ts:127` | uncounted retry; discarded outcomes; swallowed sale job; stale stock; stale candidates | reached by the models; the lists above |
| `quota-enforcement.service.ts:384` | the count before the lock | the model shows two requests taking the last slot: a bound does not hold |
| `billing.service.ts:790`, `stripe-event-applier.ts:276` | two checkouts; the trial ended first | reached, bounded by the reconcile |
| `amazon.controller.ts:328`, `amazon-tracking-processor.service.ts:348`, `tracking-conversion.service.ts:604` | a relinked order; an unconditional status; a useless conversion | the first is not modelled, the others are promised by nobody |
| `pool.py:116`, `pool.py:246` | a proxy named again; a late fetch | reached; the code states nothing of them |

## 6. Limits of the model

* **Time.** Windows, leases, backoffs and waits are left open, so the models have more behaviours than the code. In particular a declaration may
  fall between a claim and its click, which in the code needs a run that hangs for an hour; the safety properties exempt
  declared claims, and `PurchaseOnce` allows a declared claim to be sent late. In `Subscription` the grace period is zero, and the first subscription is found by a reconcile within its 72-hour window.
* **Purchase.** A scan is of one account and matches a purchase only to its own sale. Billing switched off and plans without a limit are not modelled.
* **Listing jobs.** The content of a listing, its checks and its preparation are one free outcome. Aspect priors, entries without a key and reordered ones are left out of the bulk create.
* **Stock.** A call that timed out lands before its worker goes on to the next step, or never. A process that dies in a push is an answer that is lost. Quarantine after repeated failures, listing age, the day a refused ending is left alone, and prices are left out. Each listing sells on a store of its own. The import of listings is not modelled.
* **Subscription.** The customer is linked. There is one seller, so the rows of others that share the reconcile's list are rows of hers. Plan changes, the portal and price migration are not modelled.
* **Tracking.** Orders over the plan limit and relinking are left out; there is at most one immediate job; the cadence is free; the buyer's message and the status are one step; the reading of Amazon's page is one outcome; a tick's own reading stores a number or nothing, so a carrier without a number comes from the link; `choice.carrier` is the verdict of `isAmazonLogisticsTracking` on the parcel's number; the converter's own webhooks are not modelled.
* **Pool.** The token bucket's timing, the latency that sizes the pool (a free choice of threads here), the server's limit of threads and shutdown are left out; a proxy's streak is updated in one step. A cool-down that ends between the check and its `time.sleep` makes the sleep negative and ends the thread (`pool.py:213-214`); the model has no such end.

## 7. Plan

Done: sections 2 to 5. What is left, in order:

1. **Proofs** of what the next steps add: the lag argument of `Subscription` for plan changes (2), the click protocol with several sales in one scan (3).
2. **Plan change and price migration**: read-then-replace of Stripe's schedule against the portal and the reconcile; then `entitled` of `AutoFulfill` refined by `Subscription`.
3. **Scan over several sales**: candidates read before the scrape, a purchase linked to one row only, late links over hand links.
4. **Order-sync watermark** and concurrent syncs of one account.
5. **Small protocols**: the listing plan limit, the eBay call budget, the campaign lock, listing import, claims of messages and digests.
