# A formal model of Mannon's server

Mannon is a Shopify app for wholesale merchants: pricing rules, order limits,
net terms, quotes, registration forms and AI help, for many shops in one
database. Shopify holds the truth about products, customers, orders and
subscriptions, and it evaluates the published prices, limits and terms by
itself at checkout. The server keeps mirrors of the former and publishes the
latter, and almost everything it gets wrong it would get wrong in time: a
webhook that comes twice, a job whose process dies, a page view that crosses an
uninstall, a plan that changes in the middle of a sweep. This directory models
that part of the program in TLA+, checks it with TLC and proves what matters
most about its core with TLAPS.

Paths below are relative to the repository; `lib/` stands for `app/lib/`.

## 1. Inventory

### Processes and what they share

* **HTTP requests** of the Node server: admin page views, webhooks from
  Shopify (`app/routes/webhooks.$.tsx`), storefront proxy calls, and one POST
  a minute from an external cron to `app/routes/internal.jobs.run.tsx`. Any
  number of them run at once, on any number of processes. None of them keeps
  state in memory that another relies on.
* **Postgres**, through Prisma. Nearly every statement is a transaction of its
  own at READ COMMITTED; an explicit `$transaction` appears in the purge, in
  the plan gate (with an advisory lock) and in few other places. So the unit of
  interleaving is the statement, and whatever a request has read may be stale
  when it writes.
* **Shopify**, which sends each webhook at least once, in any order, again
  after an error or after five seconds of silence, for about two days; and
  which the server reads and writes through the Admin API.

### Components

| component | state | operations | what makes it correct |
|---|---|---|---|
| Job queue (`lib/jobs/queue`, `runner`, `internal.jobs.run`) | `ScheduledJob` rows: kind, status, attempts, runAt, startedAt | enqueue (with or without replacePending), cancel, sweep stuck, read due, claim, execute, settle, back off | a row is executed by one runner at a time, is never given up early, is settled in the end, and is never revived |
| Webhook dispatch (`lib/webhooks/dispatch`, `webhooks.$.tsx`) | `WebhookDelivery` rows, unique per webhook id, `handledAt` | create, find, resume, run, mark, answer | no delivery is acknowledged unhandled; a handled one is not run again |
| Shop lifecycle (`lib/shop/ensure-shop`, handlers of `app/uninstalled`, `shop/redact`, job `shop.purge_pii`) | `Shop.uninstalledAt`, `piiPurgedAt`, all personal data | page view creates or restores; webhooks tombstone; the purge empties | data of a merchant who is gone is deleted, that of a live one never |
| Recurring jobs and backfills (`lib/jobs/handlers`) | one pending row of each kind, `syncedAt` stamps, cursors | re-queue themselves, page on, restart after a reinstall | a chain neither dies nor forks; a backfill that says done has read everything |
| Billing (`lib/billing`) | the subscription cached on `Shop`, counts of rows | webhook and page view refresh it; the gate counts and inserts under an advisory lock | the cache heals, nobody who pays is cut off, no quota is passed |
| Plan reconciliation (`billing.reconcile`) | effective plan, `planReconcileCursor`, published metafields | a plan writer queues a sweep; the sweep pages over the buyers | checkout does what the plan allows once things are quiet |
| Rules and limits published (`lib/pricing/ruleset`, `rules`, `csv/import`, `lib/settings/pause`, `lib/orders/limits`) | rows, published hash, the metafields at checkout | edit, import, undo, pause, publish, skip when unchanged | what checkout has is what the merchant was told it has |
| Engines (`packages/*`, `extensions/*`, `csv/plan`, `forms/approval`, `customers/tagging`) | none | pure functions | order of rules, rounding, tiers, margins, advice, terms, tags, imports, what the three Functions read back |
| Orders and net terms (`lib/orders`, `lib/terms`) | mirrored order and lines, terms, payments, reminders | webhooks, backfill, mark paid, record, remind | the mirror is Shopify's or flagged; payments add up; the merchant's decisions survive |
| Quotes (`lib/quotes`, job `quotes.expire`) | `Quote.status`, lines, draft orders | draft, send, accept, decline, withdraw, reopen, expire | a draft order has prices the quote was sent at; a quote that is out will expire |
| Registration (`lib/forms`, screening and decision jobs) | applications, tags, group, status, metafield | submit, screen, decide, undo | an approval is backed by what it promises, everywhere |
| Customers (`lib/customers`) | mirror, groups, tags, terms | staff, tag sweep, webhooks, backfill, redaction | Shopify, mirror and checkout agree; other apps' tags survive |
| Privacy (`lib/privacy`) | every row that names a buyer | data request, redaction in ten statements | told everything, forgotten everywhere |
| Buyer agent (`lib/agent/buyer`) | conversations, messages, guardrails | a turn, a take-over, a reply, a rehearsal, a switch | never over a person, nothing filed in silence |
| Reading (`lib/activity`, `lib/analytics`, `customers/segments`) | none of its own | feed pages, charts, cards, review facts, segments | whole, once, and the same figure on every page |
| AI runs, merchant agent, settings, setup, email, i18n, UI | drafts, run records | request and response | not modelled, section 7 |

Interactions: every webhook handler and page view may **enqueue** jobs; every
job runs under the one runner and may enqueue its successor; the purge, the
page view and the uninstall handlers share the `Shop` row; both plan writers,
the sweep and every publisher share the plan and the metafields; the backfills,
the redaction and the webhooks share the mirrors; approvals, groups, terms and
the tag sweep share one buyer's tags; the three Functions share nothing with
the server but the metafields it wrote.

What is hard to test here, everywhere, is a request that acts on what it read
before another wrote, and a process that dies between two statements.
`PROJECT.json` lists every hazard at the line where it bites.

## 2. Plan, and what became of it

In order of how much of the system rests on each part. Done: the queue and its
lease, the dispatch, the shop's lifecycle, the sweep of a plan change, quotes,
chains and backfills, the subscription cache and the quota gate, rules and
limits on their way to checkout, the order ledger, applications, customers,
redaction, the buyer agent - all of which have their safety proved (section 6) -
and the engines with the three Functions around them, rule import, approval
criteria, and what the merchant reads: the two doors of an order, the feed,
segments and figures, of which parts are.

Left, in this order: the product collections' metafield; the setup wizard's
apply, one of whose steps may fail; the monthly review's single writing; the
count of draft orders a quote makes; theorems of the smaller engines' remaining
answers and of what the merchant reads.

The abstract specification is `JobLease`: `JobQueue` implements it, and
`ShopLifecycle` and `PlanReconcile` are built on it in the place of the queue.

## 3. Modules

Three kinds. **Stateful** modules have one action per database statement (or
call of Shopify) of a handler: what a request has read is in a record of its
own, and may be stale. **Pure** modules have no variables: they define the
functions of the code, an optional value as a sequence of at most one element.
**Composites** (`MC...`, `Engines`, `Reports`) put them before TLC.

What may go wrong in a behaviour is chosen once, at its start, from a set of
named misfortunes ("killed", "refused", "overlapped", "reordered", ...:
`Weathers`, `Lucks`, `Gusts`, `Odds`, `Climates`, `Strains`, `Scenes`, `Skies`,
`Schedules`, `Crossings`, each named after its module). Every property says in
its guard which of them it stands; section 5 says what
the code does under those it does not.

| module | models | what is a step; what is left out |
|---|---|---|
| JobLease | the promise of the table | post, withdraw, take, report, die, take back |
| JobQueue | `queue.server`, `runner.server` | each statement of a runner; `batch`, `seen` are what it read; runAt and startedAt are what the queries ask of the clock (`due`, `stuck`) |
| WebhookDispatch | `dispatch.server`, the route | create, find, resume, handler, mark, answer |
| ShopLifecycle | `ensure-shop`, uninstall, redact, purge | each statement; personal data is one Boolean; `record` is the row, `installed` Shopify's truth |
| PlanReconcile | `reconcile-plan`, both plan writers | read, publish in two steps, page, re-queue, stamp |
| SubscriptionCache | `subscription.server`, its webhook | numbered subscriptions; both writers read, decide, write; the clock's grace and staleness; the end of a period ahead, over, or not known |
| Quotes | `quotes.server`, `state`, `expire-quotes` | read and write of each operation, the draft order between; the job's rows counted |
| JobChains | the recurring jobs and backfills | one kind a behaviour; a row may be claimed at any time |
| OrderLedger | `orders/sync`, order webhooks, `lib/terms` | one order; deliveries carry the order as it was sent |
| RulesetPublish | `rules`, `ruleset`, `import`, `pause` | read, write, hash, discount, metafield, keep the hash, tell; each may throw before what it asks is done or after |
| LimitsPublish | `orders/limits` | the same for limits, with groups that cascade |
| Applications | `submissions`, `decisions`, `screening` and their jobs | an approval's four writes in two systems, its undo |
| PlanGate | `gate` | read the plan; lock, count, insert; rows without a lock or a question are `slack` |
| Customers | `lib/customers`, its webhooks and backfill, `tag-rules` | one buyer in Shopify, mirror and metafield; webhooks in any order, a failed one sent again or given up |
| Redaction | `buyer-data`, `customers-redact` | ten statements, over the pieces that name a buyer |
| BuyerAgent | `lib/agent/buyer` | each writing statement of a turn; which tool and whether it fails are choices |
| PricingEngine, MarginGuard | `packages/pricing-engine` | exact fractions, the cascade, tiers, validation, checkpoints |
| OrderLimits, NetTerms | their packages | governing limit, advice, eligibility, aging |
| TagRules, RuleImport, Approval | `tagging`, `csv/plan`, `approval` | a fold of rules, a plan by line, criteria that narrow |
| Checkout | the codecs, the three Functions, quick order | amounts on the wire, fields that do not read back |
| Engines, EngineCases | one question of the engines a behaviour | the promises, and the catalogues of questions |
| OrderDoors | `orders/sync` (lines), `lib/money` | node and payload of one order, narrowed; lines replaced |
| Feed | `activity/feed` | filters, days, merge, cursor |
| Segments | `customers/segments` | reading, validating, matching, loosening |
| Analytics | `lib/analytics`, `orders/totals` | days of a zone, charts, cards, the facts of a review |
| Reports, ReportCases | one question of the reader a behaviour | the promises, and the catalogues |

Composition inside modules: ShopLifecycle and PlanReconcile **use** JobLease;
MarginGuard and Checkout call PricingEngine, OrderLimits and NetTerms;
Analytics ages invoices with NetTerms; OrderDoors reads amounts as Checkout
does. Where two components share state it is in one module: the mirror, the
webhooks, the backfill and the redaction of one buyer in Customers, the webhooks,
the merchant's requests and reminders of one order in OrderLedger.

What may be asked of an engine is a constant of Engines, and `QuestionsAssumption`
says of it what the code makes sure of before it asks: amounts are whole cents and
no less than nothing, rules have passed `validateRule`, a limit its own
validation, a cart is in one currency. TLC evaluates it for the catalogues in the
runs Desk and CheckoutSchedule; the theorems need nothing else of a question.

Some correspondences that are not obvious from a module:

* `Quotes` counts the job's rows (`waiting`, `orphaned`): JobLease with the
  rows' names forgotten, which lets a job queue itself without end in a finite
  model. `Allowed` and `Result` are the tables of `state.ts`.
* `PlanGate`'s `slack` counts what came in uncounted (a plan without the quota
  takes no lock, a restore asks nothing): the most the code can promise is that
  no more rows are live than plan and slack.
* `Redaction` holds *pieces*: a row that carries the buyer's id, the address as
  asked or in another case, or that hangs on another row. A statement takes the
  pieces its WHERE finds at that moment, by the ids read at the start of the
  attempt.
* `Checkout` keeps what was published as what was meant and the set of fields
  that do not read back, which is what the three codecs distinguish.
* `OrderDoors` derives both the node and the payload from one order, so that
  what the two readers make of it can be compared. What Shopify puts in either is
  external.
* A zone in `Analytics` is the hours ahead of UTC before and after its clocks
  change; the three ways the code finds a day's first instant are three
  operators.

## 4. Runs, bounds, fairness

| run | shows |
|---|---|
| JobQueueSafety | 2 runners, 1 producer, 2 rows, 2 attempts, 2 crashes: types, NeverAbandonedEarly, SingleExecution, TerminalIsFinal, and the refinement ImplementsLease |
| JobQueueSlow | handlers that overrun, a kind without a handler, 1 crash, fair: ClaimsDistinct, EventuallySettled |
| ShopAndQuotes | a shop with two uninstalls, three uninstalls and failures together, orders delivered late, nobody opening it: StampOnlyOnTheGone, PurgeIsComing, OnlyTheGonePurged; a quote with two requests, expiry, two pricings, a reopening, a failure: OrderedAsOffered, SentHasJob |
| Live | everything that has to end: NoneLost and EveryDeliveryAnswered (dispatch), GoneForGood (shop), SettledMeansTrue, SweepsEnd, CheckoutCatchesUp (plan), NeverCutOff, CacheHeals (subscription), NoneChecksForever (applications), BackfillEnds |
| Desk | what the merchant works with: InvoicesHonest, MirrorHonest, DecisionsStay (order), CheckoutIsTold (rules and limits), AccessMatches (applications), WorkIsKept (chains), QuotaKept (gate), BuyerAgrees, OthersTagsSurvive (customers), AgentHonest, Forgotten, PriceSound, GuardTells, AnswersHold (engines), ReportsHold (reading) |
| WebhookDispatchTwice, ShopLifecycleUnopened, PlanReconcileMidsweep, QuotesAccepted, CustomersGroupDeleted, CheckoutSchedule, BuyerHalfForgotten | refuted, section 5 |

**Parts.** `MCLive`, `MCDesk` and `MCShopAndQuotes` put several components in
one run. They share no variable, so a behaviour moves one of them: `part`,
chosen at the start, says which, and the others stay in one of their initial
states. That is not a loss: a step of one component is no step of another, and a
product of them would only repeat every state of one for each of another. The
type invariant of a run is the conjunction of its parts'.

**Bounds.** What each `Max...` caps is said beside its declaration. Two actors
(and a third where one is needed to be neither) are what every race here needs:
one whose knowledge is stale and one that made it so. Two or three events let
something change, change back, and be crossed by its own past; one kill and one
refusal, alone or together, are enough because a property that survives a
half-done operation is asked again of the next. Particular cases: `MaxAttempts
= 2` has a retry and a last attempt; three pages, or pages of one, a first, a
middle and a last; two uninstalls with a reinstall between are the shortest
history in which an old stamp can matter; two draftings and a reopening are a
quote sent at two prices; three events of an order (placed, changed,
changed again) let a delivery overtake two others; one approval, its undo and a
second application are the shortest history in which access is owed to two;
`Slots = 3` rows of a kind are a pending one, a running one and a duplicate.
Job ids suffice for every row the bounded events can queue, so nothing in a
fair run is blocked for want of an id. The catalogues of the engines were chosen
so that every branch is taken, and the mutants show that they tell.

`MCDesk` uses two actors and two things for all components, and TLC's symmetry
over both; `MCDesk` starts the ledger's buyer on one of two interchangeable
terms. `Live` uses no symmetry, with which liveness checking would be unsound.

**Fairness.** Weak fairness on each step of a request that has begun (a Node
handler whose awaited statements return goes on), on redelivery (Shopify's
retries), on the clock, and on claiming (cron calls the endpoint every minute).
No strong fairness is needed, and none is assumed of buyers, producers or
failures. One assumption is about people: the merchant goes on opening pages of
the app, where the property is about what a page view heals (CacheHeals). In `JobQueue`, whose
runner loops forever, the steps of one runner are one fair action. In `MCLive`
each part's fairness is guarded by `part`, so that no component owes a step in
a behaviour that is another's. The other modules are checked for safety only.

**Stopping.** In most runs something really ends: all webhooks answered, a
shop's changes used up, an engine's one question asked. Those runs do not check
deadlock; the queue's do.

Every property of a passing run has a mutant - a plausible bug of the same
line, the operator just above it - under which the same run refutes it.

## 5. Where the code and its words disagree

Seven are runs, listed as findings.

1. *A handled webhook is run again* (WebhookDispatchTwice). A row without
   handledAt is taken for a failed attempt while it is still running.
2. *A second life is never purged* (ShopLifecycleUnopened). Only a page view
   clears `piiPurgedAt`.
3. *A plan change in the middle of a sweep misses the first surfaces*
   (PlanReconcileMidsweep). The new sweep starts from the old cursor.
4. *An accepted quote does not stay accepted* (QuotesAccepted). The expiry job,
   and every request but a late buyer's, writes the status by id alone.
5. *A deleted group prices its members still* (CustomersGroupDeleted). Nothing
   republishes them.
6. *A schedule starts a day early at checkout* (CheckoutSchedule) in shops
   twelve or more hours ahead of UTC.
7. *A buyer is half forgotten* (BuyerHalfForgotten). A redaction that dies after
   it deleted the application is repeated without its id.

The guards of the passing runs' properties leave out other misfortunes, because
the code does not stand them. Each is in its module, and TLC refutes the
property once the guard lets it in; nothing in this list is promised by a
property or a theorem.

| property | misfortune | what the code then does |
|---|---|---|
| SingleExecution, TerminalIsFinal | `SlowHandlers` | the sweep takes any row RUNNING for fifteen minutes, a live handler's included |
| OnlyTheGonePurged, StampOnlyOnTheGone | "overlap" | the purge reads the tombstone, a page view restores the shop, the transaction deletes a live shop's data (`purge-shop-pii.server.ts:25`) |
| PurgeIsComing | "crossing" | the page view cancels the purge of an uninstall recorded since its restore; only shop/redact queues another |
| GoneForGood | "late" | an order webhook retried after the purge stores the buyer again, and every later purge finds the stamp and skips |
| SettledMeansTrue | "retry" | a plan writer that fails after its update is repeated, finds its own plan in the row and queues no sweep |
| CheckoutCatchesUp | "grace" | grace runs out by the clock, nothing is written and nothing sweeps |
| CacheHeals | "undated" beside "lost" | an empty answer is believed only of a row whose period is over (`subscription.server.ts:294-302`); a row that knows no end of its period - none was named when it was written - never believes one, so a lost cancellation is never noticed. A kept date that is past is believed: the row heals then |
| NeverCutOff | "overlapped", "crossed" | an older delivery, or what a page view read before, is written over a newer plan; under "late" the row may disagree at rest, but TLC finds nobody cut off by that alone, which is not proved |
| CheckoutIsTold (pause) | "unanswered" | a resume that throws after the ruleset reached the discount (a lost answer, the hash, the audit entry) puts back `pausedAt` and `pausePublishedAt` (`pause.server.ts:136-147`): paused, stamped as having reached checkout, and priced. A pause that throws there is silent and not said to have reached checkout |
| CheckoutIsTold (rules, limits) | "overlapped", "killed", "unanswered" | a push without its hash, or two pushes whose hashes are kept in the other order: a later edit back to what the hash names is spared the push it needs |
| BuyerAgrees | "reordered" | an older payload - one answered 500 and sent again - is written over a newer one: old tags come back, a deleted buyer is there again (`sync.server.ts:178-195` asks nothing of its age) |
| MirrorHonest | "reordered", "overlapped", "backfilled" | an order's row keeps an older revision |
| InvoicesHonest | "doubled", "killed" | two payments recorded at once count as one; two clicks send two reminders |
| SentHasJob | `SendsMayDie` | a sending dies between its update and the end of its enqueue: nothing expires the quote |
| NoneChecksForever | "killed" | a request dies between storing an application and queueing its screening: it says checking until another comes |
| WorkIsKept | "abandoned", "uninstalled" | the page view that installs dies before it has queued everything; a chain of `audit.purge` that ended while a shop was gone stays ended until a settings or activity page is opened |
| AccessMatches | "overlapped" | two deciders of one application cross |

Visible with the same modules, and asked by no property:

* A kill in a pause leaves the shop priced and said to be paused.
* Undoing an approval takes what another application was granted
  (`decisions.server.ts:309`). Two turns may both rank a conversation's outcome;
  one that read the thread before a take-over may still answer.
* A shop row first made by `app/uninstalled` gets no backfill on a later restore.

Visible in the code and outside the modules' state, or left open by a guard of a
property:

* *Jobs and shop.* Purge summaries rewritten after the transaction stay blank if
  it dies (`purge-shop-pii.server.ts:127`). `planReconciledAt` never goes back to
  null, to which `schema.prisma:282` gives a meaning. A row backed off since the
  batch was read is claimed in its backoff (`runner.server.ts:61`). "An
  interrupted one is still queued with its cursor" (`ensure-shop.server.ts:126`)
  is not so after an uninstall.
* *Quotes.* Two accepts at once, or one repeated after its last write failed,
  make two draft orders; the buyer's page accepts by id, so a quote re-priced
  while it is open is accepted at prices it never showed; two drafts at once take
  one number.
* *Rules and limits.* Overlapping cart value tiers pass `validateRule`, and the
  margin guard misses them (`margin.ts:174`). A dropped, unreadable limit lets
  the store-wide one apply; one whose group does not read back becomes
  store-wide. Two first saves of the store-wide limit both create a row, since a
  unique index does not compare nulls (`limits.server.ts:143-146`). Deleting a
  group cascades its limit and publishes nothing. The audit text of `deleteLimit`
  is wrong when a store-wide limit exists. A maximum that is not a multiple of
  its cases sends a buyer over it; a maximum of 0 is accepted.
* *Shown and charged.* Quick order and quotes price each line as if it were the
  whole order, checkout by the whole cart for cart value tiers
  (`quick-order.server.ts:232-233` says they cannot disagree); quick order knows
  no company; a rule that leaves markets out holds in quick order and is dropped
  at checkout; a fixed price above list is shown and not charged. The terms
  Function multiplies by a hundred whatever the currency
  (`extensions/mannon-terms/src/run.ts:41-46`, against the same bug told of in
  the limits Function); a ceiling that does not read back is no ceiling.
* *Import and criteria.* In a file of quantity breaks a row with a blank minimum
  is listed and adds nothing, an unknown kind of discount becomes an amount off
  (`plan.ts:347-366`), later rows' SKUs are ignored; elsewhere a blank fixed
  price plans a price of zero without a warning, and a blank applies_to with SKUs
  targets everything (`plan.ts:106-109`). Of approval criteria, unreadable
  values in a "not in" list are dropped and widen it, "has upload" with an
  unreadable key means any upload, a null threshold is 0 (`approval.ts:240-253`).
* *Orders.* A row first written from a payload without lines is not flagged as
  missing them; a backfill page of 50 lines replaces a webhook's whole 99 and
  flags it; a draft order's discount is unnamed by the one door and absent by
  the other. A settled invoice whose total rises is not listed
  (`terms.server.ts:82`).
* *Reading.* Where an audit entry and an order share an instant, the merge sorts
  by "audit:..." and "order:..." and the cursor compares ids of two tables: a row may be
  skipped or repeated, against "exactly the rows one ordered table would have
  given" (`feed.server.ts:317-331`). `readConditions` drops what it cannot read,
  which widens a segment; "is not" drops customers with no group or country; more
  than and at least so many days ago are the same. A window of seven days has
  eight when clocks go back late in the evening (`charts.server.ts:184-190`).
  "Everything in this chart adds up to" leaves out the rest
  (`answer.server.ts:132-140`). An invoice due earlier today is overdue in a
  review and not in the aging. A line with two discounts counts for both rules.
* *Redaction.* The rewrite of documents is case-sensitive and the search for
  them is not; a company's name in a stored review is never searched for.
* *Buyer agent.* A reply that fails after a quote was requested leaves the chip
  FAILED, and a buyer who asks again files two; after an idle hour a taken-over
  conversation is not joined and the agent answers again; the rehearsal limit is
  never asked for; an exception in a tool leaves a buyer's message unanswered.

## 6. What is proved

Every safety invariant and action property that a passing run checks is a
theorem too, but for one conjunction: ReportsHold, of what is read by cursors,
charts and segments, of which some facts are theorems. A theorem holds for every
value of the constants: any sets of rows, requests, runners, buyers, amounts and
tags, any page sizes and bounds, under the modules' named assumptions, which TLC
evaluates in the runs. The misfortunes a property stands are in its own
statement, and what is proved is no more than that statement: below, each is
said beside its theorem. Where a theorem needs one more left out, it says so as
a hypothesis on a constant. What follows is the strengthening each proof needs,
and why: an invariant says what holds of the tables, and is hardly ever kept up
by a step unless it also says what the requests under way have read.

**`JobQueueProofs`**: `TypeCorrect`, `ClaimsAreDistinct`, `NoneAbandonedEarly`,
`ExecutionIsSingle`, `TerminalsAreFinal`, and `LeaseImplemented`, the refinement
of `JobLease`. They rest on `Inductive`: `Spec => []IInv`. What is missing in
the three invariants is how far a runner's knowledge lags behind the row:
`RunnersLag` says that the attempts a runner read never exceed the row's, and
that those of the row it is executing are below the number of its own claim,
which is at most the row's count. From it follow NeverAbandonedEarly (the count
a failure is judged by is at most the true one) and ClaimsDistinct (the next
claim gets a number nobody holds). `SingleExecution` is inductive with the
types: a row is taken back only when stuck, and without slow handlers it is
stuck only when nobody holds it.

**`LiveProofs`**, of the run Live and its parts. The shop: `LifeTypesHold`;
`LiveIsUnstamped` (StampOnlyOnTheGone) and `OnlyTheGoneArePurged`, by
`TransactsOnTheGone`: a run that is about to purge purges a shop that is gone;
`PurgeComes` (PurgeIsComing). The last speaks of quiet states only and is far
from inductive, for a leased row may be about to be reported over without a
purge: `Assured` says of every state that a delivery is outstanding or some row
is `ToBeTried`, which a row whose handler has decided to skip is not.
Hypotheses: for the first two, no page view restores the shop between a purge's
read and its transaction ("overlap" not in `Crossings`); for the third, no
uninstall falls between a page view's restore and its cancelling ("crossing").
Under either the code breaks the promise (section 5). Of the webhooks:
`TypeCorrect`; `NothingIsLost` (NoneLost), by `Placed`: a request about to mark
has run its handler, and one about to answer a subscribed webhook has seen it
marked; `ReplaysAreNoOps` (HandledIsNotRunAgain) under ~Concurrent, by `Alone`.
The run WebhookDispatchTwice shows that this hypothesis cannot be dropped.

The sweep: `ReconcileTypesHold`, `CheckoutSettles` (SettledMeansTrue: the plan
changes one at a time, by a webhook handled at its first attempt, not by the
clock). A run that dies after it queued the next page leaves two rows over one
cursor. `Swept`: the cursor, and every run under way, has everything up to it
published. `Ahead`: what is not published, and a cursor that is not null, has a
row that is pending, or held by a run that has yet to advance or to queue the
next. `Quiet`: a change of plan finds all of it at rest. The subscription:
`CacheTypesHold`, `PayingIsNeverCutOff` (NeverCutOff), for any number of
subscriptions, deliveries and requests: a merchant who pays for a period not
known to be over is not dropped to Free while no delivery is late, overlaps
another or crosses a page view; the row's agreement at rest asks besides that
none is lost and no answer hides a subscription, and stands periods whose end is
not told. A delivery holds a state its subscription was in and says it is live
only if it was then; what keeps a writer from acting on an old one is that a
newer live subscription, if there is one, is cached, on its way, or in the hands
of a request that has yet to write. The whole: `LiveTypesHold` (LiveTypesOK), by
`LiveHasParts`: a step of the run is a step or a stutter of each part, so that
each part's behaviour is one of its own specification and every theorem about
that is one about the run.

**`QuotesProofs`**: `TypeCorrect`; `OrdersFollowOffers` (OrderedAsOffered). It
speaks only of what was ordered; `Locked` adds what is about to be: the lines of
a quote that is out are none or were sent with it, because a drafting replaces
lines and status in one transaction, and so are the lines an accept has read,
whatever was done since, for `offered` only grows. `SentQuotesExpire`
(SentHasJob), if no request dies between sending and queueing (~SendsMayDie;
section 5 says what becomes of a quote otherwise).

**`OrderLedgerProofs`**: `LedgerTypesHold`; `InvoicesStayHonest`
(InvoicesHonest), by the one clerk at work, whose reading nobody has overwritten
(`Reckoned`, `Chasing`); `MirrorStaysHonest` (MirrorHonest): each delivery that
is out, in Shopify's outbox or in a handler's hands, tells the truth of its
revision (`Truth`), they come in order (`Ordered`), and the newest revision is
on its way or is the one the row has (`Latest`); `DecisionsAreKept`
(DecisionsStay), by `Decided`: a handler at work holds the row's own decision.

**`ApplicationsProofs`**. Chains: `ChainTypesHold`, `WorkKeptUp` (WorkIsKept),
of a shop that has not been uninstalled and whose installing page view came to
its end, whatever runs fail and runners die; of backfills where no runner dies.
A chain rests on a row still to come (`Coming`): one that waits, or whose run
has not passed the place where it queues the next - which is first of all in
most jobs and last in one. A backfill rests on its one thread (`OneThread`),
whose pages are those up to the cursor (`PagesRead`). Applications:
`ApplicationTypesHold`, `ApprovalsAreBacked` (AccessMatches): what an approval
under way has already granted and an undo already withheld (`Granting`,
`Withheld`), on an application still as it was read, and that the evaluator
decides an application once (`Once`).

**`DeskProofs`**, of the run Desk. Limits and rules: `LimitTypesHold`,
`LimitsStayAgreed` (LimitsAgree), `RulesetTypesHold`, `CheckoutStaysAgreed`
(CheckoutAgrees), for requests one at a time, none of which is killed or throws
after what it asked of Shopify was done - a refusal leaves the hash true and a
stamped pause silent, and that checkout agrees with the rows asks that there is
none -, by what the one request at work has read, which is still so when it
writes it, statement by statement, and by what a refused or killed publish
leaves: a hash that is that of checkout or none. Gate: `GateTypes`,
`NoQuotaPassed` (QuotaKept): the count of the one that holds the quota's lock is
still the rows there are, which only the lock makes true, for those who need no
lock add to `slack` what they add to the rows; a plan read before the lock may
be an older one, which is why the bound is the largest plan's. The whole:
`DeskHasParts` says of all nine parts what LiveHasParts says of Live's; from it
`CheckoutStaysTold` (CheckoutIsTold) and `DeskTypesHold` (DeskTypesOK).

**`BuyersProofs`**. Customers: `CustomerTypesHold`, `BuyersComeToAgree`
(BuyerAgrees), `TagsOfOthersSurvive` (OthersTagsSurvive). The second is for
operations one at a time and webhooks in order, of which one that is answered
500 comes again before the next, or never; that checkout agrees too asks that no
call is refused. Shopify's last word is the last delivery or has been taken
(`LastIsSo`); while deliveries wait nothing is owed, and when none does the one
operation at work has read what is still so (`StillSo`) and row and checkout
agree with it (`RowAgrees`, `CheckoutKnows`). Redaction: `RedactionTypesHold`,
`BuyersAreForgotten` (Forgotten): an attempt that has reached a statement has
emptied the areas before it (`GoneAt`), by the ids it read at its start, which
are all the rows there are (`RowsSeen`); the rows that hang on others go with
them or are reached first (`EntriesFollow`). `RedactionAssumption` says what
pieces a buyer can have left. Buyer agent: `AgentTypesHold`, `AgentStaysHonest`
(AgentHonest): by where a turn is, that no person had joined what it has read
(`HeardNone`), that what it ranks and tells was said (`Earned`, `ToldBy`), and
that an agent that is live was rehearsed and reviewed (`Ready`).

**`EnginesProofs`**: what the pure engines answer to any question that
`QuestionsAssumption` allows, not the catalogues' alone; SchedulesKeepTheirDays
and ShownIsAlwaysCharged ask besides that zones are from twelve hours behind UTC
to eleven ahead (CheckoutSchedule shows what happens beyond).

`PricesAlwaysSound` (PriceSound) is of the whole cascade, for any list of rules.
The folds the code walks its rules by are unrolled into sequences of values, one
a rule, and an induction over numbers (the least counterexample, by the
well-foundedness of Nat) carries along the walk that the price never rises and
is the exact product of the steps applied. That needs arithmetic the provers do
not have: Euclid's recursion gives a divisor of both numbers, so that a fraction
in lowest terms is the same fraction, and rounding half up is monotone
(`RoundsHalfUp`). Its four facts are theorems of their own: `PromisesAreKept`
(what is reported is what was done), `RoundsOnce` (one rounding, at the end, of
the exact product), `NoOrderIsSeen` (no listing of the same rules gives another
answer, for what sorting by a strict order returns is unique) and
`NextTierAlwaysCharged` (a buyer who adds the units the next tier is advertised
for is charged by it). `GuardAlwaysTells` (GuardTells: of every rule that passes
validation but cart value rules with overlapping tiers), by `GuardSeesIt`: the
buyer the guard makes up, and the quantities and subtotals it tries, stand for
any buyer at any quantity, since prices change only at the tiers' own bounds.
Fractions stay below 2^53: the collapse of `multiplyFraction` above it is left
out of PricingEngine.

`AnswersAlwaysHold` (AnswersHold) is nine theorems together, one of each of the
smaller engines; the two that ask what day it is in the shop carry the
hypothesis on zones above.

* `AdviceAlwaysWorks` (AdviceWorks; that the maximum is of whole cases is the
  property's own condition) and `SchedulesKeepTheirDays` (RunsOnItsDays) are
  arithmetic.
* `BlocksAlwaysAlike` (BlocksAlike) and `ShownIsAlwaysCharged` (ShownIsCharged):
  what is published reads back. Limits and rules are read one by one, and those
  that can be read are appended; of any sequence so taken apart the fold gives
  the sequence itself (`AddsUp`). A limit that lost bounds asks for less, bound
  by bound (`LostBoundsAskLess`). A buyer at checkout and the same buyer in quick
  order are reached by the same rules to the same effect (`SamePrice`): money
  goes out in decimals and comes back in minor units (`MoneyReadsBack`), noon UTC
  is in the shop's own day (`NoonIsToday`), and two buyers whom each rule reaches
  alike are priced alike, whatever the cascade (`PricedAlike`). A cart of which
  the discount Function is asked is one whose products it may lower
  (`CartAsked`).
* `TermsAlwaysAgree` (TermsAgree) and `PayLaterAlwaysAgrees` (PayLaterAgrees, for
  carts in a currency of two places): aging sums invoices over finite sets, whose
  sums do not depend on what is taken first (`LedgerAddsUp`); credit is cut off
  at the ceiling of the level that sets the days (`CreditIsCapped`).
* `TagsAlwaysSettle` (TagsSettle): when rules have spoken one after another there
  is one decision about each tag, whatever the spelling (`SpokenOnce`), so that
  a buyer who has what was decided is left alone.
* `ApprovalAlwaysNarrows` (ApprovalNarrows): as many criteria are read as were
  saved only where each can be read (`ReadOnesAre`), and an unreadable one closes
  the door.
* `ImportAlwaysTells` (ImportTells): the rows of a name are a file of that name
  alone, in the order of their lines (`OnlyRises`, `GroupIs`); a row's tier stays
  among the tiers, through every later row, unless one starts at the same
  quantity (`TiersAreThere`), and then the last_wins warning stands at a later
  line of the same rule.

Facts about one engine: `CreditStopsAtTheCeiling`, `CascadeIsAnOrder`,
`VolumeTiersDoNotCompete`, `RoundsHalfUp`, `PartsOfALineAddUp`,
`ConditionsNarrow`.

**Only model-checked.** Liveness (fairness and ENABLED are out of the prover's
reach). ReportsHold: feed, charts, doors and segments as wholes, which walk
pages and days by recursion over data. No module declares a recursive operator:
recursion is by functions and folds.

## 7. Not modelled

See the components marked `not_modelled` in `PROJECT.json`, and the notes of
those marked `partly`.

* **Text and layout**: prompts and what a model answers (`lib/ai`, the merchant
  agent), wording, messages, translations, CSV cells, drawing of charts, view
  models, emails. About half of the repository's implementation lines are
  components, routes and prompts of this kind; nothing in them is state another
  part reads. That is why the modules map a sixth of all lines while they have
  most of the code with control in `lib`, `packages` and `extensions`.
* **Tenant scope**: rewriting a query so that it names a shop is syntax; the
  models are of one shop, as every scoped query is.
* **Single-row settings**, forms as documents, the setup wizard, static tables,
  the plan-change page, tax exemption, notes, VAT checks, uploads: one request,
  one row, nobody else.
* **Product collections**: one metafield a product, written from one read.
* **External**: email delivery, the AI provider, time zones, Shopify beyond its
  deliveries, its metafields and its answers.
* What the abstractions of section 3 leave out of a modelled part is said in
  its module's head comment.

## 8. Running

    tlc -workers 2 -config JobQueueSafety.cfg MCJobQueue
    tlc -workers 2 -config ShopAndQuotes.cfg MCShopAndQuotes
    tlc -workers 2 -config Live.cfg MCLive
    tlc -workers 2 -config Desk.cfg MCDesk
    tlapm JobQueueProofs.tla        # and the seven other ...Proofs modules

`PROJECT.json` gives every run its module. The longest, Desk and ShopAndQuotes,
take about three minutes on two cores. Most proofs take a minute or two,
`LiveProofs` and `BuyersProofs` several, `DeskProofs` and `EnginesProofs` about
a quarter of an hour.
