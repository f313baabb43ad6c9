--------------------------- MODULE ShopLifecycle ---------------------------
(***************************************************************************)
(* The life of one shop's install record and of the personal data behind   *)
(* it: app/lib/shop/ensure-shop.server.ts (every page view),               *)
(* app/lib/webhooks/handlers/app-uninstalled.server.ts and                 *)
(* shop-redact.server.ts, and app/lib/jobs/handlers/                       *)
(* purge-shop-pii.server.ts, run by the job queue.                         *)
(*                                                                         *)
(* The queue is taken at its word: the purge rows are leased as JobLease   *)
(* says, and JobQueue is shown to implement JobLease.                      *)
(*                                                                         *)
(* The merchant, Shopify's deliveries, page views and the runner are       *)
(* concurrent.  Each handler is one database statement (or transaction) a  *)
(* step, so whatever it read may be stale when it writes.                  *)
(*                                                                         *)
(* Crossings names the orders of events, beyond the everyday ones, that a  *)
(* run includes:                                                           *)
(*   "overlap"   a page view restores the shop while a purge is between    *)
(*               its read and its transaction;                             *)
(*   "crossing"  an uninstall is recorded while a page view is between     *)
(*               its restore and its cancel;                               *)
(*   "unopened"  a reinstalled shop trades before anyone opens the app;    *)
(*   "late"      an order's webhook is delivered after the uninstall.      *)
(***************************************************************************)
EXTENDS Naturals

CONSTANTS
    PurgeRow,            \* ids of the shop's purge rows: 1, 2, ...
    Purger,         \* job runners
    MaxAttempts,    \* ScheduledJob.maxAttempts
    MaxUninstalls,  \* bound: uninstalls in one behaviour
    MaxEvents,      \* bound: uninstalls, and handlers, page views and runners
                    \* that fail, together
    Crossings

ASSUME LifecycleAssumption ==
    /\ PurgeRow \subseteq Nat
    /\ MaxAttempts \in Nat \ {0}
    /\ {MaxUninstalls, MaxEvents} \subseteq Nat
    /\ Crossings \subseteq {"overlap", "crossing", "unopened", "late"}

VARIABLES
    installed,  \* Shopify's own truth
    shopRow,     \* the Shop row: "none", "live" or "gone" (uninstalledAt set)
    purgedAt,   \* piiPurgedAt is set
    data,       \* buyers' and merchant's personal data is stored
    phase,      \* the purge rows, as JobLease has them
    holders,
    leases,
    due,        \* runAt <= now, for each purge row
    outbox,     \* deliveries Shopify has not been answered 200 for, per topic
    hook,       \* where the handler of each topic is
    known,      \* the redact handler read a row with uninstalledAt
    redactDue,  \* Shopify will send shop/redact, 48 hours after the uninstall
    lateOrder,  \* an order webhook from before the uninstall is outstanding
    pageView,       \* where the page view (ensureShopRecord) is
    purge,      \* where each runner's purge handler is
    uninstalls,
    failures

shopVars  == <<shopRow, purgedAt, data>>
queueVars == <<phase, holders, leases, due>>
hookVars  == <<outbox, hook, known>>
realVars  == <<installed, redactDue, lateOrder, uninstalls>>
lifeVars  == <<shopVars, queueVars, hookVars, realVars, pageView, purge, failures>>

PurgeQueue == INSTANCE JobLease WITH Job <- PurgeRow, Runner <- Purger

Topic == {"uninstall", "redact"}

LifeInit ==
    /\ installed = TRUE
    /\ shopRow = "none"
    /\ purgedAt = FALSE
    /\ data = FALSE
    /\ PurgeQueue!LeaseInit
    /\ due = [j \in PurgeRow |-> FALSE]
    /\ outbox = [t \in Topic |-> 0]
    /\ hook = [t \in Topic |-> "idle"]
    /\ known = FALSE
    /\ redactDue = FALSE
    /\ lateOrder = FALSE
    /\ pageView = "idle"
    /\ purge = [r \in Purger |-> "idle"]
    /\ uninstalls = 0
    /\ failures = 0

Eventful == uninstalls + failures < MaxEvents

Failure == Eventful /\ failures' = failures + 1

-----------------------------------------------------------------------------
(* The merchant and Shopify                                                *)

Uninstall ==
    /\ installed
    /\ Eventful /\ uninstalls < MaxUninstalls
    /\ installed' = FALSE
    /\ uninstalls' = uninstalls + 1
    /\ outbox' = [outbox EXCEPT !["uninstall"] = @ + 1]
    /\ redactDue' = TRUE
    /\ lateOrder' \in IF "late" \in Crossings THEN BOOLEAN ELSE {FALSE}
    /\ UNCHANGED <<shopVars, queueVars, hook, known, pageView, purge, failures>>

Reinstall ==
    /\ ~installed
    /\ installed' = TRUE
    /\ redactDue' = FALSE
    /\ UNCHANGED <<shopVars, queueVars, hookVars, lateOrder, uninstalls,
                   pageView, purge, failures>>

\* Requests last seconds and Shopify retries an order webhook for two days, so
\* both are over by the time shop/redact is sent.
SendRedact ==
    /\ ~installed
    /\ redactDue
    /\ pageView = "idle"
    /\ ~lateOrder
    /\ outbox' = [outbox EXCEPT !["redact"] = @ + 1]
    /\ redactDue' = FALSE
    /\ UNCHANGED <<shopVars, queueVars, hook, known, installed, lateOrder, uninstalls,
                   pageView, purge, failures>>

\* The order and customer webhooks store personal data and never look at
\* uninstalledAt.
OrderMirrored ==
    /\ \/ /\ installed /\ (shopRow = "gone" => "unopened" \in Crossings)
          /\ lateOrder' = lateOrder
       \/ lateOrder /\ lateOrder' = FALSE
    /\ data' = TRUE
    /\ UNCHANGED <<shopRow, purgedAt, queueVars, hookVars, installed, redactDue,
                   uninstalls, pageView, purge, failures>>

-----------------------------------------------------------------------------
(* enqueueJob("shop.purge_pii", replacePending) and cancelPendingJobs      *)

CancelPurges ==
    /\ PurgeQueue!Withdraw({j \in PurgeRow : phase[j] = "waiting"})
    /\ UNCHANGED due

QueuePurge(now) ==
    \E j \in PurgeRow :
        /\ \A i \in PurgeRow : i < j => phase[i] # "none"
        /\ PurgeQueue!Post(j)
        /\ due' = [due EXCEPT ![j] = now]

BecomesDue(j) ==
    /\ phase[j] = "waiting"
    /\ ~due[j]
    /\ due' = [due EXCEPT ![j] = TRUE]
    /\ UNCHANGED <<shopVars, phase, holders, leases, hookVars, realVars,
                   pageView, purge, failures>>

-----------------------------------------------------------------------------
(* Webhook handlers.  A delivery is answered, and leaves the outbox, only  *)
(* at the end of its handler; one that fails is delivered again.           *)

Answered(t) == [outbox EXCEPT ![t] = @ - 1]

HookGoes(t, l) == hook' = [hook EXCEPT ![t] = l]

Deliver(t) ==
    /\ outbox[t] > 0
    /\ hook[t] = "idle"
    /\ HookGoes(t, "record")
    /\ UNCHANGED <<shopVars, queueVars, outbox, known, realVars, pageView,
                   purge, failures>>

\* handleAppUninstalled: uninstalledAt keeps its first value, a missing row is
\* created with one, and piiPurgedAt is left as it is.
Tombstone ==
    /\ hook["uninstall"] = "record"
    /\ pageView = "cancel" => "crossing" \in Crossings
    /\ shopRow' = "gone"
    /\ HookGoes("uninstall", "cancel")
    /\ UNCHANGED <<purgedAt, data, queueVars, outbox, known, realVars,
                   pageView, purge, failures>>

\* Mutant: any row counts as an uninstall on record.
AnyRowIsAnUninstall == shopRow # "none"

HadUninstall == shopRow = "gone"

\* handleShopRedact reads first ...
RedactReads ==
    /\ hook["redact"] = "record"
    /\ known' = HadUninstall
    /\ HookGoes("redact", IF known' THEN "cancel" ELSE "write")
    /\ UNCHANGED <<shopVars, queueVars, outbox, realVars, pageView, purge,
                   failures>>

\* ... and tombstones a shop it read as installed or missing.
RedactTombstones ==
    /\ hook["redact"] = "write"
    /\ pageView = "cancel" => "crossing" \in Crossings
    /\ shopRow' = "gone"
    /\ HookGoes("redact", "cancel")
    /\ UNCHANGED <<purgedAt, data, queueVars, outbox, known, realVars,
                   pageView, purge, failures>>

HookCancels(t) ==
    /\ hook[t] = "cancel"
    /\ CancelPurges
    /\ HookGoes(t, "create")
    /\ UNCHANGED <<shopVars, outbox, known, realVars, pageView, purge,
                   failures>>

\* In 47 hours, or at once when shop/redact finds the uninstall on record.
HookCreates(t) ==
    /\ hook[t] = "create"
    /\ QueuePurge(t = "redact" /\ known)
    /\ HookGoes(t, "idle")
    /\ outbox' = Answered(t)
    /\ UNCHANGED <<shopVars, known, realVars, pageView, purge, failures>>

\* Mutant: the error is swallowed and the delivery answered 200.
HookFailsSilently(t) ==
    /\ hook[t] # "idle"
    /\ Failure
    /\ HookGoes(t, "idle")
    /\ outbox' = Answered(t)
    /\ UNCHANGED <<shopVars, queueVars, known, realVars, pageView, purge>>

HookFails(t) ==
    /\ hook[t] # "idle"
    /\ Failure
    /\ HookGoes(t, "idle")
    /\ UNCHANGED <<shopVars, queueVars, outbox, known, realVars, pageView,
                   purge>>

-----------------------------------------------------------------------------
(* ensureShopRecord, from the layout loader of every admin page            *)

ViewReads ==
    /\ pageView = "idle"
    /\ installed
    /\ shopRow # "live"
    /\ pageView' = IF shopRow = "none" THEN "create" ELSE "restore"
    /\ UNCHANGED <<shopVars, queueVars, hookVars, realVars, purge, failures>>

\* The row is created, with defaults, unless a webhook created it meanwhile.
ViewCreates ==
    /\ pageView = "create"
    /\ shopRow' = IF shopRow = "none" THEN "live" ELSE shopRow
    /\ pageView' = "idle"
    /\ UNCHANGED <<purgedAt, data, queueVars, hookVars, realVars, purge,
                   failures>>

\* Mutant: the stamp of the last purge survives the reinstall.
RestoredWithStamp == shopRow' = "live" /\ UNCHANGED purgedAt

Restored == shopRow' = "live" /\ purgedAt' = FALSE

ViewRestores ==
    /\ pageView = "restore"
    /\ (\E r \in Purger : purge[r] = "transact") => "overlap" \in Crossings
    /\ Restored
    /\ pageView' = "cancel"
    /\ UNCHANGED <<data, queueVars, hookVars, realVars, purge, failures>>

ViewCancels ==
    /\ pageView = "cancel"
    /\ CancelPurges
    /\ pageView' = "idle"
    /\ UNCHANGED <<shopVars, hookVars, realVars, purge, failures>>

ViewFails ==
    /\ pageView # "idle"
    /\ Failure
    /\ pageView' = "idle"
    /\ UNCHANGED <<shopVars, queueVars, hookVars, realVars, purge>>

-----------------------------------------------------------------------------
(* purgeShopPii, under the runner                                          *)

ClaimPurge(r, j) ==
    /\ purge[r] = "idle"
    /\ due[j]
    /\ PurgeQueue!Take(r, j)
    /\ purge' = [purge EXCEPT ![r] = "read"]
    /\ UNCHANGED <<shopVars, due, hookVars, realVars, pageView, failures>>

\* Mutant: only the stamp is asked.
MayPurgeUnstamped == shopRow # "none" /\ ~purgedAt

MayPurge == shopRow = "gone" /\ ~purgedAt

\* Skipped when there is no row, no uninstall, or a purge already done.
PurgeReads(r) ==
    /\ purge[r] = "read"
    /\ purge' = [purge EXCEPT ![r] =
                    IF MayPurge THEN "transact" ELSE "report"]
    /\ UNCHANGED <<shopVars, queueVars, hookVars, realVars, pageView, failures>>

\* One transaction: every table emptied, the stamp set.  It asks nothing of the
\* shop row again.
PurgeTransacts(r) ==
    /\ purge[r] = "transact"
    /\ purgedAt' = TRUE
    /\ data' = FALSE
    /\ purge' = [purge EXCEPT ![r] = "report"]
    /\ UNCHANGED <<shopRow, queueVars, hookVars, realVars, pageView, failures>>

PurgeReports(r) ==
    /\ purge[r] = "report"
    /\ \E j \in PurgeRow : PurgeQueue!Report(r, j) /\ phase'[j] = "over"
    /\ purge' = [purge EXCEPT ![r] = "idle"]
    /\ UNCHANGED <<shopVars, due, hookVars, realVars, pageView, failures>>

\* Mutant: the last attempt is never made.
UsedUpEarly(j) == leases[j] + 1 >= MaxAttempts

UsedUp(j) == leases[j] >= MaxAttempts

\* The handler throws: another attempt later, until they are used up.
PurgeFails(r) ==
    /\ purge[r] # "idle"
    /\ Failure
    /\ \E j \in PurgeRow :
          /\ PurgeQueue!Report(r, j)
          /\ phase'[j] = IF UsedUp(j) THEN "over" ELSE "waiting"
          /\ due' = [due EXCEPT ![j] = FALSE]
    /\ purge' = [purge EXCEPT ![r] = "idle"]
    /\ UNCHANGED <<shopVars, hookVars, realVars, pageView>>

\* The process is killed; requeueStuckJobs returns the row.
PurgeDies(r) ==
    /\ purge[r] # "idle"
    /\ Failure
    /\ \E j \in PurgeRow : PurgeQueue!Die(r, j)
    /\ purge' = [purge EXCEPT ![r] = "idle"]
    /\ UNCHANGED <<shopVars, due, hookVars, realVars, pageView>>

RequeuePurge(j) ==
    /\ PurgeQueue!TakeBack({j})
    /\ UNCHANGED <<shopVars, due, hookVars, realVars, pageView, purge,
                   failures>>

-----------------------------------------------------------------------------

HookStep(t)  == Deliver(t) \/ HookCancels(t) \/ HookCreates(t)
RedactStep   == RedactReads \/ RedactTombstones
PageViewStep     == ViewCreates \/ ViewRestores \/ ViewCancels
PurgeStep(r) == PurgeReads(r) \/ PurgeTransacts(r) \/ PurgeReports(r)

LifeNext ==
    \/ Uninstall \/ Reinstall \/ SendRedact \/ OrderMirrored
    \/ Tombstone \/ RedactStep \/ ViewReads \/ PageViewStep \/ ViewFails
    \/ \E t \in Topic : HookStep(t) \/ HookFails(t)
    \/ \E j \in PurgeRow : BecomesDue(j) \/ RequeuePurge(j)
    \/ \E r \in Purger : PurgeStep(r) \/ PurgeFails(r) \/ PurgeDies(r)
    \/ \E r \in Purger, j \in PurgeRow : ClaimPurge(r, j)

LifeSpec == LifeInit /\ [][LifeNext]_lifeVars

\* Shopify keeps delivering, requests and runs that do not fail end, cron keeps
\* running.  Nobody is obliged to install, to uninstall or to open the app.
LifeFairness ==
    /\ WF_lifeVars(SendRedact) /\ WF_lifeVars(Tombstone)
    /\ WF_lifeVars(RedactStep) /\ WF_lifeVars(PageViewStep)
    /\ WF_lifeVars(lateOrder /\ OrderMirrored)
    /\ \A t \in Topic : WF_lifeVars(HookStep(t))
    /\ \A j \in PurgeRow :
          /\ WF_lifeVars(BecomesDue(j))
          /\ WF_lifeVars(RequeuePurge(j))
    /\ \A r \in Purger :
          /\ WF_lifeVars(PurgeStep(r))
          /\ WF_lifeVars(\E j \in PurgeRow : ClaimPurge(r, j))

LifeFairSpec == LifeSpec /\ LifeFairness

-----------------------------------------------------------------------------
(* Properties                                                              *)

LifeTypeOK ==
    /\ installed \in BOOLEAN /\ redactDue \in BOOLEAN /\ lateOrder \in BOOLEAN
    /\ purgedAt \in BOOLEAN /\ data \in BOOLEAN /\ known \in BOOLEAN
    /\ shopRow \in {"none", "live", "gone"}
    /\ phase \in [PurgeRow -> {"none", "waiting", "leased", "over"}]
    /\ holders \in [PurgeRow -> SUBSET Purger]
    /\ leases \in [PurgeRow -> Nat]
    /\ due \in [PurgeRow -> BOOLEAN]
    /\ outbox \in [Topic -> Nat]
    /\ hook \in [Topic -> {"idle", "record", "write", "cancel", "create"}]
    /\ pageView \in {"idle", "create", "restore", "cancel"}
    /\ purge \in [Purger -> {"idle", "read", "transact", "report"}]
    /\ uninstalls \in 0 .. MaxUninstalls
    /\ failures \in 0 .. MaxEvents

\* "Skipped if the shop has been reinstalled in the meantime: deleting a live
\* merchant's data would be far worse than keeping a stale row"
\* (purge-shop-pii.server.ts): data is deleted only while the tombstone stands.
OnlyTheGonePurged == [][data /\ ~data' => shopRow = "gone"]_lifeVars

\* "The stamp records that the last uninstall was dealt with; a new install is
\* a new life" (ensure-shop.server.ts): a live shop never carries the stamp
\* that makes the next purge skip it.
StampOnlyOnTheGone == purgedAt => shopRow = "gone"

\* "The PII purge is scheduled at +47h - inside the 48h GDPR window"
\* (docs/adr/0004): whenever no webhook and no page view is in progress, a
\* tombstoned shop that was not purged has a purge coming, unless one used up
\* its attempts.
PurgeIsComing ==
    /\ shopRow = "gone" /\ ~purgedAt
    /\ \A t \in Topic : outbox[t] = 0 /\ hook[t] = "idle"
    /\ pageView = "idle"
    => \E j \in PurgeRow :
          phase[j] \in {"waiting", "leased"} \/ leases[j] >= MaxAttempts

\* "Two signals for one promise" (shop-redact.server.ts): once a merchant is
\* gone for good, whatever failed or came late, their data is gone in the end.
GoneIsPurged == <>[]~installed => <>[]~data

\* A tombstone only ever ends in a page view, and none is begun by a merchant
\* who is gone: once the app was removed for good the tombstone stays.
GoneStaysGone == <>[]~installed => <>[](shopRow = "gone")
=============================================================================
