--------------------------- MODULE PlanReconcile ---------------------------
(***************************************************************************)
(* Making the plan true at checkout: the two writers of the cached plan    *)
(* (app/lib/billing/subscription.server.ts and app/lib/webhooks/handlers/  *)
(* app-subscriptions-update.server.ts) queue billing.reconcile, and        *)
(* app/lib/jobs/handlers/reconcile-plan.server.ts republishes what         *)
(* Shopify evaluates on its own: the ruleset and the limits (surface 0)    *)
(* and the net terms of every buyer, a page at a time (surfaces 1, 2, ...).*)
(*                                                                         *)
(* The job table is taken as JobLease specifies it.  Every publisher asks  *)
(* the plan for itself and then writes its metafield: two steps.           *)
(*                                                                         *)
(* `schedule`, one of Schedules and fixed in a behaviour, says what it      *)
(* includes beyond one change at a time:                                   *)
(*   "midsweep"  the plan changes while a sweep is queued or under way;    *)
(*   "grace"     a past-due plan lapses because its grace period ran out;  *)
(*   "retry"     the plan writer fails, and its webhook is sent again.     *)
(***************************************************************************)
EXTENDS Naturals

CONSTANTS
    Plan,           \* effective plans
    InitialPlan,
    LapsedPlan,     \* the plan that applies once grace has run out
    Buyers,         \* how many buyers have net terms, in the order of their ids
    PageSize,       \* RECONCILE_PAGE_SIZE
    SweepRow, Sweeper,    \* ids of reconcile rows 1, 2, ... and job runners
    NoPlan,
    MaxChanges,     \* bound: plan changes
    MaxMisses,      \* bound: runs and writers that fail or are killed
    Schedules

ASSUME ReconcileAssumption ==
    /\ {InitialPlan, LapsedPlan} \subseteq Plan
    /\ NoPlan \notin Plan
    /\ Buyers \in Nat
    /\ PageSize \in Nat \ {0}
    /\ SweepRow \subseteq Nat
    /\ MaxChanges \in Nat
    /\ MaxMisses \in Nat
    /\ Schedules \subseteq SUBSET {"midsweep", "grace", "retry"}

Surface == 0 .. Buyers

VARIABLES
    schedule,
    plan,       \* the effective plan, as loadEntitlements computes it
    message,    \* the plan in a delivery Shopify still owes, or NoPlan
    writer,     \* where its handler is
    reconcileCursor,    \* planReconcileCursor; 0 is null
    shown,      \* the plan each surface was last published for
    sweepPhase, sweepHolders, sweepLeases,  \* the reconcile rows, as in JobLease
    sweep,      \* where each runner's reconcilePlan is
    from,       \* the cursor it read
    at,         \* the surface it is publishing
    planRead,      \* the plan the publisher read
    changes, misses

rowVars  == <<sweepPhase, sweepHolders, sweepLeases>>
writerVars == <<schedule, plan, message, writer>>
sweepVars  == <<sweep, from, at, planRead>>
reconcileVars ==
    <<writerVars, reconcileCursor, shown, rowVars, sweepVars, changes, misses>>

SweepQueue == INSTANCE JobLease WITH
    Job <- SweepRow, Runner <- Sweeper, phase <- sweepPhase,
    holders <- sweepHolders, leases <- sweepLeases

ReconcileInit ==
    /\ schedule \in Schedules
    /\ plan = InitialPlan
    /\ message = NoPlan
    /\ writer = "idle"
    /\ reconcileCursor = 0
    /\ shown = [s \in Surface |-> InitialPlan]
    /\ SweepQueue!LeaseInit
    /\ sweep = [r \in Sweeper |-> "idle"]
    /\ from = [r \in Sweeper |-> 0]
    /\ at = [r \in Sweeper |-> 0]
    /\ planRead = [r \in Sweeper |-> NoPlan]
    /\ changes = 0
    /\ misses = 0

Miss == misses < MaxMisses /\ misses' = misses + 1

NoSweep == \A j \in SweepRow : sweepPhase[j] \in {"none", "over"}

\* A row is inserted, due at once: the first id not used yet.
QueueSweep ==
    \E j \in SweepRow :
        /\ \A i \in SweepRow : i < j => sweepPhase[i] # "none"
        /\ SweepQueue!Post(j)

-----------------------------------------------------------------------------
(* The plan and its writers                                                *)

\* The merchant subscribes, upgrades or cancels, and Shopify reports it.
MerchantChanges(p) ==
    /\ changes < MaxChanges
    /\ message = NoPlan
    /\ p # plan
    /\ NoSweep \/ "midsweep" \in schedule
    /\ changes' = changes + 1
    /\ message' = p
    /\ UNCHANGED <<schedule, plan, writer, reconcileCursor, shown, rowVars,
                   sweepVars, misses>>

\* A past-due plan ends with its grace period: entitlementsFor answers the
\* lapsed plan from then on, and nothing is written or queued.
GraceRunsOut ==
    /\ "grace" \in schedule
    /\ changes < MaxChanges
    /\ message = NoPlan
    /\ plan # LapsedPlan
    /\ changes' = changes + 1
    /\ plan' = LapsedPlan
    /\ UNCHANGED <<schedule, message, writer, reconcileCursor, shown, rowVars,
                   sweepVars, misses>>

\* The row is updated; a reconcile is queued only if the row moved.
WriterUpdates ==
    /\ writer = "idle"
    /\ message # NoPlan
    /\ plan' = message
    /\ IF plan = message
       THEN message' = NoPlan /\ UNCHANGED writer
       ELSE writer' = "cancel" /\ UNCHANGED message
    /\ UNCHANGED <<schedule, reconcileCursor, shown, rowVars, sweepVars,
                   changes, misses>>

\* replacePending: the waiting rows are cancelled, the cursor is not reset ...
WriterCancels ==
    /\ writer = "cancel"
    /\ SweepQueue!Withdraw({j \in SweepRow : sweepPhase[j] = "waiting"})
    /\ writer' = "create"
    /\ UNCHANGED <<schedule, plan, message, reconcileCursor, shown, sweepVars,
                   changes, misses>>

\* ... and a new one is created.
WriterCreates ==
    /\ writer = "create"
    /\ QueueSweep
    /\ writer' = "idle"
    /\ message' = NoPlan
    /\ UNCHANGED <<schedule, plan, reconcileCursor, shown, sweepVars, changes,
                   misses>>

WriterFails ==
    /\ "retry" \in schedule
    /\ writer # "idle"
    /\ Miss
    /\ writer' = "idle"
    /\ UNCHANGED <<schedule, plan, message, reconcileCursor, shown, rowVars,
                   sweepVars, changes>>

-----------------------------------------------------------------------------
(* reconcilePlan, under the runner                                         *)

SweepGoes(r, l) == sweep' = [sweep EXCEPT ![r] = l]

ClaimSweep(r, j) ==
    /\ sweep[r] = "idle"
    /\ SweepQueue!Take(r, j)
    /\ SweepGoes(r, "read")
    /\ UNCHANGED <<writerVars, reconcileCursor, shown, from, at, planRead,
                   changes, misses>>

\* Mutant: one buyer more than the cursor's is skipped.
FirstAfterNext(c) == IF c = 0 THEN 0 ELSE c + 2

First(c) == IF c = 0 THEN 0 ELSE c + 1

\* The first page of a sweep begins with surface 0, a later one after its cursor.
SweepReads(r) ==
    /\ sweep[r] = "read"
    /\ from' = [from EXCEPT ![r] = reconcileCursor]
    /\ at' = [at EXCEPT ![r] = First(reconcileCursor)]
    /\ SweepGoes(r, IF First(reconcileCursor) <= Buyers THEN "ask" ELSE "advance")
    /\ UNCHANGED <<writerVars, reconcileCursor, shown, rowVars, planRead,
                   changes, misses>>

More(r) == from[r] + PageSize < Buyers

Last(r) == IF More(r) THEN from[r] + PageSize ELSE Buyers

SweepAsks(r) ==
    /\ sweep[r] = "ask"
    /\ planRead' = [planRead EXCEPT ![r] = plan]
    /\ SweepGoes(r, "write")
    /\ UNCHANGED <<writerVars, reconcileCursor, shown, rowVars, from, at,
                   changes, misses>>

SweepWrites(r) ==
    /\ sweep[r] = "write"
    /\ shown' = [shown EXCEPT ![at[r]] = planRead[r]]
    /\ planRead' = [planRead EXCEPT ![r] = NoPlan]
    /\ IF at[r] = Last(r)
       THEN SweepGoes(r, "advance") /\ UNCHANGED at
       ELSE SweepGoes(r, "ask") /\ at' = [at EXCEPT ![r] = @ + 1]
    /\ UNCHANGED <<writerVars, reconcileCursor, rowVars, from, changes, misses>>

\* Mutant: the cursor stays where the last page ended.
NextCursorKept(r) == Last(r)

NextCursor(r) == IF More(r) THEN Last(r) ELSE 0

SweepAdvances(r) ==
    /\ sweep[r] = "advance"
    /\ reconcileCursor' = NextCursor(r)
    /\ SweepGoes(r, IF More(r) THEN "enqueue" ELSE "report")
    /\ UNCHANGED <<writerVars, shown, rowVars, from, at, planRead, changes,
                   misses>>

SweepEnqueues(r) ==
    /\ sweep[r] = "enqueue"
    /\ QueueSweep
    /\ SweepGoes(r, "report")
    /\ UNCHANGED <<writerVars, reconcileCursor, shown, from, at, planRead,
                   changes, misses>>

\* The runner's own variables are gone with the run.
Forget(r) ==
    /\ SweepGoes(r, "idle")
    /\ from' = [from EXCEPT ![r] = 0]
    /\ at' = [at EXCEPT ![r] = 0]
    /\ planRead' = [planRead EXCEPT ![r] = NoPlan]

SweepReports(r) ==
    /\ sweep[r] = "report"
    /\ \E j \in SweepRow : SweepQueue!Report(r, j) /\ sweepPhase'[j] = "over"
    /\ Forget(r)
    /\ UNCHANGED <<writerVars, reconcileCursor, shown, changes, misses>>

\* An Admin API call or a statement throws; the row is retried.
SweepFails(r) ==
    /\ sweep[r] # "idle"
    /\ Miss
    /\ \E j \in SweepRow : SweepQueue!Report(r, j) /\ sweepPhase'[j] = "waiting"
    /\ Forget(r)
    /\ UNCHANGED <<writerVars, reconcileCursor, shown, changes>>

SweepDies(r) ==
    /\ sweep[r] # "idle"
    /\ Miss
    /\ \E j \in SweepRow : SweepQueue!Die(r, j)
    /\ Forget(r)
    /\ UNCHANGED <<writerVars, reconcileCursor, shown, changes>>

\* Mutant: the first row is not looked at.
StuckButFirst(j) == {j} \ {1}

Stuck(j) == {j}

\* requeueStuckJobs finds a row whose runner is gone.
RequeueSweep(j) ==
    /\ SweepQueue!TakeBack(Stuck(j))
    /\ UNCHANGED <<writerVars, reconcileCursor, shown, sweepVars, changes,
                   misses>>

-----------------------------------------------------------------------------

WriterStep == WriterUpdates \/ WriterCancels \/ WriterCreates
SweepStep(r) ==
    \/ SweepReads(r) \/ SweepAsks(r) \/ SweepWrites(r) \/ SweepAdvances(r)
    \/ SweepEnqueues(r) \/ SweepReports(r)

ReconcileNext ==
    \/ \E p \in Plan : MerchantChanges(p)
    \/ GraceRunsOut \/ WriterStep \/ WriterFails
    \/ \E r \in Sweeper : SweepStep(r) \/ SweepFails(r) \/ SweepDies(r)
    \/ \E r \in Sweeper, j \in SweepRow : ClaimSweep(r, j)
    \/ \E j \in SweepRow : RequeueSweep(j)

ReconcileSpec == ReconcileInit /\ [][ReconcileNext]_reconcileVars

\* Deliveries are repeated until answered, cron keeps running, and a run that
\* is not killed ends.
ReconcileFairness ==
    /\ WF_reconcileVars(WriterStep)
    /\ \A r \in Sweeper :
          /\ WF_reconcileVars(SweepStep(r))
          /\ WF_reconcileVars(\E j \in SweepRow : ClaimSweep(r, j))
    /\ \A j \in SweepRow : WF_reconcileVars(RequeueSweep(j))

ReconcileFairSpec == ReconcileSpec /\ ReconcileFairness

-----------------------------------------------------------------------------

ReconcileTypeOK ==
    /\ schedule \in Schedules
    /\ plan \in Plan
    /\ message \in Plan \cup {NoPlan}
    /\ writer \in {"idle", "cancel", "create"}
    /\ reconcileCursor \in 0 .. Buyers
    /\ shown \in [Surface -> Plan]
    /\ sweepPhase \in [SweepRow -> {"none", "waiting", "leased", "over"}]
    /\ sweepHolders \in [SweepRow -> SUBSET Sweeper]
    /\ sweepLeases \in [SweepRow -> Nat]
    /\ sweep \in [Sweeper ->
                 {"idle", "read", "ask", "write", "advance", "enqueue", "report"}]
    /\ from \in [Sweeper -> 0 .. Buyers]
    /\ at \in [Sweeper -> Surface]
    /\ planRead \in [Sweeper -> Plan \cup {NoPlan}]
    /\ changes \in 0 .. MaxChanges
    /\ misses \in 0 .. MaxMisses

\* "This is what makes them run at the moment the answer changes, in both
\* directions" (reconcile-plan.server.ts): once the plan's writer is done and no
\* sweep is left, every surface shows what the plan allows.
CheckoutIsTrue ==
    message = NoPlan /\ NoSweep => \A s \in Surface : shown[s] = plan

\* That holds while changes of plan come one at a time, each through its webhook
\* and none of its writers failing; pages of the sweep may fail and die.
SettledMeansTrue == schedule = {} => CheckoutIsTrue

\* "Buyers are paged like the backfills, with the cursor on the shop row"
\* (reconcile-plan.server.ts): sweeps come to an end, two of them sharing the
\* one cursor and moving it under each other included.
SweepsEnd == <>[]NoSweep

\* Withdrawn and restored, whatever pages failed or died on the way: where the
\* plan changes one at a time, by a webhook that is handled at the first attempt
\* (no lapse by the clock, no change while a sweep is queued or under way),
\* checkout comes to agree with it for good.
CheckoutCatchesUp ==
    <>[](schedule = {} => \A s \in Surface : shown[s] = plan)
=============================================================================
