------------------------------ MODULE JobQueue ------------------------------
(***************************************************************************)
(* The durable job table and its runner: app/lib/jobs/queue.server.ts,     *)
(* app/lib/jobs/runner.server.ts and the endpoint that drives them,        *)
(* app/routes/internal.jobs.run.tsx.                                       *)
(*                                                                         *)
(* A row of ScheduledJob is a member of Job.  Every query of the queue is  *)
(* scoped to one shop and one kind, so a (shop, kind) pair is one member   *)
(* of Kind here and the tenants need no other representation.              *)
(*                                                                         *)
(* A runner is one POST to the endpoint: it sweeps stuck rows, reads the   *)
(* due ones, then claims and executes them one at a time.  Several run at  *)
(* once whenever a request outlives the cron interval.  Every database     *)
(* statement is one step; what a runner read stays in its own variables    *)
(* until it uses it.                                                       *)
(*                                                                         *)
(* Abstracted: runAt and startedAt are the two answers the queries ask of  *)
(* them (due, stuck); the order of the due rows is any order; lastError    *)
(* and finishedAt are never read back.                                     *)
(***************************************************************************)
EXTENDS Naturals, FiniteSets

CONSTANTS
    Job,            \* row ids, each used at most once
    Kind,           \* (shop, kind) pairs
    KindOf,         \* the kind a row is created with
    Handled,        \* the kinds the deployed registry still has a handler for
    Runner,         \* requests to the runner endpoint
    Producer,       \* requests, webhooks and handlers that enqueue
    None,           \* no row, no kind
    MaxAttempts,    \* ScheduledJob.maxAttempts
    Limit,          \* how many due rows one runner reads (50 in the code)
    Unique,         \* the kinds only ever enqueued with replacePending
    MaxFaults,      \* bound: processes killed and handlers overrunning
    SlowHandlers    \* may a live handler outlast the stuck threshold?

ASSUME QueueAssumption ==
    /\ KindOf \in [Job -> Kind]
    /\ Handled \subseteq Kind
    /\ Unique \subseteq Kind
    /\ None \notin Job \cup Kind
    /\ MaxAttempts \in Nat \ {0}
    /\ Limit \in Nat \ {0}
    /\ MaxFaults \in Nat
    /\ SlowHandlers \in BOOLEAN

VARIABLES
    status,     \* ScheduledJob.status; "ABSENT" before the row is created
    attempts,   \* ScheduledJob.attempts
    due,        \* runAt <= now
    stuck,      \* startedAt < now - staleAfterMs
    pc,         \* where each runner is
    batch,      \* rows the runner read as due and has not visited yet
    seen,       \* attempts of each row, as the runner read it
    cur,        \* the row whose handler the runner is executing
    claimNo,    \* history: the value of attempts the runner's claim wrote
    replacing,  \* kind whose pending rows a producer has cancelled so far
    faults      \* processes killed, and handlers that overran, so far

rowVars      == <<status, attempts, due, stuck>>
runnerVars   == <<pc, batch, seen, cur, claimNo>>
vars         == <<rowVars, runnerVars, replacing, faults>>

Status   == {"ABSENT", "PENDING", "RUNNING", "DONE", "FAILED", "CANCELLED"}
Terminal == {"DONE", "FAILED", "CANCELLED"}

Init ==
    /\ status    = [j \in Job |-> "ABSENT"]
    /\ attempts  = [j \in Job |-> 0]
    /\ due       = [j \in Job |-> FALSE]
    /\ stuck     = [j \in Job |-> FALSE]
    /\ pc        = [r \in Runner |-> "idle"]
    /\ batch     = [r \in Runner |-> {}]
    /\ seen      = [r \in Runner |-> [j \in Job |-> 0]]
    /\ cur       = [r \in Runner |-> None]
    /\ claimNo   = [r \in Runner |-> 0]
    /\ replacing = [p \in Producer |-> None]
    /\ faults    = 0

-----------------------------------------------------------------------------
(* queue.server.ts                                                         *)

\* Mutant: the status is written as the enum does not spell it.
CancelledMisspelt(k) ==
    [j \in Job |-> IF KindOf[j] = k /\ status[j] = "PENDING"
                   THEN "CANCELED" ELSE status[j]]

\* The rows an updateMany on { kind, status: "PENDING" } touches become
\* CANCELLED, in one statement.
CancelledPending(k) ==
    [j \in Job |-> IF KindOf[j] = k /\ status[j] = "PENDING"
                   THEN "CANCELLED" ELSE status[j]]

\* enqueueJob with replacePending: first the pending rows are cancelled ...
EnqueueReplacing(p, k) ==
    /\ replacing[p] = None
    /\ status' = CancelledPending(k)
    /\ replacing' = [replacing EXCEPT ![p] = k]
    /\ UNCHANGED <<attempts, due, stuck, runnerVars, faults>>

\* A row is inserted: PENDING, no attempts, due now or later.
InsertRow(j) ==
    /\ status[j] = "ABSENT"
    /\ status' = [status EXCEPT ![j] = "PENDING"]
    /\ \E b \in BOOLEAN : due' = [due EXCEPT ![j] = b]
    /\ UNCHANGED <<attempts, stuck, runnerVars, faults>>

\* ... then the new row is created.  The two are not one transaction.
EnqueueCreate(p, j) ==
    /\ replacing[p] = KindOf[j]
    /\ InsertRow(j)
    /\ replacing' = [replacing EXCEPT ![p] = None]

\* enqueueJob without replacePending: the create alone.
EnqueueFresh(j) ==
    /\ KindOf[j] \notin Unique
    /\ InsertRow(j)
    /\ UNCHANGED replacing

\* cancelPendingJobs.
CancelPending(k) ==
    /\ status' = CancelledPending(k)
    /\ UNCHANGED <<attempts, due, stuck, runnerVars, replacing, faults>>

-----------------------------------------------------------------------------
(* The clock                                                               *)

BecomesDue(j) ==
    /\ status[j] = "PENDING"
    /\ ~due[j]
    /\ due' = [due EXCEPT ![j] = TRUE]
    /\ UNCHANGED <<status, attempts, stuck, runnerVars, replacing, faults>>

\* Fifteen minutes have passed since the claim of a row whose runner is gone.
BecomesStuck(j) ==
    /\ status[j] = "RUNNING"
    /\ ~stuck[j]
    /\ \A r \in Runner : cur[r] # j
    /\ stuck' = [stuck EXCEPT ![j] = TRUE]
    /\ UNCHANGED <<status, attempts, due, runnerVars, replacing, faults>>

\* The same, while the runner is alive and its handler still at work.
Overruns(r) ==
    LET j == cur[r] IN
    /\ SlowHandlers
    /\ pc[r] = "run"
    /\ status[j] = "RUNNING"
    /\ ~stuck[j]
    /\ faults < MaxFaults
    /\ faults' = faults + 1
    /\ stuck' = [stuck EXCEPT ![j] = TRUE]
    /\ UNCHANGED <<status, attempts, due, runnerVars, replacing>>

-----------------------------------------------------------------------------
(* runner.server.ts                                                        *)

\* Mutants: the age of the claim is not asked; nothing is ever stuck.
IsStuckWhateverItsAge(j) == status[j] = "RUNNING"
IsNeverStuck(j) == FALSE

IsStuck(j) == status[j] = "RUNNING" /\ stuck[j]

\* requeueStuckJobs: startedAt is cleared, runAt keeps its past value.
RequeueStuck(r) ==
    /\ pc[r] = "idle"
    /\ pc' = [pc EXCEPT ![r] = "swept"]
    /\ status' = [j \in Job |-> IF IsStuck(j) THEN "PENDING" ELSE status[j]]
    /\ stuck' = [j \in Job |-> IF IsStuck(j) THEN FALSE ELSE stuck[j]]
    /\ UNCHANGED <<attempts, due, batch, seen, cur, claimNo, replacing, faults>>

DueRows == {j \in Job : status[j] = "PENDING" /\ due[j]}

\* runDueJobs, the query: every due row, or Limit of them.
ReadDue(r) ==
    /\ pc[r] = "swept"
    /\ \E b \in SUBSET DueRows :
          /\ \/ b = DueRows /\ Cardinality(b) <= Limit
             \/ Cardinality(b) = Limit
          /\ batch' = [batch EXCEPT ![r] = b]
          /\ seen' = [seen EXCEPT ![r] =
                        [j \in Job |-> IF j \in b THEN attempts[j] ELSE 0]]
    /\ pc' = [pc EXCEPT ![r] = "loop"]
    /\ UNCHANGED <<rowVars, cur, claimNo, replacing, faults>>

\* Mutants: the claim by id alone, over another claim or over a settled row.
ClaimableTwice(j) == status[j] \in {"PENDING", "RUNNING"}
ClaimableUnlessRunning(j) == status[j] # "RUNNING"

Claimable(j) == status[j] = "PENDING"

\* Mutant: the claim does not count.
CountNothing(j) == attempts

Counted(j) == [attempts EXCEPT ![j] = @ + 1]

\* The claim, a conditional update on { id, status: "PENDING" }, matched the
\* row.  It asks neither runAt nor attempts again.
Claim(r, j) ==
    /\ pc[r] = "loop"
    /\ j \in batch[r]
    /\ Claimable(j)
    /\ status' = [status EXCEPT ![j] = "RUNNING"]
    /\ attempts' = Counted(j)
    /\ stuck' = [stuck EXCEPT ![j] = FALSE]
    /\ pc' = [pc EXCEPT ![r] = "run"]
    /\ batch' = [batch EXCEPT ![r] = @ \ {j}]
    /\ cur' = [cur EXCEPT ![r] = j]
    /\ claimNo' = [claimNo EXCEPT ![r] = attempts'[j]]
    /\ UNCHANGED <<due, seen, replacing, faults>>

\* The claim matched nothing: another runner, or a cancel, got there first.
Skip(r, j) ==
    /\ pc[r] = "loop"
    /\ j \in batch[r]
    /\ ~Claimable(j)
    /\ batch' = [batch EXCEPT ![r] = @ \ {j}]
    /\ UNCHANGED <<rowVars, pc, seen, cur, claimNo, replacing, faults>>

\* The update by id alone that ends an execution, whatever the row says now.
Settle(r, s) ==
    LET j == cur[r] IN
    /\ pc[r] = "run"
    /\ status' = [status EXCEPT ![j] = s]
    /\ stuck' = IF s = "PENDING" THEN [stuck EXCEPT ![j] = FALSE] ELSE stuck
    /\ pc' = [pc EXCEPT ![r] = "loop"]
    /\ cur' = [cur EXCEPT ![r] = None]
    /\ claimNo' = [claimNo EXCEPT ![r] = 0]
    /\ UNCHANGED <<attempts, batch, seen, replacing, faults>>

\* No handler for the kind: a deploy removed it.
FailUnknown(r) ==
    /\ pc[r] = "run"
    /\ KindOf[cur[r]] \notin Handled
    /\ Settle(r, "FAILED")
    /\ UNCHANGED due

HandlerSucceeds(r) ==
    /\ pc[r] = "run"
    /\ KindOf[cur[r]] \in Handled
    /\ Settle(r, "DONE")
    /\ UNCHANGED due

\* Mutant: one attempt too few.
ExhaustedEarly(r) == seen[r][cur[r]] + 2 >= MaxAttempts

\* The handler threw, or the write of DONE after it did.  The count is the one
\* read with the batch, plus one.
Exhausted(r) == seen[r][cur[r]] + 1 >= MaxAttempts

HandlerFails(r) ==
    /\ pc[r] = "run"
    /\ KindOf[cur[r]] \in Handled
    /\ \/ /\ Exhausted(r)
          /\ Settle(r, "FAILED")
          /\ UNCHANGED due
       \/ /\ ~Exhausted(r)
          /\ Settle(r, "PENDING")
          /\ due' = [due EXCEPT ![cur[r]] = FALSE]   \* nextAttemptAt

\* The loop is over and the request answered.
Respond(r) ==
    /\ pc[r] = "loop"
    /\ batch[r] = {}
    /\ pc' = [pc EXCEPT ![r] = "idle"]
    /\ seen' = [seen EXCEPT ![r] = [j \in Job |-> 0]]
    /\ UNCHANGED <<rowVars, batch, cur, claimNo, replacing, faults>>

-----------------------------------------------------------------------------
(* Crashes                                                                 *)

\* The process is killed, or a write in the catch block itself throws: the
\* rest of the batch is forgotten and a claimed row stays RUNNING.
CrashRunner(r) ==
    /\ pc[r] # "idle"
    /\ faults < MaxFaults
    /\ faults' = faults + 1
    /\ pc' = [pc EXCEPT ![r] = "idle"]
    /\ batch' = [batch EXCEPT ![r] = {}]
    /\ seen' = [seen EXCEPT ![r] = [j \in Job |-> 0]]
    /\ cur' = [cur EXCEPT ![r] = None]
    /\ claimNo' = [claimNo EXCEPT ![r] = 0]
    /\ UNCHANGED <<rowVars, replacing>>

\* A producer dies between the cancel and the create.
CrashProducer(p) ==
    /\ replacing[p] # None
    /\ faults < MaxFaults
    /\ faults' = faults + 1
    /\ replacing' = [replacing EXCEPT ![p] = None]
    /\ UNCHANGED <<rowVars, runnerVars>>

-----------------------------------------------------------------------------

RunnerStep(r) ==
    \/ RequeueStuck(r)
    \/ ReadDue(r)
    \/ \E j \in Job : Claim(r, j) \/ Skip(r, j)
    \/ FailUnknown(r)
    \/ HandlerSucceeds(r)
    \/ HandlerFails(r)
    \/ Respond(r)

Next ==
    \/ \E p \in Producer, k \in Kind : EnqueueReplacing(p, k)
    \/ \E p \in Producer, j \in Job : EnqueueCreate(p, j)
    \/ \E j \in Job : EnqueueFresh(j) \/ BecomesDue(j) \/ BecomesStuck(j)
    \/ \E k \in Kind : CancelPending(k)
    \/ \E r \in Runner : RunnerStep(r) \/ Overruns(r) \/ CrashRunner(r)
    \/ \E p \in Producer : CrashProducer(p)

Spec == Init /\ [][Next]_vars

\* Time passes, cron keeps calling the endpoint and a request that is not
\* killed runs to its end.  Nobody is obliged to enqueue or to crash.
Fairness ==
    /\ \A j \in Job : WF_vars(BecomesDue(j)) /\ WF_vars(BecomesStuck(j))
    /\ \A r \in Runner : WF_vars(RunnerStep(r))

FairSpec == Spec /\ Fairness

-----------------------------------------------------------------------------
(* Properties                                                              *)

\* Shapes of the variables, and the runner's bookkeeping: it holds a row
\* exactly while it is executing that row's handler.
TypeOK ==
    /\ status \in [Job -> Status]
    /\ attempts \in [Job -> Nat]
    /\ due \in [Job -> BOOLEAN]
    /\ stuck \in [Job -> BOOLEAN]
    /\ pc \in [Runner -> {"idle", "swept", "loop", "run"}]
    /\ batch \in [Runner -> SUBSET Job]
    /\ seen \in [Runner -> [Job -> Nat]]
    /\ cur \in [Runner -> Job \cup {None}]
    /\ claimNo \in [Runner -> Nat]
    /\ replacing \in [Producer -> Kind \cup {None}]
    /\ faults \in 0 .. MaxFaults
    /\ \A r \in Runner : cur[r] # None <=> pc[r] = "run"

Executing(r, j) == cur[r] = j /\ j \in Job

\* "Two runners racing on the same row result in one claim and one no-op"
\* (runner.server.ts): no two runners ever hold the same claim of a row, even
\* when the row was taken from one of them and claimed again.
ClaimsDistinct ==
    \A j \in Job : \A r, s \in Runner :
        Executing(r, j) /\ Executing(s, j) /\ claimNo[r] = claimNo[s] => r = s

\* A job is given up only after it really was attempted MaxAttempts times,
\* however stale the count a runner decided on: an error never costs a job an
\* attempt it had left.
NeverAbandonedEarly ==
    \A j \in Job :
        status[j] = "FAILED" /\ KindOf[j] \in Handled => attempts[j] >= MaxAttempts

\* While no handler outlasts the stuck threshold, one runner at a time executes
\* a row, and the row says so: it is RUNNING and the sweep leaves it alone.
SingleExecution ==
    ~SlowHandlers =>
        \A j \in Job : \A r \in Runner : Executing(r, j) =>
            /\ status[j] = "RUNNING"
            /\ ~stuck[j]
            /\ \A s \in Runner : Executing(s, j) => s = r

\* While no handler outlasts the stuck threshold, a finished or cancelled row
\* is never revived: a late write by id cannot undo what was settled.
TerminalIsFinal ==
    [][~SlowHandlers =>
        \A j \in Job : status[j] \in Terminal => status'[j] = status[j]]_vars

\* The table seen as leases: what each row is to a handler, and who runs it.
Phase ==
    [j \in Job |->
        CASE status[j] = "ABSENT"  -> "none"
          [] status[j] = "PENDING" -> "waiting"
          [] status[j] = "RUNNING" -> "leased"
          [] OTHER                 -> "over"]

Holders == [j \in Job |-> {r \in Runner : cur[r] = j}]

Lease == INSTANCE JobLease WITH phase <- Phase, holders <- Holders, leases <- attempts

\* Without slow handlers the queue implements the leases of JobLease: one
\* holder at a time, every claim counted, a dead runner's row taken back before
\* it is given again, and nothing that is over begins again.
ImplementsLease == Lease!LeaseSpec

\* Every queued job is eventually done, failed or cancelled: a killed runner, a
\* lost race or a backoff delays it and never strands it.
EventuallySettled ==
    \A j \in Job : status[j] # "ABSENT" ~> status[j] \in Terminal
=============================================================================
