--------------------------- MODULE JobQueueProofs ---------------------------
(***************************************************************************)
(* The job queue's invariants and its refinement of JobLease, for any      *)
(* number of rows, runners and producers and any number of faults.         *)
(*                                                                         *)
(* None of the properties is inductive alone.  What makes them so is       *)
(* RunnersLag: the attempts a runner read never exceed the row's, and are  *)
(* strictly below them once the runner has claimed the row.  A new claim   *)
(* therefore carries a number no other runner holds, and a runner that     *)
(* counts to MaxAttempts from what it read counts no more than happened.   *)
(***************************************************************************)
EXTENDS JobQueue, TLAPS

RunnersLag ==
    \A r \in Runner : \A j \in Job :
        /\ seen[r][j] <= attempts[j]
        /\ Executing(r, j) => seen[r][j] < attempts[j] /\ claimNo[r] <= attempts[j]

IInv ==
    /\ TypeOK
    /\ RunnersLag
    /\ ClaimsDistinct
    /\ NeverAbandonedEarly
    /\ SingleExecution

-----------------------------------------------------------------------------

\* Type correctness of every single action, the base of the rest.
LEMMA TypeStep == TypeOK /\ [Next]_vars => TypeOK'
<1> USE QueueAssumption
<1> SUFFICES ASSUME TypeOK, [Next]_vars PROVE TypeOK'
    OBVIOUS
<1> USE DEF TypeOK, Status
<1>1. ASSUME NEW p \in Producer, NEW k \in Kind, EnqueueReplacing(p, k) PROVE TypeOK'
    BY <1>1 DEF EnqueueReplacing, CancelledPending, runnerVars
<1>2. ASSUME NEW p \in Producer, NEW j \in Job, EnqueueCreate(p, j) PROVE TypeOK'
    BY <1>2 DEF EnqueueCreate, InsertRow, runnerVars
<1>3. ASSUME NEW j \in Job, EnqueueFresh(j) PROVE TypeOK'
    BY <1>3 DEF EnqueueFresh, InsertRow, runnerVars
<1>4. ASSUME NEW j \in Job, BecomesDue(j) PROVE TypeOK'
    BY <1>4 DEF BecomesDue, runnerVars
<1>5. ASSUME NEW j \in Job, BecomesStuck(j) PROVE TypeOK'
    BY <1>5 DEF BecomesStuck, runnerVars
<1>6. ASSUME NEW k \in Kind, CancelPending(k) PROVE TypeOK'
    BY <1>6 DEF CancelPending, CancelledPending, runnerVars
<1>7. ASSUME NEW r \in Runner, RequeueStuck(r) PROVE TypeOK'
    BY <1>7 DEF RequeueStuck, IsStuck
<1>8. ASSUME NEW r \in Runner, ReadDue(r) PROVE TypeOK'
    BY <1>8 DEF ReadDue, DueRows, rowVars
<1>9. ASSUME NEW r \in Runner, NEW j \in Job, Claim(r, j) PROVE TypeOK'
    BY <1>9 DEF Claim, Claimable, Counted
<1>10. ASSUME NEW r \in Runner, NEW j \in Job, Skip(r, j) PROVE TypeOK'
    BY <1>10 DEF Skip, Claimable, rowVars
<1>11. ASSUME NEW r \in Runner, FailUnknown(r) PROVE TypeOK'
    BY <1>11 DEF FailUnknown, Settle
<1>12. ASSUME NEW r \in Runner, HandlerSucceeds(r) PROVE TypeOK'
    BY <1>12 DEF HandlerSucceeds, Settle
<1>13. ASSUME NEW r \in Runner, HandlerFails(r) PROVE TypeOK'
    <2>1. CASE Settle(r, "FAILED") /\ UNCHANGED due
        BY <2>1 DEF Settle
    <2>2. CASE Settle(r, "PENDING") /\ due' = [due EXCEPT ![cur[r]] = FALSE]
        BY <2>2 DEF Settle
    <2> QED
        BY <1>13, <2>1, <2>2 DEF HandlerFails
<1>14. ASSUME NEW r \in Runner, Respond(r) PROVE TypeOK'
    BY <1>14 DEF Respond, rowVars
<1>15. ASSUME NEW r \in Runner, Overruns(r) PROVE TypeOK'
    BY <1>15 DEF Overruns, runnerVars
<1>16. ASSUME NEW r \in Runner, CrashRunner(r) PROVE TypeOK'
    BY <1>16 DEF CrashRunner, rowVars
<1>17. ASSUME NEW p \in Producer, CrashProducer(p) PROVE TypeOK'
    BY <1>17 DEF CrashProducer, rowVars, runnerVars
<1>18. CASE UNCHANGED vars
    BY <1>18 DEF vars, rowVars, runnerVars
<1> QED
    BY <1>1, <1>2, <1>3, <1>4, <1>5, <1>6, <1>7, <1>8, <1>9, <1>10, <1>11, <1>12,
       <1>13, <1>14, <1>15, <1>16, <1>17, <1>18 DEF Next, RunnerStep

\* Every state has well-typed variables, and a runner holds a row exactly while
\* it executes that row's handler.
THEOREM TypeCorrect == Spec => []TypeOK
<1>1. Init => TypeOK
    BY QueueAssumption DEF Init, TypeOK, Status
<1>2. QED
    BY <1>1, TypeStep, PTL DEF Spec

-----------------------------------------------------------------------------
(* The inductive invariant.  The actions fall into four groups by what     *)
(* they can disturb: those that leave every runner alone, the reads, the   *)
(* claim, and those that end an execution.                                 *)

\* A step that leaves the runners and the counts alone, moves no row to FAILED
\* and does not touch a RUNNING row (or touches it only where slow handlers are
\* allowed).
LEMMA TableStep ==
    ASSUME IInv, TypeOK', UNCHANGED <<attempts, seen, cur, claimNo>>,
           \A j \in Job : status'[j] = "FAILED" => status[j] = "FAILED",
           ~SlowHandlers => \A j \in Job : (\E r \in Runner : Executing(r, j)) =>
                                status'[j] = status[j] /\ stuck'[j] = stuck[j]
    PROVE  IInv'
<1>1. RunnersLag'
    BY DEF IInv, RunnersLag, Executing
<1>2. ClaimsDistinct'
    BY DEF IInv, ClaimsDistinct, Executing
<1>3. NeverAbandonedEarly'
    BY DEF IInv, NeverAbandonedEarly
<1>4. SingleExecution'
    BY DEF IInv, SingleExecution, Executing
<1> QED
    BY <1>1, <1>2, <1>3, <1>4 DEF IInv

\* A step that only changes what one runner holds, and ends its execution if it
\* had one: the row it executed may take any status that is not FAILED too early.
LEMMA EndStep ==
    ASSUME IInv, TypeOK', NEW r \in Runner,
           UNCHANGED attempts,
           cur' = [cur EXCEPT ![r] = None],
           claimNo' = [claimNo EXCEPT ![r] = 0],
           \A s \in Runner : \A j \in Job : seen'[s][j] <= seen[s][j],
           \A j \in Job : j # cur[r] => status'[j] = status[j] /\ stuck'[j] = stuck[j],
           \A j \in Job : status'[j] = "FAILED" /\ KindOf[j] \in Handled =>
                                status[j] = "FAILED" \/ attempts[j] >= MaxAttempts
    PROVE  IInv'
<1> USE QueueAssumption
<1>0. \A s \in Runner : \A j \in Job :
        Executing(s, j)' => s # r /\ Executing(s, j) /\ claimNo'[s] = claimNo[s]
    BY DEF IInv, TypeOK, Executing
<1>1. RunnersLag'
    <2> SUFFICES ASSUME NEW s \in Runner, NEW j \in Job
                 PROVE /\ seen'[s][j] <= attempts'[j]
                       /\ Executing(s, j)' => seen'[s][j] < attempts'[j] /\ claimNo'[s] <= attempts'[j]
        BY DEF RunnersLag
    <2>1. seen[s][j] \in Nat /\ seen'[s][j] \in Nat /\ attempts[j] \in Nat /\ claimNo[s] \in Nat
        BY DEF IInv, TypeOK
    <2> QED
        BY <1>0, <2>1 DEF IInv, RunnersLag
<1>2. ClaimsDistinct'
    BY <1>0 DEF IInv, ClaimsDistinct
<1>3. NeverAbandonedEarly'
    BY DEF IInv, NeverAbandonedEarly
<1>4. SingleExecution'
    <2> SUFFICES ASSUME ~SlowHandlers, NEW j \in Job, NEW s \in Runner, Executing(s, j)'
                 PROVE /\ status'[j] = "RUNNING"
                       /\ ~stuck'[j]
                       /\ \A t \in Runner : Executing(t, j)' => t = s
        BY DEF SingleExecution
    <2>1. s # r /\ Executing(s, j)
        BY <1>0
    <2>2. j # cur[r]
        BY <2>1 DEF IInv, SingleExecution, Executing
    <2> QED
        BY <1>0, <2>1, <2>2 DEF IInv, SingleExecution
<1> QED
    BY <1>1, <1>2, <1>3, <1>4 DEF IInv

\* The claim: its number exceeds every number held for the row, and without
\* slow handlers nobody holds the row at all.
LEMMA ClaimStep ==
    ASSUME IInv, TypeOK', NEW r \in Runner, NEW j \in Job, Claim(r, j)
    PROVE  IInv'
<1> USE QueueAssumption DEF Claim, Claimable, Counted
<1>0. attempts[j] \in Nat /\ attempts' = [attempts EXCEPT ![j] = attempts[j] + 1]
    BY DEF IInv, TypeOK
<1>1. \A s \in Runner : \A i \in Job :
        Executing(s, i)' <=> IF s = r THEN i = j ELSE Executing(s, i)
    BY DEF IInv, TypeOK, Executing
<1>2. claimNo'[r] = attempts'[j] /\ \A s \in Runner : s # r => claimNo'[s] = claimNo[s]
    BY <1>0 DEF IInv, TypeOK
<1>3. \A i \in Job : attempts[i] \in Nat /\ attempts'[i] \in Nat /\ attempts[i] <= attempts'[i]
    BY <1>0 DEF IInv, TypeOK
<1>4. RunnersLag'
    <2> SUFFICES ASSUME NEW s \in Runner, NEW i \in Job
                 PROVE /\ seen'[s][i] <= attempts'[i]
                       /\ Executing(s, i)' => seen'[s][i] < attempts'[i] /\ claimNo'[s] <= attempts'[i]
        BY DEF RunnersLag
    <2>1. seen[s][i] \in Nat /\ claimNo[s] \in Nat /\ seen' = seen /\ seen[s][i] <= attempts[i]
        BY DEF IInv, TypeOK, RunnersLag
    <2>2. seen'[s][i] <= attempts'[i]
        BY <1>3, <2>1
    <2>3. CASE s = r /\ i = j
        <3>1. attempts'[j] = attempts[j] + 1
            BY <1>0 DEF IInv, TypeOK
        <3> QED
            BY <1>0, <1>2, <1>3, <2>1, <2>3, <3>1
    <2>4. CASE s # r
        BY <1>1, <1>2, <1>3, <2>1, <2>4 DEF IInv, RunnersLag
    <2> QED
        BY <1>1, <2>2, <2>3, <2>4
<1>5. ClaimsDistinct'
    <2> SUFFICES ASSUME NEW i \in Job, NEW s \in Runner, NEW t \in Runner,
                        Executing(s, i)', Executing(t, i)', claimNo'[s] = claimNo'[t]
                 PROVE s = t
        BY DEF ClaimsDistinct
    <2>1. \A u \in Runner : u # r /\ Executing(u, j) => claimNo[u] < claimNo'[r]
        BY <1>0, <1>2 DEF IInv, TypeOK, RunnersLag
    <2>2. CASE s # r /\ t # r
        BY <1>1, <1>2, <2>2 DEF IInv, ClaimsDistinct
    <2>3. CASE s = r /\ t # r
        BY <1>1, <1>2, <2>1, <2>3 DEF IInv, TypeOK
    <2>4. CASE s # r /\ t = r
        BY <1>1, <1>2, <2>1, <2>4 DEF IInv, TypeOK
    <2> QED
        BY <2>2, <2>3, <2>4
<1>6. NeverAbandonedEarly'
    BY <1>3 DEF IInv, TypeOK, NeverAbandonedEarly
<1>7. SingleExecution'
    BY <1>1 DEF IInv, TypeOK, SingleExecution
<1> QED
    BY <1>4, <1>5, <1>6, <1>7 DEF IInv

LEMMA InvStep == IInv /\ [Next]_vars => IInv'
<1> USE QueueAssumption
<1> SUFFICES ASSUME IInv, [Next]_vars PROVE IInv'
    OBVIOUS
<1>0. TypeOK /\ TypeOK'
    BY TypeStep DEF IInv
<1>1. ASSUME NEW j \in Job, InsertRow(j) PROVE IInv'
    BY <1>0, <1>1, TableStep DEF InsertRow, runnerVars, IInv, TypeOK, SingleExecution
<1>2. ASSUME NEW k \in Kind, status' = CancelledPending(k),
             UNCHANGED <<attempts, stuck, seen, cur, claimNo>> PROVE IInv'
    BY <1>0, <1>2, TableStep DEF CancelledPending, IInv, TypeOK, SingleExecution
<1>3. ASSUME NEW j \in Job, BecomesDue(j) PROVE IInv'
    BY <1>0, <1>3, TableStep DEF BecomesDue, runnerVars
<1>4. ASSUME NEW j \in Job, BecomesStuck(j) PROVE IInv'
    BY <1>0, <1>4, TableStep DEF BecomesStuck, runnerVars, IInv, TypeOK, Executing
<1>5. ASSUME NEW r \in Runner, Overruns(r) PROVE IInv'
    BY <1>0, <1>5, TableStep DEF Overruns, runnerVars
<1>6. ASSUME NEW r \in Runner, RequeueStuck(r) PROVE IInv'
    BY <1>0, <1>6, TableStep DEF RequeueStuck, IsStuck, IInv, TypeOK, SingleExecution
<1>7. ASSUME NEW r \in Runner, ReadDue(r) PROVE IInv'
    <2>1. \A s \in Runner : \A j \in Job :
            /\ seen'[s][j] = seen[s][j] \/ seen'[s][j] = attempts[j] \/ seen'[s][j] = 0
            /\ Executing(s, j)' => Executing(s, j) /\ seen'[s] = seen[s]
        BY <1>0, <1>7 DEF ReadDue, TypeOK, Executing, rowVars
    <2>2. RunnersLag'
        BY <1>0, <1>7, <2>1 DEF ReadDue, rowVars, IInv, TypeOK, RunnersLag
    <2>3. ClaimsDistinct' /\ NeverAbandonedEarly' /\ SingleExecution'
        BY <1>7 DEF ReadDue, rowVars, IInv, ClaimsDistinct, NeverAbandonedEarly,
                    SingleExecution, Executing
    <2> QED
        BY <1>0, <2>2, <2>3 DEF IInv
<1>8. ASSUME NEW r \in Runner, NEW j \in Job, Claim(r, j) PROVE IInv'
    BY <1>0, <1>8, ClaimStep
<1>9. ASSUME NEW r \in Runner, NEW j \in Job, Skip(r, j) PROVE IInv'
    BY <1>0, <1>9, TableStep DEF Skip, Claimable, rowVars
<1>10. ASSUME NEW r \in Runner, NEW s \in Status, Settle(r, s),
              s = "FAILED" /\ KindOf[cur[r]] \in Handled => attempts[cur[r]] >= MaxAttempts
       PROVE IInv'
    <2>1. cur[r] \in Job
        BY <1>0, <1>10 DEF Settle, TypeOK
    <2>2. \A i \in Job : i # cur[r] => status'[i] = status[i] /\ stuck'[i] = stuck[i]
        BY <1>0, <1>10, <2>1 DEF Settle, TypeOK
    <2>3. \A i \in Job : status'[i] = "FAILED" /\ KindOf[i] \in Handled =>
                            status[i] = "FAILED" \/ attempts[i] >= MaxAttempts
        BY <1>0, <1>10, <2>1 DEF Settle, TypeOK
    <2>4. \A t \in Runner : \A i \in Job : seen'[t][i] <= seen[t][i]
        BY <1>0, <1>10 DEF Settle, TypeOK
    <2> QED
        BY <1>0, <1>10, <2>2, <2>3, <2>4, EndStep DEF Settle
<1>11. ASSUME NEW r \in Runner, FailUnknown(r) PROVE IInv'
    BY <1>10, <1>11 DEF FailUnknown, Status
<1>12. ASSUME NEW r \in Runner, HandlerSucceeds(r) PROVE IInv'
    BY <1>10, <1>12 DEF HandlerSucceeds, Status
<1>13. ASSUME NEW r \in Runner, HandlerFails(r) PROVE IInv'
    <2>1. cur[r] \in Job /\ seen[r][cur[r]] \in Nat /\ attempts[cur[r]] \in Nat
        BY <1>0, <1>13 DEF HandlerFails, TypeOK
    <2>2. seen[r][cur[r]] < attempts[cur[r]]
        BY <2>1 DEF IInv, RunnersLag, Executing
    <2>3. Exhausted(r) => attempts[cur[r]] >= MaxAttempts
        BY <2>1, <2>2 DEF Exhausted
    <2> QED
        BY <1>10, <1>13, <2>3 DEF HandlerFails, Status
<1>14. ASSUME NEW r \in Runner, Respond(r) PROVE IInv'
    <2>1. cur' = [cur EXCEPT ![r] = None] /\ cur[r] = None
        BY <1>0, <1>14 DEF Respond, TypeOK
    <2>2. \A s \in Runner : \A j \in Job :
            /\ seen'[s][j] = seen[s][j] \/ seen'[s][j] = 0
            /\ Executing(s, j)' => Executing(s, j) /\ seen'[s] = seen[s]
        BY <1>0, <1>14, <2>1 DEF Respond, TypeOK, Executing
    <2>3. RunnersLag'
        BY <1>0, <1>14, <2>2 DEF Respond, rowVars, IInv, TypeOK, RunnersLag
    <2>4. ClaimsDistinct' /\ NeverAbandonedEarly' /\ SingleExecution'
        BY <1>14 DEF Respond, rowVars, IInv, ClaimsDistinct, NeverAbandonedEarly,
                     SingleExecution, Executing
    <2> QED
        BY <1>0, <2>3, <2>4 DEF IInv
<1>15. ASSUME NEW r \in Runner, CrashRunner(r) PROVE IInv'
    <2>1. \A s \in Runner : \A j \in Job : seen'[s][j] <= seen[s][j]
        BY <1>0, <1>15 DEF CrashRunner, TypeOK
    <2> QED
        BY <1>0, <1>15, <2>1, EndStep DEF CrashRunner, rowVars
<1>16. ASSUME NEW p \in Producer, CrashProducer(p) PROVE IInv'
    BY <1>0, <1>16, TableStep DEF CrashProducer, rowVars, runnerVars
<1>17. CASE UNCHANGED vars
    BY <1>0, <1>17, TableStep DEF vars, rowVars, runnerVars
<1> QED
    BY <1>1, <1>2, <1>3, <1>4, <1>5, <1>6, <1>7, <1>8, <1>9, <1>11, <1>12, <1>13,
       <1>14, <1>15, <1>16, <1>17
    DEF Next, RunnerStep, EnqueueReplacing, EnqueueCreate, EnqueueFresh, CancelPending,
        runnerVars

LEMMA InvInit == Init => IInv
BY QueueAssumption DEF Init, IInv, TypeOK, Status, RunnersLag, ClaimsDistinct,
   NeverAbandonedEarly, SingleExecution, Executing

THEOREM Inductive == Spec => []IInv
BY InvInit, InvStep, PTL DEF Spec

\* No two runners ever hold the same claim of a row, slow handlers or not.
THEOREM ClaimsAreDistinct == Spec => []ClaimsDistinct
<1>1. IInv => ClaimsDistinct
    BY DEF IInv
<1>2. QED
    BY Inductive, <1>1, PTL

\* No row of a known kind is FAILED before MaxAttempts claims of it.
THEOREM NoneAbandonedEarly == Spec => []NeverAbandonedEarly
<1>1. IInv => NeverAbandonedEarly
    BY DEF IInv
<1>2. QED
    BY Inductive, <1>1, PTL

\* Without slow handlers a row has at most one runner, and is RUNNING with it.
THEOREM ExecutionIsSingle == Spec => []SingleExecution
<1>1. IInv => SingleExecution
    BY DEF IInv
<1>2. QED
    BY Inductive, <1>1, PTL

-----------------------------------------------------------------------------
(* The two temporal properties that compare a state with the next one.     *)

\* Without slow handlers no step moves a row that is done, failed or cancelled.
THEOREM TerminalsAreFinal == Spec => TerminalIsFinal
<1> USE QueueAssumption
<1> DEFINE Final == ~SlowHandlers =>
                \A j \in Job : status[j] \in Terminal => status'[j] = status[j]
<1>1. ASSUME IInv, [Next]_vars PROVE Final
    <2> SUFFICES ASSUME ~SlowHandlers, NEW j \in Job, status[j] \in Terminal
                 PROVE status'[j] = status[j]
        BY DEF Final
    <2> USE DEF Terminal
    <2>0. TypeOK /\ SingleExecution /\ \A r \in Runner : ~Executing(r, j)
        BY <1>1 DEF IInv, SingleExecution
    <2>1. ASSUME NEW i \in Job, InsertRow(i) PROVE status'[j] = status[j]
        BY <2>0, <2>1 DEF InsertRow, TypeOK
    <2>2. ASSUME NEW k \in Kind, status' = CancelledPending(k) PROVE status'[j] = status[j]
        BY <2>2 DEF CancelledPending
    <2>3. ASSUME NEW r \in Runner, RequeueStuck(r) PROVE status'[j] = status[j]
        BY <2>3 DEF RequeueStuck, IsStuck
    <2>4. ASSUME NEW r \in Runner, NEW i \in Job, Claim(r, i) PROVE status'[j] = status[j]
        BY <2>0, <2>4 DEF Claim, Claimable, TypeOK
    <2>5. ASSUME NEW r \in Runner, NEW s \in Status, Settle(r, s) PROVE status'[j] = status[j]
        BY <2>0, <2>5 DEF Settle, TypeOK, Executing
    <2>6. ASSUME NEW r \in Runner, FailUnknown(r) \/ HandlerSucceeds(r) \/ HandlerFails(r)
          PROVE status'[j] = status[j]
        BY <2>5, <2>6 DEF FailUnknown, HandlerSucceeds, HandlerFails, Status
    <2>7. CASE UNCHANGED status
        BY <2>7
    <2> QED
        BY <1>1, <2>1, <2>2, <2>3, <2>4, <2>6, <2>7
        DEF Next, RunnerStep, EnqueueReplacing, EnqueueCreate, EnqueueFresh, CancelPending,
            BecomesDue, BecomesStuck, Overruns, ReadDue, Skip, Respond, CrashRunner,
            CrashProducer, vars, rowVars
<1>2. QED
    BY Inductive, <1>1, PTL DEF Spec, TerminalIsFinal

-----------------------------------------------------------------------------
(* The refinement of JobLease.                                             *)

LEMMA LeaseInitial == Init => Lease!LeaseInit
BY QueueAssumption DEF Init, Lease!LeaseInit, Phase, Holders

\* Every step is a step of the leases or leaves them alone.
LEMMA LeaseStep ==
    ASSUME ~SlowHandlers, IInv, [Next]_vars
    PROVE  [Lease!LeaseNext]_(Lease!leaseVars)
<1> USE QueueAssumption
<1>0. TypeOK /\ SingleExecution
    BY DEF IInv
<1>1. \A j \in Job, r \in Runner : cur[r] = j => status[j] = "RUNNING" /\ ~stuck[j] /\ Holders[j] = {r}
    BY <1>0 DEF SingleExecution, Executing, Holders
<1>2. \A j \in Job : (\A r \in Runner : cur[r] # j) => Holders[j] = {}
    BY DEF Holders
<1>3. cur' = cur => Holders' = Holders
    BY DEF Holders
<1>4. CASE UNCHANGED <<status, attempts, cur>>
    BY <1>4 DEF Phase, Holders, Lease!leaseVars
<1>5. ASSUME NEW j \in Job, InsertRow(j) PROVE Lease!LeaseNext
    <2>1. Lease!Post(j)
        BY <1>0, <1>3, <1>5 DEF InsertRow, runnerVars, TypeOK, Phase, Lease!Post, Lease!Move
    <2> QED
        BY <2>1 DEF Lease!LeaseNext
<1>6. ASSUME NEW k \in Kind, status' = CancelledPending(k), UNCHANGED <<attempts, cur>>
      PROVE Lease!LeaseNext
    <2> DEFINE S == {j \in Job : KindOf[j] = k /\ status[j] = "PENDING"}
    <2>1. Lease!Withdraw(S)
        BY <1>0, <1>3, <1>6 DEF CancelledPending, TypeOK, Phase, Lease!Withdraw, Lease!Move
    <2> QED
        BY <2>1 DEF Lease!LeaseNext
<1>7. ASSUME NEW r \in Runner, RequeueStuck(r) PROVE Lease!LeaseNext
    <2> DEFINE S == {j \in Job : status[j] = "RUNNING" /\ stuck[j]}
    <2>1. \A j \in S : Phase[j] = "leased" /\ Holders[j] = {}
        BY <1>1, <1>2 DEF Phase
    <2>2. Phase' = [j \in Job |-> IF j \in S THEN "waiting" ELSE Phase[j]]
        BY <1>0, <1>7 DEF RequeueStuck, IsStuck, TypeOK, Phase
    <2>3. Lease!TakeBack(S)
        BY <1>3, <1>7, <2>1, <2>2 DEF RequeueStuck, Lease!TakeBack, Lease!Move
    <2> QED
        BY <2>3 DEF Lease!LeaseNext
<1>8. ASSUME NEW r \in Runner, NEW j \in Job, Claim(r, j) PROVE Lease!LeaseNext
    <2>1. Holders[j] = {} /\ cur[r] \notin Job
        BY <1>0, <1>1, <1>2, <1>8 DEF Claim, Claimable, TypeOK
    <2>2. Holders' = [Holders EXCEPT ![j] = {r}]
        <3>1. \A i \in Job : \A s \in Runner : cur'[s] = i <=> IF i = j THEN s = r ELSE cur[s] = i
            BY <1>0, <1>8, <2>1 DEF Claim, TypeOK, Holders
        <3>2. \A i \in Job : Holders'[i] = IF i = j THEN {r} ELSE Holders[i]
            BY <3>1 DEF Holders
        <3> QED
            BY <3>2 DEF Holders
    <2>3. Phase[j] = "waiting" /\ Phase' = [i \in Job |-> IF i \in {j} THEN "leased" ELSE Phase[i]]
        BY <1>0, <1>8 DEF Claim, Claimable, TypeOK, Phase
    <2>4. Lease!Take(r, j)
        BY <1>8, <2>1, <2>2, <2>3 DEF Claim, Counted, Lease!Take, Lease!Move
    <2> QED
        BY <2>4 DEF Lease!LeaseNext
<1>9. ASSUME NEW r \in Runner, cur[r] \in Job, cur' = [cur EXCEPT ![r] = None]
      PROVE  Holders[cur[r]] = {r} /\ Holders' = [Holders EXCEPT ![cur[r]] = {}]
    <2> DEFINE j == cur[r]
    <2>1. \A i \in Job : \A s \in Runner : cur'[s] = i <=> cur[s] = i /\ i # j
        BY <1>0, <1>1, <1>9 DEF TypeOK, Holders
    <2>2. \A i \in Job : Holders'[i] = IF i = j THEN {} ELSE Holders[i]
        BY <2>1 DEF Holders
    <2>3. Holders[j] = {r}
        BY <1>1, <1>9
    <2> QED
        BY <2>2, <2>3 DEF Holders
<1>10. ASSUME NEW r \in Runner, NEW s \in {"PENDING", "DONE", "FAILED"}, Settle(r, s)
       PROVE Lease!LeaseNext
    <2> DEFINE j == cur[r]
    <2>1. j \in Job
        BY <1>0, <1>10 DEF Settle, TypeOK
    <2>2. Holders[j] = {r} /\ Holders' = [Holders EXCEPT ![j] = {}]
        BY <1>9, <1>10, <2>1 DEF Settle
    <2>3. Phase[j] = "leased"
        BY <1>1, <2>1 DEF Phase
    <2>4. \/ Phase' = [i \in Job |-> IF i \in {j} THEN "over" ELSE Phase[i]]
          \/ Phase' = [i \in Job |-> IF i \in {j} THEN "waiting" ELSE Phase[i]]
        BY <1>0, <1>10, <2>1 DEF Settle, TypeOK, Phase
    <2>5. Lease!Report(r, j)
        BY <1>10, <2>2, <2>3, <2>4 DEF Settle, Lease!Report, Lease!Move
    <2> QED
        BY <2>1, <2>5 DEF Lease!LeaseNext
<1>11. ASSUME NEW r \in Runner, CrashRunner(r) PROVE [Lease!LeaseNext]_(Lease!leaseVars)
    <2>1. CASE cur[r] \in Job
        <3>1. Holders[cur[r]] = {r} /\ Holders' = [Holders EXCEPT ![cur[r]] = {}]
            BY <1>9, <1>11, <2>1 DEF CrashRunner
        <3>2. Lease!Die(r, cur[r])
            BY <1>11, <3>1 DEF CrashRunner, rowVars, Phase, Lease!Die
        <3> QED
            BY <2>1, <3>2 DEF Lease!LeaseNext
    <2>2. CASE cur[r] \notin Job
        <3>1. cur' = cur
            BY <1>0, <1>11, <2>2 DEF CrashRunner, TypeOK
        <3> QED
            BY <1>4, <1>11, <3>1 DEF CrashRunner, rowVars
    <2> QED
        BY <2>1, <2>2
<1>12. ASSUME NEW r \in Runner, FailUnknown(r) \/ HandlerSucceeds(r) \/ HandlerFails(r)
       PROVE Lease!LeaseNext
    BY <1>10, <1>12 DEF FailUnknown, HandlerSucceeds, HandlerFails
<1>13. ASSUME NEW r \in Runner, Respond(r) \/ ReadDue(r) PROVE [Lease!LeaseNext]_(Lease!leaseVars)
    BY <1>4, <1>13 DEF Respond, ReadDue, rowVars
<1> QED
    BY <1>4, <1>5, <1>6, <1>7, <1>8, <1>11, <1>12, <1>13
    DEF Next, RunnerStep, EnqueueReplacing, EnqueueCreate, EnqueueFresh, CancelPending,
        BecomesDue, BecomesStuck, Overruns, Skip, CrashProducer, vars, rowVars, runnerVars

\* Without slow handlers the table and its runners implement the leases.
THEOREM LeaseImplemented ==
    ASSUME ~SlowHandlers
    PROVE  Spec => ImplementsLease
<1>1. IInv /\ [Next]_vars => [Lease!LeaseNext]_(Lease!leaseVars)
    BY LeaseStep
<1>2. QED
    BY Inductive, LeaseInitial, <1>1, PTL DEF Spec, ImplementsLease, Lease!LeaseSpec
=============================================================================
