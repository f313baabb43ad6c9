------------------------------ MODULE JobLease ------------------------------
(***************************************************************************)
(* What the job table promises the handlers: a row is leased to one runner *)
(* at a time, a lease whose runner died is taken back before it is given   *)
(* again, every lease is counted, and a row that is over stays over.       *)
(* JobQueue implements it as long as no handler outlasts the stuck         *)
(* threshold.                                                              *)
(***************************************************************************)
EXTENDS Naturals

CONSTANTS Job, Runner

VARIABLES
    phase,      \* "none", "waiting", "leased" or "over"
    holders,    \* the runners that hold a lease of the row
    leases      \* how many leases of the row were given

leaseVars == <<phase, holders, leases>>

LeaseInit ==
    /\ phase = [j \in Job |-> "none"]
    /\ holders = [j \in Job |-> {}]
    /\ leases = [j \in Job |-> 0]

Move(S, p) == phase' = [j \in Job |-> IF j \in S THEN p ELSE phase[j]]

Post(j) ==
    /\ phase[j] = "none"
    /\ Move({j}, "waiting")
    /\ UNCHANGED <<holders, leases>>

\* Waiting rows are withdrawn, any number of them in one statement.
Withdraw(S) ==
    /\ \A j \in S : phase[j] = "waiting"
    /\ Move(S, "over")
    /\ UNCHANGED <<holders, leases>>

Take(r, j) ==
    /\ phase[j] = "waiting"
    /\ holders[j] = {}
    /\ Move({j}, "leased")
    /\ holders' = [holders EXCEPT ![j] = {r}]
    /\ leases' = [leases EXCEPT ![j] = @ + 1]

\* The holder reports: the row is over, or waits for another attempt.
Report(r, j) ==
    /\ phase[j] = "leased"
    /\ holders[j] = {r}
    /\ Move({j}, "over") \/ Move({j}, "waiting")
    /\ holders' = [holders EXCEPT ![j] = {}]
    /\ UNCHANGED leases

Die(r, j) ==
    /\ holders[j] = {r}
    /\ holders' = [holders EXCEPT ![j] = {}]
    /\ UNCHANGED <<phase, leases>>

\* Leases nobody holds are taken back.
TakeBack(S) ==
    /\ \A j \in S : phase[j] = "leased" /\ holders[j] = {}
    /\ Move(S, "waiting")
    /\ UNCHANGED <<holders, leases>>

LeaseNext ==
    \/ \E j \in Job : Post(j)
    \/ \E S \in SUBSET Job : Withdraw(S) \/ TakeBack(S)
    \/ \E r \in Runner, j \in Job : Take(r, j) \/ Report(r, j) \/ Die(r, j)

LeaseSpec == LeaseInit /\ [][LeaseNext]_leaseVars
=============================================================================
