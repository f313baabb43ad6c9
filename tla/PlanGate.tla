------------------------------- MODULE PlanGate -------------------------------
(***************************************************************************)
(* The plan's quotas (app/lib/billing/gate.server.ts): the requests of a   *)
(* shop that create something a plan counts, each reading what the plan    *)
(* allows first and then, in a transaction under an advisory lock of the   *)
(* shop and the quota, counting and inserting.  A plan without the quota   *)
(* inserts without the lock, and bringing an archived row back asks        *)
(* nothing at all; `slack` counts what came in by those two doors.         *)
(*                                                                         *)
(* What is created, how long the lock is waited for and the other features *)
(* of a plan are left out; a request that dies takes its transaction with  *)
(* it.                                                                     *)
(***************************************************************************)
EXTENDS Integers, FiniteSets

CONSTANTS
    Caller,         \* requests of the shop's staff
    Quota,          \* what is counted: LIMIT_KEYS
    Restorable,     \* the quotas whose archived rows can be brought back
    Plan,
    Allowed,        \* Allowed[plan][quota]: PLANS[plan].limits, or NoLimit
    Ceiling,        \* the largest number any plan allows
    MaxBatch,       \* bound: rows one request creates (a CSV import's)
    MaxRows         \* bound: rows ever in a quota's table, live or not, and its slack

NoLimit == -1

ASSUME GateAssumption ==
    /\ Ceiling \in Nat /\ MaxBatch \in Nat /\ MaxRows \in Nat
    /\ Allowed \in [Plan -> [Quota -> Nat \cup {NoLimit}]]
    /\ \A plan \in Plan, k \in Quota : Allowed[plan][k] <= Ceiling

VARIABLES
    plan,       \* effectivePlan of the shop now
    live,       \* rows counted by each quota: archivedAt is null
    shelved,    \* archived rows
    slack,      \* rows that came in without being counted first
    holder,     \* who holds the advisory lock of each quota, {} or one caller
    asking      \* where each request is

gateVars == <<plan, live, shelved, slack, holder, asking>>

Away == [at |-> "away"]

Asking(c, at) == asking[c].at = at

(* loadEntitlements, before the transaction begins                         *)
AskGate(c) ==
    /\ Asking(c, "away")
    /\ \E k \in Quota, n \in 1 .. MaxBatch :
         asking' = [asking EXCEPT ![c] = [at |-> "entitled", quota |-> k, rows |-> n,
                                          allowed |-> Allowed[plan][k]]]
    /\ UNCHANGED <<plan, live, shelved, slack, holder>>

-----------------------------------------------------------------------------
(* createWithinLimit                                                       *)

CreateUnlimited(c) ==
    /\ Asking(c, "entitled")
    /\ LET k == asking[c].quota  n == asking[c].rows IN
       /\ asking[c].allowed = NoLimit
       /\ live[k] + n <= MaxRows /\ slack[k] + n <= MaxRows
       /\ live'  = [live EXCEPT ![k] = @ + n]
       /\ slack' = [slack EXCEPT ![k] = @ + n]
    /\ asking' = [asking EXCEPT ![c] = Away]
    /\ UNCHANGED <<plan, shelved, holder>>

LockIgnored(c) == FALSE        \* mutant: the count is taken without the lock

LockHeldBack(c) == holder[asking[c].quota] # {}

TakeLock(c) ==
    /\ Asking(c, "entitled") /\ asking[c].allowed # NoLimit /\ ~LockHeldBack(c)
    /\ holder' = [holder EXCEPT ![asking[c].quota] = {c}]
    /\ asking' = [asking EXCEPT ![c].at = "locked"]
    /\ UNCHANGED <<plan, live, shelved, slack>>

LetGo(c) ==
    /\ holder' = [holder EXCEPT ![asking[c].quota] = @ \ {c}]
    /\ asking' = [asking EXCEPT ![c] = Away]

(* assertWithinLimit, given count(tx), refuses from the limit on           *)
withinLimit(c) == live[asking[c].quota] + asking[c].rows - 1 < asking[c].allowed

CountRows(c) ==
    /\ Asking(c, "locked")
    /\ IF withinLimit(c)
         THEN asking' = [asking EXCEPT ![c].at = "counted"] /\ UNCHANGED holder
         ELSE LetGo(c)
    /\ UNCHANGED <<plan, live, shelved, slack>>

CreateCounted(c) ==
    /\ Asking(c, "counted")
    /\ LET k == asking[c].quota IN
       /\ live[k] + asking[c].rows <= MaxRows
       /\ live' = [live EXCEPT ![k] = @ + asking[c].rows]
    /\ LetGo(c)
    /\ UNCHANGED <<plan, shelved, slack>>

(* The request dies, or its insert is refused: the transaction is undone   *)
AskerDies(c) ==
    /\ asking[c].at \in {"locked", "counted"}
    /\ LetGo(c)
    /\ UNCHANGED <<plan, live, shelved, slack>>

-----------------------------------------------------------------------------
(* archiveRule, archiveForm; restoreRule; deleteRule; the plan moves        *)

Shelve(k) ==
    /\ live[k] > 0 /\ shelved[k] < MaxRows
    /\ live'    = [live EXCEPT ![k] = @ - 1]
    /\ shelved' = [shelved EXCEPT ![k] = @ + 1]
    /\ UNCHANGED <<plan, slack, holder, asking>>

Unshelve(k) ==
    /\ k \in Restorable /\ shelved[k] > 0 /\ live[k] < MaxRows /\ slack[k] < MaxRows
    /\ live'    = [live EXCEPT ![k] = @ + 1]
    /\ shelved' = [shelved EXCEPT ![k] = @ - 1]
    /\ slack'   = [slack EXCEPT ![k] = @ + 1]
    /\ UNCHANGED <<plan, holder, asking>>

Discard(k) ==
    /\ shelved[k] > 0
    /\ shelved' = [shelved EXCEPT ![k] = @ - 1]
    /\ UNCHANGED <<plan, live, slack, holder, asking>>

PlanMoves ==
    /\ plan' \in Plan
    /\ UNCHANGED <<live, shelved, slack, holder, asking>>

GateInit ==
    /\ plan \in Plan
    /\ live = [k \in Quota |-> 0] /\ shelved = live /\ slack = live
    /\ holder = [k \in Quota |-> {}]
    /\ asking = [c \in Caller |-> Away]

CreateStep(c) ==
    AskGate(c) \/ CreateUnlimited(c) \/ TakeLock(c) \/ CountRows(c) \/ CreateCounted(c)
      \/ AskerDies(c)

ShelfStep(k) == Shelve(k) \/ Unshelve(k) \/ Discard(k)

GateNext == (\E c \in Caller : CreateStep(c)) \/ (\E k \in Quota : ShelfStep(k)) \/ PlanMoves

GateSpec == GateInit /\ [][GateNext]_gateVars

-----------------------------------------------------------------------------
Asked == [at : {"entitled", "locked", "counted"}, quota : Quota, rows : 1 .. MaxBatch,
          allowed : Nat \cup {NoLimit}]

(* The type of the state, and who holds which lock.                        *)
GateTypeOK ==
    /\ plan \in Plan
    /\ live \in [Quota -> Nat] /\ shelved \in [Quota -> Nat] /\ slack \in [Quota -> Nat]
    /\ holder \in [Quota -> SUBSET Caller]
    /\ asking \in [Caller -> {Away} \cup Asked]

(***************************************************************************)
(* A quota is kept whatever the requests in flight: no more rows are live  *)
(* than a plan allows and what came in uncounted, by a plan that had no    *)
(* such quota or by a restore.  Two requests that both saw the last place  *)
(* free do not both take it (createWithinLimit's advisory lock).           *)
(***************************************************************************)
QuotaKept == \A k \in Quota : live[k] <= Ceiling + slack[k]
===============================================================================
