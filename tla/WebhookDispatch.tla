-------------------------- MODULE WebhookDispatch --------------------------
(***************************************************************************)
(* Delivery of webhooks at least once, and what app/routes/webhooks.$.tsx  *)
(* and app/lib/webhooks/dispatch.server.ts make of it: a WebhookDelivery   *)
(* row, unique per webhook id, whose handledAt turns a replay into a no-op.*)
(*                                                                         *)
(* Shopify owes a webhook until a request for it is answered 200.  It      *)
(* sends it again after an error, and, when Concurrent, also while an      *)
(* earlier request for it is still at work (Shopify stops waiting after    *)
(* five seconds).  A handler's execution is the time a request spends in   *)
(* "run".  Abstracted: attempts and lastError, which nothing reads back.   *)
(***************************************************************************)
EXTENDS Naturals

CONSTANTS
    Webhook,        \* webhook ids of one shop
    Subscribed,     \* those whose topic has a subscription in the registry
    Request,        \* requests to the endpoint
    None,
    Concurrent,     \* may a webhook be sent again before it was answered?
    MaxFaults       \* bound: handlers that fail, processes killed, answers lost

ASSUME DispatchAssumption ==
    /\ Subscribed \subseteq Webhook
    /\ None \notin Webhook
    /\ Concurrent \in BOOLEAN
    /\ MaxFaults \in Nat

VARIABLES
    owed,   \* webhooks Shopify has not been answered 200 for
    row,    \* WebhookDelivery: "none", "open", or "handled" (handledAt set)
    pc,     \* where each request is
    cur,    \* the webhook it carries
    ran,    \* how often each webhook's handler ran to its end
    faults

vars == <<owed, row, pc, cur, ran, faults>>

Init ==
    /\ owed = Webhook
    /\ row = [w \in Webhook |-> "none"]
    /\ pc = [q \in Request |-> "idle"]
    /\ cur = [q \in Request |-> None]
    /\ ran = [w \in Webhook |-> 0]
    /\ faults = 0

Fault == faults < MaxFaults /\ faults' = faults + 1

Goto(q, l) == pc' = [pc EXCEPT ![q] = l]

\* Mutant: the request is answered and goes on holding its webhook.
LeaveHolding(q) == Goto(q, "idle") /\ UNCHANGED cur

\* The request is over, answered or not.
Leave(q) ==
    /\ Goto(q, "idle")
    /\ cur' = [cur EXCEPT ![q] = None]

\* A 200, which Shopify may still fail to receive.
Answer(q) ==
    /\ Leave(q)
    /\ \/ owed' = owed \ {cur[q]} /\ UNCHANGED faults
       \/ Fault /\ UNCHANGED owed

-----------------------------------------------------------------------------

Receive(q, w) ==
    /\ pc[q] = "idle"
    /\ w \in owed
    /\ Concurrent \/ \A p \in Request : cur[p] # w
    /\ cur' = [cur EXCEPT ![q] = w]
    /\ Goto(q, IF w \in Subscribed THEN "create" ELSE "answer")
    /\ UNCHANGED <<owed, row, ran, faults>>

\* The unique (shop, webhookId) decides who creates the row.
Create(q) ==
    /\ pc[q] = "create"
    /\ row[cur[q]] = "none"
    /\ row' = [row EXCEPT ![cur[q]] = "open"]
    /\ Goto(q, "run")
    /\ UNCHANGED <<owed, cur, ran, faults>>

CreateRefused(q) ==
    /\ pc[q] = "create"
    /\ row[cur[q]] # "none"
    /\ Goto(q, "find")
    /\ UNCHANGED <<owed, row, cur, ran, faults>>

\* Mutant: any row is a duplicate.
AnyRowIsHandled(w) == row[w] # "none"

IsHandled(w) == row[w] = "handled"

\* Mutant: a duplicate is refused rather than answered.
FindRefusesDuplicates(q) ==
    /\ pc[q] = "find"
    /\ IF IsHandled(cur[q]) THEN Leave(q) ELSE Goto(q, "resume") /\ UNCHANGED cur
    /\ UNCHANGED <<owed, row, ran, faults>>

\* A row with handledAt is a duplicate; any other is taken for an attempt that
\* did not finish ...
Find(q) ==
    /\ pc[q] = "find"
    /\ Goto(q, IF IsHandled(cur[q]) THEN "answer" ELSE "resume")
    /\ UNCHANGED <<owed, row, cur, ran, faults>>

\* ... its attempts are counted, and the handler is run again.
Resume(q) ==
    /\ pc[q] = "resume"
    /\ Goto(q, "run")
    /\ UNCHANGED <<owed, row, cur, ran, faults>>

HandlerEnds(q) ==
    /\ pc[q] = "run"
    /\ ran' = [ran EXCEPT ![cur[q]] = @ + 1]
    /\ Goto(q, "mark")
    /\ UNCHANGED <<owed, row, cur, faults>>

\* The handler throws: the error is noted and the answer is a 500.
HandlerFails(q) ==
    /\ pc[q] = "run"
    /\ Fault
    /\ Leave(q)
    /\ UNCHANGED <<owed, row, ran>>

Mark(q) ==
    /\ pc[q] = "mark"
    /\ row' = [row EXCEPT ![cur[q]] = "handled"]
    /\ Goto(q, "answer")
    /\ UNCHANGED <<owed, cur, ran, faults>>

Respond(q) ==
    /\ pc[q] = "answer"
    /\ Answer(q)
    /\ UNCHANGED <<row, ran>>

\* The process is killed, or a statement other than the handler fails.
Crash(q) ==
    /\ pc[q] # "idle"
    /\ Fault
    /\ Leave(q)
    /\ UNCHANGED <<owed, row, ran>>

RequestStep(q) ==
    \/ Create(q) \/ CreateRefused(q) \/ Find(q) \/ Resume(q)
    \/ HandlerEnds(q) \/ Mark(q) \/ Respond(q)

Next ==
    \/ \E q \in Request, w \in Webhook : Receive(q, w)
    \/ \E q \in Request : RequestStep(q) \/ HandlerFails(q) \/ Crash(q)

Spec == Init /\ [][Next]_vars

\* A request that is not killed runs to its end, and Shopify sends what it owes.
Fairness ==
    /\ \A q \in Request : WF_vars(RequestStep(q))
    /\ \A w \in Webhook : WF_vars(\E q \in Request : Receive(q, w))

FairSpec == Spec /\ Fairness

-----------------------------------------------------------------------------

TypeOK ==
    /\ owed \subseteq Webhook
    /\ row \in [Webhook -> {"none", "open", "handled"}]
    /\ pc \in [Request -> {"idle", "create", "find", "resume", "run", "mark", "answer"}]
    /\ cur \in [Request -> Webhook \cup {None}]
    /\ ran \in [Webhook -> Nat]
    /\ faults \in 0 .. MaxFaults
    /\ \A q \in Request : cur[q] = None <=> pc[q] = "idle"

\* No delivery is lost to the deduplication: whatever failed, was killed, was
\* sent again or overtaken, Shopify stops sending a subscribed webhook only
\* after its handler ran to the end, and the row says so.
NoneLost ==
    \A w \in Subscribed :
        /\ row[w] = "handled" => ran[w] > 0
        /\ w \notin owed => row[w] = "handled"

\* "A delivery whose handler previously failed is re-run" (dispatch.server.ts),
\* and one that was handled is not: no execution begins on a handled row.
HandledIsNotRunAgain ==
    [][\A q \in Request : pc[q] # "run" /\ pc'[q] = "run" => row[cur[q]] # "handled"]_vars

\* Everything Shopify owes is answered in the end, for good.
AllAnswered == <>[](owed = {})
=============================================================================
