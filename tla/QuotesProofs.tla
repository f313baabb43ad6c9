----------------------------- MODULE QuotesProofs -----------------------------
(***************************************************************************)
(* No draft order at a price that was never offered, and no quote out      *)
(* without an expiry job, for any number of quotes, requests, runners,     *)
(* draftings, reopenings and faults.                                       *)
(*                                                                         *)
(* OrderedAsOffered speaks of what was ordered and says nothing of what is *)
(* about to be.  Locked adds the two facts it rests on: the lines of a     *)
(* quote that is out are the ones it was sent with, because a drafting     *)
(* replaces lines and status in one transaction; and so are the lines an   *)
(* accept has read, whatever became of the quote since.                    *)
(*                                                                         *)
(* SentHasJob is inductive with the types, once no request dies between    *)
(* marking a quote sent and queueing its job.                              *)
(***************************************************************************)
EXTENDS Quotes, TLAPS

Offered(q, n) == n = 0 \/ n \in offered[q]

Locked ==
    /\ \A q \in Quote : status[q] = "SENT" => Offered(q, lines[q])
    /\ \A r \in Request : at[r] = "accept" => Offered(on[r], taken[r])
    /\ \A r \in Request : at[r] = "expire" => op[r] = "expire"

PriceInv == TypeOK /\ Locked /\ OrderedAsOffered

-----------------------------------------------------------------------------

LEMMA Actions ==
    Action = {"draft", "send", "accept", "decline", "withdraw", "expire", "reopen"}
BY DEF Action, Result

\* What the update of each operation does to the status.
LEMMA MovedStatus ==
    ASSUME TypeOK, NEW r \in Request, op[r] \in Action, on[r] \in Quote
    PROVE  /\ Moved(r) \in [Quote -> State]
           /\ op[r] # "send" => Moved(r)[on[r]] # "SENT"
           /\ \A q \in Quote : q # on[r] => Moved(r)[q] = status[q]
<1>1. Result[op[r]] \in State /\ (op[r] # "send" => Result[op[r]] # "SENT")
    BY Actions DEF Result, State
<1> QED
    BY <1>1 DEF Moved, TypeOK

LEMMA TypeStep == PriceInv /\ [Next]_vars => TypeOK'
<1> USE QuotesAssumption
<1> SUFFICES ASSUME PriceInv, [Next]_vars PROVE TypeOK'
    OBVIOUS
<1>0. TypeOK /\ Locked
    BY DEF PriceInv
<1> USE DEF TypeOK
<1>1. ASSUME NEW r \in Request, NEW q \in Quote, NEW a \in Action, Begin(r, q, a) PROVE TypeOK'
    <2>1. drafts' \in 0 .. MaxDrafts /\ reopens' \in 0 .. MaxReopens
        BY <1>0, <1>1 DEF Begin
    <2>2. taken' \in [Request -> 0 .. MaxDrafts]
        BY <1>0, <1>1, <2>1 DEF Begin
    <2>3. /\ at' = [at EXCEPT ![r] = at'[r]]
          /\ at'[r] \in {"accept", "expire", "write"}
        BY <1>0, <1>1 DEF Begin, Goto
    <2> QED
        BY <1>0, <1>1, <2>1, <2>2, <2>3 DEF Begin, quoteVars, jobVars
<1>2. ASSUME NEW q \in Quote, Lapses(q) \/ Empties(q) PROVE TypeOK'
    <2>1. lapsed' \in [Quote -> BOOLEAN]
        BY <1>0, <1>2 DEF Lapses, Empties
    <2>2. lines' \in [Quote -> 0 .. MaxDrafts]
        BY <1>0, <1>2 DEF Lapses, Empties
    <2>3. UNCHANGED <<status, offered, ordered, requestVars, jobVars, bounds>>
        BY <1>2 DEF Lapses, Empties
    <2> QED
        BY <1>0, <2>1, <2>2, <2>3 DEF requestVars, jobVars, bounds
<1>3. ASSUME NEW r \in Request, at[r] # "idle", End(r),
             status' \in [Quote -> State], lines' \in [Quote -> 0 .. MaxDrafts],
             lapsed' \in [Quote -> BOOLEAN], waiting' \in Nat,
             ordered' \in [Quote -> SUBSET (0 .. MaxDrafts)], faults' \in 0 .. MaxFaults,
             UNCHANGED <<offered, orphaned, run, todo, drafts, reopens>>
      PROVE  TypeOK'
    BY <1>0, <1>3 DEF End, Goto
<1>4. ASSUME NEW r \in Request, DraftWrites(r) PROVE TypeOK'
    BY <1>0, <1>3, <1>4, MovedStatus, Actions DEF DraftWrites, Writing, jobVars, bounds
<1>5. ASSUME NEW r \in Request, SendWrites(r) PROVE TypeOK'
    BY <1>0, <1>5, MovedStatus, Actions DEF SendWrites, Writing, Goto, jobVars, bounds
<1>6. ASSUME NEW r \in Request, SendCancels(r) PROVE TypeOK'
    BY <1>0, <1>6 DEF SendCancels, NoneWaiting, Goto, quoteVars, bounds
<1>7. ASSUME NEW r \in Request, SendCreates(r) PROVE TypeOK'
    BY <1>0, <1>3, <1>7 DEF SendCreates, quoteVars, bounds
<1>8. ASSUME NEW r \in Request, AcceptOrders(r) PROVE TypeOK'
    <2>1. CASE taken[r] = 0
        BY <1>0, <1>3, <1>8, <2>1 DEF AcceptOrders, jobVars, bounds
    <2>2. CASE taken[r] # 0
        BY <1>0, <1>8, <2>2 DEF AcceptOrders, Goto, jobVars, bounds
    <2> QED
        BY <2>1, <2>2
<1>9. ASSUME NEW r \in Request, Decides(r) PROVE TypeOK'
    BY <1>0, <1>3, <1>9, MovedStatus, Actions DEF Decides, Writing, jobVars, bounds
<1>10. ASSUME NEW r \in Request, ReopenWrites(r) PROVE TypeOK'
    BY <1>0, <1>3, <1>10, MovedStatus, Actions DEF ReopenWrites, Writing, jobVars, bounds
<1>11. ASSUME NEW r \in Request, Expires(r) PROVE TypeOK'
    <2>1. op[r] = "expire" /\ on[r] \in Quote
        BY <1>0, <1>11 DEF Expires, Locked
    <2> QED
        BY <1>0, <1>3, <1>11, <2>1, MovedStatus, Actions DEF Expires, jobVars, bounds
<1>12. ASSUME NEW r \in Request, RequestDies(r) PROVE TypeOK'
    BY <1>0, <1>3, <1>12 DEF RequestDies, Fault, quoteVars, jobVars
<1>13. ASSUME NEW r \in Runner, Claim(r) \/ RunReads(r) PROVE TypeOK'
    BY <1>0, <1>13 DEF Claim, RunReads, RunTo, quoteVars, requestVars, bounds
<1>14. ASSUME NEW r \in Runner, NEW q \in Quote, RunExpires(r, q) PROVE TypeOK'
    BY <1>0, <1>14 DEF RunExpires, State, requestVars, bounds
<1>15. ASSUME NEW r \in Runner, RunCounts(r) \/ RunCancels(r) \/ RunCreates(r) \/ RunReports(r)
       PROVE TypeOK'
    BY <1>0, <1>15 DEF RunCounts, RunCancels, RunCreates, RunReports, NoneWaiting, RunTo,
                       quoteVars, requestVars, bounds
<1>16. ASSUME NEW r \in Runner, RunFails(r) PROVE TypeOK'
    BY <1>0, <1>16 DEF RunFails, Fault, RunTo, quoteVars, requestVars
<1>17. CASE Requeue
    BY <1>0, <1>17 DEF Requeue, quoteVars, requestVars, bounds
<1>18. CASE UNCHANGED vars
    BY <1>0, <1>18 DEF vars, quoteVars, requestVars, jobVars, bounds
<1> QED
    BY <1>1, <1>2, <1>4, <1>5, <1>6, <1>7, <1>8, <1>9, <1>10, <1>11, <1>12, <1>13,
       <1>14, <1>15, <1>16, <1>17, <1>18 DEF Next, RequestStep, RunStep

-----------------------------------------------------------------------------

\* A step after which no quote is newly out, no line is newly locked on one that
\* is, no request newly accepts, and nothing is ordered, keeps the prices.
LEMMA QuietStep ==
    ASSUME PriceInv, TypeOK', UNCHANGED <<offered, ordered>>,
           \A q \in Quote : status'[q] = "SENT" =>
                status[q] = "SENT" /\ lines'[q] \in {0, lines[q]},
           \A r \in Request : at'[r] \in {"accept", "expire"} =>
                at'[r] = at[r] /\ op'[r] = op[r] /\ on'[r] = on[r] /\ taken'[r] = taken[r]
    PROVE  PriceInv'
<1>1. Locked'
    BY DEF PriceInv, Locked, Offered
<1> QED
    BY <1>1 DEF PriceInv, OrderedAsOffered

LEMMA PriceStep == PriceInv /\ [Next]_vars => PriceInv'
<1> USE QuotesAssumption
<1> SUFFICES ASSUME PriceInv, [Next]_vars PROVE PriceInv'
    OBVIOUS
<1>0. TypeOK /\ TypeOK' /\ Locked /\ OrderedAsOffered
    BY TypeStep DEF PriceInv
<1>1. ASSUME NEW r \in Request, NEW q \in Quote, NEW a \in Action, Begin(r, q, a) PROVE PriceInv'
    <2>1. a \in {"accept", "expire"} => status[q] = "SENT"
        <3>1. status[q] \in State
            BY <1>0 DEF TypeOK
        <3> QED
            BY <1>1, <3>1 DEF Begin, Allowed, State
    <2>2. at' = [at EXCEPT ![r] = IF a \in {"accept", "expire"} THEN a ELSE "write"]
        BY <1>1 DEF Begin, Goto
    <2>3. a = "accept" => taken'[r] = lines[q]
        BY <1>0, <1>1 DEF Begin, TypeOK
    <2>4. /\ op' = [op EXCEPT ![r] = a]
          /\ on' = [on EXCEPT ![r] = q]
          /\ \A s \in Request : s # r => taken'[s] = taken[s]
          /\ UNCHANGED quoteVars
        BY <1>0, <1>1 DEF Begin, TypeOK
    <2>5. Locked'
        BY <1>0, <2>1, <2>2, <2>3, <2>4 DEF TypeOK, Locked, Offered, quoteVars
    <2> QED
        BY <1>0, <2>4, <2>5 DEF PriceInv, OrderedAsOffered, quoteVars
<1>2. ASSUME NEW q \in Quote, Lapses(q) \/ Empties(q) PROVE PriceInv'
    BY <1>0, <1>2, QuietStep DEF Lapses, Empties, TypeOK, requestVars
<1>3. ASSUME NEW r \in Request, End(r), UNCHANGED <<offered, ordered>>,
             \A q \in Quote : status'[q] = "SENT" =>
                status[q] = "SENT" /\ lines'[q] \in {0, lines[q]}
      PROVE  PriceInv'
    BY <1>0, <1>3, QuietStep DEF End, Goto, TypeOK
<1>4. ASSUME NEW r \in Request, DraftWrites(r) PROVE PriceInv'
    <2>1. op[r] = "draft" /\ on[r] \in Quote
        BY <1>0, <1>4 DEF DraftWrites, Writing, TypeOK
    <2>2. \A q \in Quote : status'[q] = "SENT" => q # on[r] /\ status[q] = "SENT"
        BY <1>0, <1>4, <2>1, MovedStatus, Actions DEF DraftWrites
    <2> QED
        BY <1>0, <1>3, <1>4, <2>2 DEF DraftWrites, TypeOK
<1>5. ASSUME NEW r \in Request, SendWrites(r) PROVE PriceInv'
    <2>1. op[r] = "send" /\ on[r] \in Quote
        BY <1>0, <1>5 DEF SendWrites, Writing, TypeOK
    <2>2. \A q \in Quote : /\ offered[q] \subseteq offered'[q]
                           /\ q = on[r] => lines[q] \in offered'[q]
                           /\ q # on[r] => status'[q] = status[q]
        BY <1>0, <1>5, <2>1, MovedStatus, Actions DEF SendWrites, TypeOK
    <2>3. \A s \in Request : at'[s] \in {"accept", "expire"} => at'[s] = at[s]
        BY <1>0, <1>5 DEF SendWrites, Goto, TypeOK
    <2>4. \A s \in Request : at[s] = "accept" => on[s] \in Quote
        BY <1>0 DEF TypeOK
    <2>5. Locked'
        BY <1>0, <1>5, <2>2, <2>3, <2>4 DEF SendWrites, Locked, Offered
    <2> QED
        BY <1>0, <1>5, <2>2, <2>5 DEF SendWrites, PriceInv, OrderedAsOffered
<1>6. ASSUME NEW r \in Request, SendCancels(r) PROVE PriceInv'
    BY <1>0, <1>6, QuietStep DEF SendCancels, Goto, TypeOK, quoteVars
<1>7. ASSUME NEW r \in Request, SendCreates(r) \/ RequestDies(r) PROVE PriceInv'
    BY <1>0, <1>3, <1>7 DEF SendCreates, RequestDies, TypeOK, quoteVars
<1>8. ASSUME NEW r \in Request, AcceptOrders(r) PROVE PriceInv'
    <2>1. CASE taken[r] = 0
        BY <1>0, <1>3, <1>8, <2>1 DEF AcceptOrders, TypeOK
    <2>2. CASE taken[r] # 0
        <3>1. taken[r] \in offered[on[r]]
            BY <1>0, <1>8, <2>2 DEF AcceptOrders, Locked, Offered
        <3>2. OrderedAsOffered'
            BY <1>0, <1>8, <2>2, <3>1 DEF AcceptOrders, OrderedAsOffered, TypeOK
        <3>3. Locked'
            BY <1>0, <1>8, <2>2 DEF AcceptOrders, Goto, Locked, Offered, TypeOK
        <3> QED
            BY <1>0, <3>2, <3>3 DEF PriceInv
    <2> QED
        BY <2>1, <2>2
<1>9. ASSUME NEW r \in Request, Decides(r) \/ ReopenWrites(r) PROVE PriceInv'
    <2>1. op[r] \in Action /\ op[r] # "send" /\ on[r] \in Quote
        BY <1>0, <1>9, Actions DEF Decides, ReopenWrites, Writing, TypeOK
    <2>2. \A q \in Quote : status'[q] = "SENT" => status[q] = "SENT"
        BY <1>0, <1>9, <2>1, MovedStatus DEF Decides, ReopenWrites
    <2> QED
        BY <1>0, <1>3, <1>9, <2>2 DEF Decides, ReopenWrites, TypeOK
<1>10. ASSUME NEW r \in Request, Expires(r) PROVE PriceInv'
    <2>1. op[r] = "expire" /\ on[r] \in Quote
        BY <1>0, <1>10 DEF Expires, Locked, TypeOK
    <2>2. \A q \in Quote : status'[q] = "SENT" => status[q] = "SENT"
        BY <1>0, <1>10, <2>1, MovedStatus, Actions DEF Expires
    <2> QED
        BY <1>0, <1>3, <1>10, <2>2 DEF Expires, TypeOK
<1>11. ASSUME NEW r \in Runner, NEW q \in Quote, RunExpires(r, q) PROVE PriceInv'
    BY <1>0, <1>11, QuietStep DEF RunExpires, TypeOK, requestVars
<1>12. ASSUME UNCHANGED <<quoteVars, requestVars>> PROVE PriceInv'
    BY <1>0, <1>12, QuietStep DEF TypeOK, quoteVars, requestVars
<1>13. ASSUME NEW r \in Runner, Claim(r) \/ RunReads(r) \/ RunCounts(r) \/ RunCancels(r)
              \/ RunCreates(r) \/ RunReports(r) \/ RunFails(r)
       PROVE  PriceInv'
    BY <1>12, <1>13 DEF Claim, RunReads, RunCounts, RunCancels, RunCreates, RunReports, RunFails
<1>14. CASE Requeue \/ UNCHANGED vars
    BY <1>12, <1>14 DEF Requeue, vars
<1> QED
    BY <1>1, <1>2, <1>4, <1>5, <1>6, <1>7, <1>8, <1>9, <1>10, <1>11, <1>13, <1>14
    DEF Next, RequestStep, RunStep

LEMMA PriceInitial == Init => PriceInv
BY QuotesAssumption
DEF Init, PriceInv, TypeOK, State, Locked, Offered, OrderedAsOffered

\* The inductive invariant: types, what is locked on a quote that is out and in
\* the hands of an accept, and that orders follow offers.
THEOREM Inductive == Spec => []PriceInv
BY PriceInitial, PriceStep, PTL DEF Spec

\* Every state has well-typed variables, and a request holds a quote exactly
\* while it is at work.
THEOREM TypeCorrect == Spec => []TypeOK
<1>1. PriceInv => TypeOK
    BY DEF PriceInv
<1> QED
    BY <1>1, Inductive, PTL

\* "A buyer quoted on Monday who accepts on Thursday pays Monday's price": every
\* draft order has prices its quote was sent at, however requests overlap.
THEOREM OrdersFollowOffers == Spec => []OrderedAsOffered
<1>1. PriceInv => OrderedAsOffered
    BY DEF PriceInv
<1> QED
    BY <1>1, Inductive, PTL

-----------------------------------------------------------------------------
(* A quote that is out has an expiry job                                   *)

\* A step that opens no quote, and takes nobody's job away.
LEMMA JobKept ==
    ASSUME TypeOK, TypeOK', SentHasJob,
           \A q \in Quote : status'[q] = "SENT" => status[q] = "SENT",
           \A r \in Request : at[r] \in {"cancel", "create"} => at'[r] = at[r],
           UNCHANGED <<waiting, orphaned, run>>
    PROVE  SentHasJob'
BY DEF SentHasJob, StillOpen, TypeOK

\* Requests: the only one that sends a quote goes on to queue the job, in two
\* statements between which it counts as having one.
LEMMA JobKeptByRequests ==
    ASSUME ~SendsMayDie, TypeOK, TypeOK', Locked, SentHasJob, NEW r \in Request,
           \/ \E q \in Quote, a \in Action : Begin(r, q, a)
           \/ RequestStep(r) \/ RequestDies(r)
    PROVE  SentHasJob'
<1>1. ASSUME NEW q \in Quote, NEW a \in Action, Begin(r, q, a) PROVE SentHasJob'
    BY <1>1, JobKept DEF Begin, Goto, quoteVars, jobVars, TypeOK
<1>2. ASSUME at[r] \notin {"cancel", "create"}, End(r), UNCHANGED jobVars,
             \A q \in Quote : status'[q] = "SENT" => status[q] = "SENT"
      PROVE  SentHasJob'
    BY <1>2, JobKept DEF End, Goto, jobVars, TypeOK
<1>3. CASE SendWrites(r) \/ SendCancels(r)
    <2>1. at'[r] \in {"cancel", "create"}
        BY <1>3 DEF SendWrites, SendCancels, Goto, TypeOK
    <2> QED
        BY <2>1 DEF SentHasJob
<1>4. CASE SendCreates(r)
    BY <1>4 DEF SendCreates, SentHasJob, TypeOK
<1>5. CASE AcceptOrders(r)
    <2>1. \A s \in Request : at[s] \in {"cancel", "create"} => at'[s] = at[s]
        BY <1>5 DEF AcceptOrders, End, Goto, TypeOK
    <2> QED
        BY <1>5, <2>1, JobKept DEF AcceptOrders, jobVars
<1>6. CASE DraftWrites(r) \/ Decides(r) \/ ReopenWrites(r) \/ Expires(r)
    <2>1. op[r] \in Action /\ op[r] # "send" /\ on[r] \in Quote
        BY <1>6, Actions DEF DraftWrites, Decides, ReopenWrites, Expires, Writing, TypeOK, Locked
    <2>2. status' \in {status, Moved(r)}
        BY <1>6 DEF DraftWrites, Decides, ReopenWrites, Expires
    <2>3. \A q \in Quote : status'[q] = "SENT" => status[q] = "SENT"
        BY <2>1, <2>2, MovedStatus
    <2> QED
        BY <1>2, <1>6, <2>3 DEF DraftWrites, Decides, ReopenWrites, Expires, Writing
<1>7. CASE RequestDies(r)
    BY <1>2, <1>7 DEF RequestDies, quoteVars
<1> QED
    BY <1>1, <1>3, <1>4, <1>5, <1>6, <1>7 DEF RequestStep

\* The job: whoever takes the row away runs it, counts, and queues the next one
\* if a quote is out when it counts; a run that fails leaves its row.
LEMMA JobKeptByRunners ==
    ASSUME TypeOK, TypeOK', SentHasJob,
           Requeue \/ \E r \in Runner : Claim(r) \/ RunStep(r) \/ RunFails(r)
    PROVE  SentHasJob'
<1>1. CASE Requeue
    BY <1>1 DEF Requeue, SentHasJob, TypeOK
<1>2. ASSUME NEW r \in Runner, run'[r] \in {"read", "expire", "cancel", "create"}
      PROVE  SentHasJob'
    BY <1>2 DEF SentHasJob
<1>3. ASSUME NEW r \in Runner, Claim(r) \/ RunReads(r) \/ RunCancels(r) PROVE SentHasJob'
    BY <1>2, <1>3 DEF Claim, RunReads, RunCancels, RunTo, TypeOK
<1>4. ASSUME NEW r \in Runner, NEW q \in Quote, RunExpires(r, q) PROVE SentHasJob'
    BY <1>4, JobKept DEF RunExpires, requestVars, TypeOK
<1>5. ASSUME NEW r \in Runner, RunCounts(r) PROVE SentHasJob'
    <2>1. CASE StillOpen
        BY <1>2, <1>5, <2>1 DEF RunCounts, RunTo, TypeOK
    <2>2. CASE ~StillOpen
        BY <1>5, <2>2 DEF RunCounts, quoteVars, SentHasJob, StillOpen
    <2> QED
        BY <2>1, <2>2
<1>6. ASSUME NEW r \in Runner, RunCreates(r) \/ RunFails(r) PROVE SentHasJob'
    <2>1. waiting \in Nat /\ orphaned \in Nat
        BY DEF TypeOK
    <2>2. waiting' + orphaned' > 0
        <3>1. CASE RunCreates(r)
            BY <2>1, <3>1 DEF RunCreates
        <3>2. CASE RunFails(r)
            BY <2>1, <3>2 DEF RunFails
        <3> QED
            BY <1>6, <3>1, <3>2
    <2> QED
        BY <2>2 DEF SentHasJob
<1>7. ASSUME NEW r \in Runner, RunReports(r) PROVE SentHasJob'
    BY <1>7 DEF RunReports, RunTo, quoteVars, requestVars, SentHasJob, StillOpen, TypeOK
<1> QED
    BY <1>1, <1>3, <1>4, <1>5, <1>6, <1>7 DEF RunStep

LEMMA JobStep ==
    ASSUME ~SendsMayDie, PriceInv, SentHasJob, [Next]_vars
    PROVE  SentHasJob'
<1>1. TypeOK /\ TypeOK' /\ Locked
    BY PriceStep DEF PriceInv
<1>2. ASSUME NEW q \in Quote, Lapses(q) \/ Empties(q) PROVE SentHasJob'
    BY <1>1, <1>2, JobKept DEF Lapses, Empties, requestVars, jobVars
<1>3. CASE UNCHANGED vars
    BY <1>3 DEF vars, quoteVars, requestVars, jobVars, SentHasJob, StillOpen
<1> QED
    BY <1>1, <1>2, <1>3, JobKeptByRequests, JobKeptByRunners DEF Next

\* "A sent quote always has one due": as long as no request dies between marking
\* a quote sent and queueing its job, a quote is never out without an expiry job
\* queued, being run, or about to be queued, however many runs and sendings cross.
THEOREM SentQuotesExpire == ~SendsMayDie => (Spec => []SentHasJob)
<1> SUFFICES ASSUME ~SendsMayDie PROVE Spec => []SentHasJob
    OBVIOUS
<1>1. Init => SentHasJob
    BY DEF Init, SentHasJob, StillOpen
<1>2. PriceInv /\ SentHasJob /\ [Next]_vars => SentHasJob'
    BY JobStep
<1> QED
    BY <1>1, <1>2, Inductive, PTL DEF Spec
=============================================================================
