-------------------------------- MODULE Quotes --------------------------------
(***************************************************************************)
(* The quotes of one installed shop: app/lib/quotes/quotes.server.ts over  *)
(* the state machine of app/lib/quotes/state.ts, the buyer's page          *)
(* app/routes/q.$publicId.tsx, the merchant's app.orders.quotes.$id.tsx,   *)
(* and the job of app/lib/jobs/handlers/expire-quotes.server.ts, which     *)
(* keeps itself queued while a quote is out.                               *)
(*                                                                         *)
(* Merchant, buyers and the job are concurrent.  An operation reads the    *)
(* quote, asks the state machine, and writes by id alone what it decided:  *)
(* one step for each call of the database or of Shopify.                   *)
(*                                                                         *)
(* The prices locked on a quote's lines are a number, new with each        *)
(* drafting; 0 is a quote without lines.  The rows of the expiry job are   *)
(* alike and are counted, by phase, where JobLease would name them.  The   *)
(* reminder, the emails and the plan's gate, which only refuses, are left  *)
(* out.                                                                    *)
(***************************************************************************)
EXTENDS Naturals

CONSTANTS
    Quote,
    Request,        \* requests of the merchant and of buyers
    Runner,         \* job runners
    None,
    MaxDrafts,      \* bound: draftings of all quotes
    MaxReopens,     \* bound: reopenings of all quotes
    MaxFaults,      \* bound: requests and runs that fail or are killed; below
                    \* maxAttempts, so no row of the job uses its attempts up
    SendsMayDie     \* may a request die between marking a quote sent and
                    \* queueing the job?

ASSUME QuotesAssumption ==
    /\ None \notin Quote
    /\ {MaxDrafts, MaxReopens, MaxFaults} \subseteq Nat
    /\ SendsMayDie \in BOOLEAN

VARIABLES
    status,     \* Quote.status
    lines,      \* the prices locked on its lines
    lapsed,     \* expiresAt <= now
    offered,    \* history: the prices the quote was ever sent at
    ordered,    \* history: the prices of the draft orders made from it
    at,         \* where each request is
    op,         \* what it does
    on,         \* the quote it does it to
    taken,      \* the prices an accept read, or a drafting computed
    waiting,    \* rows of quotes.expire that are PENDING
    orphaned,   \* rows RUNNING whose runner is gone
    run,        \* where each runner's expireQuotes is
    todo,       \* the quotes it read as sent and run out
    drafts, reopens, faults

quoteVars   == <<status, lines, lapsed, offered, ordered>>
requestVars == <<at, op, on, taken>>
jobVars     == <<waiting, orphaned, run, todo>>
bounds      == <<drafts, reopens, faults>>
vars        == <<quoteVars, requestVars, jobVars, bounds>>

-----------------------------------------------------------------------------
(* state.ts                                                                *)

State == {"NEW", "DRAFTED", "SENT", "ACCEPTED", "DECLINED", "EXPIRED"}

Allowed ==
    [NEW      |-> {"draft", "withdraw"},
     DRAFTED  |-> {"draft", "send", "withdraw"},
     SENT     |-> {"accept", "decline", "expire", "withdraw"},
     ACCEPTED |-> {},
     DECLINED |-> {"reopen"},
     EXPIRED  |-> {"reopen"}]

Result ==
    [draft    |-> "DRAFTED",
     send     |-> "SENT",
     accept   |-> "ACCEPTED",
     decline  |-> "DECLINED",
     withdraw |-> "DECLINED",
     expire   |-> "EXPIRED",
     reopen   |-> "DRAFTED"]

Action == DOMAIN Result

HasExpired(q) == status[q] = "SENT" /\ lapsed[q]

-----------------------------------------------------------------------------

Init ==
    /\ status = [q \in Quote |-> "NEW"]
    /\ lines = [q \in Quote |-> 0]
    /\ lapsed = [q \in Quote |-> FALSE]
    /\ offered = [q \in Quote |-> {}]
    /\ ordered = [q \in Quote |-> {}]
    /\ at = [r \in Request |-> "idle"]
    /\ op = [r \in Request |-> None]
    /\ on = [r \in Request |-> None]
    /\ taken = [r \in Request |-> 0]
    /\ waiting = 0
    /\ orphaned = 0
    /\ run = [r \in Runner |-> "idle"]
    /\ todo = [r \in Runner |-> {}]
    /\ drafts = 0
    /\ reopens = 0
    /\ faults = 0

Fault == faults < MaxFaults /\ faults' = faults + 1

\* The date passes.
Lapses(q) ==
    /\ status[q] = "SENT"
    /\ ~lapsed[q]
    /\ lapsed' = [lapsed EXCEPT ![q] = TRUE]
    /\ UNCHANGED <<status, lines, offered, ordered, requestVars, jobVars, bounds>>

-----------------------------------------------------------------------------
(* quotes.server.ts                                                        *)

Goto(r, l) == at' = [at EXCEPT ![r] = l]

\* The request is answered.
End(r) ==
    /\ Goto(r, "idle")
    /\ op' = [op EXCEPT ![r] = None]
    /\ on' = [on EXCEPT ![r] = None]
    /\ taken' = [taken EXCEPT ![r] = 0]

\* An operation reads the quote and asks the state machine.  A sending refuses
\* a quote without lines.  An accept, or a visit to the buyer's page, that
\* finds the date passed turns to expiring it.  A drafting prices the lines anew.
Begin(r, q, a) ==
    /\ at[r] = "idle"
    /\ a \in Allowed[status[q]]
    /\ a = "send" => lines[q] > 0
    /\ a = "accept" => ~HasExpired(q)
    /\ a = "expire" => HasExpired(q)
    /\ op' = [op EXCEPT ![r] = a]
    /\ on' = [on EXCEPT ![r] = q]
    /\ IF a = "draft" THEN drafts < MaxDrafts /\ drafts' = drafts + 1 ELSE UNCHANGED drafts
    /\ IF a = "reopen" THEN reopens < MaxReopens /\ reopens' = reopens + 1 ELSE UNCHANGED reopens
    /\ taken' = [taken EXCEPT ![r] = CASE a = "accept" -> lines[q]
                                       [] a = "draft"  -> drafts'
                                       [] OTHER        -> 0]
    /\ Goto(r, IF a \in {"accept", "expire"} THEN a ELSE "write")
    /\ UNCHANGED <<quoteVars, jobVars, faults>>

Writing(r, a) == at[r] = "write" /\ op[r] = a

\* Mutant: drafting locks the new prices and leaves the status alone.
MovedUnlessDrafted(r) ==
    IF op[r] = "draft" THEN status ELSE [status EXCEPT ![on[r]] = Result[op[r]]]

\* The status each update by id sets, whatever the row says now.
Moved(r) == [status EXCEPT ![on[r]] = Result[op[r]]]

\* One transaction: the lines replaced, the status and the new lock written.
DraftWrites(r) ==
    /\ Writing(r, "draft")
    /\ status' = Moved(r)
    /\ lines' = [lines EXCEPT ![on[r]] = taken[r]]
    /\ End(r)
    /\ UNCHANGED <<lapsed, offered, ordered, jobVars, bounds>>

SendWrites(r) ==
    /\ Writing(r, "send")
    /\ status' = Moved(r)
    /\ lapsed' = [lapsed EXCEPT ![on[r]] = FALSE]
    /\ offered' = [offered EXCEPT ![on[r]] = @ \cup {lines[on[r]]}]
    /\ Goto(r, "cancel")
    /\ UNCHANGED <<lines, ordered, op, on, taken, jobVars, bounds>>

\* Mutant: one row is cancelled, whether or not there is one.
AllButOne == waiting - 1

NoneWaiting == 0

\* enqueueJob with replacePending, in its two statements.
SendCancels(r) ==
    /\ at[r] = "cancel"
    /\ waiting' = NoneWaiting
    /\ Goto(r, "create")
    /\ UNCHANGED <<quoteVars, op, on, taken, orphaned, run, todo, bounds>>

SendCreates(r) ==
    /\ at[r] = "create"
    /\ waiting' = waiting + 1
    /\ End(r)
    /\ UNCHANGED <<quoteVars, orphaned, run, todo, bounds>>

\* The draft order, made from the lines that were read.  Shopify refuses one
\* without lines, and the request fails.
AcceptOrders(r) ==
    /\ at[r] = "accept"
    /\ IF taken[r] = 0
       THEN End(r) /\ UNCHANGED ordered
       ELSE /\ ordered' = [ordered EXCEPT ![on[r]] = @ \cup {taken[r]}]
            /\ Goto(r, "write")
            /\ UNCHANGED <<op, on, taken>>
    /\ UNCHANGED <<status, lines, lapsed, offered, jobVars, bounds>>

\* The last write of an accept, a decline or a withdrawal.
Decides(r) ==
    /\ \E a \in {"accept", "decline", "withdraw"} : Writing(r, a)
    /\ status' = Moved(r)
    /\ End(r)
    /\ UNCHANGED <<lines, lapsed, offered, ordered, jobVars, bounds>>

ReopenWrites(r) ==
    /\ Writing(r, "reopen")
    /\ status' = Moved(r)
    /\ lapsed' = [lapsed EXCEPT ![on[r]] = FALSE]
    /\ End(r)
    /\ UNCHANGED <<lines, offered, ordered, jobVars, bounds>>

\* expireQuote: conditional on SENT, and not on the date.
Expires(r) ==
    /\ at[r] = "expire"
    /\ status' = IF status[on[r]] = "SENT" THEN Moved(r) ELSE status
    /\ End(r)
    /\ UNCHANGED <<lines, lapsed, offered, ordered, jobVars, bounds>>

\* The last line is taken off the quote, whatever its status.
Empties(q) ==
    /\ lines[q] > 0
    /\ lines' = [lines EXCEPT ![q] = 0]
    /\ UNCHANGED <<status, lapsed, offered, ordered, requestVars, jobVars, bounds>>

RequestDies(r) ==
    /\ at[r] # "idle"
    /\ at[r] \in {"cancel", "create"} => SendsMayDie
    /\ Fault
    /\ End(r)
    /\ UNCHANGED <<quoteVars, jobVars, drafts, reopens>>

-----------------------------------------------------------------------------
(* expire-quotes.server.ts, under the runner                               *)

RunTo(r, l) == run' = [run EXCEPT ![r] = l]

Claim(r) ==
    /\ run[r] = "idle"
    /\ waiting > 0
    /\ waiting' = waiting - 1
    /\ RunTo(r, "read")
    /\ UNCHANGED <<quoteVars, requestVars, orphaned, todo, bounds>>

RunReads(r) ==
    /\ run[r] = "read"
    /\ todo' = [todo EXCEPT ![r] = {q \in Quote : HasExpired(q)}]
    /\ RunTo(r, "expire")
    /\ UNCHANGED <<quoteVars, requestVars, waiting, orphaned, bounds>>

\* By id alone.
RunExpires(r, q) ==
    /\ q \in todo[r]
    /\ status' = [status EXCEPT ![q] = "EXPIRED"]
    /\ todo' = [todo EXCEPT ![r] = @ \ {q}]
    /\ UNCHANGED <<lines, lapsed, offered, ordered, requestVars, waiting, orphaned,
                   run, bounds>>

\* Mutant: only the quotes that ran out are counted.
StillLapsed == \E q \in Quote : HasExpired(q)

StillOpen == \E q \in Quote : status[q] = "SENT"

RunCounts(r) ==
    /\ run[r] = "expire"
    /\ todo[r] = {}
    /\ RunTo(r, IF StillOpen THEN "cancel" ELSE "report")
    /\ UNCHANGED <<quoteVars, requestVars, waiting, orphaned, todo, bounds>>

RunCancels(r) ==
    /\ run[r] = "cancel"
    /\ waiting' = NoneWaiting
    /\ RunTo(r, "create")
    /\ UNCHANGED <<quoteVars, requestVars, orphaned, todo, bounds>>

RunCreates(r) ==
    /\ run[r] = "create"
    /\ waiting' = waiting + 1
    /\ RunTo(r, "report")
    /\ UNCHANGED <<quoteVars, requestVars, orphaned, todo, bounds>>

RunReports(r) ==
    /\ run[r] = "report"
    /\ RunTo(r, "idle")
    /\ UNCHANGED <<quoteVars, requestVars, waiting, orphaned, todo, bounds>>

\* The job throws and its row waits again, or its process is killed and the row
\* waits for the sweep.
RunFails(r) ==
    /\ run[r] # "idle"
    /\ Fault
    /\ RunTo(r, "idle")
    /\ todo' = [todo EXCEPT ![r] = {}]
    /\ \/ waiting' = waiting + 1 /\ UNCHANGED orphaned
       \/ orphaned' = orphaned + 1 /\ UNCHANGED waiting
    /\ UNCHANGED <<quoteVars, requestVars, drafts, reopens>>

Requeue ==
    /\ orphaned > 0
    /\ orphaned' = orphaned - 1
    /\ waiting' = waiting + 1
    /\ UNCHANGED <<quoteVars, requestVars, run, todo, bounds>>

-----------------------------------------------------------------------------

RequestStep(r) ==
    \/ DraftWrites(r) \/ SendWrites(r) \/ SendCancels(r) \/ SendCreates(r)
    \/ AcceptOrders(r) \/ Decides(r) \/ ReopenWrites(r) \/ Expires(r)

RunStep(r) ==
    \/ RunReads(r) \/ (\E q \in Quote : RunExpires(r, q)) \/ RunCounts(r)
    \/ RunCancels(r) \/ RunCreates(r) \/ RunReports(r)

Next ==
    \/ \E r \in Request, q \in Quote, a \in Action : Begin(r, q, a)
    \/ \E q \in Quote : Lapses(q) \/ Empties(q)
    \/ \E r \in Request : RequestStep(r) \/ RequestDies(r)
    \/ \E r \in Runner : Claim(r) \/ RunStep(r) \/ RunFails(r)
    \/ Requeue

Spec == Init /\ [][Next]_vars

-----------------------------------------------------------------------------

TypeOK ==
    /\ status \in [Quote -> State]
    /\ lines \in [Quote -> 0 .. MaxDrafts]
    /\ lapsed \in [Quote -> BOOLEAN]
    /\ offered \in [Quote -> SUBSET (0 .. MaxDrafts)]
    /\ ordered \in [Quote -> SUBSET (0 .. MaxDrafts)]
    /\ at \in [Request -> {"idle", "write", "cancel", "create", "accept", "expire"}]
    /\ op \in [Request -> Action \cup {None}]
    /\ on \in [Request -> Quote \cup {None}]
    /\ taken \in [Request -> 0 .. MaxDrafts]
    /\ waiting \in Nat
    /\ orphaned \in Nat
    /\ run \in [Runner -> {"idle", "read", "expire", "cancel", "create", "report"}]
    /\ todo \in [Runner -> SUBSET Quote]
    /\ drafts \in 0 .. MaxDrafts
    /\ reopens \in 0 .. MaxReopens
    /\ faults \in 0 .. MaxFaults
    /\ \A r \in Request : on[r] = None <=> at[r] = "idle"

\* "A buyer quoted on Monday who accepts on Thursday pays Monday's price"
\* (quotes.server.ts): whoever re-prices, withdraws, reopens or empties a quote
\* in the meantime, a draft order has prices that quote was sent at.
OrderedAsOffered == \A q \in Quote : ordered[q] \subseteq offered[q]

\* "A sent quote always has one due" (quotes.server.ts): a quote is never out
\* without an expiry job that is queued, being run, or about to be queued,
\* however the job's last count and a sending cross.
SentHasJob ==
    StillOpen =>
        \/ waiting + orphaned > 0
        \/ \E r \in Request : at[r] \in {"cancel", "create"}
        \/ \E r \in Runner : run[r] \in {"read", "expire", "cancel", "create"}

\* "Terminal. An accepted quote is a draft order" (state.ts).
AcceptedIsFinal ==
    [][\A q \in Quote : status[q] = "ACCEPTED" => status'[q] = "ACCEPTED"]_vars
=============================================================================
