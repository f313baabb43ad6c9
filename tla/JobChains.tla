------------------------------- MODULE JobChains -------------------------------
(***************************************************************************)
(* The jobs of a shop that queue themselves again: the daily and monthly   *)
(* ones, each of which queues its next run before it does its work, and    *)
(* the backfills, each of which queues its next page after it wrote one    *)
(* (app/lib/jobs/handlers).  ensureShopRecord starts them when a page view *)
(* creates the shop's row and again, in part, when one restores it; some   *)
(* pages start what is missing.  The uninstall webhook cancels none.       *)
(*                                                                         *)
(* Jobs of one kind never touch those of another: a behaviour follows one  *)
(* kind, `chain`, and `odds` fixes what can go wrong in it.  When a row is *)
(* due is left open: it may be claimed at any time.                        *)
(***************************************************************************)
EXTENDS Naturals, FiniteSets

CONSTANTS
    Chains,         \* the kinds to follow
    Slots,          \* bound: rows of the kind at a time
    Worker,         \* runs of the job runner
    MaxTries,       \* maxAttempts
    LastPage,       \* pages a backfill has to read
    Odds,           \* the sets of misfortunes to consider
    MaxMoves,       \* bound: page views, uninstalls and conversations
    MaxLosses       \* bound: failures and kills

(* The handlers.  `again` says when the next run is queued: "first", before *)
(* any work; "page", after each but the last; "any", while any are kept.   *)
(* `whileGone` is whether that happens for a shop that is uninstalled,     *)
(* `atInstall` whether ensureShopRecord queues the first run, `ensured`    *)
(* whether a page starts what is missing                                   *)
ChainJob(kind, again, whileGone, atInstall, ensured) ==
    [kind |-> kind, again |-> again, whileGone |-> whileGone,
     atInstall |-> atInstall, ensured |-> ensured]

dailyBriefing     == ChainJob("agent.daily_briefing", "first", FALSE, TRUE, TRUE)
monthlyReviewJob  == ChainJob("analytics.monthly_review", "first", FALSE, FALSE, TRUE)
purgeAudit        == ChainJob("audit.purge", "first", FALSE, TRUE, TRUE)
purgeRetention    == ChainJob("retention.purge", "first", FALSE, FALSE, TRUE)
sendTrialReminder == ChainJob("billing.trial_reminder", "first", TRUE, TRUE, FALSE)
purgeConversations == ChainJob("agent.purge_conversations", "any", FALSE, FALSE, FALSE)
backfillCustomers == ChainJob("customers.backfill", "page", FALSE, TRUE, FALSE)
ordersBackfill    == ChainJob("orders.backfill", "page", FALSE, TRUE, FALSE)
backfillProducts  == ChainJob("products.backfill", "page", FALSE, TRUE, FALSE)

ChainJobs == {dailyBriefing, monthlyReviewJob, purgeAudit, purgeRetention,
              sendTrialReminder, purgeConversations, backfillCustomers,
              ordersBackfill, backfillProducts}

KindsThat(holds(_)) == {j.kind : j \in {i \in ChainJobs : holds(i)}}

Recurring == KindsThat(LAMBDA j : j.again = "first")
Backfills == KindsThat(LAMBDA j : j.again = "page")
EnsuredByPages  == KindsThat(LAMBDA j : j.ensured)
QueuedAtInstall == KindsThat(LAMBDA j : j.atInstall)
KeptWhileGone   == KindsThat(LAMBDA j : j.whileGone)

ASSUME JobChainsAssumption ==
    /\ Chains \subseteq KindsThat(LAMBDA j : TRUE)
    /\ Odds \subseteq SUBSET {"uninstalled",    \* the merchant uninstalls
                              "failing",        \* work throws
                              "killed",         \* a runner dies
                              "abandoned"}      \* a page view dies
    /\ {Slots, LastPage, MaxTries} \subseteq Nat \ {0}
    /\ {MaxMoves, MaxLosses} \subseteq Nat

Slot == 1 .. Slots

VARIABLES
    chain, odds,
    install,    \* the shop's row: "none", "here" or "gone" (uninstalledAt)
    slots,      \* status of each row of the kind
    tries,      \* attempts of each row
    workers,    \* where each runner is
    view,       \* where the page view is
    cursor,     \* the backfill's cursor; 0 is null
    filled,     \* the backfill's ...BackfilledAt is set
    talks,      \* some conversation is kept
    moves, losses,
    pages,      \* history: pages read since the backfill was last started
    left        \* history: the shop was uninstalled, or a page view died

rowsVars  == <<slots, tries>>
fillVars  == <<cursor, filled, pages>>
countVars == <<moves, losses>>
jobChainVars == <<chain, odds, install, rowsVars, workers, view, fillVars, talks, countVars, left>>

Resting == [at |-> "rest"]

IsPending(s) == slots[s] = "PENDING"

-----------------------------------------------------------------------------
(* enqueueJob: cancel what is pending, if it replaces; then create         *)

CancelPending ==
    /\ slots' = [s \in Slot |-> IF IsPending(s) THEN "FREE" ELSE slots[s]]
    /\ tries' = [s \in Slot |-> IF IsPending(s) THEN 0 ELSE tries[s]]

CreateRow ==
    \E s \in Slot :
        /\ slots[s] = "FREE" /\ \A q \in Slot : q < s => slots[q] # "FREE"
        /\ slots' = [slots EXCEPT ![s] = "PENDING"]
        /\ tries' = [tries EXCEPT ![s] = 0]

-----------------------------------------------------------------------------
(* The runner: claim a row, run its handler, write how it ended            *)

WorkerGoes(w, to) == workers' = [workers EXCEPT ![w].at = to]

Claim(w, s) ==
    /\ workers[w].at = "rest" /\ IsPending(s)
    /\ slots' = [slots EXCEPT ![s] = "RUNNING"]
    /\ tries' = [tries EXCEPT ![s] = @ + 1]
    /\ workers' = [workers EXCEPT ![w] = [at |-> "read", slot |-> s, cursor |-> 0]]
    /\ UNCHANGED <<chain, odds, install, view, fillVars, talks, countVars, left>>

(* mutant: a shop that is not on the plan that day is left before the next *)
(* run is queued                                                           *)
ReadsPlanFirst(w) ==
    /\ workers[w].at = "read"
    /\ \/ WorkerGoes(w, "end")
       \/ chain \in Recurring /\ install = "here" /\ WorkerGoes(w, "cancel")
    /\ UNCHANGED <<chain, odds, install, rowsVars, view, fillVars, talks, countVars, left>>

(* The shop's row is read.  Only the trial reminder queues its next run    *)
(* for a shop that is gone                                                 *)
ReadsShop(w) ==
    /\ workers[w].at = "read"
    /\ IF install # "here" /\ chain \notin KeptWhileGone THEN WorkerGoes(w, "end")
       ELSE workers' = [workers EXCEPT ![w].cursor = cursor,
                            ![w].at = IF chain \in Recurring THEN "cancel" ELSE "work"]
    /\ UNCHANGED <<chain, odds, install, rowsVars, view, fillVars, talks, countVars, left>>

Cancels(w) ==
    /\ workers[w].at = "cancel"
    /\ CancelPending
    /\ WorkerGoes(w, "create")
    /\ UNCHANGED <<chain, odds, install, view, fillVars, talks, countVars, left>>

CreatesNothing(w) ==     \* mutant: a backfill does not queue its next page
    /\ workers[w].at = "create"
    /\ IF chain \in Backfills THEN UNCHANGED rowsVars ELSE CreateRow
    /\ WorkerGoes(w, IF chain \in Recurring THEN "work" ELSE "end")
    /\ UNCHANGED <<chain, odds, install, view, fillVars, talks, countVars, left>>

Creates(w) ==
    /\ workers[w].at = "create"
    /\ CreateRow
    /\ WorkerGoes(w, IF chain \in Recurring THEN "work" ELSE "end")
    /\ UNCHANGED <<chain, odds, install, view, fillVars, talks, countVars, left>>

(* A briefing, a review, a reminder or a deletion, none of which is read   *)
(* by the chain                                                            *)
Works(w) ==
    /\ workers[w].at = "work" /\ chain \in Recurring
    /\ WorkerGoes(w, "end")
    /\ UNCHANGED <<chain, odds, install, rowsVars, view, fillVars, talks, countVars, left>>

(* One page, from the cursor that was read; the last one ends the backfill *)
WritesPage(w) ==
    /\ workers[w].at = "work" /\ chain \in Backfills
    /\ LET page == workers[w].cursor + 1 IN
         /\ pages' = pages \cup {page}
         /\ IF page < LastPage
              THEN cursor' = page /\ WorkerGoes(w, "create") /\ UNCHANGED filled
              ELSE cursor' = 0 /\ filled' = TRUE /\ WorkerGoes(w, "end")
    /\ UNCHANGED <<chain, odds, install, rowsVars, view, talks, countVars, left>>

(* purgeConversations: delete the old ones, count the rest, queue if any   *)
PurgesConversations(w) ==
    /\ workers[w].at = "work" /\ chain = "agent.purge_conversations"
    /\ \E rest \in {FALSE, talks} : talks' = rest
    /\ WorkerGoes(w, "count")
    /\ UNCHANGED <<chain, odds, install, rowsVars, view, fillVars, countVars, left>>

CountsConversations(w) ==
    /\ workers[w].at = "count"
    /\ WorkerGoes(w, IF talks THEN "cancel" ELSE "end")
    /\ UNCHANGED <<chain, odds, install, rowsVars, view, fillVars, talks, countVars, left>>

Ends(w) ==
    /\ workers[w].at = "end"
    /\ slots' = [slots EXCEPT ![workers[w].slot] = "FREE"]
    /\ tries' = [tries EXCEPT ![workers[w].slot] = 0]
    /\ workers' = [workers EXCEPT ![w] = Resting]
    /\ UNCHANGED <<chain, odds, install, view, fillVars, talks, countVars, left>>

Loss == losses < MaxLosses /\ losses' = losses + 1 /\ UNCHANGED moves

(* Shopify, the model or the mail fails, not the database: the row is      *)
(* tried again, or not                                                     *)
Fails(w) ==
    /\ "failing" \in odds /\ workers[w].at = "work" /\ Loss
    /\ chain # "agent.purge_conversations"
    /\ LET s == workers[w].slot
       IN  slots' = [slots EXCEPT ![s] = IF tries[s] >= MaxTries THEN "FREE" ELSE "PENDING"]
    /\ workers' = [workers EXCEPT ![w] = Resting]
    /\ UNCHANGED <<chain, odds, install, tries, view, fillVars, talks, left>>

WorkerKilled(w) ==
    /\ "killed" \in odds /\ workers[w].at # "rest" /\ Loss
    /\ workers' = [workers EXCEPT ![w] = Resting]
    /\ UNCHANGED <<chain, odds, install, rowsVars, view, fillVars, talks, left>>

(* No handler here is as slow as the fifteen minutes this waits            *)
requeueStuck(s) ==
    /\ slots[s] = "RUNNING"
    /\ \A w \in Worker : workers[w].at # "rest" => workers[w].slot # s
    /\ slots' = [slots EXCEPT ![s] = "PENDING"]
    /\ UNCHANGED <<chain, odds, install, tries, workers, view, fillVars, talks, countVars, left>>

-----------------------------------------------------------------------------
(* Page views: ensureShopRecord, then what the page itself ensures         *)

ViewGoes(to) == view' = [at |-> to]

Move == moves < MaxMoves /\ moves' = moves + 1 /\ UNCHANGED losses

createsShop ==
    /\ view.at = "rest" /\ install = "none" /\ Move
    /\ install' = "here"
    /\ ViewGoes(IF chain \in QueuedAtInstall THEN "cancel" ELSE "ensure")
    /\ UNCHANGED <<chain, odds, rowsVars, workers, fillVars, talks, left>>

(* mutant: a reinstall starts every backfill again, also one under way     *)
restoresAnyShop ==
    /\ view.at = "rest" /\ install = "gone" /\ Move
    /\ install' = "here"
    /\ ViewGoes(IF chain \in Backfills THEN "restart" ELSE "ensure")
    /\ UNCHANGED <<chain, odds, rowsVars, workers, fillVars, talks, left>>

(* A backfill is started again only if the last one came to its end        *)
restoresShop ==
    /\ view.at = "rest" /\ install = "gone" /\ Move
    /\ install' = "here"
    /\ ViewGoes(IF chain \in Backfills /\ filled THEN "restart" ELSE "ensure")
    /\ UNCHANGED <<chain, odds, rowsVars, workers, fillVars, talks, left>>

restartsBackfill ==
    /\ view.at = "restart"
    /\ cursor' = 0 /\ filled' = FALSE /\ pages' = {}
    /\ ViewGoes("cancel")
    /\ UNCHANGED <<chain, odds, install, rowsVars, workers, talks, countVars, left>>

opensPage ==
    /\ view.at = "rest" /\ install = "here" /\ chain \in EnsuredByPages /\ Move
    /\ ViewGoes("ensure")
    /\ UNCHANGED <<chain, odds, install, rowsVars, workers, fillVars, talks, left>>

(* The page the merchant opened may be another than the one that ensures   *)
ensureScheduled ==
    /\ view.at = "ensure"
    /\ \/ ViewGoes("rest")
       \/ /\ chain \in EnsuredByPages /\ (\A s \in Slot : ~IsPending(s))
          /\ ViewGoes("cancel")
    /\ UNCHANGED <<chain, odds, install, rowsVars, workers, fillVars, talks, countVars, left>>

(* A buyer's first message of a conversation schedules the purge           *)
startsConversation ==
    /\ view.at = "rest" /\ install = "here" /\ chain = "agent.purge_conversations" /\ Move
    /\ talks' = TRUE
    /\ ViewGoes("cancel")
    /\ UNCHANGED <<chain, odds, install, rowsVars, workers, fillVars, left>>

EnsureCancels ==
    /\ view.at = "cancel"
    /\ CancelPending
    /\ ViewGoes("create")
    /\ UNCHANGED <<chain, odds, install, workers, fillVars, talks, countVars, left>>

EnsureCreates ==
    /\ view.at = "create"
    /\ CreateRow
    /\ ViewGoes("rest")
    /\ UNCHANGED <<chain, odds, install, workers, fillVars, talks, countVars, left>>

ViewDies ==
    /\ "abandoned" \in odds /\ view.at # "rest" /\ Loss
    /\ ViewGoes("rest")
    /\ left' = TRUE
    /\ UNCHANGED <<chain, odds, install, rowsVars, workers, fillVars, talks>>

(* handleAppUninstalled: it may come before any page view                  *)
Uninstalls ==
    /\ "uninstalled" \in odds /\ install # "gone" /\ Move
    /\ install' = "gone"
    /\ left' = TRUE
    /\ UNCHANGED <<chain, odds, rowsVars, workers, view, fillVars, talks>>

-----------------------------------------------------------------------------
JobChainsInit ==
    /\ chain \in Chains /\ odds \in Odds
    /\ install = "none"
    /\ slots = [s \in Slot |-> "FREE"] /\ tries = [s \in Slot |-> 0]
    /\ workers = [w \in Worker |-> Resting]
    /\ view = Resting
    /\ cursor = 0 /\ filled = FALSE /\ talks = FALSE
    /\ moves = 0 /\ losses = 0
    /\ pages = {} /\ left = FALSE

WorkerStep(w) ==
    \/ ReadsShop(w) \/ Cancels(w) \/ Creates(w) \/ Ends(w)
    \/ Works(w) \/ WritesPage(w) \/ PurgesConversations(w) \/ CountsConversations(w)

ViewStep == restartsBackfill \/ ensureScheduled \/ EnsureCancels \/ EnsureCreates

ViewBegins == createsShop \/ restoresShop \/ opensPage \/ startsConversation

JobChainsNext ==
    \/ \E w \in Worker :
          WorkerStep(w) \/ Fails(w) \/ WorkerKilled(w) \/ \E s \in Slot : Claim(w, s)
    \/ \E s \in Slot : requeueStuck(s)
    \/ ViewStep \/ ViewBegins \/ ViewDies \/ Uninstalls

JobChainsSpec == JobChainsInit /\ [][JobChainsNext]_jobChainVars

(* The merchant's first page view ends, the cron calls the runner, which   *)
(* goes on with what it claimed and claims again what was left             *)
JobChainsFairness ==
    /\ WF_jobChainVars(ViewStep)
    /\ \A s \in Slot : WF_jobChainVars(requeueStuck(s))
    /\ \A w \in Worker :
          /\ WF_jobChainVars(WorkerStep(w))
          /\ WF_jobChainVars(\E s \in Slot : Claim(w, s))

JobChainsFairSpec == JobChainsSpec /\ JobChainsFairness

-----------------------------------------------------------------------------
(* The types of the state.                                                 *)
JobChainsTypeOK ==
    /\ chain \in Chains /\ odds \in Odds
    /\ install \in {"none", "here", "gone"}
    /\ slots \in [Slot -> {"FREE", "PENDING", "RUNNING"}] /\ tries \in [Slot -> Nat]
    /\ \A w \in Worker : workers[w].at \in
          {"rest", "read", "cancel", "create", "work", "count", "end"}
    /\ view.at \in {"rest", "restart", "ensure", "cancel", "create"}
    /\ cursor \in 0 .. LastPage - 1 /\ pages \subseteq 1 .. LastPage
    /\ {filled, talks, left} \subseteq BOOLEAN
    /\ moves \in 0 .. MaxMoves /\ losses \in 0 .. MaxLosses

IsComing == \E s \in Slot : slots[s] # "FREE"

Started == install = "here" /\ view.at = "rest"

(* A chain never ends by itself: a shop that was never uninstalled has its *)
(* next run queued or under way, whatever failed or died in a run of it,   *)
(* once a page view has started it; and as long as a conversation is kept  *)
(* so is the purge of it.                                                  *)
ChainsLive ==
    Started /\ ~left =>
        /\ chain \in QueuedAtInstall \ Backfills => IsComing
        /\ chain = "agent.purge_conversations" /\ talks => IsComing

(* A backfill that says it is done has read every page since it was last   *)
(* started, a shop that comes back in the middle of it included; as long   *)
(* as no runner dies, so that it has one run at a time.                    *)
BackfillIsWhole == filled /\ "killed" \notin odds => pages = 1 .. LastPage

(* The shop's own work is kept up: chains go on, backfills miss no page.   *)
WorkIsKept == ChainsLive /\ BackfillIsWhole

(* A backfill that was started comes to its end, however many runs die and *)
(* start over beside it: unless Shopify fails it to the last attempt, or   *)
(* the shop leaves.                                                        *)
BackfillEnds ==
    <>[]("failing" \notin odds /\ chain \in Backfills /\ Started => filled \/ left)

=============================================================================
