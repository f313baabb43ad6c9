--------------------------- MODULE SubscriptionCache ---------------------------
(***************************************************************************)
(* The plan cached on the shop's row, against the subscriptions Shopify    *)
(* has: app/lib/webhooks/handlers/app-subscriptions-update.server.ts and   *)
(* app/lib/billing/subscription.server.ts, which a page view calls.        *)
(*                                                                         *)
(* Subscriptions are numbered as they are made, and each is for a plan of  *)
(* its own; plan 0 is Free.  Both writers read the row, decide, and write  *)
(* it by the shop's name.  `skies` fixes what can go wrong in a behaviour. *)
(* A delivery always names its subscription; trials and test mode are left *)
(* out, and what the writers queue is PlanReconcile's.                     *)
(***************************************************************************)
EXTENDS Naturals

CONSTANTS
    MaxSubs,        \* bound: subscriptions ever made
    MaxTurns,       \* bound: what happens to subscriptions in Shopify
    Hook,           \* webhook requests
    Skies           \* the sets of misfortunes to consider

Troubles == {"late",        \* a delivery comes after those of later changes
             "overlapped",  \* two deliveries are handled at once
             "crossed",     \* a page view's sync runs while a delivery is posted
             "hidden",      \* Shopify's answer leaves out what there is
             "lost",        \* a delivery never comes
             "undated"}     \* a payload or an answer names no end of period

ASSUME SubscriptionAssumption ==
    MaxSubs \in Nat /\ MaxTurns \in Nat /\ Skies \subseteq SUBSET Troubles

Sub == 1 .. MaxSubs

VARIABLES
    skies,
    subs,       \* Shopify's subscriptions, in the order they were made
    turn,       \* changes in Shopify so far
    posted,     \* deliveries not handled yet
    cache,      \* the row's plan, status, subscription, grace and period end
    hooks,      \* where each webhook request is
    page,       \* where the page view's sync is
    clocks,     \* history: grace periods started, counted to MaxTurns + 1
    freezes     \* history: times Shopify froze one

truthVars == <<subs, turn, posted>>
cacheVars == <<cache, clocks>>
subscriptionVars == <<skies, truthVars, cacheVars, hooks, page, freezes>>

SubscriptionStatus == {"none", "PENDING", "ACTIVE", "FROZEN", "CANCELLED", "DECLINED"}

terminal(status) == status \in {"CANCELLED", "EXPIRED", "DECLINED"}

mapStatus(status) ==
    CASE status = "ACTIVE" -> "ACTIVE"
      [] status = "FROZEN" -> "PAST_DUE"
      [] terminal(status)  -> "CANCELLED"
      [] OTHER             -> "NONE"

FREE_SNAPSHOT == [plan |-> 0, status |-> "NONE", id |-> 0, period |-> "none"]

FreeRow == [plan |-> 0, status |-> "NONE", id |-> 0, period |-> "none", grace |-> FALSE]

LiveSubs == {s \in Sub : subs[s] \in {"ACTIVE", "FROZEN"}}

(* entitlements.server.ts, when no grace has run out                       *)
effectivePlan(row) == IF row.status \in {"CANCELLED", "NONE"} THEN 0 ELSE row.plan

-----------------------------------------------------------------------------
(* Shopify.  Approving a subscription replaces the one there was           *)

Turned(changed) ==
    /\ turn < MaxTurns
    /\ turn' = turn + 1
    /\ subs' = [s \in Sub |-> IF s \in DOMAIN changed THEN changed[s] ELSE subs[s]]
    /\ posted' = posted \cup
          {[id |-> s, status |-> changed[s], turn |-> turn'] :
               s \in {t \in DOMAIN changed : changed[t] # "PENDING"}}
    /\ "crossed" \notin skies => page.at = "idle"
    /\ UNCHANGED <<skies, cacheVars, hooks, page>>

OnlyThis(s, status) == [t \in {s} |-> status]

Requested(s) ==
    /\ subs[s] = "none" /\ \A t \in Sub : t < s => subs[t] \notin {"none", "PENDING"}
    /\ Turned(OnlyThis(s, "PENDING"))
    /\ UNCHANGED freezes

AnsweredByMerchant(s) ==
    /\ subs[s] = "PENDING"
    /\ \/ Turned(OnlyThis(s, "DECLINED"))
       \/ Turned([t \in {s} \cup LiveSubs |-> IF t = s THEN "ACTIVE" ELSE "CANCELLED"])
    /\ UNCHANGED freezes

Charged(s) ==
    \/ subs[s] = "ACTIVE" /\ Turned(OnlyThis(s, "FROZEN")) /\ freezes' = freezes + 1
    \/ subs[s] = "FROZEN" /\ Turned(OnlyThis(s, "ACTIVE")) /\ UNCHANGED freezes
    \/ s \in LiveSubs /\ Turned(OnlyThis(s, "CANCELLED")) /\ UNCHANGED freezes

DeliveryLost(m) ==
    /\ "lost" \in skies
    /\ posted' = posted \ {m}
    /\ UNCHANGED <<skies, subs, turn, cacheVars, hooks, page, freezes>>

-----------------------------------------------------------------------------
(* The webhook's handler                                                   *)

isNeverStale(m, existing) == FALSE     \* mutant: an old subscription's end counts

isStale(m, existing) == existing.id # 0 /\ m.id # existing.id /\ terminal(m.status)

(* A clock that runs is kept; without one, a past-due row starts one       *)
CacheWritten(row, previous) ==
    /\ cache' = row
    /\ clocks' = IF row.grace /\ ~previous.grace /\ clocks <= MaxTurns
                 THEN clocks + 1 ELSE clocks

(* The end of the period Shopify names, or what stands in for it: the      *)
(* row's own, as it was read (readDates), or none (readSubscriptions).     *)
(* One that is past by now is past a step later, by PeriodEnds.            *)
PeriodsTold(otherwise) ==
    {"ahead"} \cup (IF "undated" \in skies THEN {otherwise} ELSE {})

HookReads(h, m) ==
    /\ hooks[h].at = "idle"
    /\ "overlapped" \notin skies => \A g \in Hook : hooks[g].at = "idle"
    /\ "crossed" \notin skies => page.at = "idle"
    /\ "late" \notin skies => \A n \in posted : m.turn <= n.turn
    /\ posted' = posted \ {m}
    /\ hooks' = IF isStale(m, cache) THEN hooks
                ELSE [hooks EXCEPT ![h] = [at |-> "write", m |-> m, existing |-> cache]]
    /\ UNCHANGED <<skies, subs, turn, cacheVars, page, freezes>>

HookWrites(h) ==
    /\ hooks[h].at = "write"
    /\ LET m      == hooks[h].m
           status == mapStatus(m.status)
       IN  \E period \in PeriodsTold(hooks[h].existing.period) :
           CacheWritten([plan   |-> IF status = "CANCELLED" THEN 0 ELSE m.id,
                    status |-> status,
                    id     |-> m.id,
                    period |-> IF status = "CANCELLED" THEN "none" ELSE period,
                    grace  |-> status = "PAST_DUE"], hooks[h].existing)
    /\ hooks' = [hooks EXCEPT ![h] = [at |-> "idle"]]
    /\ UNCHANGED <<skies, truthVars, page, freezes>>

-----------------------------------------------------------------------------
(* syncSubscription: the Plans page always calls it, another page once an  *)
(* hour has passed since the last (syncSubscriptionIfStale)                *)

SyncReads ==
    /\ page.at = "idle"
    /\ "crossed" \notin skies => posted = {} /\ \A h \in Hook : hooks[h].at = "idle"
    /\ page' = [at |-> "check", previous |-> cache]
    /\ UNCHANGED <<skies, truthVars, cacheVars, hooks, freezes>>

(* The active one wins; otherwise the one made last.  0 is no subscription *)
readSubscriptions(some) ==
    IF some = {} THEN 0
    ELSE LET relevant == IF \E s \in some : subs[s] = "ACTIVE"
                           THEN {s \in some : subs[s] = "ACTIVE"} ELSE some
         IN  CHOOSE s \in relevant : \A t \in relevant : t <= s

SyncChecks ==
    /\ page.at = "check"
    /\ \E some \in {LiveSubs} \cup (IF "hidden" \in skies THEN {{}} ELSE {}),
          period \in PeriodsTold("none") :
         LET s == readSubscriptions(some)
         IN  page' = [at |-> "write", previous |-> page.previous,
                      known |-> s # 0,
                      snapshot |-> IF s = 0 THEN FREE_SNAPSHOT
                                   ELSE [plan |-> s, status |-> mapStatus(subs[s]),
                                         id |-> s, period |-> period]]
    /\ UNCHANGED <<skies, truthVars, cacheVars, hooks, freezes>>

mayAlwaysActOn(previous) == TRUE     \* mutant: an empty answer is taken at its word

mayNeverActOn(previous) == FALSE     \* mutant: an empty answer is never believed

(* Only when there is nothing to lose, or the period paid for is over      *)
mayActOn(previous) == previous.plan = 0 \/ previous.period = "over"

SyncWrites ==
    /\ page.at = "write"
    /\ IF ~page.known /\ ~mayActOn(page.previous)
         THEN UNCHANGED cacheVars
         ELSE LET snapshot == page.snapshot
              IN  CacheWritten([plan   |-> snapshot.plan,
                           status |-> snapshot.status,
                           id     |-> snapshot.id,
                           period |-> snapshot.period,
                           grace  |-> snapshot.status = "PAST_DUE"], page.previous)
    /\ page' = [at |-> "idle"]
    /\ UNCHANGED <<skies, truthVars, hooks, freezes>>

(* The period that was paid for ends                                       *)
PeriodEnds ==
    /\ cache.period = "ahead"
    /\ cache' = [cache EXCEPT !.period = "over"]
    /\ UNCHANGED <<skies, truthVars, clocks, hooks, page, freezes>>

-----------------------------------------------------------------------------
SubscriptionInit ==
    /\ skies \in Skies
    /\ subs = [s \in Sub |-> "none"]
    /\ turn = 0
    /\ posted = {}
    /\ cache = FreeRow
    /\ hooks = [h \in Hook |-> [at |-> "idle"]]
    /\ page = [at |-> "idle"]
    /\ clocks = 0
    /\ freezes = 0

ShopifyTurns == \E s \in Sub : Requested(s) \/ AnsweredByMerchant(s) \/ Charged(s)
HookBegins == \E m \in posted, h \in Hook : HookReads(h, m)
SyncStep    == SyncReads \/ SyncChecks \/ SyncWrites

SubscriptionNext ==
    \/ ShopifyTurns \/ HookBegins \/ SyncStep
    \/ \E m \in posted : DeliveryLost(m)
    \/ \E h \in Hook : HookWrites(h)
    \/ PeriodEnds

SubscriptionSpec == SubscriptionInit /\ [][SubscriptionNext]_subscriptionVars

(* Shopify delivers, a handler that read goes on to write, periods end,    *)
(* and the merchant goes on opening pages of the app.                      *)
SubscriptionFairness ==
    /\ WF_subscriptionVars(HookBegins) /\ WF_subscriptionVars(SyncStep)
    /\ WF_subscriptionVars(PeriodEnds)
    /\ \A h \in Hook : WF_subscriptionVars(HookWrites(h))

SubscriptionFairSpec == SubscriptionSpec /\ SubscriptionFairness

-----------------------------------------------------------------------------
(* The types of the state.                                                 *)
SubscriptionTypeOK ==
    /\ skies \in Skies
    /\ subs \in [Sub -> SubscriptionStatus]
    /\ turn \in 0 .. MaxTurns
    /\ posted \subseteq [id: Sub, status: SubscriptionStatus, turn: 1 .. MaxTurns]
    /\ cache \in [plan: Sub \cup {0}, id: Sub \cup {0}, grace: BOOLEAN,
                  status: {"NONE", "ACTIVE", "PAST_DUE", "CANCELLED"},
                  period: {"none", "ahead", "over"}]
    /\ \A h \in Hook : hooks[h].at \in {"idle", "write"}
    /\ page.at \in {"idle", "check", "write"}
    /\ {clocks, freezes} \subseteq Nat

ClearOf(some) == skies \cap some = {}

NothingUnderWay == posted = {} /\ page.at = "idle" /\ \A h \in Hook : hooks[h].at = "idle"

Truth == IF LiveSubs = {} THEN 0 ELSE readSubscriptions(LiveSubs)

CacheIsTrue ==
    ClearOf(Troubles \ {"undated"}) =>
        /\ NothingUnderWay => effectivePlan(cache) = Truth
        /\ clocks <= freezes

NotCutOff ==
    /\ ClearOf({"late", "overlapped", "crossed"})
    /\ cache.plan \in LiveSubs /\ cache.period # "over"
    => cache'.plan # 0

(* A merchant who pays, for a period not known to be over, is not dropped  *)
(* to Free by an answer or a delivery about something else: not even if    *)
(* Shopify hides or loses some, or names no end of the period.  And with   *)
(* changes reported in order, one delivery at a time, the shop is on the   *)
(* plan it pays for once every delivery is handled, in whichever order an  *)
(* upgrade's two deliveries came; however often a failed charge was        *)
(* reported or looked at, it started one period of grace.                  *)
NeverCutOff == [][NotCutOff /\ CacheIsTrue']_subscriptionVars

(* An empty answer is believed only once the period the row knows is over  *)
(* (mayActOn): a row that knows of none must not need that.                *)
Heals == ClearOf({"hidden"}) /\ ("undated" \in skies => ClearOf(Troubles \ {"undated"}))

(* Whatever was late, lost or overlapping: once Shopify is done changing,  *)
(* the row comes to agree with it, for good, as long as its answers leave  *)
(* nothing out; and where the end of a period is not always named, as long *)
(* as the changes were reported whole and in order.                        *)
CacheHeals ==
    <>[](Heals => effectivePlan(cache) = Truth)

=============================================================================
