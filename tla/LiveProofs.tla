----------------------------- MODULE LiveProofs -----------------------------
(***************************************************************************)
(* What must hold of a shop whatever is late, lost or dies on the way, for *)
(* any number of rows, runners and failures: its lifecycle (ShopLifecycle) *)
(* and the webhooks that drive it (WebhookDispatch), its plan and what     *)
(* checkout shows of it (PlanReconcile), the plan it has cached            *)
(* (SubscriptionCache), and the types of all that moves (MCLive).          *)
(***************************************************************************)
EXTENDS MCLive, ApplicationsProofs, FiniteSetTheorems, SequenceTheorems, TLAPS

(***************************************************************************)
(* The safety of a shop's life, for any number of purge rows, runners,     *)
(* uninstalls and failures, and any maxAttempts: no live shop carries the  *)
(* stamp, no data but that of the gone is purged, and a purge is coming for*)
(* whoever is gone.  Each leaves out the one order of events under which   *)
(* the code breaks it: a page view that restores the shop while a purge is *)
(* between its read and its transaction ("overlap") for the first two, and *)
(* an uninstall recorded between a page view's restore and its cancel      *)
(* ("crossing") for the third.                                             *)
(*                                                                         *)
(* PurgeIsComing speaks of quiet states and is far from inductive: a row   *)
(* that is leased may be about to be reported over without a purge.        *)
(* Assured says what holds in every state: a delivery is outstanding, or   *)
(* some row is ToBeTried, which a row whose handler has decided to skip,   *)
(* or is done, is not.                                                     *)
(*                                                                         *)
(* At the end, what the deduplication of webhooks guarantees, for any      *)
(* number of webhooks, requests and faults.                                *)
(***************************************************************************)
\* A handler at work is that of a delivery not answered yet.
Unanswered == \A t \in Topic : hook[t] # "idle" => outbox[t] > 0

LifeTypes == LifeTypeOK /\ Unanswered

\* Who is about to purge, purges a shop that is gone.
TransactsOnTheGone == \A r \in Purger : purge[r] = "transact" => shopRow = "gone"

StampInv == LifeTypes /\ TransactsOnTheGone /\ StampOnlyOnTheGone

\* A page view between its restore and its cancel has a live shop.
LiveWhileRestored == pageView = "cancel" => shopRow = "live"

\* A row that will be tried, or was as often as it may: not one whose holder
\* only has to report it over.
ToBeTried(j) ==
    \/ phase[j] = "waiting"
    \/ leases[j] >= MaxAttempts
    \/ phase[j] = "leased" /\ \A r \in Purger : holders[j] = {r} => purge[r] # "report"

Assured ==
    shopRow = "gone" /\ ~purgedAt =>
        (\E t \in Topic : outbox[t] > 0) \/ \E j \in PurgeRow : ToBeTried(j)

PurgeInv == LifeTypes /\ LiveWhileRestored /\ Assured

-----------------------------------------------------------------------------
(* Types                                                                   *)

\* Moving rows from one phase to another keeps the phases typed.
LEMMA LifeTyped ==
    ASSUME LifeTypeOK, NEW S, NEW p \in {"none", "waiting", "leased", "over"},
           PurgeQueue!Move(S, p)
    PROVE  phase' \in [PurgeRow -> {"none", "waiting", "leased", "over"}]
BY DEF LifeTypeOK, PurgeQueue!Move

LEMMA LifeTypesBegin == LifeInit => LifeTypes
<1> SUFFICES ASSUME LifeInit PROVE LifeTypes
    OBVIOUS
<1>1. 0 \in 0 .. MaxUninstalls /\ 0 \in 0 .. MaxEvents
    BY LifecycleAssumption
<1>2. installed \in BOOLEAN /\ redactDue \in BOOLEAN /\ lateOrder \in BOOLEAN
    BY DEF LifeInit
<1>3. purgedAt \in BOOLEAN /\ data \in BOOLEAN /\ known \in BOOLEAN
    BY DEF LifeInit
<1>4. /\ phase \in [PurgeRow -> {"none", "waiting", "leased", "over"}]
      /\ holders \in [PurgeRow -> SUBSET Purger]
      /\ leases \in [PurgeRow -> Nat]
    BY DEF LifeInit, PurgeQueue!LeaseInit
<1>5. due \in [PurgeRow -> BOOLEAN]
    BY DEF LifeInit
<1>6. outbox \in [Topic -> Nat]
    BY DEF LifeInit, Topic
<1> QED
    BY <1>1, <1>2, <1>3, <1>4, <1>5, <1>6 DEF LifeInit, LifeTypes, LifeTypeOK, Unanswered

\* What the merchant and Shopify do.
LEMMA WorldTyped ==
    ASSUME LifeTypes,
           Uninstall \/ Reinstall \/ SendRedact \/ OrderMirrored
             \/ \E j \in PurgeRow : BecomesDue(j)
    PROVE  LifeTypes'
<1> USE LifecycleAssumption
<1>1. CASE Uninstall
    <2>1. lateOrder' \in BOOLEAN
        BY <1>1 DEF Uninstall
    <2>2. uninstalls' \in 0 .. MaxUninstalls
        BY <1>1 DEF LifeTypes, LifeTypeOK, Uninstall
    <2>3. outbox' \in [Topic -> Nat] /\ \A t \in Topic : outbox'[t] >= outbox[t]
        BY <1>1 DEF LifeTypes, LifeTypeOK, Uninstall, Topic
    <2>4. /\ installed' = FALSE /\ redactDue' = TRUE
          /\ UNCHANGED <<purgedAt, data, known, shopRow, phase, holders, leases, due, hook,
                         pageView, purge, failures>>
        BY <1>1 DEF Uninstall, shopVars, queueVars
    <2>5. LifeTypeOK'
        BY <2>1, <2>2, <2>3, <2>4 DEF LifeTypes, LifeTypeOK
    <2> QED
        BY <2>3, <2>4, <2>5 DEF LifeTypes, LifeTypeOK, Unanswered
<1>2. CASE SendRedact
    <2>1. outbox' \in [Topic -> Nat] /\ \A t \in Topic : outbox'[t] >= outbox[t]
        BY <1>2 DEF LifeTypes, LifeTypeOK, SendRedact, Topic
    <2>2. LifeTypeOK'
        BY <1>2, <2>1 DEF LifeTypes, LifeTypeOK, SendRedact, shopVars, queueVars
    <2> QED
        BY <1>2, <2>1, <2>2 DEF LifeTypes, LifeTypeOK, Unanswered, SendRedact
<1>3. CASE Reinstall \/ OrderMirrored
    BY <1>3 DEF LifeTypes, LifeTypeOK, Unanswered, Reinstall, OrderMirrored, shopVars, queueVars,
                hookVars
<1>4. ASSUME NEW j \in PurgeRow, BecomesDue(j) PROVE LifeTypes'
    BY <1>4 DEF LifeTypes, LifeTypeOK, Unanswered, BecomesDue, shopVars, hookVars, realVars
<1> QED
    BY <1>1, <1>2, <1>3, <1>4

\* What the two handlers do.
LEMMA HooksTyped ==
    ASSUME LifeTypes, NEW t \in Topic,
           Tombstone \/ RedactStep \/ HookStep(t) \/ HookFails(t)
    PROVE  LifeTypes'
<1> USE LifecycleAssumption DEF Topic
<1>1. CASE Tombstone \/ RedactTombstones
    <2>1. PICK u \in Topic : hook[u] # "idle" /\ HookGoes(u, "cancel")
        BY <1>1 DEF Tombstone, RedactTombstones
    <2> QED
        BY <1>1, <2>1 DEF LifeTypes, LifeTypeOK, Unanswered, Tombstone, RedactTombstones,
                          HookGoes, queueVars, realVars
<1>6. CASE RedactReads
    <2>1. known' \in BOOLEAN
        BY <1>6, Zenon DEF RedactReads, HadUninstall
    <2>2. hook["redact"] # "idle" /\ \E l \in {"cancel", "write"} : HookGoes("redact", l)
        BY <1>6, Zenon DEF RedactReads
    <2> QED
        BY <1>6, <2>1, <2>2 DEF LifeTypes, LifeTypeOK, Unanswered, RedactReads, HookGoes, shopVars,
                                queueVars, realVars
<1>2. CASE Deliver(t)
    BY <1>2 DEF LifeTypes, LifeTypeOK, Unanswered, Deliver, HookGoes, shopVars, queueVars,
                realVars
<1>3. CASE HookCancels(t)
    <2>1. phase' \in [PurgeRow -> {"none", "waiting", "leased", "over"}]
        BY <1>3, LifeTyped DEF LifeTypes, HookCancels, CancelPurges, PurgeQueue!Withdraw
    <2> QED
        BY <1>3, <2>1 DEF LifeTypes, LifeTypeOK, Unanswered, HookCancels, CancelPurges,
                          PurgeQueue!Withdraw, HookGoes, shopVars, realVars
<1>4. CASE HookCreates(t)
    <2>1. phase' \in [PurgeRow -> {"none", "waiting", "leased", "over"}]
        BY <1>4, LifeTyped DEF LifeTypes, HookCreates, QueuePurge, PurgeQueue!Post
    <2>2. due' \in [PurgeRow -> BOOLEAN] /\ UNCHANGED <<holders, leases>>
        BY <1>4 DEF LifeTypes, LifeTypeOK, HookCreates, QueuePurge, PurgeQueue!Post
    <2>3. outbox[t] \in Nat /\ outbox[t] > 0
        BY <1>4 DEF LifeTypes, LifeTypeOK, Unanswered, HookCreates
    <2>4. outbox' \in [Topic -> Nat]
        BY <1>4, <2>3 DEF LifeTypes, LifeTypeOK, HookCreates, Answered
    <2>5. hook' = [hook EXCEPT ![t] = "idle"] /\ \A u \in Topic \ {t} : outbox'[u] = outbox[u]
        BY <1>4 DEF LifeTypes, LifeTypeOK, HookCreates, HookGoes, Answered
    <2>6. LifeTypeOK'
        BY <1>4, <2>1, <2>2, <2>4, <2>5 DEF LifeTypes, LifeTypeOK, HookCreates, shopVars, realVars
    <2>7. Unanswered'
        BY <2>5 DEF LifeTypes, LifeTypeOK, Unanswered
    <2> QED
        BY <2>6, <2>7 DEF LifeTypes
<1>5. CASE HookFails(t)
    BY <1>5 DEF LifeTypes, LifeTypeOK, Unanswered, HookFails, Failure, Eventful, HookGoes,
                shopVars, queueVars, realVars
<1> QED
    BY <1>1, <1>2, <1>3, <1>4, <1>5, <1>6 DEF HookStep, RedactStep

\* What a page view does.
LEMMA ViewsTyped ==
    ASSUME LifeTypes, ViewReads \/ PageViewStep \/ ViewFails
    PROVE  LifeTypes'
<1> USE LifecycleAssumption
<1>1. CASE ViewReads \/ ViewFails
    BY <1>1 DEF LifeTypes, LifeTypeOK, Unanswered, ViewReads, ViewFails, Failure, Eventful,
                shopVars, queueVars, hookVars, realVars
<1>3. CASE ViewCreates \/ ViewRestores
    <2>1. shopRow' \in {"none", "live", "gone"} /\ pageView' \in {"idle", "cancel"}
        BY <1>3 DEF LifeTypes, LifeTypeOK, ViewCreates, ViewRestores, Restored
    <2>2. purgedAt' \in BOOLEAN
        BY <1>3 DEF LifeTypes, LifeTypeOK, ViewCreates, ViewRestores, Restored
    <2>3. UNCHANGED <<data, queueVars, hookVars, realVars, purge, failures>>
        BY <1>3 DEF ViewCreates, ViewRestores
    <2> QED
        BY <2>1, <2>2, <2>3 DEF LifeTypes, LifeTypeOK, Unanswered, queueVars, hookVars, realVars
<1>2. CASE ViewCancels
    <2>1. phase' \in [PurgeRow -> {"none", "waiting", "leased", "over"}]
        BY <1>2, LifeTyped DEF LifeTypes, ViewCancels, CancelPurges, PurgeQueue!Withdraw
    <2> QED
        BY <1>2, <2>1 DEF LifeTypes, LifeTypeOK, Unanswered, ViewCancels, CancelPurges,
                          PurgeQueue!Withdraw, shopVars, hookVars, realVars
<1> QED
    BY <1>1, <1>2, <1>3 DEF PageViewStep

\* What the runner does.
LEMMA JobsTyped ==
    ASSUME LifeTypes, NEW r \in Purger, PurgeStep(r) \/ PurgeFails(r) \/ PurgeDies(r)
    PROVE  LifeTypes'
<1> USE LifecycleAssumption
<1>1. CASE PurgeReads(r) \/ PurgeTransacts(r)
    <2>1. purge' \in [Purger -> {"idle", "read", "transact", "report"}]
        BY <1>1 DEF LifeTypes, LifeTypeOK, PurgeReads, PurgeTransacts
    <2>2. purgedAt' \in BOOLEAN /\ data' \in BOOLEAN
        BY <1>1 DEF LifeTypes, LifeTypeOK, PurgeReads, PurgeTransacts, shopVars
    <2>3. UNCHANGED <<shopRow, queueVars, hookVars, realVars, pageView, failures>>
        BY <1>1 DEF PurgeReads, PurgeTransacts, shopVars
    <2> QED
        BY <2>1, <2>2, <2>3 DEF LifeTypes, LifeTypeOK, Unanswered, queueVars, hookVars, realVars
<1>2. ASSUME NEW i \in PurgeRow, PurgeQueue!Report(r, i), due' \in [PurgeRow -> BOOLEAN],
             purge' = [purge EXCEPT ![r] = "idle"], failures' \in 0 .. MaxEvents,
             UNCHANGED <<shopVars, hookVars, realVars, pageView>>
      PROVE  LifeTypes'
    <2>1. phase' \in [PurgeRow -> {"none", "waiting", "leased", "over"}]
        BY <1>2, LifeTyped DEF LifeTypes, PurgeQueue!Report
    <2> QED
        BY <1>2, <2>1 DEF LifeTypes, LifeTypeOK, Unanswered, PurgeQueue!Report, shopVars,
                          hookVars, realVars
<1>3. CASE PurgeReports(r)
    BY <1>2, <1>3 DEF PurgeReports, LifeTypes, LifeTypeOK
<1>4. CASE PurgeFails(r)
    BY <1>2, <1>4 DEF PurgeFails, Failure, Eventful, LifeTypes, LifeTypeOK
<1>5. CASE PurgeDies(r)
    BY <1>5 DEF LifeTypes, LifeTypeOK, Unanswered, PurgeDies, Failure, Eventful, PurgeQueue!Die,
                shopVars, hookVars, realVars
<1> QED
    BY <1>1, <1>3, <1>4, <1>5 DEF PurgeStep

\* A runner takes a row.
LEMMA ClaimTyped ==
    ASSUME LifeTypes, NEW r \in Purger, NEW j \in PurgeRow, ClaimPurge(r, j)
    PROVE  LifeTypes'
<1>1. phase' \in [PurgeRow -> {"none", "waiting", "leased", "over"}]
    BY LifeTyped DEF LifeTypes, ClaimPurge, PurgeQueue!Take
<1>2. /\ holders' \in [PurgeRow -> SUBSET Purger]
      /\ leases' \in [PurgeRow -> Nat]
    BY DEF LifeTypes, LifeTypeOK, ClaimPurge, PurgeQueue!Take
<1>3. purge' \in [Purger -> {"idle", "read", "transact", "report"}]
    BY DEF LifeTypes, LifeTypeOK, ClaimPurge
<1>4. UNCHANGED <<shopVars, due, hookVars, realVars, pageView, failures>>
    BY DEF ClaimPurge
<1> QED
    BY <1>1, <1>2, <1>3, <1>4 DEF LifeTypes, LifeTypeOK, Unanswered, shopVars, hookVars,
                                  realVars

\* A row whose runner died is taken back.
LEMMA RequeueTyped ==
    ASSUME LifeTypes, NEW j \in PurgeRow, RequeuePurge(j)
    PROVE  LifeTypes'
<1>1. phase' \in [PurgeRow -> {"none", "waiting", "leased", "over"}]
    BY LifeTyped DEF LifeTypes, RequeuePurge, PurgeQueue!TakeBack
<1> QED
    BY <1>1 DEF LifeTypes, LifeTypeOK, Unanswered, RequeuePurge, PurgeQueue!TakeBack,
                      shopVars, hookVars, realVars

\* Every step keeps the types.
LEMMA TypeStep == LifeTypes /\ [LifeNext]_lifeVars => LifeTypes'
<1> SUFFICES ASSUME LifeTypes, [LifeNext]_lifeVars PROVE LifeTypes'
    OBVIOUS
<1>1. CASE Uninstall \/ Reinstall \/ SendRedact \/ OrderMirrored
    BY <1>1, WorldTyped
<1>2. CASE Tombstone \/ RedactStep
    <2>1. "redact" \in Topic
        BY DEF Topic
    <2> QED
        BY <1>2, <2>1, HooksTyped
<1>3. CASE ViewReads \/ PageViewStep \/ ViewFails
    BY <1>3, ViewsTyped
<1>4. ASSUME NEW t \in Topic, HookStep(t) \/ HookFails(t) PROVE LifeTypes'
    BY <1>4, HooksTyped
<1>5. ASSUME NEW j \in PurgeRow, BecomesDue(j) PROVE LifeTypes'
    BY <1>5, WorldTyped
<1>6. ASSUME NEW j \in PurgeRow, RequeuePurge(j) PROVE LifeTypes'
    BY <1>6, RequeueTyped
<1>7. ASSUME NEW r \in Purger, PurgeStep(r) \/ PurgeFails(r) \/ PurgeDies(r)
      PROVE  LifeTypes'
    BY <1>7, JobsTyped
<1>8. ASSUME NEW r \in Purger, NEW j \in PurgeRow, ClaimPurge(r, j) PROVE LifeTypes'
    BY <1>8, ClaimTyped
<1>9. CASE UNCHANGED lifeVars
    BY <1>9 DEF LifeTypes, LifeTypeOK, Unanswered, lifeVars, shopVars, queueVars, hookVars,
                realVars
<1> QED
    BY <1>1, <1>2, <1>3, <1>4, <1>5, <1>6, <1>7, <1>8, <1>9 DEF LifeNext

\* The types hold whatever the merchant, Shopify, the page views and the
\* runners do, and a handler at work has its delivery outstanding.
THEOREM LifeTypesHold == LifeSpec => [](LifeTypeOK /\ Unanswered)
<1>1. LifeSpec => []LifeTypes
    BY LifeTypesBegin, TypeStep, PTL DEF LifeSpec
<1> QED
    BY <1>1, PTL DEF LifeTypes

-----------------------------------------------------------------------------
(* The stamp, and whose data is purged                                     *)

LEMMA StampInitially == LifeInit => StampInv
<1> SUFFICES ASSUME LifeInit PROVE StampInv
    OBVIOUS
<1> QED
    BY LifeTypesBegin DEF LifeInit, StampInv, TransactsOnTheGone, StampOnlyOnTheGone

\* Only a page view brings a shop back, and it takes the stamp away: no purge
\* is then past its read, or the two would overlap.
LEMMA StampStep ==
    ASSUME "overlap" \notin Crossings, StampInv, [LifeNext]_lifeVars
    PROVE  StampInv'
<1>1. LifeTypes /\ LifeTypes'
    BY TypeStep DEF StampInv
<1>2. SUFFICES (TransactsOnTheGone /\ StampOnlyOnTheGone)'
    BY <1>1 DEF StampInv
<1>3. ASSUME UNCHANGED <<purgedAt, purge>>, shopRow' = shopRow \/ shopRow' = "gone"
      PROVE  (TransactsOnTheGone /\ StampOnlyOnTheGone)'
    BY <1>3 DEF StampInv, TransactsOnTheGone, StampOnlyOnTheGone
<1>4. ASSUME NEW r \in Purger, UNCHANGED <<shopRow, purgedAt>>,
             \E l \in {"idle", "read", "report"} : purge' = [purge EXCEPT ![r] = l]
      PROVE  (TransactsOnTheGone /\ StampOnlyOnTheGone)'
    BY <1>1, <1>4 DEF StampInv, TransactsOnTheGone, StampOnlyOnTheGone, LifeTypes, LifeTypeOK
<1>5. CASE Uninstall \/ Reinstall \/ SendRedact \/ OrderMirrored
    BY <1>3, <1>5 DEF Uninstall, Reinstall, SendRedact, OrderMirrored, shopVars
<1>6. CASE Tombstone \/ RedactStep
    BY <1>3, <1>6 DEF Tombstone, RedactStep, RedactReads, RedactTombstones, shopVars
<1>7. CASE ViewReads \/ ViewCancels \/ ViewFails
    BY <1>3, <1>7 DEF ViewReads, ViewCancels, ViewFails, shopVars
<1>8. CASE ViewCreates
    <2>1. shopRow = "none" => ~purgedAt /\ \A r \in Purger : purge[r] # "transact"
        BY DEF StampInv, TransactsOnTheGone, StampOnlyOnTheGone
    <2> QED
        BY <1>8, <2>1 DEF ViewCreates, StampInv, TransactsOnTheGone, StampOnlyOnTheGone
<1>9. CASE ViewRestores
    BY <1>9 DEF ViewRestores, Restored, TransactsOnTheGone, StampOnlyOnTheGone
<1>10. ASSUME NEW t \in Topic, HookStep(t) \/ HookFails(t)
       PROVE  (TransactsOnTheGone /\ StampOnlyOnTheGone)'
    BY <1>3, <1>10 DEF HookStep, Deliver, HookCancels, HookCreates, HookFails, shopVars
<1>11. ASSUME NEW j \in PurgeRow, BecomesDue(j) \/ RequeuePurge(j)
       PROVE  (TransactsOnTheGone /\ StampOnlyOnTheGone)'
    BY <1>3, <1>11 DEF BecomesDue, RequeuePurge, shopVars
<1>12. ASSUME NEW r \in Purger, PurgeReads(r)
       PROVE  (TransactsOnTheGone /\ StampOnlyOnTheGone)'
    BY <1>1, <1>12 DEF PurgeReads, MayPurge, StampInv, TransactsOnTheGone, StampOnlyOnTheGone,
                       LifeTypes, LifeTypeOK, shopVars
<1>13. ASSUME NEW r \in Purger, PurgeTransacts(r)
       PROVE  (TransactsOnTheGone /\ StampOnlyOnTheGone)'
    BY <1>1, <1>13 DEF PurgeTransacts, StampInv, TransactsOnTheGone, StampOnlyOnTheGone,
                       LifeTypes, LifeTypeOK
<1>14. ASSUME NEW r \in Purger, PurgeReports(r) \/ PurgeFails(r) \/ PurgeDies(r)
       PROVE  (TransactsOnTheGone /\ StampOnlyOnTheGone)'
    BY <1>4, <1>14 DEF PurgeReports, PurgeFails, PurgeDies, shopVars
<1>15. ASSUME NEW r \in Purger, NEW j \in PurgeRow, ClaimPurge(r, j)
       PROVE  (TransactsOnTheGone /\ StampOnlyOnTheGone)'
    BY <1>4, <1>15 DEF ClaimPurge, shopVars
<1>16. CASE UNCHANGED lifeVars
    BY <1>3, <1>16 DEF lifeVars, shopVars
<1> QED
    BY <1>5, <1>6, <1>7, <1>8, <1>9, <1>10, <1>11, <1>12, <1>13, <1>14, <1>15, <1>16
    DEF LifeNext, PageViewStep, PurgeStep

\* As long as no page view restores a shop in the middle of a purge, a live
\* shop never carries the stamp that makes the next purge skip it.
THEOREM LiveIsUnstamped ==
    "overlap" \notin Crossings => (LifeSpec => []StampOnlyOnTheGone)
<1> SUFFICES ASSUME "overlap" \notin Crossings
    PROVE  LifeSpec => []StampOnlyOnTheGone
    OBVIOUS
<1>1. StampInv /\ [LifeNext]_lifeVars => StampInv'
    BY StampStep
<1>2. StampInv => StampOnlyOnTheGone
    BY DEF StampInv
<1> QED
    BY StampInitially, <1>1, <1>2, PTL DEF LifeSpec

\* No step but a purge's transaction deletes data.
LEMMA OnlyTransactsDelete ==
    ASSUME LifeTypes, [LifeNext]_lifeVars, data, ~data'
    PROVE  \E r \in Purger : purge[r] = "transact"
<1>1. CASE Uninstall \/ Reinstall \/ SendRedact \/ OrderMirrored
    BY <1>1 DEF Uninstall, Reinstall, SendRedact, OrderMirrored, shopVars
<1>2. CASE Tombstone \/ RedactStep
    BY <1>2 DEF Tombstone, RedactStep, RedactReads, RedactTombstones, shopVars
<1>3. CASE ViewReads \/ PageViewStep \/ ViewFails
    BY <1>3 DEF ViewReads, PageViewStep, ViewCreates, ViewRestores, ViewCancels, ViewFails,
                shopVars
<1>4. ASSUME NEW t \in Topic, HookStep(t) \/ HookFails(t) PROVE FALSE
    BY <1>4 DEF HookStep, Deliver, HookCancels, HookCreates, HookFails, shopVars
<1>5. ASSUME NEW j \in PurgeRow, BecomesDue(j) \/ RequeuePurge(j) PROVE FALSE
    BY <1>5 DEF BecomesDue, RequeuePurge, shopVars
<1>6. ASSUME NEW r \in Purger, PurgeReads(r) \/ PurgeReports(r) \/ PurgeFails(r) \/ PurgeDies(r)
      PROVE  FALSE
    BY <1>6 DEF PurgeReads, PurgeReports, PurgeFails, PurgeDies, shopVars
<1>7. ASSUME NEW r \in Purger, PurgeTransacts(r) PROVE purge[r] = "transact"
    BY <1>7 DEF PurgeTransacts
<1>8. ASSUME NEW r \in Purger, NEW j \in PurgeRow, ClaimPurge(r, j) PROVE FALSE
    BY <1>8 DEF ClaimPurge, shopVars
<1>9. CASE UNCHANGED lifeVars
    BY <1>9 DEF lifeVars, shopVars
<1> QED
    BY <1>1, <1>2, <1>3, <1>4, <1>5, <1>6, <1>7, <1>8, <1>9 DEF LifeNext, PurgeStep

\* As long as no page view restores a shop in the middle of a purge, data is
\* deleted only while the tombstone stands.
THEOREM OnlyTheGoneArePurged ==
    "overlap" \notin Crossings => (LifeSpec => OnlyTheGonePurged)
<1> SUFFICES ASSUME "overlap" \notin Crossings
    PROVE  LifeSpec => OnlyTheGonePurged
    OBVIOUS
<1>1. StampInv /\ [LifeNext]_lifeVars => StampInv'
    BY StampStep
<1>2. StampInv /\ [LifeNext]_lifeVars => [data /\ ~data' => shopRow = "gone"]_lifeVars
    BY OnlyTransactsDelete DEF StampInv, TransactsOnTheGone
<1> QED
    BY StampInitially, <1>1, <1>2, PTL DEF LifeSpec, OnlyTheGonePurged

-----------------------------------------------------------------------------
(* The purge that is coming                                                *)

LEMMA PurgeInitially == LifeInit => PurgeInv
<1> SUFFICES ASSUME LifeInit PROVE PurgeInv
    OBVIOUS
<1> QED
    BY LifeTypesBegin DEF LifeInit, PurgeInv, LiveWhileRestored, Assured

\* Only an uninstall recorded in between could tombstone a shop that a page
\* view has restored and whose purges it is about to cancel.
LEMMA LiveStep ==
    ASSUME "crossing" \notin Crossings, LiveWhileRestored, [LifeNext]_lifeVars
    PROVE  LiveWhileRestored'
<1>1. CASE Uninstall \/ Reinstall \/ SendRedact \/ OrderMirrored
    BY <1>1 DEF Uninstall, Reinstall, SendRedact, OrderMirrored, LiveWhileRestored, shopVars
<1>2. CASE Tombstone \/ RedactStep
    BY <1>2 DEF Tombstone, RedactStep, RedactReads, RedactTombstones, LiveWhileRestored, shopVars
<1>3. CASE ViewReads \/ PageViewStep \/ ViewFails
    BY <1>3 DEF ViewReads, PageViewStep, ViewCreates, ViewRestores, Restored, ViewCancels,
                ViewFails, LiveWhileRestored, shopVars
<1>4. ASSUME NEW t \in Topic, HookStep(t) \/ HookFails(t) PROVE LiveWhileRestored'
    BY <1>4 DEF HookStep, Deliver, HookCancels, HookCreates, HookFails, LiveWhileRestored,
                shopVars
<1>5. ASSUME NEW j \in PurgeRow, BecomesDue(j) \/ RequeuePurge(j) PROVE LiveWhileRestored'
    BY <1>5 DEF BecomesDue, RequeuePurge, LiveWhileRestored, shopVars
<1>6. ASSUME NEW r \in Purger, PurgeStep(r) \/ PurgeFails(r) \/ PurgeDies(r)
      PROVE  LiveWhileRestored'
    BY <1>6 DEF PurgeStep, PurgeReads, PurgeTransacts, PurgeReports, PurgeFails, PurgeDies,
                LiveWhileRestored, shopVars
<1>7. ASSUME NEW r \in Purger, NEW j \in PurgeRow, ClaimPurge(r, j) PROVE LiveWhileRestored'
    BY <1>7 DEF ClaimPurge, LiveWhileRestored, shopVars
<1>8. CASE UNCHANGED lifeVars
    BY <1>8 DEF lifeVars, shopVars, LiveWhileRestored
<1> QED
    BY <1>1, <1>2, <1>3, <1>4, <1>5, <1>6, <1>7, <1>8 DEF LifeNext

\* What the webhooks and the page views do to the promise: whoever takes a row
\* away has a delivery outstanding, or a live shop before it.
LEMMA AssuredByWebhooks ==
    ASSUME PurgeInv,
           \/ Uninstall \/ Reinstall \/ SendRedact \/ OrderMirrored
           \/ Tombstone \/ RedactStep \/ ViewReads \/ PageViewStep \/ ViewFails
           \/ \E t \in Topic : HookStep(t) \/ HookFails(t)
    PROVE  Assured'
<1>1. LifeTypes
    BY DEF PurgeInv
<1>2. ASSUME \E t \in Topic : outbox'[t] > 0 PROVE Assured'
    BY <1>2 DEF Assured
<1>3. ASSUME UNCHANGED <<shopRow, purgedAt, phase, holders, leases, purge, outbox>>
      PROVE  Assured'
    BY <1>3 DEF PurgeInv, Assured, ToBeTried
<1>4. ASSUME shopRow' # "gone" PROVE Assured'
    BY <1>4 DEF Assured
<1>5. CASE Uninstall \/ SendRedact
    <2>1. PICK t \in Topic : outbox' = [outbox EXCEPT ![t] = @ + 1]
        BY <1>5 DEF Uninstall, SendRedact, Topic
    <2>2. outbox'[t] > 0
        BY <1>1, <2>1 DEF LifeTypes, LifeTypeOK
    <2> QED
        BY <1>2, <2>2
<1>6. CASE Reinstall \/ OrderMirrored \/ RedactReads \/ ViewReads \/ ViewFails
    BY <1>3, <1>6 DEF Reinstall, OrderMirrored, RedactReads, ViewReads, ViewFails, shopVars,
                      queueVars, hookVars
<1>7. CASE Tombstone \/ RedactTombstones
    <2>1. \E t \in Topic : hook[t] # "idle" /\ outbox' = outbox
        BY <1>7 DEF Tombstone, RedactTombstones, Topic
    <2> QED
        BY <1>1, <1>2, <2>1 DEF LifeTypes, Unanswered
<1>8. CASE ViewCreates
    <2>1. CASE shopRow = "none"
        BY <1>4, <1>8, <2>1 DEF ViewCreates
    <2>2. CASE shopRow # "none"
        BY <1>3, <1>8, <2>2 DEF ViewCreates, queueVars, hookVars
    <2> QED
        BY <2>1, <2>2
<1>9. CASE ViewRestores \/ ViewCancels
    BY <1>4, <1>9 DEF ViewRestores, Restored, ViewCancels, PurgeInv, LiveWhileRestored, shopVars
<1>10. ASSUME NEW t \in Topic, Deliver(t) \/ HookFails(t) PROVE Assured'
    BY <1>3, <1>10 DEF Deliver, HookFails, shopVars, queueVars
<1>11. ASSUME NEW t \in Topic, HookCancels(t) PROVE Assured'
    BY <1>1, <1>2, <1>11 DEF HookCancels, LifeTypes, Unanswered
<1>12. ASSUME NEW t \in Topic, HookCreates(t) PROVE Assured'
    <2>1. PICK j \in PurgeRow : PurgeQueue!Post(j)
        BY <1>12 DEF HookCreates, QueuePurge
    <2>2. phase'[j] = "waiting"
        BY <2>1 DEF PurgeQueue!Post, PurgeQueue!Move
    <2> QED
        BY <2>2 DEF Assured, ToBeTried
<1> QED
    BY <1>5, <1>6, <1>7, <1>8, <1>9, <1>10, <1>11, <1>12 DEF RedactStep, PageViewStep, HookStep

\* What the runners do to the promise.  A row is reported over only by a runner
\* whose handler is done, and that row was not the one to come.
LEMMA AssuredByRunners ==
    ASSUME PurgeInv,
           \/ \E j \in PurgeRow : BecomesDue(j) \/ RequeuePurge(j)
           \/ \E r \in Purger : PurgeStep(r) \/ PurgeFails(r) \/ PurgeDies(r)
           \/ \E r \in Purger, j \in PurgeRow : ClaimPurge(r, j)
    PROVE  Assured'
<1>1. LifeTypes
    BY DEF PurgeInv
<1>2. ASSUME UNCHANGED <<shopVars, hookVars>>, \A j \in PurgeRow : ToBeTried(j) => ToBeTried(j)'
      PROVE  Assured'
    BY <1>2 DEF PurgeInv, Assured, shopVars, hookVars
<1>3. ASSUME NEW j \in PurgeRow, BecomesDue(j) PROVE Assured'
    BY <1>2, <1>3 DEF BecomesDue, ToBeTried
<1>4. ASSUME NEW j \in PurgeRow, RequeuePurge(j) PROVE Assured'
    BY <1>2, <1>4 DEF RequeuePurge, PurgeQueue!TakeBack, PurgeQueue!Move, ToBeTried
<1>5. ASSUME NEW r \in Purger, PurgeReads(r) PROVE Assured'
    <2>1. CASE MayPurge
        <3>1. purge' = [purge EXCEPT ![r] = "transact"]
            BY <1>5, <2>1 DEF PurgeReads
        <3>2. \A j \in PurgeRow : ToBeTried(j) => ToBeTried(j)'
            BY <1>1, <1>5, <3>1 DEF PurgeReads, ToBeTried, queueVars, LifeTypes, LifeTypeOK
        <3> QED
            BY <1>2, <1>5, <3>2 DEF PurgeReads
    <2>2. CASE ~MayPurge
        BY <1>5, <2>2 DEF PurgeReads, MayPurge, Assured, shopVars
    <2> QED
        BY <2>1, <2>2
<1>6. ASSUME NEW r \in Purger, PurgeTransacts(r) PROVE Assured'
    BY <1>6 DEF PurgeTransacts, Assured
<1>7. ASSUME NEW r \in Purger, PurgeReports(r) PROVE Assured'
    <2>1. PICK j \in PurgeRow : PurgeQueue!Report(r, j) /\ phase'[j] = "over"
        BY <1>7 DEF PurgeReports
    <2>2. ASSUME NEW i \in PurgeRow, ToBeTried(i) PROVE ToBeTried(i)'
        <3>1. i = j => leases[i] >= MaxAttempts
            BY <1>7, <2>1, <2>2 DEF PurgeReports, PurgeQueue!Report, ToBeTried
        <3>2. i # j => phase'[i] = phase[i] /\ holders'[i] = holders[i]
            BY <1>1, <2>1 DEF PurgeQueue!Report, PurgeQueue!Move, LifeTypes, LifeTypeOK
        <3>3. \A q \in Purger : purge'[q] = "report" => purge[q] = "report"
            BY <1>1, <1>7 DEF PurgeReports, LifeTypes, LifeTypeOK
        <3>4. leases' = leases
            BY <2>1 DEF PurgeQueue!Report
        <3> QED
            BY <2>2, <3>1, <3>2, <3>3, <3>4 DEF ToBeTried
    <2> QED
        BY <1>2, <1>7, <2>2 DEF PurgeReports
<1>8. ASSUME NEW r \in Purger, PurgeFails(r) PROVE Assured'
    <2>1. PICK j \in PurgeRow : PurgeQueue!Report(r, j)
                                /\ phase'[j] = IF UsedUp(j) THEN "over" ELSE "waiting"
        BY <1>8 DEF PurgeFails
    <2>2. ASSUME NEW i \in PurgeRow, ToBeTried(i) PROVE ToBeTried(i)'
        <3>1. i # j => phase'[i] = phase[i] /\ holders'[i] = holders[i]
            BY <1>1, <2>1 DEF PurgeQueue!Report, PurgeQueue!Move, LifeTypes, LifeTypeOK
        <3>2. \A q \in Purger : purge'[q] = "report" => purge[q] = "report"
            BY <1>1, <1>8 DEF PurgeFails, LifeTypes, LifeTypeOK
        <3>3. leases' = leases
            BY <2>1 DEF PurgeQueue!Report
        <3> QED
            BY <2>1, <2>2, <3>1, <3>2, <3>3 DEF ToBeTried, UsedUp
    <2> QED
        BY <1>2, <1>8, <2>2 DEF PurgeFails
<1>9. ASSUME NEW r \in Purger, PurgeDies(r) PROVE Assured'
    <2>1. PICK j \in PurgeRow : PurgeQueue!Die(r, j)
        BY <1>9 DEF PurgeDies
    <2>2. UNCHANGED <<phase, leases>>
        BY <2>1 DEF PurgeQueue!Die
    <2>3. \A q \in Purger : purge'[q] = "report" => purge[q] = "report"
        BY <1>1, <1>9 DEF PurgeDies, LifeTypes, LifeTypeOK
    <2>4. \A i \in PurgeRow : holders'[i] \in {{}, holders[i]}
        BY <1>1, <2>1 DEF PurgeQueue!Die, LifeTypes, LifeTypeOK
    <2>5. \A i \in PurgeRow : ToBeTried(i) => ToBeTried(i)'
        BY <2>2, <2>3, <2>4 DEF ToBeTried
    <2> QED
        BY <1>2, <1>9, <2>5 DEF PurgeDies
<1>10. ASSUME NEW r \in Purger, NEW j \in PurgeRow, ClaimPurge(r, j) PROVE Assured'
    <2>1. PurgeQueue!Take(r, j) /\ purge' = [purge EXCEPT ![r] = "read"]
        BY <1>10 DEF ClaimPurge
    <2>2. \A q \in Purger : purge'[q] = "report" => purge[q] = "report"
        BY <1>1, <2>1 DEF LifeTypes, LifeTypeOK
    <2>3. purge'[r] = "read" /\ holders'[j] = {r} /\ phase'[j] = "leased"
        BY <1>1, <2>1 DEF PurgeQueue!Take, PurgeQueue!Move, LifeTypes, LifeTypeOK
    <2>4. \A i \in PurgeRow \ {j} : /\ phase'[i] = phase[i] /\ holders'[i] = holders[i]
                                    /\ leases'[i] = leases[i]
        BY <1>1, <2>1 DEF PurgeQueue!Take, PurgeQueue!Move, LifeTypes, LifeTypeOK
    <2>5. \A i \in PurgeRow : ToBeTried(i) => ToBeTried(i)'
        BY <2>2, <2>3, <2>4 DEF ToBeTried
    <2> QED
        BY <1>2, <1>10, <2>5 DEF ClaimPurge
<1> QED
    BY <1>3, <1>4, <1>5, <1>6, <1>7, <1>8, <1>9, <1>10 DEF PurgeStep

LEMMA PurgeStepKept ==
    ASSUME "crossing" \notin Crossings, PurgeInv, [LifeNext]_lifeVars
    PROVE  PurgeInv'
<1>1. LifeTypes' /\ LiveWhileRestored'
    BY TypeStep, LiveStep DEF PurgeInv
<1>2. Assured'
    <2>1. CASE LifeNext
        BY <2>1, AssuredByWebhooks, AssuredByRunners DEF LifeNext
    <2>2. CASE UNCHANGED lifeVars
        BY <2>2 DEF PurgeInv, Assured, ToBeTried, lifeVars, shopVars, queueVars, hookVars
    <2> QED
        BY <2>1, <2>2
<1> QED
    BY <1>1, <1>2 DEF PurgeInv

\* As long as no uninstall is recorded in the middle of a page view, a purge is
\* coming for every shop that is gone: whenever no webhook is outstanding, a row
\* will be tried or was tried as often as it may be.
THEOREM PurgeComes ==
    "crossing" \notin Crossings => (LifeSpec => []PurgeIsComing)
<1> SUFFICES ASSUME "crossing" \notin Crossings
    PROVE  LifeSpec => []PurgeIsComing
    OBVIOUS
<1>1. PurgeInv /\ [LifeNext]_lifeVars => PurgeInv'
    BY PurgeStepKept
<1>2. PurgeInv => PurgeIsComing
    BY DEF PurgeInv, Assured, ToBeTried, PurgeIsComing
<1> QED
    BY PurgeInitially, <1>1, <1>2, PTL DEF LifeSpec

(***************************************************************************)
(* The webhooks, before they reach a handler (WebhookDispatch)             *)
(*                                                                         *)
(* That nothing is lost follows from where each request is (Placed): one   *)
(* that is about to mark has run its handler, and one that is about to     *)
(* answer 200 to a subscribed webhook has seen it marked.  That nothing    *)
(* handled is run again needs more: that a webhook is never in two         *)
(* requests at once (Alone).  The code does not see to that, and the       *)
(* theorem has it as its assumption.                                       *)
(***************************************************************************)
Placed ==
    \A q \in Request :
        /\ pc[q] = "mark" => ran[cur[q]] > 0
        /\ pc[q] = "answer" /\ cur[q] \in Subscribed => row[cur[q]] = "handled"

LossInv == TypeOK /\ Placed /\ NoneLost

Alone ==
    /\ \A p, q \in Request : cur[p] = cur[q] /\ cur[p] # None => p = q
    /\ \A q \in Request : pc[q] \in {"resume", "run", "mark"} => row[cur[q]] # "handled"

ReplayInv == TypeOK /\ Alone

-----------------------------------------------------------------------------

LEMMA DispatchTypeStep == TypeOK /\ [Next]_vars => TypeOK'
<1> USE DispatchAssumption
<1> SUFFICES ASSUME TypeOK, [Next]_vars PROVE TypeOK'
    OBVIOUS
<1> USE DEF TypeOK, Goto, Leave, Fault
<1>1. ASSUME NEW q \in Request, NEW w \in Webhook, Receive(q, w) PROVE TypeOK'
    BY <1>1 DEF Receive
<1>2. ASSUME NEW q \in Request, Create(q) PROVE TypeOK'
    BY <1>2 DEF Create
<1>3. ASSUME NEW q \in Request, CreateRefused(q) PROVE TypeOK'
    BY <1>3 DEF CreateRefused
<1>4. ASSUME NEW q \in Request, Find(q) PROVE TypeOK'
    BY <1>4 DEF Find
<1>5. ASSUME NEW q \in Request, Resume(q) PROVE TypeOK'
    BY <1>5 DEF Resume
<1>6. ASSUME NEW q \in Request, HandlerEnds(q) PROVE TypeOK'
    BY <1>6 DEF HandlerEnds
<1>7. ASSUME NEW q \in Request, HandlerFails(q) PROVE TypeOK'
    BY <1>7 DEF HandlerFails
<1>8. ASSUME NEW q \in Request, Mark(q) PROVE TypeOK'
    BY <1>8 DEF Mark
<1>9. ASSUME NEW q \in Request, Respond(q) PROVE TypeOK'
    BY <1>9 DEF Respond, Answer
<1>10. ASSUME NEW q \in Request, Crash(q) PROVE TypeOK'
    BY <1>10 DEF Crash
<1>11. CASE UNCHANGED vars
    BY <1>11 DEF vars
<1> QED
    BY <1>1, <1>2, <1>3, <1>4, <1>5, <1>6, <1>7, <1>8, <1>9, <1>10, <1>11
    DEF Next, RequestStep

\* Every state has well-typed variables, and a request carries a webhook
\* exactly while it is at work.
THEOREM TypeCorrect == Spec => []TypeOK
<1>1. Init => TypeOK
    BY DispatchAssumption DEF Init, TypeOK
<1> QED
    BY <1>1, DispatchTypeStep, PTL DEF Spec

-----------------------------------------------------------------------------

LEMMA LossStep == LossInv /\ [Next]_vars => LossInv'
<1> USE DispatchAssumption
<1> SUFFICES ASSUME LossInv, [Next]_vars PROVE Placed' /\ NoneLost'
    BY DispatchTypeStep DEF LossInv
<1>0. TypeOK /\ Placed /\ NoneLost
    BY DEF LossInv
<1> USE <1>0 DEF TypeOK, Placed, NoneLost, Goto, Leave
<1>1. ASSUME NEW q \in Request, NEW w \in Webhook, Receive(q, w) PROVE Placed' /\ NoneLost'
    BY <1>1 DEF Receive
<1>2. ASSUME NEW q \in Request, Create(q) PROVE Placed' /\ NoneLost'
    BY <1>2 DEF Create
<1>3. ASSUME NEW q \in Request, CreateRefused(q) PROVE Placed' /\ NoneLost'
    BY <1>3 DEF CreateRefused
<1>4. ASSUME NEW q \in Request, Find(q) PROVE Placed' /\ NoneLost'
    BY <1>4 DEF Find, IsHandled
<1>5. ASSUME NEW q \in Request, Resume(q) PROVE Placed' /\ NoneLost'
    BY <1>5 DEF Resume
<1>6. ASSUME NEW q \in Request, HandlerEnds(q) PROVE Placed' /\ NoneLost'
    BY <1>6 DEF HandlerEnds
<1>7. ASSUME NEW q \in Request, HandlerFails(q) PROVE Placed' /\ NoneLost'
    BY <1>7 DEF HandlerFails
<1>8. ASSUME NEW q \in Request, Mark(q) PROVE Placed' /\ NoneLost'
    BY <1>8 DEF Mark
<1>9. ASSUME NEW q \in Request, Respond(q) PROVE Placed' /\ NoneLost'
    <2>1. Placed'
        BY <1>9 DEF Respond, Answer
    <2>2. NoneLost'
        BY <1>9 DEF Respond, Answer
    <2> QED
        BY <2>1, <2>2
<1>10. ASSUME NEW q \in Request, Crash(q) PROVE Placed' /\ NoneLost'
    BY <1>10 DEF Crash
<1>11. CASE UNCHANGED vars
    BY <1>11 DEF vars
<1> QED
    BY <1>1, <1>2, <1>3, <1>4, <1>5, <1>6, <1>7, <1>8, <1>9, <1>10, <1>11
    DEF Next, RequestStep

\* Whatever fails, is killed, comes twice or overlaps: Shopify stops sending a
\* subscribed webhook only after its handler ran to the end, and a row marked
\* handled was.
THEOREM NothingIsLost == Spec => []NoneLost
<1>1. Init => LossInv
    BY DispatchAssumption DEF Init, LossInv, TypeOK, Placed, NoneLost
<1>2. LossInv => NoneLost
    BY DEF LossInv
<1> QED
    BY <1>1, <1>2, LossStep, PTL DEF Spec

-----------------------------------------------------------------------------

LEMMA AloneStep ==
    ASSUME ~Concurrent
    PROVE  ReplayInv /\ [Next]_vars => ReplayInv'
<1> USE DispatchAssumption
<1> SUFFICES ASSUME ReplayInv, [Next]_vars PROVE Alone'
    BY DispatchTypeStep DEF ReplayInv
<1>0. TypeOK /\ Alone
    BY DEF ReplayInv
<1> USE <1>0 DEF TypeOK, Alone, Goto, Leave
<1>1. ASSUME NEW q \in Request, NEW w \in Webhook, Receive(q, w) PROVE Alone'
    BY <1>1 DEF Receive
<1>2. ASSUME NEW q \in Request, Create(q) PROVE Alone'
    BY <1>2 DEF Create
<1>3. ASSUME NEW q \in Request, CreateRefused(q) PROVE Alone'
    BY <1>3 DEF CreateRefused
<1>4. ASSUME NEW q \in Request, Find(q) PROVE Alone'
    BY <1>4 DEF Find, IsHandled
<1>5. ASSUME NEW q \in Request, Resume(q) PROVE Alone'
    BY <1>5 DEF Resume
<1>6. ASSUME NEW q \in Request, HandlerEnds(q) PROVE Alone'
    BY <1>6 DEF HandlerEnds
<1>7. ASSUME NEW q \in Request, HandlerFails(q) PROVE Alone'
    BY <1>7 DEF HandlerFails
<1>8. ASSUME NEW q \in Request, Mark(q) PROVE Alone'
    BY <1>8 DEF Mark
<1>9. ASSUME NEW q \in Request, Respond(q) PROVE Alone'
    BY <1>9 DEF Respond, Answer
<1>10. ASSUME NEW q \in Request, Crash(q) PROVE Alone'
    BY <1>10 DEF Crash
<1>11. CASE UNCHANGED vars
    BY <1>11 DEF vars
<1> QED
    BY <1>1, <1>2, <1>3, <1>4, <1>5, <1>6, <1>7, <1>8, <1>9, <1>10, <1>11
    DEF Next, RequestStep

\* Where a webhook is sent again only after its request has ended, a handled
\* one is never run again, whatever failed or was killed: the overlap is the
\* one way the code's "exactly once" breaks that a lost mark is not.
THEOREM ReplaysAreNoOps ==
    ASSUME ~Concurrent
    PROVE  Spec => HandledIsNotRunAgain
<1>1. Init => ReplayInv
    BY DispatchAssumption DEF Init, ReplayInv, TypeOK, Alone
<1>2. ReplayInv /\ [Next]_vars =>
        [\A q \in Request : pc[q] # "run" /\ pc'[q] = "run" => row[cur[q]] # "handled"]_vars
    <2> SUFFICES ASSUME ReplayInv, [Next]_vars, NEW q \in Request,
                        pc[q] # "run", pc'[q] = "run"
                 PROVE  row[cur[q]] # "handled"
        OBVIOUS
    <2> USE DEF Goto, Leave, TypeOK
    <2>0. TypeOK /\ Alone
        BY DEF ReplayInv
    <2>1. pc[q] \in {"create", "resume"}
        BY <2>0 DEF Next, RequestStep, Receive, Create, CreateRefused, Find, Resume,
                    HandlerEnds, HandlerFails, Mark, Respond, Answer, Crash, vars
    <2>2. CASE pc[q] = "create"
        BY <2>0, <2>2 DEF Next, RequestStep, Receive, Create, CreateRefused, Find, Resume,
                    HandlerEnds, HandlerFails, Mark, Respond, Answer, Crash, vars
    <2>3. CASE pc[q] = "resume"
        BY <2>0, <2>3 DEF Alone
    <2> QED
        BY <2>1, <2>2, <2>3
<1> QED
    BY <1>1, <1>2, AloneStep, PTL DEF Spec, HandledIsNotRunAgain

-----------------------------------------------------------------------------
(***************************************************************************)
(* Checkout and the plan, and the plan and what the merchant pays for.     *)
(*                                                                         *)
(* Once the plan's writer is done and no sweep is left, checkout agrees    *)
(* with the plan: for any number of buyers, any page size, any number of   *)
(* runners, rows and changes of plan, and whatever runs fail or die, as    *)
(* long as the plan changes one at a time (schedule = {}).                 *)
(*                                                                         *)
(* The sweep is a chain of rows over one cursor, and a run that dies after *)
(* it queued the next page leaves two of them, which move the cursor under *)
(* each other.  Three facts carry the argument.  The cursor, and every run *)
(* under way, has everything up to it published (Swept).  What is not      *)
(* published, or a cursor that is not null, has a row that is Pending:     *)
(* to be run, or held by a run that has yet to advance or to queue the     *)
(* next (Ahead).  And a change of plan finds all of it at rest (Quiet), the*)
(* cursor, which no writer resets, at null.                                *)
(***************************************************************************)
\* A run publishes inside its page, a plan it has read, and holds its row.
Within(r) ==
    /\ sweep[r] \in {"ask", "write"} => at[r] <= Last(r)
    /\ sweep[r] = "write" => planRead[r] \in Plan

Holds(r, j) == sweepPhase[j] = "leased" /\ sweepHolders[j] = {r}

\* No page begins after the last buyer.
CursorWithin == reconcileCursor # 0 => reconcileCursor < Buyers

ReconcileTypes ==
    /\ ReconcileTypeOK /\ CursorWithin
    /\ \A r \in Sweeper : Within(r) /\ (sweep[r] # "idle" => \E j \in SweepRow : Holds(r, j))

UpTo(n) == \A s \in Surface : s <= n => shown[s] = plan

Fresh == \A r \in Sweeper : sweep[r] = "write" => planRead[r] = plan

Swept ==
    /\ reconcileCursor # 0 => UpTo(reconcileCursor)
    /\ \A r \in Sweeper :
        /\ sweep[r] \in {"ask", "write"} => UpTo(at[r] - 1)
        /\ sweep[r] = "advance" => UpTo(Last(r))

Pending(j) ==
    \/ sweepPhase[j] = "waiting"
    \/ sweepPhase[j] = "leased" /\ \A r \in Sweeper : sweepHolders[j] = {r} => sweep[r] # "report"

Ahead ==
    reconcileCursor # 0 \/ (\E s \in Surface : shown[s] # plan) => \E j \in SweepRow : Pending(j)

Quiet == NoSweep /\ reconcileCursor = 0 /\ \A r \in Sweeper : sweep[r] = "idle"

\* Between changes, sweeping; during one, quiet, and true until the writer acts.
Settling ==
    /\ message = NoPlan => writer = "idle" /\ Fresh /\ Swept /\ Ahead
    /\ message # NoPlan => Quiet /\ (writer = "idle" => UpTo(Buyers))

SettleInv == ReconcileTypes /\ (schedule = {} => Settling)

-----------------------------------------------------------------------------
(* Types                                                                   *)

LEMMA MoveTyped ==
    ASSUME ReconcileTypeOK, NEW S, NEW p \in {"none", "waiting", "leased", "over"},
           SweepQueue!Move(S, p)
    PROVE  /\ sweepPhase' \in [SweepRow -> {"none", "waiting", "leased", "over"}]
           /\ \A j \in SweepRow : sweepPhase'[j] = IF j \in S THEN p ELSE sweepPhase[j]
BY DEF ReconcileTypeOK, SweepQueue!Move

\* Posting, withdrawing and taking back leave the rows that are held alone.
LEMMA RowsMoved ==
    ASSUME ReconcileTypeOK,
           \/ QueueSweep
           \/ SweepQueue!Withdraw({j \in SweepRow : sweepPhase[j] = "waiting"})
           \/ \E j \in SweepRow : SweepQueue!TakeBack({j})
    PROVE  /\ sweepPhase' \in [SweepRow -> {"none", "waiting", "leased", "over"}]
           /\ UNCHANGED <<sweepHolders, sweepLeases>>
           /\ \A r \in Sweeper, j \in SweepRow : Holds(r, j) => Holds(r, j)'
<1>1. CASE QueueSweep
    <2>1. PICK j \in SweepRow : SweepQueue!Post(j)
        BY <1>1 DEF QueueSweep
    <2> QED
        BY <2>1, MoveTyped DEF SweepQueue!Post, Holds
<1>2. CASE SweepQueue!Withdraw({j \in SweepRow : sweepPhase[j] = "waiting"})
    BY <1>2, MoveTyped DEF SweepQueue!Withdraw, Holds
<1>3. ASSUME NEW j \in SweepRow, SweepQueue!TakeBack({j})
      PROVE  /\ sweepPhase' \in [SweepRow -> {"none", "waiting", "leased", "over"}]
             /\ UNCHANGED <<sweepHolders, sweepLeases>>
             /\ \A r \in Sweeper, i \in SweepRow : Holds(r, i) => Holds(r, i)'
    BY <1>3, MoveTyped DEF SweepQueue!TakeBack, Holds
<1> QED
    BY <1>1, <1>2, <1>3

\* A runner's page begins within it.
LEMMA PageBegins ==
    ASSUME NEW r \in Sweeper, from[r] \in 0 .. Buyers, First(from[r]) <= Buyers
    PROVE  First(from[r]) \in Surface /\ First(from[r]) <= Last(r)
BY ReconcileAssumption DEF First, Last, More, Surface

LEMMA PageEnds ==
    ASSUME NEW r \in Sweeper, from[r] \in 0 .. Buyers
    PROVE  /\ Last(r) \in 0 .. Buyers /\ NextCursor(r) \in 0 .. Buyers
           /\ NextCursor(r) # 0 => NextCursor(r) < Buyers
BY ReconcileAssumption DEF Last, More, NextCursor

\* Everybody but the runner stands where they stood.
LEMMA OthersStand ==
    ASSUME NEW r \in Sweeper, ReconcileTypes,
           \A q \in Sweeper \ {r} :
              sweep'[q] = sweep[q] /\ from'[q] = from[q] /\ at'[q] = at[q] /\ planRead'[q] = planRead[q],
           \A q \in Sweeper \ {r}, j \in SweepRow : Holds(q, j) => Holds(q, j)'
    PROVE  \A q \in Sweeper \ {r} :
              Within(q)' /\ (sweep'[q] # "idle" => \E j \in SweepRow : Holds(q, j)')
BY DEF ReconcileTypes, Within, Last, More

LEMMA WritersTyped ==
    ASSUME ReconcileTypes,
           \/ \E p \in Plan : MerchantChanges(p)
           \/ GraceRunsOut \/ WriterStep \/ WriterFails
           \/ \E j \in SweepRow : RequeueSweep(j)
    PROVE  ReconcileTypes'
<1> USE ReconcileAssumption
<1>1. ASSUME ReconcileTypeOK', UNCHANGED <<sweepVars, reconcileCursor>>,
             \A r \in Sweeper, j \in SweepRow : Holds(r, j) => Holds(r, j)'
      PROVE  ReconcileTypes'
    BY <1>1 DEF ReconcileTypes, CursorWithin, Within, Last, More, sweepVars
<1>2. ASSUME UNCHANGED rowVars, ReconcileTypeOK', UNCHANGED <<sweepVars, reconcileCursor>>
      PROVE  ReconcileTypes'
    BY <1>1, <1>2 DEF rowVars, Holds
<1>3. ASSUME NEW p \in Plan, MerchantChanges(p) PROVE ReconcileTypes'
    <2>1. ReconcileTypeOK'
        BY <1>3 DEF ReconcileTypes, ReconcileTypeOK, MerchantChanges, rowVars, sweepVars
    <2> QED
        BY <1>2, <1>3, <2>1 DEF MerchantChanges
<1>4. CASE GraceRunsOut
    <2>1. ReconcileTypeOK'
        BY <1>4 DEF ReconcileTypes, ReconcileTypeOK, GraceRunsOut, rowVars, sweepVars
    <2> QED
        BY <1>2, <1>4, <2>1 DEF GraceRunsOut
<1>5. CASE WriterUpdates
    <2>1. plan' \in Plan
        BY <1>5 DEF ReconcileTypes, ReconcileTypeOK, WriterUpdates
    <2>2. ReconcileTypeOK'
        BY <1>5, <2>1 DEF ReconcileTypes, ReconcileTypeOK, WriterUpdates, rowVars, sweepVars
    <2> QED
        BY <1>2, <1>5, <2>2 DEF WriterUpdates
<1>6. CASE WriterFails
    <2>1. ReconcileTypeOK'
        BY <1>6 DEF ReconcileTypes, ReconcileTypeOK, WriterFails, Miss, rowVars, sweepVars
    <2> QED
        BY <1>2, <1>6, <2>1 DEF WriterFails
<1>7. ASSUME \/ WriterCancels \/ WriterCreates
             \/ \E j \in SweepRow : RequeueSweep(j)
      PROVE  ReconcileTypes'
    <2>1. /\ sweepPhase' \in [SweepRow -> {"none", "waiting", "leased", "over"}]
          /\ UNCHANGED <<sweepHolders, sweepLeases>>
          /\ \A r \in Sweeper, j \in SweepRow : Holds(r, j) => Holds(r, j)'
        BY <1>7, RowsMoved DEF ReconcileTypes, WriterCancels, WriterCreates, RequeueSweep, Stuck
    <2>2. ReconcileTypeOK'
        BY <1>7, <2>1 DEF ReconcileTypes, ReconcileTypeOK, WriterCancels, WriterCreates,
                          RequeueSweep, writerVars, sweepVars
    <2> QED
        BY <1>1, <1>7, <2>1, <2>2 DEF WriterCancels, WriterCreates, RequeueSweep
<1> QED
    BY <1>3, <1>4, <1>5, <1>6, <1>7 DEF WriterStep

LEMMA RunsTyped ==
    ASSUME ReconcileTypes, NEW r \in Sweeper,
           SweepReads(r) \/ SweepAsks(r) \/ SweepWrites(r) \/ SweepAdvances(r) \/ SweepEnqueues(r)
    PROVE  ReconcileTypes'
<1> USE ReconcileAssumption
<1>1. ReconcileTypeOK
    BY DEF ReconcileTypes
<1>2. SUFFICES /\ ReconcileTypeOK' /\ CursorWithin'
               /\ \A q \in Sweeper, j \in SweepRow : Holds(q, j) => Holds(q, j)'
               /\ Within(r)'
    <2>1. \A q \in Sweeper \ {r} :
              sweep'[q] = sweep[q] /\ from'[q] = from[q] /\ at'[q] = at[q] /\ planRead'[q] = planRead[q]
        BY <1>1 DEF ReconcileTypeOK, SweepReads, SweepAsks, SweepWrites, SweepAdvances,
                    SweepEnqueues, SweepGoes
    <2>2. sweep[r] # "idle"
        BY DEF SweepReads, SweepAsks, SweepWrites, SweepAdvances, SweepEnqueues
    <2> QED
        BY <2>1, <2>2, OthersStand DEF ReconcileTypes
<1>3. CASE SweepReads(r)
    <2>1. from'[r] = reconcileCursor /\ at'[r] = First(from'[r])
              /\ sweep'[r] = IF First(from'[r]) <= Buyers THEN "ask" ELSE "advance"
        BY <1>1, <1>3 DEF ReconcileTypeOK, SweepReads, SweepGoes
    <2>2. from'[r] \in 0 .. Buyers
        BY <1>1, <2>1 DEF ReconcileTypeOK
    <2>3. First(from'[r]) \in Surface /\ First(from'[r]) <= Last(r)'
        BY <1>1, <2>1 DEF ReconcileTypes, ReconcileTypeOK, CursorWithin, First, Last, More, Surface
    <2>4. UNCHANGED <<writerVars, reconcileCursor, shown, rowVars, planRead, changes, misses>>
        BY <1>3 DEF SweepReads
    <2>5. ReconcileTypeOK'
        BY <1>1, <1>3, <2>1, <2>2, <2>3, <2>4 DEF ReconcileTypeOK, SweepReads, SweepGoes,
                                                 writerVars, rowVars
    <2>6. Within(r)'
        BY <2>1, <2>3 DEF Within
    <2> QED
        BY <2>4, <2>5, <2>6 DEF ReconcileTypes, CursorWithin, rowVars, Holds
<1>4. CASE SweepAsks(r)
    <2>1. ReconcileTypeOK'
        BY <1>1, <1>4 DEF ReconcileTypeOK, SweepAsks, SweepGoes, writerVars, rowVars
    <2>2. Within(r)'
        BY <1>1, <1>4 DEF ReconcileTypes, ReconcileTypeOK, SweepAsks, SweepGoes, Within, Last, More
    <2> QED
        BY <1>4, <2>1, <2>2 DEF SweepAsks, ReconcileTypes, CursorWithin, rowVars, Holds
<1>5. CASE SweepWrites(r)
    <2>1. at[r] \in 0 .. Buyers /\ at[r] <= Last(r) /\ Last(r) \in 0 .. Buyers /\ planRead[r] \in Plan
        BY <1>1, <1>5, PageEnds DEF ReconcileTypes, ReconcileTypeOK, Within, SweepWrites, Surface
    <2>2. shown' \in [Surface -> Plan]
        BY <1>1, <1>5, <2>1 DEF ReconcileTypeOK, SweepWrites
    <2>3. /\ at' \in [Sweeper -> Surface]
          /\ sweep' \in [Sweeper -> {"idle", "read", "ask", "write", "advance", "enqueue", "report"}]
          /\ sweep'[r] # "write" /\ (sweep'[r] = "ask" => at'[r] <= Last(r))
        <3>1. CASE at[r] = Last(r)
            BY <1>1, <1>5, <3>1 DEF ReconcileTypeOK, SweepWrites, SweepGoes
        <3>2. CASE at[r] # Last(r)
            <4>1. at' = [at EXCEPT ![r] = at[r] + 1] /\ sweep' = [sweep EXCEPT ![r] = "ask"]
                BY <1>5, <3>2 DEF SweepWrites, SweepGoes
            <4>2. at[r] + 1 \in Surface /\ at[r] + 1 <= Last(r)
                BY <2>1, <3>2 DEF Surface
            <4> QED
                BY <1>1, <4>1, <4>2 DEF ReconcileTypeOK
        <3> QED
            BY <3>1, <3>2
    <2>4. planRead' \in [Sweeper -> Plan \cup {NoPlan}]
        BY <1>1, <1>5 DEF ReconcileTypeOK, SweepWrites
    <2>5. UNCHANGED <<writerVars, reconcileCursor, rowVars, from, changes, misses>>
        BY <1>5 DEF SweepWrites
    <2>6. ReconcileTypeOK'
        BY <1>1, <2>2, <2>3, <2>4, <2>5 DEF ReconcileTypeOK, writerVars, rowVars
    <2>7. Within(r)'
        BY <2>3, <2>5 DEF Within, Last, More
    <2> QED
        BY <2>5, <2>6, <2>7 DEF ReconcileTypes, CursorWithin, rowVars, Holds
<1>6. CASE SweepAdvances(r)
    <2>1. reconcileCursor' \in 0 .. Buyers /\ CursorWithin'
        BY <1>1, <1>6, PageEnds DEF ReconcileTypeOK, CursorWithin, SweepAdvances
    <2>2. ReconcileTypeOK'
        BY <1>1, <1>6, <2>1 DEF ReconcileTypeOK, SweepAdvances, SweepGoes, writerVars, rowVars
    <2>3. Within(r)'
        BY <1>1, <1>6 DEF ReconcileTypeOK, SweepAdvances, SweepGoes, Within
    <2> QED
        BY <1>6, <2>1, <2>2, <2>3 DEF SweepAdvances, rowVars, Holds
<1>7. CASE SweepEnqueues(r)
    <2>1. /\ sweepPhase' \in [SweepRow -> {"none", "waiting", "leased", "over"}]
          /\ UNCHANGED <<sweepHolders, sweepLeases>>
          /\ \A q \in Sweeper, j \in SweepRow : Holds(q, j) => Holds(q, j)'
        BY <1>1, <1>7, RowsMoved DEF SweepEnqueues
    <2>2. ReconcileTypeOK'
        BY <1>1, <1>7, <2>1 DEF ReconcileTypeOK, SweepEnqueues, SweepGoes, writerVars
    <2>3. Within(r)'
        BY <1>1, <1>7 DEF ReconcileTypeOK, SweepEnqueues, SweepGoes, Within
    <2> QED
        BY <1>7, <2>1, <2>2, <2>3 DEF SweepEnqueues, ReconcileTypes, CursorWithin
<1> QED
    BY <1>3, <1>4, <1>5, <1>6, <1>7

\* A run begins, and ends: its row is taken, and let go.
LEMMA LeasesTyped ==
    ASSUME ReconcileTypes, NEW r \in Sweeper,
           \/ SweepReports(r) \/ SweepFails(r) \/ SweepDies(r)
           \/ \E j \in SweepRow : ClaimSweep(r, j)
    PROVE  ReconcileTypes'
<1> USE ReconcileAssumption
<1>1. ReconcileTypeOK
    BY DEF ReconcileTypes
<1>2. ASSUME NEW j \in SweepRow, SweepQueue!Report(r, j) \/ SweepQueue!Die(r, j), Forget(r),
             misses' \in 0 .. MaxMisses, UNCHANGED <<writerVars, reconcileCursor, shown, changes>>
      PROVE  ReconcileTypes'
    <2>1. /\ sweepPhase' \in [SweepRow -> {"none", "waiting", "leased", "over"}]
          /\ sweepHolders' \in [SweepRow -> SUBSET Sweeper]
          /\ sweepLeases' = sweepLeases
          /\ \A i \in SweepRow \ {j} : sweepPhase'[i] = sweepPhase[i] /\ sweepHolders'[i] = sweepHolders[i]
          /\ sweepHolders[j] = {r}
        BY <1>1, <1>2, MoveTyped DEF ReconcileTypeOK, SweepQueue!Report, SweepQueue!Die
    <2>2. /\ sweep' = [sweep EXCEPT ![r] = "idle"]
          /\ from' = [from EXCEPT ![r] = 0]
          /\ at' = [at EXCEPT ![r] = 0]
          /\ planRead' = [planRead EXCEPT ![r] = NoPlan]
        BY <1>2 DEF Forget, SweepGoes
    <2>3. ReconcileTypeOK'
        BY <1>1, <1>2, <2>1, <2>2 DEF ReconcileTypeOK, Surface, writerVars
    <2>4. \A q \in Sweeper \ {r}, i \in SweepRow : Holds(q, i) => Holds(q, i)'
        BY <2>1 DEF Holds
    <2>5. sweep'[r] = "idle" /\ Within(r)'
        BY <1>1, <2>2 DEF ReconcileTypeOK, Within
    <2>6. \A q \in Sweeper \ {r} :
              sweep'[q] = sweep[q] /\ from'[q] = from[q] /\ at'[q] = at[q] /\ planRead'[q] = planRead[q]
        BY <1>1, <2>2 DEF ReconcileTypeOK
    <2> QED
        BY <1>2, <2>3, <2>4, <2>5, <2>6, OthersStand DEF ReconcileTypes, CursorWithin
<1>3. CASE SweepReports(r)
    BY <1>1, <1>2, <1>3 DEF SweepReports, ReconcileTypeOK
<1>4. CASE SweepFails(r) \/ SweepDies(r)
    BY <1>1, <1>2, <1>4 DEF SweepFails, SweepDies, Miss, ReconcileTypeOK
<1>5. ASSUME NEW j \in SweepRow, ClaimSweep(r, j) PROVE ReconcileTypes'
    <2>1. /\ sweepPhase' \in [SweepRow -> {"none", "waiting", "leased", "over"}]
          /\ sweepHolders' \in [SweepRow -> SUBSET Sweeper]
          /\ sweepLeases' \in [SweepRow -> Nat]
          /\ \A i \in SweepRow \ {j} : sweepPhase'[i] = sweepPhase[i] /\ sweepHolders'[i] = sweepHolders[i]
          /\ sweepHolders[j] = {} /\ Holds(r, j)'
        BY <1>1, <1>5, MoveTyped DEF ReconcileTypeOK, ClaimSweep, SweepQueue!Take, Holds
    <2>2. sweep' = [sweep EXCEPT ![r] = "read"]
        BY <1>5 DEF ClaimSweep, SweepGoes
    <2>3. UNCHANGED <<writerVars, reconcileCursor, shown, from, at, planRead, changes, misses>>
        BY <1>5 DEF ClaimSweep
    <2>4. ReconcileTypeOK'
        BY <1>1, <2>1, <2>2, <2>3 DEF ReconcileTypeOK, writerVars
    <2>5. \A q \in Sweeper \ {r}, i \in SweepRow : Holds(q, i) => Holds(q, i)'
        BY <2>1 DEF Holds
    <2>6. Within(r)'
        BY <1>1, <2>2 DEF ReconcileTypeOK, Within
    <2>7. \A q \in Sweeper \ {r} :
              sweep'[q] = sweep[q] /\ from'[q] = from[q] /\ at'[q] = at[q] /\ planRead'[q] = planRead[q]
        BY <1>1, <2>2, <2>3 DEF ReconcileTypeOK
    <2>8. \A q \in Sweeper \ {r} :
              Within(q)' /\ (sweep'[q] # "idle" => \E i \in SweepRow : Holds(q, i)')
        BY <2>5, <2>7, OthersStand
    <2>9. \E i \in SweepRow : Holds(r, i)'
        BY <2>1
    <2>10. CursorWithin'
        BY <2>3 DEF ReconcileTypes, CursorWithin
    <2> QED
        BY <2>4, <2>6, <2>8, <2>9, <2>10 DEF ReconcileTypes
<1> QED
    BY <1>3, <1>4, <1>5

LEMMA TypesInitially == ReconcileInit => ReconcileTypes
BY ReconcileAssumption DEF ReconcileInit, ReconcileTypes, ReconcileTypeOK, CursorWithin, Within,
                           Surface, SweepQueue!LeaseInit

LEMMA TypesStep == ReconcileTypes /\ [ReconcileNext]_reconcileVars => ReconcileTypes'
<1> SUFFICES ASSUME ReconcileTypes, [ReconcileNext]_reconcileVars PROVE ReconcileTypes'
    OBVIOUS
<1>1. CASE UNCHANGED reconcileVars
    BY <1>1 DEF ReconcileTypes, ReconcileTypeOK, CursorWithin, Within, Holds, Last, More,
                reconcileVars, writerVars, rowVars, sweepVars
<1> QED
    BY <1>1, WritersTyped, RunsTyped, LeasesTyped DEF ReconcileNext, SweepStep

\* The types hold whatever the merchant, the grace period, the plan's writer and
\* the runners do; a run publishes inside its page, and holds its row.
THEOREM ReconcileTypesHold == ReconcileSpec => []ReconcileTypeOK
<1>1. ReconcileSpec => []ReconcileTypes
    BY TypesInitially, TypesStep, PTL DEF ReconcileSpec
<1>2. ReconcileTypes => ReconcileTypeOK
    BY DEF ReconcileTypes
<1> QED
    BY <1>1, <1>2, PTL

-----------------------------------------------------------------------------
(* Between two changes of plan                                             *)

\* Nothing is left to do and nobody is at it: everything shows the plan, and the
\* cursor is back at null.
LEMMA AtRest ==
    ASSUME ReconcileTypes, Settling, message = NoPlan, NoSweep
    PROVE  Quiet /\ UpTo(Buyers)
<1>1. \A j \in SweepRow : ~Pending(j)
    BY DEF NoSweep, Pending
<1>2. reconcileCursor = 0 /\ \A s \in Surface : shown[s] = plan
    BY <1>1 DEF Settling, Ahead
<1>3. \A r \in Sweeper : sweep[r] = "idle"
    BY DEF ReconcileTypes, Holds, NoSweep
<1> QED
    BY <1>2, <1>3 DEF Quiet, UpTo

\* A step that publishes nothing wrong and leaves the cursor keeps what was swept,
\* but for the runner that took it.
LEMMA OthersSwept ==
    ASSUME ReconcileTypes, Fresh, Swept, NEW r \in Sweeper, plan' = plan,
           \A s \in Surface : shown[s] = plan => shown'[s] = plan,
           \A q \in Sweeper \ {r} :
              sweep'[q] = sweep[q] /\ from'[q] = from[q] /\ at'[q] = at[q] /\ planRead'[q] = planRead[q]
    PROVE  /\ \A q \in Sweeper \ {r} :
              /\ sweep'[q] = "write" => planRead'[q] = plan'
              /\ sweep'[q] \in {"ask", "write"} => UpTo(at[q] - 1)' /\ at'[q] = at[q]
              /\ sweep'[q] = "advance" => UpTo(Last(q))'
           /\ reconcileCursor # 0 => \A s \in Surface : s <= reconcileCursor => shown'[s] = plan'
BY DEF Fresh, Swept, UpTo, Last, More

LEMMA SweptByReads ==
    ASSUME ReconcileTypes, Fresh, Swept, Ahead, NEW r \in Sweeper, SweepReads(r) \/ SweepAsks(r)
    PROVE  Fresh' /\ Swept' /\ Ahead'
<1> USE ReconcileAssumption
<1>1. ReconcileTypeOK /\ CursorWithin
    BY DEF ReconcileTypes
<1>2. UNCHANGED <<plan, reconcileCursor, shown, rowVars>>
    BY DEF SweepReads, SweepAsks, writerVars
<1>3. \A q \in Sweeper \ {r} :
          sweep'[q] = sweep[q] /\ from'[q] = from[q] /\ at'[q] = at[q] /\ planRead'[q] = planRead[q]
    BY <1>1 DEF ReconcileTypeOK, SweepReads, SweepAsks, SweepGoes
<1>4. /\ sweep'[r] = "write" => planRead'[r] = plan
      /\ sweep'[r] \in {"ask", "write"} /\ UpTo(at'[r] - 1)
    <2>1. CASE SweepReads(r)
        <3>1. at'[r] = First(reconcileCursor)
            BY <1>1, <2>1 DEF ReconcileTypeOK, SweepReads
        <3>2. First(reconcileCursor) <= Buyers
            BY <1>1 DEF ReconcileTypeOK, CursorWithin, First
        <3>3. sweep'[r] = "ask"
            BY <1>1, <2>1, <3>2 DEF ReconcileTypeOK, SweepReads, SweepGoes
        <3>4. UpTo(at'[r] - 1)
            <4>1. CASE reconcileCursor = 0
                BY <3>1, <4>1 DEF First, UpTo, Surface
            <4>2. CASE reconcileCursor # 0
                BY <1>1, <3>1, <4>2 DEF First, UpTo, Swept, Surface, ReconcileTypeOK
            <4> QED
                BY <4>1, <4>2
        <3> QED
            BY <3>3, <3>4
    <2>2. CASE SweepAsks(r)
        BY <1>1, <2>2 DEF ReconcileTypeOK, SweepAsks, SweepGoes, Swept
    <2> QED
        BY <2>1, <2>2
<1>5. \A s \in Surface : shown[s] = plan => shown'[s] = plan
    BY <1>2
<1>6. Fresh' /\ Swept'
    BY <1>2, <1>3, <1>4, <1>5, OthersSwept DEF Fresh, Swept, UpTo
<1>7. Ahead'
    <2>1. \A j \in SweepRow : Pending(j) => Pending(j)'
        BY <1>2, <1>3, <1>4 DEF Pending, rowVars
    <2> QED
        BY <1>2, <2>1 DEF Ahead
<1> QED
    BY <1>6, <1>7

LEMMA SweptByWrites ==
    ASSUME ReconcileTypes, Fresh, Swept, Ahead, NEW r \in Sweeper, SweepWrites(r)
    PROVE  Fresh' /\ Swept' /\ Ahead'
<1> USE ReconcileAssumption
<1>1. ReconcileTypeOK
    BY DEF ReconcileTypes
<1>2. UNCHANGED <<plan, reconcileCursor, rowVars, from>>
    BY DEF SweepWrites, writerVars
<1>3. \A q \in Sweeper \ {r} :
          sweep'[q] = sweep[q] /\ from'[q] = from[q] /\ at'[q] = at[q] /\ planRead'[q] = planRead[q]
    BY <1>1 DEF ReconcileTypeOK, SweepWrites, SweepGoes
<1>4. shown' = [shown EXCEPT ![at[r]] = plan]
    BY DEF SweepWrites, Fresh
<1>5. at[r] \in Surface /\ at[r] <= Last(r) /\ Last(r) \in 0 .. Buyers
    BY <1>1, PageEnds DEF ReconcileTypes, ReconcileTypeOK, Within, SweepWrites
<1>6. \A s \in Surface : (shown[s] = plan \/ s = at[r]) => shown'[s] = plan
    BY <1>1, <1>4 DEF ReconcileTypeOK
<1>7. \A s \in Surface : s <= at[r] => shown'[s] = plan
    BY <1>1, <1>5, <1>6 DEF Swept, UpTo, SweepWrites, Surface, ReconcileTypeOK
<1>8. \/ sweep'[r] = "advance" /\ at[r] = Last(r)
      \/ sweep'[r] = "ask" /\ at'[r] = at[r] + 1
    BY <1>1 DEF ReconcileTypeOK, SweepWrites, SweepGoes
<1>9. Fresh' /\ Swept'
    <2>1. Last(r)' = Last(r)
        BY <1>2 DEF Last, More
    <2>2. /\ sweep'[r] = "ask" => UpTo(at[r] - 1)'
          /\ sweep'[r] = "advance" => UpTo(Last(r))'
        BY <1>2, <1>5, <1>7, <1>8, <2>1 DEF UpTo, Surface
    <2> QED
        BY <1>2, <1>3, <1>6, <1>8, <2>2, OthersSwept DEF Fresh, Swept, UpTo
<1>10. Ahead'
    <2>1. \A j \in SweepRow : Pending(j) => Pending(j)'
        BY <1>2, <1>3, <1>8 DEF Pending, rowVars
    <2> QED
        BY <1>2, <1>6, <2>1 DEF Ahead
<1> QED
    BY <1>9, <1>10

LEMMA SweptByAdvances ==
    ASSUME ReconcileTypes, Fresh, Swept, Ahead, NEW r \in Sweeper,
           SweepAdvances(r) \/ SweepEnqueues(r)
    PROVE  Fresh' /\ Swept' /\ Ahead'
<1> USE ReconcileAssumption
<1>1. ReconcileTypeOK
    BY DEF ReconcileTypes
<1>2. UNCHANGED <<plan, shown, from, at, planRead>>
    BY DEF SweepAdvances, SweepEnqueues, writerVars
<1>3. \A q \in Sweeper \ {r} : sweep'[q] = sweep[q]
    BY <1>1 DEF ReconcileTypeOK, SweepAdvances, SweepEnqueues, SweepGoes
<1>4. sweep'[r] \in {"enqueue", "report"}
    BY <1>1 DEF ReconcileTypeOK, SweepAdvances, SweepEnqueues, SweepGoes
<1>5. reconcileCursor' # 0 => \A s \in Surface : s <= reconcileCursor' => shown[s] = plan
    BY <1>1 DEF SweepAdvances, SweepEnqueues, NextCursor, Swept, UpTo
<1>6. Fresh' /\ Swept'
    BY <1>2, <1>3, <1>4, <1>5 DEF Fresh, Swept, UpTo, Last, More
<1>7. Ahead'
    <2>1. CASE SweepAdvances(r) /\ More(r)
        <3>1. PICK j \in SweepRow : Holds(r, j)
            BY <2>1 DEF ReconcileTypes, SweepAdvances
        <3>2. sweep'[r] = "enqueue" /\ UNCHANGED rowVars
            BY <1>1, <2>1 DEF SweepAdvances, SweepGoes, ReconcileTypeOK
        <3>3. Pending(j)'
            BY <3>1, <3>2 DEF Pending, Holds, rowVars
        <3> QED
            BY <3>3 DEF Ahead
    <2>2. CASE SweepAdvances(r) /\ ~More(r)
        <3>1. Last(r) = Buyers /\ reconcileCursor' = 0
            BY <2>2 DEF SweepAdvances, Last, NextCursor
        <3>2. \A s \in Surface : shown[s] = plan
            BY <2>2, <3>1 DEF Swept, UpTo, SweepAdvances, Surface
        <3> QED
            BY <1>2, <3>1, <3>2 DEF Ahead
    <2>3. CASE SweepEnqueues(r)
        <3>1. PICK j \in SweepRow : SweepQueue!Post(j)
            BY <2>3 DEF SweepEnqueues, QueueSweep
        <3>2. sweepPhase'[j] = "waiting"
            BY <3>1 DEF SweepQueue!Post, SweepQueue!Move
        <3> QED
            BY <3>2 DEF Ahead, Pending
    <2> QED
        BY <2>1, <2>2, <2>3
<1> QED
    BY <1>6, <1>7

\* A run that reports its row over had nothing left to do, and the row it leaves
\* was not the one to come; whoever fails or dies leaves a row to come.
LEMMA SweptByLeases ==
    ASSUME ReconcileTypes, Fresh, Swept, Ahead, NEW r \in Sweeper,
           \/ \E j \in SweepRow : ClaimSweep(r, j)
           \/ SweepReports(r) \/ SweepFails(r) \/ SweepDies(r)
    PROVE  Fresh' /\ Swept' /\ Ahead'
<1> USE ReconcileAssumption
<1>1. ReconcileTypeOK
    BY DEF ReconcileTypes
<1>2. UNCHANGED <<plan, shown, reconcileCursor>>
    BY DEF ClaimSweep, SweepReports, SweepFails, SweepDies, writerVars
<1>3. \A q \in Sweeper :
          \/ /\ sweep'[q] = sweep[q] /\ from'[q] = from[q] /\ at'[q] = at[q]
             /\ planRead'[q] = planRead[q]
          \/ sweep'[q] \in {"idle", "read"}
    BY <1>1 DEF ReconcileTypeOK, ClaimSweep, SweepReports, SweepFails, SweepDies, Forget, SweepGoes
<1>4. Fresh' /\ Swept'
    BY <1>2, <1>3 DEF Fresh, Swept, UpTo, Last, More
<1> SUFFICES Ahead'
    BY <1>4
<1>5. ASSUME \E i \in SweepRow : sweepPhase'[i] = "waiting" PROVE Ahead'
    BY <1>5 DEF Ahead, Pending
<1>6. ASSUME NEW j \in SweepRow, ClaimSweep(r, j) PROVE Ahead'
    <2>1. sweepPhase'[j] = "leased" /\ sweepHolders'[j] = {r} /\ sweep'[r] = "read"
        BY <1>1, <1>6 DEF ClaimSweep, SweepQueue!Take, SweepQueue!Move, SweepGoes, ReconcileTypeOK
    <2> QED
        BY <2>1 DEF Ahead, Pending
<1>8. CASE SweepFails(r)
    BY <1>5, <1>8 DEF SweepFails
<1>9. CASE SweepReports(r)
    <2>1. PICK i \in SweepRow : SweepQueue!Report(r, i) /\ sweepPhase'[i] = "over"
        BY <1>9 DEF SweepReports
    <2>2. ~Pending(i)
        BY <1>9, <2>1 DEF SweepReports, Pending, SweepQueue!Report
    <2>3. \A k \in SweepRow \ {i} : sweepPhase'[k] = sweepPhase[k] /\ sweepHolders'[k] = sweepHolders[k]
        BY <1>1, <2>1 DEF SweepQueue!Report, SweepQueue!Move, ReconcileTypeOK
    <2>4. \A k \in SweepRow : Pending(k) => Pending(k)'
        <3> SUFFICES ASSUME NEW k \in SweepRow, Pending(k) PROVE Pending(k)'
            OBVIOUS
        <3>1. sweepPhase'[k] = sweepPhase[k] /\ sweepHolders'[k] = sweepHolders[k]
            BY <2>2, <2>3
        <3>2. \A q \in Sweeper : sweep'[q] = "report" => sweep[q] = "report"
            BY <1>3
        <3> QED
            BY <3>1, <3>2 DEF Pending
    <2> QED
        BY <1>2, <2>4 DEF Ahead
<1>10. CASE SweepDies(r)
    <2>1. PICK i \in SweepRow : SweepQueue!Die(r, i)
        BY <1>10 DEF SweepDies
    <2>2. /\ sweepPhase' = sweepPhase
          /\ \A k \in SweepRow : sweepHolders'[k] \in {{}, sweepHolders[k]}
        BY <1>1, <2>1 DEF SweepQueue!Die, ReconcileTypeOK
    <2>3. \A k \in SweepRow : Pending(k) => Pending(k)'
        BY <1>3, <2>2 DEF Pending
    <2> QED
        BY <1>2, <2>3 DEF Ahead
<1> QED
    BY <1>6, <1>8, <1>9, <1>10

LEMMA SweptByRequeue ==
    ASSUME ReconcileTypes, Fresh, Swept, Ahead, NEW j \in SweepRow, RequeueSweep(j)
    PROVE  Fresh' /\ Swept' /\ Ahead'
<1>1. UNCHANGED <<plan, shown, reconcileCursor, sweepVars>>
    BY DEF RequeueSweep, writerVars
<1>2. sweepPhase'[j] = "waiting"
    BY DEF RequeueSweep, Stuck, SweepQueue!TakeBack, SweepQueue!Move
<1> QED
    BY <1>1, <1>2 DEF Fresh, Swept, Ahead, Pending, UpTo, Last, More, sweepVars

-----------------------------------------------------------------------------
(* A change of plan                                                        *)

\* The writer finds everything at rest, updates the row, and leaves a sweep that
\* begins at null.
LEMMA SettlingByWriters ==
    ASSUME ReconcileTypes, schedule = {}, Settling,
           \/ \E p \in Plan : MerchantChanges(p)
           \/ GraceRunsOut \/ WriterStep \/ WriterFails
    PROVE  Settling'
<1> USE ReconcileAssumption
<1>1. ReconcileTypeOK
    BY DEF ReconcileTypes
<1>2. ASSUME Quiet', UpTo(Buyers)', writer' = "idle" PROVE Settling'
    BY <1>2 DEF Settling, Quiet, UpTo, Fresh, Swept, Ahead, Surface
<1>3. ASSUME NEW p \in Plan, MerchantChanges(p) PROVE Settling'
    <2>1. message = NoPlan /\ NoSweep /\ message' = p /\ p # NoPlan
        BY <1>3 DEF MerchantChanges
    <2>2. Quiet /\ UpTo(Buyers)
        BY <2>1, AtRest
    <2>3. Quiet' /\ UpTo(Buyers)' /\ writer' = "idle"
        BY <1>3, <2>1, <2>2 DEF Settling, MerchantChanges, Quiet, NoSweep, UpTo, rowVars, sweepVars
    <2> QED
        BY <1>2, <2>3
<1>4. CASE GraceRunsOut \/ WriterFails
    BY <1>4 DEF GraceRunsOut, WriterFails
<1>5. ASSUME WriterStep PROVE message # NoPlan /\ Quiet
    BY <1>5 DEF WriterStep, WriterUpdates, WriterCancels, WriterCreates, Settling
<1>6. CASE WriterUpdates
    <2>1. UNCHANGED <<reconcileCursor, shown, rowVars, sweepVars>>
        BY <1>6 DEF WriterUpdates
    <2>2. Quiet'
        BY <1>5, <1>6, <2>1 DEF WriterStep, Quiet, NoSweep, rowVars, sweepVars
    <2>3. CASE plan = message
        <3>1. UpTo(Buyers)' /\ writer' = "idle"
            BY <1>5, <1>6, <2>1, <2>3 DEF WriterStep, WriterUpdates, Settling, UpTo
        <3> QED
            BY <1>2, <2>2, <3>1
    <2>4. CASE plan # message
        BY <1>6, <2>2, <2>4 DEF WriterUpdates, Settling
    <2> QED
        BY <2>3, <2>4
<1>7. CASE WriterCancels
    <2>1. Quiet /\ message # NoPlan
        BY <1>5, <1>7 DEF WriterStep
    <2>2. \A j \in SweepRow : sweepPhase'[j] = sweepPhase[j]
        BY <1>7, <2>1, MoveTyped, <1>1 DEF WriterCancels, SweepQueue!Withdraw, Quiet, NoSweep
    <2>3. Quiet'
        BY <1>7, <2>1, <2>2 DEF WriterCancels, Quiet, NoSweep, sweepVars
    <2> QED
        BY <1>7, <2>1, <2>3 DEF WriterCancels, Settling
<1>8. CASE WriterCreates
    <2>1. Quiet
        BY <1>5, <1>8 DEF WriterStep
    <2>2. PICK j \in SweepRow : SweepQueue!Post(j)
        BY <1>8 DEF WriterCreates, QueueSweep
    <2>3. sweepPhase'[j] = "waiting"
        BY <2>2 DEF SweepQueue!Post, SweepQueue!Move
    <2>4. Ahead'
        BY <2>3 DEF Ahead, Pending
    <2>5. reconcileCursor' = 0 /\ \A r \in Sweeper : sweep'[r] = "idle"
        BY <1>8, <2>1 DEF WriterCreates, Quiet, sweepVars
    <2>6. Fresh' /\ Swept'
        BY <2>5 DEF Fresh, Swept
    <2> QED
        BY <1>8, <2>4, <2>6 DEF WriterCreates, Settling
<1> QED
    BY <1>3, <1>4, <1>6, <1>7, <1>8 DEF WriterStep

\* During a change nobody sweeps.
LEMMA SettlingByRunners ==
    ASSUME ReconcileTypes, Settling,
           \/ \E r \in Sweeper : SweepStep(r) \/ SweepFails(r) \/ SweepDies(r)
           \/ \E r \in Sweeper, j \in SweepRow : ClaimSweep(r, j)
           \/ \E j \in SweepRow : RequeueSweep(j)
    PROVE  Settling'
<1>1. message = NoPlan
    <2>1. ~Quiet
        BY DEF Quiet, NoSweep, SweepStep, SweepReads, SweepAsks, SweepWrites, SweepAdvances,
               SweepEnqueues, SweepReports, SweepFails, SweepDies, ClaimSweep, RequeueSweep,
               Stuck, SweepQueue!Take, SweepQueue!TakeBack
    <2> QED
        BY <2>1 DEF Settling
<1>2. writer = "idle" /\ Fresh /\ Swept /\ Ahead
    BY <1>1 DEF Settling
<1>3. UNCHANGED <<message, writer>>
    BY DEF SweepStep, SweepReads, SweepAsks, SweepWrites, SweepAdvances, SweepEnqueues,
           SweepReports, SweepFails, SweepDies, ClaimSweep, RequeueSweep, writerVars
<1>4. ASSUME NEW j \in SweepRow, RequeueSweep(j) PROVE Fresh' /\ Swept' /\ Ahead'
    BY <1>2, <1>4, SweptByRequeue
<1>5. ASSUME NEW r \in Sweeper, SweepReports(r) \/ SweepFails(r) \/ SweepDies(r)
      PROVE  Fresh' /\ Swept' /\ Ahead'
    BY <1>2, <1>5, SweptByLeases
<1>6. ASSUME NEW r \in Sweeper, NEW j \in SweepRow, ClaimSweep(r, j) PROVE Fresh' /\ Swept' /\ Ahead'
    BY <1>2, <1>6, SweptByLeases
<1>7. Fresh' /\ Swept' /\ Ahead'
    BY <1>2, <1>4, <1>5, <1>6, SweptByReads, SweptByWrites, SweptByAdvances DEF SweepStep
<1> QED
    BY <1>1, <1>2, <1>3, <1>7 DEF Settling

LEMMA SettleInitially == ReconcileInit => SettleInv
<1> SUFFICES ASSUME ReconcileInit PROVE SettleInv
    OBVIOUS
<1>1. Settling
    BY DEF ReconcileInit, Settling, Fresh, Swept, Ahead, UpTo
<1> QED
    BY <1>1, TypesInitially DEF SettleInv

LEMMA SettleStep == SettleInv /\ [ReconcileNext]_reconcileVars => SettleInv'
<1> SUFFICES ASSUME SettleInv, [ReconcileNext]_reconcileVars PROVE SettleInv'
    OBVIOUS
<1>1. ReconcileTypes /\ ReconcileTypes'
    BY TypesStep DEF SettleInv
<1>2. schedule' = schedule
    BY DEF ReconcileNext, reconcileVars, writerVars, MerchantChanges, GraceRunsOut, WriterStep,
           WriterUpdates, WriterCancels, WriterCreates, WriterFails, SweepStep, SweepReads,
           SweepAsks, SweepWrites, SweepAdvances, SweepEnqueues, SweepReports, SweepFails,
           SweepDies, ClaimSweep, RequeueSweep
<1>3. ASSUME schedule = {} PROVE Settling'
    <2>1. Settling
        BY <1>3 DEF SettleInv
    <2>2. CASE UNCHANGED reconcileVars
        BY <2>1, <2>2 DEF reconcileVars, writerVars, rowVars, sweepVars, Settling, Fresh, Swept,
                          Ahead, Pending, UpTo, Last, More, Quiet, NoSweep
    <2> QED
        BY <1>1, <1>3, <2>1, <2>2, SettlingByWriters, SettlingByRunners DEF ReconcileNext
<1> QED
    BY <1>1, <1>2, <1>3 DEF SettleInv

\* "This is what makes them run at the moment the answer changes, in both
\* directions": as long as the plan changes one at a time, by a webhook that is
\* handled at the first attempt and not by the clock, whatever pages fail or die
\* on the way, once the writer is done and no sweep is left every surface shows
\* what the plan allows.
THEOREM CheckoutSettles == ReconcileSpec => []SettledMeansTrue
<1>1. SettleInv => SettledMeansTrue
    <2> SUFFICES ASSUME SettleInv, schedule = {}, message = NoPlan, NoSweep
        PROVE  \A s \in Surface : shown[s] = plan
        BY DEF SettledMeansTrue, CheckoutIsTrue
    <2>1. UpTo(Buyers)
        BY AtRest DEF SettleInv
    <2> QED
        BY <2>1, ReconcileAssumption DEF UpTo, Surface
<1> QED
    BY SettleInitially, SettleStep, <1>1, PTL DEF ReconcileSpec

(***************************************************************************)
(* The plan cached on the shop's row.                                      *)
(*                                                                         *)
(* What is Due (posted, or read by a request that has yet to write) says   *)
(* what the row will be told.  In the order Shopify changed, the Newest    *)
(* word on a subscription is true of it, and the word on what replaced it  *)
(* is newer still (NewerLive); so a live subscription of which nothing is  *)
(* due is the row's (LiveCached), and the row's is live, or is still to be *)
(* spoken of (CachedLives).  Where only the order of deliveries, one at a  *)
(* time, can be relied upon, Apart says that what a writer read is what    *)
(* the row still holds, and DueSo that an end reported is an end for good. *)
(***************************************************************************)
Delivery == [id: Sub, status: SubscriptionStatus, turn: 1 .. MaxTurns]

RowStatus == {"NONE", "ACTIVE", "PAST_DUE", "CANCELLED"}

CacheRow == [plan: Sub \cup {0}, id: Sub \cup {0}, grace: BOOLEAN, status: RowStatus,
             period: {"none", "ahead", "over"}]

Snapshot == [plan: Sub \cup {0}, id: Sub \cup {0}, status: RowStatus,
             period: {"none", "ahead", "over"}]

Stopped == [at: {"idle"}]

CacheTypes ==
    /\ skies \in Skies
    /\ subs \in [Sub -> SubscriptionStatus]
    /\ turn \in 0 .. MaxTurns
    /\ posted \subseteq Delivery /\ IsFiniteSet(posted)
    /\ cache \in CacheRow
    /\ hooks \in [Hook -> Stopped \cup [at: {"write"}, m: Delivery, existing: CacheRow]]
    /\ page \in Stopped \cup [at: {"check"}, previous: CacheRow]
                 \cup [at: {"write"}, previous: CacheRow, known: BOOLEAN, snapshot: Snapshot]
    /\ clocks \in Nat /\ freezes \in Nat

Writing(h) == hooks[h].at = "write"

\* Deliveries whose word is still to be taken.
Due == posted \cup {hooks[h].m : h \in {g \in Hook : Writing(g)}}

DueSo(m) ==
    /\ subs[m.id] \notin {"none", "PENDING"}
    /\ m.status \in {"ACTIVE", "FROZEN", "CANCELLED", "DECLINED"}
    /\ terminal(m.status) => subs[m.id] = m.status
    /\ m.turn <= turn

OneLive == \A s, t \in LiveSubs : s = t

RowSo ==
    /\ cache.plan \in {0, cache.id}
    /\ cache.grace <=> cache.status = "PAST_DUE"

PageSo ==
    page.at = "write" =>
        /\ page.snapshot.id = page.snapshot.plan
        /\ page.known => page.snapshot.plan # 0
        /\ ~page.known => page.snapshot = FREE_SNAPSHOT

\* What was read of the row is still there, but that its period may have ended.
Agrees(read) ==
    /\ read.plan = cache.plan /\ read.id = cache.id /\ read.status = cache.status
    /\ read.grace = cache.grace
    /\ read.period = "over" => cache.period = "over"

\* With one writer at a time, the row is the one it read.
Apart ==
    ClearOf({"overlapped", "crossed"}) =>
        /\ \A g, h \in Hook : Writing(g) /\ Writing(h) => g = h
        /\ \A h \in Hook : Writing(h) => /\ page.at = "idle" /\ Agrees(hooks[h].existing)
                                         /\ ~isStale(hooks[h].m, hooks[h].existing)
        /\ page.at # "idle" => posted = {} /\ Agrees(page.previous)

\* Deliveries are handled in the order they were made,
Orderly ==
    \A h \in Hook : Writing(h) =>
        hooks[h].m \notin posted /\ \A n \in posted : hooks[h].m.turn <= n.turn

\* the last one about a subscription says what it is,
Newest == \A m \in Due : m.status = subs[m.id] \/ \E n \in Due : n.id = m.id /\ n.turn > m.turn

\* and what took the place of a subscription is reported after it.
NewerLive ==
    \A m \in Due : \A s \in LiveSubs : s # m.id /\ ~terminal(m.status) =>
        \E n \in Due : n.id = s /\ n.turn > m.turn

LiveCached ==
    \A s \in LiveSubs : (\A m \in Due : m.id # s) =>
        cache.id = s /\ cache.plan = s /\ cache.status = mapStatus(subs[s])

CachedLives ==
    effectivePlan(cache) # 0 => cache.plan \in LiveSubs \/ \E m \in Due : m.id = cache.plan

Asked ==
    page.at = "write" =>
        IF LiveSubs = {} THEN ~page.known
        ELSE /\ page.known /\ page.snapshot.plan \in LiveSubs
             /\ page.snapshot.status = mapStatus(subs[page.snapshot.plan])

FrozenDue == {m \in Due : m.status = "FROZEN"}

Counted == clocks + Cardinality(FrozenDue) <= freezes

InOrder ==
    ClearOf(Troubles \ {"undated"}) =>
        /\ Orderly /\ Newest /\ NewerLive /\ LiveCached /\ CachedLives /\ Asked /\ Counted

CacheInv ==
    /\ CacheTypes /\ \A m \in Due : DueSo(m)
    /\ OneLive /\ RowSo /\ PageSo /\ Apart /\ InOrder

LEMMA Mapped ==
    ASSUME NEW status \in SubscriptionStatus
    PROVE  /\ mapStatus(status) \in RowStatus
           /\ mapStatus(status) = "CANCELLED" <=> terminal(status)
           /\ mapStatus(status) = "PAST_DUE" <=> status = "FROZEN"
           /\ mapStatus(status) = "ACTIVE" <=> status = "ACTIVE"
<1>1. /\ status = "ACTIVE" => mapStatus(status) = "ACTIVE"
      /\ status = "FROZEN" => mapStatus(status) = "PAST_DUE"
      /\ terminal(status) => mapStatus(status) = "CANCELLED"
      /\ status \notin {"ACTIVE", "FROZEN"} /\ ~terminal(status) => mapStatus(status) = "NONE"
      BY DEF mapStatus, terminal
<1>2. terminal(status) => status \notin {"ACTIVE", "FROZEN"}  BY DEF terminal
<1>. QED  BY <1>1, <1>2 DEF RowStatus

LEMMA ReadsLive ==
    ASSUME CacheTypes, OneLive, NEW some \in {LiveSubs, {}}
    PROVE  /\ some = {} => readSubscriptions(some) = 0
           /\ some # {} => readSubscriptions(some) \in LiveSubs
<1>1. CASE some = {}  BY <1>1 DEF readSubscriptions
<1>2. CASE some # {}
      <2>1. PICK s \in LiveSubs : some = LiveSubs  BY <1>2
      <2>2. LiveSubs = {s} /\ s \in Nat  BY <2>1, SubscriptionAssumption DEF OneLive, LiveSubs, Sub
      <2>. DEFINE relevant == IF \E t \in some : subs[t] = "ACTIVE"
                              THEN {t \in some : subs[t] = "ACTIVE"} ELSE some
      <2>3. relevant = {s}  BY <2>1, <2>2
      <2>4. readSubscriptions(some) = CHOOSE t \in relevant : \A u \in relevant : u <= t
            BY <1>2 DEF readSubscriptions
      <2>. HIDE DEF relevant
      <2>5. s \in relevant /\ \A u \in relevant : u <= s  BY <2>2, <2>3
      <2>6. (CHOOSE t \in relevant : \A u \in relevant : u <= t) \in relevant  BY <2>5
      <2>. QED  BY <1>2, <2>2, <2>3, <2>4, <2>6
<1>. QED  BY <1>1, <1>2

LEMMA DueTyped ==
    ASSUME CacheTypes
    PROVE  /\ Due \subseteq Delivery
           /\ \A m \in Delivery : m.id \in Sub /\ m.status \in SubscriptionStatus /\ m.turn \in Nat
           /\ \A h \in Hook : Writing(h) => /\ hooks[h].m \in Delivery /\ hooks[h].m \in Due
                                            /\ hooks[h].existing \in CacheRow
<1>1. \A h \in Hook : Writing(h) => /\ hooks[h].m \in Delivery /\ hooks[h].m \in Due
                                    /\ hooks[h].existing \in CacheRow
      BY DEF CacheTypes, Writing, Stopped, Due
<1>2. Due \subseteq Delivery  BY <1>1 DEF Due, CacheTypes
<1>. QED  BY <1>1, <1>2 DEF Delivery

LEMMA Skied ==
    /\ ClearOf(Troubles \ {"undated"}) =>
         {"late", "overlapped", "crossed", "hidden", "lost"} \cap skies = {}
    /\ ClearOf({"overlapped", "crossed"}) <=> "overlapped" \notin skies /\ "crossed" \notin skies
BY DEF ClearOf, Troubles

LEMMA AloneFinite ==
    ASSUME CacheInv, ClearOf(Troubles \ {"undated"})
    PROVE  IsFiniteSet(Due) /\ IsFiniteSet(FrozenDue)
<1>1. ClearOf({"overlapped", "crossed"})  BY Skied
<1>2. \A g, h \in Hook : Writing(g) /\ Writing(h) => g = h  BY <1>1 DEF CacheInv, Apart
<1>3. IsFiniteSet(posted)  BY DEF CacheInv, CacheTypes
<1>4. IsFiniteSet(Due)
      <2>1. CASE \E h \in Hook : Writing(h)
            <3>1. PICK h \in Hook : Writing(h)  BY <2>1
            <3>2. Due = posted \cup {hooks[h].m}  BY <1>2, <3>1 DEF Due
            <3>. QED  BY <1>3, <3>2, FS_AddElement
      <2>2. CASE ~ \E h \in Hook : Writing(h)
            <3>1. Due = posted  BY <2>2 DEF Due
            <3>. QED  BY <1>3, <3>1
      <2>. QED  BY <2>1, <2>2
<1>5. FrozenDue \subseteq Due  BY DEF FrozenDue
<1>. QED  BY <1>4, <1>5, FS_Subset

LEMMA TurnKeeps ==
    ASSUME CacheInv, NEW D \in SUBSET Sub, NEW changed \in [D -> SubscriptionStatus \ {"none"}],
           Turned(changed), OneLive',
           \A d \in D : /\ subs[d] \notin {"CANCELLED", "DECLINED"}
                        /\ changed[d] = "PENDING" => subs[d] = "none",
           \/ freezes' = freezes /\ \A d \in D : changed[d] # "FROZEN"
           \/ freezes' = freezes + 1 /\ \E d \in Sub : D = {d}
    PROVE  CacheInv'
<1>. DEFINE News == {[id |-> s, status |-> changed[s], turn |-> turn'] :
                        s \in {t \in D : changed[t] # "PENDING"}}
<1>1. /\ DOMAIN changed = D /\ turn < MaxTurns /\ turn' = turn + 1
      /\ posted' = posted \cup News
      /\ subs' = [s \in Sub |-> IF s \in D THEN changed[s] ELSE subs[s]]
      /\ "crossed" \notin skies => page.at = "idle"
      /\ UNCHANGED <<skies, cache, clocks, hooks, page>>
      BY DEF Turned, cacheVars
<1>2. CacheTypes /\ turn \in Nat /\ MaxTurns \in Nat /\ turn' \in 1 .. MaxTurns
      /\ Sub = 1 .. MaxSubs /\ MaxSubs \in Nat
      BY <1>1, SubscriptionAssumption DEF CacheInv, CacheTypes, Sub
<1>3. /\ News \subseteq Delivery
      /\ \A m \in News : /\ m.id \in D /\ m.status = changed[m.id] /\ m.status # "PENDING"
                         /\ m.turn = turn'
      /\ \A d \in D : changed[d] # "PENDING" =>
            \E m \in News : m.id = d /\ m.status = changed[d] /\ m.turn = turn'
      <2>1. \A s \in {t \in D : changed[t] # "PENDING"} :
               LET m == [id |-> s, status |-> changed[s], turn |-> turn']
               IN  /\ m \in Delivery /\ m.id = s /\ s \in D /\ m.status = changed[s]
                   /\ m.status # "PENDING" /\ m.turn = turn'
            BY <1>2 DEF Delivery
      <2>2. News \subseteq Delivery  BY <2>1
      <2>3. \A m \in News : /\ m.id \in D /\ m.status = changed[m.id] /\ m.status # "PENDING"
                            /\ m.turn = turn'
            BY <2>1
      <2>4. \A d \in D : changed[d] # "PENDING" =>
               \E m \in News : m.id = d /\ m.status = changed[d] /\ m.turn = turn'
            BY <2>1
      <2>. QED  BY <2>2, <2>3, <2>4
<1>4. IsFiniteSet(News)
      <2>1. IsFiniteSet(Sub)  BY <1>2, FS_Interval
      <2>2. IsFiniteSet({t \in D : changed[t] # "PENDING"})  BY <2>1, FS_Subset
      <2>. DEFINE sent == [s \in {t \in D : changed[t] # "PENDING"} |->
                             [id |-> s, status |-> changed[s], turn |-> turn']]
      <2>3. sent \in Surjection({t \in D : changed[t] # "PENDING"}, News)
            BY DEF Surjection
      <2>. QED  BY <2>2, <2>3, FS_Surjection
<1>. HIDE DEF News
<1>5. CacheTypes'
      <2>1. posted' \subseteq Delivery /\ IsFiniteSet(posted')
            BY <1>1, <1>2, <1>3, <1>4, FS_Union DEF CacheTypes
      <2>2. subs' \in [Sub -> SubscriptionStatus]  BY <1>1, <1>2 DEF CacheTypes
      <2>3. freezes' \in Nat  BY <1>2 DEF CacheTypes
      <2>. QED  BY <1>1, <1>2, <2>1, <2>2, <2>3 DEF CacheTypes
<1>6. Due' = Due \cup News
      <2>1. {hooks'[h].m : h \in {g \in Hook : hooks'[g].at = "write"}}
              = {hooks[h].m : h \in {g \in Hook : Writing(g)}}
            BY <1>1 DEF Writing
      <2>. QED  BY <1>1, <2>1 DEF Due, Writing
<1>7. \A m \in Due : /\ m \in Delivery /\ m.id \in Sub /\ m.turn \in Nat /\ m.turn < turn'
                     /\ m.status \in SubscriptionStatus /\ DueSo(m)
      BY <1>1, <1>2, DueTyped DEF CacheInv, DueSo
<1>8. \A s \in Sub : s \notin D => subs'[s] = subs[s]  BY <1>1
<1>9. \A s \in D : subs'[s] = changed[s]  BY <1>1
<1>10. \A m \in Due' : DueSo(m)'
      <2>1. ASSUME NEW m \in Due PROVE DueSo(m)'
            <3>1. CASE m.id \in D
                  BY <1>1, <1>2, <1>7, <1>9, <3>1 DEF DueSo, terminal
            <3>2. CASE m.id \notin D
                  BY <1>1, <1>2, <1>7, <1>8, <3>2 DEF DueSo
            <3>. QED  BY <3>1, <3>2
      <2>2. ASSUME NEW m \in News PROVE DueSo(m)'
            <3>1. m.status = subs'[m.id] /\ m.status # "PENDING" /\ m.status \in SubscriptionStatus \ {"none"}
                  BY <1>3, <1>9
            <3>2. m.turn <= turn'  BY <1>3, <1>2
            <3>. QED  BY <3>1, <3>2 DEF DueSo, SubscriptionStatus
      <2>. QED  BY <1>6, <2>1, <2>2
<1>11. RowSo' /\ PageSo'  BY <1>1 DEF CacheInv, RowSo, PageSo
<1>12. Apart'
      BY <1>1, Skied DEF CacheInv, Apart, Writing, ClearOf, Agrees, isStale
<1>13. InOrder'
      <2>. SUFFICES ASSUME ClearOf(Troubles \ {"undated"})
                    PROVE  (/\ Orderly /\ Newest /\ NewerLive /\ LiveCached /\ CachedLives
                            /\ Asked /\ Counted)'
           BY <1>1 DEF InOrder, ClearOf
      <2>1. /\ Orderly /\ Newest /\ NewerLive /\ LiveCached /\ CachedLives
            /\ Asked /\ Counted
            BY DEF CacheInv, InOrder
      <2>2. page.at = "idle"  BY <1>1, Skied
      <2>3. Orderly'
            <3>. SUFFICES ASSUME NEW h \in Hook, Writing(h)
                          PROVE  /\ hooks[h].m \notin posted'
                                 /\ \A n \in posted' : hooks[h].m.turn <= n.turn
                 BY <1>1 DEF Orderly, Writing
            <3>1. hooks[h].m \in Due /\ hooks[h].m \notin posted
                  /\ \A n \in posted : hooks[h].m.turn <= n.turn
                  BY <1>2, <2>1, DueTyped DEF Orderly
            <3>2. hooks[h].m.turn \in Nat /\ hooks[h].m.turn < turn'  BY <1>7, <3>1
            <3>. QED  BY <1>1, <1>2, <1>3, <3>1, <3>2
      <2>4. Newest'
            <3>1. ASSUME NEW m \in Due
                  PROVE  m.status = subs'[m.id] \/ \E n \in Due' : n.id = m.id /\ n.turn > m.turn
                  <4>1. CASE m.id \in D
                        <5>1. changed[m.id] # "PENDING"  BY <1>7, <4>1 DEF DueSo
                        <5>2. PICK n \in News : n.id = m.id /\ n.turn = turn'
                              BY <1>3, <4>1, <5>1
                        <5>. QED  BY <1>6, <1>7, <1>2, <5>2
                  <4>2. CASE m.id \notin D
                        BY <1>6, <1>7, <1>8, <2>1, <4>2 DEF Newest
                  <4>. QED  BY <4>1, <4>2
            <3>2. ASSUME NEW m \in News PROVE m.status = subs'[m.id]  BY <1>3, <1>9
            <3>. QED  BY <1>6, <3>1, <3>2 DEF Newest
      <2>5. NewerLive'
            <3>. SUFFICES ASSUME NEW m \in Due', NEW s \in LiveSubs', s # m.id, ~terminal(m.status)
                          PROVE  \E n \in Due' : n.id = s /\ n.turn > m.turn
                 BY DEF NewerLive
            <3>1. s \in Sub /\ subs'[s] \in {"ACTIVE", "FROZEN"}  BY DEF LiveSubs
            <3>2. m \notin News
                  <4>. SUFFICES ASSUME m \in News PROVE FALSE  OBVIOUS
                  <4>1. m.id \in D /\ subs'[m.id] = m.status /\ m.status # "PENDING"
                        /\ m.status \in SubscriptionStatus \ {"none"}
                        BY <1>3, <1>9
                  <4>2. m.id \in LiveSubs'
                        BY <4>1 DEF LiveSubs, terminal, SubscriptionStatus
                  <4>. QED  BY <4>2 DEF OneLive
            <3>3. m \in Due  BY <1>6, <3>2
            <3>4. CASE s \in D
                  <4>1. changed[s] # "PENDING"  BY <1>9, <3>1, <3>4
                  <4>2. PICK n \in News : n.id = s /\ n.turn = turn'  BY <1>3, <3>4, <4>1
                  <4>. QED  BY <1>2, <1>6, <1>7, <3>3, <4>2
            <3>5. CASE s \notin D
                  <4>1. s \in LiveSubs  BY <1>8, <3>1, <3>5 DEF LiveSubs
                  <4>. QED  BY <1>6, <2>1, <3>3, <4>1 DEF NewerLive
            <3>. QED  BY <3>4, <3>5
      <2>6. LiveCached'
            <3>. SUFFICES ASSUME NEW s \in LiveSubs', \A m \in Due' : m.id # s
                          PROVE  cache.id = s /\ cache.plan = s /\ cache.status = mapStatus(subs'[s])
                 BY <1>1 DEF LiveCached, mapStatus
            <3>1. s \in Sub /\ subs'[s] \in {"ACTIVE", "FROZEN"}  BY DEF LiveSubs
            <3>2. s \notin D  BY <1>3, <1>6, <1>9, <3>1
            <3>3. s \in LiveSubs /\ subs'[s] = subs[s]  BY <1>8, <3>1, <3>2 DEF LiveSubs
            <3>. QED  BY <1>6, <2>1, <3>3 DEF LiveCached
      <2>7. CachedLives'
            <3>. SUFFICES ASSUME effectivePlan(cache) # 0
                          PROVE  \/ cache.plan \in LiveSubs'
                                 \/ \E m \in Due' : m.id = cache.plan
                 BY <1>1 DEF CachedLives, effectivePlan
            <3>1. CASE cache.plan \in LiveSubs /\ cache.plan \in D
                  <4>1. changed[cache.plan] # "PENDING"  BY <3>1 DEF LiveSubs
                  <4>. QED  BY <1>3, <1>6, <3>1, <4>1
            <3>2. CASE cache.plan \in LiveSubs /\ cache.plan \notin D
                  BY <1>8, <3>2 DEF LiveSubs
            <3>3. CASE \E m \in Due : m.id = cache.plan  BY <1>6, <3>3
            <3>. QED  BY <2>1, <3>1, <3>2, <3>3 DEF CachedLives
      <2>8. Asked'  BY <1>1, <2>2 DEF Asked
      <2>9. Counted'
            <3>1. IsFiniteSet(FrozenDue)  BY AloneFinite
            <3>2. clocks \in Nat /\ freezes \in Nat /\ clocks + Cardinality(FrozenDue) <= freezes
                  BY <1>2, <2>1 DEF CacheTypes, Counted
            <3>3. CASE freezes' = freezes /\ \A d \in D : changed[d] # "FROZEN"
                  <4>1. FrozenDue' = FrozenDue  BY <1>3, <1>6, <3>3 DEF FrozenDue
                  <4>. QED  BY <1>1, <3>2, <3>3, <4>1 DEF Counted
            <3>4. CASE freezes' = freezes + 1 /\ \E d \in Sub : D = {d}
                  <4>1. PICK d \in Sub : D = {d}  BY <3>4
                  <4>. DEFINE new == [id |-> d, status |-> changed[d], turn |-> turn']
                  <4>2. News \subseteq {new}  BY <4>1 DEF News
                  <4>. HIDE DEF new
                  <4>3. FrozenDue' \subseteq FrozenDue \cup {new}  BY <1>6, <4>2 DEF FrozenDue
                  <4>4. /\ IsFiniteSet(FrozenDue \cup {new})
                        /\ Cardinality(FrozenDue \cup {new}) <= Cardinality(FrozenDue) + 1
                        /\ Cardinality(FrozenDue) \in Nat
                        <5>1. Cardinality(FrozenDue) \in Nat  BY <3>1, FS_CardinalityType
                        <5>2. /\ IsFiniteSet(FrozenDue \cup {new})
                              /\ \/ Cardinality(FrozenDue \cup {new}) = Cardinality(FrozenDue)
                                 \/ Cardinality(FrozenDue \cup {new}) = Cardinality(FrozenDue) + 1
                              BY <3>1, FS_AddElement
                        <5>. QED  BY <5>1, <5>2
                  <4>5. Cardinality(FrozenDue') <= Cardinality(FrozenDue \cup {new})
                        /\ Cardinality(FrozenDue') \in Nat
                        /\ Cardinality(FrozenDue \cup {new}) \in Nat
                        BY <4>3, <4>4, FS_Subset, FS_CardinalityType
                  <4>. QED  BY <1>1, <3>2, <3>4, <4>4, <4>5 DEF Counted
            <3>. QED  BY <3>3, <3>4
      <2>. QED  BY <2>3, <2>4, <2>5, <2>6, <2>7, <2>8, <2>9
<1>. QED  BY <1>5, <1>10, <1>11, <1>12, <1>13 DEF CacheInv

LEMMA ShopifyKeeps ==
    ASSUME CacheInv, ShopifyTurns
    PROVE  CacheInv'
<1>1. CacheTypes /\ OneLive  BY DEF CacheInv
<1>2. PICK s \in Sub : Requested(s) \/ AnsweredByMerchant(s) \/ Charged(s)
      BY DEF ShopifyTurns
<1>3. ASSUME NEW D \in SUBSET Sub, NEW changed, DOMAIN changed = D, Turned(changed)
      PROVE  LiveSubs' = {t \in Sub : IF t \in D THEN changed[t] \in {"ACTIVE", "FROZEN"}
                                                  ELSE t \in LiveSubs}
      <2>1. subs' = [t \in Sub |-> IF t \in D THEN changed[t] ELSE subs[t]]
            BY <1>3 DEF Turned
      <2>. QED  BY <2>1 DEF LiveSubs
<1>4. ASSUME NEW status \in {"PENDING", "DECLINED", "CANCELLED", "ACTIVE", "FROZEN"},
             Turned(OnlyThis(s, status)),
             subs[s] \notin {"CANCELLED", "DECLINED"},
             status = "PENDING" => subs[s] = "none",
             status \in {"ACTIVE", "FROZEN"} => s \in LiveSubs,
             freezes' = IF status = "FROZEN" THEN freezes + 1 ELSE freezes
      PROVE  CacheInv'
      <2>. DEFINE changed == OnlyThis(s, status)
      <2>1. changed \in [{s} -> SubscriptionStatus \ {"none"}] /\ DOMAIN changed = {s}
            /\ changed[s] = status
            BY DEF OnlyThis, SubscriptionStatus
      <2>. HIDE DEF changed
      <2>2. Turned(changed)  BY <1>4 DEF changed
      <2>3. LiveSubs' \subseteq LiveSubs  BY <1>3, <1>4, <2>1, <2>2
      <2>4. OneLive'  BY <1>1, <2>3 DEF OneLive
      <2>. QED  BY <1>4, <2>1, <2>2, <2>4, TurnKeeps
<1>5. CASE Requested(s)  BY <1>4, <1>5 DEF Requested
<1>6. CASE AnsweredByMerchant(s)
      <2>1. CASE Turned(OnlyThis(s, "DECLINED"))  BY <1>4, <1>6, <2>1 DEF AnsweredByMerchant
      <2>2. CASE Turned([t \in {s} \cup LiveSubs |-> IF t = s THEN "ACTIVE" ELSE "CANCELLED"])
            <3>. DEFINE D == {s} \cup LiveSubs
                        changed == [t \in D |-> IF t = s THEN "ACTIVE" ELSE "CANCELLED"]
            <3>1. D \in SUBSET Sub  BY DEF LiveSubs
            <3>2. changed \in [D -> SubscriptionStatus \ {"none"}] /\ DOMAIN changed = D
                  BY DEF SubscriptionStatus
            <3>3. \A t \in D : changed[t] = IF t = s THEN "ACTIVE" ELSE "CANCELLED"
                  OBVIOUS
            <3>4. Turned(changed)  BY <2>2
            <3>5. subs[s] = "PENDING" /\ freezes' = freezes  BY <1>6 DEF AnsweredByMerchant
            <3>6. \A t \in D : subs[t] \notin {"CANCELLED", "DECLINED"}
                  BY <3>5 DEF LiveSubs
            <3>7. LiveSubs \subseteq D /\ s \in D  OBVIOUS
            <3>. HIDE DEF changed, D
            <3>8. LiveSubs' \subseteq {s}  BY <1>3, <3>1, <3>2, <3>3, <3>4, <3>7
            <3>9. OneLive'  BY <3>8 DEF OneLive
            <3>. QED  BY <3>1, <3>2, <3>3, <3>4, <3>5, <3>6, <3>9, TurnKeeps
      <2>. QED  BY <1>6, <2>1, <2>2 DEF AnsweredByMerchant
<1>7. CASE Charged(s)
      <2>1. CASE subs[s] = "ACTIVE" /\ Turned(OnlyThis(s, "FROZEN")) /\ freezes' = freezes + 1
            BY <1>4, <2>1 DEF LiveSubs
      <2>2. CASE subs[s] = "FROZEN" /\ Turned(OnlyThis(s, "ACTIVE")) /\ UNCHANGED freezes
            BY <1>4, <2>2 DEF LiveSubs
      <2>3. CASE s \in LiveSubs /\ Turned(OnlyThis(s, "CANCELLED")) /\ UNCHANGED freezes
            BY <1>4, <2>3 DEF LiveSubs
      <2>. QED  BY <1>7, <2>1, <2>2, <2>3 DEF Charged
<1>. QED  BY <1>2, <1>5, <1>6, <1>7

LEMMA LossKeeps ==
    ASSUME CacheInv, NEW m \in posted, DeliveryLost(m)
    PROVE  CacheInv'
<1>1. /\ "lost" \in skies /\ posted' = posted \ {m}
      /\ UNCHANGED <<skies, subs, turn, cache, clocks, hooks, page, freezes>>
      BY DEF DeliveryLost, cacheVars
<1>2. CacheTypes'  BY <1>1, FS_Subset DEF CacheInv, CacheTypes
<1>3. Due' \subseteq Due  BY <1>1 DEF Due, Writing
<1>4. \A k \in Due' : DueSo(k)'  BY <1>1, <1>3 DEF CacheInv, DueSo
<1>5. (OneLive /\ RowSo /\ PageSo)'
      BY <1>1 DEF CacheInv, OneLive, LiveSubs, RowSo, PageSo
<1>6. Apart'  BY <1>1 DEF CacheInv, Apart, Writing, ClearOf, Agrees, isStale
<1>7. InOrder'  BY <1>1 DEF InOrder, ClearOf, Troubles
<1>. QED  BY <1>2, <1>4, <1>5, <1>6, <1>7 DEF CacheInv

LEMMA PeriodKeeps ==
    ASSUME CacheInv, PeriodEnds
    PROVE  CacheInv'
<1>1. /\ cache' = [cache EXCEPT !.period = "over"]
      /\ UNCHANGED <<skies, subs, turn, posted, clocks, hooks, page, freezes>>
      BY DEF PeriodEnds, truthVars
<1>2. cache \in CacheRow  BY DEF CacheInv, CacheTypes
<1>3. /\ cache' \in CacheRow /\ cache'.plan = cache.plan /\ cache'.id = cache.id
      /\ cache'.status = cache.status /\ cache'.grace = cache.grace
      /\ cache'.period = "over"
      BY <1>1, <1>2 DEF CacheRow
<1>4. CacheTypes'  BY <1>1, <1>3 DEF CacheInv, CacheTypes
<1>5. Due' = Due  BY <1>1 DEF Due, Writing
<1>6. \A k \in Due' : DueSo(k)'  BY <1>1, <1>5 DEF CacheInv, DueSo
<1>7. (OneLive /\ RowSo /\ PageSo)'
      BY <1>1, <1>3 DEF CacheInv, OneLive, LiveSubs, RowSo, PageSo
<1>8. Apart'  BY <1>1, <1>3 DEF CacheInv, Apart, Writing, ClearOf, Agrees, isStale
<1>9. InOrder'
      <2>. SUFFICES ASSUME ClearOf(Troubles \ {"undated"})
                    PROVE  (/\ Orderly /\ Newest /\ NewerLive /\ LiveCached /\ CachedLives
                            /\ Asked /\ Counted)'
           BY <1>1 DEF InOrder, ClearOf
      <2>1. /\ Orderly /\ Newest /\ NewerLive /\ LiveCached /\ CachedLives
            /\ Asked /\ Counted
            BY DEF CacheInv, InOrder
      <2>2. LiveSubs' = LiveSubs  BY <1>1 DEF LiveSubs
      <2>3. Orderly'  BY <1>1, <2>1 DEF Orderly, Writing
      <2>4. Newest'  BY <1>1, <1>5, <2>1 DEF Newest
      <2>5. NewerLive'  BY <1>5, <2>1, <2>2 DEF NewerLive
      <2>6. LiveCached'  BY <1>1, <1>3, <1>5, <2>1, <2>2 DEF LiveCached
      <2>7. CachedLives'  BY <1>3, <1>5, <2>1, <2>2 DEF CachedLives, effectivePlan
      <2>8. Asked'  BY <1>1, <2>1, <2>2 DEF Asked
      <2>9. Counted'  BY <1>1, <1>5, <2>1 DEF Counted, FrozenDue
      <2>. QED  BY <2>3, <2>4, <2>5, <2>6, <2>7, <2>8, <2>9
<1>. QED  BY <1>4, <1>6, <1>7, <1>8, <1>9 DEF CacheInv

LEMMA SyncReadKeeps ==
    ASSUME CacheInv, SyncReads
    PROVE  CacheInv'
<1>1. /\ page.at = "idle" /\ page' = [at |-> "check", previous |-> cache]
      /\ "crossed" \notin skies => posted = {} /\ \A h \in Hook : hooks[h].at = "idle"
      /\ UNCHANGED <<skies, subs, turn, posted, cache, clocks, hooks, freezes>>
      BY DEF SyncReads, truthVars, cacheVars
<1>2. page'.at = "check" /\ page'.previous = cache  BY <1>1
<1>3. CacheTypes'  BY <1>1 DEF CacheInv, CacheTypes
<1>4. Due' = Due  BY <1>1 DEF Due, Writing
<1>5. \A k \in Due' : DueSo(k)'  BY <1>1, <1>4 DEF CacheInv, DueSo
<1>6. (OneLive /\ RowSo /\ PageSo)'
      BY <1>1, <1>2 DEF CacheInv, OneLive, LiveSubs, RowSo, PageSo
<1>7. Apart'  BY <1>1, <1>2, Skied DEF CacheInv, Apart, Writing, ClearOf, Agrees, isStale
<1>8. InOrder'
      BY <1>1, <1>2, <1>4 DEF CacheInv, InOrder, ClearOf, Orderly, Newest, NewerLive, LiveCached,
              CachedLives, Asked, Counted, FrozenDue, LiveSubs, Writing
<1>. QED  BY <1>3, <1>5, <1>6, <1>7, <1>8 DEF CacheInv

LEMMA SyncCheckKeeps ==
    ASSUME CacheInv, SyncChecks
    PROVE  CacheInv'
<1>1. /\ page.at = "check"
      /\ UNCHANGED <<skies, subs, turn, posted, cache, clocks, hooks, freezes>>
      BY DEF SyncChecks, truthVars, cacheVars
<1>2. PICK some \in {LiveSubs} \cup (IF "hidden" \in skies THEN {{}} ELSE {}),
           period \in PeriodsTold("none") :
        LET s == readSubscriptions(some)
        IN  page' = [at |-> "write", previous |-> page.previous,
                     known |-> s # 0,
                     snapshot |-> IF s = 0 THEN FREE_SNAPSHOT
                                  ELSE [plan |-> s, status |-> mapStatus(subs[s]),
                                        id |-> s, period |-> period]]
      BY DEF SyncChecks
<1>p. period \in {"none", "ahead", "over"}  BY <1>2 DEF PeriodsTold
<1>3. PICK s : s = readSubscriptions(some)  OBVIOUS
<1>4. CacheTypes /\ OneLive /\ some \in {LiveSubs, {}}  BY <1>2 DEF CacheInv
<1>5. (some = {} => s = 0) /\ (some # {} => s \in LiveSubs)  BY <1>3, <1>4, ReadsLive
<1>6. LiveSubs \subseteq Sub /\ 0 \notin Sub  BY SubscriptionAssumption DEF LiveSubs, Sub
<1>7. /\ page'.at = "write" /\ page'.previous = page.previous
      /\ page'.known = (s # 0)
      /\ page'.snapshot = IF s = 0 THEN FREE_SNAPSHOT
                          ELSE [plan |-> s, status |-> mapStatus(subs[s]),
                                id |-> s, period |-> period]
      BY <1>2, <1>3
<1>k. IF s = 0 THEN ~page'.known ELSE page'.known = TRUE
      <2>1. s # 0 => page'.known = TRUE  BY <1>7
      <2>2. s = 0 => page'.known = FALSE  BY <1>7
      <2>. QED  BY <2>1, <2>2
<1>8. page.previous \in CacheRow  BY <1>1 DEF CacheInv, CacheTypes, Stopped
<1>9. page'.snapshot \in Snapshot
      <2>1. CASE s = 0  BY <1>7, <2>1 DEF FREE_SNAPSHOT, Snapshot, RowStatus
      <2>2. CASE s # 0
            <3>1. s \in Sub /\ subs[s] \in SubscriptionStatus
                  BY <1>4, <1>5, <1>6, <2>2 DEF CacheTypes
            <3>2. mapStatus(subs[s]) \in RowStatus  BY <3>1, Mapped
            <3>. QED  BY <1>p, <1>7, <2>2, <3>1, <3>2 DEF Snapshot
      <2>. QED  BY <2>1, <2>2
<1>10. CacheTypes'
      <2>1. page' = [at |-> "write", previous |-> page'.previous, known |-> page'.known,
                     snapshot |-> page'.snapshot]
            BY <1>2
      <2>2. page'.known \in BOOLEAN  BY <1>7
      <2>3. page' \in [at: {"write"}, previous: CacheRow, known: BOOLEAN, snapshot: Snapshot]
            BY <1>7, <1>8, <1>9, <2>1, <2>2
      <2>. QED  BY <1>1, <1>4, <2>3 DEF CacheTypes
<1>11. Due' = Due  BY <1>1 DEF Due, Writing
<1>12. \A k \in Due' : DueSo(k)'  BY <1>1, <1>11 DEF CacheInv, DueSo
<1>13. (OneLive /\ RowSo)'  BY <1>1 DEF CacheInv, OneLive, LiveSubs, RowSo
<1>14. PageSo'
      <2>1. CASE s = 0
            <3>1. page'.snapshot = FREE_SNAPSHOT /\ FREE_SNAPSHOT.id = FREE_SNAPSHOT.plan
                  BY <1>7, <2>1 DEF FREE_SNAPSHOT
            <3>. QED  BY <1>k, <2>1, <3>1 DEF PageSo
      <2>2. CASE s # 0
            <3>1. page'.snapshot.id = s /\ page'.snapshot.plan = s  BY <1>7, <2>2
            <3>. QED  BY <1>k, <2>2, <3>1 DEF PageSo
      <2>. QED  BY <2>1, <2>2
<1>15. Apart'  BY <1>1, <1>7 DEF CacheInv, Apart, Writing, ClearOf, Agrees, isStale
<1>16. InOrder'
      <2>. SUFFICES ASSUME ClearOf(Troubles \ {"undated"})
                    PROVE  (/\ Orderly /\ Newest /\ NewerLive /\ LiveCached /\ CachedLives
                            /\ Asked /\ Counted)'
           BY <1>1 DEF InOrder, ClearOf
      <2>1. /\ Orderly /\ Newest /\ NewerLive /\ LiveCached /\ CachedLives /\ Counted
            BY DEF CacheInv, InOrder
      <2>2. LiveSubs' = LiveSubs  BY <1>1 DEF LiveSubs
      <2>3. (/\ Orderly /\ Newest /\ NewerLive /\ LiveCached /\ CachedLives /\ Counted)'
            BY <1>1, <1>11, <2>1, <2>2 DEF Orderly, Newest, NewerLive, LiveCached, CachedLives,
                                           Counted, FrozenDue, Writing
      <2>4. some = LiveSubs  BY <1>2, Skied
      <2>5. Asked'
            <3>1. CASE LiveSubs = {}  BY <1>5, <1>k, <2>2, <2>4, <3>1 DEF Asked
            <3>2. CASE LiveSubs # {}
                  <4>1. s \in LiveSubs /\ s # 0  BY <1>5, <1>6, <2>4, <3>2
                  <4>2. page'.snapshot.plan = s /\ page'.snapshot.status = mapStatus(subs[s])
                        BY <1>7, <4>1
                  <4>3. mapStatus(subs[s])' = mapStatus(subs[s])  BY <1>1 DEF mapStatus
                  <4>. QED  BY <1>k, <2>2, <3>2, <4>1, <4>2, <4>3 DEF Asked
            <3>. QED  BY <3>1, <3>2
      <2>. QED  BY <2>3, <2>5
<1>. QED  BY <1>10, <1>12, <1>13, <1>14, <1>15, <1>16 DEF CacheInv

LEMMA ReadKeeps ==
    ASSUME CacheInv, NEW h \in Hook, NEW m \in posted, HookReads(h, m)
    PROVE  CacheInv'
<1>1. /\ hooks[h].at = "idle"
      /\ "overlapped" \notin skies => \A g \in Hook : hooks[g].at = "idle"
      /\ "crossed" \notin skies => page.at = "idle"
      /\ "late" \notin skies => \A n \in posted : m.turn <= n.turn
      /\ posted' = posted \ {m}
      /\ hooks' = IF isStale(m, cache) THEN hooks
                  ELSE [hooks EXCEPT ![h] = [at |-> "write", m |-> m, existing |-> cache]]
      /\ UNCHANGED <<skies, subs, turn, cache, clocks, page, freezes>>
      BY DEF HookReads, cacheVars
<1>2. CacheTypes /\ m \in Due /\ m \in Delivery /\ posted \subseteq Due
      BY DEF CacheInv, CacheTypes, Due
<1>3. /\ isStale(m, cache) => hooks' = hooks
      /\ ~isStale(m, cache) =>
            /\ hooks'[h] = [at |-> "write", m |-> m, existing |-> cache]
            /\ \A g \in Hook : g # h => hooks'[g] = hooks[g]
      BY <1>1, <1>2 DEF CacheTypes
<1>4. CacheTypes'
      <2>1. posted' \subseteq Delivery /\ IsFiniteSet(posted')
            BY <1>1, <1>2, FS_Subset DEF CacheTypes
      <2>2. [at |-> "write", m |-> m, existing |-> cache]
              \in [at: {"write"}, m: Delivery, existing: CacheRow]
            BY <1>2 DEF CacheTypes
      <2>3. hooks' \in [Hook -> Stopped \cup [at: {"write"}, m: Delivery, existing: CacheRow]]
            BY <1>1, <1>2, <2>2 DEF CacheTypes
      <2>. QED  BY <1>1, <1>2, <2>1, <2>3 DEF CacheTypes
<1>5. isStale(m, cache) => Due' \subseteq Due /\ Due \ {m} \subseteq Due'
      BY <1>1 DEF Due, Writing
<1>6. ~isStale(m, cache) => Due' = Due
      <2>. SUFFICES ASSUME ~isStale(m, cache) PROVE Due' = Due  OBVIOUS
      <2>1. \A g \in Hook : Writing(g)' <=> Writing(g) \/ g = h  BY <1>3 DEF Writing
      <2>2. \A g \in Hook : Writing(g) => g # h /\ hooks'[g].m = hooks[g].m
            BY <1>1, <1>3 DEF Writing
      <2>3. hooks'[h].m = m  BY <1>3
      <2>4. ASSUME NEW k \in Due PROVE k \in Due'
            <3>1. CASE k \in posted' \/ k = m  BY <2>1, <2>3, <3>1 DEF Due
            <3>2. CASE \E g \in Hook : Writing(g) /\ k = hooks[g].m
                  BY <2>1, <2>2, <3>2 DEF Due
            <3>. QED  BY <1>1, <3>1, <3>2 DEF Due
      <2>5. ASSUME NEW k \in Due' PROVE k \in Due
            <3>1. CASE k \in posted'  BY <1>1, <3>1 DEF Due
            <3>2. CASE \E g \in Hook : Writing(g)' /\ k = hooks'[g].m
                  BY <1>2, <2>1, <2>2, <2>3, <3>2 DEF Due
            <3>. QED  BY <3>1, <3>2 DEF Due
      <2>. QED  BY <2>4, <2>5
<1>7. \A k \in Due' : DueSo(k)'  BY <1>1, <1>5, <1>6 DEF CacheInv, DueSo
<1>8. (OneLive /\ RowSo /\ PageSo)'
      BY <1>1 DEF CacheInv, OneLive, LiveSubs, RowSo, PageSo
<1>9. Apart'
      <2>. SUFFICES ASSUME ClearOf({"overlapped", "crossed"})
                    PROVE  (/\ \A g, k \in Hook : Writing(g) /\ Writing(k) => g = k
                            /\ \A k \in Hook : Writing(k) =>
                                  /\ page.at = "idle" /\ Agrees(hooks[k].existing)
                                  /\ ~isStale(hooks[k].m, hooks[k].existing)
                            /\ page.at # "idle" => posted = {} /\ Agrees(page.previous))'
           BY <1>1 DEF Apart, ClearOf
      <2>1. (\A g \in Hook : hooks[g].at = "idle") /\ page.at = "idle"  BY <1>1, Skied
      <2>2. \A g \in Hook : Writing(g)' => g = h /\ ~isStale(m, cache)
            BY <1>3, <2>1 DEF Writing
      <2>3. Agrees(cache) /\ cache' = cache  BY <1>1 DEF Agrees
      <2>4. ~isStale(m, cache) => hooks'[h].m = m /\ hooks'[h].existing = cache  BY <1>3
      <2>. QED  BY <1>1, <2>1, <2>2, <2>3, <2>4 DEF Agrees, isStale
<1>10. InOrder'
      <2>. SUFFICES ASSUME ClearOf(Troubles \ {"undated"})
                    PROVE  (/\ Orderly /\ Newest /\ NewerLive /\ LiveCached /\ CachedLives
                            /\ Asked /\ Counted)'
           BY <1>1 DEF InOrder, ClearOf
      <2>1. /\ Orderly /\ Newest /\ NewerLive /\ LiveCached /\ CachedLives
            /\ Asked /\ Counted
            BY DEF CacheInv, InOrder
      <2>2. /\ \A g \in Hook : hooks[g].at = "idle"
            /\ page.at = "idle" /\ \A n \in posted : m.turn <= n.turn
            BY <1>1, Skied
      <2>3. Due = posted  BY <2>2 DEF Due, Writing
      <2>4. LiveSubs' = LiveSubs  BY <1>1 DEF LiveSubs
      <2>5. Asked'  BY <1>1, <2>2 DEF Asked
      <2>6. CASE isStale(m, cache)
            <3>1. Due' = Due \ {m} /\ \A g \in Hook : ~Writing(g)'
                  BY <1>1, <2>2, <2>3, <2>6 DEF Due, Writing
            <3>2. cache.id # 0 /\ m.id # cache.id /\ terminal(m.status)
                  BY <2>6 DEF isStale
            <3>3. Orderly'  BY <3>1 DEF Orderly
            <3>4. \A k, n \in Due : n.turn > k.turn => n # m
                  BY <1>2, <2>2, <2>3, DueTyped
            <3>5. Newest'  BY <1>1, <2>1, <3>1, <3>4 DEF Newest
            <3>6. NewerLive'  BY <2>1, <2>4, <3>1, <3>4 DEF NewerLive
            <3>7. m.id \notin LiveSubs
                  BY <1>2, <3>2 DEF CacheInv, DueSo, LiveSubs, terminal
            <3>8. LiveCached'  BY <1>1, <2>1, <2>4, <3>1, <3>7 DEF LiveCached, mapStatus
            <3>9. m.id # 0  BY <1>2, SubscriptionAssumption DEF Delivery, Sub
            <3>10. m.id # cache.plan  BY <3>2, <3>9 DEF CacheInv, RowSo
            <3>11. CachedLives'  BY <1>1, <2>1, <2>4, <3>1, <3>10 DEF CachedLives, effectivePlan
            <3>12. FrozenDue' = FrozenDue  BY <3>1, <3>2 DEF FrozenDue, terminal
            <3>13. Counted'  BY <1>1, <2>1, <3>12 DEF Counted
            <3>. QED  BY <2>5, <3>3, <3>5, <3>6, <3>8, <3>11, <3>13
      <2>7. CASE ~isStale(m, cache)
            <3>1. Due' = Due  BY <1>6, <2>7
            <3>2. \A g \in Hook : Writing(g)' => hooks'[g].m = m
                  BY <1>3, <2>2, <2>7 DEF Writing
            <3>3. Orderly'  BY <1>1, <2>2, <3>2 DEF Orderly
            <3>4. (Newest /\ NewerLive /\ LiveCached /\ CachedLives /\ Counted)'
                  BY <1>1, <2>1, <2>4, <3>1 DEF Newest, NewerLive, LiveCached, CachedLives,
                                                Counted, FrozenDue, effectivePlan, mapStatus
            <3>. QED  BY <2>5, <3>3, <3>4
      <2>. QED  BY <2>6, <2>7
<1>. QED  BY <1>4, <1>7, <1>8, <1>9, <1>10 DEF CacheInv

LEMMA Stepped ==
    ASSUME CacheTypes, NEW put \in CacheRow, NEW previous, CacheWritten(put, previous)
    PROVE  /\ cache' = put /\ clocks' \in Nat
           /\ clocks' \in {clocks, clocks + 1}
           /\ ~put.grace \/ previous.grace => clocks' = clocks
BY DEF CacheWritten, CacheTypes

LEMMA WriteKeeps ==
    ASSUME CacheInv, NEW h \in Hook, HookWrites(h)
    PROVE  CacheInv'
<1>. DEFINE m == hooks[h].m
            existing == hooks[h].existing
            status == mapStatus(m.status)
            Put(period) ==
               [plan |-> IF status = "CANCELLED" THEN 0 ELSE m.id, status |-> status,
                id |-> m.id, period |-> IF status = "CANCELLED" THEN "none" ELSE period,
                grace |-> status = "PAST_DUE"]
<1>0. PICK period \in PeriodsTold(existing.period) : CacheWritten(Put(period), existing)
      BY DEF HookWrites
<1>. DEFINE put == Put(period)
<1>1. /\ Writing(h) /\ CacheWritten(put, existing)
      /\ hooks' = [hooks EXCEPT ![h] = [at |-> "idle"]]
      /\ UNCHANGED <<skies, subs, turn, posted, page, freezes>>
      BY <1>0 DEF HookWrites, Writing, truthVars
<1>2. CacheTypes /\ m \in Due /\ m \in Delivery /\ existing \in CacheRow
      BY <1>1, DueTyped DEF CacheInv
<1>3. /\ m.id \in Sub /\ m.id # 0 /\ m.status \in SubscriptionStatus /\ m.turn \in Nat
      /\ status \in RowStatus
      BY <1>2, DueTyped, Mapped, SubscriptionAssumption DEF Sub
<1>4. put \in CacheRow
      <2>1. period \in {"none", "ahead", "over"}  BY <1>0, <1>2 DEF PeriodsTold, CacheRow
      <2>. QED  BY <1>3, <2>1 DEF CacheRow
<1>5. put.plan = (IF status = "CANCELLED" THEN 0 ELSE m.id) /\ put.id = m.id
      /\ put.status = status /\ (put.grace <=> status = "PAST_DUE")
      OBVIOUS
<1>6. DueSo(m)  BY <1>2 DEF CacheInv
<1>. HIDE DEF put, status, existing
<1>7. /\ cache' = put /\ clocks' \in Nat /\ clocks' \in {clocks, clocks + 1}
      /\ ~put.grace \/ existing.grace => clocks' = clocks
      BY <1>1, <1>2, <1>4, Stepped
<1>8. hooks'[h] = [at |-> "idle"] /\ \A g \in Hook : g # h => hooks'[g] = hooks[g]
      BY <1>1, <1>2 DEF CacheTypes
<1>9. CacheTypes'
      <2>1. hooks' \in [Hook -> Stopped \cup [at: {"write"}, m: Delivery, existing: CacheRow]]
            BY <1>1, <1>2 DEF CacheTypes, Stopped
      <2>. QED  BY <1>1, <1>2, <1>4, <1>7, <2>1 DEF CacheTypes
<1>10. Due' \subseteq Due  BY <1>1, <1>8 DEF Due, Writing
<1>11. \A k \in Due' : DueSo(k)'  BY <1>1, <1>10 DEF CacheInv, DueSo
<1>12. (OneLive /\ PageSo)'  BY <1>1 DEF CacheInv, OneLive, LiveSubs, PageSo
<1>13. RowSo'  BY <1>5, <1>7 DEF RowSo
<1>14. ClearOf({"overlapped", "crossed"}) =>
         /\ \A g \in Hook : Writing(g) => g = h
         /\ page.at = "idle" /\ Agrees(existing) /\ ~isStale(m, existing)
      BY <1>1 DEF CacheInv, Apart, existing
<1>15. Apart'
      BY <1>1, <1>8, <1>14 DEF Apart, Writing, ClearOf
<1>16. InOrder'
      <2>. SUFFICES ASSUME ClearOf(Troubles \ {"undated"})
                    PROVE  (/\ Orderly /\ Newest /\ NewerLive /\ LiveCached /\ CachedLives
                            /\ Asked /\ Counted)'
           BY <1>1 DEF InOrder, ClearOf
      <2>1. /\ Orderly /\ Newest /\ NewerLive /\ LiveCached /\ CachedLives
            /\ Asked /\ Counted
            BY DEF CacheInv, InOrder
      <2>2. /\ \A g \in Hook : Writing(g) => g = h
            /\ page.at = "idle" /\ Agrees(existing) /\ ~isStale(m, existing)
            BY <1>14, Skied
      <2>3. m \notin posted /\ \A n \in posted : m.turn <= n.turn
            BY <1>1, <2>1 DEF Orderly
      <2>4. Due = posted \cup {m} /\ Due' = posted /\ \A g \in Hook : ~Writing(g)'
            BY <1>1, <1>8, <2>2 DEF Due, Writing
      <2>5. LiveSubs' = LiveSubs /\ \A t : mapStatus(t)' = mapStatus(t)
            BY <1>1 DEF LiveSubs, mapStatus
      <2>6. \A k, n \in Due : n.turn > k.turn => n \in posted
            BY <1>2, <1>3, <2>3, <2>4, DueTyped
      <2>7. Orderly'  BY <2>4 DEF Orderly
      <2>8. Newest'  BY <1>1, <2>1, <2>4, <2>6 DEF Newest
      <2>9. NewerLive'  BY <2>1, <2>4, <2>5, <2>6 DEF NewerLive
      <2>10. LiveCached'
            <3>. SUFFICES ASSUME NEW s \in LiveSubs, \A n \in posted : n.id # s
                          PROVE  put.id = s /\ put.plan = s /\ put.status = mapStatus(subs[s])
                 BY <1>1, <1>7, <2>4, <2>5 DEF LiveCached
            <3>0. s \in Sub /\ s # 0 /\ subs[s] \in {"ACTIVE", "FROZEN"}
                  BY SubscriptionAssumption DEF LiveSubs, Sub
            <3>1. CASE m.id = s
                  <4>1. m.status = subs[s]  BY <1>2, <2>1, <2>6, <3>1 DEF Newest
                  <4>2. status = mapStatus(subs[s]) /\ status # "CANCELLED"
                        BY <1>3, <3>0, <4>1, Mapped DEF status, terminal
                  <4>. QED  BY <1>5, <3>1, <4>2
            <3>2. CASE m.id # s
                  <4>1. cache.id = s  BY <2>1, <2>4, <3>2 DEF LiveCached
                  <4>2. terminal(m.status)  BY <1>2, <2>1, <2>6, <3>2 DEF NewerLive
                  <4>3. existing.id = s  BY <2>2, <4>1 DEF Agrees
                  <4>. QED  BY <2>2, <3>0, <3>2, <4>2, <4>3 DEF isStale
            <3>. QED  BY <3>1, <3>2
      <2>11. CachedLives'
            <3>. SUFFICES ASSUME effectivePlan(put) # 0
                          PROVE  put.plan \in LiveSubs \/ \E n \in posted : n.id = put.plan
                 BY <1>7, <2>4, <2>5 DEF CachedLives, effectivePlan
            <3>1. status \notin {"CANCELLED", "NONE"} /\ put.plan = m.id
                  BY <1>5 DEF effectivePlan
            <3>2. m.status \in {"ACTIVE", "FROZEN"}
                  BY <1>3, <3>1, Mapped DEF status, mapStatus
            <3>3. CASE m.status = subs[m.id]  BY <1>3, <3>1, <3>2, <3>3 DEF LiveSubs
            <3>4. CASE \E n \in Due : n.id = m.id /\ n.turn > m.turn
                  BY <1>2, <2>6, <3>1, <3>4
            <3>. QED  BY <1>2, <2>1, <3>3, <3>4 DEF Newest
      <2>12. Asked'  BY <1>1, <2>2 DEF Asked
      <2>13. Counted'
            <3>1. IsFiniteSet(FrozenDue)  BY AloneFinite
            <3>2. clocks \in Nat /\ freezes \in Nat /\ clocks + Cardinality(FrozenDue) <= freezes
                  /\ Cardinality(FrozenDue) \in Nat
                  BY <1>2, <2>1, <3>1, FS_CardinalityType DEF CacheTypes, Counted
            <3>3. CASE m.status = "FROZEN"
                  <4>1. FrozenDue' = FrozenDue \ {m} /\ m \in FrozenDue
                        BY <2>3, <2>4, <3>3 DEF FrozenDue
                  <4>2. Cardinality(FrozenDue') = Cardinality(FrozenDue) - 1
                        BY <3>1, <4>1, FS_RemoveElement
                  <4>. QED  BY <1>1, <1>7, <3>2, <4>2 DEF Counted
            <3>4. CASE m.status # "FROZEN"
                  <4>1. FrozenDue' = FrozenDue  BY <2>3, <2>4, <3>4 DEF FrozenDue
                  <4>2. status # "PAST_DUE"  BY <1>3, <3>4, Mapped DEF status
                  <4>3. clocks' = clocks  BY <1>5, <1>7, <4>2
                  <4>. QED  BY <1>1, <2>1, <4>1, <4>3 DEF Counted
            <3>. QED  BY <3>3, <3>4
      <2>. QED  BY <2>7, <2>8, <2>9, <2>10, <2>11, <2>12, <2>13
<1>. QED  BY <1>9, <1>11, <1>12, <1>13, <1>15, <1>16 DEF CacheInv

LEMMA SyncWriteKeeps ==
    ASSUME CacheInv, SyncWrites
    PROVE  CacheInv'
<1>. DEFINE snapshot == page.snapshot
            previous == page.previous
            put == [plan |-> snapshot.plan, status |-> snapshot.status, id |-> snapshot.id,
                    period |-> snapshot.period, grace |-> snapshot.status = "PAST_DUE"]
            unsaid == ~page.known /\ ~mayActOn(previous)
<1>1. /\ page.at = "write" /\ page' = [at |-> "idle"]
      /\ unsaid => UNCHANGED <<cache, clocks>>
      /\ ~unsaid => CacheWritten(put, previous)
      /\ UNCHANGED <<skies, subs, turn, posted, hooks, freezes>>
      BY DEF SyncWrites, truthVars, cacheVars
<1>2. CacheTypes /\ PageSo  BY DEF CacheInv
<1>3. /\ snapshot \in Snapshot /\ previous \in CacheRow
      /\ snapshot.id = snapshot.plan
      /\ page.known => snapshot.plan # 0
      /\ ~page.known => snapshot = FREE_SNAPSHOT
      BY <1>1, <1>2 DEF CacheTypes, Stopped, PageSo
<1>4. put \in CacheRow /\ put.plan = snapshot.plan /\ put.id = snapshot.plan
      /\ put.status = snapshot.status /\ (put.grace <=> snapshot.status = "PAST_DUE")
      BY <1>3 DEF Snapshot, CacheRow
<1>. HIDE DEF put, snapshot, previous
<1>5. ~unsaid => /\ cache' = put /\ clocks' \in Nat
                 /\ ~put.grace \/ previous.grace => clocks' = clocks
      BY <1>1, <1>2, <1>4, Stepped
<1>. HIDE DEF unsaid
<1>6. CacheTypes'
      <2>1. cache' \in CacheRow /\ clocks' \in Nat
            BY <1>1, <1>2, <1>4, <1>5 DEF CacheTypes
      <2>. QED  BY <1>1, <1>2, <2>1 DEF CacheTypes, Stopped
<1>7. Due' = Due  BY <1>1 DEF Due, Writing
<1>8. \A k \in Due' : DueSo(k)'  BY <1>1, <1>7 DEF CacheInv, DueSo
<1>9. (OneLive /\ PageSo)'  BY <1>1 DEF CacheInv, OneLive, LiveSubs, PageSo
<1>10. RowSo'
      <2>1. CASE unsaid  BY <1>1, <2>1 DEF CacheInv, RowSo
      <2>2. CASE ~unsaid  BY <1>4, <1>5, <2>2 DEF RowSo
      <2>. QED  BY <2>1, <2>2
<1>11. ClearOf({"overlapped", "crossed"}) =>
         (\A h \in Hook : ~Writing(h)) /\ posted = {} /\ Agrees(previous)
      BY <1>1 DEF CacheInv, Apart, previous
<1>12. Apart'
      BY <1>1, <1>11 DEF Apart, Writing, ClearOf
<1>13. InOrder'
      <2>. SUFFICES ASSUME ClearOf(Troubles \ {"undated"})
                    PROVE  (/\ Orderly /\ Newest /\ NewerLive /\ LiveCached /\ CachedLives
                            /\ Asked /\ Counted)'
           BY <1>1 DEF InOrder, ClearOf
      <2>1. /\ Orderly /\ Newest /\ NewerLive /\ LiveCached /\ CachedLives
            /\ Asked /\ Counted
            BY DEF CacheInv, InOrder
      <2>2. (\A h \in Hook : ~Writing(h)) /\ posted = {} /\ Agrees(previous)  BY <1>11, Skied
      <2>3. Due = {} /\ Due' = {}  BY <1>7, <2>2 DEF Due
      <2>4. LiveSubs' = LiveSubs /\ \A t : mapStatus(t)' = mapStatus(t)
            BY <1>1 DEF LiveSubs, mapStatus
      <2>5. (Orderly /\ Newest /\ NewerLive /\ Asked)'
            BY <1>1, <2>2, <2>3 DEF Orderly, Newest, NewerLive, Asked, Writing
      <2>6. FrozenDue' = FrozenDue  BY <1>7 DEF FrozenDue
      <2>7. CASE unsaid
            BY <1>1, <1>7, <2>1, <2>4, <2>5, <2>6, <2>7
               DEF LiveCached, CachedLives, Counted, effectivePlan
      <2>8. CASE ~unsaid /\ ~page.known
            <3>1. LiveSubs = {}  BY <1>1, <2>1, <2>8 DEF Asked
            <3>2. snapshot.plan = 0 /\ snapshot.status = "NONE"
                  BY <1>3, <2>8 DEF FREE_SNAPSHOT
            <3>3. LiveCached'  BY <2>4, <3>1 DEF LiveCached
            <3>4. CachedLives'  BY <1>4, <1>5, <2>8, <3>2 DEF CachedLives, effectivePlan
            <3>5. clocks' = clocks  BY <1>4, <1>5, <2>8, <3>2
            <3>6. Counted'  BY <1>1, <2>1, <2>6, <3>5 DEF Counted
            <3>. QED  BY <2>5, <3>3, <3>4, <3>6
      <2>9. CASE page.known
            <3>1. ~unsaid  BY <2>9 DEF unsaid
            <3>2. /\ snapshot.plan \in LiveSubs
                  /\ snapshot.status = mapStatus(subs[snapshot.plan])
                  BY <1>1, <2>1, <2>9 DEF Asked, snapshot
            <3>3. \A s \in LiveSubs : s = snapshot.plan  BY <3>2 DEF CacheInv, OneLive
            <3>4. LiveCached'  BY <1>1, <1>4, <1>5, <2>4, <3>1, <3>2, <3>3 DEF LiveCached
            <3>5. CachedLives'  BY <1>4, <1>5, <2>4, <3>1, <3>2 DEF CachedLives
            <3>6. cache.status = snapshot.status  BY <2>1, <2>3, <3>2 DEF LiveCached
            <3>7. ~put.grace \/ previous.grace
                  <4>1. cache.grace <=> cache.status = "PAST_DUE"  BY DEF CacheInv, RowSo
                  <4>2. previous.grace = cache.grace  BY <2>2 DEF Agrees
                  <4>. QED  BY <1>4, <3>6, <4>1, <4>2
            <3>8. Counted'  BY <1>1, <1>5, <2>1, <2>6, <3>1, <3>7 DEF Counted
            <3>. QED  BY <2>5, <3>4, <3>5, <3>8
      <2>. QED  BY <2>7, <2>8, <2>9
<1>. QED  BY <1>6, <1>8, <1>9, <1>10, <1>12, <1>13 DEF CacheInv

LEMMA CacheStarts == SubscriptionInit => CacheInv
<1>. SUFFICES ASSUME SubscriptionInit PROVE CacheInv  OBVIOUS
<1>1. /\ skies \in Skies /\ subs = [s \in Sub |-> "none"] /\ turn = 0 /\ posted = {}
      /\ cache = FreeRow /\ hooks = [h \in Hook |-> [at |-> "idle"]]
      /\ page = [at |-> "idle"] /\ clocks = 0 /\ freezes = 0
      BY DEF SubscriptionInit
<1>2. Due = {} /\ LiveSubs = {}  BY <1>1 DEF Due, Writing, LiveSubs
<1>3. /\ cache.plan = 0 /\ cache.id = 0 /\ cache.status = "NONE" /\ cache.grace = FALSE
      /\ cache \in CacheRow
      BY <1>1 DEF FreeRow, CacheRow, RowStatus
<1>4. CacheTypes
      <2>1. IsFiniteSet(posted)  BY <1>1, FS_EmptySet
      <2>2. turn \in 0 .. MaxTurns  BY <1>1, SubscriptionAssumption
      <2>. QED  BY <1>1, <1>3, <2>1, <2>2 DEF CacheTypes, Stopped, SubscriptionStatus
<1>5. OneLive /\ RowSo /\ PageSo  BY <1>1, <1>2, <1>3 DEF OneLive, RowSo, PageSo
<1>6. Apart  BY <1>1 DEF Apart, Writing
<1>7. InOrder
      <2>1. FrozenDue = {}  BY <1>2 DEF FrozenDue
      <2>2. Counted  BY <1>1, <2>1, FS_EmptySet DEF Counted
      <2>. QED  BY <1>1, <1>2, <1>3, <2>2
                DEF InOrder, Orderly, Newest, NewerLive, LiveCached, CachedLives, Asked,
                    Writing, effectivePlan
<1>. QED  BY <1>2, <1>4, <1>5, <1>6, <1>7 DEF CacheInv

LEMMA CacheKeeps == CacheInv /\ [SubscriptionNext]_subscriptionVars => CacheInv'
<1>. SUFFICES ASSUME CacheInv, [SubscriptionNext]_subscriptionVars PROVE CacheInv'  OBVIOUS
<1>1. CASE UNCHANGED subscriptionVars
      <2>1. UNCHANGED <<skies, subs, turn, posted, cache, clocks, hooks, page, freezes>>
            BY <1>1 DEF subscriptionVars, truthVars, cacheVars
      <2>2. Due' = Due /\ LiveSubs' = LiveSubs  BY <2>1 DEF Due, Writing, LiveSubs
      <2>3. CacheTypes' /\ \A m \in Due' : DueSo(m)'  BY <2>1, <2>2 DEF CacheInv, CacheTypes, DueSo
      <2>4. (OneLive /\ RowSo /\ PageSo)'  BY <2>1, <2>2 DEF CacheInv, OneLive, RowSo, PageSo
      <2>5. Apart'  BY <2>1 DEF CacheInv, Apart, Writing, ClearOf, Agrees, isStale
      <2>6. InOrder'
            BY <2>1, <2>2 DEF CacheInv, InOrder, ClearOf, Orderly, Newest, NewerLive, LiveCached,
                    CachedLives, Asked, Counted, FrozenDue, Writing, effectivePlan, mapStatus
      <2>. QED  BY <2>3, <2>4, <2>5, <2>6 DEF CacheInv
<1>2. CASE HookBegins  BY <1>2, ReadKeeps DEF HookBegins
<1>3. CASE SyncStep  BY <1>3, SyncReadKeeps, SyncCheckKeeps, SyncWriteKeeps DEF SyncStep
<1>. QED  BY <1>1, <1>2, <1>3, ShopifyKeeps, LossKeeps, WriteKeeps, PeriodKeeps
          DEF SubscriptionNext

LEMMA AgreesAtRest == CacheInv => CacheIsTrue
<1>. SUFFICES ASSUME CacheInv, ClearOf(Troubles \ {"undated"})
              PROVE  /\ NothingUnderWay => effectivePlan(cache) = Truth
                     /\ clocks <= freezes
     BY DEF CacheIsTrue
<1>1. LiveCached /\ CachedLives /\ Counted  BY DEF CacheInv, InOrder
<1>2. clocks <= freezes
      <2>1. Cardinality(FrozenDue) \in Nat  BY AloneFinite, FS_CardinalityType
      <2>. QED  BY <1>1, <2>1 DEF Counted, CacheInv, CacheTypes
<1>3. ASSUME NothingUnderWay PROVE effectivePlan(cache) = Truth
      <2>1. Due = {}  BY <1>3 DEF NothingUnderWay, Due, Writing
      <2>2. CASE LiveSubs = {}  BY <1>1, <2>1, <2>2 DEF CachedLives, Truth
      <2>3. CASE LiveSubs # {}
            <3>1. PICK s \in LiveSubs : TRUE  BY <2>3
            <3>2. s \in Sub /\ subs[s] \in {"ACTIVE", "FROZEN"}  BY <3>1 DEF LiveSubs
            <3>3. cache.plan = s /\ cache.status = mapStatus(subs[s])
                  BY <1>1, <2>1, <3>1 DEF LiveCached
            <3>4. effectivePlan(cache) = s
                  <4>1. subs[s] \in SubscriptionStatus  BY <3>2 DEF SubscriptionStatus
                  <4>2. mapStatus(subs[s]) \in {"ACTIVE", "PAST_DUE"}  BY <3>2, <4>1, Mapped
                  <4>. QED  BY <3>3, <4>2 DEF effectivePlan
            <3>5. readSubscriptions(LiveSubs) = s
                  BY <2>3, <3>1, ReadsLive DEF CacheInv, OneLive
            <3>. QED  BY <2>3, <3>4, <3>5 DEF Truth
      <2>. QED  BY <2>2, <2>3
<1>. QED  BY <1>2, <1>3

LEMMA NobodyCutOff ==
    CacheInv /\ [SubscriptionNext]_subscriptionVars => NotCutOff
<1>. SUFFICES ASSUME CacheInv, [SubscriptionNext]_subscriptionVars,
                     ClearOf({"late", "overlapped", "crossed"}),
                     cache.plan \in LiveSubs, cache.period # "over"
              PROVE  cache'.plan # 0
     BY DEF NotCutOff
<1>1. /\ cache.plan \in Sub /\ cache.plan # 0
      /\ subs[cache.plan] \in {"ACTIVE", "FROZEN"} /\ cache.plan = cache.id
      BY SubscriptionAssumption DEF LiveSubs, Sub, CacheInv, RowSo
<1>2. ClearOf({"overlapped", "crossed"})  BY DEF ClearOf
<1>3. ASSUME NEW h \in Hook, HookWrites(h) PROVE cache'.plan # 0
      <2>. DEFINE m == hooks[h].m
                  existing == hooks[h].existing
      <2>1. Writing(h)  BY <1>3 DEF HookWrites, Writing
      <2>2. m \in Due /\ m \in Delivery /\ m.id \in Sub /\ m.id # 0
            /\ m.status \in SubscriptionStatus /\ DueSo(m)
            BY <2>1, DueTyped, SubscriptionAssumption DEF CacheInv, Sub
      <2>3. Agrees(existing) /\ ~isStale(m, existing)  BY <1>2, <2>1 DEF CacheInv, Apart
      <2>4. cache'.plan = IF mapStatus(m.status) = "CANCELLED" THEN 0 ELSE m.id
            BY <1>3 DEF HookWrites, CacheWritten
      <2>5. mapStatus(m.status) # "CANCELLED"
            <3>. SUFFICES ASSUME terminal(m.status) PROVE FALSE  BY <2>2, Mapped
            <3>1. existing.id = cache.plan  BY <1>1, <2>3 DEF Agrees
            <3>2. m.id = cache.plan  BY <1>1, <2>3, <3>1 DEF isStale
            <3>. QED  BY <1>1, <2>2, <3>2 DEF DueSo, terminal
      <2>. QED  BY <2>2, <2>4, <2>5
<1>4. CASE SyncWrites
      <2>1. page.at = "write"  BY <1>4 DEF SyncWrites
      <2>2. Agrees(page.previous)  BY <1>2, <2>1 DEF CacheInv, Apart
      <2>3. page.known => page.snapshot.plan # 0  BY <2>1 DEF CacheInv, PageSo
      <2>4. ~mayActOn(page.previous)  BY <1>1, <2>2 DEF mayActOn, Agrees
      <2>5. CASE page.known
            <3>1. cache'.plan = page.snapshot.plan
                  BY <1>4, <2>5 DEF SyncWrites, CacheWritten
            <3>. QED  BY <2>3, <2>5, <3>1
      <2>6. CASE ~page.known  BY <1>1, <1>4, <2>4, <2>6 DEF SyncWrites, cacheVars
      <2>. QED  BY <2>5, <2>6
<1>5. CASE PeriodEnds
      <2>1. cache \in CacheRow  BY DEF CacheInv, CacheTypes
      <2>. QED  BY <1>1, <1>5, <2>1 DEF PeriodEnds, CacheRow
<1>6. CASE UNCHANGED cache  BY <1>1, <1>6
<1>7. ShopifyTurns => UNCHANGED cache
      BY DEF ShopifyTurns, Requested, AnsweredByMerchant, Charged, Turned, cacheVars
<1>8. HookBegins => UNCHANGED cache  BY DEF HookBegins, HookReads, cacheVars
<1>9. SyncReads \/ SyncChecks => UNCHANGED cache  BY DEF SyncReads, SyncChecks, cacheVars
<1>10. (\E m \in posted : DeliveryLost(m)) => UNCHANGED cache  BY DEF DeliveryLost, cacheVars
<1>11. UNCHANGED subscriptionVars => UNCHANGED cache  BY DEF subscriptionVars, cacheVars
<1>. QED  BY <1>3, <1>4, <1>5, <1>6, <1>7, <1>8, <1>9, <1>10, <1>11
          DEF SubscriptionNext, SyncStep

LEMMA CacheIsKept == SubscriptionSpec => []CacheInv
BY CacheStarts, CacheKeeps, PTL DEF SubscriptionSpec

(***************************************************************************)
(* The state has its types, for any number of subscriptions, changes in    *)
(* Shopify, webhook requests and misfortunes.                              *)
(***************************************************************************)
THEOREM CacheTypesHold == SubscriptionSpec => []SubscriptionTypeOK
<1>1. CacheInv => SubscriptionTypeOK
      <2>. SUFFICES ASSUME CacheTypes PROVE SubscriptionTypeOK  BY DEF CacheInv
      <2>1. \A h \in Hook : hooks[h].at \in {"idle", "write"}
            BY DEF CacheTypes, Stopped
      <2>2. page.at \in {"idle", "check", "write"}  BY DEF CacheTypes, Stopped
      <2>. QED  BY <2>1, <2>2 DEF CacheTypes, SubscriptionTypeOK, Delivery, CacheRow, RowStatus
<1>. QED  BY <1>1, CacheIsKept, PTL

(***************************************************************************)
(* A merchant who pays, for a period not known to be over, is not dropped  *)
(* to Free by an answer or a delivery about something else, where no       *)
(* delivery is late, overlaps another or crosses a page view's check. And  *)
(* where Shopify hides and loses nothing either, the row agrees with it    *)
(* whenever nothing is under way, with no more periods of grace than       *)
(* charges that failed.                                                    *)
(***************************************************************************)
THEOREM PayingIsNeverCutOff == SubscriptionSpec => NeverCutOff
<1>1. CacheInv /\ CacheInv' /\ [SubscriptionNext]_subscriptionVars
        => [NotCutOff /\ CacheIsTrue']_subscriptionVars
      <2>1. CacheInv' => CacheIsTrue'  BY AgreesAtRest, PTL
      <2>. QED  BY <2>1, NobodyCutOff
<1>. QED  BY <1>1, CacheIsKept, PTL DEF SubscriptionSpec, NeverCutOff

-----------------------------------------------------------------------------
(* Each part is a behaviour of its component                               *)

LEMMA LiveHasParts ==
    LiveSpec => /\ Spec /\ LifeSpec /\ ReconcileSpec /\ SubscriptionSpec
                /\ ApplicationsSpec /\ JobChainsSpec
<1>1. LiveInit => /\ Init /\ LifeInit /\ ReconcileInit /\ SubscriptionInit
                  /\ ApplicationsInit /\ JobChainsInit
      BY DEF LiveInit
<1>2. [LiveNext]_LiveVars =>
         /\ [Next]_vars /\ [LifeNext]_lifeVars /\ [ReconcileNext]_reconcileVars
         /\ [SubscriptionNext]_subscriptionVars /\ [ApplicationsNext]_applicationsVars
         /\ [JobChainsNext]_jobChainVars
      BY DEF LiveNext, LiveVars, DispatchMoves, ShopMoves, ReconcileMoves,
             SubscriptionMoves, ApplicationsMove, ChainsMove
<1>. QED  BY <1>1, <1>2, PTL DEF LiveSpec, Spec, LifeSpec, ReconcileSpec,
               SubscriptionSpec, ApplicationsSpec, JobChainsSpec

\* Whatever part moves, its rows, its queues and the requests and runners at
\* work on it keep their types, and whoever is fair to whom.
THEOREM LiveTypesHold == LiveSpec => []LiveTypesOK
<1>1. LiveSpec => []TypeOK  BY LiveHasParts, TypeCorrect, PTL
<1>2. LiveSpec => []LifeTypeOK
      <2>1. LifeTypeOK /\ Unanswered => LifeTypeOK  OBVIOUS
      <2>. QED  BY <2>1, LiveHasParts, LifeTypesHold, PTL
<1>3. LiveSpec => []ReconcileTypeOK  BY LiveHasParts, ReconcileTypesHold, PTL
<1>4. LiveSpec => []SubscriptionTypeOK  BY LiveHasParts, CacheTypesHold, PTL
<1>5. LiveSpec => []ApplicationsTypeOK  BY LiveHasParts, ApplicationTypesHold, PTL
<1>6. LiveSpec => []JobChainsTypeOK  BY LiveHasParts, ChainTypesHold, PTL
<1>7. /\ TypeOK /\ LifeTypeOK /\ ReconcileTypeOK /\ SubscriptionTypeOK
      /\ ApplicationsTypeOK /\ JobChainsTypeOK
      => LiveTypesOK
      BY DEF LiveTypesOK
<1>. QED  BY <1>1, <1>2, <1>3, <1>4, <1>5, <1>6, <1>7, PTL
=============================================================================
