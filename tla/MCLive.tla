------------------------------- MODULE MCLive -------------------------------
(***************************************************************************)
(* What must come to an end whatever is late, lost or dies on the way, in  *)
(* one run: `part` says which of the components moves in a behaviour, the  *)
(* others stay where they begin, and fairness is that part's own.  There   *)
(* is no symmetry: TLC's liveness checking is unsound with it.             *)
(***************************************************************************)
EXTENDS WebhookDispatch, ShopLifecycle, PlanReconcile, SubscriptionCache,
        Applications, JobChains

CONSTANTS w1, w2, SweepRows, PurgeRows

MCWebhook    == {w1, w2}
MCSubscribed == {w1}

MCSweepRow  == 1 .. SweepRows
MCPurgeRow  == 1 .. PurgeRows
MCSchedules == {{}, {"grace", "midsweep", "retry"}}

MCSkies == {{"undated"}, {"hidden", "lost", "undated"}, {"late", "overlapped"},
            {"crossed", "lost"}}
MCGusts == {{}}
MCOdds  == {{"killed"}}

VARIABLE part

LiveVars == <<part, vars, lifeVars, reconcileVars, subscriptionVars,
              applicationsVars, jobChainVars>>

(* One way to begin for a part that will not move                          *)
OneBeginning ==
    /\ part # "reconcile" => schedule = {}
    /\ part # "subscription" => skies = {"undated"}
    /\ part # "applications" => shopper.exists

LiveInit ==
    /\ part \in {"dispatch", "shop", "reconcile", "subscription", "applications",
                 "chains"}
    /\ Init /\ LifeInit /\ ReconcileInit /\ SubscriptionInit
    /\ ApplicationsInit /\ JobChainsInit
    /\ OneBeginning

DispatchMoves ==
    /\ part = "dispatch" /\ Next
    /\ UNCHANGED <<part, lifeVars, reconcileVars, subscriptionVars,
                   applicationsVars, jobChainVars>>

ShopMoves ==
    /\ part = "shop" /\ LifeNext
    /\ UNCHANGED <<part, vars, reconcileVars, subscriptionVars, applicationsVars,
                   jobChainVars>>

ReconcileMoves ==
    /\ part = "reconcile" /\ ReconcileNext
    /\ UNCHANGED <<part, vars, lifeVars, subscriptionVars, applicationsVars,
                   jobChainVars>>

SubscriptionMoves ==
    /\ part = "subscription" /\ SubscriptionNext
    /\ UNCHANGED <<part, vars, lifeVars, reconcileVars, applicationsVars,
                   jobChainVars>>

ApplicationsMove ==
    /\ part = "applications" /\ ApplicationsNext
    /\ UNCHANGED <<part, vars, lifeVars, reconcileVars, subscriptionVars,
                   jobChainVars>>

ChainsMove ==
    /\ part = "chains" /\ JobChainsNext
    /\ UNCHANGED <<part, vars, lifeVars, reconcileVars, subscriptionVars,
                   applicationsVars>>

LiveNext ==
    \/ DispatchMoves \/ ShopMoves \/ ReconcileMoves \/ SubscriptionMoves
    \/ ApplicationsMove \/ ChainsMove

(* Each part's own Fairness, asked only where that part moves.              *)
If(p, step) == part = p /\ step

LiveFairness ==
    /\ \A q \in Request : WF_vars(If("dispatch", RequestStep(q)))
    /\ \A w \in Webhook :
          WF_vars(If("dispatch", \E q \in Request : Receive(q, w)))
    /\ WF_lifeVars(If("shop", SendRedact)) /\ WF_lifeVars(If("shop", Tombstone))
    /\ WF_lifeVars(If("shop", RedactStep)) /\ WF_lifeVars(If("shop", PageViewStep))
    /\ WF_lifeVars(If("shop", lateOrder /\ OrderMirrored))
    /\ \A t \in Topic : WF_lifeVars(If("shop", HookStep(t)))
    /\ \A j \in PurgeRow :
          /\ WF_lifeVars(If("shop", BecomesDue(j)))
          /\ WF_lifeVars(If("shop", RequeuePurge(j)))
    /\ \A r \in Purger :
          /\ WF_lifeVars(If("shop", PurgeStep(r)))
          /\ WF_lifeVars(If("shop", \E j \in PurgeRow : ClaimPurge(r, j)))
    /\ WF_reconcileVars(If("reconcile", WriterStep))
    /\ \A r \in Sweeper :
          /\ WF_reconcileVars(If("reconcile", SweepStep(r)))
          /\ WF_reconcileVars(If("reconcile", \E j \in SweepRow : ClaimSweep(r, j)))
    /\ \A j \in SweepRow : WF_reconcileVars(If("reconcile", RequeueSweep(j)))
    /\ WF_subscriptionVars(If("subscription", HookBegins))
    /\ WF_subscriptionVars(If("subscription", SyncStep))
    /\ WF_subscriptionVars(If("subscription", PeriodEnds))
    /\ \A h \in Hook : WF_subscriptionVars(If("subscription", HookWrites(h)))
    /\ \A v \in Visitor : WF_applicationsVars(If("applications", Submits(v)))
    /\ WF_applicationsVars(If("applications", JobReads("screen")))
    /\ WF_applicationsVars(If("applications", screenApplications))
    /\ WF_jobChainVars(If("chains", ViewStep))
    /\ \A s \in Slot : WF_jobChainVars(If("chains", requeueStuck(s)))
    /\ \A k \in Worker :
          /\ WF_jobChainVars(If("chains", WorkerStep(k)))
          /\ WF_jobChainVars(If("chains", \E s \in Slot : Claim(k, s)))

LiveSpec == LiveInit /\ [][LiveNext]_LiveVars /\ LiveFairness

-----------------------------------------------------------------------------
(* The types of every part.                                                *)
LiveTypesOK ==
    /\ TypeOK /\ LifeTypeOK /\ ReconcileTypeOK /\ SubscriptionTypeOK
    /\ ApplicationsTypeOK /\ JobChainsTypeOK

(* Everything Shopify owes is answered in the end (dispatch.server.ts).    *)
EveryDeliveryAnswered == <>[](part = "dispatch" => owed = {})

(* Once a merchant is gone for good their data is purged in the end, and   *)
(* the shop's tombstone stays (app-uninstalled, shop-redact, purge).       *)
GoneForGood == GoneIsPurged /\ GoneStaysGone
=============================================================================
