------------------------------- MODULE MCDesk -------------------------------
(***************************************************************************)
(* What the merchant's staff work on, checked in one run: `part` says      *)
(* which of the components moves in a behaviour, and the others stay where *)
(* they begin.  The components share no state that these modules model, so *)
(* nothing is lost by keeping them apart, and each is explored in full.    *)
(* The same two actors and two things serve all of them: TLC's symmetry    *)
(* then has four permutations and not thousands.                           *)
(***************************************************************************)
EXTENDS OrderLedger, RulesetPublish, Applications, JobChains, PlanGate,
        Customers, LimitsPublish, BuyerAgent, Redaction, EngineCases, ReportCases,
        TLC

CONSTANTS ann, bob, third, this, that

VARIABLE part

Actors == {ann, bob}
Things == {this, that}

MCCaller == {ann, bob, third}

(* Misfortunes: those a component has to stand alone, or that together     *)
(* make a case of their own.                                               *)
MCWeathers == {{"reordered"}, {"killed", "doubled"}, {"backfilled"}, {"overlapped"}}
MCLucks    == {{}, {"refused"}, {"killed", "unanswered"}}
MCGusts    == {{}, {"killed"}, {"refused"}}
MCOdds     == {{"uninstalled"}, {"failing", "killed"}, {"abandoned"}}
MCClimates == {{}, {"refused", "redacted"}, {"overlapped", "reordered"}}
MCStrains  == {{}, {"refused"}, {"killed"}, {"overlapped"}}
MCScenes   == {{"tuned"}, {"live", "overlapped"}, {"live", "person"},
               {"live", "paused"}, {"live", "tuned", "lost"}}

MCAmounts == {-1, 1}

(* A buyer with an account, and one who only ever applied.                 *)
MCTraces ==
    {{Piece("customer", {"id", "email"}, "none"),
      Piece("application", {"id", "EMAIL"}, "none"),
      Piece("upload", {}, "application"), Piece("message", {}, "application"),
      Piece("message", {"EMAIL"}, "none"), Piece("conversation", {"id"}, "none"),
      Piece("order", {"id", "email"}, "none"), Piece("quote", {"email"}, "none"),
      Piece("about", {}, "application"), Piece("about", {}, "customer"),
      Piece("about", {}, "account"), Piece("actor", {"id"}, "none"),
      Piece("words", {"EMAIL"}, "none"), Piece("data", {"email"}, "none"),
      Piece("data", {"EMAIL"}, "none"), Piece("review", {"id"}, "none"),
      Piece("review", {"email"}, "none")},
     {Piece("application", {"email"}, "none"), Piece("upload", {}, "application"),
      Piece("message", {}, "application"), Piece("about", {}, "application"),
      Piece("actor", {"EMAIL"}, "none"), Piece("words", {"email"}, "none")}}
MCPersons == {{"id", "email"}, {"id"}, {"email"}}

MCPlan    == {"free", "pro"}
MCAllowed ==
    [p \in MCPlan |-> [k \in {"rules"} |-> IF p = "free" THEN 1 ELSE NoLimit]]

(* A part that will not move has one way to begin.                         *)
DeskInit ==
    /\ part \in {"ledger", "rules", "applications", "chains", "gate", "customers",
                 "limits", "talk", "forgetting", "engines", "reports"}
    /\ LedgerInit
    /\ part # "ledger" =>
         /\ weather = CHOOSE w \in Weathers : TRUE
         /\ buyer.wholesale
    (* Thirty days and sixty are alike to the ledger; the buyer may change. *)
    /\ buyer.days = CHOOSE d \in Days : TRUE
    /\ RulesetInit
    /\ part # "rules" => luck = CHOOSE l \in Lucks : TRUE
    /\ ApplicationsInit
    /\ part # "applications" => gusts = {} /\ shopper.exists
    /\ JobChainsInit
    /\ part # "chains" => chain = "audit.purge" /\ odds = {"abandoned"}
    /\ GateInit
    /\ part # "gate" => plan = "free"
    /\ CustomersInit
    /\ part # "customers" => climate = {}
    /\ LimitsInit
    /\ part # "limits" => strain = {}
    /\ BuyerAgentInit
    /\ part # "talk" => scene = {"live", "person"}
    /\ RedactionInit
    /\ part # "forgetting" =>
         /\ \A p \in Traces : Cardinality(trace) <= Cardinality(p)
         /\ person = {"id"}
    /\ EnginesInit
    /\ ReportsInit

DeskVars == <<part, ledgerState, rulesetVars, applicationsVars, jobChainVars,
              gateVars, customersVars, limitsVars, agentVars, redactionVars,
                   question, inquiry>>

LedgerMoves ==
    /\ part = "ledger" /\ LedgerNext
    /\ UNCHANGED <<part, rulesetVars, applicationsVars, jobChainVars, gateVars,
                   customersVars, limitsVars, agentVars, redactionVars,
                   question, inquiry>>

RulesetMoves ==
    /\ part = "rules" /\ RulesetNext
    /\ UNCHANGED <<part, ledgerState, applicationsVars, jobChainVars, gateVars,
                   customersVars, limitsVars, agentVars, redactionVars,
                   question, inquiry>>

ApplicationsMove ==
    /\ part = "applications" /\ ApplicationsNext
    /\ UNCHANGED <<part, ledgerState, rulesetVars, jobChainVars, gateVars,
                   customersVars, limitsVars, agentVars, redactionVars,
                   question, inquiry>>

ChainsMove ==
    /\ part = "chains" /\ JobChainsNext
    /\ UNCHANGED <<part, ledgerState, rulesetVars, applicationsVars, gateVars,
                   customersVars, limitsVars, agentVars, redactionVars,
                   question, inquiry>>

GateMoves ==
    /\ part = "gate" /\ GateNext
    /\ UNCHANGED <<part, ledgerState, rulesetVars, applicationsVars, jobChainVars,
                   customersVars, limitsVars, agentVars, redactionVars,
                   question, inquiry>>

CustomersMove ==
    /\ part = "customers" /\ CustomersNext
    /\ UNCHANGED <<part, ledgerState, rulesetVars, applicationsVars, jobChainVars,
                   gateVars, limitsVars, agentVars, redactionVars,
                   question, inquiry>>

LimitsMove ==
    /\ part = "limits" /\ LimitsNext
    /\ UNCHANGED <<part, ledgerState, rulesetVars, applicationsVars, jobChainVars,
                   gateVars, customersVars, agentVars, redactionVars, question, inquiry>>

AgentTalks ==
    /\ part = "talk" /\ BuyerAgentNext
    /\ UNCHANGED <<part, ledgerState, rulesetVars, applicationsVars, jobChainVars,
                   gateVars, customersVars, limitsVars, redactionVars, question, inquiry>>

BuyerIsForgotten ==
    /\ part = "forgetting" /\ RedactionNext
    /\ UNCHANGED <<part, ledgerState, rulesetVars, applicationsVars, jobChainVars,
                   gateVars, customersVars, limitsVars, agentVars, question, inquiry>>

EnginesAnswer ==
    /\ part = "engines" /\ EnginesNext
    /\ UNCHANGED <<part, ledgerState, rulesetVars, applicationsVars, jobChainVars,
                   gateVars, customersVars, limitsVars, agentVars, redactionVars,
                   inquiry>>

ReportsAnswer ==
    /\ part = "reports" /\ ReportsNext
    /\ UNCHANGED <<part, ledgerState, rulesetVars, applicationsVars, jobChainVars,
                   gateVars, customersVars, limitsVars, agentVars, redactionVars,
                   question>>

DeskNext ==
    \/ LedgerMoves \/ RulesetMoves \/ ApplicationsMove \/ ChainsMove
    \/ GateMoves \/ CustomersMove \/ LimitsMove \/ AgentTalks
    \/ BuyerIsForgotten \/ EnginesAnswer \/ ReportsAnswer

DeskSpec == DeskInit /\ [][DeskNext]_DeskVars

Alike == Permutations(Actors) \cup Permutations(Things)

(* The types of the part that moves.                                       *)
DeskTypesOK ==
    /\ part = "ledger" => LedgerTypeOK
    /\ part = "rules" => RulesetTypeOK
    /\ part = "applications" => ApplicationsTypeOK
    /\ part = "chains" => JobChainsTypeOK
    /\ part = "gate" => GateTypeOK
    /\ part = "customers" => CustomersTypeOK
    /\ part = "limits" => LimitsTypeOK
    /\ part = "talk" => BuyerAgentTypeOK
    /\ part = "forgetting" => RedactionTypeOK

(* What checkout was last told, of rules and of limits, is what the        *)
(* merchant was told it is.                                                *)
CheckoutIsTold == CheckoutAgrees /\ LimitsAgree
=============================================================================
