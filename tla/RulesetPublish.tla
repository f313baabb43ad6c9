---------------------------- MODULE RulesetPublish ----------------------------
(***************************************************************************)
(* The pricing rules of one shop and what checkout prices with: the        *)
(* merchant's operations of app/lib/pricing/rules.server.ts, the CSV       *)
(* import and its undo (pricing/csv/import.server.ts), pause and resume    *)
(* (app/lib/settings/pause.server.ts), all of which end in publishing to   *)
(* the discount's metafield (pricing/ruleset.server.ts).                   *)
(*                                                                         *)
(* An operation reads, writes, and then publishes: reads what is live,     *)
(* holds its hash against the last one published, makes the discount if    *)
(* there is none, sets the metafield, and keeps the hash.  `luck` fixes    *)
(* what can go wrong in a behaviour.  What a rule says is a price; its     *)
(* place in the order, validation, the combination settings and the        *)
(* plan's quota, which PlanGate and PlanReconcile have, are left out.      *)
(***************************************************************************)
EXTENDS Naturals, Sequences, FiniteSets

CONSTANTS
    Rule,           \* ids of rules
    Price,
    Editor,         \* requests of the merchant's staff
    Lucks,          \* the sets of mishaps to consider
    MaxEdits        \* bound: operations begun

Mishaps == {"overlapped",   \* two requests are served at once
            "killed",       \* a request is killed between two steps
            "refused",      \* a read or a call fails, having done nothing
            "unanswered"}   \* what was asked is done, and the request throws:
                            \* an answer is lost, a write of its own fails

ASSUME RulesetAssumption ==
    MaxEdits \in Nat /\ Lucks \subseteq SUBSET Mishaps /\ IsFiniteSet(Rule)

VARIABLES
    luck,
    rules,      \* the rows: status, price and version of each
    imported,   \* createdRuleIds of the import, while it can be undone
    flag,       \* Shop.pausedAt
    silenced,   \* Shop.pausePublishedAt
    hash,       \* Shop.rulesetHash: <<the ruleset it is of>>, or << >>
    discountId, \* 0 is none
    discounts,  \* Shopify: the ruleset each discount carries
    editing,    \* where each request is
    begun

rowVars     == <<rules, imported>>
pauseVars   == <<flag, silenced>>
publishVars == <<hash, discountId, discounts>>
rulesetVars == <<luck, rowVars, pauseVars, publishVars, editing, begun>>

NoRule == [status |-> "NONE", price |-> 0, version |-> 0]

AtDesk == [at |-> "idle"]

-----------------------------------------------------------------------------
(* activeEngineRules: what would be published now                          *)

Ruleset == SUBSET (Rule \X Price)

rulesWhateverThePause ==     \* mutant: a pause is left out of what is published
    {<<r, rules[r].price>> : r \in {q \in Rule : rules[q].status = "ACTIVE"}}

activeEngineRules ==
    IF flag THEN {}
    ELSE {<<r, rules[r].price>> : r \in {q \in Rule : rules[q].status = "ACTIVE"}}

-----------------------------------------------------------------------------
(* A request begins by reading what it is about                            *)

EditAsked(p, kind, more) ==
    /\ editing[p].at = "idle"
    /\ "overlapped" \notin luck => \A q \in Editor : editing[q].at = "idle"
    /\ begun < MaxEdits
    /\ begun' = begun + 1
    /\ editing' = [editing EXCEPT ![p] =
            [at |-> "write", kind |-> kind, read |-> more, flag |-> flag,
             silenced |-> silenced, ruleset |-> {}, existing |-> discountId]]
    /\ UNCHANGED <<luck, rowVars, pauseVars, publishVars>>

RowOf(r, row) == [rule |-> r, row |-> row]

EditRule(p) ==
    \E r \in Rule :
        /\ rules[r].status \notin {"NONE", "GONE"}
        /\ \/ EditAsked(p, "update", RowOf(r, rules[r]))
           \/ rules[r].status # "ARCHIVED" /\ EditAsked(p, "archive", RowOf(r, rules[r]))
           \/ rules[r].status = "ARCHIVED" /\ EditAsked(p, "restore", RowOf(r, rules[r]))
           \/ rules[r].status = "ARCHIVED" /\ EditAsked(p, "delete", RowOf(r, rules[r]))

EditAtLarge(p) ==
    \E kind \in {"create", "import", "reorder", "pause", "resume"} :
        EditAsked(p, kind, RowOf({}, NoRule))

EditUndo(p) == imported # {} /\ EditAsked(p, "undo", imported)

(* ... and goes on to write, then to publish or be done                    *)
EditGoes(p, to) == editing' = [editing EXCEPT ![p].at = to]

EditDone(p) == editing' = [editing EXCEPT ![p] = AtDesk]

EditThen(p, live) == IF live THEN EditGoes(p, "read") ELSE EditDone(p)

Writing(p, kind) == editing[p].at = "write" /\ editing[p].kind = kind

createRule(p) ==
    /\ Writing(p, "create")
    /\ \E r \in Rule, price \in Price, status \in {"ACTIVE", "DRAFT"} :
         /\ rules[r].status = "NONE"
         /\ rules' = [rules EXCEPT ![r] =
                        [status |-> status, price |-> price, version |-> 1]]
         /\ EditThen(p, status = "ACTIVE")
    /\ UNCHANGED <<luck, imported, pauseVars, publishVars, begun>>

updateRuleQuietly(p) ==     \* mutant: only an active rule is published
    /\ Writing(p, "update")
    /\ LET r == editing[p].read.rule  current == editing[p].read.row IN
       IF rules[r].version # current.version \/ rules[r].status = "GONE"
         THEN EditDone(p) /\ UNCHANGED rules
         ELSE \E price \in Price, status \in {"ACTIVE", "DRAFT"} :
                /\ rules' = [rules EXCEPT ![r] = [status |-> status, price |-> price,
                                                  version |-> @.version + 1]]
                /\ EditThen(p, status = "ACTIVE")
    /\ UNCHANGED <<luck, imported, pauseVars, publishVars, begun>>

(* the version that was read and the write are one statement               *)
updateRule(p) ==
    /\ Writing(p, "update")
    /\ LET r == editing[p].read.rule  current == editing[p].read.row IN
       IF rules[r].version # current.version \/ rules[r].status = "GONE"
         THEN EditDone(p) /\ UNCHANGED rules
         ELSE \E price \in Price, status \in {"ACTIVE", "DRAFT"} :
                /\ rules' = [rules EXCEPT ![r] = [status |-> status, price |-> price,
                                                  version |-> @.version + 1]]
                /\ EditThen(p, "ACTIVE" \in {status, current.status})
    /\ UNCHANGED <<luck, imported, pauseVars, publishVars, begun>>

MoveTo(p, status) ==
    LET r == editing[p].read.rule
    IN  IF rules[r].status = "GONE" THEN UNCHANGED rules
        ELSE rules' = [rules EXCEPT ![r].status = status, ![r].version = @ + 1]

archiveRule(p) ==
    /\ Writing(p, "archive")
    /\ MoveTo(p, "ARCHIVED")
    /\ EditThen(p, /\ editing[p].read.row.status = "ACTIVE"
                   /\ rules[editing[p].read.rule].status # "GONE")
    /\ UNCHANGED <<luck, imported, pauseVars, publishVars, begun>>

restoreRule(p) ==
    /\ Writing(p, "restore")
    /\ MoveTo(p, "DRAFT")
    /\ EditDone(p)
    /\ UNCHANGED <<luck, imported, pauseVars, publishVars, begun>>

(* asked of an archived rule; what it is by now is not asked again         *)
deleteRule(p) ==
    /\ Writing(p, "delete")
    /\ rules' = [rules EXCEPT ![editing[p].read.rule].status = "GONE"]
    /\ EditDone(p)
    /\ UNCHANGED <<luck, imported, pauseVars, publishVars, begun>>

reorderRules(p) ==
    /\ Writing(p, "reorder")
    /\ EditGoes(p, "read")
    /\ UNCHANGED <<luck, rowVars, pauseVars, publishVars, begun>>

runImport(p) ==
    /\ Writing(p, "import")
    /\ imported = {}
    /\ \E some \in (SUBSET {r \in Rule : rules[r].status = "NONE"}) \ {{}},
          price \in Price, status \in {"ACTIVE", "DRAFT"} :
         /\ rules' = [r \in Rule |-> IF r \in some
                        THEN [status |-> status, price |-> price, version |-> 1]
                        ELSE rules[r]]
         /\ imported' = some
         /\ EditThen(p, status = "ACTIVE")
    /\ UNCHANGED <<luck, pauseVars, publishVars, begun>>

(* by the ids the import created, whatever became of them                  *)
undoImport(p) ==
    /\ Writing(p, "undo")
    /\ rules' = [r \in Rule |-> IF r \in editing[p].read
                             THEN [rules[r] EXCEPT !.status = "GONE"] ELSE rules[r]]
    /\ imported' = {}
    /\ EditGoes(p, "read")
    /\ UNCHANGED <<luck, pauseVars, publishVars, begun>>

-----------------------------------------------------------------------------
(* pause.server.ts.  A pause already on record is only published again     *)

pauseApp(p) ==
    /\ Writing(p, "pause")
    /\ IF editing[p].flag THEN UNCHANGED pauseVars
                        ELSE flag' = TRUE /\ silenced' = FALSE
    /\ EditGoes(p, IF editing[p].existing = 0 THEN "silence" ELSE "read")
    /\ UNCHANGED <<luck, rowVars, publishVars, begun>>

PauseStamped(p) ==
    /\ editing[p].at = "silence"
    /\ silenced' = TRUE
    /\ EditDone(p)
    /\ UNCHANGED <<luck, rowVars, flag, publishVars, begun>>

resumeApp(p) ==
    /\ Writing(p, "resume")
    /\ IF editing[p].flag THEN flag' = FALSE /\ silenced' = FALSE ELSE UNCHANGED pauseVars
    /\ IF ~editing[p].flag THEN EditDone(p)
       ELSE EditGoes(p, IF editing[p].existing # 0 THEN "read" ELSE "tell")
    /\ UNCHANGED <<luck, rowVars, publishVars, begun>>

(* the entry in the audit log, inside resume's try like its publish        *)
ResumeTold(p) ==
    /\ editing[p].at = "tell"
    /\ EditDone(p)
    /\ UNCHANGED <<luck, rowVars, pauseVars, publishVars, begun>>

(* Publishing throws, before what a step asks is done or after; whichever  *)
(* it was, a resume puts the pause back                                    *)
PublishThrows(p) ==
    /\ \/ "refused" \in luck /\ editing[p].at \in {"read", "compare", "create", "set"}
       \/ "unanswered" \in luck /\ editing[p].at \in {"keep", "stamp", "tell", "silence"}
    /\ IF editing[p].kind = "resume"
         THEN flag' = TRUE /\ silenced' = editing[p].silenced
         ELSE UNCHANGED pauseVars
    /\ EditDone(p)
    /\ UNCHANGED <<luck, rowVars, publishVars, begun>>

EditKilled(p) ==
    /\ "killed" \in luck /\ editing[p].at # "idle"
    /\ EditDone(p)
    /\ UNCHANGED <<luck, rowVars, pauseVars, publishVars, begun>>

-----------------------------------------------------------------------------
(* republish and publishRuleset                                            *)

RulesRead(p) ==
    /\ editing[p].at = "read"
    /\ editing' = [editing EXCEPT ![p].at = "compare", ![p].ruleset = activeEngineRules]
    /\ UNCHANGED <<luck, rowVars, pauseVars, publishVars, begun>>

(* After publishing: a pause stamps that it reached checkout               *)
PublishDone(p) ==
    CASE editing[p].kind = "pause"  -> EditGoes(p, "silence")
      [] editing[p].kind = "resume" -> EditGoes(p, "tell")
      [] OTHER                      -> EditDone(p)

HashCompared(p) ==
    /\ editing[p].at = "compare"
    /\ IF hash = <<editing[p].ruleset>> /\ discountId # 0
         THEN PublishDone(p)
         ELSE editing' = [editing EXCEPT ![p].existing = discountId,
                            ![p].at = IF discountId = 0 THEN "create" ELSE "set"]
    /\ UNCHANGED <<luck, rowVars, pauseVars, publishVars, begun>>

ensureDiscount(p) ==
    /\ editing[p].at = "create"
    /\ discounts' = Append(discounts, editing[p].ruleset)
    /\ editing' = [editing EXCEPT ![p].at = "keep", ![p].existing = Len(discounts')]
    /\ UNCHANGED <<luck, rowVars, pauseVars, hash, discountId, begun>>

DiscountForgotten(p) ==     \* mutant: the shop's row does not name the discount
    /\ editing[p].at = "keep"
    /\ EditGoes(p, "set")
    /\ UNCHANGED <<luck, rowVars, pauseVars, publishVars, begun>>

DiscountKept(p) ==
    /\ editing[p].at = "keep"
    /\ discountId' = editing[p].existing
    /\ EditGoes(p, "set")
    /\ UNCHANGED <<luck, rowVars, pauseVars, hash, discounts, begun>>

metafieldsSet(p) ==
    /\ editing[p].at = "set"
    /\ discounts' = [discounts EXCEPT ![editing[p].existing] = editing[p].ruleset]
    /\ EditGoes(p, "stamp")
    /\ UNCHANGED <<luck, rowVars, pauseVars, hash, discountId, begun>>

HashKept(p) ==
    /\ editing[p].at = "stamp"
    /\ hash' = <<editing[p].ruleset>>
    /\ PublishDone(p)
    /\ UNCHANGED <<luck, rowVars, pauseVars, discountId, discounts, begun>>

-----------------------------------------------------------------------------
RulesetInit ==
    /\ luck \in Lucks
    /\ rules = [r \in Rule |-> NoRule]
    /\ imported = {}
    /\ flag = FALSE /\ silenced = FALSE
    /\ hash = << >>
    /\ discountId = 0
    /\ discounts = << >>
    /\ editing = [p \in Editor |-> AtDesk]
    /\ begun = 0

EditWrites(p) ==
    \/ createRule(p) \/ updateRule(p) \/ archiveRule(p) \/ restoreRule(p) \/ deleteRule(p)
    \/ reorderRules(p) \/ runImport(p) \/ undoImport(p)
    \/ pauseApp(p) \/ resumeApp(p)

PublishStep(p) ==
    \/ RulesRead(p) \/ HashCompared(p) \/ ensureDiscount(p) \/ DiscountKept(p)
    \/ metafieldsSet(p) \/ HashKept(p) \/ PauseStamped(p) \/ ResumeTold(p)

RulesetNext ==
    \E p \in Editor :
        \/ EditRule(p) \/ EditAtLarge(p) \/ EditUndo(p)
        \/ EditWrites(p) \/ PublishStep(p) \/ PublishThrows(p) \/ EditKilled(p)

RulesetSpec == RulesetInit /\ [][RulesetNext]_rulesetVars

-----------------------------------------------------------------------------
(* The types of the state.                                                 *)
RulesetTypeOK ==
    /\ luck \in Lucks
    /\ rules \in [Rule -> [status: {"NONE", "ACTIVE", "DRAFT", "ARCHIVED", "GONE"},
                           price: Price \cup {0}, version: Nat]]
    /\ imported \subseteq Rule
    /\ {flag, silenced} \subseteq BOOLEAN
    /\ hash \in {<< >>} \cup {<<s>> : s \in Ruleset}
    /\ discounts \in Seq(Ruleset) /\ discountId \in 0 .. Len(discounts)
    /\ begun \in 0 .. MaxEdits

LuckyIn(some) == luck \cap some = {}

NobodyEdits == \A p \in Editor : editing[p].at = "idle"

(* Whatever the staff did, one request at a time, checkout prices with the *)
(* rules that are active now: none that was archived, deleted or undone,   *)
(* none while the app is paused.                                           *)
ActivePriced ==
    LuckyIn(Mishaps) /\ NobodyEdits =>
        IF discountId = 0 THEN activeEngineRules = {}
                          ELSE discounts[discountId] = activeEngineRules

(* There is one discount, the one the shop's row names, and the hash a     *)
(* publisher is let off by is of what it carries: also when Shopify        *)
(* refuses calls, as long as no request dies or throws after what it asked *)
(* was done, and no two overlap.                                           *)
OneDiscount == Len(discounts) = IF discountId = 0 THEN 0 ELSE 1

HashIsOfCheckout == hash # << >> => hash = <<discounts[discountId]>>

PublishSound ==
    LuckyIn({"overlapped", "killed", "unanswered"}) /\ NobodyEdits =>
        OneDiscount /\ HashIsOfCheckout

Silent == \A i \in 1 .. Len(discounts) : discounts[i] = {}

(* pause.server.ts:92: an app that says its pause has reached checkout     *)
(* prices nothing there, as long as none throws after it has published.    *)
PausedIsSilent ==
    LuckyIn({"overlapped", "killed", "unanswered"}) /\ NobodyEdits /\ flag /\ silenced =>
        Silent

(* What checkout is told is what the merchant was told: the prices of the  *)
(* active rules, in one discount, and none of them during a pause.  Each   *)
(* part says which mishaps it stands.                                      *)
CheckoutAgrees == ActivePriced /\ PublishSound /\ PausedIsSilent

=============================================================================
