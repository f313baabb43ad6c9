----------------------------- MODULE MarginGuard -----------------------------
(***************************************************************************)
(* What is asked of a rule before it is saved: validateRule (validate.ts)  *)
(* and the margin guard (margin.ts), which prices the rule at its own      *)
(* checkpoints and reports the worst shortfall below cost.                 *)
(***************************************************************************)
EXTENDS PricingEngine, FiniteSets

(***************************************************************************)
(* validateRule: TRUE when it raises no issue.                             *)
(***************************************************************************)
PercentageInRange(p) == p \in 0 .. PERCENT_SCALE
AmountIsSet(amount) == amount >= 0

TierAmountIsSound(tier) ==
    IF tier.kind = "percentage" THEN PercentageInRange(tier.amount)
    ELSE AmountIsSet(tier.amount)

RangeIsSound(tier) == IsThere(tier.max) => tier.max[1] >= tier.min

(* Sorted by their minimum, none starts before the one ahead has ended.    *)
StartsBefore(tiers, i, j) ==
    \/ tiers[i].min < tiers[j].min
    \/ tiers[i].min = tiers[j].min /\ i < j

NoneOverlap(tiers) ==
    \A i, j \in DOMAIN tiers :
        StartsBefore(tiers, i, j)
          => IsThere(tiers[i].max) /\ tiers[j].min > tiers[i].max[1]

(* The overlap left unchecked, as it is for cart value tiers.              *)
checkTiersOneByOne(tiers) ==
    /\ tiers # << >>
    /\ \A i \in DOMAIN tiers : /\ tiers[i].min >= 1
                               /\ RangeIsSound(tiers[i])
                               /\ TierAmountIsSound(tiers[i])
checkVolumeTiers(tiers) ==
    /\ tiers # << >>
    /\ \A i \in DOMAIN tiers : /\ tiers[i].min >= 1
                               /\ RangeIsSound(tiers[i])
                               /\ TierAmountIsSound(tiers[i])
    /\ NoneOverlap(tiers)

checkCartValueTiers(tiers) ==
    /\ tiers # << >>
    /\ \A i \in DOMAIN tiers : RangeIsSound(tiers[i])
                               /\ TierAmountIsSound(tiers[i])

hasTargets(rule) == rule.targets.mode # "all" => rule.targets.ids # {}
hasAudience(rule) ==
    rule.audience.mode \notin {"all", "guests"} => rule.audience.ids # {}

validateRule(rule) ==
    /\ hasTargets(rule)
    /\ hasAudience(rule)
    /\ IsThere(rule.starts) /\ IsThere(rule.ends)
         => rule.ends[1] > rule.starts[1]
    /\ CASE rule.kind = "percentage" -> PercentageInRange(rule.value)
         [] rule.kind \in {"amount_off", "fixed_price"} ->
                \A c \in DOMAIN rule.value : AmountIsSet(rule.value[c])
         [] rule.kind = "volume_tier" -> checkVolumeTiers(rule.value)
         [] rule.kind = "cart_value_tier" -> checkCartValueTiers(rule.value)

(***************************************************************************)
(* The guard's checkpoints and the buyer it builds.                        *)
(***************************************************************************)
Thresholds(rule) == {rule.value[i].min : i \in DOMAIN rule.value}

(* One representative basket.                                              *)
checkpointOneUnit(rule) == {1}
checkpointQuantities(rule) ==
    {1} \cup IF rule.kind = "volume_tier"
             THEN {q \in Thresholds(rule) : q > 0} ELSE {}

checkpointSubtotals(rule, currency) ==
    LET written == IF rule.kind # "cart_value_tier" THEN {}
                   ELSE {<<rule.value[i].min>> : i \in
                          {j \in DOMAIN rule.value :
                             rule.value[j].currency = currency}}
    IN  IF written = {} THEN {Nothing} ELSE written

GUARD_ID == "mannon-margin-guard"

(* All the ids its own mode names, or the first of them; none elsewhere.   *)
representativeCustomer(rule) ==
    LET mode == rule.audience.mode
        ids == rule.audience.ids
        one == IF ids = {} THEN {} ELSE {CHOOSE id \in ids : TRUE}
        own(m) == IF m # mode THEN {} ELSE ids
        single(m, otherwise) ==
            IF m # mode \/ one = {} THEN otherwise ELSE one
    IN  IF mode = "guests" THEN Nothing
        ELSE <<[tags |-> own("tags"), groups |-> own("groups"),
                customers |-> single("customers", {GUARD_ID}),
                companies |-> single("companies", {})]>>

representativeMarket(rule) ==
    IF rule.markets.mode = "include" /\ rule.markets.ids # {}
    THEN CHOOSE id \in rule.markets.ids : TRUE ELSE GUARD_ID

(* Status and schedule neutralised: a draft is priced as if it were live.  *)
asIfLive(rule) ==
    [rule EXCEPT !.status = "active", !.starts = Nothing, !.ends = Nothing]

GuardContext(rule, product, currency, now, quantity, checkpoint) ==
    LET line == product.price * quantity
    IN  [customer |-> representativeCustomer(rule),
         market |-> representativeMarket(rule), currency |-> currency,
         product |-> product, quantity |-> quantity, now |-> now,
         cart |-> IF ~IsThere(checkpoint) THEN Nothing
                  ELSE <<IF checkpoint[1] > line THEN checkpoint[1] ELSE line>>]

marginFor(resolution, cost) == resolution.unitPrice - cost

(* One candidate with a cost: "priced" when the rule applied at some       *)
(* checkpoint, and the margins below zero it found.                        *)
guardMargins(rule, product, cost, currency, now) ==
    LET live == asIfLive(rule)
        contexts == {GuardContext(live, product, currency, now, q, s) :
                        q \in checkpointQuantities(live),
                        s \in checkpointSubtotals(live, currency)}
        answers == {resolveInternal(<<live>>, c) : c \in contexts}
        applied == {a \in answers : a.applied # << >>}
        margins == {marginFor(a, cost) : a \in applied}
    IN  [priced |-> applied # {}, belowCost |-> {m \in margins : m < 0}]
=============================================================================
