--------------------------- MODULE PricingEngine ---------------------------
(***************************************************************************)
(* The pricing engine (packages/pricing-engine/src): the one function      *)
(* every price shown or charged comes from.  It is pure, so the module has *)
(* no variables: it defines what the functions of the package return.      *)
(*                                                                         *)
(* A rule is a record of id, kind, priority, createdAt, combinable, status,*)
(* starts, ends, markets, audience, targets and value.  What may be null   *)
(* in the code is a sequence of at most one element here.  An amount that  *)
(* a rule carries per currency is a function from the currencies it is     *)
(* written in; a percentage is held in hundredths, as the code rounds it.  *)
(* Integers stay far below 2^53, so the collapse multiplyFraction falls    *)
(* back to beyond that is left out.                                        *)
(***************************************************************************)
EXTENDS Integers, Sequences, SequencesExt

(* Null, and a value that is there.                                        *)
Nothing == << >>
IsThere(opt) == opt # Nothing

(***************************************************************************)
(* Eligibility (eligibility.ts)                                            *)
(***************************************************************************)
scheduleReason(rule, now) ==
    IF IsThere(rule.starts) /\ now < rule.starts[1] THEN "not_started"
    ELSE IF IsThere(rule.ends) /\ now > rule.ends[1] THEN "ended"
    ELSE "none"

Shares(ids, others) == ids \cap others # {}

(* A customer is a record of the ids each audience mode compares.          *)
audienceMatches(audience, customer) ==
    \/ audience.mode = "all"
    \/ audience.mode = "guests" /\ ~IsThere(customer)
    \/ /\ audience.mode \in {"tags", "groups", "customers", "companies"}
       /\ IsThere(customer)
       /\ Shares(audience.ids, customer[1][audience.mode])

(* A product is a record of the ids each target mode compares.             *)
targetExcluded(targets, product) ==
    \E level \in DOMAIN product.ids :
        Shares(targets.excluded[level], product.ids[level])

targetIncludes(targets, product) ==
    \/ targets.mode = "all"
    \/ /\ targets.mode \in DOMAIN product.ids
       /\ Shares(targets.ids, product.ids[targets.mode])

marketAllowed(markets, market) ==
    CASE markets.mode = "all" -> TRUE
      [] markets.mode = "include" -> market \in markets.ids
      [] markets.mode = "exclude" -> market \notin markets.ids

(* Why the rule cannot apply at all, in the order the code asks.           *)
eligibilityReason(rule, ctx) ==
    IF rule.status # "active" THEN "not_active"
    ELSE IF scheduleReason(rule, ctx.now) # "none"
         THEN scheduleReason(rule, ctx.now)
    ELSE IF ~marketAllowed(rule.markets, ctx.market) THEN "market_excluded"
    ELSE IF ~audienceMatches(rule.audience, ctx.customer)
         THEN "audience_mismatch"
    ELSE IF targetExcluded(rule.targets, ctx.product) THEN "target_excluded"
    ELSE IF ~targetIncludes(rule.targets, ctx.product) THEN "target_mismatch"
    ELSE "none"

Eligible(rule, ctx) == eligibilityReason(rule, ctx) = "none"

(***************************************************************************)
(* Tiers (tiers.ts).  Where two would match, the highest minimum wins, and *)
(* of two with one minimum the first of the list.                          *)
(***************************************************************************)
FirstBest(tiers, covers(_), lower(_, _)) ==
    LET reached == {i \in DOMAIN tiers : covers(tiers[i])}
        best(i) == \A j \in reached :
                     \/ lower(tiers[j], tiers[i])
                     \/ ~lower(tiers[i], tiers[j]) /\ i <= j
    IN  {i \in reached : best(i)}

Picked(tiers, indices) ==
    IF indices = {} THEN Nothing ELSE <<tiers[CHOOSE i \in indices : TRUE]>>

Starts(a, b) == a.min < b.min
StartsLater(a, b) == a.min > b.min

Covers(tier, amount) ==
    amount >= tier.min /\ (IsThere(tier.max) => amount <= tier.max[1])

selectVolumeTier(tiers, quantity) ==
    Picked(tiers, FirstBest(tiers, LAMBDA t : Covers(t, quantity), Starts))

nextVolumeTier(tiers, quantity) ==
    Picked(tiers, FirstBest(tiers, LAMBDA t : t.min > quantity, StartsLater))

selectCartValueTier(tiers, subtotal, currency) ==
    Picked(tiers, FirstBest(tiers,
             LAMBDA t : t.currency = currency /\ Covers(t, subtotal), Starts))

(***************************************************************************)
(* Exact fractions of minor units (money.ts), rounded half up.             *)
(***************************************************************************)
PERCENT_SCALE == 10000

wholeUnits(minor) == [numerator |-> minor, denominator |-> 1]

greatestCommonDivisor[pair \in Nat \X Nat] ==
    LET a == pair[1]
        b == pair[2]
    IN  IF b = 0 THEN IF a = 0 THEN 1 ELSE a
        ELSE greatestCommonDivisor[<<b, a % b>>]

reduceFraction(f) ==
    LET divisor == greatestCommonDivisor[<<f.numerator, f.denominator>>]
    IN  [numerator |-> f.numerator \div divisor,
         denominator |-> f.denominator \div divisor]

subtractFromFraction(f, minor) ==
    [f EXCEPT !.numerator = @ - minor * f.denominator]

multiplyFraction(f, numerator, denominator) ==
    reduceFraction([numerator |-> f.numerator * numerator,
                    denominator |-> f.denominator * denominator])

roundFraction(f) ==
    LET floor == f.numerator \div f.denominator
        twiceRemainder == 2 * (f.numerator - floor * f.denominator)
    IN  IF twiceRemainder >= f.denominator THEN floor + 1 ELSE floor

(***************************************************************************)
(* What a rule does to a price once it may (resolve.ts): one effect, or    *)
(* none.                                                                   *)
(***************************************************************************)
CLASS_RANK == [fixed_price |-> 0, volume_tier |-> 1, cart_value_tier |-> 2,
               amount_off |-> 3, percentage |-> 3]

(* The total order of the cascade.                                         *)
SortKey(rule) ==
    <<CLASS_RANK[rule.kind], rule.priority, rule.createdAt, rule.id>>
AgeKey(rule) == <<CLASS_RANK[rule.kind], rule.priority, rule.createdAt, 0>>

Lexicographic(a, b) ==
    \E i \in DOMAIN a : a[i] < b[i] /\ \A j \in 1 .. (i - 1) : a[j] = b[j]

(* The id left out of the order.                                           *)
compareUntilAge(a, b) == Lexicographic(AgeKey(a), AgeKey(b))
compareRules(a, b) == Lexicographic(SortKey(a), SortKey(b))

Effect(type, minor) == <<[type |-> type, minor |-> minor]>>

percentageEffect(hundredths) ==
    IF hundredths \in 0 .. PERCENT_SCALE
    THEN Effect("multiply", PERCENT_SCALE - hundredths) ELSE Nothing

tierEffect(tier, currency) ==
    IF tier.kind = "percentage" THEN percentageEffect(tier.amount)
    ELSE IF tier.currency # currency THEN Nothing
    ELSE Effect(IF tier.kind = "fixed_price" THEN "set" ELSE "subtract",
                tier.amount)

EffectOfTier(picked, currency) ==
    IF IsThere(picked) THEN tierEffect(picked[1], currency) ELSE Nothing

effectFor(rule, ctx) ==
    CASE rule.kind = "percentage" -> percentageEffect(rule.value)
      [] rule.kind \in {"fixed_price", "amount_off"} ->
             IF ctx.currency \notin DOMAIN rule.value THEN Nothing
             ELSE Effect(IF rule.kind = "fixed_price" THEN "set"
                         ELSE "subtract", rule.value[ctx.currency])
      [] rule.kind = "volume_tier" ->
             EffectOfTier(selectVolumeTier(rule.value, ctx.quantity),
                          ctx.currency)
      [] rule.kind = "cart_value_tier" ->
             IF ~IsThere(ctx.cart) THEN Nothing
             ELSE EffectOfTier(selectCartValueTier(rule.value, ctx.cart[1],
                                                   ctx.currency),
                               ctx.currency)

Moved(price, effect) ==
    CASE effect.type = "set" -> wholeUnits(effect.minor)
      [] effect.type = "subtract" -> subtractFromFraction(price, effect.minor)
      [] effect.type = "multiply" ->
             multiplyFraction(price, effect.minor, PERCENT_SCALE)

(* A price rounded after every step instead of once at the end.            *)
applyRounded(price, effect) ==
    LET moved == Moved(price, effect)
    IN  IF moved.numerator < 0 THEN wholeUnits(0)
        ELSE wholeUnits(roundFraction(moved))
(* A price is never negative.                                              *)
applyEffect(price, effect) ==
    LET moved == Moved(price, effect)
    IN  IF moved.numerator < 0 THEN wholeUnits(0) ELSE moved


(* A set price is taken whatever was reached.                              *)
raisesUnnoticed(price, effect) == FALSE
raisesPrice(price, effect) ==
    effect.type = "set" /\ effect.minor > roundFraction(price)

(***************************************************************************)
(* The cascade (resolveInternal).  "applied" are the ids in order, "prices"*)
(* the rounded price after each, "trace" what became of every eligible     *)
(* rule, and "stacks" whether the winner allows others beside it.          *)
(***************************************************************************)
Inserted(sorted, rule) ==
    LET after == {i \in DOMAIN sorted : compareRules(rule, sorted[i])}
        at == IF after = {} THEN Len(sorted) + 1 ELSE Min(after)
    IN  InsertAt(sorted, at, rule)

InOrder(rules) ==
    FoldLeft(LAMBDA sorted, rule : Inserted(sorted, rule), << >>, rules)

Skipped(walk, rule, reason) ==
    [walk EXCEPT !.trace = Append(@, <<rule.id, reason>>)]

Effected(walk, rule, after) ==
    [price |-> after,
     applied |-> Append(walk.applied, rule.id),
     prices |-> Append(walk.prices, roundFraction(after)),
     stacks |-> IF walk.applied = << >> THEN rule.combinable ELSE walk.stacks,
     trace |-> Append(walk.trace, <<rule.id, "applied">>)]

Walked(walk, rule, effect) ==
    LET first == walk.applied = << >>
    IN  IF ~first /\ ~walk.stacks
        THEN Skipped(walk, rule, "not_combinable_with_winner")
        ELSE IF ~first /\ ~rule.combinable
        THEN Skipped(walk, rule, "not_combinable")
        ELSE IF ~IsThere(effect) THEN Skipped(walk, rule, "no_effect")
        ELSE IF ~first /\ raisesPrice(walk.price, effect[1])
        THEN Skipped(walk, rule, "would_raise_price")
        ELSE Effected(walk, rule, applyEffect(walk.price, effect[1]))

Resolved(walk) ==
    [unitPrice |-> roundFraction(walk.price), applied |-> walk.applied,
     prices |-> walk.prices, trace |-> walk.trace]

(* Of the rules, those that are wanted, as they come.                      *)
Only(rules, wanted) ==
    FoldLeft(LAMBDA kept, rule :
               IF rule \in wanted THEN Append(kept, rule) ELSE kept,
             << >>, rules)

EligibleRules(rules, ctx) ==
    Only(rules, {r \in Range(rules) : Eligible(r, ctx)})

Unwalked(ctx) ==
    [price |-> wholeUnits(ctx.product.price), applied |-> << >>,
     prices |-> << >>, stacks |-> TRUE, trace |-> << >>]

Cascade(eligible, ctx) ==
    FoldLeft(LAMBDA walk, rule : Walked(walk, rule, effectFor(rule, ctx)),
             Unwalked(ctx), eligible)

resolveInternal(rules, ctx) ==
    Resolved(Cascade(InOrder(EligibleRules(rules, ctx)), ctx))

(* The subtotal carried across the change of quantity.                     *)
AtQuantityInSameCart(ctx, quantity) == [ctx EXCEPT !.quantity = quantity]
(* The line grows by the units added, at the price they are listed at.     *)
AtQuantity(ctx, quantity) ==
    [ctx EXCEPT !.quantity = quantity,
                !.cart = IF IsThere(@)
                         THEN <<@[1] + (quantity - ctx.quantity)
                                         * ctx.product.price>>
                         ELSE @]

computeNextTier(rules, ctx) ==
    LET tiered == {r \in Range(rules) : r.kind = "volume_tier"}
        volume == InOrder(EligibleRules(Only(rules, tiered), ctx))
        next == IF volume = << >> THEN Nothing
                ELSE nextVolumeTier(Head(volume).value, ctx.quantity)
    IN  IF ~IsThere(next) THEN Nothing
        ELSE <<[quantity |-> next[1].min,
                unitPrice |-> resolveInternal(rules,
                                AtQuantity(ctx, next[1].min)).unitPrice]>>

resolvePrice(rules, ctx) ==
    [answer |-> resolveInternal(rules, ctx),
     nextTier |-> computeNextTier(rules, ctx)]
=============================================================================
