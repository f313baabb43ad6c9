------------------------------- MODULE Engines -------------------------------
(***************************************************************************)
(* The pure engines, asked one question each: a price, a margin guard, the *)
(* advice a limit gives, the terms of a buyer, the tags of a buyer, what a *)
(* file of rules would create, which applications are approved, what a     *)
(* checkout charges, refuses and lets pay later.  A behaviour asks one     *)
(* question of the sets below and stops; the properties say what must hold *)
(* of the answer.                                                          *)
(***************************************************************************)
EXTENDS RuleImport, Checkout, TagRules, Approval

CONSTANTS
    PriceCases,   \* records of rules (a sequence) and ctx
    GuardCases,   \* records of rule, product, cost and currency
    LiveBuyers,   \* contexts in which that product is bought
    LimitCases,   \* records of limit and quantity
    TermsCases,   \* records of customer, group, invoices, now and cart
    TagCases,     \* records of rules and facts
    ImportCases,  \* records of template, rows, ids and existing
    StoredCases,  \* approval criteria as they are stored
    Criteria,     \* criteria that may be added to them
    Applicants,   \* facts of applications
    CartCases,    \* records of published (a ruleset), cart, zone and hour
    ScheduleCases,\* records of zone, day, starts and ends
    BlockCases,   \* records of published (limits), cart and subtotal
    PayLaterCases \* records of customer, group, invoices, now, blocks,
                  \* garbled, cart and total

(***************************************************************************)
(* What may be asked: rules, limits and buyers as validation and the types *)
(* of their tables leave them.  Cents and hundredths are whole and not     *)
(* negative, what may be null is there once or not at all.                 *)
(***************************************************************************)
MayBe(S, opt) == opt \in Seq(S) /\ Len(opt) <= 1

KeysRead(rule) ==
    /\ rule.kind \in DOMAIN CLASS_RANK
    /\ rule.priority \in Int /\ rule.createdAt \in Int /\ rule.id \in Int

TierRead(tier) ==
    /\ tier.kind \in {"percentage", "fixed_price", "amount_off"}
    /\ tier.amount \in Nat /\ tier.min \in Int

ValueRead(rule) ==
    /\ rule.combinable \in BOOLEAN
    /\ rule.kind = "percentage" => rule.value \in Nat
    /\ rule.kind \in {"fixed_price", "amount_off"} =>
         \A c \in DOMAIN rule.value : rule.value[c] \in Nat
    /\ rule.kind \in {"volume_tier", "cart_value_tier"} =>
         \A i \in DOMAIN rule.value : TierRead(rule.value[i])

(* Each rule has an id of its own.                                         *)
RulesAreRead(rules) ==
    /\ rules \in Seq(Range(rules))
    /\ \A i, j \in DOMAIN rules : rules[i].id = rules[j].id => i = j
    /\ \A r \in Range(rules) : KeysRead(r) /\ ValueRead(r)

PriceAsked(c) ==
    /\ RulesAreRead(c.rules)
    /\ c.ctx.product.price \in Nat /\ c.ctx.quantity \in Int
    /\ MayBe(Int, c.ctx.cart)

GuardAsked(c) ==
    /\ KeysRead(c.rule) /\ ValueRead(c.rule)
    /\ c.product.price \in Nat /\ c.cost \in Int
    /\ GUARD_ID \notin c.rule.markets.ids
    /\ c.rule.markets.mode \in {"all", "include", "exclude"}
    /\ c.rule.kind \in {"volume_tier", "cart_value_tier"} =>
         /\ DOMAIN c.rule.value \subseteq Nat
         /\ \A i \in DOMAIN c.rule.value : MayBe(Int, c.rule.value[i].max)

(* A buyer of that product, whose cart holds at least this line.           *)
Buys(b, c) ==
    /\ b.product = c.product /\ b.currency = c.currency
    /\ b.quantity \in Nat \ {0}
    /\ MayBe(Int, b.cart)
    /\ IsThere(b.cart) => b.cart[1] >= b.product.price * b.quantity

LimitAsked(c) ==
    /\ c.quantity \in Nat
    /\ MayBe(Int, c.limit.minQuantity) /\ MayBe(Int, c.limit.maxQuantity)
    /\ MayBe(Int, c.limit.quantityIncrement)

(* A signed-in buyer of a shop whose currency has two decimal places.      *)
PayLaterAsked(c) ==
    /\ c.total \in Nat /\ c.blocks \in BOOLEAN
    /\ c.cart.subtotal = <<10 * c.total>> /\ c.cart.currency = "usd"
    /\ IsThere(c.cart.customer) /\ c.cart.hasMethod

SourceAsked(source) ==
    source # << >> => /\ MayBe(Int, source[1].days)
                      /\ MayBe(Int, source[1].creditLimit)

InvoiceAsked(invoice) ==
    /\ invoice.amount \in Int /\ invoice.paid \in Int
    /\ invoice.isPaid \in BOOLEAN /\ MayBe(Int, invoice.dueAt)

TermsAsked(c) ==
    /\ SourceAsked(c.customer) /\ SourceAsked(c.group)
    /\ c.invoices \in Seq(Range(c.invoices))
    /\ \A i \in DOMAIN c.invoices : InvoiceAsked(c.invoices[i])
    /\ c.now \in Int /\ c.cart \in Int

(* No two rules have one id, and a buyer has no tag twice.                 *)
TagsAsked(c) ==
    /\ IsFiniteSet(c.rules)
    /\ \A r, s \in c.rules : r.id = s.id => r = s
    /\ \A r \in c.rules :
         /\ r.id \in Int /\ r.priority \in Int
         /\ r.addTags \in Seq(Range(r.addTags))
         /\ r.removeTags \in Seq(Range(r.removeTags))
         /\ \A k \in r.conditions : k.field \in TAG_FIELDS
    /\ DOMAIN c.facts = {"lifetime_spend", "order_count", "country",
                         "days_since_last_order", "tags"}
    /\ \A s, t \in c.facts.tags : s.name = t.name => s = t

(* What is kept of a criterion has each of its fields, readable or not.    *)
ApprovalAsked(stored) ==
    /\ stored = [enabled |-> stored.enabled, criteria |-> stored.criteria,
                 otherwise |-> stored.otherwise]
    /\ stored.enabled \in BOOLEAN /\ stored.otherwise \in {"review", "reject"}
    /\ stored.criteria \in Seq(Range(stored.criteria))
    /\ \A i \in DOMAIN stored.criteria :
         "field" \in DOMAIN stored.criteria[i]

(* What an applicant is while nothing is known of them.                    *)
Unknowns == [vat |-> "UNVERIFIED", years |-> << >>, country |-> << >>,
             uploads |-> {}, answers |-> << >>, existing |-> FALSE]

ApplicantAsked(facts) ==
    /\ DOMAIN facts = DOMAIN Unknowns
    /\ facts.existing \in BOOLEAN

(* A signed-in buyer, whose cart holds its subtotal to the smallest unit.  *)
BlockAsked(c) ==
    /\ c.published \in Seq(Range(c.published))
    /\ \A i \in DOMAIN c.published :
         LET limit == c.published[i].limit
         IN  limit = [k \in DOMAIN LimitUnread |-> limit[k]]
    /\ c.subtotal \in Int /\ c.cart.currency \in DOMAIN currencyExponent
    /\ c.cart.subtotal = <<formatMoney(c.subtotal, c.cart.currency)>>
    /\ IsThere(c.cart.customer)

(* The lines of a file, as they come in it.                                *)
ImportAsked(c) ==
    /\ c.rows \in Seq(Range(c.rows))
    /\ \A i, j \in DOMAIN c.rows : i < j => c.rows[i].line < c.rows[j].line
    /\ \A i \in DOMAIN c.rows :
         LET row == c.rows[i]
         IN  row.line \in Nat /\ row.min = [is |-> row.min.is, n |-> row.min.n]

(* A rule runs from the start of a day of the shop's zone to the end of one.*)
WholeDays(rule, zone) ==
    /\ MayBe(Int, rule.starts) /\ MayBe(Int, rule.ends)
    /\ IsThere(rule.starts) => (rule.starts[1] + zone) % 24 = 0
    /\ IsThere(rule.ends) => (rule.ends[1] + 1 + zone) % 24 = 0

LineAsked(line, cart) ==
    /\ line.isVariant /\ line.quantity \in Nat \ {0}
    /\ line.unit \in Seq(Nat) /\ Len(line.unit) = 1
    /\ line.unit[1] % Grain(cart.currency) = 0

(* A cart of products that the app's discount may lower, at some hour of   *)
(* its day, and the rules the app published.                               *)
RulesOf(published) ==
    [i \in DOMAIN published.rules |-> published.rules[i].rule]

CartAsked(c) ==
    /\ c.published.v \in RULESET_VERSIONS
    /\ c.published.rules \in Seq(Range(c.published.rules))
    /\ RulesAreRead(RulesOf(c.published))
    /\ \A r \in Range(RulesOf(c.published)) :
         WholeDays(r, c.zone) /\ r = [k \in DOMAIN r |-> r[k]]
    /\ c.zone \in Int /\ c.hour \in 0 .. 23 /\ c.cart.date \in Int
    /\ c.cart.discountsProducts /\ c.cart.currency \in DOMAIN currencyExponent
    /\ IsThere(c.cart.customer) =>
         {"id", "tags", "groups"} \subseteq DOMAIN c.cart.customer[1]
    /\ c.cart.lines \in Seq(Range(c.cart.lines))
    /\ \A i \in DOMAIN c.cart.lines : LineAsked(c.cart.lines[i], c.cart)
    /\ Len(c.cart.lines) = 1 =>
         c.cart.subtotal = <<c.cart.lines[1].unit[1] * c.cart.lines[1].quantity>>

ScheduleAsked(c) ==
    c.zone \in Int /\ c.day \in Int /\ c.starts \in Int /\ c.ends \in Int

ASSUME QuestionsAssumption ==
    /\ \A c \in PriceCases : PriceAsked(c)
    /\ \A c \in GuardCases : GuardAsked(c) /\ \A b \in LiveBuyers : Buys(b, c)
    /\ \A c \in LimitCases : LimitAsked(c)
    /\ \A c \in TermsCases : TermsAsked(c)
    /\ \A c \in TagCases : TagsAsked(c)
    /\ \A c \in ImportCases : ImportAsked(c)
    /\ \A c \in StoredCases : ApprovalAsked(c)
    /\ \A f \in Applicants : ApplicantAsked(f)
    /\ \A c \in CartCases : CartAsked(c)
    /\ \A c \in ScheduleCases : ScheduleAsked(c)
    /\ \A c \in BlockCases : BlockAsked(c)
    /\ \A c \in PayLaterCases : PayLaterAsked(c)

VARIABLE question

Unasked == [engine |-> "none", case |-> << >>]

Ask(engine, cases) ==
    /\ question = Unasked
    /\ \E c \in cases : question' = [engine |-> engine, case |-> c]

AskPrice == Ask("price", PriceCases)
AskGuard == Ask("guard", GuardCases)
AskLimit == Ask("limit", LimitCases)
AskTerms == Ask("terms", TermsCases)
AskTags == Ask("tags", TagCases)
AskImport == Ask("import", ImportCases)
AskApproval == Ask("approval", StoredCases)
AskCart == Ask("cart", CartCases)
AskSchedule == Ask("schedule", ScheduleCases)
AskBlock == Ask("block", BlockCases)
AskPayLater == Ask("pay later", PayLaterCases)

EnginesInit == question = Unasked

EnginesNext == \/ AskPrice \/ AskGuard \/ AskLimit \/ AskTerms \/ AskTags
               \/ AskImport \/ AskApproval
               \/ AskCart \/ AskSchedule \/ AskBlock \/ AskPayLater

EnginesSpec == EnginesInit /\ [][EnginesNext]_question

(***************************************************************************)
(* Prices                                                                  *)
(***************************************************************************)

(* The rules resolve alike in any order they are read from the table or    *)
(* the metafield.                                                          *)
OrderBlind(rules, ctx) ==
    \A p \in Bijection(DOMAIN rules, DOMAIN rules) :
        resolveInternal([i \in DOMAIN rules |-> rules[p[i]]], ctx)
          = resolveInternal(rules, ctx)

(* Once a rule has applied, no later one makes the buyer pay more.         *)
PromisesKept(answer) ==
    \A i \in 2 .. Len(answer.prices) : answer.prices[i] <= answer.prices[i - 1]

(* Whole percentages alone, stacked: the price is the exact product rounded*)
(* once, half up.                                                          *)
RuleNamed(rules, id) == rules[CHOOSE i \in DOMAIN rules : rules[i].id = id]

WholePercent(rule) == rule.kind = "percentage" /\ rule.value % 100 = 0

PartsKept(rules, applied) ==
    FoldLeft(LAMBDA f, id : f * (100 - RuleNamed(rules, id).value \div 100),
             1, applied)

PartsInAll(applied) == FoldLeft(LAMBDA f, id : f * 100, 1, applied)

RoundedOnce(rules, ctx, answer) ==
    LET kept == PartsKept(rules, answer.applied)
        whole == PartsInAll(answer.applied)
        doubled == 2 * ctx.product.price * kept
    IN  (\A i \in DOMAIN answer.applied :
           WholePercent(RuleNamed(rules, answer.applied[i]))) =>
            /\ doubled >= (2 * answer.unitPrice - 1) * whole
            /\ doubled < (2 * answer.unitPrice + 1) * whole

(* The price quoted for the next tier is the one charged in the cart the   *)
(* buyer would then have.                                                  *)
NextTierIsCharged(rules, ctx, next) ==
    LET rest == ctx.cart[1] - ctx.quantity * ctx.product.price
        bought(q) == [ctx EXCEPT
            !.quantity = q,
            !.cart = IF IsThere(@) THEN <<rest + q * ctx.product.price>>
                     ELSE @]
    IN  IsThere(next) =>
            /\ next[1].quantity > ctx.quantity
            /\ resolveInternal(rules, bought(next[1].quantity)).unitPrice
                 = next[1].unitPrice

(* A price does not depend on the order rules are read in, is never raised *)
(* by a rule that stacks, is rounded once, and is quoted ahead as it will  *)
(* be charged: resolvePrice.                                               *)
PriceSound ==
    question.engine = "price" =>
        LET rules == question.case.rules
            ctx == question.case.ctx
            result == resolvePrice(rules, ctx)
        IN  /\ OrderBlind(rules, ctx)
            /\ PromisesKept(result.answer)
            /\ RoundedOnce(rules, ctx, result.answer)
            /\ NextTierIsCharged(rules, ctx, result.nextTier)

(***************************************************************************)
(* The margin guard: whatever buyer, quantity and cart a rule that passes  *)
(* validation prices below cost, the guard said so before it was saved,    *)
(* and named a shortfall no smaller.  Of cart value tiers this holds only  *)
(* while none overlap, which validateRule does not ask.                    *)
(***************************************************************************)
GuardTells ==
    question.engine = "guard" =>
        LET c == question.case
            live == asIfLive(c.rule)
            told == guardMargins(c.rule, c.product, c.cost, c.currency, 0)
            answer(b) == resolveInternal(<<live>>, b)
            checked == /\ validateRule(c.rule)
                       /\ c.rule.kind = "cart_value_tier" =>
                            NoneOverlap(c.rule.value)
        IN  checked => \A b \in LiveBuyers :
                answer(b).applied # << >> =>
                    /\ told.priced
                    /\ marginFor(answer(b), c.cost) < 0 =>
                         \E m \in told.belowCost :
                             m <= marginFor(answer(b), c.cost)

(***************************************************************************)
(* Limits: a cart of a limit that passed validation, and that is not over  *)
(* its maximum, may check out once it adds the largest number of units it  *)
(* is told to.  A maximum that is not a whole number of cases is left out: *)
(* validateLimit takes one, and its buyers are sent over it.               *)
(***************************************************************************)
AdviceWorks ==
    question.engine = "limit" =>
        LET limit == question.case.limit
            quantity == question.case.quantity
            told == UnitsShort(limit, quantity)
                      \cup UnitsToNextCase(limit, quantity)
            reached == quantity + IF told = {} THEN 0 ELSE Max(told)
            wholeCases == limit.maxQuantity # << >> =>
                            Remainder(limit, limit.maxQuantity[1]) = 0
        IN  validateLimit(limit) /\ wholeCases
                /\ UnitsOver(limit, quantity) = {}
              => UnitsShort(limit, reached) \cup UnitsOver(limit, reached)
                   \cup UnitsToNextCase(limit, reached) = {}

(***************************************************************************)
(* Terms: what checkout extends never exceeds the ceiling of the level     *)
(* whose days apply, is told with the headroom that decides it, and stops  *)
(* while the ledger's aging shows anything late.                           *)
(***************************************************************************)
TermsAgree ==
    question.engine = "terms" =>
        LET c == question.case
            ledger == summariseAging(c.invoices, c.now)
            level == IF SetsDays(c.customer) THEN c.customer ELSE c.group
            facts(cart) == [isAuthenticated |-> TRUE, cartTotal |-> cart,
                            terms |-> termsWithLimit(c.customer, c.group),
                            outstanding |-> ledger.outstanding,
                            overdueCount |-> ledger.overdueCount]
            answer == checkEligibility(facts(c.cart))
            ceiling == level[1].creditLimit
        IN  /\ answer.eligible =>
                 /\ ledger.overdue = 0
                 /\ ceiling # << >> /\ ceiling[1] >= 0 =>
                      ledger.outstanding + c.cart <= ceiling[1]
            /\ answer.headroom # << >> /\ ledger.outstanding <= ceiling[1] =>
                 \A cart \in {0, answer.headroom[1], answer.headroom[1] + 1} :
                     checkEligibility(facts(cart)).eligible
                       <=> cart <= answer.headroom[1]
            /\ MapThenSumSet(LAMBDA b : ledger.buckets[b], AGING_BUCKETS)
                 = ledger.outstanding
            /\ ledger.overdue = ledger.outstanding - ledger.buckets["current"]
            /\ ledger.overdueCount > 0 <=> ledger.overdue > 0

(***************************************************************************)
(* Tags: rules that ask nothing about tags settle in one sweep: the next   *)
(* one finds nothing to change, and no tag is there twice.                 *)
(***************************************************************************)
TagsSettle ==
    question.engine = "tags" =>
        LET rules == question.case.rules
            facts == question.case.facts
            after == evaluateTagRules(rules, facts).tags
            again == evaluateTagRules(rules, [facts EXCEPT !.tags = after])
            blind == \A r \in rules : \A c \in r.conditions :
                         c.field \notin {"has_tag", "lacks_tag"}
        IN  /\ blind => again.unchanged
            /\ \A s, t \in after : s.name = t.name => s = t

(***************************************************************************)
(* Imports: what is planned is sound and wholly what its lines say, and no *)
(* line passes in silence.  A line of the quantity breaks whose minimum is *)
(* blank is left out: it is planned and says nothing.                      *)
(***************************************************************************)
RulesPlanned(plan) == {p.rule : p \in plan.planned}
LinesIn(reports) == {e.line : e \in reports}
FileRows(rows, lines) ==
    {rows[i] : i \in {j \in DOMAIN rows : rows[j].line \in lines}}

(* Each line is planned, is told, or shares a name with one that is told.  *)
NoLineLost(c, plan) ==
    LET told == LinesIn(plan.errors)
        planned == UNION {p.lines : p \in plan.planned}
    IN  /\ planned \cap told = {}
        /\ \A i \in DOMAIN c.rows :
             c.rows[i].line \notin planned \cup told =>
                 \E r \in FileRows(c.rows, told) : r.name = c.rows[i].name

(* Products named by its first line are all there: none is dropped.        *)
AllNamedAreMeant(c, plan) ==
    \A p \in plan.planned : \A r \in FileRows(c.rows, {Min(p.lines)}) :
        NamesSkus(r) => /\ r.skus \subseteq DOMAIN c.ids
                        /\ p.rule.targets.ids = {c.ids[k] : k \in r.skus}

(* The tier a line asks for can be read and is in its rule, unless a later *)
(* one is told to have taken its place.                                    *)
TiersAreMeant(c, plan) ==
    \A p \in plan.planned : \A r \in FileRows(c.rows, p.lines) :
        r.min.is = "number" =>
          /\ "bad" \notin {r.max.is, r.value.is}
          /\ \/ \E i \in DOMAIN p.rule.value : p.rule.value[i] = TierOf(r)
             \/ \E w \in plan.warnings :
                  w.code = "last_wins" /\ w.line > r.line /\ w.line \in p.lines

(* A name's rules are those of a file with that name alone.                *)
NamesApart(c, plan) ==
    RulesPlanned(plan) =
        UNION {RulesPlanned(planImport(c.template, RowsNamed(c.rows, name),
                                       c.ids, c.existing)) :
               name \in {c.rows[i].name : i \in DOMAIN c.rows}}

ImportTells ==
    question.engine = "import" =>
        LET c == question.case
            plan == planImport(c.template, c.rows, c.ids, c.existing)
        IN  /\ \A p \in plan.planned : validateRule(p.rule)
            /\ NoLineLost(c, plan)
            /\ AllNamedAreMeant(c, plan)
            /\ c.template = "quantity_breaks" => TiersAreMeant(c, plan)
            /\ NamesApart(c, plan)

(***************************************************************************)
(* Approval: to ask nothing, to add a criterion, to make one unreadable or *)
(* to know less of an applicant never lets anyone in, and what was saved   *)
(* is what is read.                                                        *)
(***************************************************************************)
Approves(stored, facts) ==
    evaluateApproval(readApproval(stored), facts) = "approve"

ApprovalNarrows ==
    question.engine = "approval" =>
        LET stored == question.case
            Longer(c) == [stored EXCEPT !.criteria = Append(@, c)]
            Mangled(i) == [stored EXCEPT !.criteria[i].field = "nonsense"]
        IN  /\ \A facts \in Applicants :
                 /\ Approves(stored, facts) => stored.criteria # << >>
                 /\ \A c \in Criteria : stored.criteria # << >> =>
                      (Approves(Longer(c), facts) => Approves(stored, facts))
                 /\ \A i \in DOMAIN stored.criteria :
                      ~Approves(Mangled(i), facts)
                 /\ \A k \in DOMAIN Unknowns :
                      Approves(stored, [facts EXCEPT ![k] = Unknowns[k]])
                        => Approves(stored, facts)
            /\ /\ \A i \in DOMAIN stored.criteria :
                     /\ stored.criteria[i].field \in CRITERION_FIELDS
                     /\ stored.criteria[i].atLeast # << >>
                     /\ stored.criteria[i].op \in {"in", "not_in"}
               /\ validateApproval(stored)
               => readApproval(stored) = stored

(***************************************************************************)
(* Checkout: a buyer pays what quick order showed, or less where the rules *)
(* would have raised the price.  Left out are rules checkout cannot ask    *)
(* (markets) or quick order cannot (companies), and tiers of the cart's    *)
(* value in a cart of several lines, which quick order reads line by line. *)
(***************************************************************************)
AskedAlike(published, cart) ==
    \A i \in DOMAIN published.rules :
        LET wire == published.rules[i]
        IN  /\ wire.garbled = {} /\ isSupportedAtCheckout(wire.rule)
            /\ wire.rule.audience.mode # "companies"
            /\ wire.rule.kind = "cart_value_tier" => Len(cart.lines) = 1

ChargedAsShown(cart, off, shown) ==
    LET list(i) == parseMoney(cart.lines[i].unit, cart.currency)[1]
    IN  \A i \in DOMAIN shown :
            list(i) - OrZero(parseMoney(off[i], cart.currency))
              = Min({shown[i], list(i)})

ShownIsCharged ==
    question.engine = "cart" =>
        LET c == question.case
        IN  AskedAlike(c.published, c.cart) =>
                ChargedAsShown(c.cart, generate(<<c.published>>, c.cart),
                    priceQuickOrder(RulesOf(c.published), c.cart,
                        dayStart(c.cart.date, c.zone) + c.hour).prices)

(* A rule scheduled from one day to another applies at checkout on those   *)
(* days of the shop's own calendar, and on no other (rule-form.server.ts,  *)
(* dayStart, dayEnd, readNow).                                             *)
RunsOnItsDays ==
    question.engine = "schedule" =>
        LET c == question.case
            schedule == [starts |-> <<dayStart(c.starts, c.zone)>>,
                         ends |-> <<dayEnd(c.ends, c.zone)>>]
        IN  scheduleReason(schedule, readNow(c.day)) = "none"
              <=> c.day \in c.starts .. c.ends

(* Checkout refuses what the engine refuses on the same numbers, in any    *)
(* currency; bounds that do not read back only ever let a cart through.    *)
BlocksAlike ==
    question.engine = "block" =>
        LET c == question.case
            meant == [i \in DOMAIN c.published |-> c.published[i].limit]
            lost == UNION {c.published[i].garbled : i \in DOMAIN c.published}
            facts == [subtotal |-> c.subtotal, currency |-> c.cart.currency,
                      quantity |-> Units(c.cart), country |-> c.cart.country,
                      groups |-> c.cart.customer[1].groups,
                      isAuthenticated |-> TRUE]
            refused == limitsFunction(c.published, c.cart)
        IN  /\ lost = {} => refused = evaluateLimits(meant, facts)
            /\ lost \subseteq {"minSubtotal", "maxSubtotal", "minQuantity",
                              "maxQuantity", "quantityIncrement"}
                 => refused \subseteq evaluateLimits(meant, facts)

(* Pay later is offered exactly where the ledger would extend credit, and  *)
(* whatever did not read back, never where it would not: except that a     *)
(* ceiling, a balance or a count that is lost counts for nothing.  In      *)
(* currencies of two decimal places: toCents reads others as those.        *)
PayLaterAgrees ==
    question.engine = "pay later" =>
        LET c == question.case
            ledger == summariseAging(c.invoices, c.now)
            terms == termsWithLimit(c.customer, c.group)
            extends == checkEligibility(
                [isAuthenticated |-> TRUE, terms |-> terms,
                 outstanding |-> ledger.outstanding, cartTotal |-> c.total,
                 overdueCount |-> IF c.blocks THEN ledger.overdueCount
                                  ELSE 0]).eligible
            offered == termsFunction(
                publishableTerms(terms, ledger, c.blocks, "usd"),
                c.garbled, c.cart) = "offered"
        IN  /\ c.garbled = {} /\ extends => offered
            /\ c.garbled \subseteq {"days", "currency"} /\ offered => extends

(* What the smaller engines answer can be acted on.                        *)
AnswersHold ==
    /\ AdviceWorks /\ TermsAgree /\ TagsSettle
    /\ ImportTells /\ ApprovalNarrows
    /\ ShownIsCharged /\ RunsOnItsDays /\ BlocksAlike /\ PayLaterAgrees
=============================================================================
