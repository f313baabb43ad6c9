----------------------------- MODULE EngineCases -----------------------------
(***************************************************************************)
(* The questions the engines are asked: small catalogues of rules, limits, *)
(* terms and tags in which every branch of the engines is taken.           *)
(***************************************************************************)
EXTENDS Engines

Nobody == [variants |-> {}, products |-> {}, collections |-> {}]

Everyone == [mode |-> "all", ids |-> {}]
Tagged == [mode |-> "tags", ids |-> {"wholesale"}]
Here == [mode |-> "include", ids |-> {"home"}]
Elsewhere == [mode |-> "exclude", ids |-> {"home"}]

RuleOf(kind, combinable, audience, markets, value) ==
    [id |-> 0, kind |-> kind, priority |-> 1, createdAt |-> 0,
     combinable |-> combinable, status |-> "active", starts |-> Nothing,
     ends |-> Nothing, markets |-> markets, audience |-> audience,
     targets |-> [mode |-> "all", ids |-> {}, excluded |-> Nobody],
     value |-> value]

Open(kind, combinable, value) == RuleOf(kind, combinable, Everyone, Everyone, value)

Tier(min, max, kind, amount) ==
    [min |-> min, max |-> max, kind |-> kind, amount |-> amount,
     currency |-> "usd"]

Usd(amount) == [c \in {"usd"} |-> amount]

Product(price) ==
    [price |-> price,
     ids |-> [variants |-> {"v"}, products |-> {"p"}, collections |-> {"sale"}]]

Wholesaler ==
    <<[tags |-> {"wholesale"}, groups |-> {}, customers |-> {"c1"},
       companies |-> {}]>>

Context(price, quantity, cart, customer, market) ==
    [product |-> Product(price), quantity |-> quantity, cart |-> cart,
     customer |-> customer, market |-> market, currency |-> "usd", now |-> 5]

(***************************************************************************)
(* Prices: three rules of this catalogue, in any order.                    *)
(***************************************************************************)
PriceCatalogue ==
    { Open("percentage", TRUE, 600),
      Open("percentage", FALSE, 600),
      Open("fixed_price", TRUE, Usd(900)),
      Open("fixed_price", TRUE, [c \in {"eur"} |-> 500]),
      Open("amount_off", TRUE, Usd(100)),
      Open("amount_off", TRUE, Usd(2000)),
      Open("volume_tier", TRUE, <<Tier(1, <<2>>, "percentage", 600),
                                  Tier(3, <<5>>, "amount_off", 300),
                                  Tier(6, Nothing, "fixed_price", 800)>>),
      Open("cart_value_tier", TRUE,
           <<Tier(2000, Nothing, "fixed_price", 950),
             Tier(4000, Nothing, "percentage", 5000)>>),
      RuleOf("percentage", TRUE, Tagged, Here, 5000),
      [Open("amount_off", TRUE, Usd(500)) EXCEPT !.ends = <<4>>] }

MCPriceCases ==
    { [rules |-> [i \in 1 .. 3 |-> [r[i] EXCEPT !.id = i]],
       ctx |-> Context(1075, q, cart, Wholesaler, "home")] :
      r \in [1 .. 3 -> PriceCatalogue], q \in {1, 3}, cart \in {Nothing, <<3300>>} }

(***************************************************************************)
(* The guard: one rule, drafts and tiers included, and whoever may buy.    *)
(***************************************************************************)
Discounts == {<<"percentage", 500>>, <<"percentage", 5000>>, <<"fixed_price", 7>>}

VolumeTiers ==
    {Tier(min, max, d[1], d[2]) : min \in {1, 3, 5},
       max \in {Nothing, <<2>>, <<4>>}, d \in Discounts}

CartTiers ==
    {Tier(min, max, d[1], d[2]) : min \in {5, 25, 40},
       max \in {Nothing, <<24>>, <<60>>},
       d \in {<<"percentage", 500>>, <<"percentage", 5000>>}}

UpToTwo(tiers) == {<<t>> : t \in tiers} \cup {<<s, t>> : s, t \in tiers}

MCGuardCases ==
    { [rule |-> r, product |-> Product(10), cost |-> 8, currency |-> "usd"] :
      r \in {Open("volume_tier", TRUE, t) : t \in UpToTwo(VolumeTiers)}
        \cup {Open("cart_value_tier", TRUE, t) : t \in UpToTwo(CartTiers)}
        \cup {[RuleOf(k, FALSE, a, m, IF k = "percentage" THEN 5000 ELSE Usd(3))
                 EXCEPT !.status = "draft", !.starts = <<9>>] :
                k \in {"percentage", "amount_off", "fixed_price"},
                a \in {Everyone, Tagged, [mode |-> "guests", ids |-> {}],
                       [mode |-> "customers", ids |-> {"c1"}]},
                m \in {Everyone, Here, Elsewhere}} }

MCLiveBuyers ==
    { Context(10, q, cart, Wholesaler, "home") : q \in 1 .. 6, cart \in {Nothing} }
    \cup { Context(10, q, <<10 * q + rest>>, customer, market) :
             q \in {1, 2, 5}, rest \in {0, 10, 15, 30, 45},
             customer \in {Nothing, Wholesaler}, market \in {"home", "away"} }

(***************************************************************************)
(* Limits, terms and tags                                                  *)
(***************************************************************************)
MCLimitCases ==
    { [quantity |-> q,
       limit |-> [group |-> Nothing, enabled |-> TRUE, countries |-> {},
                  currency |-> "usd", minSubtotal |-> Nothing,
                  maxSubtotal |-> Nothing, minQuantity |-> low,
                  maxQuantity |-> high, quantityIncrement |-> cases]] :
      q \in 1 .. 9, low \in {Nothing, <<0>>, <<3>>, <<4>>, <<6>>},
      high \in {Nothing, <<4>>, <<6>>, <<8>>},
      cases \in {Nothing, <<2>>, <<3>>, <<4>>} }

Source(days, limit) == <<[days |-> days, creditLimit |-> limit]>>

MCInvoices ==
    {[amount |-> a, paid |-> p, isPaid |-> FALSE, dueAt |-> due] :
       a \in {3}, p \in {0, 1, 4}, due \in {Nothing, <<40>>, <<30>>, <<1>>}}

MCTermsCases ==
    { [customer |-> c, group |-> g, invoices |-> i, now |-> 40, cart |-> k] :
      c \in {Nothing, Source(Nothing, <<9>>), Source(<<30>>, Nothing),
             Source(<<30>>, <<5>>), Source(<<30>>, <<-1>>)},
      g \in {Nothing, Source(<<60>>, <<4>>), Source(Nothing, <<4>>)},
      i \in {<< >>} \cup UpToTwo(MCInvoices), k \in {1, 4, 8} }

Typed(name, typing) == [name |-> name, typing |-> typing]

Anything == [field |-> "", op |-> "", value |-> 0, values |-> {},
             tag |-> Typed("", "")]
When(field, op, value) ==
    [Anything EXCEPT !.field = field, !.op = op, !.value = value]
InCountry(op) ==
    [Anything EXCEPT !.field = "country", !.op = op, !.values = {"us"}]
WithTag(tag) == [Anything EXCEPT !.field = "has_tag", !.tag = tag]

TagRule(id, mode, conditions, add, remove) ==
    [id |-> id, priority |-> id, enabled |-> TRUE, matchMode |-> mode,
     conditions |-> conditions, addTags |-> add, removeTags |-> remove]

TagCatalogue ==
    { TagRule(1, "all", {When("order_count", "gte", 2)},
              <<Typed("vip", "lower")>>, << >>),
      TagRule(2, "all", {When("lifetime_spend", "lte", 5)},
              << >>, <<Typed("vip", "upper")>>),
      TagRule(3, "any", {InCountry("in"),
                         When("days_since_last_order", "lte", 30)},
              <<Typed("vip", "upper"), Typed("gold", "lower")>>, << >>),
      TagRule(4, "all", {WithTag(Typed("vip", "lower"))},
              <<Typed("gold", "upper")>>, <<Typed("new", "lower")>>),
      TagRule(5, "any", {}, << >>, <<Typed("gold", "lower")>>),
      TagRule(6, "all", {InCountry("not_in")},
              << >>, <<Typed("gold", "lower")>>) }

MCTagCases ==
    { [rules |-> r,
       facts |-> [order_count |-> n, lifetime_spend |-> s, country |-> c,
                  days_since_last_order |-> d, tags |-> t]] :
      r \in kSubset(3, TagCatalogue) \cup kSubset(1, TagCatalogue),
      n \in {0, 3}, s \in {1, 9}, c \in {Nothing, <<"us">>},
      d \in {Nothing, <<10>>},
      t \in {{}, {Typed("vip", "upper")},
             {Typed("vip", "lower"), Typed("gold", "upper")},
             {Typed("new", "upper")}} }

(***************************************************************************)
(* Imports: files of up to three rows                                      *)
(***************************************************************************)
Number(n) == [is |-> "number", n |-> n]
Blank == [is |-> "blank", n |-> 0]
Bad == [is |-> "bad", n |-> 0]

FileRow(name, type, value, min, max) ==
    [line |-> 0, name |-> name, type |-> type, value |-> value, min |-> min,
     max |-> max, applies |-> "all", skus |-> {}, tags |-> {},
     priority |-> Blank, starts |-> Blank, ends |-> Blank]

RowCatalogue ==
    { FileRow("gold", "percentage", Number(5), Number(5), Number(19)),
      FileRow("gold", "percentage", Number(12), Number(20), Blank),
      FileRow("gold", "fixed_price", Blank, Number(5), Blank),
      FileRow("gold", "amount_off", Bad, Number(5), Blank),
      FileRow("gold", "percent", Number(0), Number(2), Bad),
      FileRow("silver", "percentage", Number(101), Number(1), Blank),
      FileRow("silver", "nonsense", Number(3), Number(0), Blank),
      FileRow("", "percentage", Number(5), Number(5), Blank),
      [FileRow("gold", "price", Number(8), Number(1), Number(4))
         EXCEPT !.applies = "variants", !.skus = {"k1", "k2"}],
      [FileRow("silver", "amount", Number(2), Number(1), Blank)
         EXCEPT !.applies = "variants", !.skus = {"k1", "gone"}],
      [FileRow("silver", "percentage", Number(5), Bad, Blank)
         EXCEPT !.tags = {"wholesale"}, !.starts = Number(4)],
      [FileRow("silver", "percentage", Number(5), Number(1), Number(9))
         EXCEPT !.starts = Number(4), !.ends = Number(2), !.priority = Bad] }

MCImportCases ==
    { [template |-> t, ids |-> [k1 |-> "v1", k2 |-> "v2"], existing |-> {"gold"},
       rows |-> [i \in 1 .. n |-> [r[i] EXCEPT !.line = i + 1]]] :
      t \in {"rules", "quantity_breaks"}, n \in {3},
      r \in [1 .. 3 -> RowCatalogue] }

(***************************************************************************)
(* Approval: up to two criteria                                            *)
(***************************************************************************)
Criterion(field, op, values, key) ==
    [field |-> field, atLeast |-> <<3>>, op |-> op, values |-> values,
     key |-> key, equals |-> "shop"]

MCCriteria ==
    { Criterion("vat_valid", "in", {}, ""),
      Criterion("existing_customer", "in", {}, ""),
      Criterion("years_in_business", "in", {}, ""),
      [Criterion("years_in_business", "in", {}, "") EXCEPT !.atLeast = << >>],
      Criterion("country", "in", {"us"}, ""),
      Criterion("country", "not_in", {"us"}, ""),
      Criterion("country", "not_in", {}, ""),
      Criterion("country", "near", {"us"}, ""),
      Criterion("has_upload", "in", {}, ""),
      Criterion("has_upload", "in", {}, "licence"),
      Criterion("answer", "in", {}, "type"),
      Criterion("answer", "in", {}, "") }

MCStoredCases ==
    { [enabled |-> e, criteria |-> c, otherwise |-> o] :
      e \in BOOLEAN,
      c \in {SetToSeq(few) : few \in UNION {kSubset(n, MCCriteria) : n \in 0 .. 2}},
      o \in {"review", "reject"} }

MCApplicants ==
    [vat: {"VALID", "UNVERIFIED"}, years: {<< >>, <<1>>, <<5>>},
     country: {<< >>, <<"us">>, <<"de">>},
     uploads: {{}, {"licence"}, {"photo"}},
     answers: [{"type"} -> {<< >>, <<"shop">>, <<"cafe">>}],
     existing: BOOLEAN]

(***************************************************************************)
(* Checkout: one line or two, rules that may not read back                 *)
(***************************************************************************)
Published(rule, garbled) == [rule |-> rule, garbled |-> garbled]

CheckoutCatalogue ==
    { Published(Open("percentage", TRUE, 600), {}),
      Published([Open("percentage", TRUE, 5000)
                   EXCEPT !.starts = <<dayStart(3, 11)>>,
                          !.ends = <<dayEnd(3, 11)>>], {}),
      Published(Open("fixed_price", FALSE, Usd(2000)), {}),
      Published(Open("percentage", TRUE, 600), {"percentage"}),
      Published(Open("amount_off", TRUE, Usd(100)), {"value"}),
      Published(RuleOf("amount_off", TRUE, [mode |-> "groups", ids |-> {"gold"}],
                       Everyone, Usd(300)), {}),
      Published(RuleOf("amount_off", TRUE, Tagged, Elsewhere, Usd(200)), {}),
      Published(RuleOf("amount_off", TRUE, Tagged, Elsewhere, Usd(200)),
                {"markets"}),
      Published(Open("volume_tier", TRUE, <<Tier(3, Nothing, "percentage", 1500)>>),
                {}),
      Published(Open("cart_value_tier", TRUE,
                     <<Tier(3000, Nothing, "fixed_price", 900)>>), {}),
      Published(RuleOf("percentage", TRUE,
                       [mode |-> "companies", ids |-> {"firm"}], Everyone, 2000),
                {}) }

CartLine(unit, quantity, isActive) ==
    [isVariant |-> TRUE, isActive |-> isActive, quantity |-> quantity,
     unit |-> unit, ids |-> Product(0).ids]

CartOf(lines, subtotal, currency, customer) ==
    [lines |-> lines, subtotal |-> subtotal, currency |-> currency,
     customer |-> customer, country |-> <<"us">>, date |-> 3,
     discountsProducts |-> TRUE, hasMethod |-> TRUE]

Customer(companies) ==
    <<[id |-> "c1", tags |-> {"wholesale"}, groups |-> {"gold"},
       companies |-> companies]>>

MCCartCases ==
    { [published |-> [v |-> 1, rules |-> [i \in 1 .. 2 |->
                        [r[i] EXCEPT !.rule.id = i]]],
       zone |-> 11, hour |-> h,
       cart |-> CartOf(lines, <<10 * MapThenSumSet(LAMBDA i :
                           1075 * lines[i].quantity, DOMAIN lines)>>,
                       "usd", customer)] :
      r \in [1 .. 2 -> CheckoutCatalogue], h \in {0, 23},
      lines \in {<<CartLine(<<10750>>, q, TRUE)>> : q \in {1, 3}}
                \cup {<<CartLine(<<10750>>, 2, TRUE), CartLine(<<10750>>, 2, FALSE)>>},
      customer \in {Nothing, Customer({}), Customer({"firm"})} }

(* The zones on which midday UTC is in the shop's own day, and those ahead.*)
Schedules(zones) ==
    [zone: zones, day: 1 .. 6, starts: {3}, ends: {3, 4}]
MCScheduleCases == Schedules(-11 .. 11)
MCAheadCases == Schedules(12 .. 14)

CartLimit(group, low, high, units) ==
    [group |-> group, enabled |-> TRUE, countries |-> {"us"}, currency |-> "usd",
     minSubtotal |-> low, maxSubtotal |-> high, minQuantity |-> units,
     maxQuantity |-> Nothing, quantityIncrement |-> <<2>>]

MCBlockCases ==
    { [published |->
         [i \in 1 .. 2 |-> [limit |-> [l[i] EXCEPT !.currency = c],
                            garbled |-> IF i = 1 THEN lost ELSE {}]],
       subtotal |-> n,
       cart |-> CartOf(<<CartLine(<<10000>>, q, TRUE)>>,
                       <<IF c = "usd" THEN 10 * n ELSE 1000 * n>>, c, Customer({}))] :
      l \in [1 .. 2 -> {CartLimit(g, low, high, units) :
                          g \in {Nothing, <<"gold">>}, low \in {Nothing, <<50>>},
                          high \in {Nothing, <<80>>}, units \in {Nothing, <<3>>}}],
      lost \in {{}, {"minSubtotal"}, {"maxSubtotal", "quantityIncrement"}},
      c \in {"usd", "jpy"}, n \in {49, 81}, q \in {1, 2} }

MCPayLaterCases ==
    { [customer |-> c, group |-> Source(<<60>>, <<4>>), invoices |-> i,
       now |-> 40, blocks |-> b, garbled |-> lost, total |-> k,
       cart |-> CartOf(<< >>, <<10 * k>>, "usd", Customer({}))] :
      c \in {Nothing, Source(<<30>>, Nothing), Source(<<30>>, <<5>>)},
      i \in {<< >>} \cup {<<invoice>> : invoice \in MCInvoices},
      b \in BOOLEAN, k \in {1, 2, 5},
      lost \in {{}, {"days"}, {"currency"}, {"creditLimit"}} }
=============================================================================
