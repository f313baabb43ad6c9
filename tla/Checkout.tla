------------------------------- MODULE Checkout -------------------------------
(***************************************************************************)
(* What is shown and what is charged.  The three Functions that Shopify    *)
(* runs at checkout (extensions/mannon-discount, -limits and -terms) read  *)
(* what the app published (codec.ts of the three packages) and ask the     *)
(* engines; the storefront's quick order asks the same engine from the     *)
(* app's own copy.  Pure: no variables.                                    *)
(*                                                                         *)
(* An amount on the wire is a decimal string, held as its value in         *)
(* thousandths, or Nothing when it is none.  What was published is held as *)
(* what was meant and `garbled`, the names of the fields that do not read  *)
(* back.  Time is in hours; a day is a number, and a zone the hours it is  *)
(* ahead of UTC.  A cart has one currency.                                 *)
(***************************************************************************)
EXTENDS PricingEngine, OrderLimits, NetTerms

currencyExponent == [usd |-> 2, jpy |-> 0]
(* Thousandths in the smallest unit there is of it.                        *)
Grain(currency) == IF currencyExponent[currency] = 2 THEN 10 ELSE 1000

(* Refused where a digit that counts would be lost.                        *)
parseMoney(decimal, currency) ==
    IF IsThere(decimal) /\ decimal[1] % Grain(currency) = 0
    THEN <<decimal[1] \div Grain(currency)>> ELSE Nothing
formatMoney(minor, currency) == minor * Grain(currency)

OrZero(opt) == IF IsThere(opt) THEN opt[1] ELSE 0

(* The schedule a merchant saves: whole days of the shop's own zone.       *)
dayStart(day, zone) == 24 * day - zone
dayEnd(day, zone)   == dayStart(day + 1, zone) - 1

(***************************************************************************)
(* The published ruleset, read back (pricing-engine/src/codec.ts).  A rule *)
(* that lost what it needs is dropped alone; a market scope that is not    *)
(* there is everywhere, and a percentage that is no number moves nothing.  *)
(***************************************************************************)
RULESET_VERSIONS == {1}
(* A schedule that is not there is no bound; a date that is none, and a    *)
(* priority that is no number, are not read.                               *)
NeededFields == {"id", "name", "targets", "audience", "starts", "ends",
                 "createdAt", "priority", "kind", "value"}

readRule(wire) ==
    LET rule == wire.rule
        lost == wire.garbled
    IN  IF lost \cap NeededFields # {} THEN << >>
        ELSE <<[rule EXCEPT
                 !.markets = IF "markets" \in lost THEN [mode |-> "all"] ELSE @,
                 !.combinable = @ /\ "combinable" \notin lost,
                 !.value = IF "percentage" \in lost /\ rule.kind = "percentage"
                           THEN -1 ELSE @]>>

deserializeRuleset(published) ==
    IF ~IsThere(published) \/ published[1].v \notin RULESET_VERSIONS THEN << >>
    ELSE FoldLeft(LAMBDA read, wire : read \o readRule(wire),
                  << >>, published[1].rules)

(***************************************************************************)
(* The discount Function.  It does not know the market a buyer is in, and  *)
(* leaves out the rules that ask; of the shop's clock it knows the date.   *)
(***************************************************************************)
isSupportedAtCheckout(rule) == rule.markets.mode = "all"

readNow(date) == 24 * date + 12

readCustomer(customer) ==
    IF ~IsThere(customer) THEN Nothing
    ELSE <<[customers |-> {customer[1].id}, tags |-> customer[1].tags,
            groups |-> customer[1].groups, companies |-> customer[1].companies]>>

PriceOf(rules, price, ids, quantity, subtotal, who, cart, now) ==
    resolvePrice(rules,
        [product |-> [price |-> price, ids |-> ids], quantity |-> quantity,
         cart |-> subtotal, customer |-> who, market |-> "",
         currency |-> cart.currency, now |-> now]).answer.unitPrice

(* What comes off each unit: Nothing where nothing does, where the rules   *)
(* would raise the price, and where the line cannot be read.               *)
discountFor(line, rules, cart) ==
    LET list == parseMoney(line.unit, cart.currency)
        priced == PriceOf(rules, list[1], line.ids, line.quantity,
                          parseMoney(cart.subtotal, cart.currency),
                          readCustomer(cart.customer), cart, readNow(cart.date))
    IN  IF line.isVariant /\ line.quantity >= 1 /\ IsThere(list)
             /\ priced < list[1]
        THEN <<formatMoney(list[1] - priced, cart.currency)>> ELSE Nothing

generate(published, cart) ==
    LET read == deserializeRuleset(published)
        usable == Only(read, {r \in Range(read) : isSupportedAtCheckout(r)})
    IN  [i \in DOMAIN cart.lines |->
           IF cart.discountsProducts THEN discountFor(cart.lines[i], usable, cart)
           ELSE Nothing]

(***************************************************************************)
(* Quick order and quotes (quick-order.server.ts, quotes/pricing.server.ts)*)
(* price each line as if it were the whole order, and know no company.     *)
(***************************************************************************)
priceLine(line, rules, cart, now) ==
    LET list == OrZero(parseMoney(line.unit, cart.currency))
        units == IF line.quantity < 1 THEN 1 ELSE line.quantity
        known == IF IsThere(cart.customer)
                 THEN <<[cart.customer[1] EXCEPT !.companies = {}]>> ELSE Nothing
    IN  PriceOf(rules, list, line.ids, units, <<list * units>>,
                readCustomer(known), cart, now)

(* The lines that can be sold, each with the price the buyer is shown.     *)
priceQuickOrder(rules, cart, now) ==
    LET sold == {i \in DOMAIN cart.lines : cart.lines[i].isActive}
        price == [i \in sold |-> priceLine(cart.lines[i], rules, cart, now)]
    IN  [prices |-> price,
         subtotal |-> MapThenSumSet(LAMBDA i : price[i] * cart.lines[i].quantity,
                                    sold)]

(***************************************************************************)
(* The limits Function.  A bound that cannot be read is no bound, a limit  *)
(* without an id is none, a total that cannot be read is zero.             *)
(***************************************************************************)
LimitUnread == [group |-> Nothing, enabled |-> TRUE, countries |-> {},
                currency |-> "", minSubtotal |-> Nothing,
                maxSubtotal |-> Nothing, minQuantity |-> Nothing,
                maxQuantity |-> Nothing, quantityIncrement |-> Nothing]

readLimit(wire) ==
    IF "id" \in wire.garbled THEN << >>
    ELSE <<[k \in DOMAIN wire.limit |->
              IF k \in wire.garbled THEN LimitUnread[k] ELSE wire.limit[k]]>>

Units(cart) ==
    MapThenSumSet(LAMBDA i : cart.lines[i].quantity, DOMAIN cart.lines)

deserializeLimits(published) ==
    FoldLeft(LAMBDA read, wire : read \o readLimit(wire), << >>, published)

limitsFunction(published, cart) ==
    evaluateLimits(
        deserializeLimits(published),
        [subtotal |-> OrZero(parseMoney(cart.subtotal, cart.currency)),
         currency |-> cart.currency, quantity |-> Units(cart),
         groups |-> IF IsThere(cart.customer) THEN cart.customer[1].groups ELSE {},
         country |-> cart.country, isAuthenticated |-> IsThere(cart.customer)])

(***************************************************************************)
(* The terms Function: what it does to the pay-later method, which is there*)
(* under the name the settings give it or is not.  The days and the        *)
(* currency have to read back; a ceiling that does not is none.            *)
(***************************************************************************)
publishableTerms(terms, ledger, overdueBlocks, currency) ==
    IF terms = << >> THEN Nothing
    ELSE <<[days |-> terms[1].days, creditLimit |-> terms[1].limit,
            outstanding |-> ledger.outstanding, currency |-> currency,
            overdueCount |-> IF overdueBlocks THEN ledger.overdueCount ELSE 0]>>

deserializeBuyerTerms(published, garbled) ==
    IF ~IsThere(published) \/ garbled \cap {"days", "currency"} # {} THEN Nothing
    ELSE <<[published[1] EXCEPT
              !.creditLimit = IF "creditLimit" \in garbled THEN Nothing ELSE @,
              !.outstanding = IF "outstanding" \in garbled THEN 0 ELSE @,
              !.overdueCount = IF "overdueCount" \in garbled THEN 0 ELSE @]>>

(* Two decimal places whatever the currency.                               *)
toCents(decimal) == IF IsThere(decimal) THEN (decimal[1] + 5) \div 10 ELSE 0

termsFunction(published, garbled, cart) ==
    LET read == deserializeBuyerTerms(published, garbled)
        facts == [isAuthenticated |-> IsThere(cart.customer),
                  terms |-> IF IsThere(read)
                            THEN <<[days |-> read[1].days,
                                    limit |-> read[1].creditLimit]>>
                            ELSE << >>,
                  outstanding |-> IF IsThere(read) THEN read[1].outstanding ELSE 0,
                  overdueCount |-> IF IsThere(read) THEN read[1].overdueCount ELSE 0,
                  cartTotal |-> toCents(cart.subtotal)]
        comparable == IsThere(read) /\ IsThere(read[1].creditLimit) =>
                        read[1].currency = cart.currency
    IN  IF ~cart.hasMethod THEN "unchanged"
        ELSE IF checkEligibility(facts).eligible /\ comparable THEN "offered"
        ELSE "hidden"
=============================================================================
