----------------------------- MODULE OrderLimits -----------------------------
(***************************************************************************)
(* The order limits engine (packages/order-limits/src): which limit governs*)
(* a cart, which of its bounds the cart misses and by how much, and what   *)
(* is asked of a limit before it is saved.  Pure: no variables.            *)
(*                                                                         *)
(* A limit is a record of group, enabled, countries, currency, minSubtotal,*)
(* maxSubtotal, minQuantity, maxQuantity and quantityIncrement; what may be*)
(* null is a sequence of at most one element.                              *)
(***************************************************************************)
EXTENDS Integers, Sequences, FiniteSetsExt

appliesInCountry(limit, country) ==
    limit.countries # {} =>
        country # << >> /\ country[1] \in limit.countries

Usable(limit, cart) == limit.enabled /\ appliesInCountry(limit, cart.country)

(* The buyer's group's limit first, then the store-wide one; of several the*)
(* first in the list.  At most one.                                        *)
limitFor(limits, cart) ==
    LET usable == {i \in DOMAIN limits : Usable(limits[i], cart)}
        storeWide == {i \in usable : limits[i].group = << >>}
        own == {i \in usable \ storeWide : limits[i].group[1] \in cart.groups}
    IN  IF own # {} THEN <<limits[Min(own)]>>
        ELSE IF storeWide # {} THEN <<limits[Min(storeWide)]>> ELSE << >>

Below(amount, bound) == bound # << >> /\ amount < bound[1]
Above(amount, bound) == bound # << >> /\ amount > bound[1]

HasCases(limit) ==
    limit.quantityIncrement # << >> /\ limit.quantityIncrement[1] > 1

(* The quantity bounds a cart misses, each with the gap it is told.        *)
UnitsShort(limit, quantity) ==
    IF Below(quantity, limit.minQuantity)
    THEN {limit.minQuantity[1] - quantity} ELSE {}

UnitsOver(limit, quantity) ==
    IF Above(quantity, limit.maxQuantity)
    THEN {quantity - limit.maxQuantity[1]} ELSE {}

Remainder(limit, quantity) ==
    IF HasCases(limit) THEN quantity % limit.quantityIncrement[1] ELSE 0

(* The remainder reported as the gap.                                      *)
UnitsPastCase(limit, quantity) ==
    IF Remainder(limit, quantity) # 0 THEN {Remainder(limit, quantity)} ELSE {}
(* Up to the next case, not down.                                          *)
UnitsToNextCase(limit, quantity) ==
    IF Remainder(limit, quantity) # 0
    THEN {limit.quantityIncrement[1] - Remainder(limit, quantity)} ELSE {}

violationsFor(limit, cart) ==
    LET comparable == limit.currency = cart.currency
        moneyShort == comparable /\ Below(cart.subtotal, limit.minSubtotal)
        moneyOver == comparable /\ Above(cart.subtotal, limit.maxSubtotal)
    IN  {<<"below_minimum_subtotal", gap>> : gap \in
            IF moneyShort THEN {limit.minSubtotal[1] - cart.subtotal} ELSE {}}
        \cup {<<"above_maximum_subtotal", gap>> : gap \in
            IF moneyOver THEN {cart.subtotal - limit.maxSubtotal[1]} ELSE {}}
        \cup {<<"below_minimum_quantity", gap>> :
                 gap \in UnitsShort(limit, cart.quantity)}
        \cup {<<"above_maximum_quantity", gap>> :
                 gap \in UnitsOver(limit, cart.quantity)}
        \cup {<<"not_a_multiple", gap>> :
                 gap \in UnitsToNextCase(limit, cart.quantity)}

(* A guest and an empty cart are held to nothing.  The bypass for a till is*)
(* left out: the checkout Function never passes one.                       *)
evaluateLimits(limits, cart) ==
    LET applied == limitFor(limits, cart)
        heldTo == /\ cart.isAuthenticated
                  /\ cart.quantity > 0 \/ cart.subtotal > 0
                  /\ applied # << >>
    IN  IF heldTo THEN violationsFor(applied[1], cart) ELSE {}

(***************************************************************************)
(* validateLimit: TRUE when it raises no issue.                            *)
(***************************************************************************)
InOrderOrOpen(low, high) == low # << >> /\ high # << >> => low[1] <= high[1]

NotNegative(bound) == bound # << >> => bound[1] >= 0

(* The minimum left to disagree with the cases.                            *)
CasesFitAnyMinimum(limit) == TRUE
CasesFitMinimum(limit) ==
    HasCases(limit) /\ limit.minQuantity # << >>
      => Remainder(limit, limit.minQuantity[1]) = 0

CasesFitMaximum(limit) ==
    HasCases(limit) /\ limit.maxQuantity # << >>
      => limit.maxQuantity[1] >= limit.quantityIncrement[1]

validateLimit(limit) ==
    LET bounds == {limit.minSubtotal, limit.maxSubtotal,
                   limit.minQuantity, limit.maxQuantity}
    IN  /\ (\E b \in bounds : b # << >>) \/ HasCases(limit)
        /\ \A b \in bounds : NotNegative(b)
        /\ InOrderOrOpen(limit.minSubtotal, limit.maxSubtotal)
        /\ InOrderOrOpen(limit.minQuantity, limit.maxQuantity)
        /\ limit.quantityIncrement # << >> =>
             limit.quantityIncrement[1] = 0 \/ limit.quantityIncrement[1] >= 2
        /\ CasesFitMinimum(limit)
        /\ CasesFitMaximum(limit)
=============================================================================
