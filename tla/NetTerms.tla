------------------------------ MODULE NetTerms ------------------------------
(***************************************************************************)
(* The net terms engine (packages/net-terms/src): whose terms a buyer has, *)
(* whether a cart may be put on them, and how late what is owed is.  Pure: *)
(* no variables.  A source of terms is a record of days and creditLimit;   *)
(* what may be null is a sequence of at most one element.                  *)
(***************************************************************************)
EXTENDS Integers, Sequences, FiniteSetsExt

SetsDays(source) == source # << >> /\ source[1].days # << >>

(* A ceiling of the buyer's own kept on the days of their group.           *)
effectiveMerged(customer, group) ==
    LET chosen == IF SetsDays(customer) THEN customer
                  ELSE IF SetsDays(group) THEN group ELSE << >>
    IN  IF chosen = << >> \/ ~SetsDays(chosen) THEN << >>
        ELSE IF chosen[1].days[1] <= 0 THEN << >>
        ELSE IF customer = << >> THEN chosen
        ELSE <<[chosen[1] EXCEPT !.creditLimit = customer[1].creditLimit]>>
(* A buyer's own terms replace their group's, they are not merged.         *)
effectiveTerms(customer, group) ==
    LET chosen == IF SetsDays(customer) THEN customer
                  ELSE IF SetsDays(group) THEN group ELSE << >>
    IN  IF chosen = << >> \/ ~SetsDays(chosen) THEN << >>
        ELSE IF chosen[1].days[1] <= 0 THEN << >> ELSE chosen

termsWithLimit(customer, group) ==
    LET terms == effectiveTerms(customer, group)
        ceiling == terms[1].creditLimit
    IN  IF terms = << >> THEN << >>
        ELSE <<[days |-> terms[1].days[1],
                limit |-> IF ceiling = << >> \/ ceiling[1] < 0 THEN << >>
                          ELSE ceiling]>>

Answer(eligible, reason, headroom) ==
    [eligible |-> eligible, reason |-> reason, headroom |-> headroom]

(* What is owed already left out of the sum.                               *)
OverLimitAlone(facts) == facts.cartTotal > facts.terms[1].limit[1]
OverLimit(facts) ==
    facts.outstanding + facts.cartTotal > facts.terms[1].limit[1]

(* May this buyer pay later?  One currency throughout; the checkout counts *)
(* no overdue invoice where the shop lets them pass (overdueBlocks).       *)
checkEligibility(facts) ==
    LET headroom == facts.terms[1].limit[1] - facts.outstanding
    IN  IF ~facts.isAuthenticated THEN Answer(FALSE, "not_authenticated", << >>)
        ELSE IF facts.terms = << >> THEN Answer(FALSE, "no_terms", << >>)
        ELSE IF facts.overdueCount > 0 THEN Answer(FALSE, "has_overdue", << >>)
        ELSE IF facts.terms[1].limit = << >> THEN Answer(TRUE, "none", << >>)
        ELSE IF OverLimit(facts)
        THEN Answer(FALSE, "over_credit_limit",
                    <<IF headroom > 0 THEN headroom ELSE 0>>)
        ELSE Answer(TRUE, "none", <<headroom>>)

(***************************************************************************)
(* Aging (aging.ts).  An invoice is a record of amount, paid, isPaid and   *)
(* dueAt; days are whole.                                                  *)
(***************************************************************************)
AGING_BUCKETS == {"current", "days_1_15", "days_16_30", "days_30_plus"}

bucketFor(dueAt, now) ==
    LET late == now - dueAt[1]
    IN  IF dueAt = << >> \/ late <= 0 THEN "current"
        ELSE IF late <= 15 THEN "days_1_15"
        ELSE IF late <= 30 THEN "days_16_30" ELSE "days_30_plus"

balanceOf(invoice) ==
    IF invoice.amount > invoice.paid THEN invoice.amount - invoice.paid ELSE 0

isSettled(invoice) == invoice.isPaid \/ balanceOf(invoice) = 0

Total(invoices, indices) ==
    MapThenSumSet(LAMBDA i : balanceOf(invoices[i]), indices)

summariseAging(invoices, now) ==
    LET open == {i \in DOMAIN invoices : ~isSettled(invoices[i])}
        within(b) == {i \in open : bucketFor(invoices[i].dueAt, now) = b}
        late == open \ within("current")
    IN  [buckets |-> [b \in AGING_BUCKETS |-> Total(invoices, within(b))],
         outstanding |-> Total(invoices, open),
         overdue |-> Total(invoices, late),
         overdueCount |-> Cardinality(late)]
=============================================================================
