---------------------------- MODULE EnginesProofs -----------------------------
(***************************************************************************)
(* What the pure engines answer, for every question and not the cases that *)
(* TLC asks.  The invariants of a behaviour that asks follow from what a   *)
(* question is (QuestionAsked) and a fact about the engine alone.          *)
(*                                                                         *)
(* First the engines that reckon without a fold: the units a limit says to *)
(* add, the days of a schedule, the credit that is extended and offered,   *)
(* the order of the cascade, the tiers of a volume rule, a rounded price,  *)
(* the parts of a line and the conditions of a segment.                    *)
(*                                                                         *)
(* Then what a buyer pays.  The pricing engine folds over its rules and    *)
(* reduces its fractions by Euclid's recursion.  Each fold is unrolled into*)
(* a sequence of values (the lemmas named Steps), which induction over the *)
(* positions then speaks of; the recursion is shown to define the greatest *)
(* common divisor.  The walk down the cascade keeps Sound: the prices told *)
(* descend, and the price is the exact product of what was applied.        *)
(*                                                                         *)
(* Then the engines that fold over what they read: limits and rules that   *)
(* were published are read back as they were (AddsUp), the decisions of tag*)
(* rules stay one to a tag, sums over a finite set are taken apart, and the*)
(* tiers and lines of an imported file are followed row by row.  With these*)
(* every part of AnswersHold is proved.                                    *)
(***************************************************************************)
EXTENDS Engines, Reports, FiniteSetTheorems, NaturalsInduction,
        WellFoundedInduction, TLAPS

\* Division, of which the solver needs to be told this much.
LEMMA Divides ==
    ASSUME NEW n \in Int, NEW k \in Nat \ {0}
    PROVE  /\ n \div k \in Int /\ n % k \in 0 .. k - 1
           /\ n = k * (n \div k) + (n % k)
BY SMT

LEMMA ScaledOrder ==
    ASSUME NEW k \in Nat \ {0}, NEW a \in Int, NEW b \in Int, k * a < k * b
    PROVE  a + 1 <= b
BY SMT

LEMMA Multiple ==
    ASSUME NEW k \in Nat \ {0}, NEW a \in Int
    PROVE  (k * a) % k = 0 /\ (k * a) \div k = a
BY SMT

LEMMA QuotientIs ==
    ASSUME NEW k \in Nat \ {0}, NEW n \in Int, NEW a \in Int, NEW r \in 0 .. k - 1, n = k * a + r
    PROVE  n \div k = a /\ n % k = r
BY SMT

LEMMA LargestOfTwo ==
    ASSUME NEW a \in Int, NEW b \in Int
    PROVE  /\ Max({a}) = a
           /\ Max({a} \cup {b}) = IF a >= b THEN a ELSE b
<1>1. Max({a}) = a  BY DEF Max
<1>2. Max({a} \cup {b}) = IF a >= b THEN a ELSE b
      <2>. DEFINE both == {a} \cup {b}
                  big == IF a >= b THEN a ELSE b
      <2>1. big \in both /\ \A y \in both : big >= y  OBVIOUS
      <2>2. \A x \in both : (\A y \in both : x >= y) => x = big  OBVIOUS
      <2>. HIDE DEF both, big
      <2>3. (CHOOSE x \in both : \A y \in both : x >= y) = big  BY <2>1, <2>2
      <2>. QED  BY <2>3 DEF both, big, Max
<1>. QED  BY <1>1, <1>2

\* A bound of a limit, which may be left open.
Bound == {<< >>} \cup {<<n>> : n \in Int}

\* What may be null is there once or not at all.
LEMMA OnceOrNot ==
    ASSUME NEW S, NEW opt, MayBe(S, opt)
    PROVE  opt = << >> \/ \E x \in S : opt = <<x>>
<1>1. opt \in Seq(S) /\ Len(opt) <= 1  BY DEF MayBe
<1>2. CASE Len(opt) = 0  BY <1>1, <1>2
<1>3. CASE Len(opt) = 1
      <2>1. opt[1] \in S /\ opt = <<opt[1]>>  BY <1>1, <1>3
      <2>. QED  BY <2>1
<1>4. PICK n \in Nat : n = Len(opt)  BY <1>1
<1>5. n = 0 \/ n = 1  BY <1>1, <1>4
<1>. QED  BY <1>2, <1>3, <1>4, <1>5

LEMMA BoundIs ==
    ASSUME NEW opt, MayBe(Int, opt)
    PROVE  opt \in Bound
BY OnceOrNot DEF Bound

LEMMA AdviceIsRight ==
    ASSUME NEW limit, NEW quantity \in Nat,
           limit.minQuantity \in Bound, limit.maxQuantity \in Bound,
           limit.quantityIncrement \in Bound,
           validateLimit(limit), UnitsOver(limit, quantity) = {},
           limit.maxQuantity # << >> => Remainder(limit, limit.maxQuantity[1]) = 0
    PROVE  LET told == UnitsShort(limit, quantity) \cup UnitsToNextCase(limit, quantity)
               reached == quantity + IF told = {} THEN 0 ELSE Max(told)
           IN  UnitsShort(limit, reached) \cup UnitsOver(limit, reached)
                 \cup UnitsToNextCase(limit, reached) = {}
<1>. DEFINE low == limit.minQuantity
            high == limit.maxQuantity
            cases == limit.quantityIncrement
            rest(n) == Remainder(limit, n)
            short == IF Below(quantity, low) THEN low[1] - quantity ELSE 0
            past == IF rest(quantity) # 0 THEN cases[1] - rest(quantity) ELSE 0
            told == UnitsShort(limit, quantity) \cup UnitsToNextCase(limit, quantity)
            reached == quantity + IF told = {} THEN 0 ELSE Max(told)
<1>1. /\ low # << >> => low[1] \in Int
      /\ high # << >> => high[1] \in Int
      /\ cases # << >> => cases[1] \in Int
      BY DEF Bound
<1>2. HasCases(limit) => cases # << >> /\ cases[1] \in Nat \ {0}
      BY <1>1 DEF HasCases
<1>3. \A n \in Int : /\ ~HasCases(limit) => rest(n) = 0
                     /\ HasCases(limit) => /\ rest(n) \in 0 .. cases[1] - 1
                                           /\ rest(n) = n % cases[1]
      BY <1>2, Divides DEF Remainder
<1>4. /\ low # << >> /\ high # << >> => low[1] <= high[1]
      /\ low # << >> => rest(low[1]) = 0
      /\ high # << >> => rest(high[1]) = 0 /\ quantity <= high[1]
      <2>1. low # << >> /\ high # << >> => low[1] <= high[1]
            BY DEF validateLimit, InOrderOrOpen
      <2>2. low # << >> => rest(low[1]) = 0
            BY <1>1, <1>3 DEF validateLimit, CasesFitMinimum
      <2>3. ASSUME high # << >> PROVE rest(high[1]) = 0 /\ quantity <= high[1]
            <3>1. PICK h \in Int : h = high[1]  BY <1>1, <2>3
            <3>2. ~(quantity > high[1])
                  BY <2>3 DEF UnitsOver, Above
            <3>. QED  BY <2>3, <3>1, <3>2
      <2>. QED  BY <2>1, <2>2, <2>3
<1>5. short \in Nat /\ past \in Nat
      /\ (Below(quantity, low) <=> short # 0) /\ (rest(quantity) # 0 <=> past # 0)
      /\ (past # 0 => HasCases(limit))
      <2>1. Below(quantity, low) => short \in Nat /\ short # 0  BY <1>1 DEF Below
      <2>2. ASSUME rest(quantity) # 0
            PROVE  HasCases(limit) /\ past \in Nat /\ past # 0
            <3>1. HasCases(limit)  BY <1>3, <2>2
            <3>2. PICK k \in Nat \ {0} : k = cases[1]  BY <1>2, <3>1
            <3>3. PICK m \in 0 .. k - 1 : m = rest(quantity)
                  <4>1. quantity \in Int  OBVIOUS
                  <4>2. rest(quantity) \in 0 .. cases[1] - 1  BY <1>3, <3>1, <4>1, Zenon
                  <4>. QED  BY <3>2, <4>2, Zenon
            <3>4. past = k - m  BY <2>2, <3>2, <3>3
            <3>. QED  BY <3>1, <3>2, <3>3, <3>4
      <2>. QED  BY <2>1, <2>2
<1>6. told = (IF short # 0 THEN {short} ELSE {}) \cup (IF past # 0 THEN {past} ELSE {})
      BY <1>5 DEF UnitsShort, UnitsToNextCase
<1>. HIDE DEF short, past, told
<1>7. reached = quantity + (IF short >= past THEN short ELSE past)
      <2>1. CASE short # 0 /\ past # 0
            <3>1. told = {short} \cup {past}  BY <1>6, <2>1
            <3>2. Max({short} \cup {past}) = IF short >= past THEN short ELSE past
                  <4>1. short \in Int /\ past \in Int  BY <1>5
                  <4>. QED  BY <4>1, LargestOfTwo, Zenon
            <3>3. told # {}  BY <3>1
            <3>. QED  BY <3>1, <3>2, <3>3
      <2>2. CASE short # 0 /\ past = 0
            <3>1. told = {short}  BY <1>6, <2>2
            <3>. QED  BY <1>5, <2>2, <3>1, LargestOfTwo
      <2>3. CASE short = 0 /\ past # 0
            <3>1. told = {past}  BY <1>6, <2>3
            <3>. QED  BY <1>5, <2>3, <3>1, LargestOfTwo
      <2>4. CASE short = 0 /\ past = 0  BY <1>6, <2>4
      <2>. QED  BY <2>1, <2>2, <2>3, <2>4
<1>. HIDE DEF reached
<1>8. reached \in Nat  BY <1>5, <1>7
<1>9. low # << >> => reached >= low[1]
      <2>1. low # << >> => low[1] <= quantity + short
            BY <1>1 DEF short, Below
      <2>. QED  BY <1>1, <1>5, <1>7, <2>1
<1>10. rest(reached) = 0 /\ (high # << >> => reached <= high[1])
      <2>1. CASE short = 0 /\ past = 0
            BY <1>1, <1>4, <1>5, <1>7, <2>1
      <2>2. CASE short # 0 /\ short >= past
            <3>1. low # << >> /\ reached = low[1]
                  BY <1>1, <1>5, <1>7, <2>2 DEF short, Below
            <3>. QED  BY <1>4, <3>1
      <2>3. CASE past > short
            <3>. DEFINE k == cases[1]
            <3>1. HasCases(limit) /\ k \in Nat \ {0}  BY <1>2, <1>5, <2>3
            <3>2. PICK d \in Int : quantity = k * d + rest(quantity)
                  <4>1. PICK l \in Nat \ {0} : l = k  BY <3>1
                  <4>2. /\ quantity \div l \in Int
                        /\ quantity = l * (quantity \div l) + (quantity % l)
                        BY Divides
                  <4>3. rest(quantity) = quantity % l  BY <1>3, <3>1, <4>1
                  <4>. WITNESS quantity \div l \in Int
                  <4>. QED  BY <4>1, <4>2, <4>3
            <3>3. rest(quantity) # 0 /\ rest(quantity) \in 0 .. k - 1
                  BY <1>3, <1>5, <2>3, <3>1
            <3>4. past = k - rest(quantity)  BY <3>3 DEF past
            <3>5. reached = quantity + past  BY <1>5, <1>7, <2>3
            <3>. HIDE DEF k
            <3>6. reached = k * (d + 1)  BY <3>1, <3>2, <3>3, <3>4, <3>5
            <3>7. rest(reached) = 0
                  <4>1. reached % k = 0  BY <3>1, <3>6, Multiple
                  <4>. QED  BY <1>3, <1>8, <3>1, <4>1 DEF k
            <3>8. ASSUME high # << >> PROVE reached <= high[1]
                  <4>1. PICK e \in Int : high[1] = k * e
                        <5>1. high[1] \in Int /\ high[1] % k = 0
                              BY <1>1, <1>3, <1>4, <3>1, <3>8 DEF k
                        <5>2. PICK h \in Int, l \in Nat \ {0} : h = high[1] /\ l = k
                              BY <3>1, <5>1
                        <5>3. /\ h \div l \in Int /\ h % l = 0
                              /\ h = l * (h \div l) + (h % l)
                              BY <5>1, <5>2, Divides
                        <5>4. h = l * (h \div l)  BY <5>3
                        <5>. WITNESS h \div l \in Int
                        <5>. QED  BY <5>2, <5>4
                  <4>2. k * d < k * e  BY <1>4, <3>1, <3>2, <3>3, <3>8, <4>1
                  <4>3. d + 1 <= e  BY <3>1, <4>2, ScaledOrder
                  <4>. QED  BY <3>1, <3>6, <4>1, <4>3
            <3>. QED  BY <3>7, <3>8
      <2>. QED  BY <1>5, <2>1, <2>2, <2>3
<1>11. /\ UnitsShort(limit, reached) = {} /\ UnitsOver(limit, reached) = {}
       /\ UnitsToNextCase(limit, reached) = {}
      <2>1. UnitsShort(limit, reached) = {}  BY <1>1, <1>8, <1>9 DEF UnitsShort, Below
      <2>2. UnitsOver(limit, reached) = {}  BY <1>1, <1>8, <1>10 DEF UnitsOver, Above
      <2>3. UnitsToNextCase(limit, reached) = {}  BY <1>10 DEF UnitsToNextCase
      <2>. QED  BY <2>1, <2>2, <2>3
<1>. QED  BY <1>11 DEF reached, told
LEMMA HalvesCount ==
    ASSUME NEW n \in Nat
    PROVE  (10 * n + 5) \div 10 = n
BY SMT

\* Whichever engine is asked, it is asked one of its questions.
QuestionAsked ==
    /\ question.engine = "price" => question.case \in PriceCases
    /\ question.engine = "guard" => question.case \in GuardCases
    /\ question.engine = "limit" => question.case \in LimitCases
    /\ question.engine = "terms" => question.case \in TermsCases
    /\ question.engine = "tags" => question.case \in TagCases
    /\ question.engine = "import" => question.case \in ImportCases
    /\ question.engine = "approval" => question.case \in StoredCases
    /\ question.engine = "cart" => question.case \in CartCases
    /\ question.engine = "schedule" => question.case \in ScheduleCases
    /\ question.engine = "block" => question.case \in BlockCases
    /\ question.engine = "pay later" => question.case \in PayLaterCases

LEMMA AskedOnce ==
    ASSUME NEW engine, NEW cases, Ask(engine, cases)
    PROVE  question'.engine = engine /\ question'.case \in cases
BY DEF Ask

LEMMA QuestionsAreAsked == EnginesSpec => []QuestionAsked
<1>1. EnginesInit => QuestionAsked
      BY DEF EnginesInit, Unasked, QuestionAsked
<1>2. QuestionAsked /\ [EnginesNext]_question => QuestionAsked'
      <2>. SUFFICES ASSUME QuestionAsked, [EnginesNext]_question PROVE QuestionAsked'
           OBVIOUS
      <2>1. CASE AskPrice
            <3>1. question'.engine = "price" /\ question'.case \in PriceCases
                  BY <2>1, AskedOnce DEF AskPrice
            <3>. QED  BY <3>1 DEF QuestionAsked
      <2>2. CASE AskGuard
            <3>1. question'.engine = "guard" /\ question'.case \in GuardCases
                  BY <2>2, AskedOnce DEF AskGuard
            <3>. QED  BY <3>1 DEF QuestionAsked
      <2>3. CASE AskLimit
            <3>1. question'.engine = "limit" /\ question'.case \in LimitCases
                  BY <2>3, AskedOnce DEF AskLimit
            <3>. QED  BY <3>1 DEF QuestionAsked
      <2>4. CASE AskTerms
            <3>1. question'.engine = "terms" /\ question'.case \in TermsCases
                  BY <2>4, AskedOnce DEF AskTerms
            <3>. QED  BY <3>1 DEF QuestionAsked
      <2>5. CASE AskTags
            <3>1. question'.engine = "tags" /\ question'.case \in TagCases
                  BY <2>5, AskedOnce DEF AskTags
            <3>. QED  BY <3>1 DEF QuestionAsked
      <2>6. CASE AskImport
            <3>1. question'.engine = "import" /\ question'.case \in ImportCases
                  BY <2>6, AskedOnce DEF AskImport
            <3>. QED  BY <3>1 DEF QuestionAsked
      <2>7. CASE AskApproval
            <3>1. question'.engine = "approval" /\ question'.case \in StoredCases
                  BY <2>7, AskedOnce DEF AskApproval
            <3>. QED  BY <3>1 DEF QuestionAsked
      <2>8. CASE AskCart
            <3>1. question'.engine = "cart" /\ question'.case \in CartCases
                  BY <2>8, AskedOnce DEF AskCart
            <3>. QED  BY <3>1 DEF QuestionAsked
      <2>9. CASE AskSchedule
            <3>1. question'.engine = "schedule" /\ question'.case \in ScheduleCases
                  BY <2>9, AskedOnce DEF AskSchedule
            <3>. QED  BY <3>1 DEF QuestionAsked
      <2>10. CASE AskBlock
            <3>1. question'.engine = "block" /\ question'.case \in BlockCases
                  BY <2>10, AskedOnce DEF AskBlock
            <3>. QED  BY <3>1 DEF QuestionAsked
      <2>11. CASE AskPayLater
            <3>1. question'.engine = "pay later" /\ question'.case \in PayLaterCases
                  BY <2>11, AskedOnce DEF AskPayLater
            <3>. QED  BY <3>1 DEF QuestionAsked
      <2>12. CASE UNCHANGED question  BY <2>12 DEF QuestionAsked
      <2>. QED  BY <2>1, <2>2, <2>3, <2>4, <2>5, <2>6, <2>7, <2>8, <2>9, <2>10, <2>11, <2>12 DEF EnginesNext
<1>. QED  BY <1>1, <1>2, PTL DEF EnginesSpec

(***************************************************************************)
(* Whatever the limit that passed validation and the cart that is not over *)
(* its maximum: the units a buyer is told to add are enough, for the       *)
(* minimum and for whole cases, and do not take them over the maximum      *)
(* (order-limits/src).                                                     *)
(***************************************************************************)
THEOREM AdviceAlwaysWorks ==
    EnginesSpec => []AdviceWorks
<1>1. QuestionAsked => AdviceWorks
      <2>. SUFFICES ASSUME QuestionAsked, question.engine = "limit" PROVE AdviceWorks
           BY DEF AdviceWorks
      <2>1. PICK c \in LimitCases : c = question.case  BY DEF QuestionAsked
      <2>. DEFINE limit == c.limit
                  quantity == c.quantity
      <2>2. /\ quantity \in Nat
            /\ limit.minQuantity \in Bound /\ limit.maxQuantity \in Bound
            /\ limit.quantityIncrement \in Bound
            BY BoundIs, QuestionsAssumption DEF LimitAsked
      <2>3. ASSUME validateLimit(limit), UnitsOver(limit, quantity) = {},
                   limit.maxQuantity # << >> => Remainder(limit, limit.maxQuantity[1]) = 0
            PROVE  LET told == UnitsShort(limit, quantity) \cup UnitsToNextCase(limit, quantity)
                       reached == quantity + IF told = {} THEN 0 ELSE Max(told)
                   IN  UnitsShort(limit, reached) \cup UnitsOver(limit, reached)
                         \cup UnitsToNextCase(limit, reached) = {}
            <3>. HIDE DEF limit, quantity
            <3>. QED  BY <2>2, <2>3, AdviceIsRight
      <2>. QED  BY <2>1, <2>3 DEF AdviceWorks
<1>. QED  BY <1>1, QuestionsAreAsked, PTL

(***************************************************************************)
(* In any zone less than twelve hours ahead of UTC, and up to twelve       *)
(* behind, a rule scheduled from one day to another applies at checkout on *)
(* those days and on no other (rule-form.server.ts, mannon-discount's      *)
(* noon).                                                                  *)
(***************************************************************************)
THEOREM SchedulesKeepTheirDays ==
    ASSUME \A c \in ScheduleCases : c.zone \in -12 .. 11
    PROVE  EnginesSpec => []RunsOnItsDays
<1>1. QuestionAsked => RunsOnItsDays
      <2>. SUFFICES ASSUME QuestionAsked, question.engine = "schedule"
                    PROVE  RunsOnItsDays
           BY DEF RunsOnItsDays
      <2>1. PICK c \in ScheduleCases : c = question.case  BY DEF QuestionAsked
      <2>2. PICK zone \in -12 .. 11, day \in Int, starts \in Int, ends \in Int :
               zone = c.zone /\ day = c.day /\ starts = c.starts /\ ends = c.ends
            BY QuestionsAssumption DEF ScheduleAsked
      <2>. DEFINE schedule == [starts |-> <<dayStart(starts, zone)>>,
                               ends |-> <<dayEnd(ends, zone)>>]
      <2>3. scheduleReason(schedule, readNow(day)) = "none"
              <=> /\ ~(24 * day + 12 < 24 * starts - zone)
                  /\ ~(24 * day + 12 > 24 * (ends + 1) - zone - 1)
            BY DEF scheduleReason, dayStart, dayEnd, readNow, IsThere, Nothing
      <2>4. scheduleReason(schedule, readNow(day)) = "none" <=> day \in starts .. ends
            BY <2>3
      <2>. QED  BY <2>1, <2>2, <2>4 DEF RunsOnItsDays
<1>. QED  BY <1>1, QuestionsAreAsked, PTL

(***************************************************************************)
(* In a shop whose currency has two decimal places, pay later is offered   *)
(* to a signed-in buyer exactly where the ledger would extend credit, and  *)
(* where the days or the currency of the published terms are lost it is    *)
(* not offered at all: whatever the buyer, their group and their invoices  *)
(* (net-terms/src, mannon-terms).                                          *)
(***************************************************************************)
THEOREM PayLaterAlwaysAgrees ==
    EnginesSpec => []PayLaterAgrees
<1>1. QuestionAsked => PayLaterAgrees
      <2>. SUFFICES ASSUME QuestionAsked, question.engine = "pay later"
                    PROVE  PayLaterAgrees
           BY DEF PayLaterAgrees
      <2>1. PICK c \in PayLaterCases : c = question.case  BY DEF QuestionAsked
      <2>0. /\ c.total \in Nat /\ c.blocks \in BOOLEAN
            /\ c.cart.subtotal = <<10 * c.total>> /\ c.cart.currency = "usd"
            /\ IsThere(c.cart.customer) /\ c.cart.hasMethod
            BY QuestionsAssumption DEF PayLaterAsked
      <2>2. PICK ledger : ledger = summariseAging(c.invoices, c.now)  OBVIOUS
      <2>3. PICK terms : terms = termsWithLimit(c.customer, c.group)  OBVIOUS
      <2>. DEFINE late == IF c.blocks THEN ledger.overdueCount ELSE 0
                  facts == [isAuthenticated |-> TRUE, terms |-> terms,
                            outstanding |-> ledger.outstanding, cartTotal |-> c.total,
                            overdueCount |-> late]
                  sent == publishableTerms(terms, ledger, c.blocks, "usd")
                  answer == termsFunction(sent, c.garbled, c.cart)
      <2>4. toCents(c.cart.subtotal) = c.total
            <3>1. PICK n \in Nat : n = c.total  BY <2>0
            <3>2. (10 * n + 5) \div 10 = n  BY HalvesCount
            <3>3. c.cart.subtotal = <<10 * n>>  BY <2>0, <3>1
            <3>4. toCents(<<10 * n>>) = (10 * n + 5) \div 10
                  BY DEF toCents, IsThere, Nothing
            <3>. QED  BY <3>1, <3>2, <3>3, <3>4
      <2>5. terms = << >> \/ \E d, l : terms = <<[days |-> d, limit |-> l]>>
            BY <2>3 DEF termsWithLimit
      <2>6. ASSUME c.garbled = {}
            PROVE  answer = "offered" <=> checkEligibility(facts).eligible
            <3>1. CASE terms = << >>
                  BY <2>1, <2>6, <3>1 DEF termsFunction, deserializeBuyerTerms,
                     publishableTerms, checkEligibility, Answer, IsThere, Nothing
            <3>2. ASSUME NEW d, NEW l, terms = <<[days |-> d, limit |-> l]>>
                  PROVE  answer = "offered" <=> checkEligibility(facts).eligible
                  <4>. DEFINE row == [days |-> d, creditLimit |-> l,
                                      outstanding |-> ledger.outstanding,
                                      currency |-> "usd", overdueCount |-> late]
                  <4>1. sent = <<row>>
                        BY <3>2 DEF publishableTerms
                  <4>. HIDE DEF late
                  <4>2. "creditLimit" \notin c.garbled /\ "outstanding" \notin c.garbled
                        /\ "overdueCount" \notin c.garbled
                        /\ c.garbled \cap {"days", "currency"} = {}
                        BY <2>6
                  <4>3. [row EXCEPT !.creditLimit = @, !.outstanding = @,
                                    !.overdueCount = @] = row
                        OBVIOUS
                  <4>4. deserializeBuyerTerms(<<row>>, c.garbled) = <<row>>
                        BY <4>2, <4>3 DEF deserializeBuyerTerms, IsThere, Nothing
                  <4>5. termsFunction(<<row>>, c.garbled, c.cart) = "offered"
                          <=> checkEligibility(facts).eligible
                        <5>1. row.creditLimit = l /\ row.days = d /\ row.currency = "usd"
                              /\ row.outstanding = ledger.outstanding
                              /\ row.overdueCount = late
                              OBVIOUS
                        <5>. HIDE DEF row
                        <5>2. /\ c.cart.hasMethod /\ IsThere(c.cart.customer) = TRUE
                              /\ c.cart.currency = "usd" /\ IsThere(<<row>>)
                              BY <2>0 DEF IsThere, Nothing
                        <5>. DEFINE asked ==
                               [isAuthenticated |-> IsThere(c.cart.customer),
                                terms |-> IF IsThere(<<row>>)
                                          THEN <<[days |-> <<row>>[1].days,
                                                  limit |-> <<row>>[1].creditLimit]>>
                                          ELSE << >>,
                                outstanding |-> IF IsThere(<<row>>)
                                                THEN <<row>>[1].outstanding ELSE 0,
                                overdueCount |-> IF IsThere(<<row>>)
                                                 THEN <<row>>[1].overdueCount ELSE 0,
                                cartTotal |-> toCents(c.cart.subtotal)]
                        <5>3. asked = facts
                              BY <2>4, <3>2, <5>1, <5>2
                        <5>4. termsFunction(<<row>>, c.garbled, c.cart)
                                = IF ~c.cart.hasMethod THEN "unchanged"
                                  ELSE IF /\ checkEligibility(asked).eligible
                                          /\ IsThere(<<row>>) /\ IsThere(<<row>>[1].creditLimit)
                                               => <<row>>[1].currency = c.cart.currency
                                       THEN "offered" ELSE "hidden"
                              BY <4>4, Zenon DEF termsFunction
                        <5>. HIDE DEF asked, facts
                        <5>5. <<row>>[1].currency = c.cart.currency
                              BY <5>1, <5>2
                        <5>6. termsFunction(<<row>>, c.garbled, c.cart)
                                = IF checkEligibility(facts).eligible THEN "offered"
                                  ELSE "hidden"
                              BY <5>2, <5>3, <5>4, <5>5
                        <5>. QED  BY <5>6
                  <4>. QED  BY <4>1, <4>5
            <3>. QED  BY <2>5, <3>1, <3>2
      <2>7. ASSUME c.garbled \subseteq {"days", "currency"}, c.garbled # {}
            PROVE  answer # "offered"
            <3>1. deserializeBuyerTerms(sent, c.garbled) = << >>
                  BY <2>7 DEF deserializeBuyerTerms, Nothing
            <3>. QED  BY <2>1, <3>1 DEF termsFunction, checkEligibility, Answer,
                      IsThere, Nothing
      <2>. QED  BY <2>1, <2>2, <2>3, <2>6, <2>7 DEF PayLaterAgrees
<1>. QED  BY <1>1, QuestionsAreAsked, PTL

LEMMA RanksAreNumbers ==
    ASSUME NEW kind \in DOMAIN CLASS_RANK
    PROVE  CLASS_RANK[kind] \in Int
BY DEF CLASS_RANK

LEMMA KeysInOrder ==
    ASSUME NEW a, NEW b, KeysRead(a), KeysRead(b)
    PROVE  compareRules(a, b) <=>
             LET x == CLASS_RANK[a.kind]
                 y == CLASS_RANK[b.kind]
             IN  \/ x < y
                 \/ x = y /\ a.priority < b.priority
                 \/ x = y /\ a.priority = b.priority /\ a.createdAt < b.createdAt
                 \/ x = y /\ a.priority = b.priority /\ a.createdAt = b.createdAt
                      /\ a.id < b.id
<1>1. PICK x \in Int, y \in Int : x = CLASS_RANK[a.kind] /\ y = CLASS_RANK[b.kind]
      BY RanksAreNumbers DEF KeysRead
<1>. DEFINE k == <<x, a.priority, a.createdAt, a.id>>
            l == <<y, b.priority, b.createdAt, b.id>>
<1>2. compareRules(a, b) <=>
        \E i \in 1 .. 4 : k[i] < l[i] /\ \A j \in 1 .. (i - 1) : k[j] = l[j]
      <2>1. SortKey(a) = k /\ SortKey(b) = l  BY <1>1 DEF SortKey
      <2>2. DOMAIN k = 1 .. 4  OBVIOUS
      <2>. HIDE DEF k, l
      <2>. QED  BY <2>1, <2>2 DEF compareRules, Lexicographic
<1>3. (\E i \in 1 .. 4 : k[i] < l[i] /\ \A j \in 1 .. (i - 1) : k[j] = l[j])
        <=> \/ k[1] < l[1]
            \/ k[2] < l[2] /\ k[1] = l[1]
            \/ k[3] < l[3] /\ k[1] = l[1] /\ k[2] = l[2]
            \/ k[4] < l[4] /\ k[1] = l[1] /\ k[2] = l[2] /\ k[3] = l[3]
      <2>. HIDE DEF k, l
      <2>1. 1 .. 4 = {1, 2, 3, 4} /\ 1 .. (1 - 1) = {} /\ 1 .. (2 - 1) = {1}
            /\ 1 .. (3 - 1) = {1, 2} /\ 1 .. (4 - 1) = {1, 2, 3}
            OBVIOUS
      <2>2. \A i \in 1 .. 4 : i = 1 \/ i = 2 \/ i = 3 \/ i = 4  OBVIOUS
      <2>3. (\A j \in 1 .. (1 - 1) : k[j] = l[j]) <=> TRUE  BY <2>1
      <2>4. (\A j \in 1 .. (2 - 1) : k[j] = l[j]) <=> k[1] = l[1]  BY <2>1
      <2>5. (\A j \in 1 .. (3 - 1) : k[j] = l[j]) <=> k[1] = l[1] /\ k[2] = l[2]
            BY <2>1
      <2>6. (\A j \in 1 .. (4 - 1) : k[j] = l[j])
              <=> k[1] = l[1] /\ k[2] = l[2] /\ k[3] = l[3]
            BY <2>1
      <2>7. 1 \in 1 .. 4 /\ 2 \in 1 .. 4 /\ 3 \in 1 .. 4 /\ 4 \in 1 .. 4  OBVIOUS
      <2>. QED  BY <2>2, <2>3, <2>4, <2>5, <2>6, <2>7
<1>. QED  BY <1>1, <1>2, <1>3

(***************************************************************************)
(* The cascade is a strict total order of any rules that have ids of their *)
(* own: no rule comes before itself, of two one comes first, and first     *)
(* before first is first (resolve.ts, compareRules).  What the rules are   *)
(* read in has no say in it.                                               *)
(***************************************************************************)
THEOREM CascadeIsAnOrder ==
    ASSUME NEW rules, \A r \in rules : KeysRead(r),
           \A r, s \in rules : r.id = s.id => r = s
    PROVE  \A a, b, c \in rules :
             /\ ~compareRules(a, a)
             /\ a # b => (compareRules(a, b) <=> ~compareRules(b, a))
             /\ compareRules(a, b) /\ compareRules(b, c) => compareRules(a, c)
<1>. SUFFICES ASSUME NEW a \in rules, NEW b \in rules, NEW c \in rules
              PROVE  /\ ~compareRules(a, a)
                     /\ a # b => (compareRules(a, b) <=> ~compareRules(b, a))
                     /\ compareRules(a, b) /\ compareRules(b, c) => compareRules(a, c)
     OBVIOUS
<1>1. /\ CLASS_RANK[a.kind] \in Int /\ CLASS_RANK[b.kind] \in Int
      /\ CLASS_RANK[c.kind] \in Int
      BY RanksAreNumbers DEF KeysRead
<1>2. /\ {a.priority, a.createdAt, a.id} \subseteq Int
      /\ {b.priority, b.createdAt, b.id} \subseteq Int
      /\ {c.priority, c.createdAt, c.id} \subseteq Int
      BY DEF KeysRead
<1>3. ~compareRules(a, a)  BY <1>1, <1>2, KeysInOrder
<1>4. a # b => (compareRules(a, b) <=> ~compareRules(b, a))
      <2>1. a # b => a.id # b.id  OBVIOUS
      <2>. QED  BY <1>1, <1>2, <2>1, KeysInOrder
<1>5. compareRules(a, b) /\ compareRules(b, c) => compareRules(a, c)
      BY <1>1, <1>2, KeysInOrder
<1>. QED  BY <1>3, <1>4, <1>5

(***************************************************************************)
(* Of the tiers of a volume rule that passed validation, at most one       *)
(* covers a quantity: that the highest minimum wins decides nothing        *)
(* (validate.ts, checkVolumeTiers; tiers.ts, selectVolumeTier).            *)
(***************************************************************************)
THEOREM VolumeTiersDoNotCompete ==
    ASSUME NEW tiers, checkVolumeTiers(tiers), DOMAIN tiers \subseteq Nat,
           \A i \in DOMAIN tiers : tiers[i].min \in Int /\ tiers[i].max \in Bound,
           NEW quantity \in Int,
           NEW i \in DOMAIN tiers, NEW j \in DOMAIN tiers,
           Covers(tiers[i], quantity), Covers(tiers[j], quantity)
    PROVE  i = j
<1>1. ASSUME NEW m \in DOMAIN tiers, NEW n \in DOMAIN tiers,
             Covers(tiers[m], quantity), Covers(tiers[n], quantity)
      PROVE  ~StartsBefore(tiers, m, n)
      <2>. SUFFICES ASSUME StartsBefore(tiers, m, n) PROVE FALSE  OBVIOUS
      <2>1. IsThere(tiers[m].max) /\ tiers[n].min > tiers[m].max[1]
            BY DEF checkVolumeTiers, NoneOverlap
      <2>2. PICK last \in Int : tiers[m].max = <<last>>
            BY <2>1 DEF Bound, IsThere, Nothing
      <2>3. quantity <= last  BY <1>1, <2>1, <2>2 DEF Covers
      <2>4. quantity >= tiers[n].min  BY <1>1 DEF Covers
      <2>. QED  BY <2>1, <2>2, <2>3, <2>4
<1>2. ~StartsBefore(tiers, i, j) /\ ~StartsBefore(tiers, j, i)  BY <1>1
<1>3. i \in Nat /\ j \in Nat /\ tiers[i].min \in Int /\ tiers[j].min \in Int
      OBVIOUS
<1>. QED  BY <1>2, <1>3 DEF StartsBefore

(***************************************************************************)
(* A price of whole minor units over a positive denominator is rounded to  *)
(* the nearest, half up, and that of no negative price is negative         *)
(* (money.ts, roundFraction).                                              *)
(***************************************************************************)
THEOREM RoundsHalfUp ==
    ASSUME NEW f, f.numerator \in Int, f.denominator \in Nat \ {0}
    PROVE  LET rounded == roundFraction(f)
           IN  /\ rounded \in Int
               /\ 2 * rounded * f.denominator - f.denominator <= 2 * f.numerator
               /\ 2 * f.numerator < 2 * rounded * f.denominator + f.denominator
               /\ f.numerator >= 0 => rounded >= 0
<1>1. PICK n \in Int, d \in Nat \ {0} : n = f.numerator /\ d = f.denominator
      OBVIOUS
<1>2. PICK q \in Int, r \in 0 .. d - 1 : q = n \div d /\ n = d * q + r
      <2>1. n \div d \in Int /\ (n % d) \in 0 .. d - 1 /\ n = d * (n \div d) + (n % d)
            BY Divides
      <2>. QED  BY <2>1
<1>3. n - q * d = r  BY <1>2
<1>4. roundFraction(f) = IF 2 * r >= d THEN q + 1 ELSE q
      BY <1>1, <1>2, <1>3 DEF roundFraction
<1>5. 2 * q * d = 2 * (d * q) /\ 2 * (q + 1) * d = 2 * (d * q) + 2 * d  BY <1>2
<1>6. n >= 0 => q >= 0
      <2>. SUFFICES ASSUME n >= 0, q <= -1 PROVE FALSE  BY <1>2
      <2>1. d * q <= -d  BY <1>2
      <2>. QED  BY <1>2, <2>1
<1>7. CASE 2 * r >= d
      <2>1. roundFraction(f) = q + 1  BY <1>4, <1>7
      <2>2. /\ 2 * (q + 1) * d - d <= 2 * n
            /\ 2 * n < 2 * (q + 1) * d + d
            BY <1>2, <1>5, <1>7
      <2>. QED  BY <1>1, <1>6, <2>1, <2>2
<1>8. CASE ~(2 * r >= d)
      <2>1. roundFraction(f) = q  BY <1>4, <1>8
      <2>2. /\ 2 * q * d - d <= 2 * n
            /\ 2 * n < 2 * q * d + d
            BY <1>2, <1>5, <1>8
      <2>. QED  BY <1>1, <1>6, <2>1, <2>2
<1>. QED  BY <1>7, <1>8

\* What is left of a line is at least nothing and at most all of it.
LEMMA LeftOfALine ==
    ASSUME NEW total \in Nat, NEW quantity \in Nat, NEW current \in 0 .. quantity
    PROVE  /\ currentTotalOf(total, quantity, current) \in 0 .. total
           /\ quantity * currentTotalOf(total, quantity, current) <= total * current
<1>1. CASE current = 0 \/ quantity = 0
      BY <1>1 DEF currentTotalOf
<1>2. CASE current = quantity /\ quantity > 0
      BY <1>2 DEF currentTotalOf
<1>3. CASE current > 0 /\ current < quantity
      <2>. DEFINE whole == total * current
      <2>1. whole \in Nat /\ whole <= total * quantity  BY <1>3
      <2>. HIDE DEF whole
      <2>2. PICK q \in Int, r \in 0 .. quantity - 1 :
               q = whole \div quantity /\ whole = quantity * q + r
            <3>1. quantity \in Nat \ {0} /\ whole \in Int  BY <1>3, <2>1
            <3>2. /\ whole \div quantity \in Int /\ (whole % quantity) \in 0 .. quantity - 1
                  /\ whole = quantity * (whole \div quantity) + (whole % quantity)
                  BY <3>1, Divides
            <3>. QED  BY <3>2
      <2>3. currentTotalOf(total, quantity, current) = q
            BY <1>3, <2>2 DEF currentTotalOf, whole
      <2>4. q >= 0
            <3>. SUFFICES ASSUME q <= -1 PROVE FALSE  BY <2>2
            <3>1. quantity * q <= -quantity  BY <1>3, <2>2
            <3>. QED  BY <2>1, <2>2, <3>1
      <2>5. q <= total
            <3>. SUFFICES ASSUME total + 1 <= q PROVE FALSE  BY <2>2
            <3>1. quantity * q >= quantity * total + quantity
                  BY <1>3, <2>2
            <3>2. total * quantity = quantity * total  OBVIOUS
            <3>. QED  BY <1>3, <2>1, <2>2, <3>1, <3>2
      <2>6. quantity * q <= whole  BY <2>2
      <2>. QED  BY <2>2, <2>3, <2>4, <2>5, <2>6 DEF whole
<1>. QED  BY <1>1, <1>2, <1>3

(***************************************************************************)
(* However the units of a line are parted, in returns and edits, what is   *)
(* left of it and what is gone of it never come to more than was charged   *)
(* for the line (order lines, currentTotalOf).                             *)
(***************************************************************************)
THEOREM PartsOfALineAddUp ==
    ASSUME NEW total \in Nat, NEW quantity \in Nat, NEW kept \in 0 .. quantity
    PROVE  currentTotalOf(total, quantity, kept)
             + currentTotalOf(total, quantity, quantity - kept) <= total
<1>1. PICK a \in 0 .. total : a = currentTotalOf(total, quantity, kept)
      BY LeftOfALine
<1>2. quantity - kept \in 0 .. quantity  OBVIOUS
<1>3. PICK b \in 0 .. total : b = currentTotalOf(total, quantity, quantity - kept)
      BY <1>2, LeftOfALine
<1>4. CASE quantity = 0  BY <1>1, <1>3, <1>4 DEF currentTotalOf
<1>5. CASE quantity > 0
      <2>1. quantity * a <= total * kept  BY <1>1, LeftOfALine
      <2>2. quantity * b <= total * (quantity - kept)  BY <1>2, <1>3, LeftOfALine
      <2>3. quantity * (a + b) <= quantity * total  BY <2>1, <2>2
      <2>4. a + b <= total
            <3>. SUFFICES ASSUME total + 1 <= a + b PROVE FALSE  BY <1>1, <1>3
            <3>1. quantity * (a + b) >= quantity * total + quantity  BY <1>5
            <3>. QED  BY <1>5, <2>3, <3>1
      <2>. QED  BY <1>1, <1>3, <2>4
<1>. QED  BY <1>4, <1>5

\* The terms a customer or a group may have.
Sources == {<< >>} \cup {<<[days |-> d, creditLimit |-> l]>> :
                           d \in Bound, l \in {<< >>} \cup {<<n>> : n \in Nat}}

(***************************************************************************)
(* Whatever terms a buyer and their group have, and whatever is owed: pay  *)
(* later is extended only while nothing is late, never over the ceiling of *)
(* the level whose days apply; and the headroom that is told while any is  *)
(* left is the largest cart that may be put on them (net-terms/src).       *)
(***************************************************************************)
THEOREM CreditStopsAtTheCeiling ==
    ASSUME NEW customer \in Sources, NEW group \in Sources,
           NEW owed \in Nat, NEW late \in Nat, NEW cart \in Nat
    PROVE  LET level == IF SetsDays(customer) THEN customer ELSE group
               ceiling == level[1].creditLimit
               answer(n) == checkEligibility(
                   [isAuthenticated |-> TRUE, cartTotal |-> n, overdueCount |-> late,
                    terms |-> termsWithLimit(customer, group), outstanding |-> owed])
               room == answer(cart).headroom
           IN  /\ answer(cart).eligible =>
                    /\ late = 0
                    /\ ceiling # << >> => owed + cart <= ceiling[1]
               /\ room # << >> /\ owed <= ceiling[1] =>
                    \A n \in Nat : answer(n).eligible <=> n <= room[1]
<1>. DEFINE level == IF SetsDays(customer) THEN customer ELSE group
            terms == termsWithLimit(customer, group)
            facts(n) == [isAuthenticated |-> TRUE, cartTotal |-> n, overdueCount |-> late,
                         terms |-> terms, outstanding |-> owed]
            answer(n) == checkEligibility(facts(n))
            ceiling == level[1].creditLimit
            room == answer(cart).headroom
            Goal == /\ answer(cart).eligible =>
                         /\ late = 0
                         /\ ceiling # << >> => owed + cart <= ceiling[1]
                    /\ room # << >> /\ owed <= ceiling[1] =>
                         \A n \in Nat : answer(n).eligible <=> n <= room[1]
<1>. SUFFICES Goal  OBVIOUS
<1>1. ASSUME NEW reason, answer(cart) = Answer(FALSE, reason, << >>)
      PROVE  Goal
      <2>. HIDE DEF answer, ceiling
      <2>. QED  BY <1>1 DEF Answer
<1>2. CASE terms = << >>
      <2>1. answer(cart) = Answer(FALSE, "no_terms", << >>)
            BY <1>2 DEF checkEligibility
      <2>. QED  BY <1>1, <2>1
<1>3. CASE terms # << >>
      <2>1. SetsDays(customer) \/ SetsDays(group)
            BY <1>3 DEF termsWithLimit, effectiveTerms
      <2>2. level \in Sources /\ level # << >>
            BY <2>1 DEF SetsDays
      <2>3. PICK d \in Bound, l \in {<< >>} \cup {<<n>> : n \in Nat} :
               level = <<[days |-> d, creditLimit |-> l]>>
            <3>. HIDE DEF level
            <3>. QED  BY <2>2 DEF Sources
      <2>4. effectiveTerms(customer, group) = level
            BY <1>3, <2>1 DEF termsWithLimit, effectiveTerms
      <2>5. level[1].days = d /\ ceiling = l
            BY <2>3
      <2>6. terms = <<[days |-> d[1], limit |-> l]>>
            <3>1. l = << >> \/ (l[1] \in Nat /\ ~(l[1] < 0))  OBVIOUS
            <3>. HIDE DEF level
            <3>. QED  BY <2>2, <2>4, <2>5, <3>1 DEF termsWithLimit
      <2>7. CASE late > 0
            <3>1. answer(cart) = Answer(FALSE, "has_overdue", << >>)
                  BY <1>3, <2>7 DEF checkEligibility
            <3>. QED  BY <1>1, <3>1
      <2>8. CASE late = 0 /\ l = << >>
            <3>1. answer(cart) = Answer(TRUE, "none", << >>)
                  BY <2>6, <2>8 DEF checkEligibility
            <3>2. ceiling = << >>  BY <2>5, <2>8
            <3>. HIDE DEF answer, ceiling
            <3>3. room = << >>  BY <3>1 DEF Answer
            <3>. HIDE DEF room
            <3>. QED  BY <2>8, <3>2, <3>3, Zenon
      <2>9. ASSUME NEW top \in Nat, late = 0, l = <<top>>
            PROVE  Goal
            <3>1. \A n \in Nat : OverLimit(facts(n)) <=> owed + n > top
                  BY <2>6, <2>9 DEF OverLimit
            <3>2. \A n \in Nat : answer(n) =
                     IF owed + n > top
                     THEN Answer(FALSE, "over_credit_limit",
                                 <<IF top - owed > 0 THEN top - owed ELSE 0>>)
                     ELSE Answer(TRUE, "none", <<top - owed>>)
                  <4>1. terms # << >> /\ terms[1].limit = <<top>>  BY <2>6, <2>9
                  <4>2. ~(late > 0) /\ <<top>> # << >>  BY <2>9
                  <4>. SUFFICES ASSUME NEW n \in Nat
                                PROVE  answer(n) =
                                  IF owed + n > top
                                  THEN Answer(FALSE, "over_credit_limit",
                                         <<IF top - owed > 0 THEN top - owed ELSE 0>>)
                                  ELSE Answer(TRUE, "none", <<top - owed>>)
                       OBVIOUS
                  <4>3. /\ facts(n).isAuthenticated = TRUE /\ facts(n).terms = terms
                        /\ facts(n).overdueCount = late /\ facts(n).outstanding = owed
                        OBVIOUS
                  <4>4. OverLimit(facts(n)) <=> owed + n > top  BY <3>1
                  <4>. HIDE DEF terms, facts
                  <4>5. facts(n).terms[1].limit[1] - facts(n).outstanding = top - owed
                        BY <4>1, <4>3
                  <4>. QED  BY <4>1, <4>2, <4>3, <4>4, <4>5 DEF checkEligibility
            <3>3. ceiling = <<top>>  BY <2>5, <2>9
            <3>. HIDE DEF answer, ceiling
            <3>4. \A n \in Nat : answer(n).eligible <=> owed + n <= top
                  BY <3>2 DEF Answer
            <3>5. owed <= top => answer(cart).headroom = <<top - owed>>
                  BY <3>2 DEF Answer
            <3>6. answer(cart).eligible => late = 0 /\ owed + cart <= top
                  BY <2>9, <3>4
            <3>7. ASSUME owed <= top
                  PROVE  \A n \in Nat : answer(n).eligible <=> n <= room[1]
                  <4>1. room[1] = top - owed  BY <3>5, <3>7
                  <4>. HIDE DEF room
                  <4>. QED  BY <3>4, <4>1
            <3>8. room # << >> /\ owed <= ceiling[1] =>
                     \A n \in Nat : answer(n).eligible <=> n <= room[1]
                  <4>1. ceiling[1] = top  BY <3>3
                  <4>. QED  BY <3>7, <4>1, Zenon
            <3>9. answer(cart).eligible =>
                     late = 0 /\ (ceiling # << >> => owed + cart <= ceiling[1])
                  <4>1. ceiling[1] = top  BY <3>3
                  <4>. QED  BY <3>6, <4>1, Zenon
            <3>. QED  BY <3>8, <3>9, Zenon
      <2>10. late > 0 \/ (late = 0 /\ l = << >>) \/ (late = 0 /\ \E top \in Nat : l = <<top>>)
             OBVIOUS
      <2>. HIDE DEF Goal
      <2>. QED  BY <2>7, <2>8, <2>9, <2>10
<1>. QED  BY <1>2, <1>3

\* Every condition that is left was there before.
LEMMA WithoutKeepsTheRest ==
    ASSUME NEW S, NEW conditions \in Seq(S), NEW i \in DOMAIN conditions,
           NEW k \in DOMAIN Without(conditions, i)
    PROVE  \E j \in DOMAIN conditions : Without(conditions, i)[k] = conditions[j]
<1>. DEFINE n == Len(conditions)
            before == SubSeq(conditions, 1, i - 1)
            after == SubSeq(conditions, i + 1, n)
<1>1. i \in 1 .. n /\ DOMAIN conditions = 1 .. n /\ n \in Nat  OBVIOUS
<1>2. before \in Seq(S) /\ Len(before) = i - 1
      /\ \A j \in 1 .. i - 1 : before[j] = conditions[j]
      BY <1>1
<1>3. after \in Seq(S) /\ Len(after) = n - i
      /\ \A j \in 1 .. n - i : after[j] = conditions[i + j]
      BY <1>1
<1>4. Without(conditions, i) = before \o after  BY DEF Without, RemoveAt
<1>. HIDE DEF n, before, after
<1>5. k \in 1 .. n - 1
      BY <1>1, <1>2, <1>3, <1>4
<1>6. CASE k <= i - 1
      <2>1. Without(conditions, i)[k] = conditions[k]
            BY <1>1, <1>2, <1>3, <1>4, <1>5, <1>6
      <2>2. k \in DOMAIN conditions  BY <1>1, <1>5, <1>6
      <2>. QED  BY <2>1, <2>2
<1>7. CASE k > i - 1
      <2>1. Without(conditions, i)[k] = after[k - (i - 1)]
            <3>1. k \in Len(before) + 1 .. Len(before) + Len(after)
                  BY <1>1, <1>2, <1>3, <1>5, <1>7
            <3>2. (before \o after)[k] = after[k - Len(before)]
                  BY <1>2, <1>3, <3>1
            <3>. QED  BY <1>2, <1>4, <3>2
      <2>2. k - (i - 1) \in 1 .. n - i /\ k + 1 \in DOMAIN conditions
            BY <1>1, <1>5, <1>7
      <2>3. after[k - (i - 1)] = conditions[i + (k - (i - 1))]  BY <1>3, <2>2
      <2>4. i + (k - (i - 1)) = k + 1  BY <1>1, <1>5
      <2>. QED  BY <2>1, <2>2, <2>3, <2>4
<1>. QED  BY <1>1, <1>5, <1>6, <1>7

(***************************************************************************)
(* Whatever the conditions of a segment and the shop's customers: to leave *)
(* a condition out never drops a customer, and nobody is in a segment that *)
(* asks both that they never ordered and how long ago they did             *)
(* (segments.server.ts, whereFor).                                         *)
(***************************************************************************)
THEOREM ConditionsNarrow ==
    ASSUME NEW S, NEW conditions \in Seq(S), NEW customers, NEW now
    PROVE  /\ \A i \in DOMAIN conditions :
                MembersOf(conditions, customers, now)
                  \subseteq MembersOf(Without(conditions, i), customers, now)
           /\ {"never_ordered", "last_order_days"}
                \subseteq {conditions[i].field : i \in DOMAIN conditions}
              => MembersOf(conditions, customers, now) = {}
<1>1. ASSUME NEW i \in DOMAIN conditions, NEW c \in MembersOf(conditions, customers, now)
      PROVE  c \in MembersOf(Without(conditions, i), customers, now)
      <2>1. c \in customers /\ ~c.deleted
            /\ \A j \in DOMAIN conditions : whereFor(conditions[j], c, now)
            BY <1>1 DEF MembersOf
      <2>2. \A k \in DOMAIN Without(conditions, i) :
               whereFor(Without(conditions, i)[k], c, now)
            BY <2>1, WithoutKeepsTheRest
      <2>. QED  BY <2>1, <2>2 DEF MembersOf
<1>2. ASSUME NEW c \in MembersOf(conditions, customers, now),
             NEW i \in DOMAIN conditions, conditions[i].field = "never_ordered",
             NEW j \in DOMAIN conditions, conditions[j].field = "last_order_days"
      PROVE  FALSE
      <2>1. whereFor(conditions[i], c, now) /\ whereFor(conditions[j], c, now)
            BY DEF MembersOf
      <2>2. c.last = << >>  BY <1>2, <2>1 DEF whereFor
      <2>3. c.last # << >>  BY <1>2, <2>1 DEF whereFor
      <2>. QED  BY <2>2, <2>3
<1>3. ASSUME {"never_ordered", "last_order_days"}
               \subseteq {conditions[i].field : i \in DOMAIN conditions}
      PROVE  MembersOf(conditions, customers, now) = {}
      <2>1. PICK i \in DOMAIN conditions : conditions[i].field = "never_ordered"
            BY <1>3
      <2>2. PICK j \in DOMAIN conditions : conditions[j].field = "last_order_days"
            BY <1>3
      <2>. QED  BY <1>2, <2>1, <2>2
<1>. QED  BY <1>1, <1>3

-----------------------------------------------------------------------------
(***************************************************************************)
(* Induction, and what a fold over positions is                            *)
(***************************************************************************)
\* The order of the natural numbers, in the form in which the library's facts on
\* well-founded orders can be cited: induction is then over sets of numbers.
Before == {p \in Nat \X Nat : p[1] < p[2]}

LEMMA BeforeIsWellFounded == IsWellFoundedOn(Before, Nat)
<1>1. OpToRel(<, Nat) = Before  BY Zenon DEF OpToRel, Before
<1>. QED  BY <1>1, NatLessThanWellFounded

\* Induction over a set of numbers.
LEMMA Induction ==
    ASSUME NEW S, 0 \in S, \A n \in Nat : n \in S => n + 1 \in S
    PROVE  \A n \in Nat : n \in S
<1>. DEFINE T == Nat \ S
<1>. SUFFICES ASSUME T # {} PROVE FALSE  OBVIOUS
<1>. HIDE DEF T
<1>0. T \subseteq Nat  BY DEF T
<1>1. PICK x \in T : \A y \in T : ~ (<<y, x>> \in Before)
      BY BeforeIsWellFounded, WFMin, <1>0, Zenon
<1>2. x \in Nat /\ x # 0  BY DEF T
<1>3. x - 1 \in Nat /\ x - 1 < x  BY <1>2
<1>4. <<x - 1, x>> \in Before  BY <1>2, <1>3 DEF Before
<1>5. x - 1 \notin T  BY <1>1, <1>4
<1>6. x - 1 \in S  BY <1>5, <1>3 DEF T
<1>7. x - 1 + 1 = x  BY <1>2
<1>. QED  BY <1>6, <1>3, <1>7 DEF T

\* Induction up to a bound.
LEMMA InductionUpTo ==
    ASSUME NEW m \in Nat, NEW S, 0 \in S, \A n \in 1 .. m : n - 1 \in S => n \in S
    PROVE  \A n \in 0 .. m : n \in S
<1>. DEFINE T == {n \in Nat : n <= m => n \in S}
<1>1. 0 \in T  OBVIOUS
<1>2. ASSUME NEW n \in Nat, n \in T PROVE n + 1 \in T
      <2>1. CASE n + 1 <= m
            <3>1. n \in S /\ n + 1 \in 1 .. m /\ n + 1 - 1 = n  BY <1>2, <2>1
            <3>2. n + 1 \in S  BY <3>1
            <3>. QED  BY <3>2
      <2>2. CASE ~(n + 1 <= m)  BY <2>2
      <2>. QED  BY <2>1, <2>2
<1>. HIDE DEF T
<1>3. \A n \in Nat : n \in T  BY <1>1, <1>2, Induction
<1>. QED  BY <1>3 DEF T

\* A set of numbers that is not empty and has a bound has a largest.
LEMMA LargestIsThere ==
    ASSUME NEW n \in Nat, NEW s \in SUBSET (1 .. n), s # {}
    PROVE  Max(s) \in s /\ \A y \in s : Max(s) >= y
<1>. DEFINE P == {k \in Nat : \A t \in SUBSET (1 .. k) :
                                 t # {} => \E x \in t : \A y \in t : x >= y}
<1>1. 0 \in P
      <2>1. 1 .. 0 = {}  OBVIOUS
      <2>. QED  BY <2>1
<1>2. ASSUME NEW k \in Nat, k \in P PROVE k + 1 \in P
      <2>. SUFFICES ASSUME NEW t \in SUBSET (1 .. k + 1), t # {}
                    PROVE  \E x \in t : \A y \in t : x >= y
           OBVIOUS
      <2>1. CASE k + 1 \in t  BY <2>1
      <2>2. CASE k + 1 \notin t
            <3>1. t \in SUBSET (1 .. k)  BY <2>2
            <3>. QED  BY <3>1, <1>2
      <2>. QED  BY <2>1, <2>2
<1>. HIDE DEF P
<1>3. n \in P  BY <1>1, <1>2, Induction
<1>4. \E x \in s : \A y \in s : x >= y  BY <1>3 DEF P
<1>. QED  BY <1>4 DEF Max

\* The first numbers, of which the largest is taken off.
LEMMA FirstOnes ==
    ASSUME NEW n \in Nat
    PROVE  /\ 1 .. 0 = {}
           /\ \A k \in 0 .. n : 1 .. k \in SUBSET (1 .. n)
           /\ \A k \in 1 .. n : /\ 1 .. k # {}
                                /\ Max(1 .. k) = k
                                /\ (1 .. k) \ {k} = 1 .. (k - 1)
<1>1. \A k \in 1 .. n : Max(1 .. k) = k
      <2>. TAKE k \in 1 .. n
      <2>1. 1 .. k \in SUBSET (1 .. n) /\ k \in 1 .. k  OBVIOUS
      <2>2. Max(1 .. k) \in 1 .. k /\ \A y \in 1 .. k : Max(1 .. k) >= y
            BY <2>1, LargestIsThere
      <2>. QED  BY <2>1, <2>2
<1>2. \A k \in 1 .. n : 1 .. k # {} /\ (1 .. k) \ {k} = 1 .. (k - 1)  OBVIOUS
<1>3. \A k \in 0 .. n : 1 .. k \in SUBSET (1 .. n)  OBVIOUS
<1>4. 1 .. 0 = {}  OBVIOUS
<1>. QED  BY <1>1, <1>2, <1>3, <1>4

\* What a fold over positions computes: a value for every set of them, from the
\* value of the set without its largest.
Iterates(W, n, F, base, h) ==
    /\ h \in [SUBSET (1 .. n) -> W]
    /\ \A s \in SUBSET (1 .. n) :
         h[s] = IF s = {} THEN base ELSE F[<<h[s \ {Max(s)}], Max(s)>>]

\* There is such a function, so a fold is what its steps make of it.
LEMMA IterationExists ==
    ASSUME NEW W, NEW base \in W, NEW m \in Nat, NEW F \in [W \X (1 .. m) -> W]
    PROVE  \E h : Iterates(W, m, F, base, h)
<1>. DEFINE P == {k \in Nat : k <= m => \E h : Iterates(W, k, F, base, h)}
<1>1. 0 \in P
      <2>. DEFINE h == [s \in SUBSET (1 .. 0) |-> base]
      <2>1. 1 .. 0 = {}  OBVIOUS
      <2>2. Iterates(W, 0, F, base, h)  BY <2>1 DEF Iterates
      <2>. QED  BY <2>2
<1>2. ASSUME NEW k \in Nat, k \in P PROVE k + 1 \in P
      <2>. SUFFICES ASSUME k + 1 <= m PROVE \E h : Iterates(W, k + 1, F, base, h)
           OBVIOUS
      <2>1. PICK g : Iterates(W, k, F, base, g)  BY <1>2
      <2>. DEFINE h == [s \in SUBSET (1 .. k + 1) |->
                          IF k + 1 \in s THEN F[<<g[s \ {k + 1}], k + 1>>] ELSE g[s]]
      <2>2. \A s \in SUBSET (1 .. k + 1) : s \ {k + 1} \in SUBSET (1 .. k)  OBVIOUS
      <2>3. \A s \in SUBSET (1 .. k + 1) : k + 1 \notin s => s \in SUBSET (1 .. k)
            OBVIOUS
      <2>4. h \in [SUBSET (1 .. k + 1) -> W]  BY <2>1, <2>2, <2>3 DEF Iterates
      <2>5. ASSUME NEW s \in SUBSET (1 .. k + 1)
            PROVE  h[s] = IF s = {} THEN base ELSE F[<<h[s \ {Max(s)}], Max(s)>>]
            <3>1. CASE k + 1 \in s
                  <4>1. Max(s) = k + 1
                        <5>1. k + 1 \in Nat  OBVIOUS
                        <5>2. Max(s) \in s /\ Max(s) >= k + 1
                              BY <5>1, <3>1, LargestIsThere
                        <5>3. Max(s) \in 1 .. k + 1  BY <5>2
                        <5>. QED  BY <5>2, <5>3
                  <4>2. h[s \ {k + 1}] = g[s \ {k + 1}]  OBVIOUS
                  <4>. QED  BY <4>1, <4>2, <3>1
            <3>2. CASE k + 1 \notin s
                  <4>1. s \in SUBSET (1 .. k) /\ h[s] = g[s]  BY <3>2
                  <4>2. s # {} => h[s \ {Max(s)}] = g[s \ {Max(s)}]  BY <3>2
                  <4>. QED  BY <4>1, <4>2, <2>1 DEF Iterates
            <3>. QED  BY <3>1, <3>2
      <2>6. Iterates(W, k + 1, F, base, h)  BY <2>4, <2>5 DEF Iterates
      <2>. QED  BY <2>6
<1>. HIDE DEF P
<1>3. m \in P  BY <1>1, <1>2, Induction
<1>. QED  BY <1>3 DEF P

(***************************************************************************)
(* The order of the cascade                                                *)
(***************************************************************************)
\* What is kept of the first k rules.
KeepsOnly(w, R, s, wanted) ==
    /\ w \in [0 .. Len(s) -> Seq(R)]
    /\ w[0] = << >>
    /\ \A k \in 1 .. Len(s) :
         w[k] = IF s[k] \in wanted THEN Append(w[k - 1], s[k]) ELSE w[k - 1]
    /\ Only(s, wanted) = w[Len(s)]

LEMMA OnlySteps ==
    ASSUME NEW R, NEW s \in Seq(R), NEW wanted
    PROVE  \E w : KeepsOnly(w, R, s, wanted)
<1>. DEFINE n == Len(s)
            W == Seq(R)
            Op(v, i) == IF s[i] \in wanted THEN Append(v, s[i]) ELSE v
            F == [p \in W \X (1 .. n) |-> Op(p[1], p[2])]
            rec(g) == [t \in SUBSET (1 .. n) |->
                         IF t = {} THEN << >> ELSE Op(g[t \ {Max(t)}], Max(t))]
            iter == CHOOSE g : g = rec(g)
            w == [k \in 0 .. n |-> iter[1 .. k]]
<1>0. n \in Nat /\ DOMAIN s = 1 .. n  OBVIOUS
<1>1. Only(s, wanted) = iter[1 .. n]  BY <1>0 DEF Only, FoldLeft, MapThenFoldSet
<1>2. F \in [W \X (1 .. n) -> W]  OBVIOUS
<1>3. PICK h : Iterates(W, n, F, << >>, h)
      <2>1. << >> \in W  OBVIOUS
      <2>. HIDE DEF W, F, n
      <2>. QED  BY <1>0, <1>2, <2>1, IterationExists
<1>4. h = rec(h)
      <2>1. \A t \in SUBSET (1 .. n) : t # {} =>
               /\ h[t \ {Max(t)}] \in W /\ Max(t) \in 1 .. n
               /\ h[t] = F[<<h[t \ {Max(t)}], Max(t)>>]
            BY <1>0, <1>3, LargestIsThere DEF Iterates
      <2>2. h[{}] = << >>  BY <1>3 DEF Iterates
      <2>3. \A t \in SUBSET (1 .. n) : h[t] = rec(h)[t]  BY <2>1, <2>2
      <2>. QED  BY <1>3, <2>3 DEF Iterates
<1>5. iter = rec(iter)  BY <1>4
<1>. HIDE DEF iter
<1>6. \A t \in SUBSET (1 .. n) :
         iter[t] = IF t = {} THEN << >> ELSE Op(iter[t \ {Max(t)}], Max(t))
      BY <1>5
<1>. HIDE DEF Op, n
<1>7. /\ w[0] = << >>
      /\ \A k \in 1 .. n : w[k] = Op(w[k - 1], k)
      <2>1. iter[1 .. 0] = << >>  BY <1>6, <1>0, FirstOnes
      <2>2. ASSUME NEW k \in 1 .. n PROVE iter[1 .. k] = Op(iter[1 .. (k - 1)], k)
            <3>1. /\ 1 .. k \in SUBSET (1 .. n) /\ 1 .. k # {}
                  /\ Max(1 .. k) = k /\ (1 .. k) \ {k} = 1 .. (k - 1)
                  BY <1>0, FirstOnes
            <3>2. iter[1 .. k] = Op(iter[(1 .. k) \ {Max(1 .. k)}], Max(1 .. k))
                  BY <1>6, <3>1
            <3>. QED  BY <3>1, <3>2
      <2>3. w[0] = iter[1 .. 0] /\ \A k \in 1 .. n : w[k] = iter[1 .. k] /\ w[k - 1] = iter[1 .. (k - 1)]
            BY <1>0
      <2>. QED  BY <2>1, <2>2, <2>3
<1>8. ASSUME \A k \in 0 .. n : w[k] \in W
      PROVE  w \in [0 .. n -> W] /\ Only(s, wanted) = w[n]
      BY <1>1, <1>8, <1>0
<1>. HIDE DEF w
<1>9. \A k \in 0 .. n : w[k] \in W
      <2>. DEFINE S == {k \in 0 .. n : w[k] \in W}
      <2>1. 0 \in S
            <3>1. w[0] \in W /\ 0 \in 0 .. n  BY <1>7, <1>0
            <3>. QED  BY <3>1
      <2>2. ASSUME NEW k \in 1 .. n, k - 1 \in S PROVE k \in S
            <3>1. w[k] = Op(w[k - 1], k) /\ w[k - 1] \in W  BY <2>2, <1>7
            <3>2. s[k] \in R  BY DEF n
            <3>3. \A v \in W : Op(v, k) \in W
                  <4>1. \A v \in Seq(R) : Append(v, s[k]) \in Seq(R)  BY <3>2
                  <4>. QED  BY <4>1 DEF Op
            <3>4. w[k] \in W  BY <3>1, <3>3
            <3>. QED  BY <3>4, <1>0
      <2>. HIDE DEF S
      <2>3. \A k \in 0 .. n : k \in S  BY <2>1, <2>2, <1>0, InductionUpTo
      <2>. QED  BY <2>3 DEF S
<1>10. w \in [0 .. n -> W] /\ Only(s, wanted) = w[n]  BY <1>8, <1>9
<1>11. KeepsOnly(w, R, s, wanted)  BY <1>7, <1>10, Zenon DEF KeepsOnly, n, Op
<1>. QED  BY <1>11

\* A set of numbers that is not empty has a smallest.
LEMMA SmallestIsThere ==
    ASSUME NEW s \in SUBSET Nat, s # {}
    PROVE  Min(s) \in s /\ \A y \in s : Min(s) <= y
<1>1. PICK x \in s : \A y \in s : ~ (<<y, x>> \in Before)
      BY BeforeIsWellFounded, WFMin, Zenon
<1>2. \A y \in s : x <= y
      <2>. TAKE y \in s
      <2>1. x \in Nat /\ y \in Nat /\ ~(<<y, x>> \in Before)  BY <1>1
      <2>. QED  BY <2>1 DEF Before
<1>. QED  BY <1>2 DEF Min

\* Where everything is after an insertion.
LEMMA InsertAtIs ==
    ASSUME NEW R, NEW s \in Seq(R), NEW i \in 1 .. Len(s) + 1, NEW e \in R
    PROVE  /\ InsertAt(s, i, e) \in Seq(R)
           /\ Len(InsertAt(s, i, e)) = Len(s) + 1
           /\ InsertAt(s, i, e)[i] = e
           /\ \A j \in 1 .. i - 1 : InsertAt(s, i, e)[j] = s[j]
           /\ \A j \in i .. Len(s) : InsertAt(s, i, e)[j + 1] = s[j]
<1>. DEFINE a == SubSeq(s, 1, i - 1)
            b == SubSeq(s, i, Len(s))
<1>1. a \in Seq(R) /\ Len(a) = i - 1 /\ \A j \in 1 .. i - 1 : a[j] = s[j]
      OBVIOUS
<1>2. b \in Seq(R) /\ Len(b) = Len(s) - i + 1
      /\ \A j \in 1 .. Len(s) - i + 1 : b[j] = s[i + j - 1]
      OBVIOUS
<1>. HIDE DEF a, b
<1>. DEFINE c == a \o <<e>>
<1>3. c \in Seq(R) /\ Len(c) = i /\ c[i] = e /\ \A j \in 1 .. i - 1 : c[j] = s[j]
      BY <1>1
<1>. HIDE DEF c
<1>. DEFINE d == c \o b
<1>4. d \in Seq(R) /\ Len(d) = Len(s) + 1
      <2>1. c \in Seq(R) /\ b \in Seq(R) /\ Len(s) \in Nat /\ i \in Nat  BY <1>2, <1>3
      <2>2. d \in Seq(R) /\ Len(d) = Len(c) + Len(b)  BY <2>1
      <2>. QED  BY <2>1, <2>2, <1>2, <1>3
<1>5. d[i] = e /\ \A j \in 1 .. i - 1 : d[j] = s[j]
      <2>1. \A j \in 1 .. i : d[j] = c[j]  BY <1>2, <1>3
      <2>. QED  BY <2>1, <1>3
<1>6. \A j \in i .. Len(s) : d[j + 1] = s[j]
      <2>. TAKE j \in i .. Len(s)
      <2>1. d[j + 1] = b[j + 1 - i]  BY <1>2, <1>3
      <2>2. j + 1 - i \in 1 .. Len(s) - i + 1 /\ i + (j + 1 - i) - 1 = j  OBVIOUS
      <2>. QED  BY <2>1, <2>2, <1>2
<1>7. InsertAt(s, i, e) = d  BY DEF InsertAt, a, b, c, d
<1>. HIDE DEF d
<1>. QED  BY <1>4, <1>5, <1>6, <1>7

\* No rule twice; and each before the ones that compareRules puts after it.
Distinct(s) == \A i, j \in DOMAIN s : s[i] = s[j] => i = j
Sorted(s) == \A i, j \in DOMAIN s : i < j => compareRules(s[i], s[j])

\* Where everything is after an addition at the end.
LEMMA AppendIs ==
    ASSUME NEW R, NEW s \in Seq(R), NEW e \in R
    PROVE  /\ Append(s, e) \in Seq(R)
           /\ DOMAIN Append(s, e) = 1 .. Len(s) + 1
           /\ \A i \in 1 .. Len(s) : Append(s, e)[i] = s[i]
           /\ Append(s, e)[Len(s) + 1] = e
           /\ Range(Append(s, e)) = Range(s) \cup {e}
<1>1. /\ Append(s, e) \in Seq(R)
      /\ DOMAIN Append(s, e) = 1 .. Len(s) + 1
      /\ \A i \in 1 .. Len(s) : Append(s, e)[i] = s[i]
      /\ Append(s, e)[Len(s) + 1] = e
      OBVIOUS
<1>2. \A i \in 1 .. Len(s) + 1 : i \in 1 .. Len(s) \/ i = Len(s) + 1  OBVIOUS
<1>3. DOMAIN s = 1 .. Len(s) /\ 1 .. Len(s) \subseteq 1 .. Len(s) + 1
      /\ Len(s) + 1 \in 1 .. Len(s) + 1
      OBVIOUS
<1>4. Range(Append(s, e)) \subseteq Range(s) \cup {e}
      BY <1>1, <1>2, <1>3 DEF Range
<1>5. Range(s) \cup {e} \subseteq Range(Append(s, e))
      BY <1>1, <1>3 DEF Range
<1>. QED  BY <1>1, <1>4, <1>5

\* Only keeps the rules that are wanted, and those alone.
LEMMA OnlyIs ==
    ASSUME NEW R, NEW s \in Seq(R), NEW wanted
    PROVE  /\ Only(s, wanted) \in Seq(R)
           /\ Range(Only(s, wanted)) = Range(s) \cap wanted
           /\ Distinct(s) => Distinct(Only(s, wanted))
<1>. DEFINE n == Len(s)
<1>0. n \in Nat /\ DOMAIN s = 1 .. n /\ \A i \in 1 .. n : s[i] \in R  OBVIOUS
<1>1. PICK w : KeepsOnly(w, R, s, wanted)  BY OnlySteps
<1>2. /\ w \in [0 .. n -> Seq(R)] /\ w[0] = << >>
      /\ \A k \in 1 .. n :
           w[k] = IF s[k] \in wanted THEN Append(w[k - 1], s[k]) ELSE w[k - 1]
      /\ Only(s, wanted) = w[n]
      BY <1>1 DEF KeepsOnly
<1>. HIDE DEF n
<1>. DEFINE Had(k) == {s[i] : i \in 1 .. k}
            Good == {k \in 0 .. n : /\ Range(w[k]) = Had(k) \cap wanted
                                    /\ Distinct(s) => Distinct(w[k])}
<1>9. 0 \in Good
      <2>1. DOMAIN w[0] = {} /\ Had(0) = {}  BY <1>2
      <2>2. Range(w[0]) = {} /\ Distinct(w[0])  BY <2>1 DEF Range, Distinct
      <2>. QED  BY <2>1, <2>2, <1>0
<1>3. ASSUME NEW k \in 1 .. n, k - 1 \in Good PROVE k \in Good
      <2>. DEFINE v == w[k - 1]
      <2>1. v \in Seq(R) /\ s[k] \in R  BY <1>0, <1>2
      <2>2. Range(v) = Had(k - 1) \cap wanted /\ (Distinct(s) => Distinct(v))
            BY <1>3
      <2>3. Had(k) = Had(k - 1) \cup {s[k]}
            <3>1. 1 .. k = (1 .. k - 1) \cup {k}  OBVIOUS
            <3>. QED  BY <3>1
      <2>. HIDE DEF v
      <2>4. CASE s[k] \in wanted
            <3>1. w[k] = Append(v, s[k])  BY <1>2, <2>4 DEF v
            <3>2. Range(w[k]) = Had(k) \cap wanted
                  <4>1. Range(w[k]) = Range(v) \cup {s[k]}  BY <3>1, <2>1, AppendIs
                  <4>. HIDE DEF Had
                  <4>. QED  BY <4>1, <2>2, <2>3, <2>4
            <3>3. ASSUME Distinct(s) PROVE Distinct(w[k])
                  <4>1. s[k] \notin Range(v)
                        <5>1. \A i \in 1 .. k - 1 : i \in 1 .. n /\ i # k  BY <1>0
                        <5>2. s[k] \notin Had(k - 1)  BY <5>1, <1>0, <3>3 DEF Distinct
                        <5>. QED  BY <5>2, <2>2
                  <4>2. /\ DOMAIN w[k] = 1 .. Len(v) + 1
                        /\ \A i \in 1 .. Len(v) : w[k][i] = v[i]
                        /\ w[k][Len(v) + 1] = s[k]
                        BY <3>1, <2>1, AppendIs
                  <4>3. DOMAIN v = 1 .. Len(v) /\ Len(v) \in Nat  BY <2>1
                  <4>4. \A i \in 1 .. Len(v) : v[i] # s[k]
                        BY <4>1, <4>3 DEF Range
                  <4>5. \A i \in 1 .. Len(v) + 1 : i \in 1 .. Len(v) \/ i = Len(v) + 1
                        BY <4>3
                  <4>6. Distinct(v)  BY <2>2, <3>3
                  <4>. QED  BY <4>2, <4>3, <4>4, <4>5, <4>6 DEF Distinct
            <3>. QED  BY <3>2, <3>3
      <2>5. CASE s[k] \notin wanted
            <3>1. w[k] = v  BY <1>2, <2>5 DEF v
            <3>. HIDE DEF Had
            <3>. QED  BY <3>1, <2>2, <2>3, <2>5
      <2>. QED  BY <2>4, <2>5
<1>. HIDE DEF Good
<1>4. n \in Good
      <2>1. \A k \in 0 .. n : k \in Good  BY <1>0, <1>9, <1>3, InductionUpTo
      <2>. QED  BY <2>1, <1>0
<1>5. Had(n) = Range(s)  BY <1>0 DEF Range
<1>6. w[n] \in Seq(R)  BY <1>0, <1>2
<1>7. Range(w[n]) = Had(n) \cap wanted /\ (Distinct(s) => Distinct(w[n]))
      BY <1>4 DEF Good
<1>. HIDE DEF Had
<1>. QED  BY <1>2, <1>5, <1>6, <1>7

\* A rule goes in before the first one that comes after it.
LEMMA InsertedIsASequence ==
    ASSUME NEW R, NEW s \in Seq(R), NEW r \in R
    PROVE  \E at \in 1 .. Len(s) + 1 :
             /\ Inserted(s, r) = InsertAt(s, at, r)
             /\ \A i \in 1 .. at - 1 : ~compareRules(r, s[i])
             /\ at <= Len(s) => compareRules(r, s[at])
<1>. DEFINE after == {i \in DOMAIN s : compareRules(r, s[i])}
            at == IF after = {} THEN Len(s) + 1 ELSE Min(after)
<1>0. DOMAIN s = 1 .. Len(s) /\ Len(s) \in Nat  OBVIOUS
<1>1. Inserted(s, r) = InsertAt(s, at, r)  BY DEF Inserted
<1>2. CASE after = {}
      <2>1. at = Len(s) + 1  BY <1>2
      <2>2. \A i \in 1 .. Len(s) : ~compareRules(r, s[i])  BY <1>2, <1>0
      <2>. QED  BY <1>0, <1>1, <2>1, <2>2
<1>3. CASE after # {}
      <2>1. after \in SUBSET Nat  BY <1>0
      <2>2. at \in after /\ \A i \in after : at <= i
            <3>1. at = Min(after)  BY <1>3
            <3>. HIDE DEF after, at
            <3>. QED  BY <1>3, <2>1, <3>1, SmallestIsThere
      <2>3. at \in 1 .. Len(s) /\ compareRules(r, s[at])  BY <2>2, <1>0
      <2>4. ASSUME NEW i \in 1 .. at - 1 PROVE ~compareRules(r, s[i])
            <3>1. i \in DOMAIN s /\ at \in Int  BY <2>3, <1>0
            <3>. HIDE DEF at
            <3>2. i \in after => at <= i  BY <2>2
            <3>. QED  BY <3>1, <3>2
      <2>. HIDE DEF at
      <2>. QED  BY <1>0, <1>1, <2>3, <2>4
<1>. QED  BY <1>2, <1>3

\* The first k rules, sorted.
InsertsAll(w, R, s) ==
    /\ w \in [0 .. Len(s) -> Seq(R)]
    /\ w[0] = << >>
    /\ \A i \in 1 .. Len(s) : w[i] = Inserted(w[i - 1], s[i])
    /\ InOrder(s) = w[Len(s)]

LEMMA InOrderSteps ==
    ASSUME NEW R, NEW s \in Seq(R)
    PROVE  \E w : InsertsAll(w, R, s)
<1>. DEFINE n == Len(s)
            W == Seq(R)
            Op(v, i) == Inserted(v, s[i])
            F == [p \in W \X (1 .. n) |-> Op(p[1], p[2])]
            rec(g) == [t \in SUBSET (1 .. n) |->
                         IF t = {} THEN << >> ELSE Op(g[t \ {Max(t)}], Max(t))]
            iter == CHOOSE g : g = rec(g)
            w == [k \in 0 .. n |-> iter[1 .. k]]
<1>0. n \in Nat /\ DOMAIN s = 1 .. n  OBVIOUS
<1>1. InOrder(s) = iter[1 .. n]  BY <1>0 DEF InOrder, FoldLeft, MapThenFoldSet
<1>2. \A i \in 1 .. n : \A v \in W : Op(v, i) \in W
      <2>. TAKE i \in 1 .. n
      <2>1. s[i] \in R  OBVIOUS
      <2>. SUFFICES ASSUME NEW v \in Seq(R) PROVE Inserted(v, s[i]) \in Seq(R)  OBVIOUS
      <2>2. PICK at \in 1 .. Len(v) + 1 : Inserted(v, s[i]) = InsertAt(v, at, s[i])
            BY <2>1, InsertedIsASequence
      <2>. QED  BY <2>1, <2>2, InsertAtIs
<1>3. PICK h : Iterates(W, n, F, << >>, h)
      <2>1. << >> \in W  OBVIOUS
      <2>2. F \in [W \X (1 .. n) -> W]
            <3>. HIDE DEF W, n, Op
            <3>. QED  BY <1>2
      <2>. HIDE DEF W, F, n
      <2>. QED  BY <1>0, <2>1, <2>2, IterationExists
<1>. HIDE DEF W, Op, n
<1>4. h = rec(h)
      <2>1. \A t \in SUBSET (1 .. n) : t # {} =>
               /\ h[t \ {Max(t)}] \in W /\ Max(t) \in 1 .. n
               /\ h[t] = F[<<h[t \ {Max(t)}], Max(t)>>]
            BY <1>0, <1>3, LargestIsThere DEF Iterates
      <2>2. h[{}] = << >>  BY <1>3 DEF Iterates
      <2>3. \A t \in SUBSET (1 .. n) : h[t] = rec(h)[t]  BY <2>1, <2>2
      <2>. QED  BY <1>3, <2>3 DEF Iterates
<1>5. iter = rec(iter)  BY <1>4
<1>. HIDE DEF iter
<1>6. \A t \in SUBSET (1 .. n) :
         iter[t] = IF t = {} THEN << >> ELSE Op(iter[t \ {Max(t)}], Max(t))
      BY <1>5
<1>7. /\ w[0] = << >>
      /\ \A k \in 1 .. n : w[k] = Op(w[k - 1], k)
      <2>1. iter[1 .. 0] = << >>  BY <1>6, <1>0, FirstOnes
      <2>2. ASSUME NEW k \in 1 .. n PROVE iter[1 .. k] = Op(iter[1 .. (k - 1)], k)
            <3>1. /\ 1 .. k \in SUBSET (1 .. n) /\ 1 .. k # {}
                  /\ Max(1 .. k) = k /\ (1 .. k) \ {k} = 1 .. (k - 1)
                  BY <1>0, FirstOnes
            <3>2. iter[1 .. k] = Op(iter[(1 .. k) \ {Max(1 .. k)}], Max(1 .. k))
                  BY <1>6, <3>1
            <3>. QED  BY <3>1, <3>2
      <2>3. /\ w[0] = iter[1 .. 0]
            /\ \A k \in 1 .. n : w[k] = iter[1 .. k] /\ w[k - 1] = iter[1 .. (k - 1)]
            BY <1>0
      <2>. QED  BY <2>1, <2>2, <2>3
<1>8. ASSUME \A k \in 0 .. n : w[k] \in W
      PROVE  w \in [0 .. n -> W] /\ InOrder(s) = w[n]
      BY <1>1, <1>8, <1>0
<1>. HIDE DEF w
<1>9. \A k \in 0 .. n : w[k] \in W
      <2>. DEFINE S == {k \in 0 .. n : w[k] \in W}
      <2>1. 0 \in S
            <3>1. << >> \in W  BY DEF W
            <3>2. w[0] \in W /\ 0 \in 0 .. n  BY <1>7, <1>0, <3>1
            <3>. QED  BY <3>2
      <2>2. ASSUME NEW k \in 1 .. n, k - 1 \in S PROVE k \in S
            BY <2>2, <1>0, <1>2, <1>7
      <2>. HIDE DEF S
      <2>3. \A k \in 0 .. n : k \in S  BY <2>1, <2>2, <1>0, InductionUpTo
      <2>. QED  BY <2>3 DEF S
<1>10. w \in [0 .. n -> W] /\ InOrder(s) = w[n]  BY <1>8, <1>9
<1>11. InsertsAll(w, R, s)  BY <1>7, <1>10, Zenon DEF InsertsAll, n, Op, W
<1>. QED  BY <1>11

\* Rules that the cascade's order tells apart.
Comparable(R) == /\ \A r \in R : KeysRead(r)
                 /\ \A r, s \in R : r.id = s.id => r = s

\* A rule put into sorted ones leaves them sorted.
LEMMA InsertedKeepsOrder ==
    ASSUME NEW R, Comparable(R), NEW s \in Seq(R), NEW r \in R,
           Sorted(s), r \notin Range(s)
    PROVE  /\ Inserted(s, r) \in Seq(R)
           /\ Sorted(Inserted(s, r))
           /\ Range(Inserted(s, r)) = Range(s) \cup {r}
<1>. DEFINE t == Inserted(s, r)
            n == Len(s)
<1>0. n \in Nat /\ DOMAIN s = 1 .. n /\ \A i \in 1 .. n : s[i] \in R  OBVIOUS
<1>1. PICK at \in 1 .. n + 1 :
             /\ t = InsertAt(s, at, r)
             /\ \A i \in 1 .. at - 1 : ~compareRules(r, s[i])
             /\ at <= n => compareRules(r, s[at])
      BY InsertedIsASequence
<1>2. /\ t \in Seq(R) /\ Len(t) = n + 1 /\ t[at] = r
      /\ \A j \in 1 .. at - 1 : t[j] = s[j]
      /\ \A j \in at .. n : t[j + 1] = s[j]
      BY <1>1, InsertAtIs
<1>. HIDE DEF n, t
<1>3. DOMAIN t = 1 .. n + 1  BY <1>2
<1>4. \A i \in 1 .. n + 1 : \/ i \in 1 .. at - 1 /\ t[i] = s[i] /\ i \in 1 .. n
                            \/ i = at /\ t[i] = r
                            \/ i - 1 \in at .. n /\ t[i] = s[i - 1] /\ i - 1 \in 1 .. n
      <2>. TAKE i \in 1 .. n + 1
      <2>1. CASE i \in 1 .. at - 1
            <3>1. t[i] = s[i] /\ i \in 1 .. n  BY <2>1, <1>0, <1>2
            <3>. QED  BY <3>1, <2>1
      <2>2. CASE i = at
            <3>1. t[i] = r  BY <2>2, <1>2
            <3>. QED  BY <3>1, <2>2
      <2>3. CASE i > at
            <3>1. i - 1 \in at .. n /\ (i - 1) + 1 = i /\ i - 1 \in 1 .. n
                  BY <2>3, <1>0, <1>1
            <3>. QED  BY <3>1, <1>2
      <2>. QED  BY <2>1, <2>2, <2>3, <1>0, <1>1
<1>5. \A i, j \in 1 .. n : i < j => compareRules(s[i], s[j])
      BY <1>0 DEF Sorted
<1>6. \A a, b, c \in R : /\ a # b => (compareRules(a, b) <=> ~compareRules(b, a))
                         /\ compareRules(a, b) /\ compareRules(b, c) => compareRules(a, c)
      BY CascadeIsAnOrder DEF Comparable
<1>7. \A i \in 1 .. n : s[i] # r  BY <1>0 DEF Range
<1>8. \A i \in 1 .. at - 1 : compareRules(s[i], r)
      <2>. TAKE i \in 1 .. at - 1
      <2>1. i \in 1 .. n  BY <1>0, <1>1
      <2>. QED  BY <2>1, <1>0, <1>1, <1>6, <1>7
<1>9. \A i \in at .. n : compareRules(r, s[i])
      <2>. TAKE i \in at .. n
      <2>1. at \in 1 .. n /\ i \in 1 .. n /\ compareRules(r, s[at])  BY <1>0, <1>1
      <2>2. CASE i = at  BY <2>1, <2>2
      <2>3. CASE at < i
            <3>1. compareRules(s[at], s[i])  BY <2>1, <2>3, <1>5
            <3>. QED  BY <3>1, <2>1, <1>0, <1>6
      <2>. QED  BY <2>2, <2>3, <1>1
<1>10. Sorted(t)
      <2>. SUFFICES ASSUME NEW i \in 1 .. n + 1, NEW j \in 1 .. n + 1, i < j
                    PROVE  compareRules(t[i], t[j])
           BY <1>3 DEF Sorted
      <2>1. CASE i \in 1 .. at - 1 /\ t[i] = s[i] /\ i \in 1 .. n
            <3>1. CASE j \in 1 .. at - 1 /\ t[j] = s[j] /\ j \in 1 .. n
                  BY <2>1, <3>1, <1>5
            <3>2. CASE j = at /\ t[j] = r  BY <2>1, <3>2, <1>8
            <3>3. CASE j - 1 \in at .. n /\ t[j] = s[j - 1] /\ j - 1 \in 1 .. n
                  <4>1. i < j - 1  BY <2>1, <3>3, <1>1
                  <4>. QED  BY <4>1, <2>1, <3>3, <1>5
            <3>. QED  BY <3>1, <3>2, <3>3, <1>4
      <2>2. CASE i = at /\ t[i] = r
            <3>1. CASE j - 1 \in at .. n /\ t[j] = s[j - 1] /\ j - 1 \in 1 .. n
                  BY <2>2, <3>1, <1>9
            <3>2. ~(j \in 1 .. at - 1) /\ j # at  BY <2>2
            <3>. QED  BY <3>1, <3>2, <1>4
      <2>3. CASE i - 1 \in at .. n /\ t[i] = s[i - 1] /\ i - 1 \in 1 .. n
            <3>1. CASE j - 1 \in at .. n /\ t[j] = s[j - 1] /\ j - 1 \in 1 .. n
                  <4>1. i - 1 < j - 1  OBVIOUS
                  <4>. QED  BY <4>1, <2>3, <3>1, <1>5
            <3>2. ~(j \in 1 .. at - 1) /\ j # at  BY <2>3, <1>1
            <3>. QED  BY <3>1, <3>2, <1>4
      <2>. QED  BY <2>1, <2>2, <2>3, <1>4
<1>11. Range(t) \subseteq Range(s) \cup {r}  BY <1>0, <1>3, <1>4 DEF Range
<1>12. Range(s) \cup {r} \subseteq Range(t)
      <2>1. r \in Range(t)  BY <1>1, <1>2, <1>3 DEF Range
      <2>2. ASSUME NEW i \in 1 .. n PROVE s[i] \in Range(t)
            <3>1. CASE i \in 1 .. at - 1
                  <4>1. i \in 1 .. n + 1 /\ t[i] = s[i]  BY <3>1, <1>0, <1>2
                  <4>. QED  BY <4>1, <1>3 DEF Range
            <3>2. CASE i \in at .. n
                  <4>1. i + 1 \in 1 .. n + 1 /\ t[i + 1] = s[i]  BY <3>2, <1>0, <1>2
                  <4>. QED  BY <4>1, <1>3 DEF Range
            <3>. QED  BY <3>1, <3>2, <1>0, <1>1
      <2>. QED  BY <2>1, <2>2, <1>0 DEF Range
<1>. QED  BY <1>2, <1>10, <1>11, <1>12 DEF t

\* InOrder sorts, and neither loses nor adds a rule.
LEMMA InOrderIs ==
    ASSUME NEW R, Comparable(R), NEW s \in Seq(R), Distinct(s)
    PROVE  /\ InOrder(s) \in Seq(R)
           /\ Sorted(InOrder(s))
           /\ Range(InOrder(s)) = Range(s)
<1>. DEFINE n == Len(s)
            Had(k) == {s[i] : i \in 1 .. k}
<1>0. n \in Nat /\ DOMAIN s = 1 .. n /\ \A i \in 1 .. n : s[i] \in R  OBVIOUS
<1>1. PICK w : InsertsAll(w, R, s)  BY InOrderSteps
<1>2. /\ w \in [0 .. n -> Seq(R)] /\ w[0] = << >>
      /\ \A k \in 1 .. n : w[k] = Inserted(w[k - 1], s[k])
      /\ InOrder(s) = w[n]
      BY <1>1 DEF InsertsAll
<1>. HIDE DEF n
<1>. DEFINE Good == {k \in 0 .. n : Sorted(w[k]) /\ Range(w[k]) = Had(k)}
<1>3. 0 \in Good
      <2>1. DOMAIN w[0] = {} /\ Had(0) = {}  BY <1>2
      <2>2. Range(w[0]) = {} /\ Sorted(w[0])  BY <2>1 DEF Range, Sorted
      <2>. QED  BY <2>1, <2>2, <1>0
<1>4. ASSUME NEW k \in 1 .. n, k - 1 \in Good PROVE k \in Good
      <2>. DEFINE v == w[k - 1]
      <2>1. v \in Seq(R) /\ s[k] \in R /\ w[k] = Inserted(v, s[k])  BY <1>0, <1>2
      <2>2. Range(v) = Had(k - 1) /\ Sorted(v)  BY <1>4
      <2>3. Had(k) = Had(k - 1) \cup {s[k]}
            <3>1. 1 .. k = (1 .. k - 1) \cup {k}  OBVIOUS
            <3>. QED  BY <3>1
      <2>4. s[k] \notin Had(k - 1)
            <3>1. \A i \in 1 .. k - 1 : i \in 1 .. n /\ i # k  BY <1>0
            <3>. QED  BY <3>1, <1>0 DEF Distinct
      <2>. HIDE DEF v, Had
      <2>5. Sorted(w[k]) /\ Range(w[k]) = Range(v) \cup {s[k]}
            BY <2>1, <2>2, <2>4, InsertedKeepsOrder
      <2>6. Sorted(w[k]) /\ Range(w[k]) = Had(k)  BY <2>2, <2>3, <2>5
      <2>. QED  BY <2>6
<1>. HIDE DEF Good
<1>5. n \in Good
      <2>1. \A k \in 0 .. n : k \in Good  BY <1>0, <1>3, <1>4, InductionUpTo
      <2>. QED  BY <2>1, <1>0
<1>6. Had(n) = Range(s)  BY <1>0 DEF Range
<1>7. w[n] \in Seq(R) /\ Sorted(w[n]) /\ Range(w[n]) = Had(n)
      BY <1>0, <1>2, <1>5 DEF Good
<1>. QED  BY <1>2, <1>6, <1>7

\* The same rules are sorted in one way only.
LEMMA SortedOneWay ==
    ASSUME NEW R, Comparable(R), NEW s \in Seq(R), NEW t \in Seq(R),
           Sorted(s), Sorted(t), Range(s) = Range(t)
    PROVE  s = t
<1>1. /\ Len(s) \in Nat /\ DOMAIN s = 1 .. Len(s) /\ \A i \in 1 .. Len(s) : s[i] \in R
      /\ Len(t) \in Nat /\ DOMAIN t = 1 .. Len(t) /\ \A i \in 1 .. Len(t) : t[i] \in R
      OBVIOUS
<1>2. \A a, b, c \in R : /\ ~compareRules(a, a)
                         /\ compareRules(a, b) /\ compareRules(b, c) => compareRules(a, c)
      BY CascadeIsAnOrder DEF Comparable
<1>3. /\ \A i \in 1 .. Len(s) : \E j \in 1 .. Len(t) : s[i] = t[j]
      /\ \A i \in 1 .. Len(t) : \E j \in 1 .. Len(s) : t[i] = s[j]
      BY <1>1 DEF Range
<1>4. /\ \A i, j \in 1 .. Len(s) : i < j => compareRules(s[i], s[j])
      /\ \A i, j \in 1 .. Len(t) : i < j => compareRules(t[i], t[j])
      BY <1>1 DEF Sorted
<1>. DEFINE Alike == {k \in Nat : \A i \in 1 .. k :
                        /\ i \in 1 .. Len(s) <=> i \in 1 .. Len(t)
                        /\ i \in 1 .. Len(s) => s[i] = t[i]}
<1>5. 0 \in Alike  OBVIOUS
<1>6. ASSUME NEW k \in Nat, k \in Alike PROVE k + 1 \in Alike
      <2>. DEFINE m == k + 1
      <2>1. \A i \in 1 .. m : i = m \/ i \in 1 .. k  OBVIOUS
      <2>2. \A i \in 1 .. k : /\ i \in 1 .. Len(s) <=> i \in 1 .. Len(t)
                              /\ i \in 1 .. Len(s) => s[i] = t[i]
            BY <1>6
      <2>3. m \in Nat /\ \A i \in Nat : i < m /\ i >= 1 => i \in 1 .. k  OBVIOUS
      <2>. HIDE DEF m
      <2>4. ASSUME m \in 1 .. Len(s), NEW j \in 1 .. Len(t), s[m] = t[j]
            PROVE  m <= j
            <3>. SUFFICES ASSUME j < m PROVE FALSE  BY <2>3
            <3>1. j \in 1 .. k /\ j \in 1 .. Len(s)  BY <2>2, <2>3
            <3>2. s[j] = s[m] /\ compareRules(s[j], s[m])  BY <3>1, <2>2, <2>4, <1>4
            <3>. QED  BY <3>1, <3>2, <2>4, <1>1, <1>2
      <2>5. ASSUME m \in 1 .. Len(t), NEW j \in 1 .. Len(s), t[m] = s[j]
            PROVE  m <= j
            <3>. SUFFICES ASSUME j < m PROVE FALSE  BY <2>3
            <3>1. j \in 1 .. k /\ j \in 1 .. Len(t)  BY <2>2, <2>3
            <3>2. t[j] = t[m] /\ compareRules(t[j], t[m])  BY <3>1, <2>2, <2>5, <1>4
            <3>. QED  BY <3>1, <3>2, <2>5, <1>1, <1>2
      <2>6. m \in 1 .. Len(s) <=> m \in 1 .. Len(t)
            <3>1. m \in 1 .. Len(s) => m \in 1 .. Len(t)
                  <4>. SUFFICES ASSUME m \in 1 .. Len(s) PROVE m \in 1 .. Len(t)
                       OBVIOUS
                  <4>1. PICK j \in 1 .. Len(t) : s[m] = t[j]  BY <1>3
                  <4>. QED  BY <4>1, <2>4, <1>1
            <3>2. m \in 1 .. Len(t) => m \in 1 .. Len(s)
                  <4>. SUFFICES ASSUME m \in 1 .. Len(t) PROVE m \in 1 .. Len(s)
                       OBVIOUS
                  <4>1. PICK j \in 1 .. Len(s) : t[m] = s[j]  BY <1>3
                  <4>. QED  BY <4>1, <2>5, <1>1
            <3>. QED  BY <3>1, <3>2
      <2>7. ASSUME m \in 1 .. Len(s) PROVE s[m] = t[m]
            <3>1. m \in 1 .. Len(t)  BY <2>6, <2>7
            <3>2. PICK j \in 1 .. Len(t) : s[m] = t[j]  BY <1>3, <2>7
            <3>3. PICK l \in 1 .. Len(s) : t[m] = s[l]  BY <1>3, <3>1
            <3>4. m <= j /\ m <= l  BY <2>4, <2>5, <2>7, <3>1, <3>2, <3>3
            <3>5. CASE j = m  BY <3>2, <3>5
            <3>6. CASE l = m  BY <3>3, <3>6
            <3>7. CASE m < j /\ m < l
                  <4>1. compareRules(t[m], t[j]) /\ compareRules(s[m], s[l])
                        BY <1>4, <2>7, <3>1, <3>7
                  <4>2. t[m] \in R /\ s[m] \in R  BY <1>1, <2>7, <3>1
                  <4>. QED  BY <4>1, <4>2, <3>2, <3>3, <1>2
            <3>. QED  BY <3>4, <3>5, <3>6, <3>7, <2>3
      <2>. QED  BY <2>1, <2>2, <2>6, <2>7, <2>3 DEF m
<1>. HIDE DEF Alike
<1>7. \A k \in Nat : k \in Alike  BY <1>5, <1>6, Induction
<1>8. /\ \A i \in 1 .. Len(s) : i \in 1 .. Len(t) /\ s[i] = t[i]
      /\ \A i \in 1 .. Len(t) : i \in 1 .. Len(s)
      <2>1. \A i \in Nat : i >= 1 => (i \in 1 .. Len(s) <=> i \in 1 .. Len(t))
                                  /\ (i \in 1 .. Len(s) => s[i] = t[i])
            BY <1>7 DEF Alike
      <2>. QED  BY <2>1
<1>9. Len(s) = Len(t)
      <2>1. Len(s) = 0 \/ Len(s) \in 1 .. Len(s)  BY <1>1
      <2>2. Len(t) = 0 \/ Len(t) \in 1 .. Len(t)  BY <1>1
      <2>3. Len(s) <= Len(t)
            <3>1. Len(s) \in 1 .. Len(s) => Len(s) \in 1 .. Len(t)  BY <1>8
            <3>. QED  BY <3>1, <2>1, <1>1
      <2>4. Len(t) <= Len(s)
            <3>1. Len(t) \in 1 .. Len(t) => Len(t) \in 1 .. Len(s)  BY <1>8
            <3>. QED  BY <3>1, <2>2, <1>1
      <2>5. Len(s) \in Nat /\ Len(t) \in Nat  BY <1>1
      <2>. HIDE DEF Alike
      <2>. QED  BY <2>3, <2>4, <2>5
<1>. QED  BY <1>1, <1>8, <1>9

(***************************************************************************)
(* Euclid's recursion                                                      *)
(***************************************************************************)
\* What divides a number, and what divides two.
Splits(a, d) == \E x \in Nat : a = d * x
Common(a, b) == {d \in Nat \ {0} : Splits(a, d) /\ Splits(b, d)}

\* The step of Euclid's algorithm keeps the common divisors.
LEMMA RemainderSplits ==
    ASSUME NEW a \in Nat, NEW b \in Nat \ {0}, NEW d \in Nat \ {0}, Splits(b, d)
    PROVE  Splits(a, d) <=> Splits(a % b, d)
<1>1. PICK q \in Int, r \in 0 .. b - 1 : a = b * q + r /\ r = a % b
      <2>1. /\ a \div b \in Int /\ a % b \in 0 .. b - 1
            /\ a = b * (a \div b) + (a % b)
            <3>1. a \in Int  OBVIOUS
            <3>. QED  BY <3>1, Divides
      <2>. QED  BY <2>1
<1>0. q \in Nat
      <2>. SUFFICES ASSUME q <= -1 PROVE FALSE  OBVIOUS
      <2>1. b * q <= -b  BY <1>1
      <2>. QED  BY <1>1, <2>1
<1>2. PICK y \in Nat : b = d * y  BY DEF Splits
<1>3. b * q = d * (y * q)  BY <1>1, <1>2
<1>4. y * q \in Nat  BY <1>0
<1>5. PICK m \in Nat : m = y * q /\ a = d * m + r  BY <1>1, <1>3, <1>4
<1>6. ASSUME NEW x \in Nat, a = d * x PROVE x - m \in Nat /\ r = d * (x - m)
      <2>1. r = d * (x - m)  BY <1>5, <1>6
      <2>2. x >= m
            <3>. SUFFICES ASSUME x - m <= -1 PROVE FALSE  OBVIOUS
            <3>1. d * (x - m) <= -d  OBVIOUS
            <3>. QED  BY <3>1, <2>1, <1>1
      <2>. QED  BY <2>1, <2>2
<1>7. ASSUME NEW z \in Nat, r = d * z PROVE m + z \in Nat /\ a = d * (m + z)
      BY <1>5, <1>7
<1>. QED  BY <1>1, <1>6, <1>7 DEF Splits

\* No divisor of a positive number is above it.
LEMMA SplitBounds ==
    ASSUME NEW a \in Nat, NEW d \in Nat \ {0}
    PROVE  /\ Splits(a, a) /\ Splits(0, d)
           /\ a # 0 /\ Splits(a, d) => d <= a
<1>1. a = a * 1 /\ 0 = d * 0  OBVIOUS
<1>2. ASSUME NEW x \in Nat, a = d * x, a # 0 PROVE d <= a
      <2>1. x # 0  BY <1>2
      <2>. QED  BY <1>2, <2>1
<1>. QED  BY <1>1, <1>2 DEF Splits

\* Two numbers, not both zero, have a greatest common divisor; it is the function
\* that Euclid's recursion defines.
LEMMA GcdIsThere ==
    \A a, b \in Nat : greatestCommonDivisor[<<a, b>>] =
        IF b = 0 THEN IF a = 0 THEN 1 ELSE a
        ELSE greatestCommonDivisor[<<b, a % b>>]
<1>. DEFINE Largest(s) == CHOOSE d \in s : \A e \in s : d >= e
            g == [p \in Nat \X Nat |->
                    IF p[1] = 0 /\ p[2] = 0 THEN 1 ELSE Largest(Common(p[1], p[2]))]
            Step(h, a, b) == IF b = 0 THEN IF a = 0 THEN 1 ELSE a ELSE h[<<b, a % b>>]
            rec(h) == [p \in Nat \X Nat |-> Step(h, p[1], p[2])]
<1>1. ASSUME NEW a \in Nat, NEW b \in Nat PROVE g[<<a, b>>] = Step(g, a, b)
      <2>1. CASE b = 0 /\ a = 0  BY <2>1
      <2>2. CASE b = 0 /\ a # 0
            <3>1. a \in Common(a, 0) /\ \A e \in Common(a, 0) : a >= e
                  BY <2>2, SplitBounds DEF Common
            <3>2. \A d \in Common(a, 0) : d \in Nat  BY DEF Common
            <3>3. \A d \in Common(a, 0) : (\A e \in Common(a, 0) : d >= e) => d = a
                  BY <3>1, <3>2
            <3>4. Largest(Common(a, 0)) = a  BY <3>1, <3>3
            <3>. HIDE DEF Largest
            <3>. QED  BY <2>2, <3>4
      <2>3. CASE b # 0
            <3>1. a % b \in Nat  BY <2>3, Divides
            <3>2. Common(a, b) = Common(b, a % b)  BY <2>3, RemainderSplits DEF Common
            <3>. HIDE DEF Largest
            <3>. QED  BY <2>3, <3>1, <3>2
      <2>. QED  BY <2>1, <2>2, <2>3
<1>2. g = rec(g)
      <2>. HIDE DEF Largest
      <2>1. \A p \in Nat \X Nat : g[p] = Step(g, p[1], p[2])
            <3>. TAKE p \in Nat \X Nat
            <3>1. p = <<p[1], p[2]>> /\ p[1] \in Nat /\ p[2] \in Nat  OBVIOUS
            <3>. HIDE DEF g, Step
            <3>. QED  BY <3>1, <1>1
      <2>2. DOMAIN g = Nat \X Nat /\ g = [p \in Nat \X Nat |-> g[p]]  OBVIOUS
      <2>. HIDE DEF g, Step
      <2>. QED  BY <2>1, <2>2
<1>. HIDE DEF g
<1>3. greatestCommonDivisor = rec(greatestCommonDivisor)
      <2>1. greatestCommonDivisor = CHOOSE h : h = rec(h)
            BY DEF greatestCommonDivisor
      <2>. HIDE DEF rec
      <2>. QED  BY <1>2, <2>1
<1>4. ASSUME NEW a \in Nat, NEW b \in Nat
      PROVE  greatestCommonDivisor[<<a, b>>] = Step(greatestCommonDivisor, a, b)
      BY <1>3
<1>. QED  BY <1>4

\* greatestCommonDivisor (money.ts) divides both, and is not zero.
LEMMA GcdDivides ==
    ASSUME NEW a \in Nat, NEW b \in Nat
    PROVE  greatestCommonDivisor[<<a, b>>] \in Common(a, b)
<1>. DEFINE gcd(m, n) == greatestCommonDivisor[<<m, n>>]
            P == {k \in Nat : \A n \in 0 .. k : \A m \in Nat : gcd(m, n) \in Common(m, n)}
<1>0. \A m, n \in Nat : gcd(m, n) = IF n = 0 THEN IF m = 0 THEN 1 ELSE m
                                    ELSE gcd(n, m % n)
      BY GcdIsThere
<1>. HIDE DEF gcd
<1>1. \A m \in Nat : gcd(m, 0) \in Common(m, 0)
      <2>. TAKE m \in Nat
      <2>1. CASE m = 0
            <3>1. gcd(m, 0) = 1  BY <2>1, <1>0
            <3>. QED  BY <3>1, <2>1, SplitBounds DEF Common
      <2>2. CASE m # 0
            <3>1. gcd(m, 0) = m  BY <2>2, <1>0
            <3>. QED  BY <3>1, <2>2, SplitBounds DEF Common
      <2>. QED  BY <2>1, <2>2
<1>2. 0 \in P
      <2>1. 0 .. 0 = {0}  OBVIOUS
      <2>. QED  BY <1>1, <2>1
<1>3. ASSUME NEW k \in Nat, k \in P PROVE k + 1 \in P
      <2>1. ASSUME NEW m \in Nat PROVE gcd(m, k + 1) \in Common(m, k + 1)
            <3>. DEFINE n == k + 1
                        r == m % n
            <3>1. n \in Nat \ {0} /\ r \in 0 .. k  BY Divides
            <3>2. gcd(n, r) \in Common(n, r)  BY <1>3, <3>1
            <3>3. gcd(m, n) = gcd(n, r)  BY <1>0, <3>1
            <3>4. Common(n, r) = Common(m, n)
                  <4>. HIDE DEF n
                  <4>. QED  BY <3>1, RemainderSplits DEF Common
            <3>. QED  BY <3>2, <3>3, <3>4
      <2>2. \A n \in 0 .. k + 1 : n \in 0 .. k \/ n = k + 1  OBVIOUS
      <2>. HIDE DEF Common
      <2>. QED  BY <2>1, <2>2, <1>3
<1>. HIDE DEF P
<1>4. b \in P  BY <1>2, <1>3, Induction
<1>5. b \in 0 .. b  OBVIOUS
<1>. QED  BY <1>4, <1>5 DEF P, gcd
(***************************************************************************)
(* Fractions of a minor unit                                               *)
(***************************************************************************)
Fraction == [numerator : Nat, denominator : Nat \ {0}]

\* A factor that is not zero cancels.
LEMMA CancelEqual ==
    ASSUME NEW k \in Nat \ {0}, NEW a \in Int, NEW b \in Int, k * a = k * b
    PROVE  a = b
<1>1. a < b => k * a < k * b  BY SMT
<1>2. b < a => k * b < k * a  BY SMT
<1>. QED  BY <1>1, <1>2

LEMMA CancelOrder ==
    ASSUME NEW k \in Nat \ {0}, NEW a \in Int, NEW b \in Int
    PROVE  /\ k * a < k * b <=> a < b
           /\ k * a <= k * b <=> a <= b
BY SMT

\* A reduced fraction is the same fraction.
LEMMA ReducedKeepsTheValue ==
    ASSUME NEW f \in Fraction
    PROVE  /\ reduceFraction(f) \in Fraction
           /\ reduceFraction(f).numerator * f.denominator
                = f.numerator * reduceFraction(f).denominator
<1>1. PICK n \in Nat, d \in Nat \ {0} :
        f.numerator = n /\ f.denominator = d
      BY DEF Fraction
<1>2. PICK k \in Nat \ {0} : k = greatestCommonDivisor[<<n, d>>] /\ k \in Common(n, d)
      BY GcdDivides DEF Common
<1>3. PICK x \in Nat, y \in Nat : n = k * x /\ d = k * y
      BY <1>2 DEF Common, Splits
<1>4. n \div k = x /\ d \div k = y  BY <1>3, Multiple
<1>5. reduceFraction(f) = [numerator |-> x, denominator |-> y]
      BY <1>1, <1>2, <1>4 DEF reduceFraction
<1>6. y # 0  BY <1>1, <1>3
<1>7. x * (k * y) = (k * x) * y  BY <1>3
<1>. QED  BY <1>1, <1>3, <1>5, <1>6, <1>7 DEF Fraction

\* Of two fractions the smaller does not round to more.
LEMMA RoundedInOrder ==
    ASSUME NEW f \in Fraction, NEW g \in Fraction,
           f.numerator * g.denominator <= g.numerator * f.denominator
    PROVE  /\ roundFraction(f) \in Nat
           /\ roundFraction(f) <= roundFraction(g)
<1>1. PICK fn \in Nat, fd \in Nat \ {0}, gn \in Nat, gd \in Nat \ {0} :
        /\ f.numerator = fn /\ f.denominator = fd
        /\ g.numerator = gn /\ g.denominator = gd
      BY DEF Fraction
<1>2. PICK x \in Int, y \in Int :
        /\ x = roundFraction(f) /\ y = roundFraction(g) /\ x >= 0
        /\ 2 * x * fd - fd <= 2 * fn
        /\ 2 * gn < 2 * y * gd + gd
      BY <1>1, RoundsHalfUp
<1>3. fn * gd <= gn * fd  BY <1>1
<1>. SUFFICES ASSUME y + 1 <= x PROVE FALSE  BY <1>2
<1>4. fd * (2 * y + 1) <= 2 * fn
      <2>1. fd * (2 * y + 1) <= fd * (2 * x - 1)  BY <1>1, <1>2, CancelOrder
      <2>2. fd * (2 * x - 1) = 2 * x * fd - fd  BY <1>1, <1>2
      <2>. QED  BY <2>1, <2>2, <1>2
<1>5. gd * (fd * (2 * y + 1)) <= gd * (2 * fn)  BY <1>1, <1>2, <1>4, CancelOrder
<1>6. fd * (2 * gn) < fd * (gd * (2 * y + 1))
      <2>1. gd * (2 * y + 1) = 2 * y * gd + gd  BY <1>1, <1>2
      <2>. QED  BY <2>1, <1>1, <1>2, CancelOrder
<1>7. gd * (fd * (2 * y + 1)) = fd * (gd * (2 * y + 1))  BY <1>1, <1>2
<1>8. gd * (2 * fn) = 2 * (fn * gd) /\ fd * (2 * gn) = 2 * (gn * fd)  BY <1>1, <1>2
<1>. HIDE <1>1
<1>. DEFINE a == gd * (fd * (2 * y + 1))
            b == fn * gd
            c == gn * fd
<1>9. a \in Int /\ b \in Int /\ c \in Int  BY <1>2
<1>10. a <= 2 * b /\ 2 * c < a /\ b <= c  BY <1>3, <1>5, <1>6, <1>7, <1>8
<1>. HIDE DEF a, b, c
<1>. QED  BY <1>9, <1>10

\* A whole number of minor units rounds to itself.
LEMMA WholeIsRounded ==
    ASSUME NEW minor \in Nat
    PROVE  wholeUnits(minor) \in Fraction /\ roundFraction(wholeUnits(minor)) = minor
<1>. DEFINE f == wholeUnits(minor)
<1>1. f \in Fraction /\ f.numerator = minor /\ f.denominator = 1
      BY DEF wholeUnits, Fraction
<1>. HIDE DEF f
<1>2. PICK x \in Int : x = roundFraction(f) /\ 2 * x * 1 - 1 <= 2 * minor
                       /\ 2 * minor < 2 * x * 1 + 1
      BY <1>1, RoundsHalfUp DEF Fraction
<1>3. x = minor  BY <1>2
<1>. QED  BY <1>1, <1>2, <1>3 DEF f

\* What a rule may do to a price.
EffectsOfRules == [type : {"set", "subtract"}, minor : Nat]
                    \cup [type : {"multiply"}, minor : 0 .. PERCENT_SCALE]

\* A percentage off, exactly.
LEMMA PercentTaken ==
    ASSUME NEW price \in Fraction, NEW part \in 0 .. PERCENT_SCALE
    PROVE  LET after == multiplyFraction(price, part, PERCENT_SCALE)
           IN  /\ after \in Fraction
               /\ after.numerator * (price.denominator * PERCENT_SCALE)
                    = (price.numerator * part) * after.denominator
<1>. DEFINE f == [numerator |-> price.numerator * part,
                  denominator |-> price.denominator * PERCENT_SCALE]
<1>1. PICK n \in Nat, d \in Nat \ {0} :
        price.numerator = n /\ price.denominator = d
      BY DEF Fraction
<1>2. n * part \in Nat /\ d * PERCENT_SCALE \in Nat \ {0}  BY DEF PERCENT_SCALE
<1>3. f \in Fraction  BY <1>1, <1>2 DEF Fraction
<1>4. multiplyFraction(price, part, PERCENT_SCALE) = reduceFraction(f)
      BY DEF multiplyFraction
<1>5. /\ f.numerator = price.numerator * part
      /\ f.denominator = price.denominator * PERCENT_SCALE
      OBVIOUS
<1>. HIDE DEF f
<1>. QED  BY <1>3, <1>4, <1>5, ReducedKeepsTheValue

\* Whatever is done to a price leaves a price, and, unless raisesPrice says so,
\* one that is charged at no more.
LEMMA EffectApplied ==
    ASSUME NEW price \in Fraction, NEW effect \in EffectsOfRules
    PROVE  /\ applyEffect(price, effect) \in Fraction
           /\ ~raisesPrice(price, effect) =>
                roundFraction(applyEffect(price, effect)) <= roundFraction(price)
<1>1. PICK n \in Nat, d \in Nat \ {0} :
        price.numerator = n /\ price.denominator = d
      BY DEF Fraction
<1>0. roundFraction(price) \in Nat
      <2>1. n * d <= n * d  OBVIOUS
      <2>. QED  BY <1>1, <2>1, RoundedInOrder
<1>2. ASSUME NEW after \in Fraction, after.numerator * d <= n * after.denominator
      PROVE  roundFraction(after) <= roundFraction(price)
      BY <1>1, <1>2, RoundedInOrder
<1>3. CASE effect.type = "set"
      <2>1. PICK m \in Nat : effect.minor = m  BY <1>3 DEF EffectsOfRules
      <2>2. Moved(price, effect) = wholeUnits(m) /\ wholeUnits(m).numerator = m
            BY <1>3, <2>1 DEF Moved, wholeUnits
      <2>3. applyEffect(price, effect) = wholeUnits(m)  BY <2>2 DEF applyEffect
      <2>. QED  BY <1>0, <1>3, <2>1, <2>3, WholeIsRounded DEF raisesPrice
<1>4. CASE effect.type = "subtract"
      <2>1. PICK m \in Nat : effect.minor = m  BY <1>4 DEF EffectsOfRules
      <2>. DEFINE after == [price EXCEPT !.numerator = n - m * d]
      <2>2. Moved(price, effect) = after
            BY <1>1, <1>4, <2>1 DEF Moved, subtractFromFraction
      <2>3. after.numerator = n - m * d /\ after.denominator = d /\ m * d \in Nat
            /\ (n - m * d >= 0 => after \in Fraction)
            BY <1>1 DEF Fraction
      <2>. HIDE DEF after
      <2>4. CASE n - m * d < 0
            <3>1. applyEffect(price, effect) = wholeUnits(0)
                  BY <2>2, <2>3, <2>4 DEF applyEffect
            <3>. QED  BY <3>1, <1>0, WholeIsRounded
      <2>5. CASE ~(n - m * d < 0)
            <3>1. applyEffect(price, effect) = after
                  BY <2>2, <2>3, <2>5 DEF applyEffect
            <3>2. (n - m * d) * d <= n * d
                  <4>1. d * (n - m * d) <= d * n  BY <2>3, CancelOrder
                  <4>. QED  BY <4>1, <2>3
            <3>3. after \in Fraction  BY <2>3, <2>5
            <3>. QED  BY <3>1, <3>2, <3>3, <2>3, <1>2
      <2>. QED  BY <2>4, <2>5
<1>5. CASE effect.type = "multiply"
      <2>1. PICK m \in 0 .. PERCENT_SCALE : effect.minor = m
            BY <1>5 DEF EffectsOfRules
      <2>. DEFINE after == multiplyFraction(price, m, PERCENT_SCALE)
      <2>2. Moved(price, effect) = after  BY <1>5, <2>1 DEF Moved
      <2>3. /\ after \in Fraction
            /\ after.numerator * (d * PERCENT_SCALE) = (n * m) * after.denominator
            BY <1>1, PercentTaken
      <2>. HIDE DEF after
      <2>4. PICK an \in Nat, ad \in Nat \ {0} :
              after.numerator = an /\ after.denominator = ad
            BY <2>3 DEF Fraction
      <2>5. applyEffect(price, effect) = after  BY <2>2, <2>4 DEF applyEffect
      <2>6. an * d <= n * ad
            <3>1. PERCENT_SCALE \in Nat \ {0}  BY DEF PERCENT_SCALE
            <3>2. PICK S \in Nat \ {0} : S = PERCENT_SCALE /\ m \in 0 .. S  BY <3>1
            <3>3. S * (an * d) = (n * ad) * m
                  <4>1. an * (d * S) = (n * m) * ad  BY <2>3, <2>4, <3>2
                  <4>. QED  BY <4>1, <3>2
            <3>4. n * ad \in Nat /\ an * d \in Nat  OBVIOUS
            <3>5. (n * ad) * m <= (n * ad) * S
                  <4>1. PICK k \in Nat : k = n * ad  BY <3>4
                  <4>2. k * m <= k * S  BY <3>2, <4>1
                  <4>. QED  BY <4>1, <4>2
            <3>6. (n * ad) * S = S * (n * ad)  BY <3>2, <3>4
            <3>. QED  BY <3>2, <3>3, <3>4, <3>5, <3>6, CancelOrder
      <2>. QED  BY <2>3, <2>4, <2>5, <2>6, <1>2
<1>. QED  BY <1>3, <1>4, <1>5 DEF EffectsOfRules

(***************************************************************************)
(* The walk down the cascade                                               *)
(***************************************************************************)

\* No effect, or one.
Effects == {<< >>} \cup {<<e>> : e \in EffectsOfRules}

\* percentageEffect gives an effect, if the percentage is in range.
LEMMA PercentageIs ==
    ASSUME NEW hundredths \in Nat
    PROVE  /\ percentageEffect(hundredths) \in Effects
           /\ percentageEffect(hundredths) # << >> =>
                /\ hundredths \in 0 .. PERCENT_SCALE
                /\ percentageEffect(hundredths)[1]
                     = [type |-> "multiply", minor |-> PERCENT_SCALE - hundredths]
<1>1. CASE hundredths \in 0 .. PERCENT_SCALE
      <2>. DEFINE e == [type |-> "multiply", minor |-> PERCENT_SCALE - hundredths]
      <2>1. percentageEffect(hundredths) = <<e>>
            BY <1>1 DEF percentageEffect, Effect
      <2>2. e \in EffectsOfRules  BY <1>1 DEF EffectsOfRules, PERCENT_SCALE
      <2>. QED  BY <1>1, <2>1, <2>2 DEF Effects
<1>2. CASE hundredths \notin 0 .. PERCENT_SCALE
      BY <1>2 DEF percentageEffect, Nothing, Effects
<1>. QED  BY <1>1, <1>2

\* amountEffect gives an effect of its amount.
LEMMA AmountIs ==
    ASSUME NEW minor \in Nat
    PROVE  /\ Effect("set", minor) \in Effects
           /\ Effect("subtract", minor) \in Effects
           /\ << >> \in Effects
BY DEF Effect, Effects, EffectsOfRules

\* A tier's effect, in its own currency.
LEMMA TierEffectIs ==
    ASSUME NEW tier, TierRead(tier), NEW currency
    PROVE  tierEffect(tier, currency) \in Effects
<1>1. CASE tier.kind = "percentage"
      BY <1>1, PercentageIs DEF tierEffect, TierRead
<1>2. CASE tier.kind # "percentage" /\ tier.currency # currency
      BY <1>2, AmountIs DEF tierEffect, TierRead, Nothing
<1>3. CASE tier.kind = "fixed_price" /\ tier.currency = currency
      BY <1>3, AmountIs DEF tierEffect, TierRead
<1>4. CASE tier.kind = "amount_off" /\ tier.currency = currency
      BY <1>4, AmountIs DEF tierEffect, TierRead
<1>. QED  BY <1>1, <1>2, <1>3, <1>4 DEF TierRead

\* What is picked is one of the tiers.
LEMMA PickedIs ==
    ASSUME NEW tiers, \A i \in DOMAIN tiers : TierRead(tiers[i]),
           NEW indices \in SUBSET DOMAIN tiers, NEW currency
    PROVE  EffectOfTier(Picked(tiers, indices), currency) \in Effects
<1>1. CASE indices = {}
      BY <1>1, AmountIs DEF Picked, EffectOfTier, IsThere, Nothing
<1>2. CASE indices # {}
      <2>1. PICK i \in indices : Picked(tiers, indices) = <<tiers[i]>>
            <3>1. (CHOOSE i \in indices : TRUE) \in indices  BY <1>2
            <3>. QED  BY <1>2, <3>1 DEF Picked
      <2>2. EffectOfTier(Picked(tiers, indices), currency)
              = tierEffect(tiers[i], currency)
            BY <2>1 DEF EffectOfTier, IsThere, Nothing
      <2>. QED  BY <2>2, TierEffectIs
<1>. QED  BY <1>1, <1>2

\* effectFor gives a rule's effect, whatever its kind.
LEMMA EffectIs ==
    ASSUME NEW rule, KeysRead(rule), ValueRead(rule), NEW ctx
    PROVE  /\ effectFor(rule, ctx) \in Effects
           /\ rule.kind = "percentage" /\ effectFor(rule, ctx) # << >> =>
                /\ rule.value \in 0 .. PERCENT_SCALE
                /\ effectFor(rule, ctx)[1]
                     = [type |-> "multiply", minor |-> PERCENT_SCALE - rule.value]
<1>1. CASE rule.kind = "percentage"
      <2>1. effectFor(rule, ctx) = percentageEffect(rule.value)  BY <1>1 DEF effectFor
      <2>. QED  BY <1>1, <2>1, PercentageIs DEF ValueRead
<1>2. CASE rule.kind \in {"fixed_price", "amount_off"}
      <2>1. CASE ctx.currency \notin DOMAIN rule.value
            BY <1>2, <2>1, AmountIs DEF effectFor, Nothing
      <2>2. CASE ctx.currency \in DOMAIN rule.value
            <3>1. rule.value[ctx.currency] \in Nat  BY <1>2, <2>2 DEF ValueRead
            <3>2. effectFor(rule, ctx) \in
                    {Effect("set", rule.value[ctx.currency]),
                     Effect("subtract", rule.value[ctx.currency])}
                  BY <1>2, <2>2 DEF effectFor
            <3>. QED  BY <1>2, <3>1, <3>2, AmountIs
      <2>. QED  BY <2>1, <2>2
<1>3. CASE rule.kind = "volume_tier"
      <2>1. PICK indices \in SUBSET DOMAIN rule.value :
              selectVolumeTier(rule.value, ctx.quantity) = Picked(rule.value, indices)
            BY DEF selectVolumeTier, FirstBest
      <2>2. effectFor(rule, ctx)
              = EffectOfTier(Picked(rule.value, indices), ctx.currency)
            BY <1>3, <2>1 DEF effectFor
      <2>. QED  BY <1>3, <2>2, PickedIs DEF ValueRead
<1>4. CASE rule.kind = "cart_value_tier"
      <2>1. CASE ~IsThere(ctx.cart)
            BY <1>4, <2>1, AmountIs DEF effectFor, Nothing
      <2>2. CASE IsThere(ctx.cart)
            <3>1. PICK indices \in SUBSET DOMAIN rule.value :
                    selectCartValueTier(rule.value, ctx.cart[1], ctx.currency)
                      = Picked(rule.value, indices)
                  BY DEF selectCartValueTier, FirstBest
            <3>2. effectFor(rule, ctx)
                    = EffectOfTier(Picked(rule.value, indices), ctx.currency)
                  BY <1>4, <2>2, <3>1 DEF effectFor
            <3>. QED  BY <1>4, <3>2, PickedIs DEF ValueRead
      <2>. QED  BY <2>1, <2>2
<1>. QED  BY <1>1, <1>2, <1>3, <1>4 DEF KeysRead, CLASS_RANK

\* Why a rule is passed over; and where a walk down the cascade may be.
Reasons == {"not_combinable_with_winner", "not_combinable", "no_effect",
            "would_raise_price", "applied"}

Walks == [price : Fraction, applied : Seq(Int), prices : Seq(Nat),
          stacks : BOOLEAN, trace : Seq(Int \X Reasons)]

\* A step of the walk leaves a walk.
LEMMA WalkedIsAWalk ==
    ASSUME NEW walk \in Walks, NEW rule, KeysRead(rule), ValueRead(rule),
           NEW effect \in Effects
    PROVE  Walked(walk, rule, effect) \in Walks
<1>0. rule.id \in Int  BY DEF KeysRead
<1>1. ASSUME NEW reason \in Reasons PROVE Skipped(walk, rule, reason) \in Walks
      <2>1. <<rule.id, reason>> \in Int \X Reasons  BY <1>0
      <2>2. Append(walk.trace, <<rule.id, reason>>) \in Seq(Int \X Reasons)
            BY <2>1 DEF Walks
      <2>. QED  BY <2>2 DEF Skipped, Walks
<1>4. \A reason \in Reasons : <<rule.id, reason>> \in Int \X Reasons  BY <1>0
<1>5. {"not_combinable_with_winner", "not_combinable", "no_effect",
       "would_raise_price", "applied"} \subseteq Reasons
      BY DEF Reasons
<1>6. \A reason \in {"not_combinable_with_winner", "not_combinable", "no_effect",
                      "would_raise_price"} : Skipped(walk, rule, reason) \in Walks
      BY <1>1, <1>5
<1>2. CASE effect = << >>
      BY <1>6, <1>2 DEF Walked, IsThere, Nothing
<1>3. CASE effect # << >>
      <2>1. PICK e \in EffectsOfRules : effect = <<e>>  BY <1>3 DEF Effects
      <2>2. Effected(walk, rule, applyEffect(walk.price, e)) \in Walks
            <3>1. PICK after \in Fraction : after = applyEffect(walk.price, e)
                  BY <2>1, EffectApplied DEF Walks
            <3>2. roundFraction(after) \in Nat
                  <4>1. after.numerator * after.denominator
                          <= after.numerator * after.denominator
                        BY DEF Fraction
                  <4>. QED  BY <4>1, RoundedInOrder
            <3>3. Append(walk.applied, rule.id) \in Seq(Int)  BY <1>0 DEF Walks
            <3>4. Append(walk.prices, roundFraction(after)) \in Seq(Nat)
                  BY <3>2 DEF Walks
            <3>5. Append(walk.trace, <<rule.id, "applied">>) \in Seq(Int \X Reasons)
                  BY <1>4, <1>5 DEF Walks
            <3>. QED  BY <3>1, <3>3, <3>4, <3>5 DEF Effected, Walks, ValueRead
      <2>3. effect[1] = e  BY <2>1
      <2>. QED  BY <1>6, <1>3, <2>2, <2>3 DEF Walked, IsThere, Nothing
<1>. QED  BY <1>2, <1>3

\* The walk after the first k rules.
WalksDown(w, s, ctx) ==
    /\ w \in [0 .. Len(s) -> Walks]
    /\ w[0] = Unwalked(ctx)
    /\ \A i \in 1 .. Len(s) : w[i] = Walked(w[i - 1], s[i], effectFor(s[i], ctx))
    /\ Cascade(s, ctx) = w[Len(s)]

\* The cascade is what its steps make of it.
LEMMA CascadeSteps ==
    ASSUME NEW R, \A r \in R : KeysRead(r) /\ ValueRead(r), NEW s \in Seq(R),
           NEW ctx, ctx.product.price \in Nat
    PROVE  \E w : WalksDown(w, s, ctx)
<1>. DEFINE n == Len(s)
            W == Walks
            Op(v, i) == Walked(v, s[i], effectFor(s[i], ctx))
            F == [p \in W \X (1 .. n) |-> Op(p[1], p[2])]
            rec(g) == [t \in SUBSET (1 .. n) |->
                         IF t = {} THEN Unwalked(ctx) ELSE Op(g[t \ {Max(t)}], Max(t))]
            iter == CHOOSE g : g = rec(g)
            w == [k \in 0 .. n |-> iter[1 .. k]]
<1>0. n \in Nat /\ DOMAIN s = 1 .. n  OBVIOUS
<1>1. Cascade(s, ctx) = iter[1 .. n]  BY <1>0 DEF Cascade, FoldLeft, MapThenFoldSet
<1>2. \A i \in 1 .. n : \A v \in W : Op(v, i) \in W
      <2>. TAKE i \in 1 .. n
      <2>1. s[i] \in R  OBVIOUS
      <2>2. KeysRead(s[i]) /\ ValueRead(s[i]) /\ effectFor(s[i], ctx) \in Effects
            BY <2>1, EffectIs
      <2>. QED  BY <2>2, WalkedIsAWalk
<1>3. PICK h : Iterates(W, n, F, Unwalked(ctx), h)
      <2>1. Unwalked(ctx) \in W  BY WholeIsRounded DEF Unwalked, Walks
      <2>2. F \in [W \X (1 .. n) -> W]
            <3>. HIDE DEF W, n, Op
            <3>. QED  BY <1>2
      <2>. HIDE DEF W, F, n
      <2>. QED  BY <1>0, <2>1, <2>2, IterationExists
<1>. HIDE DEF W, Op, n
<1>4. h = rec(h)
      <2>1. \A t \in SUBSET (1 .. n) : t # {} =>
               /\ h[t \ {Max(t)}] \in W /\ Max(t) \in 1 .. n
               /\ h[t] = F[<<h[t \ {Max(t)}], Max(t)>>]
            BY <1>0, <1>3, LargestIsThere DEF Iterates
      <2>2. h[{}] = Unwalked(ctx)  BY <1>3 DEF Iterates
      <2>3. \A t \in SUBSET (1 .. n) : h[t] = rec(h)[t]  BY <2>1, <2>2
      <2>. QED  BY <1>3, <2>3 DEF Iterates
<1>5. iter = rec(iter)  BY <1>4
<1>. HIDE DEF iter
<1>6. \A t \in SUBSET (1 .. n) :
         iter[t] = IF t = {} THEN Unwalked(ctx) ELSE Op(iter[t \ {Max(t)}], Max(t))
      BY <1>5
<1>7. /\ w[0] = Unwalked(ctx)
      /\ \A k \in 1 .. n : w[k] = Op(w[k - 1], k)
      <2>1. iter[1 .. 0] = Unwalked(ctx)  BY <1>6, <1>0, FirstOnes
      <2>2. ASSUME NEW k \in 1 .. n PROVE iter[1 .. k] = Op(iter[1 .. (k - 1)], k)
            <3>1. /\ 1 .. k \in SUBSET (1 .. n) /\ 1 .. k # {}
                  /\ Max(1 .. k) = k /\ (1 .. k) \ {k} = 1 .. (k - 1)
                  BY <1>0, FirstOnes
            <3>2. iter[1 .. k] = Op(iter[(1 .. k) \ {Max(1 .. k)}], Max(1 .. k))
                  BY <1>6, <3>1
            <3>. QED  BY <3>1, <3>2
      <2>3. /\ w[0] = iter[1 .. 0]
            /\ \A k \in 1 .. n : w[k] = iter[1 .. k] /\ w[k - 1] = iter[1 .. (k - 1)]
            BY <1>0
      <2>. QED  BY <2>1, <2>2, <2>3
<1>8. ASSUME \A k \in 0 .. n : w[k] \in W
      PROVE  w \in [0 .. n -> W] /\ Cascade(s, ctx) = w[n]
      BY <1>1, <1>8, <1>0
<1>. HIDE DEF w
<1>9. \A k \in 0 .. n : w[k] \in W
      <2>. DEFINE S == {k \in 0 .. n : w[k] \in W}
      <2>1. 0 \in S
            <3>1. Unwalked(ctx) \in W  BY WholeIsRounded DEF Unwalked, Walks, W
            <3>2. w[0] \in W /\ 0 \in 0 .. n  BY <1>7, <1>0, <3>1
            <3>. QED  BY <3>2
      <2>2. ASSUME NEW k \in 1 .. n, k - 1 \in S PROVE k \in S
            BY <2>2, <1>0, <1>2, <1>7
      <2>. HIDE DEF S
      <2>3. \A k \in 0 .. n : k \in S  BY <2>1, <2>2, <1>0, InductionUpTo
      <2>. QED  BY <2>3 DEF S
<1>10. w \in [0 .. n -> W] /\ Cascade(s, ctx) = w[n]  BY <1>8, <1>9
<1>11. WalksDown(w, s, ctx)  BY <1>7, <1>10, Zenon DEF WalksDown, n, Op, W
<1>. QED  BY <1>11

(***************************************************************************)
(* What every step of the walk keeps                                       *)
(***************************************************************************)
\* An id names its rule.
LEMMA NamedOnce ==
    ASSUME NEW rules, RulesAreRead(rules)
    PROVE  /\ Comparable(Range(rules))
           /\ Distinct(rules)
           /\ \A r \in Range(rules) : RuleNamed(rules, r.id) = r
<1>1. Comparable(Range(rules)) /\ Distinct(rules)
      BY DEF Comparable, Distinct, RulesAreRead, Range
<1>2. ASSUME NEW r \in Range(rules) PROVE RuleNamed(rules, r.id) = r
      <2>1. PICK i \in DOMAIN rules : rules[i] = r  BY DEF Range
      <2>2. \A j \in DOMAIN rules : rules[j].id = r.id => j = i
            BY <2>1 DEF RulesAreRead
      <2>3. (CHOOSE j \in DOMAIN rules : rules[j].id = r.id) = i  BY <2>1, <2>2
      <2>. QED  BY <2>1, <2>3 DEF RuleNamed
<1>. QED  BY <1>1, <1>2

\* The part of the price that is kept by the first i percentages, of how many.
Parts(kept, whole, rules, ids) ==
    /\ kept[0] = 1 /\ whole[0] = 1
    /\ \A i \in 1 .. Len(ids) :
         /\ kept[i] = kept[i - 1] * (100 - RuleNamed(rules, ids[i]).value \div 100)
         /\ whole[i] = whole[i - 1] * 100
    /\ \A i \in 0 .. Len(ids) : kept[i] \in Int /\ whole[i] \in Nat \ {0}

\* Only whole percentages have been applied.
Percentages(rules, ids) ==
    \A i \in DOMAIN ids : WholePercent(RuleNamed(rules, ids[i]))

\* The price is that part of the base, exactly.
IsPart(price, base, kept, whole) ==
    price.numerator * whole = (base * kept) * price.denominator

\* Whatever has been applied, the price is the exact product.
Exact(walk, rules, base) ==
    \A kept, whole :
        Parts(kept, whole, rules, walk.applied) /\ Percentages(rules, walk.applied)
          => IsPart(walk.price, base, kept[Len(walk.applied)], whole[Len(walk.applied)])

\* The prices told descend, and the last is the price rounded.
Descends(walk) ==
    /\ Len(walk.prices) = Len(walk.applied)
    /\ \A i \in 2 .. Len(walk.prices) : walk.prices[i] <= walk.prices[i - 1]
    /\ Len(walk.prices) # 0 =>
         walk.prices[Len(walk.prices)] = roundFraction(walk.price)

\* A percentage off an exact product is an exact product.
LEMMA PercentKeepsExact ==
    ASSUME NEW price \in Fraction, NEW p \in 0 .. 100, NEW base \in Nat,
           NEW kept \in Int, NEW whole \in Nat \ {0},
           IsPart(price, base, kept, whole), NEW effect, NEW keep, NEW all,
           effect = [type |-> "multiply", minor |-> PERCENT_SCALE - 100 * p],
           keep = kept * (100 - p), all = whole * 100
    PROVE  IsPart(applyEffect(price, effect), base, keep, all)
<1>. DEFINE m == PERCENT_SCALE - 100 * p
            e == [type |-> "multiply", minor |-> m]
            after == multiplyFraction(price, m, PERCENT_SCALE)
<1>1. m \in 0 .. PERCENT_SCALE /\ m = 100 * (100 - p)  BY DEF PERCENT_SCALE
<1>2. Moved(price, e) = after  BY DEF Moved
<1>3. /\ after \in Fraction
      /\ after.numerator * (price.denominator * PERCENT_SCALE)
           = (price.numerator * m) * after.denominator
      BY <1>1, PercentTaken
<1>. HIDE DEF after, e
<1>4. after.numerator >= 0  BY <1>3 DEF Fraction
<1>5. applyEffect(price, e) = after  BY <1>2, <1>4, <1>3 DEF applyEffect, Fraction
<1>6. PICK n \in Nat, d \in Nat \ {0}, an \in Nat, ad \in Nat \ {0} :
        /\ price.numerator = n /\ price.denominator = d
        /\ after.numerator = an /\ after.denominator = ad
      BY <1>3 DEF Fraction
<1>7. an * (d * 10000) = (n * (100 * (100 - p))) * ad
      BY <1>1, <1>3, <1>6 DEF PERCENT_SCALE
<1>8. n * whole = (base * kept) * d  BY <1>6 DEF IsPart
<1>. DEFINE x == an * (whole * 100)
            y == (base * (kept * (100 - p))) * ad
            k == 100 * d
<1>9. k * x = k * y
      <2>1. k * x = (an * (d * 10000)) * whole  OBVIOUS
      <2>2. k * y = ((base * kept) * d) * (100 * (100 - p) * ad)  OBVIOUS
      <2>3. (an * (d * 10000)) * whole = ((n * (100 * (100 - p))) * ad) * whole
            BY <1>7
      <2>4. ((n * (100 * (100 - p))) * ad) * whole
              = (n * whole) * (100 * (100 - p) * ad)
            OBVIOUS
      <2>5. (n * whole) * (100 * (100 - p) * ad)
              = ((base * kept) * d) * (100 * (100 - p) * ad)
            BY <1>8
      <2>. HIDE DEF x, y, k
      <2>. QED  BY <2>1, <2>2, <2>3, <2>4, <2>5
<1>10. k \in Nat \ {0} /\ x \in Int /\ y \in Int  OBVIOUS
<1>11. x = y
       <2>. HIDE DEF x, y, k
       <2>. QED  BY <1>9, <1>10, CancelEqual
<1>. QED  BY <1>5, <1>6, <1>11 DEF e, IsPart

\* A whole percentage is a number of percents.
LEMMA WholePercents ==
    ASSUME NEW n \in 0 .. PERCENT_SCALE, n % 100 = 0
    PROVE  \E p \in Nat : n = 100 * p
<1>1. n \in Nat  BY DEF PERCENT_SCALE
<1>2. n = 100 * (n \div 100) /\ n \div 100 \in Nat  BY <1>1
<1>. QED  BY <1>2

\* A rule that is applied keeps the product exact.
LEMMA StepKeepsExact ==
    ASSUME NEW rules, RulesAreRead(rules), NEW r \in Range(rules),
           NEW walk \in Walks, NEW base \in Nat, Exact(walk, rules, base),
           NEW ctx, NEW effect \in EffectsOfRules, effectFor(r, ctx) = <<effect>>
    PROVE  Exact(Effected(walk, r, applyEffect(walk.price, effect)), rules, base)
<1>. DEFINE after == applyEffect(walk.price, effect)
            next == Effected(walk, r, after)
            ids == walk.applied
            l == Len(ids)
<1>1. ids \in Seq(Int) /\ r.id \in Int /\ walk.price \in Fraction
      BY DEF Walks, KeysRead, RulesAreRead
<1>2. next.applied = Append(ids, r.id) /\ next.price = after  BY DEF Effected
<1>3. /\ DOMAIN Append(ids, r.id) = 1 .. l + 1 /\ Len(Append(ids, r.id)) = l + 1
      /\ \A i \in 1 .. l : Append(ids, r.id)[i] = ids[i]
      /\ Append(ids, r.id)[l + 1] = r.id
      /\ DOMAIN ids = 1 .. l /\ l \in Nat
      BY <1>1
<1>4. RuleNamed(rules, r.id) = r  BY NamedOnce
<1>. HIDE DEF next, after, l
<1>5. ASSUME NEW kept, NEW whole,
             Parts(kept, whole, rules, Append(ids, r.id)),
             Percentages(rules, Append(ids, r.id))
      PROVE  IsPart(after, base, kept[l + 1], whole[l + 1])
      <2>1. WholePercent(r) /\ Percentages(rules, ids)
            BY <1>3, <1>4, <1>5 DEF Percentages
      <2>2. /\ \A i \in 1 .. l : i \in 1 .. l + 1
            /\ \A i \in 0 .. l : i \in 0 .. l + 1
            /\ l + 1 \in 1 .. l + 1 /\ l \in 0 .. l + 1 /\ l + 1 - 1 = l
            BY <1>3
      <2>. DEFINE Kept(i) == /\ kept[i] = kept[i - 1] * (100 - RuleNamed(rules,
                                  Append(ids, r.id)[i]).value \div 100)
                             /\ whole[i] = whole[i - 1] * 100
                  Typed(i) == kept[i] \in Int /\ whole[i] \in Nat \ {0}
      <2>10. /\ kept[0] = 1 /\ whole[0] = 1
             /\ \A i \in 1 .. l + 1 : Kept(i)
             /\ \A i \in 0 .. l + 1 : Typed(i)
             BY <1>3, <1>5, Zenon DEF Parts
      <2>11. \A i \in 1 .. l : kept[i] = kept[i - 1]
                  * (100 - RuleNamed(rules, ids[i]).value \div 100)
                              /\ whole[i] = whole[i - 1] * 100
             BY <1>3, <2>2, <2>10
      <2>12. \A i \in 0 .. l : Typed(i)
             <3>. HIDE DEF Typed
             <3>. QED  BY <2>2, <2>10
      <2>3. Parts(kept, whole, rules, ids)
            BY <2>10, <2>11, <2>12, Zenon DEF Parts, l
      <2>4. IsPart(walk.price, base, kept[l], whole[l])
            BY <2>1, <2>3 DEF Exact, l
      <2>5. /\ kept[l + 1] = kept[l] * (100 - r.value \div 100)
            /\ whole[l + 1] = whole[l] * 100
            /\ kept[l] \in Int /\ whole[l] \in Nat \ {0}
            <3>. DEFINE Part(i) == 100 - RuleNamed(rules, Append(ids, r.id)[i]).value \div 100
            <3>1. /\ \A i \in 1 .. l + 1 : /\ kept[i] = kept[i - 1] * Part(i)
                                           /\ whole[i] = whole[i - 1] * 100
                  /\ \A i \in 0 .. l + 1 : kept[i] \in Int /\ whole[i] \in Nat \ {0}
                  BY <2>10, Zenon
            <3>2. Part(l + 1) = 100 - r.value \div 100
                  <4>1. RuleNamed(rules, Append(ids, r.id)[l + 1]) = r
                        BY <1>3, <1>4, Zenon
                  <4>. QED  BY <4>1, Zenon
            <3>. HIDE DEF Part
            <3>3. l + 1 \in 1 .. l + 1 /\ (l + 1) - 1 = l /\ l \in 0 .. l + 1
                  BY <1>3
            <3>4. PICK m \in 1 .. l + 1 : m = l + 1 /\ m - 1 = l  BY <3>3
            <3>5. kept[m] = kept[m - 1] * Part(m) /\ whole[m] = whole[m - 1] * 100
                  BY <3>1
            <3>. QED  BY <3>1, <3>2, <3>3, <3>4, <3>5, Zenon
      <2>6. /\ r.value \in 0 .. PERCENT_SCALE
            /\ effect = [type |-> "multiply", minor |-> PERCENT_SCALE - r.value]
            <3>1. KeysRead(r) /\ ValueRead(r)  BY DEF RulesAreRead
            <3>2. <<effect>> # << >> /\ <<effect>>[1] = effect  OBVIOUS
            <3>. QED  BY <2>1, <3>1, <3>2, EffectIs DEF WholePercent
      <2>7. PICK p \in Nat : r.value = 100 * p
            <3>1. r.value % 100 = 0  BY <2>1, Zenon DEF WholePercent
            <3>2. r.value \in 0 .. PERCENT_SCALE  BY <2>6
            <3>. QED  BY <3>1, <3>2, WholePercents, Zenon
      <2>8. p \in 0 .. 100 /\ r.value \div 100 = p
            BY <2>6, <2>7, Multiple DEF PERCENT_SCALE
      <2>9. IsPart(after, base, kept[l] * (100 - p), whole[l] * 100)
            <3>1. effect = [type |-> "multiply", minor |-> PERCENT_SCALE - 100 * p]
                  BY <2>6, <2>7
            <3>2. walk.price \in Fraction /\ p \in 0 .. 100  BY <1>1, <2>8
            <3>3. PICK k \in Int, w \in Nat, a \in Int, b \in Nat \ {0} :
                     /\ k = a * (100 - p) /\ w = b * 100
                     /\ a = kept[l] /\ b = whole[l]
                  <4>1. PICK a \in Int, b \in Nat \ {0} : a = kept[l] /\ b = whole[l]
                        BY <2>5
                  <4>2. a * (100 - p) \in Int /\ b * 100 \in Nat  OBVIOUS
                  <4>. QED  BY <4>1, <4>2
            <3>4. IsPart(walk.price, base, a, b)  BY <2>4, <3>3
            <3>5. IsPart(applyEffect(walk.price, effect), base, k, w)
                  BY <3>1, <3>2, <3>3, <3>4, PercentKeepsExact, Zenon
            <3>. QED  BY <3>3, <3>5 DEF after
      <2>13. PICK c \in Int : c = 100 - p /\ c = 100 - r.value \div 100  BY <2>8
      <2>14. IsPart(after, base, kept[l] * c, whole[l] * 100)  BY <2>9, <2>13
      <2>15. kept[l + 1] = kept[l] * c  BY <2>5, <2>13
      <2>16. whole[l + 1] = whole[l] * 100  BY <2>5
      <2>. QED  BY <2>14, <2>15, <2>16
<1>. QED  BY <1>2, <1>3, <1>5 DEF Exact, next, after

\* A rule that is applied does not raise the price told.
LEMMA StepDescends ==
    ASSUME NEW walk \in Walks, Descends(walk), NEW r, r.id \in Int,
           NEW effect \in EffectsOfRules,
           walk.applied # << >> => ~raisesPrice(walk.price, effect)
    PROVE  Descends(Effected(walk, r, applyEffect(walk.price, effect)))
<1>. DEFINE after == applyEffect(walk.price, effect)
            next == Effected(walk, r, after)
            n == Len(walk.prices)
            m == roundFraction(after)
<1>1. /\ walk.applied \in Seq(Int) /\ walk.prices \in Seq(Nat)
      /\ walk.price \in Fraction
      BY DEF Walks
<1>2. /\ after \in Fraction
      /\ walk.applied # << >> => m <= roundFraction(walk.price)
      BY <1>1, EffectApplied
<1>3. m \in Nat
      <2>1. after.numerator * after.denominator <= after.numerator * after.denominator
            BY <1>2 DEF Fraction
      <2>. QED  BY <1>2, <2>1, RoundedInOrder
<1>4. /\ next.applied = Append(walk.applied, r.id)
      /\ next.prices = Append(walk.prices, m)
      /\ next.price = after
      BY DEF Effected
<1>. HIDE DEF next, after, m
<1>5. /\ Len(next.applied) = Len(walk.applied) + 1
      /\ Len(next.prices) = n + 1 /\ n \in Nat /\ n = Len(walk.applied)
      /\ \A i \in 1 .. n : next.prices[i] = walk.prices[i]
      /\ next.prices[n + 1] = m
      BY <1>1, <1>3, <1>4 DEF Descends
<1>6. ASSUME NEW i \in 2 .. n + 1 PROVE next.prices[i] <= next.prices[i - 1]
      <2>1. CASE i \in 2 .. n
            <3>1. i \in 1 .. n /\ i - 1 \in 1 .. n  BY <2>1, <1>5
            <3>. QED  BY <3>1, <2>1, <1>5 DEF Descends
      <2>2. CASE i = n + 1
            <3>1. n # 0 /\ i - 1 = n /\ n \in 1 .. n  BY <2>2, <1>5
            <3>2. walk.applied # << >>  BY <3>1, <1>1, <1>5
            <3>. QED  BY <3>1, <3>2, <2>2, <1>2, <1>5 DEF Descends, m
      <2>. QED  BY <2>1, <2>2, <1>5
<1>7. next.prices[n + 1] = roundFraction(next.price)  BY <1>4, <1>5 DEF m
<1>. HIDE DEF n
<1>8. Descends(next)  BY <1>5, <1>6, <1>7 DEF Descends
<1>. QED  BY <1>8 DEF next, after

\* What every step of the walk keeps.
Sound(walk, rules, base) ==
    /\ Descends(walk) /\ Exact(walk, rules, base)
    /\ \A i \in DOMAIN walk.applied :
         \E r \in Range(rules) : r.id = walk.applied[i]

\* To pass over a rule keeps it.
LEMMA SkippedIsSound ==
    ASSUME NEW walk \in Walks, NEW rules, NEW base, Sound(walk, rules, base),
           NEW rule, NEW reason
    PROVE  Sound(Skipped(walk, rule, reason), rules, base)
<1>1. /\ Skipped(walk, rule, reason).price = walk.price
      /\ Skipped(walk, rule, reason).applied = walk.applied
      /\ Skipped(walk, rule, reason).prices = walk.prices
      BY DEF Skipped, Walks
<1>. QED  BY <1>1 DEF Sound, Descends, Exact

\* A step keeps it, whichever way it goes.
LEMMA StepIsSound ==
    ASSUME NEW rules, RulesAreRead(rules), NEW r \in Range(rules),
           NEW walk \in Walks, NEW base \in Nat, Sound(walk, rules, base), NEW ctx
    PROVE  Sound(Walked(walk, r, effectFor(r, ctx)), rules, base)
<1>1. r.id \in Int /\ effectFor(r, ctx) \in Effects
      BY EffectIs DEF RulesAreRead, KeysRead
<1>3. ASSUME NEW e \in EffectsOfRules, effectFor(r, ctx) = <<e>>,
             walk.applied # << >> => ~raisesPrice(walk.price, e)
      PROVE  Sound(Effected(walk, r, applyEffect(walk.price, e)), rules, base)
      <2>. DEFINE next == Effected(walk, r, applyEffect(walk.price, e))
      <2>1. Descends(next)  BY <1>1, <1>3, StepDescends DEF Sound
      <2>2. Exact(next, rules, base)  BY <1>3, StepKeepsExact DEF Sound
      <2>3. next.applied = Append(walk.applied, r.id) /\ walk.applied \in Seq(Int)
            BY DEF Effected, Walks
      <2>. HIDE DEF next
      <2>4. \A i \in DOMAIN next.applied :
              \E s \in Range(rules) : s.id = next.applied[i]
            <3>. TAKE i \in DOMAIN next.applied
            <3>1. CASE i \in DOMAIN walk.applied
                  <4>1. next.applied[i] = walk.applied[i]  BY <3>1, <2>3, <1>1
                  <4>. QED  BY <4>1, <3>1 DEF Sound
            <3>2. CASE i \notin DOMAIN walk.applied
                  <4>1. next.applied[i] = r.id  BY <3>2, <2>3, <1>1
                  <4>. QED  BY <4>1
            <3>. QED  BY <3>1, <3>2
      <2>. QED  BY <2>1, <2>2, <2>4 DEF Sound, next
<1>4. CASE effectFor(r, ctx) = << >>
      BY <1>4, SkippedIsSound DEF Walked, IsThere, Nothing
<1>5. CASE effectFor(r, ctx) # << >>
      <2>1. PICK e \in EffectsOfRules : effectFor(r, ctx) = <<e>>
            BY <1>1, <1>5 DEF Effects
      <2>2. effectFor(r, ctx)[1] = e  BY <2>1
      <2>3. CASE walk.applied # << >> /\ raisesPrice(walk.price, e)
            BY <2>2, <2>3, <1>5, SkippedIsSound DEF Walked, IsThere, Nothing
      <2>4. CASE walk.applied # << >> => ~raisesPrice(walk.price, e)
            BY <2>1, <2>2, <2>4, <1>3, <1>5, SkippedIsSound DEF Walked, IsThere, Nothing
      <2>. QED  BY <2>3, <2>4
<1>. QED  BY <1>4, <1>5

\* It holds before the first rule.
LEMMA UnwalkedIsSound ==
    ASSUME NEW rules, NEW ctx, ctx.product.price \in Nat
    PROVE  Sound(Unwalked(ctx), rules, ctx.product.price)
<1>. DEFINE base == ctx.product.price
<1>1. /\ Unwalked(ctx).applied = << >> /\ Unwalked(ctx).prices = << >>
      /\ Unwalked(ctx).price = [numerator |-> base, denominator |-> 1]
      BY DEF Unwalked, wholeUnits
<1>. HIDE DEF base
<1>2. Len(<< >>) = 0 /\ DOMAIN << >> = {} /\ base \in Nat  BY DEF base
<1>3. \A kept, whole : Parts(kept, whole, rules, << >>) => kept[0] = 1 /\ whole[0] = 1
      BY DEF Parts
<1>4. base * 1 = (base * 1) * 1  BY <1>2
<1>5. Exact(Unwalked(ctx), rules, base)
      BY <1>1, <1>2, <1>3, <1>4 DEF Exact, IsPart
<1>6. Descends(Unwalked(ctx))
      <2>1. 2 .. 0 = {}  OBVIOUS
      <2>. QED  BY <1>1, <1>2, <2>1 DEF Descends
<1>. QED  BY <1>1, <1>2, <1>5, <1>6 DEF Sound, base

\* It holds at the end of the cascade.
LEMMA CascadeIsSound ==
    ASSUME NEW rules, RulesAreRead(rules), NEW s \in Seq(Range(rules)),
           NEW ctx, ctx.product.price \in Nat
    PROVE  /\ Cascade(s, ctx) \in Walks
           /\ Sound(Cascade(s, ctx), rules, ctx.product.price)
<1>. DEFINE n == Len(s)
            base == ctx.product.price
<1>0. n \in Nat /\ \A i \in 1 .. n : s[i] \in Range(rules)  OBVIOUS
<1>1. PICK w : WalksDown(w, s, ctx)
      <2>. DEFINE R == Range(rules)
      <2>1. \A r \in R : KeysRead(r) /\ ValueRead(r)  BY DEF RulesAreRead
      <2>2. s \in Seq(R)  OBVIOUS
      <2>. HIDE DEF R
      <2>3. ctx.product.price \in Nat  OBVIOUS
      <2>. QED  BY <2>1, <2>2, <2>3, CascadeSteps, Zenon
<1>2. /\ w \in [0 .. n -> Walks] /\ w[0] = Unwalked(ctx)
      /\ \A k \in 1 .. n : w[k] = Walked(w[k - 1], s[k], effectFor(s[k], ctx))
      /\ Cascade(s, ctx) = w[n]
      BY <1>1 DEF WalksDown
<1>. HIDE DEF n, base
<1>. DEFINE Good == {k \in 0 .. n : Sound(w[k], rules, base)}
<1>3. 0 \in Good
      <2>1. Sound(Unwalked(ctx), rules, base)  BY UnwalkedIsSound DEF base
      <2>2. Sound(w[0], rules, base)  BY <1>2, <2>1
      <2>. QED  BY <1>0, <2>2
<1>4. ASSUME NEW k \in 1 .. n, k - 1 \in Good PROVE k \in Good
      <2>1. w[k - 1] \in Walks /\ s[k] \in Range(rules) /\ base \in Nat
            BY <1>0, <1>2, <1>4 DEF base
      <2>2. Sound(w[k - 1], rules, base)  BY <1>4
      <2>3. Sound(w[k], rules, base)  BY <1>2, <2>1, <2>2, StepIsSound
      <2>. QED  BY <2>3
<1>. HIDE DEF Good
<1>5. n \in Good
      <2>1. \A k \in 0 .. n : k \in Good  BY <1>0, <1>3, <1>4, InductionUpTo
      <2>. QED  BY <2>1, <1>0
<1>. QED  BY <1>0, <1>2, <1>5 DEF Good, base

\* The product of the parts kept by the first k rules.
KeepsParts(w, rules, ids) ==
    /\ w \in [0 .. Len(ids) -> Int]
    /\ w[0] = 1
    /\ \A i \in 1 .. Len(ids) : w[i] = w[i - 1] * (100 - RuleNamed(rules, ids[i]).value \div 100)
    /\ PartsKept(rules, ids) = w[Len(ids)]

LEMMA PartsKeptSteps ==
    ASSUME NEW rules, NEW ids \in Seq(Int),
           \A i \in DOMAIN ids : RuleNamed(rules, ids[i]).value \in Nat
    PROVE  \E w : KeepsParts(w, rules, ids)
<1>. DEFINE n == Len(ids)
            W == Int
            Op(v, i) == v * (100 - RuleNamed(rules, ids[i]).value \div 100)
            F == [p \in W \X (1 .. n) |-> Op(p[1], p[2])]
            rec(g) == [t \in SUBSET (1 .. n) |->
                         IF t = {} THEN 1 ELSE Op(g[t \ {Max(t)}], Max(t))]
            iter == CHOOSE g : g = rec(g)
            w == [k \in 0 .. n |-> iter[1 .. k]]
<1>0. n \in Nat /\ DOMAIN ids = 1 .. n  OBVIOUS
<1>1. PartsKept(rules, ids) = iter[1 .. n]  BY <1>0 DEF PartsKept, FoldLeft, MapThenFoldSet
<1>2. \A i \in 1 .. n : \A v \in W : Op(v, i) \in W
      <2>. TAKE i \in 1 .. n
      <2>1. RuleNamed(rules, ids[i]).value \in Nat  BY <1>0
      <2>2. PICK v \in Nat : v = RuleNamed(rules, ids[i]).value  BY <2>1
      <2>3. v \div 100 \in Int  BY <2>2
      <2>. QED  BY <2>2, <2>3
<1>3. PICK h : Iterates(W, n, F, 1, h)
      <2>1. 1 \in W  OBVIOUS
      <2>2. F \in [W \X (1 .. n) -> W]
            <3>. HIDE DEF W, n, Op
            <3>. QED  BY <1>2
      <2>. HIDE DEF W, F, n
      <2>. QED  BY <1>0, <2>1, <2>2, IterationExists
<1>. HIDE DEF W, Op, n
<1>4. h = rec(h)
      <2>1. \A t \in SUBSET (1 .. n) : t # {} =>
               /\ h[t \ {Max(t)}] \in W /\ Max(t) \in 1 .. n
               /\ h[t] = F[<<h[t \ {Max(t)}], Max(t)>>]
            BY <1>0, <1>3, LargestIsThere DEF Iterates
      <2>2. h[{}] = 1  BY <1>3 DEF Iterates
      <2>3. \A t \in SUBSET (1 .. n) : h[t] = rec(h)[t]  BY <2>1, <2>2
      <2>. QED  BY <1>3, <2>3 DEF Iterates
<1>5. iter = rec(iter)  BY <1>4
<1>. HIDE DEF iter
<1>6. \A t \in SUBSET (1 .. n) :
         iter[t] = IF t = {} THEN 1 ELSE Op(iter[t \ {Max(t)}], Max(t))
      BY <1>5
<1>7. /\ w[0] = 1
      /\ \A k \in 1 .. n : w[k] = Op(w[k - 1], k)
      <2>1. iter[1 .. 0] = 1  BY <1>6, <1>0, FirstOnes
      <2>2. ASSUME NEW k \in 1 .. n PROVE iter[1 .. k] = Op(iter[1 .. (k - 1)], k)
            <3>1. /\ 1 .. k \in SUBSET (1 .. n) /\ 1 .. k # {}
                  /\ Max(1 .. k) = k /\ (1 .. k) \ {k} = 1 .. (k - 1)
                  BY <1>0, FirstOnes
            <3>2. iter[1 .. k] = Op(iter[(1 .. k) \ {Max(1 .. k)}], Max(1 .. k))
                  BY <1>6, <3>1
            <3>. QED  BY <3>1, <3>2
      <2>3. /\ w[0] = iter[1 .. 0]
            /\ \A k \in 1 .. n : w[k] = iter[1 .. k] /\ w[k - 1] = iter[1 .. (k - 1)]
            BY <1>0
      <2>. QED  BY <2>1, <2>2, <2>3
<1>8. ASSUME \A k \in 0 .. n : w[k] \in W
      PROVE  w \in [0 .. n -> W] /\ PartsKept(rules, ids) = w[n]
      BY <1>1, <1>8, <1>0
<1>. HIDE DEF w
<1>9. \A k \in 0 .. n : w[k] \in W
      <2>. DEFINE S == {k \in 0 .. n : w[k] \in W}
      <2>1. 0 \in S
            <3>1. 1 \in W  BY DEF W
            <3>2. w[0] \in W /\ 0 \in 0 .. n  BY <1>7, <1>0, <3>1
            <3>. QED  BY <3>2
      <2>2. ASSUME NEW k \in 1 .. n, k - 1 \in S PROVE k \in S
            BY <2>2, <1>0, <1>2, <1>7
      <2>. HIDE DEF S
      <2>3. \A k \in 0 .. n : k \in S  BY <2>1, <2>2, <1>0, InductionUpTo
      <2>. QED  BY <2>3 DEF S
<1>10. w \in [0 .. n -> W] /\ PartsKept(rules, ids) = w[n]  BY <1>8, <1>9
<1>11. KeepsParts(w, rules, ids)  BY <1>7, <1>10, Zenon DEF KeepsParts, n, Op, W
<1>. QED  BY <1>11

\* A hundred to the k.
CountsParts(w, ids) ==
    /\ w \in [0 .. Len(ids) -> (Nat \ {0})]
    /\ w[0] = 1
    /\ \A i \in 1 .. Len(ids) : w[i] = w[i - 1] * 100
    /\ PartsInAll(ids) = w[Len(ids)]

LEMMA PartsInAllSteps ==
    ASSUME NEW ids \in Seq(Int)
    PROVE  \E w : CountsParts(w, ids)
<1>. DEFINE n == Len(ids)
            W == (Nat \ {0})
            Op(v, i) == v * 100
            F == [p \in W \X (1 .. n) |-> Op(p[1], p[2])]
            rec(g) == [t \in SUBSET (1 .. n) |->
                         IF t = {} THEN 1 ELSE Op(g[t \ {Max(t)}], Max(t))]
            iter == CHOOSE g : g = rec(g)
            w == [k \in 0 .. n |-> iter[1 .. k]]
<1>0. n \in Nat /\ DOMAIN ids = 1 .. n  OBVIOUS
<1>1. PartsInAll(ids) = iter[1 .. n]  BY <1>0 DEF PartsInAll, FoldLeft, MapThenFoldSet
<1>2. \A i \in 1 .. n : \A v \in W : Op(v, i) \in W
      OBVIOUS
<1>3. PICK h : Iterates(W, n, F, 1, h)
      <2>1. 1 \in W  OBVIOUS
      <2>2. F \in [W \X (1 .. n) -> W]
            <3>. HIDE DEF W, n, Op
            <3>. QED  BY <1>2
      <2>. HIDE DEF W, F, n
      <2>. QED  BY <1>0, <2>1, <2>2, IterationExists
<1>. HIDE DEF W, Op, n
<1>4. h = rec(h)
      <2>1. \A t \in SUBSET (1 .. n) : t # {} =>
               /\ h[t \ {Max(t)}] \in W /\ Max(t) \in 1 .. n
               /\ h[t] = F[<<h[t \ {Max(t)}], Max(t)>>]
            BY <1>0, <1>3, LargestIsThere DEF Iterates
      <2>2. h[{}] = 1  BY <1>3 DEF Iterates
      <2>3. \A t \in SUBSET (1 .. n) : h[t] = rec(h)[t]  BY <2>1, <2>2
      <2>. QED  BY <1>3, <2>3 DEF Iterates
<1>5. iter = rec(iter)  BY <1>4
<1>. HIDE DEF iter
<1>6. \A t \in SUBSET (1 .. n) :
         iter[t] = IF t = {} THEN 1 ELSE Op(iter[t \ {Max(t)}], Max(t))
      BY <1>5
<1>7. /\ w[0] = 1
      /\ \A k \in 1 .. n : w[k] = Op(w[k - 1], k)
      <2>1. iter[1 .. 0] = 1  BY <1>6, <1>0, FirstOnes
      <2>2. ASSUME NEW k \in 1 .. n PROVE iter[1 .. k] = Op(iter[1 .. (k - 1)], k)
            <3>1. /\ 1 .. k \in SUBSET (1 .. n) /\ 1 .. k # {}
                  /\ Max(1 .. k) = k /\ (1 .. k) \ {k} = 1 .. (k - 1)
                  BY <1>0, FirstOnes
            <3>2. iter[1 .. k] = Op(iter[(1 .. k) \ {Max(1 .. k)}], Max(1 .. k))
                  BY <1>6, <3>1
            <3>. QED  BY <3>1, <3>2
      <2>3. /\ w[0] = iter[1 .. 0]
            /\ \A k \in 1 .. n : w[k] = iter[1 .. k] /\ w[k - 1] = iter[1 .. (k - 1)]
            BY <1>0
      <2>. QED  BY <2>1, <2>2, <2>3
<1>8. ASSUME \A k \in 0 .. n : w[k] \in W
      PROVE  w \in [0 .. n -> W] /\ PartsInAll(ids) = w[n]
      BY <1>1, <1>8, <1>0
<1>. HIDE DEF w
<1>9. \A k \in 0 .. n : w[k] \in W
      <2>. DEFINE S == {k \in 0 .. n : w[k] \in W}
      <2>1. 0 \in S
            <3>1. 1 \in W  BY DEF W
            <3>2. w[0] \in W /\ 0 \in 0 .. n  BY <1>7, <1>0, <3>1
            <3>. QED  BY <3>2
      <2>2. ASSUME NEW k \in 1 .. n, k - 1 \in S PROVE k \in S
            BY <2>2, <1>0, <1>2, <1>7
      <2>. HIDE DEF S
      <2>3. \A k \in 0 .. n : k \in S  BY <2>1, <2>2, <1>0, InductionUpTo
      <2>. QED  BY <2>3 DEF S
<1>10. w \in [0 .. n -> W] /\ PartsInAll(ids) = w[n]  BY <1>8, <1>9
<1>11. CountsParts(w, ids)  BY <1>7, <1>10, Zenon DEF CountsParts, n, Op, W
<1>. QED  BY <1>11


\* Both products, step by step.
LEMMA PartsAreThere ==
    ASSUME NEW rules, NEW ids \in Seq(Int),
           \A i \in DOMAIN ids : RuleNamed(rules, ids[i]).value \in Nat
    PROVE  \E kept, whole : /\ Parts(kept, whole, rules, ids)
                            /\ kept[Len(ids)] = PartsKept(rules, ids)
                            /\ whole[Len(ids)] = PartsInAll(ids)
<1>1. PICK kept : KeepsParts(kept, rules, ids)  BY PartsKeptSteps
<1>2. PICK whole : CountsParts(whole, ids)  BY PartsInAllSteps
<1>3. Parts(kept, whole, rules, ids)
      <2>1. \A i \in 0 .. Len(ids) : kept[i] \in Int  BY <1>1 DEF KeepsParts
      <2>2. \A i \in 0 .. Len(ids) : whole[i] \in Nat \ {0}  BY <1>2 DEF CountsParts
      <2>. QED  BY <1>1, <1>2, <2>1, <2>2, Zenon DEF KeepsParts, CountsParts, Parts
<1>4. /\ kept[Len(ids)] = PartsKept(rules, ids)
      /\ whole[Len(ids)] = PartsInAll(ids)
      BY <1>1, <1>2, Zenon DEF KeepsParts, CountsParts
<1>. QED  BY <1>3, <1>4

\* The answer is that of a walk that is sound.
LEMMA ResolvedIsSound ==
    ASSUME NEW rules, RulesAreRead(rules), NEW ctx, ctx.product.price \in Nat
    PROVE  \E walk \in Walks : /\ resolveInternal(rules, ctx) = Resolved(walk)
                               /\ Sound(walk, rules, ctx.product.price)
<1>. DEFINE eligible == EligibleRules(rules, ctx)
            sorted == InOrder(eligible)
<1>1. eligible \in Seq(Range(rules)) /\ Distinct(eligible)
      BY OnlyIs, NamedOnce DEF EligibleRules, RulesAreRead
<1>. HIDE DEF eligible
<1>2. sorted \in Seq(Range(rules))  BY <1>1, InOrderIs, NamedOnce
<1>3. resolveInternal(rules, ctx) = Resolved(Cascade(sorted, ctx))
      BY DEF resolveInternal, eligible
<1>. HIDE DEF sorted
<1>. QED  BY <1>2, <1>3, CascadeIsSound

(***************************************************************************)
(* Whatever the rules and the buyer: once a rule has applied, no later one *)
(* of the cascade makes the buyer pay more (resolve.ts, raisesPrice).      *)
(***************************************************************************)
THEOREM PromisesAreKept ==
    ASSUME NEW rules, RulesAreRead(rules), NEW ctx, ctx.product.price \in Nat
    PROVE  PromisesKept(resolveInternal(rules, ctx))
<1>1. PICK walk \in Walks : /\ resolveInternal(rules, ctx) = Resolved(walk)
                            /\ Sound(walk, rules, ctx.product.price)
      BY ResolvedIsSound
<1>2. resolveInternal(rules, ctx).prices = walk.prices  BY <1>1 DEF Resolved
<1>. QED  BY <1>1, <1>2 DEF PromisesKept, Sound, Descends

\* An exact product rounded is within half a unit of it, halves up.
LEMMA HalfUpOfTheExact ==
    ASSUME NEW price \in Fraction, NEW base \in Nat, NEW kept \in Int,
           NEW whole \in Nat \ {0}, IsPart(price, base, kept, whole)
    PROVE  /\ 2 * base * kept >= (2 * roundFraction(price) - 1) * whole
           /\ 2 * base * kept < (2 * roundFraction(price) + 1) * whole
<1>1. PICK n \in Nat, d \in Nat \ {0} :
        price.numerator = n /\ price.denominator = d
      BY DEF Fraction
<1>2. PICK u \in Int : /\ u = roundFraction(price)
                       /\ 2 * u * d - d <= 2 * n
                       /\ 2 * n < 2 * u * d + d
      BY <1>1, RoundsHalfUp
<1>3. n * whole = (base * kept) * d  BY <1>1 DEF IsPart
<1>. DEFINE low == (2 * u - 1) * whole
            high == (2 * u + 1) * whole
            exact == 2 * base * kept
<1>4. d * low <= d * exact
      <2>1. whole * (2 * u * d - d) <= whole * (2 * n)  BY <1>2, CancelOrder
      <2>2. whole * (2 * u * d - d) = d * low  BY <1>2
      <2>3. whole * (2 * n) = 2 * (n * whole)  OBVIOUS
      <2>4. 2 * ((base * kept) * d) = d * exact  OBVIOUS
      <2>. HIDE DEF low, exact
      <2>. QED  BY <2>1, <2>2, <2>3, <2>4, <1>3
<1>5. d * exact < d * high
      <2>1. whole * (2 * n) < whole * (2 * u * d + d)  BY <1>2, CancelOrder
      <2>2. whole * (2 * u * d + d) = d * high  BY <1>2
      <2>3. whole * (2 * n) = 2 * (n * whole)  OBVIOUS
      <2>4. 2 * ((base * kept) * d) = d * exact  OBVIOUS
      <2>. HIDE DEF high, exact
      <2>. QED  BY <2>1, <2>2, <2>3, <2>4, <1>3
<1>6. low \in Int /\ high \in Int /\ exact \in Int  BY <1>2
<1>7. low <= exact /\ exact < high
      <2>. HIDE DEF low, high, exact
      <2>. QED  BY <1>4, <1>5, <1>6, CancelOrder
<1>. QED  BY <1>2, <1>6, <1>7

(***************************************************************************)
(* Whatever whole percentages stack: the price is their exact product,     *)
(* rounded once, half up (money.ts, resolve.ts), however many they are, as *)
(* long as the fraction stays below 2^53: past that multiplyFraction rounds*)
(* before it multiplies, which the model leaves out.                       *)
(***************************************************************************)
THEOREM RoundsOnce ==
    ASSUME NEW rules, RulesAreRead(rules), NEW ctx, ctx.product.price \in Nat
    PROVE  RoundedOnce(rules, ctx, resolveInternal(rules, ctx))
<1>1. PICK walk \in Walks : /\ resolveInternal(rules, ctx) = Resolved(walk)
                            /\ Sound(walk, rules, ctx.product.price)
      BY ResolvedIsSound
<1>. DEFINE ids == walk.applied
            base == ctx.product.price
<1>2. /\ resolveInternal(rules, ctx).applied = ids
      /\ resolveInternal(rules, ctx).unitPrice = roundFraction(walk.price)
      BY <1>1 DEF Resolved
<1>3. ids \in Seq(Int) /\ walk.price \in Fraction /\ base \in Nat  BY DEF Walks
<1>. HIDE DEF base
<1>4. ASSUME Percentages(rules, ids)
      PROVE  /\ 2 * base * PartsKept(rules, ids)
                  >= (2 * roundFraction(walk.price) - 1) * PartsInAll(ids)
             /\ 2 * base * PartsKept(rules, ids)
                  < (2 * roundFraction(walk.price) + 1) * PartsInAll(ids)
      <2>1. \A i \in DOMAIN ids : RuleNamed(rules, ids[i]).value \in Nat
            <3>. TAKE i \in DOMAIN ids
            <3>1. PICK r \in Range(rules) : r.id = ids[i]  BY <1>1 DEF Sound
            <3>2. RuleNamed(rules, ids[i]) = r /\ r.kind = "percentage"
                  BY <3>1, <1>4, NamedOnce DEF Percentages, WholePercent
            <3>. QED  BY <3>2 DEF RulesAreRead, ValueRead
      <2>2. PICK kept, whole : /\ Parts(kept, whole, rules, ids)
                               /\ kept[Len(ids)] = PartsKept(rules, ids)
                               /\ whole[Len(ids)] = PartsInAll(ids)
            BY <1>3, <2>1, PartsAreThere
      <2>3. IsPart(walk.price, base, kept[Len(ids)], whole[Len(ids)])
            BY <1>1, <1>4, <2>2 DEF Sound, Exact, base
      <2>4. kept[Len(ids)] \in Int /\ whole[Len(ids)] \in Nat \ {0}
            <3>1. Len(ids) \in 0 .. Len(ids)  BY <1>3
            <3>. QED  BY <3>1, <2>2 DEF Parts
      <2>. HIDE DEF ids
      <2>. QED  BY <1>3, <2>2, <2>3, <2>4, HalfUpOfTheExact
<1>. QED  BY <1>2, <1>4 DEF RoundedOnce, Percentages, base

(***************************************************************************)
(* The price, whatever the order, and the next tier                        *)
(***************************************************************************)
\* Rules read in two orders are sorted alike.
LEMMA SameRulesSameOrder ==
    ASSUME NEW R, Comparable(R), NEW s \in Seq(R), NEW t \in Seq(R),
           Distinct(s), Distinct(t), Range(s) = Range(t), NEW wanted
    PROVE  InOrder(Only(s, wanted)) = InOrder(Only(t, wanted))
<1>1. /\ Only(s, wanted) \in Seq(R) /\ Distinct(Only(s, wanted))
      /\ Only(t, wanted) \in Seq(R) /\ Distinct(Only(t, wanted))
      /\ Range(Only(s, wanted)) = Range(Only(t, wanted))
      <2>1. /\ Only(s, wanted) \in Seq(R) /\ Distinct(Only(s, wanted))
            /\ Range(Only(s, wanted)) = Range(s) \cap wanted
            BY OnlyIs
      <2>2. /\ Only(t, wanted) \in Seq(R) /\ Distinct(Only(t, wanted))
            /\ Range(Only(t, wanted)) = Range(t) \cap wanted
            BY OnlyIs
      <2>. QED  BY <2>1, <2>2
<1>2. /\ InOrder(Only(s, wanted)) \in Seq(R) /\ Sorted(InOrder(Only(s, wanted)))
      /\ Range(InOrder(Only(s, wanted))) = Range(Only(s, wanted))
      /\ InOrder(Only(t, wanted)) \in Seq(R) /\ Sorted(InOrder(Only(t, wanted)))
      /\ Range(InOrder(Only(t, wanted))) = Range(Only(t, wanted))
      BY <1>1, InOrderIs
<1>. QED  BY <1>1, <1>2, SortedOneWay

(***************************************************************************)
(* Whatever the rules, each with an id of its own, the price is that of the*)
(* same rules read in any other order (resolve.ts, compareRules).          *)
(***************************************************************************)
THEOREM NoOrderIsSeen ==
    ASSUME NEW rules, RulesAreRead(rules), NEW ctx
    PROVE  OrderBlind(rules, ctx)
<1>. SUFFICES ASSUME NEW p \in Bijection(DOMAIN rules, DOMAIN rules)
              PROVE  resolveInternal([i \in DOMAIN rules |-> rules[p[i]]], ctx)
                       = resolveInternal(rules, ctx)
     BY DEF OrderBlind
<1>. DEFINE read == [i \in DOMAIN rules |-> rules[p[i]]]
            R == Range(rules)
            n == Len(rules)
<1>1. rules \in Seq(R) /\ n \in Nat /\ DOMAIN rules = 1 .. n
      /\ \A i \in 1 .. n : rules[i] \in R
      BY DEF RulesAreRead
<1>2. /\ p \in [1 .. n -> 1 .. n]
      /\ \A i, j \in 1 .. n : p[i] = p[j] => i = j
      /\ \A j \in 1 .. n : \E i \in 1 .. n : p[i] = j
      BY <1>1 DEF Bijection, Injection, Surjection, IsInjective
<1>3. DOMAIN read = 1 .. n /\ \A i \in 1 .. n : read[i] = rules[p[i]] /\ read[i] \in R
      BY <1>1, <1>2
<1>4. read \in Seq(R)
      <2>1. read \in [1 .. n -> R]  BY <1>1, <1>3
      <2>. HIDE DEF read, R, n
      <2>. QED  BY <2>1, <1>1
<1>5. Distinct(rules) /\ Comparable(R)  BY NamedOnce
<1>6. Distinct(read)  BY <1>1, <1>2, <1>3, <1>5 DEF Distinct
<1>7. Range(read) = R
      <2>1. Range(read) \subseteq R  BY <1>3 DEF Range
      <2>2. ASSUME NEW j \in 1 .. n PROVE rules[j] \in Range(read)
            <3>1. PICK i \in 1 .. n : p[i] = j  BY <1>2
            <3>2. read[i] = rules[j]  BY <1>3, <3>1
            <3>. QED  BY <1>3, <3>2 DEF Range
      <2>3. R \subseteq Range(read)  BY <1>1, <2>2 DEF Range
      <2>. QED  BY <2>1, <2>3
<1>. HIDE DEF read, R, n
<1>8. InOrder(EligibleRules(read, ctx)) = InOrder(EligibleRules(rules, ctx))
      <2>. DEFINE wanted == {r \in R : Eligible(r, ctx)}
      <2>1. EligibleRules(read, ctx) = Only(read, wanted)
            BY <1>7 DEF EligibleRules
      <2>2. EligibleRules(rules, ctx) = Only(rules, wanted)
            BY DEF EligibleRules, R
      <2>3. Range(read) = Range(rules)  BY <1>7 DEF R
      <2>. HIDE DEF wanted
      <2>4. rules \in Seq(R) /\ read \in Seq(R)  BY <1>1, <1>4
      <2>5. InOrder(Only(read, wanted)) = InOrder(Only(rules, wanted))
            BY <1>5, <1>6, <2>3, <2>4, SameRulesSameOrder
      <2>. QED  BY <2>1, <2>2, <2>5
<1>9. resolveInternal(read, ctx) = resolveInternal(rules, ctx)
      BY <1>8 DEF resolveInternal
<1>. QED  BY <1>9 DEF read

\* The next tier starts above the quantity.
LEMMA NextTierIsAhead ==
    ASSUME NEW tiers, NEW quantity, nextVolumeTier(tiers, quantity) # << >>
    PROVE  \E i \in DOMAIN tiers : /\ nextVolumeTier(tiers, quantity) = <<tiers[i]>>
                                   /\ tiers[i].min > quantity
<1>. DEFINE reached == {i \in DOMAIN tiers : tiers[i].min > quantity}
            chosen == {i \in reached : \A j \in reached :
                         \/ StartsLater(tiers[j], tiers[i])
                         \/ ~StartsLater(tiers[i], tiers[j]) /\ i <= j}
<1>1. nextVolumeTier(tiers, quantity) = Picked(tiers, chosen)
      BY DEF nextVolumeTier, FirstBest
<1>. HIDE DEF chosen
<1>2. chosen # {}  BY <1>1 DEF Picked, Nothing
<1>3. PICK i \in chosen : Picked(tiers, chosen) = <<tiers[i]>>
      <2>1. (CHOOSE i \in chosen : TRUE) \in chosen  BY <1>2
      <2>. QED  BY <1>2, <2>1 DEF Picked
<1>4. i \in reached  BY DEF chosen
<1>. QED  BY <1>1, <1>3, <1>4

(***************************************************************************)
(* The price quoted for the next tier is the one charged once the buyer has*)
(* that many, whatever the rules and the cart (computeNextTier).           *)
(***************************************************************************)
THEOREM NextTierAlwaysCharged ==
    ASSUME NEW rules, RulesAreRead(rules), NEW ctx,
           ctx.product.price \in Nat, ctx.quantity \in Int, MayBe(Int, ctx.cart)
    PROVE  NextTierIsCharged(rules, ctx, computeNextTier(rules, ctx))
<1>. DEFINE R == Range(rules)
            tiered == {r \in R : r.kind = "volume_tier"}
            some == Only(rules, tiered)
            volume == InOrder(EligibleRules(some, ctx))
            next == IF volume = << >> THEN Nothing
                    ELSE nextVolumeTier(Head(volume).value, ctx.quantity)
            told == computeNextTier(rules, ctx)
<1>1. told = IF ~IsThere(next) THEN Nothing
             ELSE <<[quantity |-> next[1].min,
                     unitPrice |-> resolveInternal(rules,
                                     AtQuantity(ctx, next[1].min)).unitPrice]>>
      BY DEF computeNextTier
<1>. SUFFICES ASSUME IsThere(told)
              PROVE  NextTierIsCharged(rules, ctx, told)
     BY DEF NextTierIsCharged
<1>2. volume \in Seq(R) /\ Range(volume) \subseteq tiered
      <2>1. rules \in Seq(R) /\ Distinct(rules) /\ Comparable(R)
            BY NamedOnce DEF RulesAreRead
      <2>. HIDE DEF R, tiered
      <2>2. some \in Seq(R) /\ Range(some) = Range(rules) \cap tiered /\ Distinct(some)
            BY <2>1, OnlyIs
      <2>. HIDE DEF some
      <2>. DEFINE wanted == {r \in Range(some) : Eligible(r, ctx)}
                  eligible == Only(some, wanted)
      <2>3. eligible \in Seq(R) /\ Range(eligible) = Range(some) \cap wanted
            /\ Distinct(eligible)
            <3>. HIDE DEF wanted
            <3>. QED  BY <2>2, OnlyIs
      <2>4. volume = InOrder(eligible)  BY DEF EligibleRules
      <2>. HIDE DEF eligible, wanted, volume
      <2>5. volume \in Seq(R) /\ Range(volume) = Range(eligible)
            BY <2>1, <2>3, <2>4, InOrderIs
      <2>. QED  BY <2>2, <2>3, <2>5
<1>3. next # << >> /\ volume # << >>
      BY <1>1 DEF IsThere, Nothing
<1>. HIDE DEF volume
<1>4. PICK r \in R : r = Head(volume) /\ r.kind = "volume_tier"
      <2>1. 1 \in DOMAIN volume /\ Head(volume) = volume[1]  BY <1>2, <1>3
      <2>2. volume[1] \in tiered  BY <1>2, <2>1 DEF Range
      <2>. QED  BY <2>1, <2>2
<1>5. next = nextVolumeTier(r.value, ctx.quantity)  BY <1>3, <1>4
<1>. HIDE DEF next, told, R
<1>6. PICK i \in DOMAIN r.value :
        next = <<r.value[i]>> /\ r.value[i].min > ctx.quantity
      BY <1>3, <1>5, NextTierIsAhead
<1>7. PICK q \in Int : q = r.value[i].min
      BY <1>4, <1>6 DEF RulesAreRead, ValueRead, TierRead, R
<1>8. told = <<[quantity |-> q,
                unitPrice |-> resolveInternal(rules, AtQuantity(ctx, q)).unitPrice]>>
      BY <1>1, <1>3, <1>6, <1>7 DEF IsThere, Nothing
<1>. DEFINE rest == ctx.cart[1] - ctx.quantity * ctx.product.price
            bought == [ctx EXCEPT
                         !.quantity = q,
                         !.cart = IF IsThere(@) THEN <<rest + q * ctx.product.price>>
                                  ELSE @]
<1>9. bought = AtQuantity(ctx, q)
      <2>1. CASE ctx.cart = << >>
            BY <2>1 DEF AtQuantity, IsThere, Nothing
      <2>2. CASE ctx.cart # << >>
            <3>1. PICK c \in Int : ctx.cart = <<c>>  BY <2>2, OnceOrNot
            <3>2. PICK p \in Nat, m \in Int : p = ctx.product.price /\ m = ctx.quantity
                  OBVIOUS
            <3>3. (c - m * p) + q * p = c + (q - m) * p  OBVIOUS
            <3>4. ctx.cart[1] = c  BY <3>1
            <3>5. <<rest + q * ctx.product.price>>
                    = <<ctx.cart[1] + (q - ctx.quantity) * ctx.product.price>>
                  BY <3>2, <3>3, <3>4
            <3>. HIDE DEF rest
            <3>. QED  BY <2>2, <3>5 DEF AtQuantity, IsThere, Nothing
      <2>. QED  BY <2>1, <2>2
<1>. HIDE DEF bought
<1>10. /\ told[1].quantity = q
       /\ told[1].unitPrice = resolveInternal(rules, bought).unitPrice
       BY <1>8, <1>9
<1>. QED  BY <1>6, <1>7, <1>10 DEF NextTierIsCharged, bought

(***************************************************************************)
(* One rule alone, as the guard prices it                                  *)
(***************************************************************************)
LEMMA InsertFirst ==
    ASSUME NEW R, NEW r \in R
    PROVE  InsertAt(<< >>, 1, r) = <<r>>
<1>1. SubSeq(<< >>, 1, 0) = << >>  OBVIOUS
<1>2. Len(<< >>) = 0 /\ 1 - 1 = 0  OBVIOUS
<1>3. InsertAt(<< >>, 1, r) = (<< >> \o <<r>>) \o << >>
      BY <1>1, <1>2 DEF InsertAt
<1>4. (<< >> \o <<r>>) \o << >> = <<r>>  OBVIOUS
<1>. QED  BY <1>3, <1>4

\* One rule alone applies if the buyer is eligible and it has an effect, and the
\* price is its effect on the price listed.
LEMMA OneRule ==
    ASSUME NEW r, KeysRead(r), ValueRead(r), NEW ctx, ctx.product.price \in Nat
    PROVE  LET answer == resolveInternal(<<r>>, ctx)
               effect == effectFor(r, ctx)
           IN  /\ answer.applied # << >> <=> Eligible(r, ctx) /\ effect # << >>
               /\ Eligible(r, ctx) /\ effect # << >> =>
                    answer.unitPrice
                      = roundFraction(applyEffect(wholeUnits(ctx.product.price), effect[1]))
<1>. DEFINE R == {r}
            wanted == {x \in Range(<<r>>) : Eligible(x, ctx)}
            some == Only(<<r>>, wanted)
            effect == effectFor(r, ctx)
            start == Unwalked(ctx)
            answer == resolveInternal(<<r>>, ctx)
<1>1. /\ <<r>> \in Seq(R) /\ << >> \in Seq(R) /\ Len(<<r>>) = 1 /\ Len(<< >>) = 0
      /\ <<r>>[1] = r /\ Range(<<r>>) = {r} /\ 1 \in 1 .. 1
      BY DEF Range
<1>2. wanted = IF Eligible(r, ctx) THEN {r} ELSE {}  BY <1>1
<1>3. some = IF Eligible(r, ctx) THEN <<r>> ELSE << >>
      <2>. HIDE DEF wanted
      <2>1. PICK w : KeepsOnly(w, R, <<r>>, wanted)  BY <1>1, OnlySteps
      <2>2. /\ w[0] = << >> /\ some = w[1]
            /\ w[1] = IF r \in wanted THEN Append(w[0], r) ELSE w[0]
            BY <2>1, <1>1 DEF KeepsOnly
      <2>3. Append(<< >>, r) = <<r>>  OBVIOUS
      <2>. HIDE DEF some
      <2>. QED  BY <2>2, <2>3, <1>2
<1>4. /\ InOrder(<<r>>) = <<r>>
      /\ InOrder(<< >>) = << >>
      <2>1. PICK v : InsertsAll(v, R, << >>)  BY <1>1, InOrderSteps
      <2>2. InOrder(<< >>) = << >>  BY <2>1, <1>1 DEF InsertsAll
      <2>3. PICK w : InsertsAll(w, R, <<r>>)  BY <1>1, InOrderSteps
      <2>4. InOrder(<<r>>) = Inserted(<< >>, r)  BY <2>3, <1>1 DEF InsertsAll
      <2>5. PICK at \in 1 .. 1 : Inserted(<< >>, r) = InsertAt(<< >>, at, r)
            <3>1. \E at \in 1 .. Len(<< >>) + 1 : Inserted(<< >>, r) = InsertAt(<< >>, at, r)
                  BY <1>1, InsertedIsASequence
            <3>. QED  BY <3>1, <1>1
      <2>6. InsertAt(<< >>, 1, r) = <<r>>  BY <1>1, InsertFirst
      <2>7. at = 1  OBVIOUS
      <2>. QED  BY <2>2, <2>4, <2>5, <2>6, <2>7
<1>5. Cascade(<<r>>, ctx) = Walked(start, r, effect) /\ Cascade(<< >>, ctx) = start
      <2>0. \A x \in R : KeysRead(x) /\ ValueRead(x)  OBVIOUS
      <2>1. PICK v : WalksDown(v, << >>, ctx)
            <3>. HIDE DEF R
            <3>. QED  BY <2>0, <1>1, CascadeSteps
      <2>2. PICK w : WalksDown(w, <<r>>, ctx)
            <3>. HIDE DEF R
            <3>. QED  BY <2>0, <1>1, CascadeSteps
      <2>3. Cascade(<< >>, ctx) = start  BY <2>1, <1>1 DEF WalksDown
      <2>4. Cascade(<<r>>, ctx) = Walked(start, r, effect)
            BY <2>2, <1>1 DEF WalksDown
      <2>. QED  BY <2>3, <2>4
<1>6. answer = Resolved(IF Eligible(r, ctx) THEN Walked(start, r, effect) ELSE start)
      <2>1. answer = Resolved(Cascade(InOrder(some), ctx))
            BY DEF resolveInternal, EligibleRules
      <2>. HIDE DEF some, start, effect, answer
      <2>. QED  BY <2>1, <1>3, <1>4, <1>5
<1>7. start.applied = << >> /\ start.price = wholeUnits(ctx.product.price)
      BY DEF Unwalked
<1>. HIDE DEF start, effect, answer
<1>8. /\ effect = << >> => Walked(start, r, effect) = Skipped(start, r, "no_effect")
      /\ effect # << >> => Walked(start, r, effect)
                             = Effected(start, r, applyEffect(start.price, effect[1]))
      BY <1>7 DEF Walked, IsThere, Nothing
<1>9. Skipped(start, r, "no_effect").applied = << >>
      <2>1. start \in Walks  BY WholeIsRounded DEF start, Unwalked, Walks
      <2>. QED  BY <1>7, <2>1 DEF Skipped, Walks
<1>10. ASSUME NEW after
       PROVE  /\ Resolved(Effected(start, r, after)).applied # << >>
              /\ Resolved(Effected(start, r, after)).unitPrice = roundFraction(after)
       <2>1. Append(<< >>, r.id) # << >>
             <3>1. Append(<< >>, r.id) = <<r.id>>  OBVIOUS
             <3>. QED  BY <3>1
       <2>. QED  BY <2>1, <1>7 DEF Effected, Resolved
<1>11. \A walk : Resolved(walk).applied = walk.applied  BY DEF Resolved
<1>. QED
     <2>1. CASE ~Eligible(r, ctx)
           <3>1. answer.applied = << >>  BY <2>1, <1>6, <1>7, <1>11
           <3>. QED  BY <2>1, <3>1 DEF answer
     <2>2. CASE Eligible(r, ctx) /\ effect = << >>
           <3>1. answer.applied = << >>  BY <2>2, <1>6, <1>8, <1>9, <1>11
           <3>. QED  BY <2>2, <3>1 DEF answer, effect
     <2>3. CASE Eligible(r, ctx) /\ effect # << >>
           <3>1. answer = Resolved(Effected(start, r, applyEffect(start.price, effect[1])))
                 BY <2>3, <1>6, <1>8
           <3>2. /\ answer.applied # << >>
                 /\ answer.unitPrice = roundFraction(applyEffect(start.price, effect[1]))
                 BY <3>1, <1>10
           <3>. QED  BY <2>3, <3>2, <1>7 DEF answer, effect
     <2>. QED  BY <2>1, <2>2, <2>3

\* The buyer the guard builds may buy wherever the rule lets someone.
LEMMA RepresentativeMayBuy ==
    ASSUME NEW rule, hasAudience(rule), GUARD_ID \notin rule.markets.ids,
           NEW b, Eligible(rule, b), NEW g,
           g.product = b.product, g.customer = representativeCustomer(rule),
           g.market = representativeMarket(rule),
           rule.markets.mode \in {"all", "include", "exclude"},
           rule.status = "active", rule.starts = << >>, rule.ends = << >>
    PROVE  Eligible(rule, g)
<1>1. /\ marketAllowed(rule.markets, b.market)
      /\ audienceMatches(rule.audience, b.customer)
      /\ ~targetExcluded(rule.targets, b.product)
      /\ targetIncludes(rule.targets, b.product)
      BY DEF Eligible, eligibilityReason, scheduleReason, IsThere, Nothing
<1>2. marketAllowed(rule.markets, g.market)
      <2>1. CASE rule.markets.mode = "all"  BY <2>1 DEF marketAllowed
      <2>2. CASE rule.markets.mode = "include"
            <3>1. b.market \in rule.markets.ids  BY <1>1, <2>2 DEF marketAllowed
            <3>2. (CHOOSE id \in rule.markets.ids : TRUE) \in rule.markets.ids  BY <3>1
            <3>3. g.market = CHOOSE id \in rule.markets.ids : TRUE
                  BY <2>2, <3>1 DEF representativeMarket
            <3>. QED  BY <2>2, <3>2, <3>3 DEF marketAllowed
      <2>3. CASE rule.markets.mode = "exclude"
            <3>1. g.market = GUARD_ID  BY <2>3 DEF representativeMarket
            <3>. QED  BY <2>3, <3>1 DEF marketAllowed
      <2>. QED  BY <2>1, <2>2, <2>3
<1>3. audienceMatches(rule.audience, g.customer)
      <2>. DEFINE mode == rule.audience.mode
                  ids == rule.audience.ids
      <2>1. CASE mode = "all"  BY <2>1 DEF audienceMatches
      <2>2. CASE mode = "guests"
            BY <2>2 DEF audienceMatches, representativeCustomer, IsThere
      <2>3. CASE mode \in {"tags", "groups", "customers", "companies"}
            <3>1. ids # {}  BY <2>3 DEF hasAudience
            <3>2. PICK one \in ids : one = CHOOSE id \in ids : TRUE  BY <3>1
            <3>. DEFINE own(m) == IF m # mode THEN {} ELSE ids
                        first == IF ids = {} THEN {} ELSE {CHOOSE id \in ids : TRUE}
                        single(m, otherwise) ==
                          IF m # mode \/ first = {} THEN otherwise ELSE first
                        who == [tags |-> own("tags"), groups |-> own("groups"),
                                customers |-> single("customers", {GUARD_ID}),
                                companies |-> single("companies", {})]
            <3>5. g.customer = <<who>>  BY <2>3 DEF representativeCustomer
            <3>6. first = {one}  BY <3>1, <3>2
            <3>. HIDE DEF first
            <3>3. who[mode] \in {ids, {one}}
                  <4>1. CASE mode = "tags"  BY <4>1
                  <4>2. CASE mode = "groups"  BY <4>2
                  <4>3. CASE mode = "customers"  BY <4>3, <3>6
                  <4>4. CASE mode = "companies"  BY <4>4, <3>6
                  <4>. QED  BY <2>3, <4>1, <4>2, <4>3, <4>4
            <3>. HIDE DEF who
            <3>4. Shares(ids, who[mode])  BY <3>1, <3>3 DEF Shares
            <3>. QED  BY <2>3, <3>5, <3>4 DEF audienceMatches, IsThere, Nothing
      <2>4. mode \in {"all", "guests", "tags", "groups", "customers", "companies"}
            BY <1>1 DEF audienceMatches
      <2>. QED  BY <2>1, <2>2, <2>3, <2>4
<1>. QED  BY <1>1, <1>2, <1>3 DEF Eligible, eligibilityReason, scheduleReason,
          IsThere, Nothing

\* Where only one tier covers an amount, that is the one that is taken.
LEMMA VolumeTierTaken ==
    ASSUME NEW tiers, NEW quantity, NEW i \in DOMAIN tiers, Covers(tiers[i], quantity),
           DOMAIN tiers \subseteq Nat, \A j \in DOMAIN tiers : tiers[j].min \in Int,
           \A j \in DOMAIN tiers : Covers(tiers[j], quantity) => j = i
    PROVE  selectVolumeTier(tiers, quantity) = <<tiers[i]>>
<1>. DEFINE reached == {j \in DOMAIN tiers : Covers(tiers[j], quantity)}
            chosen == {j \in reached : \A k \in reached :
                         \/ Starts(tiers[k], tiers[j])
                         \/ ~Starts(tiers[j], tiers[k]) /\ j <= k}
<1>1. selectVolumeTier(tiers, quantity) = Picked(tiers, chosen)
      BY DEF selectVolumeTier, FirstBest
<1>2. reached = {i}  OBVIOUS
<1>3. ~Starts(tiers[i], tiers[i]) /\ i <= i  BY DEF Starts
<1>. HIDE DEF reached
<1>4. chosen = {i}  BY <1>2, <1>3
<1>. HIDE DEF chosen
<1>. QED  BY <1>1, <1>4 DEF Picked

\* A tier that alone covers a subtotal is the one taken.
LEMMA CartTierTaken ==
    ASSUME NEW tiers, NEW subtotal, NEW currency, NEW i \in DOMAIN tiers,
           tiers[i].currency = currency, Covers(tiers[i], subtotal),
           DOMAIN tiers \subseteq Nat, \A j \in DOMAIN tiers : tiers[j].min \in Int,
           \A j \in DOMAIN tiers : Covers(tiers[j], subtotal) => j = i
    PROVE  selectCartValueTier(tiers, subtotal, currency) = <<tiers[i]>>
<1>. DEFINE reached == {j \in DOMAIN tiers :
                          tiers[j].currency = currency /\ Covers(tiers[j], subtotal)}
            chosen == {j \in reached : \A k \in reached :
                         \/ Starts(tiers[k], tiers[j])
                         \/ ~Starts(tiers[j], tiers[k]) /\ j <= k}
<1>1. selectCartValueTier(tiers, subtotal, currency) = Picked(tiers, chosen)
      BY DEF selectCartValueTier, FirstBest
<1>2. reached = {i}  OBVIOUS
<1>3. ~Starts(tiers[i], tiers[i]) /\ i <= i  BY DEF Starts
<1>. HIDE DEF reached
<1>4. chosen = {i}  BY <1>2, <1>3
<1>. HIDE DEF chosen
<1>. QED  BY <1>1, <1>4 DEF Picked

\* A tier that is taken covers what it is taken for.
LEMMA TierTakenCovers ==
    ASSUME NEW tiers, NEW amount, NEW currency
    PROVE  /\ selectVolumeTier(tiers, amount) # << >> =>
                \E i \in DOMAIN tiers : /\ selectVolumeTier(tiers, amount) = <<tiers[i]>>
                                        /\ Covers(tiers[i], amount)
           /\ selectCartValueTier(tiers, amount, currency) # << >> =>
                \E i \in DOMAIN tiers :
                   /\ selectCartValueTier(tiers, amount, currency) = <<tiers[i]>>
                   /\ Covers(tiers[i], amount) /\ tiers[i].currency = currency
<1>1. ASSUME NEW reached \in SUBSET DOMAIN tiers, Picked(tiers, reached) # << >>
      PROVE  \E i \in reached : Picked(tiers, reached) = <<tiers[i]>>
      <2>1. reached # {}  BY <1>1 DEF Picked, Nothing
      <2>2. (CHOOSE i \in reached : TRUE) \in reached  BY <2>1
      <2>. QED  BY <2>1, <2>2 DEF Picked
<1>2. PICK few \in SUBSET {j \in DOMAIN tiers : Covers(tiers[j], amount)} :
        selectVolumeTier(tiers, amount) = Picked(tiers, few)
      BY DEF selectVolumeTier, FirstBest
<1>3. PICK some \in SUBSET {j \in DOMAIN tiers : tiers[j].currency = currency
                                                  /\ Covers(tiers[j], amount)} :
        selectCartValueTier(tiers, amount, currency) = Picked(tiers, some)
      BY DEF selectCartValueTier, FirstBest
<1>. QED  BY <1>1, <1>2, <1>3

\* Tiers none of which overlap never cover the same number.
LEMMA CheckedTiersApart ==
    ASSUME NEW tiers, NoneOverlap(tiers), DOMAIN tiers \subseteq Nat,
           \A i \in DOMAIN tiers : tiers[i].min \in Int /\ tiers[i].max \in Bound,
           NEW amount \in Int, NEW i \in DOMAIN tiers, NEW j \in DOMAIN tiers,
           Covers(tiers[i], amount), Covers(tiers[j], amount)
    PROVE  i = j
<1>1. ASSUME NEW m \in DOMAIN tiers, NEW n \in DOMAIN tiers,
             Covers(tiers[m], amount), Covers(tiers[n], amount)
      PROVE  ~StartsBefore(tiers, m, n)
      <2>. SUFFICES ASSUME StartsBefore(tiers, m, n) PROVE FALSE  OBVIOUS
      <2>1. IsThere(tiers[m].max) /\ tiers[n].min > tiers[m].max[1]
            BY DEF NoneOverlap
      <2>2. PICK last \in Int : tiers[m].max = <<last>>
            BY <2>1 DEF Bound, IsThere, Nothing
      <2>3. amount <= last  BY <1>1, <2>1, <2>2 DEF Covers
      <2>4. amount >= tiers[n].min  BY <1>1 DEF Covers
      <2>. QED  BY <2>1, <2>2, <2>3, <2>4
<1>2. ~StartsBefore(tiers, i, j) /\ ~StartsBefore(tiers, j, i)  BY <1>1
<1>3. i \in Nat /\ j \in Nat /\ tiers[i].min \in Int /\ tiers[j].min \in Int
      OBVIOUS
<1>. QED  BY <1>2, <1>3 DEF StartsBefore

\* A checkpoint of the guard at which the rule does just that.
LEMMA CheckpointDoesTheSame ==
    ASSUME NEW c, GuardAsked(c), NEW rule, rule = asIfLive(c.rule), NEW now,
           validateRule(c.rule),
           c.rule.kind = "cart_value_tier" => NoneOverlap(c.rule.value),
           NEW b, Buys(b, c), effectFor(rule, b) # << >>
    PROVE  \E q \in checkpointQuantities(rule), s \in checkpointSubtotals(rule, c.currency) :
             effectFor(rule, GuardContext(rule, c.product, c.currency, now, q, s))
               = effectFor(rule, b)
<1>. DEFINE g(q, s) == GuardContext(rule, c.product, c.currency, now, q, s)
            kind == c.rule.kind
            tiers == c.rule.value
<1>1. rule.kind = kind /\ rule.value = tiers  BY DEF asIfLive
<1>2. 1 \in checkpointQuantities(rule)  BY DEF checkpointQuantities
<1>3. \A q, s : g(q, s).currency = b.currency /\ g(q, s).quantity = q
      BY DEF GuardContext, Buys
<1>. HIDE DEF g
<1>4. \E s : s \in checkpointSubtotals(rule, c.currency)
      BY DEF checkpointSubtotals
<1>5. CASE kind \in {"percentage", "fixed_price", "amount_off"}
      <2>1. \A q, s : effectFor(rule, g(q, s)) = effectFor(rule, b)
            BY <1>1, <1>3, <1>5 DEF effectFor
      <2>. QED  BY <1>2, <1>4, <2>1 DEF g
<1>6. CASE kind = "volume_tier"
      <2>1. PICK i \in DOMAIN tiers : /\ selectVolumeTier(tiers, b.quantity) = <<tiers[i]>>
                                      /\ Covers(tiers[i], b.quantity)
            <3>1. selectVolumeTier(tiers, b.quantity) # << >>
                  BY <1>1, <1>6 DEF effectFor, EffectOfTier, IsThere, Nothing
            <3>. QED  BY <3>1, TierTakenCovers
      <2>2. /\ DOMAIN tiers \subseteq Nat
            /\ \A j \in DOMAIN tiers : tiers[j].min \in Int /\ tiers[j].max \in Bound
            BY <1>6, BoundIs DEF GuardAsked, ValueRead, TierRead
      <2>3. /\ NoneOverlap(tiers) /\ RangeIsSound(tiers[i]) /\ tiers[i].min >= 1
            BY <1>6 DEF validateRule, checkVolumeTiers
      <2>4. Covers(tiers[i], tiers[i].min)
            BY <2>2, <2>3 DEF Covers, RangeIsSound, Bound, IsThere, Nothing
      <2>5. \A j \in DOMAIN tiers : Covers(tiers[j], tiers[i].min) => j = i
            BY <2>2, <2>3, <2>4, CheckedTiersApart
      <2>6. selectVolumeTier(tiers, tiers[i].min) = <<tiers[i]>>
            BY <2>2, <2>4, <2>5, VolumeTierTaken
      <2>7. tiers[i].min \in checkpointQuantities(rule)
            BY <1>1, <1>6, <2>2, <2>3 DEF checkpointQuantities, Thresholds
      <2>8. \A s : effectFor(rule, g(tiers[i].min, s)) = effectFor(rule, b)
            BY <1>1, <1>3, <1>6, <2>1, <2>6 DEF effectFor
      <2>. QED  BY <1>4, <2>7, <2>8 DEF g
<1>7. CASE kind = "cart_value_tier"
      <2>1. b.cart # << >>
            BY <1>1, <1>7 DEF effectFor, IsThere, Nothing
      <2>2. PICK subtotal \in Int : /\ b.cart = <<subtotal>>
                                    /\ subtotal >= b.product.price * b.quantity
            BY <2>1, OnceOrNot DEF Buys, IsThere, Nothing
      <2>3. PICK i \in DOMAIN tiers :
              /\ selectCartValueTier(tiers, subtotal, b.currency) = <<tiers[i]>>
              /\ Covers(tiers[i], subtotal) /\ tiers[i].currency = b.currency
            <3>1. selectCartValueTier(tiers, subtotal, b.currency) # << >>
                  BY <1>1, <1>7, <2>2 DEF effectFor, EffectOfTier, IsThere, Nothing
            <3>. QED  BY <3>1, TierTakenCovers
      <2>4. /\ DOMAIN tiers \subseteq Nat
            /\ \A j \in DOMAIN tiers : tiers[j].min \in Int /\ tiers[j].max \in Bound
            BY <1>7, BoundIs DEF GuardAsked, ValueRead, TierRead
      <2>5. NoneOverlap(tiers) /\ RangeIsSound(tiers[i])
            BY <1>7 DEF validateRule, checkCartValueTiers
      <2>6. PICK p \in Nat : p = c.product.price /\ p = b.product.price
            BY DEF GuardAsked, Buys
      <2>7. p <= subtotal
            <3>1. PICK q \in Nat \ {0} : q = b.quantity  BY DEF Buys
            <3>2. p <= p * q  BY SMT
            <3>. QED  BY <2>2, <2>6, <3>1, <3>2
      <2>. DEFINE reached == IF tiers[i].min > p THEN tiers[i].min ELSE p
      <2>8. reached \in Int /\ Covers(tiers[i], reached)
            BY <2>3, <2>4, <2>5, <2>7 DEF Covers, RangeIsSound, Bound, IsThere, Nothing
      <2>9. g(1, <<tiers[i].min>>).cart = <<reached>>
            <3>1. p * 1 = p  OBVIOUS
            <3>. QED  BY <2>6, <3>1 DEF g, GuardContext, IsThere, Nothing
      <2>. HIDE DEF reached
      <2>10. \A j \in DOMAIN tiers : Covers(tiers[j], reached) => j = i
             BY <2>4, <2>5, <2>8, CheckedTiersApart
      <2>11. selectCartValueTier(tiers, reached, b.currency) = <<tiers[i]>>
             BY <2>3, <2>4, <2>8, <2>10, CartTierTaken
      <2>12. <<tiers[i].min>> \in checkpointSubtotals(rule, c.currency)
             BY <1>1, <1>7, <2>3 DEF checkpointSubtotals, Buys
      <2>13. effectFor(rule, g(1, <<tiers[i].min>>)) = effectFor(rule, b)
             BY <1>1, <1>3, <1>7, <2>1, <2>2, <2>3, <2>9, <2>11 DEF effectFor, IsThere, Nothing
      <2>. QED  BY <1>2, <2>12, <2>13 DEF g
<1>. QED  BY <1>5, <1>6, <1>7 DEF GuardAsked, KeysRead, CLASS_RANK

(***************************************************************************)
(* Whatever the rule that passed validation and whoever buys at whatever   *)
(* quantity: what they pay below cost, the guard has found at one of its   *)
(* checkpoints (margin.ts).                                                *)
(***************************************************************************)
THEOREM GuardSeesIt ==
    ASSUME NEW c, GuardAsked(c), NEW now, validateRule(c.rule),
           c.rule.kind = "cart_value_tier" => NoneOverlap(c.rule.value),
           NEW b, Buys(b, c)
    PROVE  LET live == asIfLive(c.rule)
               told == guardMargins(c.rule, c.product, c.cost, c.currency, now)
               answer == resolveInternal(<<live>>, b)
           IN  answer.applied # << >> =>
                 /\ told.priced
                 /\ marginFor(answer, c.cost) < 0 =>
                      \E m \in told.belowCost : m <= marginFor(answer, c.cost)
<1>. DEFINE live == asIfLive(c.rule)
            told == guardMargins(c.rule, c.product, c.cost, c.currency, now)
            answer(x) == resolveInternal(<<live>>, x)
            contexts == {GuardContext(live, c.product, c.currency, now, q, s) :
                           q \in checkpointQuantities(live),
                           s \in checkpointSubtotals(live, c.currency)}
<1>. SUFFICES ASSUME answer(b).applied # << >>
              PROVE  /\ told.priced
                     /\ marginFor(answer(b), c.cost) < 0 =>
                          \E m \in told.belowCost : m <= marginFor(answer(b), c.cost)
     OBVIOUS
<1>1. /\ live.status = "active" /\ live.starts = << >> /\ live.ends = << >>
      /\ live.markets = c.rule.markets /\ live.audience = c.rule.audience
      /\ live.targets = c.rule.targets /\ live.kind = c.rule.kind
      /\ live.value = c.rule.value /\ live.id = c.rule.id
      /\ live.priority = c.rule.priority /\ live.createdAt = c.rule.createdAt
      /\ live.combinable = c.rule.combinable
      BY DEF asIfLive, Nothing
<1>2. KeysRead(live) /\ ValueRead(live)
      <2>. HIDE DEF live
      <2>. QED  BY <1>1 DEF GuardAsked, KeysRead, ValueRead
<1>3. b.product = c.product /\ c.product.price \in Nat /\ c.cost \in Int
      BY DEF Buys, GuardAsked
<1>4. Eligible(live, b) /\ effectFor(live, b) # << >>
      /\ answer(b).unitPrice = roundFraction(applyEffect(wholeUnits(b.product.price),
                                                         effectFor(live, b)[1]))
      <2>. HIDE DEF live
      <2>. QED  BY <1>2, <1>3, OneRule
<1>5. PICK q \in checkpointQuantities(live), s \in checkpointSubtotals(live, c.currency) :
        effectFor(live, GuardContext(live, c.product, c.currency, now, q, s))
          = effectFor(live, b)
      <2>1. live = asIfLive(c.rule) /\ effectFor(live, b) # << >>  BY <1>4
      <2>. HIDE DEF live, contexts, answer, told
      <2>2. \A rule : rule = asIfLive(c.rule) /\ effectFor(rule, b) # << >> =>
              \E q \in checkpointQuantities(rule),
                 s \in checkpointSubtotals(rule, c.currency) :
                effectFor(rule, GuardContext(rule, c.product, c.currency, now, q, s))
                  = effectFor(rule, b)
            BY CheckpointDoesTheSame
      <2>. QED  BY <2>1, <2>2
<1>. DEFINE g == GuardContext(live, c.product, c.currency, now, q, s)
<1>6. /\ g \in contexts /\ g.product = b.product
      /\ g.customer = representativeCustomer(live)
      /\ g.market = representativeMarket(live)
      BY <1>3 DEF GuardContext
<1>. HIDE DEF live, g
<1>7. Eligible(live, g)
      <2>1. hasAudience(live)  BY <1>1 DEF validateRule, hasAudience
      <2>2. GUARD_ID \notin live.markets.ids
            /\ live.markets.mode \in {"all", "include", "exclude"}
            BY <1>1 DEF GuardAsked
      <2>. QED  BY <1>1, <1>4, <1>6, <2>1, <2>2, RepresentativeMayBuy
<1>8. answer(g).applied # << >> /\ answer(g).unitPrice = answer(b).unitPrice
      <2>1. effectFor(live, g) = effectFor(live, b)  BY <1>5 DEF g
      <2>. QED  BY <1>2, <1>3, <1>4, <1>6, <1>7, <2>1, OneRule
<1>. DEFINE applied == {a \in {answer(x) : x \in contexts} : a.applied # << >>}
            margins == {marginFor(a, c.cost) : a \in applied}
<1>9. /\ told.priced = (applied # {})
      /\ told.belowCost = {m \in margins : m < 0}
      BY DEF guardMargins, live
<1>. HIDE DEF contexts, answer, told
<1>10. answer(g) \in applied  BY <1>6, <1>8
<1>11. marginFor(answer(g), c.cost) = marginFor(answer(b), c.cost)
       BY <1>8 DEF marginFor
<1>12. marginFor(answer(b), c.cost) \in margins  BY <1>10, <1>11
<1>13. marginFor(answer(b), c.cost) \in Int
       <2>1. answer(b).unitPrice \in Int
             <3>1. wholeUnits(b.product.price) \in Fraction  BY <1>3, WholeIsRounded
             <3>2. PICK e \in EffectsOfRules : effectFor(live, b) = <<e>>
                   BY <1>2, <1>4, EffectIs DEF Effects
             <3>3. applyEffect(wholeUnits(b.product.price), e) \in Fraction
                   BY <3>1, <3>2, EffectApplied
             <3>4. roundFraction(applyEffect(wholeUnits(b.product.price), e)) \in Int
                   BY <3>3, RoundsHalfUp DEF Fraction
             <3>. QED  BY <1>4, <3>2, <3>4
       <2>. QED  BY <2>1, <1>3 DEF marginFor
<1>. HIDE DEF applied, margins
<1>14. told.priced
       <2>1. applied # {}  BY <1>10
       <2>. QED  BY <1>9, <2>1, Zenon
<1>15. ASSUME marginFor(answer(b), c.cost) < 0
       PROVE  \E m \in told.belowCost : m <= marginFor(answer(b), c.cost)
       <2>. DEFINE paid == marginFor(answer(b), c.cost)
       <2>1. paid \in margins /\ paid \in Int /\ paid < 0  BY <1>12, <1>13, <1>15
       <2>. HIDE DEF paid
       <2>2. paid \in told.belowCost /\ paid <= paid  BY <1>9, <2>1
       <2>3. \E m \in told.belowCost : m <= paid  BY <2>2
       <2>. QED  BY <2>3 DEF paid
<1>. QED  BY <1>14, <1>15

(***************************************************************************)
(* Of any questions of prices: the price does not depend on the order rules*)
(* are read in, is never raised by a rule that stacks, is rounded once, and*)
(* is quoted ahead as it will be charged (resolve.ts, resolvePrice).       *)
(***************************************************************************)
THEOREM PricesAlwaysSound ==
    EnginesSpec => []PriceSound
<1>1. QuestionAsked => PriceSound
      <2>. SUFFICES ASSUME QuestionAsked, question.engine = "price" PROVE PriceSound
           BY DEF PriceSound
      <2>1. PICK c \in PriceCases : c = question.case  BY DEF QuestionAsked
      <2>2. /\ RulesAreRead(c.rules) /\ c.ctx.product.price \in Nat
            /\ c.ctx.quantity \in Int /\ MayBe(Int, c.ctx.cart)
            BY QuestionsAssumption DEF PriceAsked
      <2>. DEFINE answer == resolveInternal(c.rules, c.ctx)
      <2>3. /\ resolvePrice(c.rules, c.ctx).answer = answer
            /\ resolvePrice(c.rules, c.ctx).nextTier = computeNextTier(c.rules, c.ctx)
            BY DEF resolvePrice
      <2>4. OrderBlind(c.rules, c.ctx)  BY <2>2, NoOrderIsSeen
      <2>5. PromisesKept(answer)  BY <2>2, PromisesAreKept
      <2>6. RoundedOnce(c.rules, c.ctx, answer)  BY <2>2, RoundsOnce
      <2>7. NextTierIsCharged(c.rules, c.ctx, computeNextTier(c.rules, c.ctx))
            BY <2>2, NextTierAlwaysCharged
      <2>. HIDE DEF answer
      <2>. QED  BY <2>1, <2>3, <2>4, <2>5, <2>6, <2>7 DEF PriceSound
<1>. QED  BY <1>1, QuestionsAreAsked, PTL

(***************************************************************************)
(* Of any rule that passes validation, but for cart value tiers of which   *)
(* two overlap (validateRule lets them through and the guard can miss what *)
(* they charge, margin.ts:174), and of any buyer of the product: whatever  *)
(* price below cost the rule would charge, the guard said so before it was *)
(* saved, and named a shortfall no smaller.                                *)
(***************************************************************************)
THEOREM GuardAlwaysTells ==
    EnginesSpec => []GuardTells
<1>1. QuestionAsked => GuardTells
      <2>. SUFFICES ASSUME QuestionAsked, question.engine = "guard" PROVE GuardTells
           BY DEF GuardTells
      <2>1. PICK c \in GuardCases : c = question.case  BY DEF QuestionAsked
      <2>2. ASSUME validateRule(c.rule),
                   c.rule.kind = "cart_value_tier" => NoneOverlap(c.rule.value),
                   NEW b \in LiveBuyers
            PROVE  LET live == asIfLive(c.rule)
                       told == guardMargins(c.rule, c.product, c.cost, c.currency, 0)
                       answer == resolveInternal(<<live>>, b)
                   IN  answer.applied # << >> =>
                         /\ told.priced
                         /\ marginFor(answer, c.cost) < 0 =>
                              \E m \in told.belowCost : m <= marginFor(answer, c.cost)
            <3>1. GuardAsked(c) /\ Buys(b, c)  BY QuestionsAssumption
            <3>. QED  BY <3>1, <2>2, GuardSeesIt
      <2>. QED  BY <2>1, <2>2 DEF GuardTells
<1>. QED  BY <1>1, QuestionsAreAsked, PTL

-----------------------------------------------------------------------------
(***************************************************************************)
(* Folds that keep within a set, and folds that append                     *)
(***************************************************************************)
\* A fold that keeps within a set of values is a sequence of them, from its base
\* to its result.
Unrolled(w, W, n, F, base, iter) ==
    /\ w \in [0 .. n -> W]
    /\ w[0] = base
    /\ \A k \in 1 .. n : w[k] = F[<<w[k - 1], k>>]
    /\ iter[1 .. n] = w[n]

\* A recursion that keeps within a set, where it is defined, unrolls.
LEMMA FoldUnrolls ==
    ASSUME NEW W, NEW base \in W, NEW n \in Nat, NEW F \in [W \X (1 .. n) -> W], NEW iter,
           iter[{}] = base,
           \A t \in SUBSET (1 .. n) : t # {} /\ iter[t \ {Max(t)}] \in W =>
               iter[t] = F[<<iter[t \ {Max(t)}], Max(t)>>]
    PROVE  \E w : Unrolled(w, W, n, F, base, iter)
<1>. DEFINE w == [k \in 0 .. n |-> iter[1 .. k]]
            S == {k \in 0 .. n : w[k] \in W}
<1>1. w[0] = base
      <2>1. iter[1 .. 0] = base  BY FirstOnes
      <2>. QED  BY <2>1
<1>2. ASSUME NEW k \in 1 .. n, w[k - 1] \in W PROVE w[k] = F[<<w[k - 1], k>>]
      <2>1. /\ 1 .. k \in SUBSET (1 .. n) /\ 1 .. k # {}
            /\ Max(1 .. k) = k /\ (1 .. k) \ {k} = 1 .. (k - 1)
            BY FirstOnes
      <2>2. w[k - 1] = iter[1 .. (k - 1)] /\ w[k] = iter[1 .. k]  OBVIOUS
      <2>3. iter[(1 .. k) \ {Max(1 .. k)}] \in W  BY <2>1, <2>2, <1>2
      <2>4. iter[1 .. k] = F[<<iter[(1 .. k) \ {Max(1 .. k)}], Max(1 .. k)>>]
            BY <2>1, <2>3
      <2>. QED  BY <2>1, <2>2, <2>4
<1>3. w[n] = iter[1 .. n] /\ DOMAIN w = 0 .. n /\ 0 \in 0 .. n  OBVIOUS
<1>4. w = [k \in 0 .. n |-> w[k]]  OBVIOUS
<1>. HIDE DEF w
<1>5. \A k \in 0 .. n : k \in S
      <2>1. 0 \in S  BY <1>1, <1>3
      <2>2. ASSUME NEW k \in 1 .. n, k - 1 \in S PROVE k \in S
            <3>1. w[k - 1] \in W  BY <2>2
            <3>2. w[k] = F[<<w[k - 1], k>>]  BY <3>1, <1>2
            <3>3. w[k] \in W  BY <3>1, <3>2
            <3>. QED  BY <3>3
      <2>. HIDE DEF S
      <2>. QED  BY <2>1, <2>2, InductionUpTo
<1>6. \A k \in 0 .. n : w[k] \in W  BY <1>5
<1>7. w \in [0 .. n -> W]  BY <1>4, <1>6
<1>8. \A k \in 1 .. n : w[k] = F[<<w[k - 1], k>>]
      <2>. TAKE k \in 1 .. n
      <2>1. k - 1 \in 0 .. n  OBVIOUS
      <2>. QED  BY <2>1, <1>6, <1>2
<1>9. Unrolled(w, W, n, F, base, iter)  BY <1>1, <1>3, <1>7, <1>8 DEF Unrolled
<1>. QED  BY <1>9

\* What is appended one by one is the sequence it is taken from.
LEMMA BuiltUp ==
    ASSUME NEW R, NEW s \in Seq(R), NEW w \in [0 .. Len(s) -> Seq(R)],
           w[0] = << >>,
           \A k \in 1 .. Len(s) : w[k] = Append(w[k - 1], s[k])
    PROVE  w[Len(s)] = s
<1>. DEFINE n == Len(s)
            S == {k \in 0 .. n : /\ Len(w[k]) = k
                                 /\ \A j \in 1 .. k : w[k][j] = s[j]}
<1>0. n \in Nat /\ DOMAIN s = 1 .. n /\ \A i \in 1 .. n : s[i] \in R  OBVIOUS
<1>1. /\ w[0] = << >> /\ \A k \in 0 .. n : w[k] \in Seq(R)
      /\ \A k \in 1 .. n : w[k] = Append(w[k - 1], s[k])
      OBVIOUS
<1>. HIDE DEF n
<1>2. 0 \in S  BY <1>1, <1>0
<1>3. ASSUME NEW k \in 1 .. n, k - 1 \in S PROVE k \in S
      <2>1. w[k - 1] \in Seq(R) /\ s[k] \in R /\ k \in Nat
            <3>1. k \in Nat /\ k - 1 \in 0 .. n  BY <1>0
            <3>. QED  BY <3>1, <1>0, <1>1
      <2>2. Len(w[k - 1]) = k - 1 /\ \A j \in 1 .. k - 1 : w[k - 1][j] = s[j]
            BY <1>3
      <2>3. /\ Len(w[k]) = k
            /\ \A j \in 1 .. k - 1 : w[k][j] = s[j]
            /\ w[k][k] = s[k]
            <3>1. w[k] = Append(w[k - 1], s[k])  BY <1>1
            <3>2. PICK v \in Seq(R) : v = w[k - 1]  BY <2>1
            <3>3. Len(v) = k - 1 /\ v \in Seq(R) /\ s[k] \in R  BY <3>2, <2>1, <2>2
            <3>4. /\ Len(Append(v, s[k])) = k
                  /\ \A j \in 1 .. k - 1 : Append(v, s[k])[j] = v[j]
                  /\ Append(v, s[k])[k] = s[k]
                  <4>1. k - 1 + 1 = k  BY <2>1
                  <4>2. /\ DOMAIN Append(v, s[k]) = 1 .. Len(v) + 1
                        /\ \A j \in 1 .. Len(v) : Append(v, s[k])[j] = v[j]
                        /\ Append(v, s[k])[Len(v) + 1] = s[k]
                        BY <3>3, AppendIs
                  <4>3. Len(Append(v, s[k])) = Len(v) + 1
                        <5>1. \A e \in R : Len(Append(v, e)) = Len(v) + 1  BY <3>3
                        <5>. QED  BY <5>1, <3>3
                  <4>. QED  BY <4>1, <4>2, <4>3, <3>3
            <3>. QED  BY <3>1, <3>2, <3>4, <2>2
      <2>4. \A j \in 1 .. k : j \in 1 .. k - 1 \/ j = k  BY <2>1
      <2>. QED  BY <2>3, <2>4, <1>0
<1>. HIDE DEF S
<1>4. n \in S
      <2>1. \A k \in 0 .. n : k \in S  BY <1>2, <1>3, <1>0, InductionUpTo
      <2>. QED  BY <2>1, <1>0
<1>5. w[n] \in Seq(R) /\ Len(w[n]) = n /\ \A j \in 1 .. n : w[n][j] = s[j]
      BY <1>4, <1>1, <1>0 DEF S
<1>. QED  BY <1>5, <1>0 DEF n

\* A fold that adds the members of a sequence, one at each position.
Added(h, s, R) ==
    /\ h \in [SUBSET (1 .. Len(s)) -> Seq(R)]
    /\ h[{}] = << >>
    /\ \A t \in SUBSET (1 .. Len(s)) :
         t # {} => /\ h[t \ {Max(t)}] \in Seq(R) /\ Max(t) \in 1 .. Len(s)
                   /\ h[t] = Append(h[t \ {Max(t)}], s[Max(t)])

\* There is such a fold, and every one of them ends with the sequence itself.
LEMMA AddsUp ==
    ASSUME NEW R, NEW s \in Seq(R)
    PROVE  /\ \E h : Added(h, s, R)
           /\ \A iter :
                /\ iter[{}] = << >>
                /\ \A t \in SUBSET (1 .. Len(s)) :
                     t # {} /\ iter[t \ {Max(t)}] \in Seq(R) =>
                       iter[t] = Append(iter[t \ {Max(t)}], s[Max(t)])
                => iter[1 .. Len(s)] = s
<1>. DEFINE n == Len(s)
            W == Seq(R)
            F == [p \in W \X (1 .. n) |-> Append(p[1], s[p[2]])]
<1>0. n \in Nat /\ DOMAIN s = 1 .. n /\ \A i \in 1 .. n : s[i] \in R  OBVIOUS
<1>1. F \in [W \X (1 .. n) -> W] /\ << >> \in W
      <2>1. \A v \in W, i \in 1 .. n : Append(v, s[i]) \in W  BY <1>0
      <2>. QED  BY <2>1
<1>2. \A v \in W, i \in 1 .. n : F[<<v, i>>] = Append(v, s[i])  OBVIOUS
<1>3. PICK h : Iterates(W, n, F, << >>, h)
      <2>. HIDE DEF W, F, n
      <2>. QED  BY <1>0, <1>1, IterationExists
<1>4. Added(h, s, R)
      <2>1. \A t \in SUBSET (1 .. n) : t # {} =>
               /\ h[t \ {Max(t)}] \in W /\ Max(t) \in 1 .. n
               /\ h[t] = F[<<h[t \ {Max(t)}], Max(t)>>]
            BY <1>0, <1>3, LargestIsThere DEF Iterates
      <2>2. h[{}] = << >> /\ h \in [SUBSET (1 .. n) -> W]  BY <1>3 DEF Iterates
      <2>3. \A t \in SUBSET (1 .. n) : t # {} =>
               /\ h[t \ {Max(t)}] \in W /\ Max(t) \in 1 .. n
               /\ h[t] = Append(h[t \ {Max(t)}], s[Max(t)])
            <3>. HIDE DEF F, W
            <3>. QED  BY <2>1, <1>2
      <2>. QED  BY <2>2, <2>3 DEF Added
<1>5. ASSUME NEW iter, iter[{}] = << >>,
             \A t \in SUBSET (1 .. n) : t # {} /\ iter[t \ {Max(t)}] \in W =>
               iter[t] = Append(iter[t \ {Max(t)}], s[Max(t)])
      PROVE  iter[1 .. n] = s
      <2>1. \A t \in SUBSET (1 .. n) : t # {} /\ iter[t \ {Max(t)}] \in W =>
               iter[t] = F[<<iter[t \ {Max(t)}], Max(t)>>]
            <3>. HIDE DEF F, W
            <3>. QED  BY <1>5, <1>2, <1>0, LargestIsThere
      <2>2. PICK w : Unrolled(w, W, n, F, << >>, iter)
            <3>. HIDE DEF W, F, n
            <3>. QED  BY <1>0, <1>1, <1>5, <2>1, FoldUnrolls
      <2>3. /\ w \in [0 .. n -> Seq(R)]
            /\ w[0] = << >> /\ iter[1 .. n] = w[n]
            BY <2>2 DEF Unrolled
      <2>4. \A k \in 1 .. n : w[k] = Append(w[k - 1], s[k])
            <3>. TAKE k \in 1 .. n
            <3>1. k - 1 \in 0 .. n  BY <1>0
            <3>2. w[k] = F[<<w[k - 1], k>>] /\ w[k - 1] \in W
                  BY <3>1, <2>2 DEF Unrolled
            <3>. HIDE DEF F
            <3>. QED  BY <3>2, <1>2
      <2>5. w[n] = s
            <3>. HIDE DEF F, W
            <3>. QED  BY <2>3, <2>4, BuiltUp
      <2>. QED  BY <2>3, <2>5
<1>. QED  BY <1>4, <1>5

(***************************************************************************)
(* Published limits                                                        *)
(***************************************************************************)
\* Limits of which all can be read are the ones that were published.
LEMMA LimitsReadBack ==
    ASSUME NEW P, NEW published \in Seq(P), NEW R, NEW limits \in Seq(R),
           Len(limits) = Len(published),
           \A i \in DOMAIN published : readLimit(published[i]) = <<limits[i]>>
    PROVE  deserializeLimits(published) = limits
<1>. DEFINE n == Len(published)
            rec(g) == [t \in SUBSET (1 .. n) |->
                         IF t = {} THEN << >>
                         ELSE g[t \ {Max(t)}] \o readLimit(published[Max(t)])]
            iter == CHOOSE g : g = rec(g)
<1>0. n \in Nat /\ DOMAIN published = 1 .. n /\ Len(limits) = n
      /\ \A i \in 1 .. n : limits[i] \in R
      OBVIOUS
<1>1. deserializeLimits(published) = iter[1 .. n]
      BY <1>0 DEF deserializeLimits, FoldLeft, MapThenFoldSet
<1>2. \A v \in Seq(R), i \in 1 .. n :
         v \o readLimit(published[i]) = Append(v, limits[i])
      <2>. TAKE v \in Seq(R), i \in 1 .. n
      <2>1. limits[i] \in R /\ readLimit(published[i]) = <<limits[i]>>  BY <1>0
      <2>. QED  BY <2>1
<1>3. PICK h : Added(h, limits, R)  BY AddsUp
<1>. HIDE DEF n
<1>4. h = rec(h)
      <2>1. h[{}] = << >> /\ h \in [SUBSET (1 .. n) -> Seq(R)]
            BY <1>0, <1>3 DEF Added
      <2>2. \A t \in SUBSET (1 .. n) : t # {} =>
               h[t] = h[t \ {Max(t)}] \o readLimit(published[Max(t)])
            <3>. TAKE t \in SUBSET (1 .. n)
            <3>. HAVE t # {}
            <3>1. /\ h[t \ {Max(t)}] \in Seq(R) /\ Max(t) \in 1 .. n
                  /\ h[t] = Append(h[t \ {Max(t)}], limits[Max(t)])
                  BY <1>0, <1>3 DEF Added
            <3>. QED  BY <3>1, <1>2
      <2>3. \A t \in SUBSET (1 .. n) : h[t] = rec(h)[t]  BY <2>1, <2>2
      <2>. QED  BY <2>1, <2>3
<1>5. iter = rec(iter)  BY <1>4
<1>. HIDE DEF iter
<1>6. iter[{}] = << >>  BY <1>5
<1>7. \A t \in SUBSET (1 .. n) : t # {} /\ iter[t \ {Max(t)}] \in Seq(R) =>
         iter[t] = Append(iter[t \ {Max(t)}], limits[Max(t)])
      BY <1>5, <1>0, <1>2, LargestIsThere
<1>8. iter[1 .. n] = limits  BY <1>6, <1>7, <1>0, AddsUp
<1>. QED  BY <1>1, <1>8

BOUNDS == {"minSubtotal", "maxSubtotal", "minQuantity", "maxQuantity", "quantityIncrement"}

\* What a buyer is told, each shortfall under its name.
Tagged(told, gaps) == {<<told, gap>> : gap \in gaps}

\* Told of more shortfalls, a buyer is told at least as much.
LEMMA TaggedGrows ==
    ASSUME NEW A, NEW B, A \subseteq B, NEW told
    PROVE  Tagged(told, A) \subseteq Tagged(told, B)
BY DEF Tagged

\* A limit some of whose bounds are lost asks for no more.
LEMMA LostBoundsAskLess ==
    ASSUME NEW l, NEW m, NEW cart,
           m.currency = l.currency,
           \A b \in BOUNDS : m[b] = l[b] \/ m[b] = << >>
    PROVE  violationsFor(m, cart) \subseteq violationsFor(l, cart)
<1>1. /\ m.minSubtotal = l.minSubtotal \/ m.minSubtotal = << >>
      /\ m.maxSubtotal = l.maxSubtotal \/ m.maxSubtotal = << >>
      /\ m.minQuantity = l.minQuantity \/ m.minQuantity = << >>
      /\ m.maxQuantity = l.maxQuantity \/ m.maxQuantity = << >>
      /\ m.quantityIncrement = l.quantityIncrement \/ m.quantityIncrement = << >>
      BY DEF BOUNDS
<1>2. UnitsShort(m, cart.quantity) \subseteq UnitsShort(l, cart.quantity)
      BY <1>1 DEF UnitsShort, Below
<1>3. UnitsOver(m, cart.quantity) \subseteq UnitsOver(l, cart.quantity)
      BY <1>1 DEF UnitsOver, Above
<1>4. UnitsToNextCase(m, cart.quantity) \subseteq UnitsToNextCase(l, cart.quantity)
      <2>1. CASE m.quantityIncrement = << >>
            <3>1. Remainder(m, cart.quantity) = 0  BY <2>1 DEF Remainder, HasCases
            <3>. QED  BY <3>1 DEF UnitsToNextCase
      <2>2. CASE m.quantityIncrement = l.quantityIncrement
            BY <2>2 DEF UnitsToNextCase, Remainder, HasCases
      <2>. QED  BY <2>1, <2>2, <1>1
<1>5. Below(cart.subtotal, m.minSubtotal) =>
        Below(cart.subtotal, l.minSubtotal) /\ m.minSubtotal = l.minSubtotal
      BY <1>1 DEF Below
<1>6. Above(cart.subtotal, m.maxSubtotal) =>
        Above(cart.subtotal, l.maxSubtotal) /\ m.maxSubtotal = l.maxSubtotal
      BY <1>1 DEF Above
<1>. DEFINE short(x) == IF x.currency = cart.currency /\ Below(cart.subtotal, x.minSubtotal)
                        THEN {x.minSubtotal[1] - cart.subtotal} ELSE {}
            over(x) == IF x.currency = cart.currency /\ Above(cart.subtotal, x.maxSubtotal)
                       THEN {cart.subtotal - x.maxSubtotal[1]} ELSE {}
<1>7. short(m) \subseteq short(l)  BY <1>5
<1>8. over(m) \subseteq over(l)  BY <1>6
<1>9. \A x : violationsFor(x, cart) =
        Tagged("below_minimum_subtotal", short(x))
        \cup Tagged("above_maximum_subtotal", over(x))
        \cup Tagged("below_minimum_quantity", UnitsShort(x, cart.quantity))
        \cup Tagged("above_maximum_quantity", UnitsOver(x, cart.quantity))
        \cup Tagged("not_a_multiple", UnitsToNextCase(x, cart.quantity))
      BY DEF violationsFor, Tagged
<1>10. \A t : /\ Tagged(t, short(m)) \subseteq Tagged(t, short(l))
              /\ Tagged(t, over(m)) \subseteq Tagged(t, over(l))
              /\ Tagged(t, UnitsShort(m, cart.quantity))
                   \subseteq Tagged(t, UnitsShort(l, cart.quantity))
              /\ Tagged(t, UnitsOver(m, cart.quantity))
                   \subseteq Tagged(t, UnitsOver(l, cart.quantity))
              /\ Tagged(t, UnitsToNextCase(m, cart.quantity))
                   \subseteq Tagged(t, UnitsToNextCase(l, cart.quantity))
      BY <1>2, <1>3, <1>4, <1>7, <1>8, TaggedGrows
<1>. HIDE DEF short, over
<1>. QED  BY <1>9, <1>10

\* What is read of a limit that can be told from others.
ReadAs(wire) ==
    [k \in DOMAIN LimitUnread |->
        IF k \in wire.garbled THEN LimitUnread[k] ELSE wire.limit[k]]

\* Garbling bounds leaves the rest of a limit, and loses a bound or keeps it.
LEMMA LimitFieldsRead ==
    ASSUME NEW wire, wire.garbled \subseteq BOUNDS
    PROVE  /\ ReadAs(wire).enabled = wire.limit.enabled
           /\ ReadAs(wire).countries = wire.limit.countries
           /\ ReadAs(wire).group = wire.limit.group
           /\ ReadAs(wire).currency = wire.limit.currency
           /\ \A b \in BOUNDS : ReadAs(wire)[b] = wire.limit[b] \/ ReadAs(wire)[b] = << >>
<1>1. DOMAIN LimitUnread = {"group", "enabled", "countries", "currency"} \cup BOUNDS
      BY DEF LimitUnread, BOUNDS
<1>2. \A k \in DOMAIN LimitUnread :
        ReadAs(wire)[k] = IF k \in wire.garbled THEN LimitUnread[k] ELSE wire.limit[k]
      BY DEF ReadAs
<1>3. \A b \in BOUNDS : LimitUnread[b] = << >>
      <2>1. /\ LimitUnread.minSubtotal = << >>
            /\ LimitUnread.maxSubtotal = << >>
            /\ LimitUnread.minQuantity = << >>
            /\ LimitUnread.maxQuantity = << >>
            /\ LimitUnread.quantityIncrement = << >>
            BY DEF LimitUnread, Nothing
      <2>. QED  BY <2>1 DEF BOUNDS
<1>4. "group" \notin BOUNDS /\ "enabled" \notin BOUNDS /\ "countries" \notin BOUNDS
      /\ "currency" \notin BOUNDS
      BY DEF BOUNDS
<1>5. \A k \in {"group", "enabled", "countries", "currency"} :
        ReadAs(wire)[k] = wire.limit[k]
      BY <1>1, <1>2, <1>4
<1>6. \A b \in BOUNDS : ReadAs(wire)[b] = wire.limit[b] \/ ReadAs(wire)[b] = << >>
      BY <1>1, <1>2, <1>3
<1>. QED  BY <1>5, <1>6

\* The same limit of the list governs, whatever bounds are lost.
LEMMA LostBoundsBlockLess ==
    ASSUME NEW R, NEW meant \in Seq(R), NEW read \in Seq(R), Len(read) = Len(meant), NEW facts,
           \A i \in DOMAIN meant :
             /\ read[i].enabled = meant[i].enabled
             /\ read[i].countries = meant[i].countries
             /\ read[i].group = meant[i].group
             /\ read[i].currency = meant[i].currency
             /\ \A b \in BOUNDS : read[i][b] = meant[i][b] \/ read[i][b] = << >>
    PROVE  evaluateLimits(read, facts) \subseteq evaluateLimits(meant, facts)
<1>. DEFINE usable(l) == {i \in DOMAIN l : Usable(l[i], facts)}
            storeWide(l) == {i \in usable(l) : l[i].group = << >>}
            own(l) == {i \in usable(l) \ storeWide(l) : l[i].group[1] \in facts.groups}
<1>0. DOMAIN read = DOMAIN meant /\ DOMAIN meant \subseteq Nat  OBVIOUS
<1>1. usable(read) = usable(meant)  BY <1>0 DEF Usable, appliesInCountry
<1>2. storeWide(read) = storeWide(meant)  BY <1>0, <1>1
<1>3. own(read) = own(meant)  BY <1>0, <1>1, <1>2
<1>4. own(meant) \subseteq DOMAIN meant /\ storeWide(meant) \subseteq DOMAIN meant  OBVIOUS
<1>5. \A l : limitFor(l, facts) =
                IF own(l) # {} THEN <<l[Min(own(l))]>>
                ELSE IF storeWide(l) # {} THEN <<l[Min(storeWide(l))]>> ELSE << >>
      BY DEF limitFor
<1>. HIDE DEF own, storeWide, usable
<1>6. \A s \in SUBSET DOMAIN meant : s # {} => Min(s) \in DOMAIN meant
      <2>. TAKE s \in SUBSET DOMAIN meant
      <2>. HAVE s # {}
      <2>1. s \in SUBSET Nat  BY <1>0
      <2>2. Min(s) \in s  BY <2>1, SmallestIsThere
      <2>. QED  BY <2>2
<1>7. \/ limitFor(read, facts) = << >> /\ limitFor(meant, facts) = << >>
      \/ \E i \in DOMAIN meant : /\ limitFor(read, facts) = <<read[i]>>
                                 /\ limitFor(meant, facts) = <<meant[i]>>
      <2>1. CASE own(meant) # {}
            <3>1. Min(own(meant)) \in DOMAIN meant  BY <2>1, <1>4, <1>6
            <3>. QED  BY <2>1, <3>1, <1>3, <1>5
      <2>2. CASE own(meant) = {} /\ storeWide(meant) # {}
            <3>1. Min(storeWide(meant)) \in DOMAIN meant  BY <2>2, <1>4, <1>6
            <3>. QED  BY <2>2, <3>1, <1>2, <1>3, <1>5
      <2>3. CASE own(meant) = {} /\ storeWide(meant) = {}
            BY <2>3, <1>2, <1>3, <1>5
      <2>. QED  BY <2>1, <2>2, <2>3
<1>8. CASE limitFor(read, facts) = << >>
      BY <1>8 DEF evaluateLimits
<1>9. ASSUME NEW i \in DOMAIN meant, limitFor(read, facts) = <<read[i]>>,
             limitFor(meant, facts) = <<meant[i]>>
      PROVE  evaluateLimits(read, facts) \subseteq evaluateLimits(meant, facts)
      <2>1. violationsFor(read[i], facts) \subseteq violationsFor(meant[i], facts)
            BY LostBoundsAskLess
      <2>2. <<read[i]>> # << >> /\ <<meant[i]>> # << >>
            /\ <<read[i]>>[1] = read[i] /\ <<meant[i]>>[1] = meant[i]
            OBVIOUS
      <2>. QED  BY <2>1, <2>2, <1>9 DEF evaluateLimits
<1>. QED  BY <1>7, <1>8, <1>9

(***************************************************************************)
(* Whatever limits are published, in whatever currency the cart is: what   *)
(* checkout refuses of it is what the engine refuses on the same numbers,  *)
(* and bounds that do not read back only ever let a cart through           *)
(* (mannon-limits, order-limits/src/codec.ts).                             *)
(***************************************************************************)
THEOREM BlocksAlwaysAlike == EnginesSpec => []BlocksAlike
<1>1. QuestionAsked => BlocksAlike
      <2>. SUFFICES ASSUME QuestionAsked, question.engine = "block" PROVE BlocksAlike
           BY DEF BlocksAlike
      <2>1. PICK c \in BlockCases : c = question.case  BY DEF QuestionAsked
      <2>2. BlockAsked(c)  BY QuestionsAssumption
      <2>. DEFINE published == c.published
                  meant == [i \in DOMAIN published |-> published[i].limit]
                  read == [i \in DOMAIN published |-> ReadAs(published[i])]
                  lost == UNION {published[i].garbled : i \in DOMAIN published}
                  facts == [subtotal |-> c.subtotal, currency |-> c.cart.currency,
                            quantity |-> Units(c.cart), country |-> c.cart.country,
                            groups |-> c.cart.customer[1].groups,
                            isAuthenticated |-> TRUE]
                  R == Range(meant) \cup Range(read)
      <2>3. PICK n \in Nat : n = Len(published) /\ DOMAIN published = 1 .. n
            BY <2>2 DEF BlockAsked
      <2>4. meant \in Seq(R) /\ read \in Seq(R) /\ Len(meant) = n /\ Len(read) = n
            /\ DOMAIN meant = 1 .. n /\ DOMAIN read = 1 .. n
            BY <2>3 DEF Range
      <2>5. OrZero(parseMoney(c.cart.subtotal, c.cart.currency)) = c.subtotal
            <3>. DEFINE g == Grain(c.cart.currency)
            <3>1. g \in Nat \ {0}  BY DEF Grain
            <3>2. PICK s \in Int : s = c.subtotal  BY <2>2 DEF BlockAsked
            <3>3. c.cart.subtotal = <<s * g>>
                  BY <2>2, <3>2 DEF BlockAsked, formatMoney
            <3>. HIDE DEF g
            <3>4. (s * g) % g = 0 /\ (s * g) \div g = s
                  <4>1. s * g = g * s  BY <3>1
                  <4>. QED  BY <4>1, <3>1, Multiple
            <3>5. parseMoney(c.cart.subtotal, c.cart.currency) = <<s>>
                  BY <3>3, <3>4 DEF parseMoney, IsThere, Nothing, g
            <3>. QED  BY <3>5, <3>2 DEF OrZero, IsThere, Nothing
      <2>6. limitsFunction(published, c.cart)
              = evaluateLimits(deserializeLimits(published), facts)
            BY <2>5, <2>2 DEF limitsFunction, BlockAsked
      <2>7. ASSUME lost \subseteq BOUNDS
            PROVE  /\ deserializeLimits(published) = read
                   /\ evaluateLimits(read, facts) \subseteq evaluateLimits(meant, facts)
            <3>1. \A i \in 1 .. n : published[i].garbled \subseteq BOUNDS
                  BY <2>7, <2>3
            <3>2. \A i \in 1 .. n : readLimit(published[i]) = <<read[i]>>
                  <4>. TAKE i \in 1 .. n
                  <4>1. "id" \notin published[i].garbled  BY <3>1 DEF BOUNDS
                  <4>2. DOMAIN published[i].limit = DOMAIN LimitUnread
                        BY <2>2, <2>3 DEF BlockAsked
                  <4>. QED  BY <4>1, <4>2, <2>3 DEF readLimit, ReadAs
            <3>3. \A i \in 1 .. n :
                    /\ read[i].enabled = meant[i].enabled
                    /\ read[i].countries = meant[i].countries
                    /\ read[i].group = meant[i].group
                    /\ read[i].currency = meant[i].currency
                    /\ \A b \in BOUNDS : read[i][b] = meant[i][b] \/ read[i][b] = << >>
                  BY <3>1, <2>3, LimitFieldsRead
            <3>4. published \in Seq(Range(published))  BY <2>2 DEF BlockAsked
            <3>. HIDE DEF R, read, meant, facts, published
            <3>5. deserializeLimits(published) = read
                  BY <3>2, <3>4, <2>3, <2>4, LimitsReadBack
            <3>6. evaluateLimits(read, facts) \subseteq evaluateLimits(meant, facts)
                  BY <3>3, <2>3, <2>4, LostBoundsBlockLess
            <3>. QED  BY <3>5, <3>6
      <2>8. lost = {} => read = meant
            <3>. SUFFICES ASSUME lost = {} PROVE read = meant  OBVIOUS
            <3>1. ASSUME NEW i \in DOMAIN published PROVE ReadAs(published[i]) = published[i].limit
                  <4>1. published[i].garbled = {}  OBVIOUS
                  <4>2. published[i].limit = [k \in DOMAIN LimitUnread |-> published[i].limit[k]]
                        BY <2>2 DEF BlockAsked
                  <4>3. ReadAs(published[i]) = [k \in DOMAIN LimitUnread |-> published[i].limit[k]]
                        BY <4>1 DEF ReadAs
                  <4>. QED  BY <4>2, <4>3
            <3>. QED  BY <3>1
      <2>9. /\ lost = {} => limitsFunction(published, c.cart) = evaluateLimits(meant, facts)
            /\ lost \subseteq BOUNDS =>
                 limitsFunction(published, c.cart) \subseteq evaluateLimits(meant, facts)
            <3>. HIDE DEF lost, read, meant, facts
            <3>. QED  BY <2>6, <2>7, <2>8
      <2>. QED  BY <2>1, <2>9 DEF BlocksAlike, BOUNDS
<1>. QED  BY <1>1, QuestionsAreAsked, PTL

(***************************************************************************)
(* Approval criteria                                                       *)
(***************************************************************************)
\* What is read of the criteria: all of them, or fewer.
LEMMA ReadOnesAre ==
    ASSUME NEW R, NEW criteria \in Seq(R)
    PROVE  /\ ReadOnes(criteria) \in Seq(R)
           /\ Len(ReadOnes(criteria)) = Len(criteria) <=>
                \A i \in DOMAIN criteria : Readable(criteria[i])
           /\ (\A i \in DOMAIN criteria : Readable(criteria[i])) => ReadOnes(criteria) = criteria
<1>. DEFINE n == Len(criteria)
            W == Seq(R)
            Op(v, i) == IF Readable(criteria[i]) THEN Append(v, criteria[i]) ELSE v
            F == [p \in W \X (1 .. n) |-> Op(p[1], p[2])]
            rec(g) == [t \in SUBSET (1 .. n) |->
                         IF t = {} THEN << >> ELSE Op(g[t \ {Max(t)}], Max(t))]
            iter == CHOOSE g : g = rec(g)
<1>0. n \in Nat /\ DOMAIN criteria = 1 .. n  OBVIOUS
<1>1. ReadOnes(criteria) = iter[1 .. n]
      BY <1>0 DEF ReadOnes, FoldLeft, MapThenFoldSet
<1>2. \A v \in W, i \in 1 .. n : Op(v, i) \in W
      <2>. TAKE v \in W, i \in 1 .. n
      <2>1. criteria[i] \in R  BY <1>0
      <2>2. Append(v, criteria[i]) \in Seq(R)  BY <2>1
      <2>. QED  BY <2>2
<1>3. F \in [W \X (1 .. n) -> W]  BY <1>2
<1>4. PICK h : Iterates(W, n, F, << >>, h)
      <2>1. << >> \in W  OBVIOUS
      <2>. HIDE DEF W, F, n
      <2>. QED  BY <1>0, <1>3, <2>1, IterationExists
<1>5. h = rec(h)
      <2>1. \A t \in SUBSET (1 .. n) : t # {} =>
               /\ h[t \ {Max(t)}] \in W /\ Max(t) \in 1 .. n
               /\ h[t] = F[<<h[t \ {Max(t)}], Max(t)>>]
            BY <1>0, <1>4, LargestIsThere DEF Iterates
      <2>2. h[{}] = << >>  BY <1>4 DEF Iterates
      <2>3. \A t \in SUBSET (1 .. n) : h[t] = rec(h)[t]  BY <2>1, <2>2
      <2>. QED  BY <1>4, <2>3 DEF Iterates
<1>6. iter = rec(iter)  BY <1>5
<1>. HIDE DEF iter
<1>7. iter[{}] = << >>  BY <1>6
<1>8. \A t \in SUBSET (1 .. n) : t # {} /\ iter[t \ {Max(t)}] \in W =>
         iter[t] = F[<<iter[t \ {Max(t)}], Max(t)>>]
      BY <1>6, <1>0, LargestIsThere
<1>9. PICK w : Unrolled(w, W, n, F, << >>, iter)
      <2>1. << >> \in W  OBVIOUS
      <2>. HIDE DEF W, F, n
      <2>. QED  BY <1>0, <1>3, <1>7, <1>8, <2>1, FoldUnrolls
<1>10. /\ \A k \in 0 .. n : w[k] \in Seq(R)
       /\ w[0] = << >> /\ iter[1 .. n] = w[n]
       BY <1>9 DEF Unrolled
<1>11. \A k \in 1 .. n : w[k] = IF Readable(criteria[k]) THEN Append(w[k - 1], criteria[k])
                                ELSE w[k - 1]
      <2>. TAKE k \in 1 .. n
      <2>1. k - 1 \in 0 .. n  BY <1>0
      <2>2. w[k] = F[<<w[k - 1], k>>] /\ w[k - 1] \in W  BY <2>1, <1>9 DEF Unrolled
      <2>. QED  BY <2>2
<1>. DEFINE all(k) == \A j \in 1 .. k : Readable(criteria[j])
            S == {k \in 0 .. n : /\ Len(w[k]) <= k
                                 /\ Len(w[k]) = k => all(k)
                                 /\ all(k) => /\ Len(w[k]) = k
                                              /\ \A j \in 1 .. k : w[k][j] = criteria[j]}
<1>. HIDE DEF F, Op, n
<1>12. 0 \in S  BY <1>10, <1>0
<1>13. ASSUME NEW k \in 1 .. n, k - 1 \in S PROVE k \in S
      <2>1. w[k - 1] \in Seq(R) /\ criteria[k] \in R /\ k \in Nat  BY <1>0, <1>10
      <2>2. PICK v \in Seq(R) : v = w[k - 1]  BY <2>1
      <2>3. PICK m \in Nat : m = Len(v)  BY <2>2
      <2>4. /\ m <= k - 1
            /\ m = k - 1 => all(k - 1)
            /\ all(k - 1) => m = k - 1 /\ \A j \in 1 .. k - 1 : v[j] = criteria[j]
            BY <1>13, <2>2, <2>3
      <2>5. all(k) <=> all(k - 1) /\ Readable(criteria[k])
            <3>1. \A j \in 1 .. k : j \in 1 .. k - 1 \/ j = k  BY <2>1
            <3>2. \A j \in 1 .. k - 1 : j \in 1 .. k  BY <2>1
            <3>3. k \in 1 .. k  BY <2>1
            <3>. QED  BY <3>1, <3>2, <3>3
      <2>6. CASE Readable(criteria[k])
            <3>1. w[k] = Append(v, criteria[k])  BY <1>11, <2>2, <2>6
            <3>2. /\ \A j \in 1 .. m : Append(v, criteria[k])[j] = v[j]
                  /\ Append(v, criteria[k])[m + 1] = criteria[k]
                  BY <2>1, <2>3, AppendIs
            <3>3. Len(Append(v, criteria[k])) = m + 1
                  <4>1. \A e \in R : Len(Append(v, e)) = Len(v) + 1  BY <2>2
                  <4>. QED  BY <4>1, <2>1, <2>3
            <3>4. Len(w[k]) = m + 1  BY <3>1, <3>3
            <3>5. all(k) => \A j \in 1 .. k : w[k][j] = criteria[j]
                  <4>. HAVE all(k)
                  <4>1. m = k - 1 /\ \A j \in 1 .. m : v[j] = criteria[j]
                        BY <2>4, <2>5
                  <4>2. m + 1 = k  BY <4>1, <2>1
                  <4>3. \A j \in 1 .. k : j \in 1 .. m \/ j = k  BY <4>2, <2>1
                  <4>. QED  BY <4>1, <4>2, <4>3, <3>1, <3>2
            <3>6. m + 1 <= k /\ (m + 1 = k <=> m = k - 1)  BY <2>1, <2>4
            <3>. QED  BY <3>4, <3>5, <3>6, <2>4, <2>5, <2>6, <1>0
      <2>7. CASE ~Readable(criteria[k])
            <3>1. w[k] = v  BY <1>11, <2>2, <2>7
            <3>2. m <= k /\ m # k  BY <2>1, <2>4
            <3>. QED  BY <3>1, <3>2, <2>3, <2>5, <2>7, <1>0
      <2>. QED  BY <2>6, <2>7
<1>. HIDE DEF S
<1>14. n \in S
      <2>1. \A k \in 0 .. n : k \in S  BY <1>12, <1>13, <1>0, InductionUpTo
      <2>. QED  BY <2>1, <1>0
<1>15. /\ w[n] \in Seq(R)
       /\ Len(w[n]) = n => all(n)
       /\ all(n) => Len(w[n]) = n /\ \A j \in 1 .. n : w[n][j] = criteria[j]
       BY <1>14, <1>10, <1>0 DEF S
<1>16. all(n) => w[n] = criteria  BY <1>15, <1>0 DEF n
<1>. QED  BY <1>1, <1>10, <1>15, <1>16, <1>0 DEF n

\* Whom a form as it is stored lets in.
LEMMA ApprovesWhen ==
    ASSUME NEW stored, NEW facts,
           stored = [enabled |-> stored.enabled, criteria |-> stored.criteria,
                     otherwise |-> stored.otherwise],
           stored.enabled \in BOOLEAN, stored.otherwise \in {"review", "reject"},
           stored.criteria \in Seq(Range(stored.criteria))
    PROVE  /\ Approves(stored, facts) <=>
                /\ stored.enabled /\ stored.criteria # << >>
                /\ \A i \in DOMAIN stored.criteria : /\ Readable(stored.criteria[i])
                                                     /\ meets(stored.criteria[i], facts)
           /\ (\A i \in DOMAIN stored.criteria : Readable(stored.criteria[i])) =>
                readApproval(stored) = stored
<1>. DEFINE given == stored.criteria
            all == \A i \in DOMAIN given : Readable(given[i])
            read == readApproval(stored)
<1>1. /\ ReadOnes(given) \in Seq(Range(given))
      /\ Len(ReadOnes(given)) = Len(given) <=> all
      /\ all => ReadOnes(given) = given
      BY ReadOnesAre
<1>2. read = [enabled |-> stored.enabled /\ Len(ReadOnes(given)) = Len(given),
              criteria |-> ReadOnes(given), otherwise |-> stored.otherwise]
      <2>1. \A e, c, o, ones, on :
              [[enabled |-> e, criteria |-> c, otherwise |-> o]
                 EXCEPT !.criteria = ones, !.enabled = on]
                = [enabled |-> on, criteria |-> ones, otherwise |-> o]
            <3>. TAKE e, c, o, ones, on
            <3>. DEFINE r == [enabled |-> e, criteria |-> c, otherwise |-> o]
                        s == [r EXCEPT !.criteria = ones, !.enabled = on]
                        want == [enabled |-> on, criteria |-> ones, otherwise |-> o]
            <3>1. DOMAIN r = {"enabled", "criteria", "otherwise"}  OBVIOUS
            <3>2. DOMAIN s = {"enabled", "criteria", "otherwise"}  BY <3>1
            <3>3. s.enabled = on /\ s.criteria = ones /\ s.otherwise = o  BY <3>1
            <3>4. /\ DOMAIN want = {"enabled", "criteria", "otherwise"}
                  /\ want.enabled = on /\ want.criteria = ones /\ want.otherwise = o
                  OBVIOUS
            <3>5. \A k \in {"enabled", "criteria", "otherwise"} : s[k] = want[k]
                  BY <3>3, <3>4
            <3>6. s = [k \in DOMAIN s |-> s[k]] /\ want = [k \in DOMAIN want |-> want[k]]
                  OBVIOUS
            <3>. HIDE DEF s, want
            <3>7. s = want  BY <3>2, <3>4, <3>5, <3>6
            <3>. QED  BY <3>7 DEF s, want, r
      <2>2. read = [stored EXCEPT !.criteria = ReadOnes(given),
                                  !.enabled = @ /\ Len(ReadOnes(given)) = Len(given)]
            BY DEF readApproval
      <2>3. read = [stored EXCEPT !.criteria = ReadOnes(given),
                                  !.enabled = stored.enabled
                                                /\ Len(ReadOnes(given)) = Len(given)]
            BY <2>2, Zenon
      <2>. QED  BY <2>1, <2>3, Zenon
<1>3. ASSUME all PROVE read = stored
      <2>1. (stored.enabled /\ Len(ReadOnes(given)) = Len(given)) = stored.enabled
            BY <1>1, <1>3, Zenon
      <2>. QED  BY <1>1, <1>2, <1>3, <2>1, Zenon
<1>4. ASSUME ~all PROVE ~read.enabled
      <2>1. (stored.enabled /\ Len(ReadOnes(given)) = Len(given)) = FALSE
            BY <1>1, <1>4, Zenon
      <2>2. read = [enabled |-> FALSE, criteria |-> ReadOnes(given),
                    otherwise |-> stored.otherwise]
            BY <1>2, <2>1, Zenon
      <2>. QED  BY <2>2
<1>5. ~all => ~Approves(stored, facts)
      BY <1>4 DEF Approves, evaluateApproval
<1>6. all => (Approves(stored, facts) <=>
                /\ stored.enabled /\ stored.criteria # << >>
                /\ \A i \in DOMAIN stored.criteria : meets(stored.criteria[i], facts))
      BY <1>3 DEF Approves, evaluateApproval
<1>. QED  BY <1>3, <1>5, <1>6

\* What is unknown of an applicant meets nothing.
LEMMA UnknownMeetsLess ==
    ASSUME NEW c, Readable(c), NEW facts, DOMAIN facts = DOMAIN Unknowns,
           NEW k \in DOMAIN Unknowns, meets(c, [facts EXCEPT ![k] = Unknowns[k]])
    PROVE  meets(c, facts)
<1>. DEFINE less == [facts EXCEPT ![k] = Unknowns[k]]
<1>1. DOMAIN Unknowns = {"vat", "years", "country", "uploads", "answers", "existing"}
      BY DEF Unknowns
<1>2. \A f \in DOMAIN Unknowns : less[f] = IF f = k THEN Unknowns[k] ELSE facts[f]
      OBVIOUS
<1>3. /\ Unknowns.vat = "UNVERIFIED" /\ Unknowns.years = << >>
      /\ Unknowns.country = << >> /\ Unknowns.uploads = {}
      /\ Unknowns.answers = << >> /\ Unknowns.existing = FALSE
      BY DEF Unknowns
<1>4. c.field \in CRITERION_FIELDS
      BY DEF Readable, CRITERION_FIELDS
<1>5. meets(c, less)  OBVIOUS
<1>. HIDE DEF less
<1>6. CASE c.field = "vat_valid"
      <2>1. less.vat = "VALID"  BY <1>5, <1>6 DEF meets
      <2>2. less.vat = facts.vat  BY <2>1, <1>1, <1>2, <1>3
      <2>. QED  BY <2>1, <2>2, <1>6 DEF meets
<1>7. CASE c.field = "years_in_business"
      <2>1. less.years # << >>  BY <1>5, <1>7 DEF meets
      <2>2. less.years = facts.years  BY <2>1, <1>1, <1>2, <1>3
      <2>. QED  BY <1>5, <2>2, <1>7 DEF meets
<1>8. CASE c.field = "country"
      <2>1. less.country # << >>  BY <1>5, <1>8 DEF meets
      <2>2. less.country = facts.country  BY <2>1, <1>1, <1>2, <1>3
      <2>. QED  BY <1>5, <2>2, <1>8 DEF meets
<1>9. CASE c.field = "has_upload"
      <2>1. less.uploads # {}  BY <1>5, <1>9 DEF meets
      <2>2. less.uploads = facts.uploads  BY <2>1, <1>1, <1>2, <1>3
      <2>. QED  BY <1>5, <2>2, <1>9 DEF meets
<1>10. CASE c.field = "answer"
      <2>1. c.key \in DOMAIN less.answers  BY <1>5, <1>10 DEF meets
      <2>2. less.answers # << >>  BY <2>1
      <2>3. less.answers = facts.answers  BY <2>2, <1>1, <1>2, <1>3
      <2>. QED  BY <1>5, <2>3, <1>10 DEF meets
<1>11. CASE c.field = "existing_customer"
      <2>1. less.existing  BY <1>5, <1>11 DEF meets
      <2>2. less.existing = facts.existing  BY <2>1, <1>1, <1>2, <1>3
      <2>. QED  BY <2>1, <2>2, <1>11 DEF meets
<1>. QED  BY <1>4, <1>6, <1>7, <1>8, <1>9, <1>10, <1>11 DEF CRITERION_FIELDS

\* A criterion whose field is not one of the form's is not read.
LEMMA NonsenseIsNotRead ==
    ASSUME NEW c, "field" \in DOMAIN c
    PROVE  ~Readable([c EXCEPT !.field = "nonsense"])
<1>1. [c EXCEPT !.field = "nonsense"].field = "nonsense"  OBVIOUS
<1>. QED  BY <1>1 DEF Readable, CRITERION_FIELDS

(***************************************************************************)
(* Whatever criteria a shop saves and whatever is known of an applicant:   *)
(* to ask nothing, to add a criterion, to make one unreadable or to know   *)
(* less never lets anyone in, and criteria the form builder accepts are    *)
(* read as they were saved (app/lib/forms/approval.ts).                    *)
(***************************************************************************)
THEOREM ApprovalAlwaysNarrows == EnginesSpec => []ApprovalNarrows
<1>1. QuestionAsked => ApprovalNarrows
      <2>. SUFFICES ASSUME QuestionAsked, question.engine = "approval" PROVE ApprovalNarrows
           BY DEF ApprovalNarrows
      <2>1. PICK stored \in StoredCases : stored = question.case
            BY DEF QuestionAsked
      <2>2. ApprovalAsked(stored)  BY QuestionsAssumption
      <2>. DEFINE given == stored.criteria
                  Longer(c) == [stored EXCEPT !.criteria = Append(@, c)]
                  Mangled(i) == [stored EXCEPT !.criteria[i].field = "nonsense"]
                  lets(facts) == /\ stored.enabled /\ given # << >>
                                 /\ \A i \in DOMAIN given : /\ Readable(given[i])
                                                            /\ meets(given[i], facts)
      <2>3. \A facts : Approves(stored, facts) <=> lets(facts)
            BY <2>2, ApprovesWhen DEF ApprovalAsked
      <2>4. given \in Seq(Range(given)) /\ stored.otherwise \in {"review", "reject"}
            /\ stored = [enabled |-> stored.enabled, criteria |-> given,
                         otherwise |-> stored.otherwise]
            BY <2>2 DEF ApprovalAsked
      <2>5. \A more : [stored EXCEPT !.criteria = more]
                        = [enabled |-> stored.enabled, criteria |-> more,
                           otherwise |-> stored.otherwise]
            BY <2>4
      <2>6. ASSUME NEW facts, NEW more, more \in Seq(Range(more)),
                   Approves([stored EXCEPT !.criteria = more], facts)
            PROVE  /\ stored.enabled
                   /\ \A i \in DOMAIN more : Readable(more[i]) /\ meets(more[i], facts)
            <3>. DEFINE grown == [stored EXCEPT !.criteria = more]
            <3>1. /\ grown.enabled = stored.enabled /\ grown.criteria = more
                  /\ grown.otherwise = stored.otherwise
                  BY <2>5
            <3>2. grown.enabled \in BOOLEAN  BY <3>1, <2>2 DEF ApprovalAsked
            <3>3. grown = [enabled |-> grown.enabled, criteria |-> grown.criteria,
                           otherwise |-> grown.otherwise]
                  BY <3>1, <2>5
            <3>4. grown.criteria \in Seq(Range(grown.criteria))
                  /\ grown.otherwise \in {"review", "reject"}
                  BY <3>1, <2>4, <2>6
            <3>5. Approves(grown, facts)  BY <2>6
            <3>. HIDE DEF grown
            <3>6. /\ grown.enabled
                  /\ \A i \in DOMAIN grown.criteria : /\ Readable(grown.criteria[i])
                                                      /\ meets(grown.criteria[i], facts)
                  BY <3>2, <3>3, <3>4, <3>5, ApprovesWhen
            <3>. QED  BY <3>1, <3>6
      <2>7. ASSUME NEW facts \in Applicants
            PROVE  /\ Approves(stored, facts) => given # << >>
                   /\ \A c \in Criteria : given # << >> =>
                        (Approves(Longer(c), facts) => Approves(stored, facts))
                   /\ \A i \in DOMAIN given : ~Approves(Mangled(i), facts)
                   /\ \A k \in DOMAIN Unknowns :
                        Approves(stored, [facts EXCEPT ![k] = Unknowns[k]])
                          => Approves(stored, facts)
            <3>1. Approves(stored, facts) => given # << >>  BY <2>3
            <3>2. ASSUME NEW c \in Criteria, given # << >>, Approves(Longer(c), facts)
                  PROVE  Approves(stored, facts)
                  <4>. DEFINE R == Range(given) \cup {c}
                              more == Append(given, c)
                  <4>1. given \in Seq(R) /\ c \in R
                        <5>1. \A i \in DOMAIN given : given[i] \in R  BY DEF Range
                        <5>2. Len(given) \in Nat /\ DOMAIN given = 1 .. Len(given)
                              BY <2>4
                        <5>3. given = [i \in 1 .. Len(given) |-> given[i]]  BY <2>4
                        <5>. HIDE DEF R
                        <5>4. given \in Seq(R)  BY <5>1, <5>2, <5>3
                        <5>. QED  BY <5>4 DEF R
                  <4>2. /\ DOMAIN more = 1 .. Len(given) + 1
                        /\ \A i \in 1 .. Len(given) : more[i] = given[i]
                        <5>. HIDE DEF R
                        <5>. QED  BY <4>1, AppendIs
                  <4>3. more \in Seq(Range(more))
                        <5>1. more \in Seq(R)
                              <6>. HIDE DEF R
                              <6>. QED  BY <4>1
                        <5>2. Len(more) \in Nat /\ DOMAIN more = 1 .. Len(more)
                              /\ more = [i \in 1 .. Len(more) |-> more[i]]
                              <6>. HIDE DEF R, more
                              <6>. QED  BY <5>1
                        <5>3. \A i \in DOMAIN more : more[i] \in Range(more)
                              <6>. HIDE DEF more
                              <6>. QED  BY DEF Range
                        <5>. HIDE DEF more
                        <5>. QED  BY <5>2, <5>3
                  <4>4. Approves([stored EXCEPT !.criteria = more], facts)
                        BY <3>2
                  <4>. HIDE DEF more
                  <4>5. /\ stored.enabled
                        /\ \A i \in DOMAIN more : Readable(more[i]) /\ meets(more[i], facts)
                        BY <4>3, <4>4, <2>6
                  <4>6. DOMAIN given = 1 .. Len(given) /\ Len(given) \in Nat
                        BY <2>4
                  <4>7. \A i \in DOMAIN given : Readable(given[i]) /\ meets(given[i], facts)
                        BY <4>2, <4>5, <4>6
                  <4>. QED  BY <4>5, <4>7, <3>2, <2>3
            <3>3. ASSUME NEW i \in DOMAIN given, Approves(Mangled(i), facts)
                  PROVE  FALSE
                  <4>. DEFINE odd == [given[i] EXCEPT !.field = "nonsense"]
                              more == [given EXCEPT ![i] = odd]
                  <4>1. Mangled(i) = [stored EXCEPT !.criteria = more]
                        OBVIOUS
                  <4>2. more \in Seq(Range(more))
                        <5>1. Len(given) \in Nat /\ DOMAIN given = 1 .. Len(given)
                              BY <2>4
                        <5>2. DOMAIN more = 1 .. Len(given)
                              /\ more = [j \in 1 .. Len(given) |-> more[j]]
                              BY <5>1
                        <5>. HIDE DEF more
                        <5>3. \A j \in DOMAIN more : more[j] \in Range(more)
                              BY DEF Range
                        <5>. QED  BY <5>1, <5>2, <5>3
                  <4>3. i \in DOMAIN more /\ more[i] = odd  OBVIOUS
                  <4>4. ~Readable(odd)
                        BY <2>2, NonsenseIsNotRead DEF ApprovalAsked
                  <4>. HIDE DEF more, odd
                  <4>5. \A j \in DOMAIN more : Readable(more[j])
                        BY <4>1, <4>2, <3>3, <2>6
                  <4>. QED  BY <4>3, <4>4, <4>5
            <3>4. ASSUME NEW k \in DOMAIN Unknowns,
                         Approves(stored, [facts EXCEPT ![k] = Unknowns[k]])
                  PROVE  Approves(stored, facts)
                  <4>1. lets([facts EXCEPT ![k] = Unknowns[k]])  BY <3>4, <2>3
                  <4>2. DOMAIN facts = DOMAIN Unknowns
                        BY QuestionsAssumption DEF ApplicantAsked
                  <4>3. \A i \in DOMAIN given : Readable(given[i]) /\ meets(given[i], facts)
                        BY <4>1, <4>2, UnknownMeetsLess
                  <4>4. lets(facts)  BY <4>1, <4>3
                  <4>. QED  BY <4>4, <2>3
            <3>. QED  BY <3>1, <3>2, <3>3, <3>4
      <2>8. ASSUME \A i \in DOMAIN given :
                     /\ given[i].field \in CRITERION_FIELDS
                     /\ given[i].atLeast # << >>
                     /\ given[i].op \in {"in", "not_in"},
                   validateApproval(stored)
            PROVE  readApproval(stored) = stored
            <3>1. \A i \in DOMAIN given : Readable(given[i])
                  BY <2>8 DEF validateApproval, Readable
            <3>. QED  BY <3>1, <2>2, ApprovesWhen DEF ApprovalAsked
      <2>. QED  BY <2>1, <2>7, <2>8, Zenon DEF ApprovalNarrows
<1>. QED  BY <1>1, QuestionsAreAsked, PTL

\* A fold over a set: a value for each of its subsets, from the value of the
\* subset without the element that is picked from it.
FoldsOver(W, S, F, base, pick, h) ==
    /\ h \in [SUBSET S -> W]
    /\ \A t \in SUBSET S :
         h[t] = IF t = {} THEN base ELSE F[<<pick[t], h[t \ {pick[t]}]>>]

\* A function by which such a fold is defined, of which no more is known.
StepsOver(W, S, F, base, pick, iter) ==
    /\ iter[{}] = base
    /\ \A t \in SUBSET S : t # {} /\ iter[t \ {pick[t]}] \in W =>
         iter[t] = F[<<pick[t], iter[t \ {pick[t]}]>>]

AlikeOn(S, f, g) == \A t \in SUBSET S : f[t] = g[t]

\* Fewer elements are left once one is taken away.
LEMMA OneLess ==
    ASSUME NEW t, IsFiniteSet(t), NEW x \in t, NEW k \in Nat, Cardinality(t) <= k + 1
    PROVE  IsFiniteSet(t \ {x}) /\ Cardinality(t \ {x}) <= k
<1>1. IsFiniteSet(t \ {x}) /\ Cardinality(t \ {x}) = Cardinality(t) - 1
      BY FS_RemoveElement
<1>2. Cardinality(t) \in Nat  BY FS_CardinalityType
<1>. QED  BY <1>1, <1>2

\* Over a finite set there is such a fold, whatever picks its elements.
LEMMA SetFoldIsThere ==
    ASSUME NEW W, NEW base \in W, NEW S, IsFiniteSet(S), NEW F \in [S \X W -> W],
           NEW pick, \A t \in SUBSET S : t # {} => pick[t] \in t
    PROVE  \E h : FoldsOver(W, S, F, base, pick, h)
<1>. DEFINE step(g, t) == IF t = {} THEN base ELSE F[<<pick[t], g[t \ {pick[t]}]>>]
            few(k) == {t \in SUBSET S : Cardinality(t) <= k}
            upto(g, k) == /\ g \in [SUBSET S -> W]
                          /\ \A t \in few(k) : g[t] = step(g, t)
            P == {k \in Nat : \E g : upto(g, k)}
<1>0. \A t \in SUBSET S : IsFiniteSet(t) /\ Cardinality(t) \in Nat
      BY FS_Subset, FS_CardinalityType
<1>1. 0 \in P
      <2>. DEFINE g == [t \in SUBSET S |-> base]
      <2>1. \A t \in few(0) : t = {}  BY <1>0, FS_EmptySet
      <2>2. upto(g, 0)  BY <2>1
      <2>. HIDE DEF upto, g
      <2>. QED  BY <2>2
<1>2. ASSUME NEW k \in Nat, k \in P PROVE k + 1 \in P
      <2>1. PICK g : upto(g, k)  BY <1>2
      <2>. DEFINE h == [t \in SUBSET S |-> step(g, t)]
      <2>2. \A t \in SUBSET S : t # {} => t \ {pick[t]} \in SUBSET S
            OBVIOUS
      <2>3. h \in [SUBSET S -> W]
            <3>1. \A t \in SUBSET S : step(g, t) \in W
                  BY <2>1, <2>2
            <3>. HIDE DEF step
            <3>. QED  BY <3>1
      <2>4. \A t \in few(k) : h[t] = g[t]
            <3>1. \A t \in few(k) : g[t] = step(g, t) /\ t \in SUBSET S  BY <2>1
            <3>. HIDE DEF step, few
            <3>. QED  BY <3>1
      <2>5. ASSUME NEW t \in few(k + 1) PROVE h[t] = step(h, t)
            <3>1. t \in SUBSET S /\ Cardinality(t) <= k + 1  OBVIOUS
            <3>2. CASE t = {}  BY <3>1, <3>2
            <3>3. CASE t # {}
                  <4>1. pick[t] \in t  BY <3>1, <3>3
                  <4>2. Cardinality(t \ {pick[t]}) <= k
                        BY <3>1, <4>1, <1>0, OneLess
                  <4>3. t \ {pick[t]} \in few(k)  BY <4>2, <3>1
                  <4>4. h[t \ {pick[t]}] = g[t \ {pick[t]}]  BY <4>3, <2>4
                  <4>5. h[t] = step(g, t)  BY <3>1
                  <4>. HIDE DEF h, few
                  <4>. QED  BY <4>4, <4>5
            <3>. QED  BY <3>2, <3>3
      <2>6. upto(h, k + 1)  BY <2>3, <2>5
      <2>. HIDE DEF upto, h
      <2>. QED  BY <2>6
<1>. HIDE DEF P
<1>3. \A k \in Nat : k \in P  BY <1>1, <1>2, Induction
<1>4. PICK h : upto(h, Cardinality(S))
      <2>1. Cardinality(S) \in P  BY <1>3, <1>0
      <2>. HIDE DEF upto
      <2>. QED  BY <2>1 DEF P
<1>5. few(Cardinality(S)) = SUBSET S  BY FS_Subset
<1>6. FoldsOver(W, S, F, base, pick, h)
      BY <1>4, <1>5 DEF FoldsOver
<1>. QED  BY <1>6

\* What is folded by such steps is that fold, wherever else it may be defined.
LEMMA SetFoldIs ==
    ASSUME NEW W, NEW base \in W, NEW S, IsFiniteSet(S), NEW F \in [S \X W -> W],
           NEW pick, \A t \in SUBSET S : t # {} => pick[t] \in t,
           NEW iter, StepsOver(W, S, F, base, pick, iter),
           NEW h, FoldsOver(W, S, F, base, pick, h)
    PROVE  AlikeOn(S, iter, h)
<1>. DEFINE few(k) == {t \in SUBSET S : Cardinality(t) <= k}
            P == {k \in Nat : \A t \in few(k) : iter[t] = h[t]}
<1>0. \A t \in SUBSET S : IsFiniteSet(t) /\ Cardinality(t) \in Nat
      BY FS_Subset, FS_CardinalityType
<1>1. h \in [SUBSET S -> W] /\ h[{}] = base
      /\ \A t \in SUBSET S : t # {} => h[t] = F[<<pick[t], h[t \ {pick[t]}]>>]
      BY DEF FoldsOver
<1>2. 0 \in P
      <2>1. \A t \in few(0) : t = {}  BY <1>0, FS_EmptySet
      <2>. QED  BY <2>1, <1>1 DEF StepsOver
<1>3. ASSUME NEW k \in Nat, k \in P PROVE k + 1 \in P
      <2>1. ASSUME NEW t \in few(k + 1), t # {} PROVE iter[t] = h[t]
            <3>1. t \in SUBSET S /\ Cardinality(t) <= k + 1 /\ pick[t] \in t
                  BY <2>1
            <3>2. Cardinality(t \ {pick[t]}) <= k /\ t \ {pick[t]} \in SUBSET S
                  BY <3>1, <1>0, OneLess
            <3>3. t \ {pick[t]} \in few(k)  BY <3>2
            <3>4. iter[t \ {pick[t]}] = h[t \ {pick[t]}]  BY <3>3, <1>3
            <3>5. h[t \ {pick[t]}] \in W  BY <3>2, <1>1
            <3>. QED  BY <3>1, <3>4, <3>5, <1>1, <2>1 DEF StepsOver
      <2>2. iter[{}] = h[{}]  BY <1>1 DEF StepsOver
      <2>3. \A t \in few(k + 1) : iter[t] = h[t]
            <3>. HIDE DEF few
            <3>. QED  BY <2>1, <2>2
      <2>. HIDE DEF few
      <2>. QED  BY <2>3
<1>. HIDE DEF P
<1>4. \A k \in Nat : k \in P  BY <1>2, <1>3, Induction
<1>5. ASSUME NEW t \in SUBSET S PROVE iter[t] = h[t]
      <2>1. Cardinality(t) \in P /\ t \in few(Cardinality(t))  BY <1>0, <1>4
      <2>. HIDE DEF few
      <2>. QED  BY <2>1 DEF P
<1>. QED  BY <1>5 DEF AlikeOn

(***************************************************************************)
(* Tags                                                                    *)
(***************************************************************************)
\* What may be decided: about one tag, one thing.
Decisions(T) == SUBSET [tag : T, wanted : BOOLEAN]
OnceDecided(decided) ==
    \A d, e \in decided : d.tag.name = e.tag.name => d = e
Decidable(T) == {decided \in Decisions(T) : OnceDecided(decided)}

\* To decide about a tag leaves one decision about each.
LEMMA DecideOnce ==
    ASSUME NEW T, NEW decided \in Decidable(T), NEW tag \in T, NEW wanted \in BOOLEAN
    PROVE  Decide(decided, tag, wanted) \in Decidable(T)
BY DEF Decidable, Decisions, OnceDecided, Decide, sameTag

\* To decide about tag after tag leaves one decision about each.
LEMMA DecidedOnce ==
    ASSUME NEW T, NEW base \in Decidable(T), NEW tags \in Seq(T), NEW wanted \in BOOLEAN
    PROVE  TagsDecided(base, tags, wanted) \in Decidable(T)
<1>. DEFINE n == Len(tags)
            W == Decidable(T)
            Op(v, i) == Decide(v, tags[i], wanted)
            F == [p \in W \X (1 .. n) |-> Op(p[1], p[2])]
            rec(g) == [t \in SUBSET (1 .. n) |->
                         IF t = {} THEN base ELSE Op(g[t \ {Max(t)}], Max(t))]
            iter == CHOOSE g : g = rec(g)
<1>0. n \in Nat /\ DOMAIN tags = 1 .. n  OBVIOUS
<1>1. TagsDecided(base, tags, wanted) = iter[1 .. n]
      BY <1>0 DEF TagsDecided, FoldLeft, MapThenFoldSet
<1>2. ASSUME NEW v \in W, NEW i \in 1 .. n PROVE Op(v, i) \in W
      <2>1. PICK tag \in T : tag = tags[i]
            <3>1. tags[i] \in T  BY <1>0
            <3>. QED  BY <3>1
      <2>2. Decide(v, tag, wanted) \in Decidable(T)  BY DecideOnce
      <2>. QED  BY <2>1, <2>2
<1>. HIDE DEF W
<1>3. F \in [W \X (1 .. n) -> W]
      <2>. HIDE DEF Op
      <2>. QED  BY <1>2
<1>4. PICK h : Iterates(W, n, F, base, h)
      <2>1. base \in W  BY DEF W
      <2>. HIDE DEF F, n
      <2>. QED  BY <1>0, <1>3, <2>1, IterationExists
<1>5. h = rec(h)
      <2>1. \A t \in SUBSET (1 .. n) : t # {} =>
               /\ h[t \ {Max(t)}] \in W /\ Max(t) \in 1 .. n
               /\ h[t] = F[<<h[t \ {Max(t)}], Max(t)>>]
            BY <1>0, <1>4, LargestIsThere DEF Iterates
      <2>2. h[{}] = base  BY <1>4 DEF Iterates
      <2>. HIDE DEF Op
      <2>3. \A t \in SUBSET (1 .. n) : h[t] = rec(h)[t]  BY <2>1, <2>2
      <2>. QED  BY <1>4, <2>3 DEF Iterates
<1>6. iter = rec(iter)  BY <1>5
<1>. HIDE DEF iter
<1>7. iter[{}] = base  BY <1>6
<1>. HIDE DEF Op
<1>8. \A t \in SUBSET (1 .. n) : t # {} /\ iter[t \ {Max(t)}] \in W =>
         iter[t] = F[<<iter[t \ {Max(t)}], Max(t)>>]
      BY <1>6, <1>0, LargestIsThere
<1>9. PICK w : Unrolled(w, W, n, F, base, iter)
      <2>1. base \in W  BY DEF W
      <2>. HIDE DEF F, n
      <2>. QED  BY <1>0, <1>3, <1>7, <1>8, <2>1, FoldUnrolls
<1>10. iter[1 .. n] \in W
      <2>. HIDE DEF F
      <2>. QED  BY <1>9, <1>0 DEF Unrolled
<1>. QED  BY <1>1, <1>10 DEF W

\* When a rule has spoken there is still one decision about each tag.
LEMMA SpokenOnce ==
    ASSUME NEW T, NEW decided \in Decidable(T), NEW rule,
           rule.addTags \in Seq(T), rule.removeTags \in Seq(T)
    PROVE  Spoken(decided, rule) \in Decidable(T)
<1>1. PICK added \in Decidable(T) : added = TagsDecided(decided, rule.addTags, TRUE)
      BY DecidedOnce
<1>2. TagsDecided(added, rule.removeTags, FALSE) \in Decidable(T)  BY DecidedOnce
<1>. QED  BY <1>1, <1>2 DEF Spoken

\* Rules run in an order, of which some rule is the last.
LEMMA LastIsThere ==
    ASSUME NEW rules, IsFiniteSet(rules), rules # {},
           \A r \in rules : r.id \in Int /\ r.priority \in Int,
           \A r, s \in rules : r.id = s.id => r = s
    PROVE  LastToRun(rules) \in rules
<1>. DEFINE last(t) == \E r \in t : \A s \in t : s = r \/ RunsBefore(s, r)
            few(k) == {t \in SUBSET rules : t # {} /\ Cardinality(t) <= k}
            P == {k \in Nat : \A t \in few(k) : last(t)}
<1>0. \A t \in SUBSET rules : IsFiniteSet(t) /\ Cardinality(t) \in Nat
      BY FS_Subset, FS_CardinalityType
<1>1. 0 \in P
      <2>1. few(0) = {}  BY <1>0, FS_EmptySet
      <2>. QED  BY <2>1
<1>2. ASSUME NEW k \in Nat, k \in P PROVE k + 1 \in P
      <2>1. ASSUME NEW t \in few(k + 1) PROVE last(t)
            <3>1. PICK x \in t : TRUE  BY <2>1
            <3>2. t \in SUBSET rules /\ Cardinality(t) <= k + 1  BY <2>1
            <3>3. Cardinality(t \ {x}) <= k  BY <3>1, <3>2, <1>0, OneLess
            <3>4. CASE t \ {x} = {}  BY <3>1, <3>4
            <3>5. CASE t \ {x} # {}
                  <4>1. last(t \ {x})  BY <3>2, <3>3, <3>5, <1>2
                  <4>2. PICK y \in t \ {x} : \A s \in t \ {x} : s = y \/ RunsBefore(s, y)
                        BY <4>1
                  <4>3. x.id # y.id /\ x \in rules /\ y \in rules
                        BY <3>1, <3>2, <4>2
                  <4>4. CASE RunsBefore(x, y)  BY <4>2, <4>4
                  <4>5. CASE ~RunsBefore(x, y)
                        <5>1. RunsBefore(y, x)  BY <4>3, <4>5 DEF RunsBefore
                        <5>2. \A s \in rules : RunsBefore(s, y) => RunsBefore(s, x)
                              BY <4>3, <5>1 DEF RunsBefore
                        <5>3. \A s \in t : s = x \/ RunsBefore(s, x)
                              BY <5>1, <5>2, <4>2, <3>2
                        <5>. QED  BY <5>3, <3>1
                  <4>. QED  BY <4>4, <4>5
            <3>. QED  BY <3>4, <3>5
      <2>. HIDE DEF last, few
      <2>. QED  BY <2>1
<1>. HIDE DEF P
<1>3. Cardinality(rules) \in P  BY <1>0, <1>1, <1>2, Induction
<1>4. last(rules)
      <2>1. rules \in few(Cardinality(rules))  BY <1>0
      <2>. HIDE DEF last, few
      <2>. QED  BY <2>1, <1>3 DEF P
<1>. QED  BY <1>4 DEF LastToRun

\* However many rules speak, each tag is decided once.
LEMMA AllDecideOnce ==
    ASSUME NEW rules, IsFiniteSet(rules),
           \A r \in rules : r.id \in Int /\ r.priority \in Int,
           \A r, s \in rules : r.id = s.id => r = s,
           NEW T, \A r \in rules : r.addTags \in Seq(T) /\ r.removeTags \in Seq(T)
    PROVE  AllSpoken(rules) \in Decidable(T)
<1>. DEFINE W == Decidable(T)
            F == [p \in rules \X W |-> Spoken(p[2], p[1])]
            pick == [t \in SUBSET rules |-> LastToRun(t)]
            rec(g) == [t \in SUBSET rules |->
                         IF t = {} THEN {} ELSE Spoken(g[t \ {LastToRun(t)}], LastToRun(t))]
            iter == CHOOSE g : g = rec(g)
<1>1. AllSpoken(rules) = iter[rules]
      BY DEF AllSpoken, MapThenFoldSet
<1>2. \A t \in SUBSET rules : t # {} => LastToRun(t) \in t /\ LastToRun(t) \in rules
      <2>. TAKE t \in SUBSET rules
      <2>. HAVE t # {}
      <2>1. IsFiniteSet(t)  BY FS_Subset
      <2>. QED  BY <2>1, LastIsThere
<1>3. {} \in W  BY DEF Decidable, Decisions, OnceDecided
<1>4. F \in [rules \X W -> W]
      <2>1. ASSUME NEW r \in rules, NEW v \in W PROVE Spoken(v, r) \in W
            BY SpokenOnce
      <2>. HIDE DEF W
      <2>. QED  BY <2>1
<1>. HIDE DEF W
<1>5. \A t \in SUBSET rules : t # {} => pick[t] \in t  BY <1>2
<1>6. PICK h : FoldsOver(W, rules, F, {}, pick, h)
      <2>. HIDE DEF F, pick
      <2>. QED  BY <1>3, <1>4, <1>5, SetFoldIsThere
<1>7. h = rec(h)
      <2>1. h \in [SUBSET rules -> W]  BY <1>6 DEF FoldsOver
      <2>2. h[{}] = {}  BY <1>6 DEF FoldsOver
      <2>3. ASSUME NEW t \in SUBSET rules, t # {}
            PROVE  h[t] = Spoken(h[t \ {LastToRun(t)}], LastToRun(t))
            <3>1. h[t] = F[<<pick[t], h[t \ {pick[t]}]>>]
                  <4>. HIDE DEF F, pick
                  <4>. QED  BY <1>6, <2>3 DEF FoldsOver
            <3>2. pick[t] = LastToRun(t) /\ LastToRun(t) \in rules  BY <2>3, <1>2
            <3>3. h[t \ {pick[t]}] \in W  BY <2>1
            <3>. QED  BY <3>1, <3>2, <3>3
      <2>4. \A t \in SUBSET rules : h[t] = rec(h)[t]  BY <2>2, <2>3
      <2>. QED  BY <2>1, <2>4
<1>8. iter = rec(iter)  BY <1>7
<1>. HIDE DEF iter
<1>9. iter[{}] = {}  BY <1>8
<1>10. ASSUME NEW t \in SUBSET rules, t # {}, iter[t \ {pick[t]}] \in W
       PROVE  iter[t] = F[<<pick[t], iter[t \ {pick[t]}]>>]
       <2>1. pick[t] = LastToRun(t) /\ LastToRun(t) \in rules  BY <1>10, <1>2
       <2>2. iter[t] = Spoken(iter[t \ {LastToRun(t)}], LastToRun(t))
             BY <1>8, <1>10
       <2>. QED  BY <2>1, <2>2, <1>10
<1>11. AlikeOn(rules, iter, h)
       <2>1. StepsOver(W, rules, F, {}, pick, iter)
             <3>. HIDE DEF F, pick
             <3>. QED  BY <1>9, <1>10 DEF StepsOver
       <2>. HIDE DEF F, pick
       <2>. QED  BY <2>1, <1>3, <1>4, <1>5, <1>6, SetFoldIs
<1>12. h[rules] \in W
       <2>. HIDE DEF F, pick
       <2>. QED  BY <1>6 DEF FoldsOver
<1>13. AllSpoken(rules) \in W
       <2>1. rules \in SUBSET rules  OBVIOUS
       <2>. HIDE DEF F, pick
       <2>. QED  BY <2>1, <1>1, <1>11, <1>12 DEF AlikeOn
<1>. QED  BY <1>13 DEF W

\* What a buyer is asked about that no rule on tags can change.
LEMMA BlindToTags ==
    ASSUME NEW r, \A c \in r.conditions :
                     c.field \in TAG_FIELDS /\ c.field \notin {"has_tag", "lacks_tag"},
           NEW facts, NEW tags,
           DOMAIN facts = {"lifetime_spend", "order_count", "country",
                           "days_since_last_order", "tags"}
    PROVE  matchesRule(r, [facts EXCEPT !.tags = tags]) <=> matchesRule(r, facts)
<1>. DEFINE swept == [facts EXCEPT !.tags = tags]
<1>1. /\ swept.lifetime_spend = facts.lifetime_spend
      /\ swept.order_count = facts.order_count
      /\ swept.country = facts.country
      /\ swept.days_since_last_order = facts.days_since_last_order
      /\ swept["lifetime_spend"] = facts["lifetime_spend"]
      /\ swept["order_count"] = facts["order_count"]
      OBVIOUS
<1>. HIDE DEF swept
<1>2. ASSUME NEW c \in r.conditions
      PROVE  matchesCondition(c, swept) <=> matchesCondition(c, facts)
      <2>1. c.field \in {"lifetime_spend", "order_count", "days_since_last_order", "country"}
            BY DEF TAG_FIELDS
      <2>2. CASE c.field = "lifetime_spend"  BY <1>1, <2>2 DEF matchesCondition
      <2>3. CASE c.field = "order_count"  BY <1>1, <2>3 DEF matchesCondition
      <2>4. CASE c.field = "days_since_last_order"
            BY <1>1, <2>4 DEF matchesCondition
      <2>5. CASE c.field = "country"  BY <1>1, <2>5 DEF matchesCondition
      <2>. QED  BY <2>1, <2>2, <2>3, <2>4, <2>5
<1>3. matchesRule(r, swept) <=> matchesRule(r, facts)
      BY <1>2 DEF matchesRule
<1>. QED  BY <1>3 DEF swept

(***************************************************************************)
(* However many tag rules a shop has: no tag is given twice, and rules that*)
(* ask nothing about tags find nothing to change when they run again on    *)
(* what they left (app/lib/customers/tagging.ts).                          *)
(***************************************************************************)
THEOREM TagsAlwaysSettle == EnginesSpec => []TagsSettle
<1>1. QuestionAsked => TagsSettle
      <2>. SUFFICES ASSUME QuestionAsked, question.engine = "tags" PROVE TagsSettle
           BY DEF TagsSettle
      <2>1. PICK c \in TagCases : c = question.case  BY DEF QuestionAsked
      <2>2. TagsAsked(c)  BY QuestionsAssumption
      <2>. DEFINE rules == c.rules
                  facts == c.facts
                  matched(f) == {r \in rules : r.enabled /\ matchesRule(r, f)}
                  refused(d, t) == \E e \in d : ~e.wanted /\ sameTag(e.tag, t)
                  keep(d, f) == {t \in f.tags : ~refused(d, t)}
                  add(d, f) == {e.tag : e \in {w \in d : w.wanted /\ ~Holds(keep(d, f), w.tag)}}
                  T == UNION {Range(r.addTags) \cup Range(r.removeTags) : r \in rules}
                  after == evaluateTagRules(rules, facts).tags
                  swept == [facts EXCEPT !.tags = after]
                  blind == \A r \in rules : \A k \in r.conditions :
                              k.field \notin {"has_tag", "lacks_tag"}
      <2>3. ASSUME NEW f
            PROVE  /\ evaluateTagRules(rules, f).tags
                        = keep(AllSpoken(matched(f)), f) \cup add(AllSpoken(matched(f)), f)
                   /\ evaluateTagRules(rules, f).unchanged <=>
                        /\ add(AllSpoken(matched(f)), f) = {}
                        /\ f.tags = keep(AllSpoken(matched(f)), f)
            BY DEF evaluateTagRules
      <2>4. \A r \in rules : r.addTags \in Seq(T) /\ r.removeTags \in Seq(T)
            <3>. TAKE r \in rules
            <3>1. r.addTags \in Seq(Range(r.addTags)) /\ r.removeTags \in Seq(Range(r.removeTags))
                  BY <2>2 DEF TagsAsked
            <3>2. Range(r.addTags) \subseteq T /\ Range(r.removeTags) \subseteq T
                  OBVIOUS
            <3>. HIDE DEF T, rules
            <3>. QED  BY <3>1, <3>2
      <2>5. \A f : OnceDecided(AllSpoken(matched(f)))
            <3>. TAKE f
            <3>1. matched(f) \in SUBSET rules /\ IsFiniteSet(rules)
                  BY <2>2 DEF TagsAsked
            <3>2. IsFiniteSet(matched(f))  BY <3>1, FS_Subset
            <3>3. /\ \A r \in matched(f) : r.id \in Int /\ r.priority \in Int
                  /\ \A r, s \in matched(f) : r.id = s.id => r = s
                  BY <2>2 DEF TagsAsked
            <3>4. \A r \in matched(f) : r.addTags \in Seq(T) /\ r.removeTags \in Seq(T)
                  BY <3>1, <2>4
            <3>. HIDE DEF matched, T
            <3>5. AllSpoken(matched(f)) \in Decidable(T)
                  BY <3>2, <3>3, <3>4, AllDecideOnce
            <3>. QED  BY <3>5 DEF Decidable
      <2>6. PICK d : d = AllSpoken(matched(facts))  OBVIOUS
      <2>7. /\ OnceDecided(d)
            /\ after = keep(d, facts) \cup add(d, facts)
            <3>. HIDE DEF keep, add, matched
            <3>. QED  BY <2>3, <2>5, <2>6
      <2>8. \A s, t \in facts.tags : s.name = t.name => s = t
            BY <2>2 DEF TagsAsked
      <2>9. \A s, t \in after : s.name = t.name => s = t
            <3>1. \A s, t \in keep(d, facts) : s.name = t.name => s = t  BY <2>8
            <3>2. \A s, t \in add(d, facts) : s.name = t.name => s = t
                  BY <2>7 DEF OnceDecided
            <3>3. \A s \in keep(d, facts) : \A t \in add(d, facts) : s.name # t.name
                  BY DEF Holds, sameTag
            <3>. HIDE DEF keep, add, after
            <3>. QED  BY <2>7, <3>1, <3>2, <3>3
      <2>10. ASSUME blind PROVE evaluateTagRules(rules, swept).unchanged
             <3>1. matched(swept) = matched(facts)
                   <4>1. ASSUME NEW r \in rules
                         PROVE  matchesRule(r, swept) <=> matchesRule(r, facts)
                         <5>1. \A k \in r.conditions : k.field \in TAG_FIELDS
                               BY <2>2 DEF TagsAsked
                         <5>2. DOMAIN facts = {"lifetime_spend", "order_count", "country",
                                               "days_since_last_order", "tags"}
                               BY <2>2 DEF TagsAsked
                         <5>. HIDE DEF after
                         <5>. QED  BY <5>1, <5>2, <2>10, BlindToTags
                   <4>. HIDE DEF swept
                   <4>. QED  BY <4>1
             <3>2. swept.tags = after
                   <4>1. "tags" \in DOMAIN facts  BY <2>2 DEF TagsAsked
                   <4>. HIDE DEF after
                   <4>. QED  BY <4>1
             <3>. HIDE DEF swept, after
             <3>3. AllSpoken(matched(swept)) = d  BY <3>1, <2>6
             <3>4. \A t \in after : ~refused(d, t)
                   <4>1. \A t \in add(d, facts) : ~refused(d, t)
                         BY <2>7 DEF OnceDecided, sameTag
                   <4>. HIDE DEF refused
                   <4>. QED  BY <4>1, <2>7
             <3>5. keep(d, swept) = after  BY <3>2, <3>4
             <3>6. add(d, swept) = {}
                   <4>1. \A w \in d : w.wanted => Holds(after, w.tag)
                         <5>. TAKE w \in d
                         <5>. HAVE w.wanted
                         <5>1. CASE Holds(keep(d, facts), w.tag)
                               <6>. HIDE DEF keep, add
                               <6>. QED  BY <5>1, <2>7 DEF Holds
                         <5>2. CASE ~Holds(keep(d, facts), w.tag)
                               <6>1. w.tag \in add(d, facts)  BY <5>2
                               <6>. HIDE DEF keep, add
                               <6>. QED  BY <6>1, <2>7 DEF Holds, sameTag
                         <5>. QED  BY <5>1, <5>2
                   <4>2. \A w \in d : w.wanted => Holds(keep(d, swept), w.tag)
                         BY <4>1, <3>5, Zenon
                   <4>. HIDE DEF keep
                   <4>. QED  BY <4>2
             <3>7. /\ add(AllSpoken(matched(swept)), swept) = {}
                   /\ swept.tags = keep(AllSpoken(matched(swept)), swept)
                   BY <3>2, <3>3, <3>5, <3>6
             <3>. HIDE DEF add, keep, matched
             <3>. QED  BY <2>3, <3>7
      <2>11. TagsSettle = (/\ blind => evaluateTagRules(rules, swept).unchanged
                           /\ \A s, t \in after : s.name = t.name => s = t)
             BY <2>1, Zenon DEF TagsSettle
      <2>. HIDE DEF after, swept, blind, rules
      <2>. QED  BY <2>9, <2>10, <2>11
<1>. QED  BY <1>1, QuestionsAreAsked, PTL

\* Credit is extended up to the ceiling of the level that sets the days, and the
\* headroom told is the largest cart that is extended it.
LEMMA CreditIsCapped ==
    ASSUME NEW customer, SourceAsked(customer), NEW group, SourceAsked(group),
           NEW owed \in Int, NEW late \in Nat, NEW cart \in Int
    PROVE  LET level == IF SetsDays(customer) THEN customer ELSE group
               ceiling == level[1].creditLimit
               answer(n) == checkEligibility(
                   [isAuthenticated |-> TRUE, cartTotal |-> n,
                    terms |-> termsWithLimit(customer, group),
                    outstanding |-> owed, overdueCount |-> late])
               room == answer(cart).headroom
           IN  /\ answer(cart).eligible =>
                    /\ late = 0
                    /\ ceiling # << >> /\ ceiling[1] >= 0 => owed + cart <= ceiling[1]
               /\ room # << >> /\ owed <= ceiling[1] =>
                    \A n \in Int : answer(n).eligible <=> n <= room[1]
<1>. DEFINE level == IF SetsDays(customer) THEN customer ELSE group
            terms == termsWithLimit(customer, group)
            facts(n) == [isAuthenticated |-> TRUE, cartTotal |-> n, terms |-> terms,
                         outstanding |-> owed, overdueCount |-> late]
            answer(n) == checkEligibility(facts(n))
            ceiling == level[1].creditLimit
            room == answer(cart).headroom
            Goal == /\ answer(cart).eligible =>
                         /\ late = 0
                         /\ ceiling # << >> /\ ceiling[1] >= 0 => owed + cart <= ceiling[1]
                    /\ room # << >> /\ owed <= ceiling[1] =>
                         \A n \in Int : answer(n).eligible <=> n <= room[1]
<1>. SUFFICES Goal  OBVIOUS
<1>1. ASSUME NEW reason, answer(cart) = Answer(FALSE, reason, << >>)
      PROVE  Goal
      <2>. HIDE DEF answer, ceiling
      <2>. QED  BY <1>1 DEF Answer
<1>2. CASE terms = << >>
      <2>1. answer(cart) = Answer(FALSE, "no_terms", << >>)
            BY <1>2 DEF checkEligibility
      <2>. QED  BY <1>1, <2>1
<1>3. CASE terms # << >>
      <2>1. SetsDays(customer) \/ SetsDays(group)
            BY <1>3 DEF termsWithLimit, effectiveTerms
      <2>2. SourceAsked(level) /\ level # << >>
            BY <2>1 DEF SetsDays
      <2>3. PICK d \in Bound, l \in Bound :
               level[1].days = d /\ level[1].creditLimit = l
            <3>. HIDE DEF level
            <3>1. MayBe(Int, level[1].days) /\ MayBe(Int, level[1].creditLimit)
                  BY <2>2 DEF SourceAsked
            <3>2. level[1].days \in Bound /\ level[1].creditLimit \in Bound
                  BY <3>1, BoundIs
            <3>. QED  BY <3>2
      <2>4. effectiveTerms(customer, group) = level
            BY <1>3, <2>1 DEF termsWithLimit, effectiveTerms
      <2>5. level[1].days = d /\ ceiling = l
            BY <2>3
      <2>. DEFINE cap == IF l = << >> \/ l[1] < 0 THEN << >> ELSE l
      <2>6. terms = <<[days |-> d[1], limit |-> cap]>>
            <3>. HIDE DEF level
            <3>. QED  BY <2>2, <2>4, <2>5 DEF termsWithLimit
      <2>7. CASE late > 0
            <3>1. answer(cart) = Answer(FALSE, "has_overdue", << >>)
                  BY <1>3, <2>7 DEF checkEligibility
            <3>. QED  BY <1>1, <3>1
      <2>8. CASE late = 0 /\ cap = << >>
            <3>1. answer(cart) = Answer(TRUE, "none", << >>)
                  <4>1. terms # << >> /\ terms[1].limit = << >>
                        <5>. HIDE DEF cap, terms
                        <5>. QED  BY <2>6, <2>8
                  <4>2. /\ facts(cart).isAuthenticated = TRUE /\ facts(cart).terms = terms
                        /\ ~(facts(cart).overdueCount > 0)
                        BY <2>8
                  <4>. HIDE DEF terms, facts, cap
                  <4>. QED  BY <4>1, <4>2 DEF checkEligibility
            <3>2. ~(ceiling # << >> /\ ceiling[1] >= 0)
                  <4>1. ~(l # << >> /\ l[1] >= 0)  BY <2>8 DEF Bound
                  <4>. QED  BY <2>5, <4>1
            <3>. HIDE DEF answer, ceiling
            <3>3. room = << >>  BY <3>1 DEF Answer
            <3>. HIDE DEF room
            <3>. QED  BY <2>8, <3>2, <3>3, Zenon
      <2>9. ASSUME NEW top \in Nat, late = 0, l = <<top>>, cap = <<top>>
            PROVE  Goal
            <3>1. \A n \in Int : OverLimit(facts(n)) <=> owed + n > top
                  BY <2>6, <2>9 DEF OverLimit
            <3>2. \A n \in Int : answer(n) =
                     IF owed + n > top
                     THEN Answer(FALSE, "over_credit_limit",
                                 <<IF top - owed > 0 THEN top - owed ELSE 0>>)
                     ELSE Answer(TRUE, "none", <<top - owed>>)
                  <4>1. terms # << >> /\ terms[1].limit = <<top>>  BY <2>6, <2>9
                  <4>2. ~(late > 0) /\ <<top>> # << >>  BY <2>9
                  <4>. SUFFICES ASSUME NEW n \in Int
                                PROVE  answer(n) =
                                  IF owed + n > top
                                  THEN Answer(FALSE, "over_credit_limit",
                                         <<IF top - owed > 0 THEN top - owed ELSE 0>>)
                                  ELSE Answer(TRUE, "none", <<top - owed>>)
                       OBVIOUS
                  <4>3. /\ facts(n).isAuthenticated = TRUE /\ facts(n).terms = terms
                        /\ facts(n).overdueCount = late /\ facts(n).outstanding = owed
                        OBVIOUS
                  <4>4. OverLimit(facts(n)) <=> owed + n > top  BY <3>1
                  <4>. HIDE DEF terms, facts
                  <4>5. facts(n).terms[1].limit[1] - facts(n).outstanding = top - owed
                        BY <4>1, <4>3
                  <4>. QED  BY <4>1, <4>2, <4>3, <4>4, <4>5 DEF checkEligibility
            <3>3. ceiling = <<top>>  BY <2>5, <2>9
            <3>. HIDE DEF answer, ceiling
            <3>4. \A n \in Int : answer(n).eligible <=> owed + n <= top
                  BY <3>2 DEF Answer
            <3>5. owed <= top => answer(cart).headroom = <<top - owed>>
                  BY <3>2 DEF Answer
            <3>6. answer(cart).eligible => late = 0 /\ owed + cart <= top
                  BY <2>9, <3>4
            <3>7. ASSUME owed <= top
                  PROVE  \A n \in Int : answer(n).eligible <=> n <= room[1]
                  <4>1. room[1] = top - owed  BY <3>5, <3>7
                  <4>. HIDE DEF room
                  <4>. QED  BY <3>4, <4>1
            <3>8. room # << >> /\ owed <= ceiling[1] =>
                     \A n \in Int : answer(n).eligible <=> n <= room[1]
                  <4>1. ceiling[1] = top  BY <3>3
                  <4>. QED  BY <3>7, <4>1, Zenon
            <3>9. answer(cart).eligible =>
                     late = 0 /\ (ceiling # << >> /\ ceiling[1] >= 0 => owed + cart <= ceiling[1])
                  <4>1. ceiling[1] = top  BY <3>3
                  <4>. QED  BY <3>6, <4>1, Zenon
            <3>. QED  BY <3>8, <3>9, Zenon
      <2>10. late > 0 \/ (late = 0 /\ cap = << >>)
             \/ (late = 0 /\ \E top \in Nat : l = <<top>> /\ cap = <<top>>)
             BY DEF Bound
      <2>. HIDE DEF Goal
      <2>. QED  BY <2>7, <2>8, <2>9, <2>10
<1>. QED  BY <1>2, <1>3

(***************************************************************************)
(* Sums                                                                    *)
(***************************************************************************)
\* The sum of a function over a set.
SumOver(f, S) == MapThenSumSet(LAMBDA x : f[x], S)

\* The element that a sum takes first.
First(t) == CHOOSE x \in t : TRUE

\* The sums of the subsets of a set, each from that of what its first leaves.
Summed(S, f, g) ==
    /\ g \in [SUBSET S -> Int]
    /\ \A t \in SUBSET S : g[t] = IF t = {} THEN 0 ELSE f[First(t)] + g[t \ {First(t)}]

\* A finite set of integers has such sums, and the whole is the sum over it.
LEMMA SumsAreThere ==
    ASSUME NEW S, IsFiniteSet(S), NEW f, \A x \in S : f[x] \in Int
    PROVE  \E g : Summed(S, f, g) /\ SumOver(f, S) = g[S]
<1>. DEFINE F == [p \in S \X Int |-> f[p[1]] + p[2]]
            pick == [t \in SUBSET S |-> First(t)]
            rec(g) == [t \in SUBSET S |->
                         IF t = {} THEN 0 ELSE f[First(t)] + g[t \ {First(t)}]]
            iter == CHOOSE g : g = rec(g)
<1>1. SumOver(f, S) = iter[S]
      BY DEF SumOver, MapThenSumSet, MapThenFoldSet, First
<1>2. \A t \in SUBSET S : t # {} => First(t) \in t  BY DEF First
<1>3. F \in [S \X Int -> Int]  OBVIOUS
<1>4. \A t \in SUBSET S : t # {} => pick[t] \in t  BY <1>2
<1>5. PICK h : FoldsOver(Int, S, F, 0, pick, h)
      <2>. DEFINE W == Int
                  zero == 0
      <2>1. zero \in W /\ F \in [S \X W -> W]  BY <1>3
      <2>. HIDE DEF F, pick, W, zero
      <2>2. \E h : FoldsOver(W, S, F, zero, pick, h)  BY <2>1, <1>4, SetFoldIsThere
      <2>. QED  BY <2>2 DEF W, zero
<1>6. h = rec(h) /\ h \in [SUBSET S -> Int]
      <2>1. h \in [SUBSET S -> Int]  BY <1>5 DEF FoldsOver
      <2>2. h[{}] = 0  BY <1>5 DEF FoldsOver
      <2>3. ASSUME NEW t \in SUBSET S, t # {}
            PROVE  h[t] = f[First(t)] + h[t \ {First(t)}]
            <3>1. h[t] = F[<<pick[t], h[t \ {pick[t]}]>>]
                  <4>. HIDE DEF F, pick
                  <4>. QED  BY <1>5, <2>3 DEF FoldsOver
            <3>2. pick[t] = First(t) /\ First(t) \in S  BY <2>3, <1>2
            <3>3. h[t \ {pick[t]}] \in Int  BY <2>1
            <3>. QED  BY <3>1, <3>2, <3>3
      <2>4. \A t \in SUBSET S : h[t] = rec(h)[t]  BY <2>2, <2>3
      <2>. QED  BY <2>1, <2>4
<1>7. iter = rec(iter)  BY <1>6
<1>. HIDE DEF iter
<1>8. StepsOver(Int, S, F, 0, pick, iter)
      <2>1. iter[{}] = 0  BY <1>7
      <2>2. ASSUME NEW t \in SUBSET S, t # {}, iter[t \ {pick[t]}] \in Int
            PROVE  iter[t] = F[<<pick[t], iter[t \ {pick[t]}]>>]
            <3>1. pick[t] = First(t) /\ First(t) \in S  BY <2>2, <1>2
            <3>2. iter[t] = f[First(t)] + iter[t \ {First(t)}]  BY <1>7, <2>2
            <3>. QED  BY <3>1, <3>2, <2>2
      <2>. HIDE DEF F, pick
      <2>. QED  BY <2>1, <2>2 DEF StepsOver
<1>9. AlikeOn(S, iter, h)
      <2>. DEFINE W == Int
                  zero == 0
      <2>1. zero \in W /\ F \in [S \X W -> W]  BY <1>3
      <2>. HIDE DEF F, pick
      <2>2. FoldsOver(W, S, F, zero, pick, h) /\ StepsOver(W, S, F, zero, pick, iter)
            BY <1>5, <1>8
      <2>. HIDE DEF W, zero
      <2>. QED  BY <2>1, <2>2, <1>4, SetFoldIs
<1>10. Summed(S, f, h)
       <2>1. \A t \in SUBSET S : h[t] = rec(h)[t]  BY <1>6
       <2>. QED  BY <2>1, <1>6 DEF Summed
<1>11. SumOver(f, S) = h[S]  BY <1>1, <1>9 DEF AlikeOn
<1>. QED  BY <1>10, <1>11

\* A sum does not depend on the set its subset is summed in.
LEMMA SummedAlike ==
    ASSUME NEW S, IsFiniteSet(S), NEW f, \A x \in S : f[x] \in Int,
           NEW T \in SUBSET S, NEW g, Summed(S, f, g), NEW h, Summed(T, f, h)
    PROVE  h[T] = g[T]
<1>. DEFINE few(k) == {t \in SUBSET T : Cardinality(t) <= k}
            P == {k \in Nat : \A t \in few(k) : h[t] = g[t]}
<1>0. \A t \in SUBSET T : IsFiniteSet(t) /\ Cardinality(t) \in Nat
      BY FS_Subset, FS_CardinalityType
<1>1. h[{}] = 0 /\ g[{}] = 0  BY DEF Summed
<1>2. 0 \in P
      <2>1. \A t \in few(0) : t = {}  BY <1>0, FS_EmptySet
      <2>. QED  BY <2>1, <1>1
<1>3. ASSUME NEW k \in Nat, k \in P PROVE k + 1 \in P
      <2>1. ASSUME NEW t \in few(k + 1), t # {} PROVE h[t] = g[t]
            <3>1. t \in SUBSET T /\ Cardinality(t) <= k + 1 /\ First(t) \in t
                  BY <2>1 DEF First
            <3>2. t \ {First(t)} \in few(k)  BY <3>1, <1>0, OneLess
            <3>3. h[t \ {First(t)}] = g[t \ {First(t)}]  BY <3>2, <1>3
            <3>4. /\ h[t] = f[First(t)] + h[t \ {First(t)}]
                  /\ g[t] = f[First(t)] + g[t \ {First(t)}]
                  BY <2>1, <3>1 DEF Summed
            <3>. QED  BY <3>3, <3>4
      <2>2. \A t \in few(k + 1) : h[t] = g[t]
            <3>. HIDE DEF few
            <3>. QED  BY <2>1, <1>1
      <2>. HIDE DEF few
      <2>. QED  BY <2>2
<1>. HIDE DEF P
<1>4. Cardinality(T) \in P  BY <1>0, <1>2, <1>3, Induction
<1>5. T \in few(Cardinality(T))  BY <1>0
<1>. HIDE DEF few
<1>. QED  BY <1>4, <1>5 DEF P

\* A sum, less any of its terms.
LEMMA SumSteps ==
    ASSUME NEW S, IsFiniteSet(S), NEW f, \A x \in S : f[x] \in Int
    PROVE  /\ SumOver(f, S) \in Int
           /\ S = {} => SumOver(f, S) = 0
           /\ \A x \in S : SumOver(f, S) = f[x] + SumOver(f, S \ {x})
<1>1. PICK g : Summed(S, f, g) /\ SumOver(f, S) = g[S]  BY SumsAreThere
<1>2. ASSUME NEW t \in SUBSET S PROVE SumOver(f, t) = g[t]
      <2>1. IsFiniteSet(t) /\ \A x \in t : f[x] \in Int  BY FS_Subset
      <2>2. PICK h : Summed(t, f, h) /\ SumOver(f, t) = h[t]  BY <2>1, SumsAreThere
      <2>3. h[t] = g[t]  BY <1>1, <2>2, SummedAlike
      <2>. QED  BY <2>2, <2>3
<1>. DEFINE few(k) == {t \in SUBSET S : Cardinality(t) <= k}
            P == {k \in Nat : \A t \in few(k) : \A x \in t : g[t] = f[x] + g[t \ {x}]}
<1>0. \A t \in SUBSET S : IsFiniteSet(t) /\ Cardinality(t) \in Nat
      BY FS_Subset, FS_CardinalityType
<1>3. 0 \in P
      <2>1. \A t \in few(0) : t = {}  BY <1>0, FS_EmptySet
      <2>. QED  BY <2>1
<1>4. ASSUME NEW k \in Nat, k \in P PROVE k + 1 \in P
      <2>1. ASSUME NEW t \in few(k + 1), NEW x \in t PROVE g[t] = f[x] + g[t \ {x}]
            <3>. DEFINE y == First(t)
            <3>1. t \in SUBSET S /\ Cardinality(t) <= k + 1 /\ y \in t
                  BY <2>1 DEF First
            <3>2. t \ {y} \in few(k) /\ t \ {x} \in few(k)  BY <3>1, <1>0, OneLess
            <3>. HIDE DEF y, few
            <3>3. g[t] = f[y] + g[t \ {y}]  BY <3>1, <1>1 DEF Summed, y
            <3>4. CASE x = y  BY <3>3, <3>4
            <3>5. CASE x # y
                  <4>1. g[t \ {y}] = f[x] + g[(t \ {y}) \ {x}]  BY <3>2, <3>5, <1>4
                  <4>2. g[t \ {x}] = f[y] + g[(t \ {x}) \ {y}]
                        BY <3>1, <3>2, <3>5, <1>4
                  <4>3. PICK both \in SUBSET S :
                            both = (t \ {y}) \ {x} /\ both = (t \ {x}) \ {y}
                        BY <3>1
                  <4>4. g[both] \in Int /\ f[x] \in Int /\ f[y] \in Int
                        BY <3>1, <4>3, <1>1 DEF Summed
                  <4>5. PICK a \in Int, b \in Int, c \in Int :
                            a = f[x] /\ b = f[y] /\ c = g[both]
                        BY <4>4
                  <4>6. g[t \ {y}] = a + c /\ g[t \ {x}] = b + c
                        BY <4>1, <4>2, <4>3, <4>5
                  <4>7. b + (a + c) = a + (b + c)  OBVIOUS
                  <4>. QED  BY <3>3, <4>5, <4>6, <4>7
            <3>. QED  BY <3>4, <3>5
      <2>. HIDE DEF few
      <2>. QED  BY <2>1
<1>. HIDE DEF P
<1>5. Cardinality(S) \in P  BY <1>0, <1>3, <1>4, Induction
<1>6. S \in few(Cardinality(S))  BY <1>0
<1>. HIDE DEF few
<1>7. \A x \in S : g[S] = f[x] + g[S \ {x}]  BY <1>5, <1>6 DEF P
<1>8. \A x \in S : SumOver(f, S \ {x}) = g[S \ {x}]  BY <1>2
<1>9. g[S] \in Int /\ (S = {} => g[S] = 0)  BY <1>1 DEF Summed
<1>. QED  BY <1>1, <1>7, <1>8, <1>9

\* The sum of two sets that have nothing in common, or of one of which some terms
\* are left out.
LEMMA SumsAddUp ==
    ASSUME NEW A, NEW B, IsFiniteSet(A), IsFiniteSet(B), A \cap B = {},
           NEW f, \A x \in A \cup B : f[x] \in Int
    PROVE  SumOver(f, A \cup B) = SumOver(f, A) + SumOver(f, B)
<1>. DEFINE few(k) == {t \in SUBSET A : Cardinality(t) <= k}
            P == {k \in Nat : \A t \in few(k) :
                     SumOver(f, t \cup B) = SumOver(f, t) + SumOver(f, B)}
<1>0. \A t \in SUBSET A : IsFiniteSet(t) /\ Cardinality(t) \in Nat
      BY FS_Subset, FS_CardinalityType
<1>1. \A t \in SUBSET A : IsFiniteSet(t \cup B)  BY <1>0, FS_Union
<1>2. SumOver(f, B) \in Int /\ SumOver(f, {}) = 0
      <2>1. IsFiniteSet({}) /\ \A x \in {} : f[x] \in Int  BY FS_EmptySet
      <2>2. SumOver(f, {}) = 0  BY <2>1, SumSteps
      <2>. QED  BY <2>2, SumSteps
<1>3. 0 \in P
      <2>1. \A t \in few(0) : t = {}  BY <1>0, FS_EmptySet
      <2>2. {} \cup B = B  OBVIOUS
      <2>. QED  BY <2>1, <2>2, <1>2
<1>4. ASSUME NEW k \in Nat, k \in P PROVE k + 1 \in P
      <2>1. ASSUME NEW t \in few(k + 1)
            PROVE  SumOver(f, t \cup B) = SumOver(f, t) + SumOver(f, B)
            <3>1. t \in SUBSET A /\ Cardinality(t) <= k + 1  BY <2>1
            <3>2. CASE t = {}
                  <4>1. t \cup B = B  BY <3>2
                  <4>. QED  BY <3>2, <4>1, <1>2
            <3>3. CASE t # {}
                  <4>1. PICK x \in t : TRUE  BY <3>3
                  <4>2. t \ {x} \in few(k)  BY <3>1, <4>1, <1>0, OneLess
                  <4>3. SumOver(f, (t \ {x}) \cup B) = SumOver(f, t \ {x}) + SumOver(f, B)
                        BY <4>2, <1>4
                  <4>4. (t \cup B) \ {x} = (t \ {x}) \cup B /\ x \in t \cup B
                        BY <3>1, <4>1
                  <4>5. SumOver(f, t) = f[x] + SumOver(f, t \ {x})
                        <5>1. IsFiniteSet(t) /\ \A y \in t : f[y] \in Int
                              BY <3>1, <1>0
                        <5>. QED  BY <5>1, <4>1, SumSteps
                  <4>6. SumOver(f, t \cup B) = f[x] + SumOver(f, (t \ {x}) \cup B)
                        <5>1. IsFiniteSet(t \cup B) /\ \A y \in t \cup B : f[y] \in Int
                              BY <3>1, <1>1
                        <5>2. PICK all : all = t \cup B  OBVIOUS
                        <5>3. SumOver(f, all) = f[x] + SumOver(f, all \ {x})
                              BY <5>1, <5>2, <4>4, SumSteps
                        <5>. QED  BY <5>2, <5>3, <4>4
                  <4>7. f[x] \in Int  BY <3>1, <4>1
                  <4>8. SumOver(f, t \ {x}) \in Int
                        <5>1. PICK less : less = t \ {x}  OBVIOUS
                        <5>2. IsFiniteSet(less) /\ \A y \in less : f[y] \in Int
                              BY <5>1, <3>1, <1>0
                        <5>. QED  BY <5>1, <5>2, SumSteps
                  <4>9. PICK a \in Int, b \in Int, c \in Int :
                           a = f[x] /\ b = SumOver(f, t \ {x}) /\ c = SumOver(f, B)
                        BY <4>7, <4>8, <1>2
                  <4>10. a + (b + c) = (a + b) + c  OBVIOUS
                  <4>. QED  BY <4>3, <4>5, <4>6, <4>9, <4>10
            <3>. QED  BY <3>2, <3>3
      <2>. HIDE DEF few
      <2>. QED  BY <2>1
<1>. HIDE DEF P
<1>5. Cardinality(A) \in P  BY <1>0, <1>3, <1>4, Induction
<1>6. A \in few(Cardinality(A))  BY <1>0
<1>. HIDE DEF few
<1>. QED  BY <1>5, <1>6 DEF P

\* A sum of what is more than nothing is more than nothing once it has a term.
LEMMA SumsArePositive ==
    ASSUME NEW S, IsFiniteSet(S), NEW f, \A x \in S : f[x] \in Nat \ {0}
    PROVE  SumOver(f, S) \in Nat /\ (S = {} <=> SumOver(f, S) = 0)
<1>. DEFINE few(k) == {t \in SUBSET S : Cardinality(t) <= k}
            right(t) == SumOver(f, t) \in Nat /\ (t = {} <=> SumOver(f, t) = 0)
            P == {k \in Nat : \A t \in few(k) : right(t)}
<1>0. \A t \in SUBSET S : IsFiniteSet(t) /\ Cardinality(t) \in Nat
      BY FS_Subset, FS_CardinalityType
<1>1. right({})
      <2>1. IsFiniteSet({}) /\ \A x \in {} : f[x] \in Int  BY FS_EmptySet
      <2>. QED  BY <2>1, SumSteps
<1>2. 0 \in P
      <2>1. \A t \in few(0) : t = {}  BY <1>0, FS_EmptySet
      <2>. HIDE DEF right
      <2>. QED  BY <2>1, <1>1
<1>3. ASSUME NEW k \in Nat, k \in P PROVE k + 1 \in P
      <2>1. ASSUME NEW t \in few(k + 1), t # {} PROVE right(t)
            <3>1. PICK x \in t : TRUE  BY <2>1
            <3>2. t \in SUBSET S /\ Cardinality(t) <= k + 1  BY <2>1
            <3>3. t \ {x} \in few(k)  BY <3>1, <3>2, <1>0, OneLess
            <3>4. SumOver(f, t \ {x}) \in Nat  BY <3>3, <1>3
            <3>5. SumOver(f, t) = f[x] + SumOver(f, t \ {x})
                  <4>1. IsFiniteSet(t) /\ \A y \in t : f[y] \in Int  BY <3>2, <1>0
                  <4>. QED  BY <4>1, <3>1, SumSteps
            <3>6. PICK a \in Nat \ {0}, b \in Nat : a = f[x] /\ b = SumOver(f, t \ {x})
                  BY <3>1, <3>2, <3>4
            <3>7. SumOver(f, t) = a + b  BY <3>5, <3>6
            <3>. QED  BY <3>7, <2>1
      <2>. HIDE DEF few, right
      <2>2. \A t \in few(k + 1) : right(t)  BY <2>1, <1>1
      <2>. QED  BY <2>2
<1>. HIDE DEF P
<1>4. Cardinality(S) \in P  BY <1>0, <1>2, <1>3, Induction
<1>5. S \in few(Cardinality(S))  BY <1>0
<1>. HIDE DEF few
<1>. QED  BY <1>4, <1>5 DEF P

\* What is owed on some invoices is a sum of what is owed on each.
LEMMA TotalIs ==
    ASSUME NEW invoices, NEW S, NEW f, \A i \in S : f[i] = balanceOf(invoices[i])
    PROVE  Total(invoices, S) = SumOver(f, S)
<1>. DEFINE ofInvoices(g) == [t \in SUBSET S |->
                IF t = {} THEN 0 ELSE balanceOf(invoices[First(t)]) + g[t \ {First(t)}]]
            ofThese(g) == [t \in SUBSET S |->
                IF t = {} THEN 0 ELSE f[First(t)] + g[t \ {First(t)}]]
<1>1. Total(invoices, S) = (CHOOSE g : g = ofInvoices(g))[S]
      BY DEF Total, MapThenSumSet, MapThenFoldSet, First
<1>2. SumOver(f, S) = (CHOOSE g : g = ofThese(g))[S]
      BY DEF SumOver, MapThenSumSet, MapThenFoldSet, First
<1>3. \A t \in SUBSET S : t # {} => First(t) \in S  BY DEF First
<1>4. \A g : ofInvoices(g) = ofThese(g)  BY <1>3
<1>. HIDE DEF ofInvoices, ofThese
<1>5. (CHOOSE g : g = ofInvoices(g)) = (CHOOSE g : g = ofThese(g))  BY <1>4
<1>. QED  BY <1>1, <1>2, <1>5

\* A ledger's buckets share out what is outstanding; what is not current is overdue,
\* and is counted so.
LEMMA LedgerAddsUp ==
    ASSUME NEW invoices, invoices \in Seq(Range(invoices)), NEW now \in Int,
           \A i \in DOMAIN invoices : InvoiceAsked(invoices[i])
    PROVE  LET ledger == summariseAging(invoices, now)
           IN  /\ ledger.outstanding \in Nat /\ ledger.overdueCount \in Nat
               /\ MapThenSumSet(LAMBDA b : ledger.buckets[b], AGING_BUCKETS)
                    = ledger.outstanding
               /\ ledger.overdue = ledger.outstanding - ledger.buckets["current"]
               /\ ledger.overdue \in Nat
               /\ ledger.overdueCount > 0 <=> ledger.overdue > 0
<1>. DEFINE open == {i \in DOMAIN invoices : ~isSettled(invoices[i])}
            within(b) == {i \in open : bucketFor(invoices[i].dueAt, now) = b}
            late == open \ within("current")
            owed == [i \in open |-> balanceOf(invoices[i])]
            sum(s) == SumOver(owed, s)
            buckets == [b \in AGING_BUCKETS |-> sum(within(b))]
            ledger == summariseAging(invoices, now)
<1>1. IsFiniteSet(open)
      <2>1. PICK n \in Nat : DOMAIN invoices = 1 .. n  OBVIOUS
      <2>2. IsFiniteSet(1 .. n)  BY FS_Interval
      <2>. QED  BY <2>1, <2>2, FS_Subset
<1>2. \A i \in open : owed[i] \in Nat \ {0}
      <2>. TAKE i \in open
      <2>1. PICK a \in Int, p \in Int : a = invoices[i].amount /\ p = invoices[i].paid
            BY DEF InvoiceAsked
      <2>2. balanceOf(invoices[i]) = IF a > p THEN a - p ELSE 0
            BY <2>1 DEF balanceOf
      <2>3. balanceOf(invoices[i]) # 0  BY DEF isSettled
      <2>4. balanceOf(invoices[i]) \in Nat \ {0}  BY <2>1, <2>2, <2>3
      <2>. QED  BY <2>4
<1>3. \A s \in SUBSET open : Total(invoices, s) = sum(s) /\ IsFiniteSet(s)
      <2>. TAKE s \in SUBSET open
      <2>1. \A i \in s : owed[i] = balanceOf(invoices[i])  OBVIOUS
      <2>2. IsFiniteSet(s)  BY <1>1, FS_Subset
      <2>. HIDE DEF owed, open
      <2>. QED  BY <2>1, <2>2, TotalIs
<1>4. /\ ledger.outstanding = sum(open)
      /\ ledger.overdue = sum(late)
      /\ ledger.overdueCount = Cardinality(late)
      /\ ledger.buckets = buckets
      <2>1. open \in SUBSET open /\ late \in SUBSET open
            /\ \A b \in AGING_BUCKETS : within(b) \in SUBSET open
            OBVIOUS
      <2>2. ledger = [buckets |-> [b \in AGING_BUCKETS |-> Total(invoices, within(b))],
                      outstanding |-> Total(invoices, open),
                      overdue |-> Total(invoices, late),
                      overdueCount |-> Cardinality(late)]
            BY DEF summariseAging
      <2>. HIDE DEF open, within, late, owed, sum
      <2>. QED  BY <2>1, <2>2, <1>3
<1>5. \A s \in SUBSET open : sum(s) \in Nat /\ (s = {} <=> sum(s) = 0)
      <2>. TAKE s \in SUBSET open
      <2>1. \A i \in s : owed[i] \in Nat \ {0}  BY <1>2
      <2>2. IsFiniteSet(s)  BY <1>3
      <2>. HIDE DEF owed
      <2>. QED  BY <2>1, <2>2, SumsArePositive
<1>6. \A s, t \in SUBSET open : s \cap t = {} => sum(s \cup t) = sum(s) + sum(t)
      <2>. TAKE s, t \in SUBSET open
      <2>1. \A i \in s \cup t : owed[i] \in Int  BY <1>2
      <2>2. IsFiniteSet(s) /\ IsFiniteSet(t)  BY <1>3
      <2>. HIDE DEF owed
      <2>. QED  BY <2>1, <2>2, SumsAddUp
<1>7. /\ within("current") \in SUBSET open /\ within("days_1_15") \in SUBSET open
      /\ within("days_16_30") \in SUBSET open /\ within("days_30_plus") \in SUBSET open
      /\ late \in SUBSET open
      /\ open = within("current") \cup late /\ within("current") \cap late = {}
      OBVIOUS
<1>8. /\ late = within("days_1_15") \cup (within("days_16_30") \cup within("days_30_plus"))
      /\ within("days_1_15") \cap (within("days_16_30") \cup within("days_30_plus")) = {}
      /\ within("days_16_30") \cap within("days_30_plus") = {}
      <2>1. \A i \in open : bucketFor(invoices[i].dueAt, now) \in AGING_BUCKETS
            BY DEF bucketFor, AGING_BUCKETS
      <2>. HIDE DEF open
      <2>. QED  BY <2>1 DEF AGING_BUCKETS
<1>. HIDE DEF open, within, late, owed, sum
<1>9. PICK c \in Nat, d1 \in Nat, d16 \in Nat, d30 \in Nat :
         /\ c = sum(within("current")) /\ d1 = sum(within("days_1_15"))
         /\ d16 = sum(within("days_16_30")) /\ d30 = sum(within("days_30_plus"))
      BY <1>5, <1>7
<1>10. sum(within("days_16_30") \cup within("days_30_plus")) = d16 + d30
       BY <1>6, <1>7, <1>8, <1>9
<1>11. sum(late) = d1 + (d16 + d30)
       <2>1. PICK s \in SUBSET open, t \in SUBSET open :
                /\ s = within("days_1_15")
                /\ t = within("days_16_30") \cup within("days_30_plus")
             BY <1>7
       <2>2. s \cap t = {} /\ late = s \cup t  BY <2>1, <1>8
       <2>3. sum(late) = sum(s) + sum(t)  BY <2>2, <1>6
       <2>4. sum(s) = d1 /\ sum(t) = d16 + d30  BY <2>1, <1>9, <1>10
       <2>. QED  BY <2>3, <2>4
<1>12. sum(open) = c + (d1 + (d16 + d30))
       <2>1. PICK s \in SUBSET open, t \in SUBSET open : s = within("current") /\ t = late
             BY <1>7
       <2>2. s \cap t = {} /\ open = s \cup t  BY <2>1, <1>7
       <2>3. sum(s \cup t) = sum(s) + sum(t)  BY <2>2, <1>6
       <2>4. sum(open) = sum(s) + sum(t)  BY <2>2, <2>3
       <2>5. sum(s) = c /\ sum(t) = d1 + (d16 + d30)  BY <2>1, <1>9, <1>11
       <2>. QED  BY <2>4, <2>5
<1>13. SumOver(buckets, AGING_BUCKETS) = c + (d1 + (d16 + d30))
       <2>1. /\ buckets["current"] = c /\ buckets["days_1_15"] = d1
             /\ buckets["days_16_30"] = d16 /\ buckets["days_30_plus"] = d30
             BY <1>9 DEF AGING_BUCKETS
       <2>. HIDE DEF buckets
       <2>. DEFINE A == {"current", "days_1_15", "days_16_30", "days_30_plus"}
                   B == {"days_1_15", "days_16_30", "days_30_plus"}
                   C == {"days_16_30", "days_30_plus"}
                   D == {"days_30_plus"}
       <2>2. /\ A \ {"current"} = B /\ B \ {"days_1_15"} = C
             /\ C \ {"days_16_30"} = D /\ D \ {"days_30_plus"} = {}
             OBVIOUS
       <2>3. \A x \in A : buckets[x] \in Int  BY <2>1
       <2>4. IsFiniteSet({}) /\ IsFiniteSet(D) /\ IsFiniteSet(C) /\ IsFiniteSet(B) /\ IsFiniteSet(A)
             <3>1. IsFiniteSet({})  BY FS_EmptySet
             <3>2. IsFiniteSet({} \cup {"days_30_plus"})  BY <3>1, FS_AddElement
             <3>3. D = {} \cup {"days_30_plus"} /\ C = D \cup {"days_16_30"}
                   /\ B = C \cup {"days_1_15"} /\ A = B \cup {"current"}
                   OBVIOUS
             <3>4. IsFiniteSet(D)  BY <3>2, <3>3
             <3>. HIDE DEF A, B, C, D
             <3>5. IsFiniteSet(C)  BY <3>4, <3>3, FS_AddElement
             <3>6. IsFiniteSet(B)  BY <3>5, <3>3, FS_AddElement
             <3>7. IsFiniteSet(A)  BY <3>6, <3>3, FS_AddElement
             <3>. QED  BY <3>1, <3>4, <3>5, <3>6, <3>7
       <2>5. /\ "current" \in A /\ "days_1_15" \in B /\ "days_16_30" \in C
             /\ "days_30_plus" \in D /\ B \subseteq A /\ C \subseteq A /\ D \subseteq A
             OBVIOUS
       <2>. HIDE DEF A, B, C, D
       <2>6. \A x \in B : buckets[x] \in Int  BY <2>3, <2>5
       <2>7. \A x \in C : buckets[x] \in Int  BY <2>3, <2>5
       <2>8. \A x \in D : buckets[x] \in Int  BY <2>3, <2>5
       <2>9. SumOver(buckets, A) = buckets["current"] + SumOver(buckets, A \ {"current"})
             BY <2>3, <2>4, <2>5, SumSteps
       <2>10. SumOver(buckets, B) = buckets["days_1_15"] + SumOver(buckets, B \ {"days_1_15"})
             BY <2>4, <2>5, <2>6, SumSteps
       <2>11. SumOver(buckets, C) = buckets["days_16_30"] + SumOver(buckets, C \ {"days_16_30"})
             BY <2>4, <2>5, <2>7, SumSteps
       <2>12. SumOver(buckets, D) = buckets["days_30_plus"] + SumOver(buckets, D \ {"days_30_plus"})
             BY <2>4, <2>5, <2>8, SumSteps
       <2>13. SumOver(buckets, {}) = 0
             <3>1. \A x \in {} : buckets[x] \in Int  OBVIOUS
             <3>. QED  BY <3>1, <2>4, SumSteps
       <2>14. SumOver(buckets, D) = d30
              <3>1. SumOver(buckets, D \ {"days_30_plus"}) = 0  BY <2>2, <2>13
              <3>. QED  BY <3>1, <2>1, <2>12
       <2>15. SumOver(buckets, C) = d16 + d30  BY <2>1, <2>2, <2>11, <2>14
       <2>16. SumOver(buckets, B) = d1 + (d16 + d30)  BY <2>1, <2>2, <2>10, <2>15
       <2>17. SumOver(buckets, A) = c + (d1 + (d16 + d30))
              BY <2>1, <2>2, <2>9, <2>16
       <2>. QED  BY <2>17 DEF A, AGING_BUCKETS
<1>14. ledger.buckets["current"] = c
       BY <1>4, <1>9 DEF AGING_BUCKETS
<1>15. MapThenSumSet(LAMBDA b : ledger.buckets[b], AGING_BUCKETS)
         = SumOver(ledger.buckets, AGING_BUCKETS)
       BY DEF SumOver
<1>16. late = {} <=> Cardinality(late) = 0
       BY <1>3, <1>7, FS_EmptySet
<1>17. Cardinality(late) \in Nat  BY <1>3, <1>7, FS_CardinalityType
<1>18. sum(late) \in Nat /\ (late = {} <=> sum(late) = 0)  BY <1>5, <1>7
<1>. HIDE DEF ledger, buckets
<1>19. /\ ledger.outstanding \in Nat /\ ledger.overdue \in Nat
       /\ SumOver(ledger.buckets, AGING_BUCKETS) = ledger.outstanding
       /\ ledger.overdue = ledger.outstanding - ledger.buckets["current"]
       BY <1>4, <1>9, <1>11, <1>12, <1>13, <1>14
<1>20. ledger.overdueCount \in Nat /\ (ledger.overdueCount > 0 <=> ledger.overdue > 0)
       BY <1>4, <1>16, <1>17, <1>18
<1>. QED  BY <1>15, <1>19, <1>20 DEF ledger

(***************************************************************************)
(* Whatever invoices a buyer owes, and whoever's terms they have: what     *)
(* checkout extends stops at the ceiling of the level whose days apply and *)
(* while anything is late, is told with the headroom that decides it, and  *)
(* the aging buckets share out what is outstanding (net-terms/src).        *)
(***************************************************************************)
THEOREM TermsAlwaysAgree == EnginesSpec => []TermsAgree
<1>1. QuestionAsked => TermsAgree
      <2>. SUFFICES ASSUME QuestionAsked, question.engine = "terms" PROVE TermsAgree
           BY DEF TermsAgree
      <2>. DEFINE c == question.case
                  ledger == summariseAging(c.invoices, c.now)
      <2>1. TermsAsked(c)  BY QuestionsAssumption DEF QuestionAsked
      <2>2. /\ SourceAsked(c.customer) /\ SourceAsked(c.group)
            /\ c.invoices \in Seq(Range(c.invoices))
            /\ \A i \in DOMAIN c.invoices : InvoiceAsked(c.invoices[i])
            /\ c.now \in Int /\ c.cart \in Int
            BY <2>1 DEF TermsAsked
      <2>. HIDE DEF c
      <2>4. /\ ledger.outstanding \in Nat /\ ledger.overdueCount \in Nat
            /\ MapThenSumSet(LAMBDA b : ledger.buckets[b], AGING_BUCKETS)
                 = ledger.outstanding
            /\ ledger.overdue = ledger.outstanding - ledger.buckets["current"]
            /\ ledger.overdue \in Nat
            /\ ledger.overdueCount > 0 <=> ledger.overdue > 0
            <3>. DEFINE invoices == c.invoices
                        now == c.now
            <3>1. now \in Int  BY <2>2
            <3>2. invoices \in Seq(Range(invoices))
                  /\ \A i \in DOMAIN invoices : InvoiceAsked(invoices[i])
                  BY <2>2
            <3>. HIDE DEF invoices, now
            <3>3. LET l == summariseAging(invoices, now)
                  IN  /\ l.outstanding \in Nat /\ l.overdueCount \in Nat
                      /\ MapThenSumSet(LAMBDA b : l.buckets[b], AGING_BUCKETS)
                           = l.outstanding
                      /\ l.overdue = l.outstanding - l.buckets["current"]
                      /\ l.overdue \in Nat
                      /\ l.overdueCount > 0 <=> l.overdue > 0
                  BY <3>1, <3>2, LedgerAddsUp
            <3>. QED  BY <3>3, Zenon DEF invoices, now
      <2>. HIDE DEF ledger
      <2>. DEFINE level == IF SetsDays(c.customer) THEN c.customer ELSE c.group
                  ceiling == level[1].creditLimit
                  answer(n) == checkEligibility(
                      [isAuthenticated |-> TRUE, cartTotal |-> n,
                       terms |-> termsWithLimit(c.customer, c.group),
                       outstanding |-> ledger.outstanding,
                       overdueCount |-> ledger.overdueCount])
                  room == answer(c.cart).headroom
      <2>5. /\ answer(c.cart).eligible =>
                 /\ ledger.overdueCount = 0
                 /\ ceiling # << >> /\ ceiling[1] >= 0 =>
                      ledger.outstanding + c.cart <= ceiling[1]
            /\ room # << >> /\ ledger.outstanding <= ceiling[1] =>
                 \A n \in Int : answer(n).eligible <=> n <= room[1]
            <3>1. PICK cart \in Int, owed \in Int, late \in Nat :
                     cart = c.cart /\ owed = ledger.outstanding /\ late = ledger.overdueCount
                  BY <2>2, <2>4
            <3>2. PICK customer, group :
                     /\ customer = c.customer /\ group = c.group
                     /\ SourceAsked(customer) /\ SourceAsked(group)
                  BY <2>2
            <3>. QED  BY <3>1, <3>2, CreditIsCapped
      <2>6. answer(c.cart).eligible => ledger.overdue = 0  BY <2>4, <2>5
      <2>7. room # << >> => room[1] \in Int
            <3>1. PICK owed \in Int, cart \in Int : owed = ledger.outstanding /\ cart = c.cart
                  BY <2>2, <2>4
            <3>. DEFINE terms == termsWithLimit(c.customer, c.group)
                        told == answer(c.cart)
            <3>2. terms # << >> /\ terms[1].limit # << >> => terms[1].limit[1] \in Int
                  <4>. SUFFICES ASSUME terms # << >>, terms[1].limit # << >>
                                PROVE  terms[1].limit[1] \in Int
                       OBVIOUS
                  <4>1. PICK own : own = effectiveTerms(c.customer, c.group)  OBVIOUS
                  <4>2. own # << >> /\ SourceAsked(own)
                        BY <4>1, <2>2 DEF termsWithLimit, effectiveTerms
                  <4>3. own[1].creditLimit \in Bound
                        BY <4>2, BoundIs DEF SourceAsked
                  <4>4. terms[1].limit = IF own[1].creditLimit = << >> \/ own[1].creditLimit[1] < 0
                                         THEN << >> ELSE own[1].creditLimit
                        BY <4>1, <4>2 DEF termsWithLimit
                  <4>. QED  BY <4>3, <4>4 DEF Bound
            <3>3. \/ told.headroom = << >>
                  \/ /\ terms # << >> /\ terms[1].limit # << >>
                     /\ \/ told.headroom = <<terms[1].limit[1] - owed>>
                        \/ told.headroom = <<0>>
                  BY <3>1 DEF checkEligibility, Answer
            <3>. HIDE DEF told, terms
            <3>4. told.headroom # << >> => told.headroom[1] \in Int
                  BY <3>1, <3>2, <3>3
            <3>. QED  BY <3>4 DEF told
      <2>8. room # << >> /\ ledger.outstanding <= ceiling[1] =>
                 \A cart \in {0, room[1], room[1] + 1} :
                     answer(cart).eligible <=> cart <= room[1]
            <3>. HIDE DEF answer, room, ceiling
            <3>. QED  BY <2>5, <2>7
      <2>. HIDE DEF answer, room, ceiling
      <2>9. /\ answer(c.cart).eligible =>
                 /\ ledger.overdue = 0
                 /\ ceiling # << >> /\ ceiling[1] >= 0 =>
                      ledger.outstanding + c.cart <= ceiling[1]
            /\ room # << >> /\ ledger.outstanding <= ceiling[1] =>
                 \A cart \in {0, room[1], room[1] + 1} :
                     answer(cart).eligible <=> cart <= room[1]
            /\ MapThenSumSet(LAMBDA b : ledger.buckets[b], AGING_BUCKETS)
                 = ledger.outstanding
            /\ ledger.overdue = ledger.outstanding - ledger.buckets["current"]
            /\ ledger.overdueCount > 0 <=> ledger.overdue > 0
            BY <2>4, <2>5, <2>6, <2>8, Zenon
      <2>. QED  BY <2>9, Zenon DEF TermsAgree, answer, room, ceiling, c, ledger
<1>. QED  BY <1>1, QuestionsAreAsked, PTL

(***************************************************************************)
(* What is charged                                                         *)
(***************************************************************************)
\* Rules of which all can be read are the ones that were published.
LEMMA RulesReadBack ==
    ASSUME NEW published, published.v \in RULESET_VERSIONS,
           published.rules \in Seq(Range(published.rules)),
           NEW R, NEW rules \in Seq(R), Len(rules) = Len(published.rules),
           \A i \in DOMAIN rules : readRule(published.rules[i]) = <<rules[i]>>
    PROVE  deserializeRuleset(<<published>>) = rules
<1>. DEFINE wires == published.rules
            n == Len(wires)
            rec(g) == [t \in SUBSET (1 .. n) |->
                         IF t = {} THEN << >>
                         ELSE g[t \ {Max(t)}] \o readRule(wires[Max(t)])]
            iter == CHOOSE g : g = rec(g)
<1>0. n \in Nat /\ DOMAIN wires = 1 .. n /\ Len(rules) = n
      /\ \A i \in 1 .. n : rules[i] \in R /\ readRule(wires[i]) = <<rules[i]>>
      OBVIOUS
<1>1. deserializeRuleset(<<published>>) = iter[1 .. n]
      <2>1. <<published>> # << >> /\ <<published>>[1] = published  OBVIOUS
      <2>2. deserializeRuleset(<<published>>)
              = FoldLeft(LAMBDA read, wire : read \o readRule(wire), << >>, wires)
            BY <2>1 DEF deserializeRuleset, IsThere, Nothing
      <2>. QED  BY <1>0, <2>2 DEF FoldLeft, MapThenFoldSet
<1>2. \A v \in Seq(R), i \in 1 .. n : v \o readRule(wires[i]) = Append(v, rules[i])
      <2>. TAKE v \in Seq(R), i \in 1 .. n
      <2>1. rules[i] \in R /\ readRule(wires[i]) = <<rules[i]>>  BY <1>0
      <2>. QED  BY <2>1
<1>3. PICK h : Added(h, rules, R)  BY AddsUp
<1>. HIDE DEF n, wires
<1>4. h = rec(h)
      <2>1. h[{}] = << >> /\ h \in [SUBSET (1 .. n) -> Seq(R)]
            BY <1>0, <1>3 DEF Added
      <2>2. \A t \in SUBSET (1 .. n) : t # {} =>
               h[t] = h[t \ {Max(t)}] \o readRule(wires[Max(t)])
            <3>. TAKE t \in SUBSET (1 .. n)
            <3>. HAVE t # {}
            <3>1. /\ h[t \ {Max(t)}] \in Seq(R) /\ Max(t) \in 1 .. n
                  /\ h[t] = Append(h[t \ {Max(t)}], rules[Max(t)])
                  BY <1>0, <1>3 DEF Added
            <3>. QED  BY <3>1, <1>2
      <2>3. \A t \in SUBSET (1 .. n) : h[t] = rec(h)[t]  BY <2>1, <2>2
      <2>. QED  BY <2>1, <2>3
<1>5. iter = rec(iter)  BY <1>4
<1>. HIDE DEF iter
<1>6. iter[{}] = << >>  BY <1>5
<1>7. \A t \in SUBSET (1 .. n) : t # {} /\ iter[t \ {Max(t)}] \in Seq(R) =>
         iter[t] = Append(iter[t \ {Max(t)}], rules[Max(t)])
      BY <1>5, <1>0, <1>2, LargestIsThere
<1>8. iter[1 .. n] = rules  BY <1>6, <1>7, <1>0, AddsUp
<1>. QED  BY <1>1, <1>8

\* Only leaves a sequence as it is where all of it is wanted.
LEMMA OnlyAll ==
    ASSUME NEW R, NEW s \in Seq(R), NEW wanted, Range(s) \subseteq wanted
    PROVE  Only(s, wanted) = s
<1>1. PICK w : KeepsOnly(w, R, s, wanted)  BY OnlySteps
<1>2. /\ w \in [0 .. Len(s) -> Seq(R)] /\ w[0] = << >>
      /\ Only(s, wanted) = w[Len(s)]
      BY <1>1 DEF KeepsOnly
<1>3. \A k \in 1 .. Len(s) : w[k] = Append(w[k - 1], s[k])
      <2>. TAKE k \in 1 .. Len(s)
      <2>1. s[k] \in wanted  BY DEF Range
      <2>. QED  BY <2>1, <1>1 DEF KeepsOnly
<1>4. w[Len(s)] = s  BY <1>2, <1>3, BuiltUp
<1>. QED  BY <1>2, <1>4

\* Two buyers whom the same rules reach, and to the same effect, pay the same.
Alike(rules, a, b) ==
    /\ a.product = b.product
    /\ \A r \in Range(rules) : /\ Eligible(r, a) <=> Eligible(r, b)
                               /\ effectFor(r, a) = effectFor(r, b)

\* Where each rule reaches both buyers alike, they are priced alike.
LEMMA PricedAlike ==
    ASSUME NEW rules, RulesAreRead(rules), NEW a, NEW b, Alike(rules, a, b),
           a.product.price \in Nat
    PROVE  /\ resolveInternal(rules, a) = resolveInternal(rules, b)
           /\ resolveInternal(rules, a).unitPrice \in Nat
<1>. DEFINE R == Range(rules)
            eligible == EligibleRules(rules, a)
            sorted == InOrder(eligible)
<1>1. eligible = EligibleRules(rules, b)
      <2>1. {r \in R : Eligible(r, a)} = {r \in R : Eligible(r, b)}  BY DEF Alike
      <2>. QED  BY <2>1 DEF EligibleRules
<1>2. eligible \in Seq(R) /\ Distinct(eligible)
      BY OnlyIs, NamedOnce DEF EligibleRules, RulesAreRead
<1>. HIDE DEF eligible
<1>3. sorted \in Seq(R)  BY <1>2, InOrderIs, NamedOnce
<1>4. /\ resolveInternal(rules, a) = Resolved(Cascade(sorted, a))
      /\ resolveInternal(rules, b) = Resolved(Cascade(sorted, b))
      BY <1>1 DEF resolveInternal, eligible
<1>. HIDE DEF sorted
<1>5. /\ \A r \in R : KeysRead(r) /\ ValueRead(r)
      /\ \A r \in R : effectFor(r, a) = effectFor(r, b)
      /\ b.product = a.product
      BY DEF RulesAreRead, Alike
<1>. HIDE DEF R
<1>6. PICK w : WalksDown(w, sorted, a)  BY <1>3, <1>5, CascadeSteps
<1>7. PICK x : WalksDown(x, sorted, b)  BY <1>3, <1>5, CascadeSteps
<1>. DEFINE n == Len(sorted)
            S == {k \in 0 .. n : w[k] = x[k]}
<1>8. n \in Nat /\ \A k \in 1 .. n : sorted[k] \in R  BY <1>3
<1>9. w[0] = x[0]  BY <1>5, <1>6, <1>7 DEF WalksDown, Unwalked
<1>10. ASSUME NEW k \in 1 .. n, w[k - 1] = x[k - 1] PROVE w[k] = x[k]
      <2>1. w[k] = Walked(w[k - 1], sorted[k], effectFor(sorted[k], a))
            BY <1>6 DEF WalksDown
      <2>2. x[k] = Walked(x[k - 1], sorted[k], effectFor(sorted[k], b))
            BY <1>7 DEF WalksDown
      <2>3. effectFor(sorted[k], a) = effectFor(sorted[k], b)  BY <1>5, <1>8
      <2>. QED  BY <1>10, <2>1, <2>2, <2>3
<1>11. w[n] = x[n]
      <2>. HIDE DEF n
      <2>1. 0 \in S  BY <1>8, <1>9
      <2>2. \A k \in 1 .. n : k - 1 \in S => k \in S  BY <1>8, <1>10
      <2>. HIDE DEF S
      <2>3. \A k \in 0 .. n : k \in S  BY <1>8, <2>1, <2>2, InductionUpTo
      <2>4. n \in S  BY <1>8, <2>3
      <2>. QED  BY <2>4 DEF S
<1>12. Cascade(sorted, a) = w[n] /\ Cascade(sorted, b) = x[n] /\ w[n] \in Walks
      BY <1>6, <1>7, <1>8 DEF WalksDown
<1>13. roundFraction(w[n].price) \in Nat
      <2>1. PICK p \in Fraction : p = w[n].price  BY <1>12 DEF Walks
      <2>2. p.numerator * p.denominator <= p.numerator * p.denominator
            BY DEF Fraction
      <2>3. roundFraction(p) \in Nat  BY <2>2, RoundedInOrder
      <2>. QED  BY <2>1, <2>3
<1>. QED  BY <1>4, <1>11, <1>12, <1>13 DEF Resolved

\* Where noon UTC is in the shop's own day, a rule of whole days runs at noon
\* just when it runs at any hour of that day.
LEMMA NoonIsToday ==
    ASSUME NEW rule, NEW zone \in -12 .. 11, NEW hour \in 0 .. 23, NEW date \in Int,
           WholeDays(rule, zone)
    PROVE  scheduleReason(rule, readNow(date)) = "none"
             <=> scheduleReason(rule, dayStart(date, zone) + hour) = "none"
<1>. DEFINE noon == 24 * date + 12
            now == 24 * date - zone + hour
<1>1. readNow(date) = noon /\ dayStart(date, zone) + hour = now
      BY DEF readNow, dayStart
<1>2. ASSUME rule.starts # << >> PROVE noon < rule.starts[1] <=> now < rule.starts[1]
      <2>1. PICK s \in Int : s = rule.starts[1]
            BY <1>2 DEF WholeDays, MayBe, IsThere, Nothing
      <2>2. (s + zone) % 24 = 0  BY <1>2, <2>1 DEF WholeDays, IsThere, Nothing
      <2>3. PICK k \in Int : s + zone = 24 * k  BY <2>2
      <2>. QED  BY <2>1, <2>3
<1>3. ASSUME rule.ends # << >> PROVE noon > rule.ends[1] <=> now > rule.ends[1]
      <2>1. PICK e \in Int : e = rule.ends[1]
            BY <1>3 DEF WholeDays, MayBe, IsThere, Nothing
      <2>2. (e + 1 + zone) % 24 = 0  BY <1>3, <2>1 DEF WholeDays, IsThere, Nothing
      <2>3. PICK k \in Int : e + 1 + zone = 24 * k  BY <2>2
      <2>. QED  BY <2>1, <2>3
<1>. HIDE DEF noon, now
<1>. QED  BY <1>1, <1>2, <1>3 DEF scheduleReason, IsThere, Nothing

\* A rule that asks neither for a market nor for a company reaches a buyer at
\* checkout just when it reaches the same buyer in quick order.
LEMMA ReachedAlike ==
    ASSUME NEW r, NEW a, NEW b, a.product = b.product,
           r.markets.mode = "all", r.audience.mode # "companies",
           scheduleReason(r, a.now) = "none" <=> scheduleReason(r, b.now) = "none",
           IsThere(a.customer) <=> IsThere(b.customer),
           IsThere(a.customer) =>
             \A mode \in {"customers", "tags", "groups"} :
               a.customer[1][mode] = b.customer[1][mode]
    PROVE  Eligible(r, a) <=> Eligible(r, b)
<1>1. \A m : marketAllowed(r.markets, m)  BY DEF marketAllowed
<1>2. audienceMatches(r.audience, a.customer) <=> audienceMatches(r.audience, b.customer)
      BY DEF audienceMatches
<1>3. \A ctx : Eligible(r, ctx) <=>
        /\ r.status = "active"
        /\ scheduleReason(r, ctx.now) = "none"
        /\ audienceMatches(r.audience, ctx.customer)
        /\ ~targetExcluded(r.targets, ctx.product)
        /\ targetIncludes(r.targets, ctx.product)
      BY <1>1 DEF Eligible, eligibilityReason
<1>. QED  BY <1>2, <1>3

\* And to the same effect, where only the tiers of the cart's value look at the
\* cart.
LEMMA EffectsAlike ==
    ASSUME NEW r, KeysRead(r), NEW a, NEW b,
           a.currency = b.currency, a.quantity = b.quantity,
           r.kind = "cart_value_tier" => a.cart = b.cart
    PROVE  effectFor(r, a) = effectFor(r, b)
<1>1. CASE r.kind = "percentage"  BY <1>1 DEF effectFor
<1>2. CASE r.kind \in {"fixed_price", "amount_off"}  BY <1>2 DEF effectFor
<1>3. CASE r.kind = "volume_tier"  BY <1>3 DEF effectFor
<1>4. CASE r.kind = "cart_value_tier"  BY <1>4 DEF effectFor
<1>. QED  BY <1>1, <1>2, <1>3, <1>4 DEF KeysRead, CLASS_RANK

\* The smallest of two numbers.
LEMMA SmallestOfTwo ==
    ASSUME NEW m \in Nat, NEW n \in Nat
    PROVE  Min({m, n}) = IF m < n THEN m ELSE n
<1>1. Min({m, n}) \in {m, n} /\ \A y \in {m, n} : Min({m, n}) <= y
      <2>1. {m, n} \in SUBSET Nat /\ {m, n} # {}  OBVIOUS
      <2>. QED  BY <2>1, SmallestIsThere
<1>2. CASE Min({m, n}) = m  BY <1>1, <1>2
<1>3. CASE Min({m, n}) = n  BY <1>1, <1>3
<1>. QED  BY <1>1, <1>2, <1>3

\* An amount that is formatted is read back, in any currency.
LEMMA MoneyReadsBack ==
    ASSUME NEW currency, NEW minor \in Int
    PROVE  parseMoney(<<formatMoney(minor, currency)>>, currency) = <<minor>>
<1>. DEFINE g == Grain(currency)
<1>1. g \in Nat \ {0}  BY DEF Grain
<1>. HIDE DEF g
<1>2. (minor * g) % g = 0 /\ (minor * g) \div g = minor
      <2>1. minor * g = g * minor  BY <1>1
      <2>. QED  BY <2>1, <1>1, Multiple
<1>. QED  BY <1>2 DEF parseMoney, formatMoney, IsThere, Nothing, g

\* Rules checkout may use are read back as they were published.
LEMMA UsedAsPublished ==
    ASSUME NEW c, CartAsked(c), AskedAlike(c.published, c.cart)
    PROVE  LET read == deserializeRuleset(<<c.published>>)
           IN  Only(read, {r \in Range(read) : isSupportedAtCheckout(r)})
                 = RulesOf(c.published)
<1>. DEFINE wires == c.published.rules
            rules == RulesOf(c.published)
            R == Range(rules)
<1>1. PICK n \in Nat : n = Len(wires) /\ DOMAIN wires = 1 .. n  BY DEF CartAsked
<1>2. DOMAIN rules = 1 .. n /\ \A i \in 1 .. n : rules[i] = wires[i].rule
      BY <1>1 DEF RulesOf
<1>3. rules \in Seq(R)  BY DEF CartAsked, RulesAreRead
<1>4. Len(rules) = n  BY <1>1, <1>2, <1>3
<1>. HIDE DEF rules, R
<1>5. ASSUME NEW i \in 1 .. n PROVE readRule(wires[i]) = <<rules[i]>>
      <2>. DEFINE rule == wires[i].rule
      <2>1. wires[i].garbled = {}  BY <1>1 DEF AskedAlike
      <2>2. rule = rules[i] /\ rules[i] \in R  BY <1>2 DEF R, Range
      <2>3. rule = [k \in DOMAIN rule |-> rule[k]] /\ ValueRead(rule)
            BY <2>2 DEF CartAsked, RulesAreRead, R, rules
      <2>4. rule.combinable \in BOOLEAN  BY <2>3 DEF ValueRead
      <2>5. [rule EXCEPT !.markets = rule.markets,
                         !.combinable = rule.combinable,
                         !.value = rule.value] = rule
            BY <2>3
      <2>6. rule.combinable = (rule.combinable /\ TRUE)  BY <2>4, Zenon
      <2>. DEFINE back == [rule EXCEPT !.markets = @, !.combinable = @ /\ TRUE, !.value = @]
      <2>7. readRule(wires[i]) = <<back>>
            BY <2>1 DEF readRule
      <2>. QED  BY <2>2, <2>5, <2>6, <2>7
<1>6. deserializeRuleset(<<c.published>>) = rules
      BY <1>1, <1>2, <1>3, <1>4, <1>5, RulesReadBack DEF CartAsked
<1>7. Range(rules) \subseteq {r \in Range(rules) : isSupportedAtCheckout(r)}
      BY <1>1, <1>2 DEF AskedAlike, Range
<1>8. Only(rules, {r \in Range(rules) : isSupportedAtCheckout(r)}) = rules
      BY <1>3, <1>7, OnlyAll
<1>. QED  BY <1>6, <1>8 DEF rules

\* The buyer at checkout, and the same buyer in quick order.
AtCheckout(line, cart, list) ==
    [product |-> [price |-> list, ids |-> line.ids], quantity |-> line.quantity,
     cart |-> parseMoney(cart.subtotal, cart.currency),
     customer |-> readCustomer(cart.customer), market |-> "",
     currency |-> cart.currency, now |-> readNow(cart.date)]

InQuickOrder(line, cart, list, now) ==
    [product |-> [price |-> list, ids |-> line.ids], quantity |-> line.quantity,
     cart |-> <<list * line.quantity>>,
     customer |-> readCustomer(IF IsThere(cart.customer)
                               THEN <<[cart.customer[1] EXCEPT !.companies = {}]>>
                               ELSE Nothing),
     market |-> "", currency |-> cart.currency, now |-> now]

\* Both pay the same.
LEMMA SamePrice ==
    ASSUME NEW c, CartAsked(c), AskedAlike(c.published, c.cart), c.zone \in -12 .. 11,
           NEW i \in DOMAIN c.cart.lines, NEW list \in Nat,
           c.cart.lines[i].unit = <<formatMoney(list, c.cart.currency)>>
    PROVE  LET rules == RulesOf(c.published)
               a == AtCheckout(c.cart.lines[i], c.cart, list)
               b == InQuickOrder(c.cart.lines[i], c.cart, list,
                                 dayStart(c.cart.date, c.zone) + c.hour)
           IN  /\ resolveInternal(rules, a) = resolveInternal(rules, b)
               /\ resolveInternal(rules, a).unitPrice \in Nat
<1>. DEFINE rules == RulesOf(c.published)
            line == c.cart.lines[i]
            a == AtCheckout(line, c.cart, list)
            b == InQuickOrder(line, c.cart, list, dayStart(c.cart.date, c.zone) + c.hour)
<1>1. /\ a.product = b.product /\ a.product.price = list
      /\ a.currency = b.currency /\ a.quantity = b.quantity
      BY DEF AtCheckout, InQuickOrder
<1>2. /\ a.customer = readCustomer(c.cart.customer)
      /\ b.customer = readCustomer(IF IsThere(c.cart.customer)
                         THEN <<[c.cart.customer[1] EXCEPT !.companies = {}]>>
                         ELSE Nothing)
      /\ a.now = readNow(c.cart.date)
      /\ b.now = dayStart(c.cart.date, c.zone) + c.hour
      /\ a.cart = parseMoney(c.cart.subtotal, c.cart.currency)
      /\ b.cart = <<list * line.quantity>>
      BY DEF AtCheckout, InQuickOrder
<1>3. /\ IsThere(a.customer) <=> IsThere(b.customer)
      /\ IsThere(a.customer) =>
           \A mode \in {"customers", "tags", "groups"} :
             a.customer[1][mode] = b.customer[1][mode]
      <2>1. CASE ~IsThere(c.cart.customer)
            BY <1>2, <2>1 DEF readCustomer, IsThere, Nothing
      <2>2. CASE IsThere(c.cart.customer)
            <3>. DEFINE who == c.cart.customer[1]
                        known == [who EXCEPT !.companies = {}]
            <3>1. {"id", "tags", "groups"} \subseteq DOMAIN who
                  BY <2>2 DEF CartAsked
            <3>2. known.id = who.id /\ known.tags = who.tags /\ known.groups = who.groups
                  BY <3>1
            <3>. HIDE DEF known
            <3>3. a.customer = <<[customers |-> {who.id}, tags |-> who.tags,
                                  groups |-> who.groups, companies |-> who.companies]>>
                  BY <1>2, <2>2 DEF readCustomer
            <3>4. b.customer = <<[customers |-> {known.id}, tags |-> known.tags,
                                  groups |-> known.groups, companies |-> known.companies]>>
                  <4>1. b.customer = readCustomer(<<known>>)
                        BY <1>2, <2>2 DEF known
                  <4>. QED  BY <4>1 DEF readCustomer, IsThere, Nothing
            <3>. DEFINE x == [customers |-> {who.id}, tags |-> who.tags,
                              groups |-> who.groups, companies |-> who.companies]
                        y == [customers |-> {known.id}, tags |-> known.tags,
                              groups |-> known.groups, companies |-> known.companies]
            <3>5. \A mode \in {"customers", "tags", "groups"} : x[mode] = y[mode]
                  BY <3>2
            <3>6. a.customer = <<x>> /\ b.customer = <<y>>  BY <3>3, <3>4
            <3>. HIDE DEF a, b, x, y
            <3>7. a.customer # << >> /\ b.customer # << >>
                  /\ a.customer[1] = x /\ b.customer[1] = y
                  BY <3>6
            <3>. QED  BY <3>5, <3>7 DEF IsThere, Nothing
      <2>. QED  BY <2>1, <2>2
<1>4. ASSUME Len(c.cart.lines) = 1 PROVE a.cart = b.cart
      <2>1. i = 1
            <3>1. c.cart.lines \in Seq(Range(c.cart.lines))  BY DEF CartAsked
            <3>2. DOMAIN c.cart.lines = 1 .. 1  BY <1>4, <3>1
            <3>. QED  BY <3>2
      <2>. DEFINE g == Grain(c.cart.currency)
      <2>2. PICK q \in Nat : q = line.quantity  BY DEF CartAsked, LineAsked
      <2>3. c.cart.subtotal = <<line.unit[1] * q>>
            BY <1>4, <2>1, <2>2 DEF CartAsked
      <2>4. g \in Nat  BY DEF Grain
      <2>5. line.unit[1] = list * g  BY DEF formatMoney
      <2>. HIDE DEF g
      <2>6. (list * g) * q = (list * q) * g  BY <2>4
      <2>7. c.cart.subtotal = <<formatMoney(list * q, c.cart.currency)>>
            BY <2>3, <2>5, <2>6 DEF formatMoney, g
      <2>8. PICK m \in Int : m = list * q  OBVIOUS
      <2>9. parseMoney(c.cart.subtotal, c.cart.currency) = <<m>>
            BY <2>7, <2>8, MoneyReadsBack
      <2>. QED  BY <1>2, <2>2, <2>8, <2>9
<1>. HIDE DEF a, b, line
<1>5. ASSUME NEW r \in Range(rules)
      PROVE  (Eligible(r, a) <=> Eligible(r, b)) /\ effectFor(r, a) = effectFor(r, b)
      <2>1. PICK j \in DOMAIN c.published.rules : r = c.published.rules[j].rule
            BY DEF RulesOf, Range
      <2>2. /\ r.markets.mode = "all" /\ r.audience.mode # "companies"
            /\ r.kind = "cart_value_tier" => Len(c.cart.lines) = 1
            BY <2>1 DEF AskedAlike, isSupportedAtCheckout
      <2>3. KeysRead(r) /\ WholeDays(r, c.zone)  BY DEF CartAsked, RulesAreRead
      <2>4. scheduleReason(r, a.now) = "none" <=> scheduleReason(r, b.now) = "none"
            <3>1. PICK zone \in -12 .. 11, hour \in 0 .. 23, date \in Int :
                    zone = c.zone /\ hour = c.hour /\ date = c.cart.date
                  BY DEF CartAsked
            <3>2. WholeDays(r, zone)  BY <2>3, <3>1
            <3>3. scheduleReason(r, readNow(date)) = "none"
                    <=> scheduleReason(r, dayStart(date, zone) + hour) = "none"
                  BY <3>2, NoonIsToday
            <3>. QED  BY <1>2, <3>1, <3>3
      <2>5. Eligible(r, a) <=> Eligible(r, b)
            BY <1>1, <1>3, <2>2, <2>4, ReachedAlike
      <2>6. effectFor(r, a) = effectFor(r, b)
            <3>1. r.kind = "cart_value_tier" => a.cart = b.cart  BY <1>4, <2>2
            <3>. QED  BY <1>1, <2>3, <3>1, EffectsAlike
      <2>. QED  BY <2>5, <2>6
<1>6. RulesAreRead(rules)  BY DEF CartAsked
<1>. HIDE DEF rules
<1>7. Alike(rules, a, b)  BY <1>1, <1>5 DEF Alike
<1>8. a.product.price \in Nat  BY <1>1
<1>9. /\ resolveInternal(rules, a) = resolveInternal(rules, b)
      /\ resolveInternal(rules, a).unitPrice \in Nat
      BY <1>6, <1>7, <1>8, PricedAlike
<1>. QED  BY <1>9 DEF rules, a, b, line

\* What comes off a line at checkout leaves what quick order shows, or less.
LEMMA ChargedWhatIsShown ==
    ASSUME NEW c, CartAsked(c), AskedAlike(c.published, c.cart), c.zone \in -12 .. 11,
           NEW i \in DOMAIN c.cart.lines
    PROVE  LET cart == c.cart
               list == parseMoney(cart.lines[i].unit, cart.currency)[1]
               off == generate(<<c.published>>, cart)[i]
               shown == priceLine(cart.lines[i], RulesOf(c.published), cart,
                                  dayStart(cart.date, c.zone) + c.hour)
           IN  list - OrZero(parseMoney(off, cart.currency)) = Min({shown, list})
<1>. DEFINE cart == c.cart
            line == cart.lines[i]
            currency == cart.currency
            rules == RulesOf(c.published)
            now == dayStart(cart.date, c.zone) + c.hour
            g == Grain(currency)
<1>1. line.isVariant /\ line.quantity \in Nat \ {0}
      /\ line.unit \in Seq(Nat) /\ Len(line.unit) = 1 /\ line.unit[1] % g = 0
      BY DEF CartAsked, LineAsked
<1>2. PICK u \in Nat : line.unit = <<u>>
      <2>1. line.unit[1] \in Nat /\ line.unit = <<line.unit[1]>>  BY <1>1
      <2>. QED  BY <2>1
<1>3. g \in {10, 1000}  BY DEF Grain
<1>4. PICK list \in Nat : u = list * g
      <2>1. u % g = 0  BY <1>1, <1>2
      <2>. HIDE DEF g
      <2>2. \E l \in Nat : u = l * g
            <3>1. CASE g = 10
                  <4>1. u % 10 = 0  BY <2>1, <3>1
                  <4>2. u \div 10 \in Nat /\ u = (u \div 10) * 10  BY <4>1
                  <4>. QED  BY <3>1, <4>2
            <3>2. CASE g = 1000
                  <4>1. u % 1000 = 0  BY <2>1, <3>2
                  <4>2. u \div 1000 \in Nat /\ u = (u \div 1000) * 1000  BY <4>1
                  <4>. QED  BY <3>2, <4>2
            <3>. QED  BY <1>3, <3>1, <3>2
      <2>. QED  BY <2>2
<1>5. line.unit = <<formatMoney(list, currency)>>  BY <1>2, <1>4 DEF formatMoney
<1>6. parseMoney(line.unit, currency) = <<list>>  BY <1>5, MoneyReadsBack
<1>. DEFINE a == AtCheckout(line, cart, list)
            b == InQuickOrder(line, cart, list, now)
            answer == resolveInternal(rules, a)
<1>7. resolveInternal(rules, b) = answer /\ answer.unitPrice \in Nat
      BY <1>5, SamePrice
<1>8. PICK p \in Nat : p = answer.unitPrice  BY <1>7
<1>9. priceLine(line, rules, cart, now) = p
      <2>1. OrZero(parseMoney(line.unit, currency)) = list
            BY <1>6 DEF OrZero, IsThere, Nothing
      <2>2. (IF line.quantity < 1 THEN 1 ELSE line.quantity) = line.quantity
            BY <1>1
      <2>3. priceLine(line, rules, cart, now) = resolvePrice(rules, b).answer.unitPrice
            BY <2>1, <2>2 DEF priceLine, PriceOf, InQuickOrder
      <2>. QED  BY <2>3, <1>7, <1>8 DEF resolvePrice
<1>10. generate(<<c.published>>, cart)[i]
         = IF p < list THEN <<formatMoney(list - p, currency)>> ELSE Nothing
      <2>1. cart.discountsProducts  BY DEF CartAsked
      <2>2. generate(<<c.published>>, cart)[i] = discountFor(line, rules, cart)
            BY <2>1, UsedAsPublished DEF generate
      <2>3. parseMoney(line.unit, currency)[1] = list /\ IsThere(parseMoney(line.unit, currency))
            BY <1>6 DEF IsThere, Nothing
      <2>4. PriceOf(rules, list, line.ids, line.quantity,
                    parseMoney(cart.subtotal, currency),
                    readCustomer(cart.customer), cart, readNow(cart.date)) = p
            BY <1>8 DEF PriceOf, AtCheckout, resolvePrice
      <2>5. line.quantity >= 1  BY <1>1
      <2>. HIDE DEF line, cart, currency, rules
      <2>6. discountFor(line, rules, cart)
              = IF p < list THEN <<formatMoney(list - p, currency)>> ELSE Nothing
            BY <1>1, <2>3, <2>4, <2>5 DEF discountFor, currency
      <2>. QED  BY <2>2, <2>6
<1>. DEFINE off == generate(<<c.published>>, cart)[i]
<1>11. list - OrZero(parseMoney(off, currency)) = Min({p, list})
      <2>. HIDE DEF currency
      <2>1. CASE p < list
            <3>1. PICK d \in Int : d = list - p  OBVIOUS
            <3>2. off = <<formatMoney(d, currency)>>  BY <1>10, <2>1, <3>1
            <3>3. parseMoney(off, currency) = <<d>>  BY <3>2, MoneyReadsBack
            <3>4. OrZero(parseMoney(off, currency)) = d
                  BY <3>3 DEF OrZero, IsThere, Nothing
            <3>5. Min({p, list}) = p  BY <2>1, SmallestOfTwo
            <3>. HIDE DEF off
            <3>. QED  BY <3>1, <3>4, <3>5
      <2>2. CASE ~(p < list)
            <3>1. off = Nothing  BY <1>10, <2>2
            <3>2. OrZero(parseMoney(off, currency)) = 0
                  BY <3>1 DEF parseMoney, OrZero, IsThere, Nothing
            <3>3. Min({p, list}) = list  BY <2>2, SmallestOfTwo
            <3>. HIDE DEF off
            <3>. QED  BY <3>2, <3>3
      <2>. QED  BY <2>1, <2>2
<1>12. parseMoney(line.unit, currency)[1] = list  BY <1>6
<1>. QED  BY <1>9, <1>11, <1>12

(***************************************************************************)
(* Whatever rules are published and whatever is in the cart: in any zone   *)
(* less than twelve hours ahead of UTC, and up to twelve behind, what is   *)
(* charged for a line at checkout is what quick order shows for it at any  *)
(* hour of that day, or the list price where the rules would raise it      *)
(* (mannon-discount, quick-order.server.ts, pricing-engine/src/codec.ts).  *)
(***************************************************************************)
THEOREM ShownIsAlwaysCharged ==
    ASSUME \A c \in CartCases : c.zone \in -12 .. 11
    PROVE  EnginesSpec => []ShownIsCharged
<1>1. QuestionAsked => ShownIsCharged
      <2>. SUFFICES ASSUME QuestionAsked, question.engine = "cart"
                    PROVE  ShownIsCharged
           BY DEF ShownIsCharged
      <2>. DEFINE c == question.case
                  now == dayStart(c.cart.date, c.zone) + c.hour
                  shown == priceQuickOrder(RulesOf(c.published), c.cart, now).prices
                  sold == {i \in DOMAIN c.cart.lines : c.cart.lines[i].isActive}
      <2>1. c \in CartCases  BY DEF QuestionAsked
      <2>2. CartAsked(c) /\ c.zone \in -12 .. 11  BY <2>1, QuestionsAssumption
      <2>3. shown = [i \in sold |-> priceLine(c.cart.lines[i], RulesOf(c.published),
                                              c.cart, now)]
            BY DEF priceQuickOrder
      <2>. HIDE DEF c, now, shown
      <2>4. ASSUME AskedAlike(c.published, c.cart)
            PROVE  ChargedAsShown(c.cart, generate(<<c.published>>, c.cart), shown)
            <3>1. DOMAIN shown = sold /\ sold \subseteq DOMAIN c.cart.lines
                  /\ \A i \in sold : shown[i] = priceLine(c.cart.lines[i],
                                          RulesOf(c.published), c.cart, now)
                  BY <2>3
            <3>. HIDE DEF sold
            <3>. QED  BY <2>2, <2>4, <3>1, ChargedWhatIsShown
                      DEF ChargedAsShown, now
      <2>. QED  BY <2>4, Zenon DEF ShownIsCharged, c, now, shown
<1>. QED  BY <1>1, QuestionsAreAsked, PTL

(***************************************************************************)
(* Files of rules                                                          *)
(***************************************************************************)
\* What is told of a row is told at its line.
LEMMA RowsAreTold ==
    ASSUME NEW row, NEW ids
    PROVE  /\ \A e \in BaseErrors(row, ids) : e.line = row.line
           /\ \A e \in RowErrors(row, ids) : e.line = row.line
           /\ \A e \in BreakErrors(row) : e.line = row.line
<1>1. \A code, raised : \A e \in Report(row.line, code, raised) : e.line = row.line
      BY DEF Report
<1>2. \A e \in BaseErrors(row, ids) : e.line = row.line
      BY <1>1 DEF BaseErrors
<1>3. \A e \in RowErrors(row, ids) : e.line = row.line
      <2>. DEFINE own == RowErrors(row, ids) \ BaseErrors(row, ids)
                  bad == row.value.is = "bad"
                  unsound == ~validateRule(RuleOfRow(row, ids))
      <2>1. \/ own \subseteq Report(row.line, "missing_required", TRUE)
            \/ own \subseteq Report(row.line, "unknown_type", TRUE)
            \/ own \subseteq Report(row.line, "bad_money", TRUE)
            \/ own \subseteq Report(row.line, "bad_number", bad)
                               \cup Report(row.line, "invalid_rule", unsound)
            <3>1. CASE row.name = ""  BY <3>1 DEF RowErrors
            <3>2. CASE row.name # "" /\ ~HasKind(row)  BY <3>2 DEF RowErrors
            <3>3. CASE row.name # "" /\ HasKind(row)  BY <3>3 DEF RowErrors
            <3>. QED  BY <3>1, <3>2, <3>3
      <2>. HIDE DEF bad, unsound
      <2>2. /\ \A e \in Report(row.line, "missing_required", TRUE) : e.line = row.line
            /\ \A e \in Report(row.line, "unknown_type", TRUE) : e.line = row.line
            /\ \A e \in Report(row.line, "bad_money", TRUE) : e.line = row.line
            /\ \A e \in Report(row.line, "bad_number", bad) : e.line = row.line
            /\ \A e \in Report(row.line, "invalid_rule", unsound) : e.line = row.line
            BY DEF Report
      <2>. HIDE DEF own
      <2>3. \A e \in own : e.line = row.line  BY <2>1, <2>2
      <2>. QED  BY <1>2, <2>3 DEF own
<1>4. \A e \in BreakErrors(row) : e.line = row.line
      BY <1>1 DEF BreakErrors
<1>. QED  BY <1>2, <1>3, <1>4

\* Nothing is told just where there is nothing to tell.
LEMMA NothingTold ==
    ASSUME NEW line, NEW code
    PROVE  \A raised : Report(line, code, raised) = {} <=> ~raised
BY DEF Report

\* A rule's targets and tiers are those of its row or group.
LEMMA PricedIs ==
    ASSUME NEW row, NEW ids, NEW kind, NEW value
    PROVE  LET rule == Priced(baseFields(row, ids), kind, value)
           IN  rule.targets = readTargets(row, ids) /\ rule.value = value
<1>. DEFINE base == baseFields(row, ids)
            rule == Priced(base, kind, value)
<1>1. base.targets = readTargets(row, ids) /\ "targets" \in DOMAIN base
      BY DEF baseFields
<1>. HIDE DEF base
<1>2. rule.targets = base.targets /\ rule.value = value  BY <1>1 DEF Priced
<1>. QED  BY <1>1, <1>2 DEF base

\* A row without errors names products that are all known, and they are meant.
LEMMA NamedAreMeant ==
    ASSUME NEW row, NEW ids, BaseErrors(row, ids) = {}, NamesSkus(row)
    PROVE  /\ row.skus \subseteq DOMAIN ids
           /\ readTargets(row, ids).ids = {ids[k] : k \in row.skus}
<1>1. Report(row.line, "unknown_sku",
             NamesSkus(row) /\ ~(row.skus \subseteq DOMAIN ids)) = {}
      BY DEF BaseErrors
<1>2. row.skus \subseteq DOMAIN ids  BY <1>1, NothingTold
<1>3. row.skus \cap DOMAIN ids = row.skus  BY <1>2
<1>. QED  BY <1>2, <1>3 DEF readTargets

\* The lines of a file, one after another.
Rising(rows) ==
    /\ \A i \in DOMAIN rows : rows[i].line \in Nat
    /\ \A i, j \in DOMAIN rows : i < j => rows[i].line < rows[j].line

\* No two rows of a file are on one line.
LEMMA LinesApart ==
    ASSUME NEW R, NEW rows \in Seq(R), Rising(rows)
    PROVE  \A i, j \in DOMAIN rows : rows[i].line = rows[j].line => i = j
<1>. TAKE i, j \in DOMAIN rows
<1>1. i \in Nat /\ j \in Nat /\ rows[i].line \in Nat /\ rows[j].line \in Nat
      BY DEF Rising
<1>2. CASE i < j  BY <1>1, <1>2 DEF Rising
<1>3. CASE j < i  BY <1>1, <1>3 DEF Rising
<1>. QED  BY <1>1, <1>2, <1>3

\* Some of them, as they come, still rise.
LEMMA OnlyRises ==
    ASSUME NEW R, NEW s \in Seq(R), NEW wanted, Rising(s)
    PROVE  Rising(Only(s, wanted))
<1>. DEFINE n == Len(s)
<1>0. n \in Nat /\ DOMAIN s = 1 .. n /\ \A i \in 1 .. n : s[i] \in R  OBVIOUS
<1>1. PICK w : KeepsOnly(w, R, s, wanted)  BY OnlySteps
<1>2. /\ w \in [0 .. n -> Seq(R)] /\ w[0] = << >>
      /\ \A k \in 1 .. n :
           w[k] = IF s[k] \in wanted THEN Append(w[k - 1], s[k]) ELSE w[k - 1]
      /\ Only(s, wanted) = w[n]
      BY <1>1 DEF KeepsOnly
<1>. HIDE DEF n
<1>. DEFINE Good == {k \in 0 .. n : /\ Rising(w[k])
                                    /\ \A j \in DOMAIN w[k] : \A i \in 1 .. n :
                                         k < i => w[k][j].line < s[i].line}
<1>3. 0 \in Good
      <2>1. DOMAIN w[0] = {}  BY <1>2
      <2>. QED  BY <2>1, <1>0 DEF Rising
<1>4. ASSUME NEW k \in 1 .. n, k - 1 \in Good PROVE k \in Good
      <2>. DEFINE v == w[k - 1]
      <2>1. v \in Seq(R) /\ s[k] \in R /\ k \in Nat
            <3>1. k \in Nat /\ k - 1 \in 0 .. n  BY <1>0
            <3>. QED  BY <3>1, <1>0, <1>2
      <2>2. /\ Rising(v)
            /\ \A j \in DOMAIN v : \A i \in 1 .. n :
                 k - 1 < i => v[j].line < s[i].line
            BY <1>4
      <2>3. \A i \in 1 .. n : k < i => s[k].line < s[i].line
            BY <1>0 DEF Rising
      <2>4. k - 1 < k /\ \A i \in 1 .. n : k < i => k - 1 < i  BY <2>1, <1>0
      <2>5. s[k].line \in Nat  BY <1>0 DEF Rising
      <2>. HIDE DEF v
      <2>6. CASE s[k] \in wanted
            <3>1. w[k] = Append(v, s[k])  BY <1>2, <2>6 DEF v
            <3>2. PICK m \in Nat : m = Len(v) /\ DOMAIN v = 1 .. m  BY <2>1
            <3>3. /\ DOMAIN w[k] = 1 .. m + 1
                  /\ \A i \in 1 .. m : w[k][i] = v[i]
                  /\ w[k][m + 1] = s[k]
                  BY <3>1, <3>2, <2>1, AppendIs
            <3>4. \A i \in 1 .. m + 1 : i \in 1 .. m \/ i = m + 1  BY <3>2
            <3>5. \A i \in 1 .. m : v[i].line < s[k].line  BY <3>2, <2>2, <2>4, <1>0
            <3>6. Rising(w[k])
                  <4>1. \A i \in 1 .. m + 1 : w[k][i].line \in Nat
                        BY <2>2, <2>5, <3>2, <3>3, <3>4 DEF Rising
                  <4>2. ASSUME NEW i \in 1 .. m + 1, NEW j \in 1 .. m + 1, i < j
                        PROVE  w[k][i].line < w[k][j].line
                        <5>1. i \in 1 .. m  BY <4>2, <3>2
                        <5>2. CASE j \in 1 .. m
                              <6>1. v[i].line < v[j].line
                                    BY <4>2, <5>1, <5>2, <2>2, <3>2 DEF Rising
                              <6>. QED  BY <6>1, <5>1, <5>2, <3>3
                        <5>3. CASE j = m + 1  BY <5>1, <5>3, <3>3, <3>5
                        <5>. QED  BY <5>2, <5>3, <3>4
                  <4>. QED  BY <3>3, <4>1, <4>2 DEF Rising
            <3>7. \A j \in DOMAIN w[k] : \A i \in 1 .. n :
                    k < i => w[k][j].line < s[i].line
                  BY <2>2, <2>3, <2>4, <3>2, <3>3, <3>4
            <3>. QED  BY <3>6, <3>7
      <2>7. CASE s[k] \notin wanted
            <3>1. w[k] = v  BY <1>2, <2>7 DEF v
            <3>. QED  BY <3>1, <2>2, <2>4
      <2>. QED  BY <2>6, <2>7
<1>. HIDE DEF Good
<1>5. n \in Good
      <2>1. \A k \in 0 .. n : k \in Good  BY <1>0, <1>3, <1>4, InductionUpTo
      <2>. QED  BY <2>1, <1>0
<1>6. Rising(w[n])  BY <1>5 DEF Good
<1>. QED  BY <1>2, <1>6

\* A group is the rows of one name, and begins with its first line.
LEMMA GroupIs ==
    ASSUME NEW R, NEW rows \in Seq(R), Rising(rows), NEW i \in DOMAIN rows
    PROVE  LET g == RowsNamed(rows, rows[i].name)
               lines == {g[k].line : k \in DOMAIN g}
           IN  /\ g \in Seq(R) /\ Rising(g)
               /\ Range(g) = {r \in Range(rows) : r.name = rows[i].name}
               /\ 1 \in DOMAIN g /\ Min(lines) = g[1].line
<1>. DEFINE wanted == {r \in Range(rows) : r.name = rows[i].name}
            g == RowsNamed(rows, rows[i].name)
            lines == {g[k].line : k \in DOMAIN g}
<1>1. g = Only(rows, wanted)  BY DEF RowsNamed
<1>2. wanted \subseteq Range(rows) /\ rows[i] \in wanted  BY DEF Range
<1>. HIDE DEF wanted, g
<1>3. g \in Seq(R) /\ Range(g) = Range(rows) \cap wanted  BY <1>1, OnlyIs
<1>4. Rising(g)  BY <1>1, OnlyRises
<1>5. Range(g) = wanted  BY <1>2, <1>3
<1>6. 1 \in DOMAIN g /\ DOMAIN g \subseteq Nat /\ \A k \in DOMAIN g : k = 1 \/ 1 < k
      <2>1. PICK k \in DOMAIN g : g[k] = rows[i]  BY <1>2, <1>5 DEF Range
      <2>2. DOMAIN g = 1 .. Len(g) /\ Len(g) \in Nat  BY <1>3
      <2>. QED  BY <2>1, <2>2
<1>7. lines \in SUBSET Nat /\ g[1].line \in lines  BY <1>4, <1>6 DEF Rising
<1>8. \A l \in lines : g[1].line <= l
      <2>. TAKE l \in lines
      <2>1. PICK k \in DOMAIN g : l = g[k].line  OBVIOUS
      <2>2. g[1].line \in Nat /\ g[k].line \in Nat  BY <1>4, <1>6 DEF Rising
      <2>3. 1 < k => g[1].line < g[k].line  BY <1>4, <1>6 DEF Rising
      <2>. QED  BY <2>1, <2>2, <2>3, <1>6
<1>9. Min(lines) = g[1].line
      <2>. HIDE DEF lines
      <2>1. Min(lines) \in lines /\ \A l \in lines : Min(lines) <= l
            BY <1>7, SmallestIsThere
      <2>2. PICK m \in Nat, f \in Nat : m = Min(lines) /\ f = g[1].line
            BY <1>7, <2>1
      <2>3. m <= f /\ f <= m  BY <1>7, <1>8, <2>1, <2>2
      <2>. QED  BY <2>2, <2>3
<1>. QED  BY <1>3, <1>4, <1>5, <1>6, <1>9 DEF g, lines, wanted

\* What is inserted is there, beside what was.
LEMMA InsertedIsThere ==
    ASSUME NEW R, NEW s \in Seq(R), NEW at \in 1 .. Len(s) + 1, NEW e \in R
    PROVE  Range(s) \cup {e} \subseteq Range(InsertAt(s, at, e))
<1>. DEFINE t == InsertAt(s, at, e)
<1>1. PICK n \in Nat : n = Len(s) /\ DOMAIN s = 1 .. n  OBVIOUS
<1>2. /\ t \in Seq(R) /\ Len(t) = n + 1 /\ t[at] = e
      /\ \A j \in 1 .. at - 1 : t[j] = s[j]
      /\ \A j \in at .. n : t[j + 1] = s[j]
      <2>1. /\ t \in Seq(R) /\ Len(t) = Len(s) + 1 /\ t[at] = e
            /\ \A j \in 1 .. at - 1 : t[j] = s[j]
            /\ \A j \in at .. Len(s) : t[j + 1] = s[j]
            BY InsertAtIs
      <2>. HIDE DEF t
      <2>. QED  BY <1>1, <2>1
<1>. HIDE DEF t
<1>3. DOMAIN t = 1 .. n + 1 /\ at \in 1 .. n + 1  BY <1>1, <1>2
<1>4. e \in Range(t)  BY <1>2, <1>3 DEF Range
<1>5. ASSUME NEW j \in 1 .. n PROVE s[j] \in Range(t)
      <2>1. CASE j \in 1 .. at - 1
            <3>1. j \in 1 .. n + 1 /\ t[j] = s[j]  BY <2>1, <1>1, <1>2
            <3>. QED  BY <3>1, <1>3 DEF Range
      <2>2. CASE j \in at .. n
            <3>1. j + 1 \in 1 .. n + 1 /\ t[j + 1] = s[j]  BY <2>2, <1>1, <1>2, <1>3
            <3>. QED  BY <3>1, <1>3 DEF Range
      <2>. QED  BY <2>1, <2>2, <1>1, <1>3
<1>. QED  BY <1>1, <1>4, <1>5 DEF Range, t

\* A tier that is put in is there, beside the ones that were.
LEMMA TierInsertedIs ==
    ASSUME NEW T, NEW v \in Seq(T), NEW tier \in T
    PROVE  /\ TierInserted(v, tier) \in Seq(T)
           /\ Range(v) \cup {tier} \subseteq Range(TierInserted(v, tier))
<1>. DEFINE after == {i \in DOMAIN v : tier.min < v[i].min}
            at == IF after = {} THEN Len(v) + 1 ELSE Min(after)
<1>1. DOMAIN v = 1 .. Len(v) /\ Len(v) \in Nat  OBVIOUS
<1>2. at \in 1 .. Len(v) + 1
      <2>1. CASE after = {}  BY <2>1, <1>1
      <2>2. CASE after # {}
            <3>1. after \in SUBSET Nat /\ after \subseteq 1 .. Len(v)  BY <1>1
            <3>2. at = Min(after)  BY <2>2
            <3>. HIDE DEF after, at
            <3>3. at \in after  BY <2>2, <3>1, <3>2, SmallestIsThere
            <3>4. at \in 1 .. Len(v)  BY <3>1, <3>3
            <3>. QED  BY <3>4, <1>1
      <2>. QED  BY <2>1, <2>2
<1>3. TierInserted(v, tier) = InsertAt(v, at, tier)  BY DEF TierInserted
<1>. HIDE DEF at
<1>4. PICK p \in 1 .. Len(v) + 1 : p = at  BY <1>2
<1>5. InsertAt(v, p, tier) \in Seq(T)  BY InsertAtIs
<1>6. Range(v) \cup {tier} \subseteq Range(InsertAt(v, p, tier))  BY InsertedIsThere
<1>. QED  BY <1>3, <1>4, <1>5, <1>6

\* The tiers put in so far, by where they start.
InsertSteps(w, T, tiers) ==
    /\ w \in [0 .. Len(tiers) -> Seq(T)]
    /\ w[0] = << >>
    /\ \A k \in 1 .. Len(tiers) : w[k] = TierInserted(w[k - 1], tiers[k])
    /\ FoldLeft(TierInserted, << >>, tiers) = w[Len(tiers)]

\* Putting in tiers one by one has such steps.
LEMMA TiersInserted ==
    ASSUME NEW T, NEW tiers \in Seq(T)
    PROVE  \E w : InsertSteps(w, T, tiers)
<1>. DEFINE n == Len(tiers)
            W == Seq(T)
            Op(v, k) == TierInserted(v, tiers[k])
            F == [p \in W \X (1 .. n) |-> Op(p[1], p[2])]
            rec(f) == [t \in SUBSET (1 .. n) |->
                         IF t = {} THEN << >> ELSE Op(f[t \ {Max(t)}], Max(t))]
            iter == CHOOSE f : f = rec(f)
<1>0. n \in Nat /\ DOMAIN tiers = 1 .. n /\ << >> \in W  OBVIOUS
<1>1. FoldLeft(TierInserted, << >>, tiers) = iter[1 .. n]
      BY <1>0 DEF FoldLeft, MapThenFoldSet
<1>2. \A k \in 1 .. n : \A v \in W : Op(v, k) \in W
      <2>. TAKE k \in 1 .. n
      <2>1. tiers[k] \in T  OBVIOUS
      <2>. SUFFICES ASSUME NEW v \in Seq(T) PROVE TierInserted(v, tiers[k]) \in Seq(T)
           OBVIOUS
      <2>. QED  BY <2>1, TierInsertedIs
<1>3. F \in [W \X (1 .. n) -> W]
      <2>. HIDE DEF W, n, Op
      <2>. QED  BY <1>2
<1>4. PICK h : Iterates(W, n, F, << >>, h)
      <2>. HIDE DEF W, F, n
      <2>. QED  BY <1>0, <1>3, IterationExists
<1>. HIDE DEF W, Op, n
<1>5. h = rec(h)
      <2>1. \A t \in SUBSET (1 .. n) : t # {} =>
               /\ h[t \ {Max(t)}] \in W /\ Max(t) \in 1 .. n
               /\ h[t] = F[<<h[t \ {Max(t)}], Max(t)>>]
            BY <1>0, <1>4, LargestIsThere DEF Iterates
      <2>2. h[{}] = << >>  BY <1>4 DEF Iterates
      <2>3. \A t \in SUBSET (1 .. n) : h[t] = rec(h)[t]  BY <2>1, <2>2
      <2>. QED  BY <1>4, <2>3 DEF Iterates
<1>6. iter = rec(iter)  BY <1>5
<1>. HIDE DEF iter
<1>7. iter[{}] = << >>  BY <1>6
<1>8. \A t \in SUBSET (1 .. n) : t # {} /\ iter[t \ {Max(t)}] \in W =>
         iter[t] = F[<<iter[t \ {Max(t)}], Max(t)>>]
      BY <1>6, <1>0, LargestIsThere
<1>9. PICK w : Unrolled(w, W, n, F, << >>, iter)
      <2>. HIDE DEF F
      <2>. QED  BY <1>0, <1>3, <1>7, <1>8, FoldUnrolls
<1>10. \A k \in 1 .. n : w[k] = Op(w[k - 1], k)
      <2>. TAKE k \in 1 .. n
      <2>1. k - 1 \in 0 .. n  BY <1>0
      <2>2. w[k] = F[<<w[k - 1], k>>] /\ w[k - 1] \in W  BY <2>1, <1>9 DEF Unrolled
      <2>. QED  BY <2>2
<1>. HIDE DEF F
<1>11. InsertSteps(w, T, tiers)
      BY <1>1, <1>9, <1>10, Zenon DEF InsertSteps, Unrolled, n, Op, W
<1>. QED  BY <1>11

\* Putting tiers in order loses none.
LEMMA TiersAreKept ==
    ASSUME NEW T, NEW tiers \in Seq(T)
    PROVE  Range(tiers) \subseteq Range(FoldLeft(TierInserted, << >>, tiers))
<1>. DEFINE n == Len(tiers)
            Had(k) == {tiers[i] : i \in 1 .. k}
<1>0. n \in Nat /\ DOMAIN tiers = 1 .. n /\ \A i \in 1 .. n : tiers[i] \in T  OBVIOUS
<1>1. PICK w : InsertSteps(w, T, tiers)  BY TiersInserted
<1>2. /\ w \in [0 .. n -> Seq(T)] /\ w[0] = << >>
      /\ \A k \in 1 .. n : w[k] = TierInserted(w[k - 1], tiers[k])
      /\ FoldLeft(TierInserted, << >>, tiers) = w[n]
      BY <1>1 DEF InsertSteps
<1>. HIDE DEF n
<1>. DEFINE Good == {k \in 0 .. n : Had(k) \subseteq Range(w[k])}
<1>3. 0 \in Good
      <2>1. Had(0) = {}  OBVIOUS
      <2>. QED  BY <2>1, <1>0
<1>4. ASSUME NEW k \in 1 .. n, k - 1 \in Good PROVE k \in Good
      <2>1. k \in Nat /\ k - 1 \in 0 .. n  BY <1>0
      <2>2. w[k - 1] \in Seq(T) /\ tiers[k] \in T  BY <2>1, <1>0, <1>2
      <2>3. Range(w[k - 1]) \cup {tiers[k]} \subseteq Range(w[k])
            BY <2>2, <1>2, TierInsertedIs
      <2>4. Had(k) = Had(k - 1) \cup {tiers[k]}
            <3>1. 1 .. k = (1 .. k - 1) \cup {k}  BY <2>1
            <3>. QED  BY <3>1
      <2>5. Had(k - 1) \subseteq Range(w[k - 1])  BY <1>4
      <2>. HIDE DEF Had
      <2>. QED  BY <2>3, <2>4, <2>5
<1>. HIDE DEF Good
<1>5. n \in Good
      <2>1. \A k \in 0 .. n : k \in Good  BY <1>0, <1>3, <1>4, InductionUpTo
      <2>. QED  BY <2>1, <1>0
<1>6. Had(n) \subseteq Range(w[n])  BY <1>5 DEF Good
<1>7. Range(tiers) = Had(n)  BY <1>0 DEF Range
<1>. QED  BY <1>2, <1>6, <1>7

\* What a row does to the tiers of its group.
LEMMA WithRowIs ==
    ASSUME NEW T, NEW v \in Seq(T), NEW row, TierOf(row) \in T
    PROVE  /\ WithRow(v, row) \in Seq(T)
           /\ row.min.is # "number" => Range(WithRow(v, row)) = Range(v)
           /\ \A t \in Range(v) :
                t.min # row.min.n => t \in Range(WithRow(v, row))
           /\ row.min.is = "number" /\ HasAmount(row) =>
                TierOf(row) \in Range(WithRow(v, row))
<1>. DEFINE others == {t \in Range(v) : t.min # row.min.n}
            but == TiersBut(v, row)
<1>1. but \in Seq(T) /\ Range(but) = Range(v) \cap others
      BY OnlyIs DEF TiersBut
<1>2. /\ Append(but, TierOf(row)) \in Seq(T)
      /\ Range(Append(but, TierOf(row))) = Range(but) \cup {TierOf(row)}
      <2>. HIDE DEF but
      <2>1. PICK tier \in T : tier = TierOf(row)  OBVIOUS
      <2>2. but \in Seq(T)  BY <1>1
      <2>. QED  BY <2>1, <2>2, AppendIs
<1>3. TierPut(v, row) = Append(but, TierOf(row))  BY DEF TierPut
<1>4. CASE row.min.is # "number"  BY <1>4 DEF WithRow
<1>5. CASE row.min.is = "number" /\ HasAmount(row)
      <2>1. WithRow(v, row) = Append(but, TierOf(row))  BY <1>3, <1>5 DEF WithRow
      <2>. HIDE DEF but
      <2>. QED  BY <1>1, <1>2, <1>5, <2>1
<1>6. CASE row.min.is = "number" /\ ~HasAmount(row)
      <2>1. WithRow(v, row) = but  BY <1>6 DEF WithRow
      <2>. HIDE DEF but
      <2>. QED  BY <1>1, <1>6, <2>1
<1>. QED  BY <1>4, <1>5, <1>6

\* The tiers of the rows so far.
GroupSteps(w, T, group) ==
    /\ w \in [0 .. Len(group) -> Seq(T)]
    /\ w[0] = << >>
    /\ \A k \in 1 .. Len(group) : w[k] = WithRow(w[k - 1], group[k])
    /\ FoldLeft(WithRow, << >>, group) = w[Len(group)]

\* Taking the rows of a group one by one has such steps.
LEMMA RowsTaken ==
    ASSUME NEW T, NEW R, NEW group \in Seq(R),
           \A k \in DOMAIN group : TierOf(group[k]) \in T
    PROVE  \E w : GroupSteps(w, T, group)
<1>. DEFINE n == Len(group)
            W == Seq(T)
            Op(v, k) == WithRow(v, group[k])
            F == [p \in W \X (1 .. n) |-> Op(p[1], p[2])]
            rec(f) == [t \in SUBSET (1 .. n) |->
                         IF t = {} THEN << >> ELSE Op(f[t \ {Max(t)}], Max(t))]
            iter == CHOOSE f : f = rec(f)
<1>0. n \in Nat /\ DOMAIN group = 1 .. n /\ << >> \in W  OBVIOUS
<1>1. FoldLeft(WithRow, << >>, group) = iter[1 .. n]
      BY <1>0 DEF FoldLeft, MapThenFoldSet
<1>2. \A k \in 1 .. n : \A v \in W : Op(v, k) \in W
      <2>. TAKE k \in 1 .. n
      <2>1. TierOf(group[k]) \in T  BY <1>0
      <2>. SUFFICES ASSUME NEW v \in Seq(T) PROVE WithRow(v, group[k]) \in Seq(T)
           OBVIOUS
      <2>. QED  BY <2>1, WithRowIs
<1>3. F \in [W \X (1 .. n) -> W]
      <2>. HIDE DEF W, n, Op
      <2>. QED  BY <1>2
<1>4. PICK h : Iterates(W, n, F, << >>, h)
      <2>. HIDE DEF W, F, n
      <2>. QED  BY <1>0, <1>3, IterationExists
<1>. HIDE DEF W, Op, n
<1>5. h = rec(h)
      <2>1. \A t \in SUBSET (1 .. n) : t # {} =>
               /\ h[t \ {Max(t)}] \in W /\ Max(t) \in 1 .. n
               /\ h[t] = F[<<h[t \ {Max(t)}], Max(t)>>]
            BY <1>0, <1>4, LargestIsThere DEF Iterates
      <2>2. h[{}] = << >>  BY <1>4 DEF Iterates
      <2>3. \A t \in SUBSET (1 .. n) : h[t] = rec(h)[t]  BY <2>1, <2>2
      <2>. QED  BY <1>4, <2>3 DEF Iterates
<1>6. iter = rec(iter)  BY <1>5
<1>. HIDE DEF iter
<1>7. iter[{}] = << >>  BY <1>6
<1>8. \A t \in SUBSET (1 .. n) : t # {} /\ iter[t \ {Max(t)}] \in W =>
         iter[t] = F[<<iter[t \ {Max(t)}], Max(t)>>]
      BY <1>6, <1>0, LargestIsThere
<1>9. PICK w : Unrolled(w, W, n, F, << >>, iter)
      <2>. HIDE DEF F
      <2>. QED  BY <1>0, <1>3, <1>7, <1>8, FoldUnrolls
<1>10. \A k \in 1 .. n : w[k] = Op(w[k - 1], k)
      <2>. TAKE k \in 1 .. n
      <2>1. k - 1 \in 0 .. n  BY <1>0
      <2>2. w[k] = F[<<w[k - 1], k>>] /\ w[k - 1] \in W  BY <2>1, <1>9 DEF Unrolled
      <2>. QED  BY <2>2
<1>. HIDE DEF F
<1>11. GroupSteps(w, T, group)
      BY <1>1, <1>9, <1>10, Zenon DEF GroupSteps, Unrolled, n, Op, W
<1>. QED  BY <1>11

\* Where every row with a minimum has an amount, each has its tier, or there is
\* a later row with the same minimum.
Outdone(group, k, m) ==
    \E j \in k + 1 .. m : /\ group[j].min.is = "number"
                          /\ group[j].min.n = group[k].min.n

\* So each tier that was asked for is in the rule, unless a later row outdid it.
LEMMA TiersAreThere ==
    ASSUME NEW R, NEW group \in Seq(R),
           \A k \in DOMAIN group : group[k].min.is = "number" => HasAmount(group[k]),
           NEW k \in DOMAIN group, group[k].min.is = "number"
    PROVE  \/ TierOf(group[k]) \in Range(TiersOf(group))
           \/ Outdone(group, k, Len(group))
<1>. DEFINE n == Len(group)
            T == {TierOf(group[i]) : i \in DOMAIN group}
            tiers == FoldLeft(WithRow, << >>, group)
<1>0. n \in Nat /\ DOMAIN group = 1 .. n /\ k \in 1 .. n  OBVIOUS
<1>1. \A i \in 1 .. n : TierOf(group[i]) \in T  BY <1>0
<1>. HIDE DEF T
<1>2. PICK w : GroupSteps(w, T, group)  BY <1>0, <1>1, RowsTaken
<1>3. /\ w \in [0 .. n -> Seq(T)]
      /\ \A i \in 1 .. n : w[i] = WithRow(w[i - 1], group[i])
      /\ tiers = w[n]
      BY <1>2 DEF GroupSteps
<1>. HIDE DEF n, tiers
<1>. DEFINE Good == {i \in 0 .. n : k <= i => \/ TierOf(group[k]) \in Range(w[i])
                                              \/ Outdone(group, k, i)}
<1>4. 0 \in Good  BY <1>0
<1>5. ASSUME NEW i \in 1 .. n, i - 1 \in Good PROVE i \in Good
      <2>1. i \in Nat /\ i - 1 \in 0 .. n /\ k \in Nat  BY <1>0
      <2>2. w[i - 1] \in Seq(T) /\ TierOf(group[i]) \in T  BY <2>1, <1>0, <1>1, <1>3
      <2>3. w[i] = WithRow(w[i - 1], group[i])  BY <1>3
      <2>4. CASE i < k  BY <2>1, <2>4
      <2>5. CASE i = k
            <3>1. HasAmount(group[k])  BY <1>0
            <3>2. TierOf(group[k]) \in Range(w[i])
                  BY <2>2, <2>3, <2>5, <3>1, WithRowIs
            <3>. QED  BY <3>2
      <2>6. CASE k < i
            <3>1. k <= i - 1  BY <2>1, <2>6
            <3>2. CASE Outdone(group, k, i - 1)
                  <4>1. k + 1 .. i - 1 \subseteq k + 1 .. i  BY <2>1
                  <4>. QED  BY <3>2, <4>1 DEF Outdone
            <3>3. CASE TierOf(group[k]) \in Range(w[i - 1])
                  <4>1. CASE group[i].min.is # "number"
                        <5>1. Range(w[i]) = Range(w[i - 1])
                              BY <2>2, <2>3, <4>1, WithRowIs
                        <5>. QED  BY <3>3, <5>1
                  <4>2. CASE group[i].min.is = "number" /\ group[i].min.n = group[k].min.n
                        <5>1. i \in k + 1 .. i  BY <2>1, <2>6
                        <5>. QED  BY <4>2, <5>1 DEF Outdone
                  <4>3. CASE group[i].min.n # group[k].min.n
                        <5>1. TierOf(group[k]).min = group[k].min.n  BY DEF TierOf
                        <5>2. TierOf(group[k]) \in Range(w[i])
                              BY <2>2, <2>3, <3>3, <4>3, <5>1, WithRowIs
                        <5>. QED  BY <5>2
                  <4>. QED  BY <4>1, <4>2, <4>3
            <3>. QED  BY <3>1, <3>2, <3>3, <1>5
      <2>. QED  BY <2>1, <2>4, <2>5, <2>6
<1>. HIDE DEF Good
<1>6. n \in Good
      <2>1. \A i \in 0 .. n : i \in Good  BY <1>0, <1>4, <1>5, InductionUpTo
      <2>. QED  BY <2>1, <1>0
<1>7. TierOf(group[k]) \in Range(tiers) \/ Outdone(group, k, n)
      <2>1. k <= n  BY <1>0
      <2>. QED  BY <2>1, <1>3, <1>6 DEF Good
<1>8. tiers \in Seq(T)  BY <1>0, <1>3
<1>9. Range(tiers) \subseteq Range(TiersOf(group))
      BY <1>8, TiersAreKept DEF TiersOf, tiers
<1>. QED  BY <1>7, <1>9 DEF n

\* The rows of one name, of any rows.
LEMMA NamedRows ==
    ASSUME NEW R, NEW rows \in Seq(R), NEW name
    PROVE  /\ RowsNamed(rows, name) \in Seq(R)
           /\ Range(RowsNamed(rows, name)) = {r \in Range(rows) : r.name = name}
<1>. DEFINE wanted == {r \in Range(rows) : r.name = name}
<1>1. wanted = Range(rows) \cap wanted  OBVIOUS
<1>2. RowsNamed(rows, name) = Only(rows, wanted)  BY DEF RowsNamed
<1>. HIDE DEF wanted
<1>3. Only(rows, wanted) \in Seq(R) /\ Range(Only(rows, wanted)) = Range(rows) \cap wanted
      BY OnlyIs
<1>. QED  BY <1>1, <1>2, <1>3 DEF wanted

\* A row nothing is told of is a sound rule.
LEMMA RowIsGood ==
    ASSUME NEW row, NEW ids, RowErrors(row, ids) = {}
    PROVE  BaseErrors(row, ids) = {} /\ validateRule(RuleOfRow(row, ids))
<1>. DEFINE unsound == ~validateRule(RuleOfRow(row, ids))
<1>1. BaseErrors(row, ids) = {}  BY DEF RowErrors
<1>2. row.name # ""
      <2>. SUFFICES ASSUME row.name = "" PROVE FALSE  OBVIOUS
      <2>1. Report(row.line, "missing_required", TRUE) = {}  BY DEF RowErrors
      <2>. QED  BY <2>1 DEF Report
<1>3. HasKind(row)
      <2>. SUFFICES ASSUME ~HasKind(row) PROVE FALSE  OBVIOUS
      <2>1. Report(row.line, "unknown_type", TRUE) = {}  BY <1>2 DEF RowErrors
      <2>. QED  BY <2>1 DEF Report
<1>4. ~(TYPE_ALIASES[row.type] # "percentage" /\ row.value.is = "bad")
      <2>. SUFFICES ASSUME TYPE_ALIASES[row.type] # "percentage" /\ row.value.is = "bad"
                    PROVE  FALSE
           OBVIOUS
      <2>1. Report(row.line, "bad_money", TRUE) = {}  BY <1>2, <1>3 DEF RowErrors
      <2>. QED  BY <2>1 DEF Report
<1>5. Report(row.line, "invalid_rule", unsound) = {}
      BY <1>2, <1>3, <1>4 DEF RowErrors
<1>6. ~unsound
      <2>. HIDE DEF unsound
      <2>. QED  BY <1>5 DEF Report
<1>. QED  BY <1>1, <1>6

\* The rules that a file of rules plans, of any rows.
LEMMA RulesOfRows ==
    ASSUME NEW R, NEW rows \in Seq(R), NEW ids, NEW existing
    PROVE  RulesPlanned(planRulesTemplate(rows, ids, existing))
             = {RuleOfRow(r, ids) : r \in {x \in Range(rows) : RowErrors(x, ids) = {}}}
<1>. DEFINE good == {i \in DOMAIN rows : RowErrors(rows[i], ids) = {}}
            plan == planRulesTemplate(rows, ids, existing)
<1>1. plan.planned = {[rule |-> RuleOfRow(rows[i], ids), lines |-> {rows[i].line}] :
                        i \in good}
      BY DEF planRulesTemplate
<1>. HIDE DEF plan
<1>2. RulesPlanned(plan) = {RuleOfRow(rows[i], ids) : i \in good}
      <2>. DEFINE P(i) == [rule |-> RuleOfRow(rows[i], ids), lines |-> {rows[i].line}]
      <2>1. \A i \in good : P(i).rule = RuleOfRow(rows[i], ids)  OBVIOUS
      <2>2. plan.planned = {P(i) : i \in good}  BY <1>1
      <2>. HIDE DEF P, good
      <2>. QED  BY <2>1, <2>2 DEF RulesPlanned
<1>. QED  BY <1>2 DEF Range, plan

\* Rules planned name by name are all the rules there are.
LEMMA RulesApart ==
    ASSUME NEW R, NEW rows \in Seq(R), NEW ids, NEW existing
    PROVE  RulesPlanned(planRulesTemplate(rows, ids, existing)) =
             UNION {RulesPlanned(planRulesTemplate(RowsNamed(rows, name), ids, existing)) :
                    name \in {rows[i].name : i \in DOMAIN rows}}
<1>. DEFINE names == {rows[i].name : i \in DOMAIN rows}
            rules(s) == RulesPlanned(planRulesTemplate(s, ids, existing))
            Fit(r) == RowErrors(r, ids) = {}
            meant(r) == RuleOfRow(r, ids)
<1>1. rules(rows) = {meant(r) : r \in {x \in Range(rows) : Fit(x)}}
      BY RulesOfRows
<1>2. \A name : rules(RowsNamed(rows, name))
                  = {meant(r) : r \in {x \in Range(rows) : x.name = name /\ Fit(x)}}
      <2>. TAKE name
      <2>1. RowsNamed(rows, name) \in Seq(R)
            /\ Range(RowsNamed(rows, name)) = {r \in Range(rows) : r.name = name}
            BY NamedRows
      <2>2. rules(RowsNamed(rows, name))
              = {meant(r) : r \in {x \in Range(RowsNamed(rows, name)) : Fit(x)}}
            BY <2>1, RulesOfRows
      <2>3. {x \in Range(RowsNamed(rows, name)) : Fit(x)}
              = {x \in Range(rows) : x.name = name /\ Fit(x)}
            <3>. HIDE DEF Fit
            <3>. QED  BY <2>1
      <2>. QED  BY <2>2, <2>3
<1>3. \A r \in Range(rows) : r.name \in names  BY DEF Range
<1>. HIDE DEF names, rules, Fit, meant
<1>4. rules(rows) = UNION {rules(RowsNamed(rows, name)) : name \in names}
      <2>1. ASSUME NEW x, x \in rules(rows)
            PROVE  \E name \in names : x \in rules(RowsNamed(rows, name))
            <3>1. PICK r \in Range(rows) : Fit(r) /\ x = meant(r)  BY <1>1, <2>1
            <3>2. x \in rules(RowsNamed(rows, r.name))  BY <1>2, <3>1
            <3>. QED  BY <1>3, <3>2
      <2>2. ASSUME NEW name \in names, NEW x \in rules(RowsNamed(rows, name))
            PROVE  x \in rules(rows)
            BY <1>1, <1>2
      <2>. QED  BY <2>1, <2>2
<1>. QED  BY <1>4 DEF names, rules

\* One line alone.
LEMMA OneLine ==
    ASSUME NEW l \in Nat
    PROVE  Min({l}) = l
<1>1. {l} \in SUBSET Nat /\ {l} # {}  OBVIOUS
<1>2. Min({l}) \in {l}  BY <1>1, SmallestIsThere
<1>. QED  BY <1>2

\* What a file of rules plans is sound and tells of every line.
LEMMA RulesTell ==
    ASSUME NEW c, ImportAsked(c)
    PROVE  LET plan == planRulesTemplate(c.rows, c.ids, c.existing)
           IN  /\ \A p \in plan.planned : validateRule(p.rule)
               /\ NoLineLost(c, plan)
               /\ AllNamedAreMeant(c, plan)
<1>. DEFINE rows == c.rows
            ids == c.ids
            plan == planRulesTemplate(rows, ids, c.existing)
            good == {i \in DOMAIN rows : RowErrors(rows[i], ids) = {}}
<1>0. /\ rows \in Seq(Range(rows)) /\ Rising(rows)
      /\ \A i \in DOMAIN rows : rows[i].line \in Nat
      BY DEF ImportAsked, Rising
<1>1. \A i, j \in DOMAIN rows : rows[i].line = rows[j].line => i = j
      BY <1>0, LinesApart
<1>2. /\ plan.planned = {[rule |-> RuleOfRow(rows[i], ids), lines |-> {rows[i].line}] :
                           i \in good}
      /\ plan.errors = UNION {RowErrors(rows[i], ids) : i \in DOMAIN rows}
      BY DEF planRulesTemplate
<1>. HIDE DEF plan, rows, ids
<1>3. \A p \in plan.planned : \E i \in good :
         p.rule = RuleOfRow(rows[i], ids) /\ p.lines = {rows[i].line}
      BY <1>2
<1>4. LinesIn(plan.errors) = {rows[i].line : i \in DOMAIN rows \ good}
      <2>1. \A e \in plan.errors : \E i \in DOMAIN rows \ good : e.line = rows[i].line
            <3>. TAKE e \in plan.errors
            <3>1. PICK i \in DOMAIN rows : e \in RowErrors(rows[i], ids)  BY <1>2
            <3>. QED  BY <3>1, RowsAreTold
      <2>2. \A i \in DOMAIN rows \ good : \E e \in plan.errors : e.line = rows[i].line
            <3>. TAKE i \in DOMAIN rows \ good
            <3>1. PICK e : e \in RowErrors(rows[i], ids)  OBVIOUS
            <3>. QED  BY <3>1, <1>2, RowsAreTold
      <2>. HIDE DEF good
      <2>. QED  BY <2>1, <2>2 DEF LinesIn
<1>5. UNION {p.lines : p \in plan.planned} = {rows[i].line : i \in good}
      <2>. DEFINE P(i) == [rule |-> RuleOfRow(rows[i], ids), lines |-> {rows[i].line}]
      <2>1. \A i \in good : P(i).lines = {rows[i].line}  OBVIOUS
      <2>2. plan.planned = {P(i) : i \in good}  BY <1>2
      <2>. HIDE DEF P, good
      <2>3. \A l \in UNION {p.lines : p \in plan.planned} :
               \E i \in good : l = rows[i].line
            BY <2>1, <2>2
      <2>4. \A i \in good : rows[i].line \in UNION {p.lines : p \in plan.planned}
            BY <2>1, <2>2
      <2>. QED  BY <2>3, <2>4
<1>6. \A p \in plan.planned : validateRule(p.rule)  BY <1>3, RowIsGood
<1>7. NoLineLost(c, plan)
      <2>1. {rows[i].line : i \in good} \cap {rows[i].line : i \in DOMAIN rows \ good} = {}
            BY <1>1
      <2>2. \A i \in DOMAIN rows : rows[i].line \in
               {rows[j].line : j \in good} \cup {rows[j].line : j \in DOMAIN rows \ good}
            OBVIOUS
      <2>. HIDE DEF good
      <2>. QED  BY <1>4, <1>5, <2>1, <2>2 DEF NoLineLost, rows
<1>8. AllNamedAreMeant(c, plan)
      <2>. SUFFICES ASSUME NEW p \in plan.planned,
                           NEW r \in FileRows(rows, {Min(p.lines)}), NamesSkus(r)
                    PROVE  /\ r.skus \subseteq DOMAIN ids
                           /\ p.rule.targets.ids = {ids[k] : k \in r.skus}
           BY DEF AllNamedAreMeant, rows, ids
      <2>1. PICK i \in good : p.rule = RuleOfRow(rows[i], ids) /\ p.lines = {rows[i].line}
            BY <1>3
      <2>2. Min(p.lines) = rows[i].line  BY <2>1, <1>0, OneLine
      <2>3. r = rows[i]
            <3>1. PICK j \in DOMAIN rows : r = rows[j] /\ rows[j].line \in {Min(p.lines)}
                  BY DEF FileRows
            <3>. QED  BY <3>1, <2>2, <1>1
      <2>4. BaseErrors(r, ids) = {}  BY <2>3, RowIsGood
      <2>5. r.skus \subseteq DOMAIN ids
            /\ readTargets(r, ids).ids = {ids[k] : k \in r.skus}
            BY <2>4, NamedAreMeant
      <2>6. p.rule.targets = readTargets(r, ids)
            <3>1. \E kind, value : RuleOfRow(r, ids) = Priced(baseFields(r, ids), kind, value)
                  BY DEF RuleOfRow
            <3>. QED  BY <2>1, <2>3, <3>1, PricedIs
      <2>. QED  BY <2>5, <2>6
<1>. QED  BY <1>6, <1>7, <1>8 DEF plan, rows, ids

\* The groups of a file of quantity breaks, and what is planned of them.
GroupsOf(rows) ==
    {RowsNamed(rows, rows[i].name) : i \in {j \in DOMAIN rows : rows[j].name # ""}}

LinesHeld(g) == {g[k].line : k \in DOMAIN g}

\* What is told of a group is told at one of its lines.
LEMMA GroupIsTold ==
    ASSUME NEW g, 1 \in DOMAIN g, NEW ids
    PROVE  \A e \in GroupErrors(g, ids) : e.line \in LinesHeld(g)
<1>. DEFINE unsound == ~validateRule(RuleOfGroup(g, ids))
<1>1. \A e \in BaseErrors(g[1], ids) : e.line \in LinesHeld(g)
      BY RowsAreTold DEF LinesHeld
<1>2. \A e \in UNION {BreakErrors(g[i]) : i \in DOMAIN g} : e.line \in LinesHeld(g)
      <2>. TAKE e \in UNION {BreakErrors(g[i]) : i \in DOMAIN g}
      <2>1. PICK i \in DOMAIN g : e \in BreakErrors(g[i])  OBVIOUS
      <2>2. e.line = g[i].line  BY <2>1, RowsAreTold
      <2>. QED  BY <2>2 DEF LinesHeld
<1>3. \A e \in Report(g[1].line, "invalid_rule", unsound) : e.line \in LinesHeld(g)
      BY DEF Report, LinesHeld
<1>4. GroupErrors(g, ids) = BaseErrors(g[1], ids)
                              \cup (UNION {BreakErrors(g[i]) : i \in DOMAIN g})
                              \cup Report(g[1].line, "invalid_rule", unsound)
      BY DEF GroupErrors
<1>. HIDE DEF unsound
<1>. DEFINE first == BaseErrors(g[1], ids)
            breaks == UNION {BreakErrors(g[i]) : i \in DOMAIN g}
            last == Report(g[1].line, "invalid_rule", unsound)
<1>5. /\ \A e \in first : e.line \in LinesHeld(g)
      /\ \A e \in breaks : e.line \in LinesHeld(g)
      /\ \A e \in last : e.line \in LinesHeld(g)
      /\ GroupErrors(g, ids) = first \cup breaks \cup last
      BY <1>1, <1>2, <1>3, <1>4, Zenon
<1>. HIDE DEF first, breaks, last
<1>. QED  BY <1>5

\* A group nothing is told of is a sound rule, and each tier of it can be read.
LEMMA GroupIsGood ==
    ASSUME NEW g, NEW ids, GroupErrors(g, ids) = {}
    PROVE  /\ BaseErrors(g[1], ids) = {} /\ validateRule(RuleOfGroup(g, ids))
           /\ \A i \in DOMAIN g : g[i].min.is = "number" =>
                HasAmount(g[i]) /\ "bad" \notin {g[i].max.is, g[i].value.is}
<1>. DEFINE unsound == ~validateRule(RuleOfGroup(g, ids))
<1>1. /\ BaseErrors(g[1], ids) = {}
      /\ \A i \in DOMAIN g : BreakErrors(g[i]) = {}
      /\ Report(g[1].line, "invalid_rule", unsound) = {}
      <2>1. GroupErrors(g, ids) = BaseErrors(g[1], ids)
                              \cup (UNION {BreakErrors(g[i]) : i \in DOMAIN g})
                              \cup Report(g[1].line, "invalid_rule", unsound)
            BY DEF GroupErrors
      <2>. DEFINE first == BaseErrors(g[1], ids)
                  breaks == UNION {BreakErrors(g[i]) : i \in DOMAIN g}
                  last == Report(g[1].line, "invalid_rule", unsound)
      <2>2. GroupErrors(g, ids) = first \cup breaks \cup last  BY <2>1
      <2>. HIDE DEF last, first
      <2>3. first = {} /\ breaks = {} /\ last = {}
            <3>. HIDE DEF breaks
            <3>. QED  BY <2>2
      <2>4. \A i \in DOMAIN g : BreakErrors(g[i]) \subseteq breaks  OBVIOUS
      <2>. HIDE DEF breaks
      <2>5. \A i \in DOMAIN g : BreakErrors(g[i]) = {}  BY <2>3, <2>4
      <2>. QED  BY <2>3, <2>5 DEF first, last
<1>2. validateRule(RuleOfGroup(g, ids))
      <2>1. ~unsound
            <3>. HIDE DEF unsound
            <3>. QED  BY <1>1 DEF Report
      <2>. QED  BY <2>1
<1>3. ASSUME NEW i \in DOMAIN g, g[i].min.is = "number"
      PROVE  HasAmount(g[i]) /\ "bad" \notin {g[i].max.is, g[i].value.is}
      <2>. DEFINE maxBad == g[i].max.is = "bad"
                  percentBad == g[i].type = "percentage" /\ g[i].value.is = "bad"
                  noAmount == ~HasAmount(g[i])
      <2>1. /\ Report(g[i].line, "bad_number", maxBad) = {}
            /\ Report(g[i].line, "bad_number", percentBad) = {}
            /\ Report(g[i].line, "bad_money", noAmount) = {}
            BY <1>1, <1>3 DEF BreakErrors
      <2>2. ~maxBad /\ ~percentBad /\ ~noAmount
            <3>. HIDE DEF maxBad, percentBad, noAmount
            <3>. QED  BY <2>1 DEF Report
      <2>. QED  BY <2>2 DEF HasAmount
<1>. QED  BY <1>1, <1>2, <1>3

\* The rules that a file of quantity breaks plans, of any rows.
GoodGroups(rows, ids) == {g \in GroupsOf(rows) : GroupErrors(g, ids) = {}}

PlansRules(plan, rows, ids) ==
    /\ RulesPlanned(plan) = {RuleOfGroup(g, ids) : g \in GoodGroups(rows, ids)}
    /\ UNION {p.lines : p \in plan.planned}
         = UNION {LinesHeld(g) : g \in GoodGroups(rows, ids)}
    /\ \A p \in plan.planned : \E g \in GoodGroups(rows, ids) :
         p.rule = RuleOfGroup(g, ids) /\ p.lines = LinesHeld(g)

\* A rule for each group that nothing is told of, and its lines.
LEMMA RulesOfGroups ==
    ASSUME NEW rows, NEW ids, NEW existing
    PROVE  PlansRules(planQuantityBreaks(rows, ids, existing), rows, ids)
<1>. DEFINE plan == planQuantityBreaks(rows, ids, existing)
            good == {g \in GroupsOf(rows) : GroupErrors(g, ids) = {}}
            P(g) == [rule |-> RuleOfGroup(g, ids), lines |-> LinesHeld(g)]
<1>0. good = GoodGroups(rows, ids)  BY DEF GoodGroups
<1>1. GroupsOf(rows) = {RowsNamed(rows, rows[i].name) :
                          i \in DOMAIN rows \ {j \in DOMAIN rows : rows[j].name = ""}}
      BY DEF GroupsOf
<1>2. plan.planned = {P(g) : g \in good}
      BY <1>1 DEF planQuantityBreaks, LinesHeld
<1>3. \A g : P(g).rule = RuleOfGroup(g, ids) /\ P(g).lines = LinesHeld(g)  OBVIOUS
<1>. HIDE DEF plan, good, P
<1>4. RulesPlanned(plan) = {RuleOfGroup(g, ids) : g \in good}
      BY <1>2, <1>3 DEF RulesPlanned
<1>5. UNION {p.lines : p \in plan.planned} = UNION {LinesHeld(g) : g \in good}
      <2>1. \A l \in UNION {p.lines : p \in plan.planned} : \E g \in good : l \in LinesHeld(g)
            BY <1>2, <1>3
      <2>2. \A g \in good : \A l \in LinesHeld(g) : l \in UNION {p.lines : p \in plan.planned}
            BY <1>2, <1>3
      <2>. QED  BY <2>1, <2>2
<1>6. \A p \in plan.planned : \E g \in good :
         p.rule = RuleOfGroup(g, ids) /\ p.lines = LinesHeld(g)
      BY <1>2, <1>3
<1>. QED  BY <1>0, <1>4, <1>5, <1>6 DEF PlansRules, plan

\* A group alone is the one group of its rows; rows without a name are none.
LEMMA GroupsOfOne ==
    ASSUME NEW R, NEW rows \in Seq(R), NEW i \in DOMAIN rows
    PROVE  LET alone == RowsNamed(rows, rows[i].name)
           IN  GroupsOf(alone) = IF rows[i].name = "" THEN {} ELSE {alone}
<1>. DEFINE called == rows[i].name
            those == RowsNamed(rows, called)
<1>1. those \in Seq(R) /\ Range(those) = {r \in Range(rows) : r.name = called}
      BY NamedRows
<1>2. rows[i] \in Range(those)  BY <1>1 DEF Range
<1>. HIDE DEF those
<1>3. \A k \in DOMAIN those : those[k].name = called  BY <1>1 DEF Range
<1>4. RowsNamed(those, called) = those
      <2>1. Range(those) \subseteq {r \in Range(those) : r.name = called}  BY <1>1
      <2>2. Only(those, {r \in Range(those) : r.name = called}) = those
            BY <1>1, <2>1, OnlyAll
      <2>. QED  BY <2>2 DEF RowsNamed
<1>5. PICK k \in DOMAIN those : those[k] = rows[i]  BY <1>2 DEF Range
<1>. HIDE DEF called
<1>6. CASE called = ""
      <2>1. {m \in DOMAIN those : those[m].name # ""} = {}  BY <1>3, <1>6
      <2>2. GroupsOf(those) = {}  BY <2>1 DEF GroupsOf
      <2>. QED  BY <1>6, <2>2 DEF those, called
<1>7. CASE called # ""
      <2>1. {m \in DOMAIN those : those[m].name # ""} = DOMAIN those  BY <1>3, <1>7
      <2>2. GroupsOf(those) = {RowsNamed(those, those[m].name) : m \in DOMAIN those}
            BY <2>1 DEF GroupsOf
      <2>3. \A m \in DOMAIN those : RowsNamed(those, those[m].name) = those
            BY <1>3, <1>4
      <2>4. GroupsOf(those) = {those}  BY <2>2, <2>3, <1>5
      <2>. QED  BY <1>7, <2>4 DEF those, called
<1>. QED  BY <1>6, <1>7

\* Rules planned group by group are all the rules there are.
LEMMA GroupsApart ==
    ASSUME NEW R, NEW rows \in Seq(R), NEW ids, NEW existing
    PROVE  RulesPlanned(planQuantityBreaks(rows, ids, existing)) =
             UNION {RulesPlanned(planQuantityBreaks(RowsNamed(rows, name), ids, existing)) :
                    name \in {rows[i].name : i \in DOMAIN rows}}
<1>. DEFINE names == {rows[i].name : i \in DOMAIN rows}
            rules(s) == RulesPlanned(planQuantityBreaks(s, ids, existing))
            Fit(g) == GroupErrors(g, ids) = {}
            meant(g) == RuleOfGroup(g, ids)
<1>1. \A s : rules(s) = {meant(g) : g \in {x \in GroupsOf(s) : Fit(x)}}
      <2>. TAKE s
      <2>. DEFINE plan == planQuantityBreaks(s, ids, existing)
      <2>1. PlansRules(plan, s, ids)  BY RulesOfGroups
      <2>. HIDE DEF plan
      <2>2. RulesPlanned(plan) = {RuleOfGroup(g, ids) : g \in GoodGroups(s, ids)}
            BY <2>1 DEF PlansRules
      <2>3. GoodGroups(s, ids) = {g \in GroupsOf(s) : GroupErrors(g, ids) = {}}
            BY DEF GoodGroups
      <2>. QED  BY <2>2, <2>3 DEF plan
<1>2. \A name \in names : GroupsOf(RowsNamed(rows, name))
                            = IF name = "" THEN {} ELSE {RowsNamed(rows, name)}
      BY GroupsOfOne
<1>3. GroupsOf(rows) = UNION {GroupsOf(RowsNamed(rows, name)) : name \in names}
      <2>1. ASSUME NEW g \in GroupsOf(rows)
            PROVE  \E name \in names : g \in GroupsOf(RowsNamed(rows, name))
            <3>1. PICK i \in DOMAIN rows : rows[i].name # "" /\ g = RowsNamed(rows, rows[i].name)
                  BY DEF GroupsOf
            <3>. QED  BY <3>1, <1>2
      <2>2. ASSUME NEW name \in names, NEW g \in GroupsOf(RowsNamed(rows, name))
            PROVE  g \in GroupsOf(rows)
            <3>1. name # "" /\ g = RowsNamed(rows, name)  BY <1>2
            <3>. QED  BY <3>1 DEF GroupsOf
      <2>. QED  BY <2>1, <2>2
<1>. HIDE DEF names, rules, Fit, meant
<1>4. rules(rows) = UNION {rules(RowsNamed(rows, name)) : name \in names}
      <2>1. ASSUME NEW x, x \in rules(rows)
            PROVE  \E name \in names : x \in rules(RowsNamed(rows, name))
            <3>1. PICK g \in GroupsOf(rows) : Fit(g) /\ x = meant(g)
                  BY <1>1, <2>1
            <3>2. PICK name \in names : g \in GroupsOf(RowsNamed(rows, name))
                  BY <1>3
            <3>. QED  BY <1>1, <3>1, <3>2
      <2>2. ASSUME NEW name \in names, NEW x \in rules(RowsNamed(rows, name))
            PROVE  x \in rules(rows)
            <3>1. PICK g \in GroupsOf(RowsNamed(rows, name)) : Fit(g) /\ x = meant(g)
                  BY <1>1
            <3>2. g \in GroupsOf(rows)  BY <1>3
            <3>. QED  BY <1>1, <3>1, <3>2
      <2>. QED  BY <2>1, <2>2
<1>. QED  BY <1>4 DEF names, rules

\* A group of a file is the rows of a name that is not blank.
LEMMA GroupsAre ==
    ASSUME NEW R, NEW rows \in Seq(R), Rising(rows), NEW g \in GroupsOf(rows)
    PROVE  \E name :
             /\ name # "" /\ g = RowsNamed(rows, name)
             /\ Range(g) = {r \in Range(rows) : r.name = name}
             /\ g \in Seq(R) /\ Rising(g)
             /\ 1 \in DOMAIN g /\ Min(LinesHeld(g)) = g[1].line
<1>1. PICK i \in DOMAIN rows : rows[i].name # "" /\ g = RowsNamed(rows, rows[i].name)
      BY DEF GroupsOf
<1>. DEFINE h == RowsNamed(rows, rows[i].name)
<1>2. /\ h \in Seq(R) /\ Rising(h)
      /\ Range(h) = {r \in Range(rows) : r.name = rows[i].name}
      /\ 1 \in DOMAIN h /\ Min(LinesHeld(h)) = h[1].line
      BY GroupIs DEF LinesHeld
<1>3. g = h  BY <1>1
<1>. HIDE DEF h
<1>. QED  BY <1>1, <1>2, <1>3

\* A line is that of one row, and is held by one group.
LEMMA GroupsHoldTheirOwn ==
    ASSUME NEW R, NEW rows \in Seq(R), Rising(rows)
    PROVE  /\ \A r, q \in Range(rows) : r.line = q.line => r = q
           /\ \A g, h \in GroupsOf(rows) : \A l \in LinesHeld(g) \cap LinesHeld(h) : g = h
           /\ \A g \in GroupsOf(rows) : \A k \in DOMAIN g :
                g[k] \in Range(rows) /\ g[k].name # ""
<1>1. \A r, q \in Range(rows) : r.line = q.line => r = q
      <2>. TAKE r, q \in Range(rows)
      <2>1. PICK i \in DOMAIN rows, j \in DOMAIN rows : r = rows[i] /\ q = rows[j]
            BY DEF Range
      <2>2. rows[i].line = rows[j].line => i = j  BY LinesApart
      <2>. QED  BY <2>1, <2>2
<1>2. \A g \in GroupsOf(rows) : \A k \in DOMAIN g :
         /\ g[k] \in Range(rows) /\ g[k].name # ""
         /\ g = RowsNamed(rows, g[k].name)
      <2>. TAKE g \in GroupsOf(rows)
      <2>1. PICK name : /\ name # "" /\ g = RowsNamed(rows, name)
                        /\ Range(g) = {r \in Range(rows) : r.name = name}
                        /\ g \in Seq(R) /\ Rising(g)
                        /\ 1 \in DOMAIN g /\ Min(LinesHeld(g)) = g[1].line
            BY GroupsAre
      <2>. TAKE k \in DOMAIN g
      <2>2. g[k] \in Range(g)  BY DEF Range
      <2>3. g[k] \in Range(rows) /\ g[k].name = name  BY <2>1, <2>2
      <2>4. g = RowsNamed(rows, g[k].name)
            <3>1. g = RowsNamed(rows, name)  BY <2>1
            <3>. QED  BY <3>1, <2>3, Zenon
      <2>. QED  BY <2>1, <2>3, <2>4
<1>3. ASSUME NEW g \in GroupsOf(rows), NEW h \in GroupsOf(rows),
             NEW l \in LinesHeld(g) \cap LinesHeld(h)
      PROVE  g = h
      <2>1. PICK k \in DOMAIN g : l = g[k].line  BY DEF LinesHeld
      <2>2. PICK m \in DOMAIN h : l = h[m].line  BY DEF LinesHeld
      <2>3. g[k] = h[m]  BY <1>1, <1>2, <2>1, <2>2
      <2>. QED  BY <1>2, <2>3
<1>. QED  BY <1>1, <1>2, <1>3

\* What is told of a file of quantity breaks, and what is planned of it.
PlansGroups(plan, rows, ids) ==
    /\ PlansRules(plan, rows, ids)
    /\ \A g \in GroupsOf(rows) : \A e \in GroupErrors(g, ids) : e \in plan.errors
    /\ \A i \in DOMAIN rows : rows[i].name = "" =>
         \E e \in plan.errors : e.line = rows[i].line
    /\ \A e \in plan.errors :
         \/ \E g \in GroupsOf(rows) : e \in GroupErrors(g, ids)
         \/ \E i \in DOMAIN rows : rows[i].name = "" /\ e.line = rows[i].line
    /\ \A g \in GroupsOf(rows) : \A w \in LastWins(g) : w \in plan.warnings

\* All that is told and planned of a file of quantity breaks.
LEMMA GroupsPlanned ==
    ASSUME NEW rows, NEW ids, NEW existing
    PROVE  PlansGroups(planQuantityBreaks(rows, ids, existing), rows, ids)
<1>. DEFINE plan == planQuantityBreaks(rows, ids, existing)
            nameless == {i \in DOMAIN rows : rows[i].name = ""}
            Missing(i) == Report(rows[i].line, "missing_required", TRUE)
            ofGroups == UNION {GroupErrors(g, ids) : g \in GroupsOf(rows)}
            ofRows == UNION {Missing(i) : i \in nameless}
            ofLast == UNION {LastWins(g) : g \in GroupsOf(rows)}
<1>1. GroupsOf(rows) = {RowsNamed(rows, rows[i].name) : i \in DOMAIN rows \ nameless}
      BY DEF GroupsOf
<1>2. plan.errors = ofGroups \cup ofRows
      BY <1>1 DEF planQuantityBreaks
<1>3. ofLast \subseteq plan.warnings
      BY <1>1 DEF planQuantityBreaks
<1>4. \A i : \A e : e \in Missing(i) <=>
                      e = [line |-> rows[i].line, code |-> "missing_required"]
      BY DEF Report
<1>10. PlansRules(plan, rows, ids)  BY RulesOfGroups
<1>. HIDE DEF plan, Missing
<1>5. \A e \in ofRows : \E i \in nameless : e.line = rows[i].line
      <2>. TAKE e \in ofRows
      <2>1. PICK i \in nameless : e \in Missing(i)  OBVIOUS
      <2>2. e = [line |-> rows[i].line, code |-> "missing_required"]  BY <1>4, <2>1
      <2>. QED  BY <2>2
<1>6. \A i \in nameless : \E e \in ofRows : e.line = rows[i].line
      <2>. TAKE i \in nameless
      <2>. DEFINE e == [line |-> rows[i].line, code |-> "missing_required"]
      <2>1. e \in Missing(i) /\ e.line = rows[i].line  BY <1>4
      <2>. HIDE DEF e
      <2>. QED  BY <2>1
<1>7. /\ \A e \in ofGroups : \E g \in GroupsOf(rows) : e \in GroupErrors(g, ids)
      /\ \A g \in GroupsOf(rows) : \A e \in GroupErrors(g, ids) : e \in ofGroups
      /\ \A g \in GroupsOf(rows) : \A w \in LastWins(g) : w \in ofLast
      OBVIOUS
<1>8. \A i : i \in nameless <=> i \in DOMAIN rows /\ rows[i].name = ""  OBVIOUS
<1>. HIDE DEF ofGroups, ofRows, ofLast, nameless
<1>9. /\ \A g \in GroupsOf(rows) : \A e \in GroupErrors(g, ids) : e \in plan.errors
      /\ \A i \in DOMAIN rows : rows[i].name = "" =>
           \E e \in plan.errors : e.line = rows[i].line
      /\ \A e \in plan.errors :
           \/ \E g \in GroupsOf(rows) : e \in GroupErrors(g, ids)
           \/ \E i \in DOMAIN rows : rows[i].name = "" /\ e.line = rows[i].line
      /\ \A g \in GroupsOf(rows) : \A w \in LastWins(g) : w \in plan.warnings
      BY <1>2, <1>3, <1>5, <1>6, <1>7, <1>8
<1>. QED  BY <1>9, <1>10 DEF PlansGroups, plan

\* No line of a file of quantity breaks passes in silence.
LEMMA GroupsLoseNoLine ==
    ASSUME NEW c, ImportAsked(c)
    PROVE  NoLineLost(c, planQuantityBreaks(c.rows, c.ids, c.existing))
<1>. DEFINE rows == c.rows
            ids == c.ids
            R == Range(rows)
            existing == c.existing
            plan == planQuantityBreaks(rows, ids, existing)
            good == GoodGroups(rows, ids)
            planned == UNION {p.lines : p \in plan.planned}
            told == LinesIn(plan.errors)
<1>0. rows \in Seq(R) /\ Rising(rows)  BY DEF ImportAsked, Rising
<1>. HIDE DEF rows, ids, R, existing
<1>1. PlansGroups(plan, rows, ids)  BY GroupsPlanned
<1>2. /\ planned = UNION {LinesHeld(g) : g \in good}
      /\ \A g \in GroupsOf(rows) : \A e \in GroupErrors(g, ids) : e \in plan.errors
      /\ \A i \in DOMAIN rows : rows[i].name = "" =>
           \E e \in plan.errors : e.line = rows[i].line
      /\ \A e \in plan.errors :
           \/ \E g \in GroupsOf(rows) : e \in GroupErrors(g, ids)
           \/ \E i \in DOMAIN rows : rows[i].name = "" /\ e.line = rows[i].line
      <2>. HIDE DEF plan
      <2>. QED  BY <1>1 DEF PlansGroups, PlansRules
<1>12. \A g \in good : g \in GroupsOf(rows) /\ GroupErrors(g, ids) = {}
       BY DEF GoodGroups
<1>13. \A g \in GroupsOf(rows) : GroupErrors(g, ids) = {} => g \in good
       BY DEF GoodGroups
<1>. HIDE DEF good
<1>3. \A l : l \in planned <=> \E g \in good : l \in LinesHeld(g)
      <2>. HIDE DEF planned
      <2>. QED  BY <1>2
<1>4. \A l : l \in told <=> \E e \in plan.errors : l = e.line  BY DEF LinesIn
<1>5. \A i \in DOMAIN rows : rows[i] \in R  BY DEF Range, R
<1>. HIDE DEF plan, planned, told
<1>6. /\ \A r, q \in R : r.line = q.line => r = q
      /\ \A g, h \in GroupsOf(rows) : \A l \in LinesHeld(g) \cap LinesHeld(h) : g = h
      /\ \A g \in GroupsOf(rows) : \A k \in DOMAIN g : g[k] \in R /\ g[k].name # ""
      <2>1. /\ \A r, q \in Range(rows) : r.line = q.line => r = q
            /\ \A g, h \in GroupsOf(rows) :
                 \A l \in LinesHeld(g) \cap LinesHeld(h) : g = h
            /\ \A g \in GroupsOf(rows) : \A k \in DOMAIN g :
                 g[k] \in Range(rows) /\ g[k].name # ""
            BY <1>0, GroupsHoldTheirOwn
      <2>. QED  BY <2>1 DEF R
<1>7. \A g \in GroupsOf(rows) : \A e \in GroupErrors(g, ids) : e.line \in LinesHeld(g)
      <2>. TAKE g \in GroupsOf(rows)
      <2>1. 1 \in DOMAIN g  BY <1>0, GroupsAre
      <2>. QED  BY <2>1, GroupIsTold
<1>8. ASSUME NEW l \in planned, l \in told PROVE FALSE
      <2>1. PICK g \in good : l \in LinesHeld(g)  BY <1>3
      <2>2. PICK k \in DOMAIN g : l = g[k].line  BY <2>1 DEF LinesHeld
      <2>3. PICK e \in plan.errors : l = e.line  BY <1>4, <1>8
      <2>4. CASE \E h \in GroupsOf(rows) : e \in GroupErrors(h, ids)
            <3>1. PICK h \in GroupsOf(rows) : e \in GroupErrors(h, ids)  BY <2>4
            <3>2. l \in LinesHeld(h)  BY <1>7, <2>3, <3>1
            <3>3. g = h  BY <1>6, <1>12, <2>1, <3>2
            <3>. QED  BY <1>12, <2>1, <3>1, <3>3
      <2>5. CASE \E i \in DOMAIN rows : rows[i].name = "" /\ e.line = rows[i].line
            <3>1. PICK i \in DOMAIN rows : rows[i].name = "" /\ l = rows[i].line
                  BY <2>3, <2>5
            <3>2. g[k] \in R /\ g[k].name # "" /\ rows[i] \in R
                  BY <1>5, <1>6, <1>12, <2>1
            <3>3. g[k] = rows[i]  BY <1>6, <2>2, <3>1, <3>2
            <3>. QED  BY <3>1, <3>2, <3>3
      <2>. QED  BY <1>2, <2>4, <2>5
<1>9. ASSUME NEW i \in DOMAIN rows, rows[i].line \notin planned \cup told
      PROVE  \E r \in FileRows(rows, told) : r.name = rows[i].name
      <2>. DEFINE g == RowsNamed(rows, rows[i].name)
      <2>1. rows[i].name # ""  BY <1>2, <1>4, <1>9
      <2>2. g \in GroupsOf(rows)  BY <2>1 DEF GroupsOf
      <2>3. Range(g) = {r \in Range(rows) : r.name = rows[i].name}
            BY <1>0, NamedRows
      <2>. HIDE DEF g
      <2>4. rows[i] \in Range(g)  BY <2>3, <1>5 DEF R
      <2>5. PICK k \in DOMAIN g : g[k] = rows[i]  BY <2>4 DEF Range
      <2>6. GroupErrors(g, ids) # {}  BY <1>3, <1>9, <1>13, <2>2, <2>5 DEF LinesHeld
      <2>7. PICK e : e \in GroupErrors(g, ids)  BY <2>6
      <2>8. PICK m \in DOMAIN g : e.line = g[m].line
            BY <1>7, <2>2, <2>7 DEF LinesHeld
      <2>9. g[m].line \in told  BY <1>2, <1>4, <2>2, <2>7, <2>8
      <2>10. g[m] \in Range(rows) /\ g[m].name = rows[i].name  BY <2>3 DEF Range
      <2>11. g[m] \in FileRows(rows, told)  BY <2>9, <2>10 DEF FileRows, Range
      <2>. QED  BY <2>10, <2>11
<1>10. planned \cap told = {}  BY <1>8
<1>. QED  BY <1>9, <1>10 DEF NoLineLost, planned, told, plan, rows, ids, existing

\* What a file of quantity breaks plans is sound, and means all it names.
LEMMA GroupsTell ==
    ASSUME NEW c, ImportAsked(c)
    PROVE  LET plan == planQuantityBreaks(c.rows, c.ids, c.existing)
           IN  /\ \A p \in plan.planned : validateRule(p.rule)
               /\ AllNamedAreMeant(c, plan)
               /\ TiersAreMeant(c, plan)
<1>. DEFINE rows == c.rows
            ids == c.ids
            existing == c.existing
            R == Range(rows)
            plan == planQuantityBreaks(rows, ids, existing)
            good == GoodGroups(rows, ids)
<1>0. rows \in Seq(R) /\ Rising(rows)  BY DEF ImportAsked, Rising
<1>. HIDE DEF rows, ids, existing
<1>1. PlansGroups(plan, rows, ids)  BY GroupsPlanned
<1>. HIDE DEF plan
<1>2. /\ \A p \in plan.planned : \E g \in good :
            p.rule = RuleOfGroup(g, ids) /\ p.lines = LinesHeld(g)
      /\ \A g \in GroupsOf(rows) : \A w \in LastWins(g) : w \in plan.warnings
      BY <1>1 DEF PlansGroups, PlansRules
<1>8. \A g \in good : g \in GroupsOf(rows) /\ GroupErrors(g, ids) = {}
      BY DEF GoodGroups
<1>. HIDE DEF good
<1>3. \A r, q \in R : r.line = q.line => r = q
      <2>1. /\ \A r, q \in Range(rows) : r.line = q.line => r = q
            /\ \A g, h \in GroupsOf(rows) :
                 \A l \in LinesHeld(g) \cap LinesHeld(h) : g = h
            /\ \A g \in GroupsOf(rows) : \A k \in DOMAIN g :
                 g[k] \in Range(rows) /\ g[k].name # ""
            BY <1>0, GroupsHoldTheirOwn
      <2>. QED  BY <2>1
<1>4. \A g \in good :
         /\ g \in Seq(R) /\ Rising(g) /\ Range(g) \subseteq R
         /\ 1 \in DOMAIN g /\ Min(LinesHeld(g)) = g[1].line
         /\ BaseErrors(g[1], ids) = {} /\ validateRule(RuleOfGroup(g, ids))
         /\ \A i \in DOMAIN g : g[i].min.is = "number" =>
              HasAmount(g[i]) /\ "bad" \notin {g[i].max.is, g[i].value.is}
      <2>. TAKE g \in good
      <2>1. PICK name : /\ name # "" /\ g = RowsNamed(rows, name)
                        /\ Range(g) = {r \in Range(rows) : r.name = name}
                        /\ g \in Seq(R) /\ Rising(g)
                        /\ 1 \in DOMAIN g /\ Min(LinesHeld(g)) = g[1].line
            BY <1>0, <1>8, GroupsAre
      <2>2. /\ BaseErrors(g[1], ids) = {} /\ validateRule(RuleOfGroup(g, ids))
            /\ \A i \in DOMAIN g : g[i].min.is = "number" =>
                 HasAmount(g[i]) /\ "bad" \notin {g[i].max.is, g[i].value.is}
            <3>1. GroupErrors(g, ids) = {}  BY <1>8
            <3>. QED  BY <3>1, GroupIsGood
      <2>. QED  BY <2>1, <2>2
<1>5. \A p \in plan.planned : validateRule(p.rule)
      BY <1>2, <1>4
<1>6. AllNamedAreMeant(c, plan)
      <2>. SUFFICES ASSUME NEW p \in plan.planned,
                           NEW r \in FileRows(rows, {Min(p.lines)}), NamesSkus(r)
                    PROVE  /\ r.skus \subseteq DOMAIN ids
                           /\ p.rule.targets.ids = {ids[k] : k \in r.skus}
           BY DEF AllNamedAreMeant, rows, ids
      <2>1. PICK g \in good : p.rule = RuleOfGroup(g, ids) /\ p.lines = LinesHeld(g)
            BY <1>2
      <2>2. r \in R /\ r.line = g[1].line  BY <1>4, <2>1 DEF FileRows, Range
      <2>3. r = g[1]  BY <1>3, <1>4, <2>2 DEF Range
      <2>4. BaseErrors(r, ids) = {}  BY <2>3, <1>4
      <2>5. r.skus \subseteq DOMAIN ids
            /\ readTargets(r, ids).ids = {ids[k] : k \in r.skus}
            BY <2>4, NamedAreMeant
      <2>6. p.rule.targets = readTargets(r, ids)
            <3>1. RuleOfGroup(g, ids) = Priced(baseFields(r, ids), "volume_tier", TiersOf(g))
                  BY <2>3 DEF RuleOfGroup
            <3>. QED  BY <2>1, <3>1, PricedIs
      <2>. QED  BY <2>5, <2>6
<1>7. TiersAreMeant(c, plan)
      <2>. SUFFICES ASSUME NEW p \in plan.planned,
                           NEW r \in FileRows(rows, p.lines), r.min.is = "number"
                    PROVE  /\ "bad" \notin {r.max.is, r.value.is}
                           /\ \/ \E i \in DOMAIN p.rule.value : p.rule.value[i] = TierOf(r)
                              \/ \E w \in plan.warnings :
                                   w.code = "last_wins" /\ w.line > r.line /\ w.line \in p.lines
           BY DEF TiersAreMeant, rows
      <2>1. PICK g \in good : p.rule = RuleOfGroup(g, ids) /\ p.lines = LinesHeld(g)
            BY <1>2
      <2>0. g \in GroupsOf(rows)  BY <1>8, <2>1
      <2>2. r \in R /\ r.line \in LinesHeld(g)  BY <2>1 DEF FileRows, Range
      <2>3. PICK k \in DOMAIN g : r.line = g[k].line  BY <2>2 DEF LinesHeld
      <2>4. r = g[k]  BY <1>3, <1>4, <2>2, <2>3 DEF Range
      <2>5. "bad" \notin {r.max.is, r.value.is}  BY <1>4, <2>4
      <2>6. p.rule.value = TiersOf(g)
            <3>1. RuleOfGroup(g, ids) = Priced(baseFields(g[1], ids), "volume_tier", TiersOf(g))
                  BY DEF RuleOfGroup
            <3>. QED  BY <2>1, <3>1, PricedIs
      <2>7. \/ TierOf(g[k]) \in Range(TiersOf(g))
            \/ Outdone(g, k, Len(g))
            <3>1. g \in Seq(R) /\ g[k].min.is = "number"
                  /\ \A i \in DOMAIN g : g[i].min.is = "number" => HasAmount(g[i])
                  BY <1>4, <2>4
            <3>. HIDE DEF R
            <3>. QED  BY <3>1, TiersAreThere
      <2>8. CASE TierOf(g[k]) \in Range(TiersOf(g))
            <3>1. \E i \in DOMAIN TiersOf(g) : TiersOf(g)[i] = TierOf(g[k])
                  BY <2>8 DEF Range
            <3>. QED  BY <3>1, <2>4, <2>5, <2>6
      <2>9. CASE Outdone(g, k, Len(g))
            <3>1. PICK m \in Nat : m = Len(g) /\ DOMAIN g = 1 .. m  BY <1>4
            <3>2. PICK j \in k + 1 .. m : /\ g[j].min.is = "number"
                                          /\ g[j].min.n = g[k].min.n
                  BY <2>9, <3>1 DEF Outdone
            <3>3. j \in DOMAIN g /\ k \in 1 .. j - 1 /\ k < j  BY <3>1
            <3>4. g[k].min = g[j].min
                  <4>1. \A q \in R : q.min = [is |-> q.min.is, n |-> q.min.n]
                        BY DEF ImportAsked, R, rows, Range
                  <4>2. g[k] \in R /\ g[j] \in R  BY <1>4, <3>3 DEF Range
                  <4>. QED  BY <4>1, <4>2, <3>2, <2>4
            <3>5. g[j].line > r.line
                  <4>1. g[k].line \in Nat /\ g[j].line \in Nat /\ g[k].line < g[j].line
                        BY <1>4, <3>3 DEF Rising
                  <4>. QED  BY <4>1, <2>4
            <3>. DEFINE w == [line |-> g[j].line, code |-> "last_wins"]
            <3>6. w \in LastWins(g)
                  <4>. DEFINE again(x) == /\ g[x].min.is = "number"
                                          /\ \E i \in 1 .. x - 1 : g[i].min = g[x].min
                  <4>1. again(j)  BY <3>2, <3>3, <3>4
                  <4>2. LastWins(g) = UNION {Report(g[x].line, "last_wins", again(x)) :
                                             x \in DOMAIN g}
                        BY DEF LastWins
                  <4>3. w \in Report(g[j].line, "last_wins", again(j))
                        <5>. HIDE DEF again
                        <5>. QED  BY <4>1 DEF Report
                  <4>. HIDE DEF again, w
                  <4>. QED  BY <4>2, <4>3, <3>3
            <3>7. w.line = g[j].line /\ w.code = "last_wins"  OBVIOUS
            <3>. HIDE DEF w
            <3>8. w \in plan.warnings  BY <1>2, <2>0, <3>6
            <3>9. w.line \in p.lines  BY <2>1, <3>3, <3>7 DEF LinesHeld
            <3>. QED  BY <2>5, <3>5, <3>7, <3>8, <3>9
      <2>. QED  BY <2>7, <2>8, <2>9
<1>. QED  BY <1>5, <1>6, <1>7 DEF plan, rows, ids, existing

(***************************************************************************)
(* An import of rules is answered line by line: whatever file is read, a   *)
(* rule planned is sound, no line passes in silence, the products a rule's *)
(* first line names are all meant, a tier is in its rule or told to have   *)
(* been replaced, and a name's rules are those of a file of that name      *)
(* alone (csv/plan.ts).                                                    *)
(***************************************************************************)
THEOREM ImportAlwaysTells == EnginesSpec => []ImportTells
<1>1. QuestionAsked => ImportTells
      <2>. SUFFICES ASSUME QuestionAsked, question.engine = "import"
                    PROVE  ImportTells
           BY DEF ImportTells
      <2>. DEFINE c == question.case
                  plan == planImport(c.template, c.rows, c.ids, c.existing)
      <2>1. c \in ImportCases  BY DEF QuestionAsked
      <2>2. ImportAsked(c)  BY <2>1, QuestionsAssumption
      <2>3. c.rows \in Seq(Range(c.rows))  BY <2>2 DEF ImportAsked
      <2>. HIDE DEF c
      <2>4. CASE c.template = "quantity_breaks"
            <3>1. \A rows : planImport(c.template, rows, c.ids, c.existing)
                              = planQuantityBreaks(rows, c.ids, c.existing)
                  BY <2>4 DEF planImport
            <3>2. /\ \A p \in plan.planned : validateRule(p.rule)
                  /\ AllNamedAreMeant(c, plan)
                  /\ TiersAreMeant(c, plan)
                  <4>1. plan = planQuantityBreaks(c.rows, c.ids, c.existing)
                        BY <3>1
                  <4>. HIDE DEF plan
                  <4>2. LET made == planQuantityBreaks(c.rows, c.ids, c.existing)
                        IN  /\ \A p \in made.planned : validateRule(p.rule)
                            /\ AllNamedAreMeant(c, made)
                            /\ TiersAreMeant(c, made)
                        BY <2>2, GroupsTell
                  <4>. QED  BY <4>1, <4>2
            <3>3. NoLineLost(c, plan)  BY <2>2, <3>1, GroupsLoseNoLine
            <3>4. NamesApart(c, plan)
                  <4>1. RulesPlanned(planQuantityBreaks(c.rows, c.ids, c.existing)) =
                          UNION {RulesPlanned(planQuantityBreaks(RowsNamed(c.rows, name),
                                                                 c.ids, c.existing)) :
                                 name \in {c.rows[i].name : i \in DOMAIN c.rows}}
                        BY <2>3, GroupsApart
                  <4>. QED  BY <3>1, <4>1 DEF NamesApart
            <3>. HIDE DEF plan
            <3>5. /\ \A p \in plan.planned : validateRule(p.rule)
                  /\ NoLineLost(c, plan)
                  /\ AllNamedAreMeant(c, plan)
                  /\ c.template = "quantity_breaks" => TiersAreMeant(c, plan)
                  /\ NamesApart(c, plan)
                  BY <3>2, <3>3, <3>4
            <3>. QED  BY <3>5, Zenon DEF ImportTells, plan, c
      <2>5. CASE c.template # "quantity_breaks"
            <3>1. \A rows : planImport(c.template, rows, c.ids, c.existing)
                              = planRulesTemplate(rows, c.ids, c.existing)
                  BY <2>5 DEF planImport
            <3>2. /\ \A p \in plan.planned : validateRule(p.rule)
                  /\ NoLineLost(c, plan)
                  /\ AllNamedAreMeant(c, plan)
                  <4>1. plan = planRulesTemplate(c.rows, c.ids, c.existing)  BY <3>1
                  <4>. HIDE DEF plan
                  <4>2. LET made == planRulesTemplate(c.rows, c.ids, c.existing)
                        IN  /\ \A p \in made.planned : validateRule(p.rule)
                            /\ NoLineLost(c, made)
                            /\ AllNamedAreMeant(c, made)
                        BY <2>2, RulesTell
                  <4>. QED  BY <4>1, <4>2
            <3>3. NamesApart(c, plan)
                  <4>1. RulesPlanned(planRulesTemplate(c.rows, c.ids, c.existing)) =
                          UNION {RulesPlanned(planRulesTemplate(RowsNamed(c.rows, name),
                                                                c.ids, c.existing)) :
                                 name \in {c.rows[i].name : i \in DOMAIN c.rows}}
                        BY <2>3, RulesApart
                  <4>. QED  BY <3>1, <4>1 DEF NamesApart
            <3>. HIDE DEF plan
            <3>4. /\ \A p \in plan.planned : validateRule(p.rule)
                  /\ NoLineLost(c, plan)
                  /\ AllNamedAreMeant(c, plan)
                  /\ c.template = "quantity_breaks" => TiersAreMeant(c, plan)
                  /\ NamesApart(c, plan)
                  BY <3>2, <3>3, <2>5
            <3>. QED  BY <3>4, Zenon DEF ImportTells, plan, c
      <2>. QED  BY <2>4, <2>5
<1>. QED  BY <1>1, QuestionsAreAsked, PTL

(***************************************************************************)
(* What the smaller engines answer can be acted on, whatever is asked of   *)
(* them: the nine theorems above, where no shop's clock is a day off.      *)
(***************************************************************************)
THEOREM AnswersAlwaysHold ==
    ASSUME \A c \in ScheduleCases : c.zone \in -12 .. 11,
           \A c \in CartCases : c.zone \in -12 .. 11
    PROVE  EnginesSpec => []AnswersHold
<1>1. EnginesSpec => []RunsOnItsDays  BY SchedulesKeepTheirDays
<1>2. EnginesSpec => []ShownIsCharged  BY ShownIsAlwaysCharged
<1>3. /\ AdviceWorks /\ TermsAgree /\ TagsSettle
      /\ ImportTells /\ ApprovalNarrows
      /\ ShownIsCharged /\ RunsOnItsDays /\ BlocksAlike /\ PayLaterAgrees
      => AnswersHold
      BY DEF AnswersHold
<1>. QED  BY <1>1, <1>2, <1>3, AdviceAlwaysWorks, TermsAlwaysAgree,
             TagsAlwaysSettle,
             ImportAlwaysTells, ApprovalAlwaysNarrows, BlocksAlwaysAlike,
             PayLaterAlwaysAgrees, PTL
=============================================================================
