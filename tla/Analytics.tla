------------------------------ MODULE Analytics ------------------------------
(***************************************************************************)
(* What the shop is told of its own figures (lib/analytics, orders/totals):*)
(* the charts, Home's cards and the monthly review, read from the same     *)
(* rows.  Pure: no variables.  Time is in hours.  A zone is the hours it is*)
(* ahead of UTC before and after its clocks change, and when they do; days *)
(* are numbers.  An order is a record of id, at, amount, paid, isPaid, due,*)
(* wholesale, cancelled, currency, buyer and lines; the shop's currency is *)
(* "usd".  What may be null is a sequence of at most one element.          *)
(***************************************************************************)
EXTENDS Integers, Sequences, SequencesExt, FiniteSetsExt, NetTerms

CONSTANTS
    MaxOrders,    \* orders one view reads: MAX_ORDERS
    TopRows       \* rows a chart names before the rest is one: TOP_ROWS

DAY == 24

OwnCurrency == "usd"

(* orders/totals.ts: a total is already net of refunds.                    *)
revenueOf(order) == Max({0, order.amount})
owedOn(order) == Max({0, order.amount - order.paid})

(***************************************************************************)
(* Days (series.server.ts)                                                 *)
(***************************************************************************)
Ahead(at, zone) == IF at < zone.changes THEN zone.before ELSE zone.after

localDay(at, zone) == (at + Ahead(at, zone)) \div DAY

(* The first instant of a day, sought between two that are either side.    *)
firstInstantOf(day, zone) ==
    Min({at \in DAY * (day - 2) .. DAY * (day + 2) : localDay(at, zone) >= day})

(* Back an hour at a time while it is the same day.                        *)
startOfLocalDay(at, zone) ==
    Min({t \in at - 2 * DAY .. at :
           \A u \in t .. at : localDay(u, zone) = localDay(at, zone)})

(* Walked in steps of twelve hours, so that no day is skipped.             *)
daysBetween(start, end, zone) ==
    {localDay(start + 12 * n, zone) :
       n \in {m \in 0 .. (end - start) \div 12 + 3 :
                localDay(start + 12 * m, zone) <= localDay(end, zone)}}

(* One bucket for each day, empty ones too; what is on no day is dropped.  *)
bucketByDay(orders, days, zone) ==
    [d \in days |-> MapThenSumSet(revenueOf, {o \in orders : localDay(o.at, zone) = d})]

countByDay(orders, days, zone) ==
    [d \in days |-> Cardinality({o \in orders : localDay(o.at, zone) = d})]

TotalOfPoints(points) == MapThenSumSet(LAMBDA d : points[d], DOMAIN points)

(* The biggest few and the rest in one row.  `rows` gives each key its     *)
(* value; equal ones stand in an order of their own.                       *)
topWithRest(rows, limit) ==
    LET sorted == SetToSortSeq(DOMAIN rows, LAMBDA a, b : rows[a] > rows[b])
        entry(i) == [key |-> sorted[i], value |-> rows[sorted[i]], isRest |-> FALSE]
        rest == MapThenSumSet(LAMBDA i : rows[sorted[i]], limit + 1 .. Len(sorted))
        named == [i \in 1 .. Min({limit, Len(sorted)}) |-> entry(i)]
    IN  IF rest <= 0 THEN named
        ELSE Append(named, [key |-> "__rest", value |-> rest, isRest |-> TRUE])

RankedTotal(rows) == MapThenSumSet(LAMBDA i : rows[i].value, DOMAIN rows)

(***************************************************************************)
(* The charts (charts.server.ts)                                           *)
(***************************************************************************)
ChartStart(range, now, zone) == startOfLocalDay(now - (range - 1) * DAY, zone)

(* The newest MaxOrders of the window, in the shop's own currency.         *)
OrdersRead(orders, start, now) ==
    LET inWindow == {o \in orders : /\ start <= o.at /\ o.at <= now
                                    /\ ~o.cancelled /\ o.currency = OwnCurrency}
        newest == SetToSortSeq(inWindow,
                    LAMBDA a, b : a.at > b.at \/ (a.at = b.at /\ a.id < b.id))
    IN  [read |-> ToSet(SubSeq(newest, 1, Min({MaxOrders, Len(newest)}))),
         capped |-> Len(newest) > MaxOrders]

(* What is owed on terms: not of a window.                                 *)
Outstanding(orders) ==
    {o \in orders : /\ o.wholesale /\ ~o.cancelled /\ ~o.isPaid
                    /\ o.currency = OwnCurrency /\ o.due # << >>}

Keyed(orders, key(_)) ==
    [k \in {key(o) : o \in orders} |->
       MapThenSumSet(revenueOf, {o \in orders : key(o) = k})]

(* A buyer in no group is a row of its own.                                *)
revenueByGroup(orders, groupOf) ==
    LET key(o) == IF o.buyer = << >> \/ o.buyer[1] \notin DOMAIN groupOf
                  THEN "__ungrouped" ELSE groupOf[o.buyer[1]]
    IN  topWithRest(Keyed(orders, key), TopRows)

topBuyers(orders) ==
    LET key(o) == IF o.buyer = << >> THEN "name:" ELSE o.buyer[1]
    IN  topWithRest(Keyed(orders, key), TopRows)

LinesOf(orders) == UNION {o.lines : o \in orders}

topProducts(lines) ==
    topWithRest([p \in {l.product : l \in lines} |->
                   MapThenSumSet(LAMBDA l : l.currentTotal, {l \in lines : l.product = p})],
                TopRows)

(* By the name the buyer saw; a line that went back earned its rule nothing*)
rulePerformance(lines, known) ==
    LET kept == {l \in lines : l.current > 0}
        by(title) == {l \in kept : \E i \in DOMAIN l.discounts :
                                      l.discounts[i].title = title}
        off(title, l) == MapThenSumSet(LAMBDA i : l.discounts[i].amount,
                           {i \in DOMAIN l.discounts :
                              l.discounts[i].title = title})
        times(title, l) == Cardinality({i \in DOMAIN l.discounts :
                                          l.discounts[i].title = title})
    IN  [title \in UNION {{l.discounts[i].title : i \in DOMAIN l.discounts} :
                          l \in kept} |->
           [value |-> MapThenSumSet(LAMBDA l : l.currentTotal * times(title, l), by(title)),
            lines |-> MapThenSumSet(LAMBDA l : times(title, l), by(title)),
            discounted |-> MapThenSumSet(LAMBDA l : off(title, l), by(title)),
            stillExists |-> title \in known]]

(* The same applicants at every step: those who applied in the window.  Of *)
(* a buyer who applied twice either application may be the one read last.  *)
FunnelSteps(applications, orders, start, now) ==
    LET submitted == {a \in applications : start <= a.at /\ a.at <= now}
        approved == {a \in submitted : a.status = "APPROVED"}
        buyers == {a.buyer[1] : a \in {b \in approved : b.buyer # << >>}}
        ordered(appliedAt) ==
            {b \in buyers : \E o \in orders :
               /\ o.wholesale /\ ~o.cancelled /\ o.buyer = <<b>>
               /\ o.at >= appliedAt[b]}
    IN  {[submitted |-> Cardinality(submitted), approved |-> Cardinality(approved),
          ordered |-> Cardinality(ordered(appliedAt))] :
         appliedAt \in {f \in [buyers -> {a.at : a \in approved}] :
            \A b \in buyers : \E a \in approved :
               a.buyer = <<b>> /\ a.at = f[b]}}

InvoiceOf(order) ==
    [amount |-> revenueOf(order), paid |-> order.paid, isPaid |-> order.isPaid,
     dueAt |-> <<order.due[1] \div DAY>>]

agingFor(orders, now) ==
    LET due == SetToSeq({[id |-> o.id, invoice |-> InvoiceOf(o)] : o \in orders})
    IN  summariseAging([i \in DOMAIN due |-> due[i].invoice], now \div DAY)

loadAnalytics(shop, range, now) ==
    LET start == ChartStart(range, now, shop.zone)
        answer == OrdersRead(shop.orders, start, now)
        wholesale == {o \in answer.read : o.wholesale}
        retail == answer.read \ wholesale
        days == daysBetween(start, now, shop.zone)
    IN  [start |-> start, days |-> days, ordersCapped |-> answer.capped,
         excluded |-> Cardinality({o \in shop.orders :
             start <= o.at /\ o.at <= now /\ ~o.cancelled
               /\ o.currency # OwnCurrency}),
         revenue |-> [wholesale |-> bucketByDay(wholesale, days, shop.zone),
                      retail |-> bucketByDay(retail, days, shop.zone)],
         orderCounts |-> [wholesale |-> countByDay(wholesale, days, shop.zone),
                          retail |-> countByDay(retail, days, shop.zone)],
         byGroup |-> revenueByGroup(wholesale, shop.groupOf),
         topBuyers |-> topBuyers(wholesale),
         topProducts |-> topProducts(LinesOf(wholesale)),
         rules |-> rulePerformance(LinesOf(wholesale), shop.rules),
         funnel |-> FunnelSteps(shop.applications, shop.orders, start, now),
         aging |-> agingFor(Outstanding(shop.orders), now)]

(* A named row of a chart and its rank (answer.server.ts); the rest is none*)
rankedAnswer(rows, focus) ==
    LET real == SelectSeq(rows, LAMBDA r : ~r.isRest)
        hits == {i \in DOMAIN real : real[i].key = focus}
    IN  IF hits = {} THEN << >>
        ELSE <<[rank |-> Min(hits), value |-> real[Min(hits)].value]>>

(***************************************************************************)
(* Home's cards (kpis.server.ts): a period is so many times 24 hours.      *)
(***************************************************************************)
loadKpis(shop, period, now) ==
    LET wholesale == {o \in shop.orders : o.wholesale /\ ~o.cancelled}
        since(start) == {o \in wholesale : o.at >= start}
        own(orders) == {o \in orders : o.currency = OwnCurrency}
        current == since(now - period * DAY)
        previous == since(now - 2 * period * DAY) \ current
    IN  [revenue |-> MapThenSumSet(LAMBDA o : o.amount, own(current)),
         previousRevenue |-> MapThenSumSet(LAMBDA o : o.amount, own(previous)),
         orders |-> Cardinality(current), previousOrders |-> Cardinality(previous),
         outstanding |-> MapThenSumSet(owedOn,
             {o \in own(wholesale) : ~o.isPaid /\ o.due # << >>})]

(***************************************************************************)
(* The monthly review (review.server.ts): a calendar month of the shop's   *)
(* own zone.  `calendar` gives the first day of each month.                *)
(***************************************************************************)
monthStart(month, calendar, zone) == firstInstantOf(calendar[month], zone)

monthOf(at, calendar, zone) ==
    Max({m \in DOMAIN calendar : calendar[m] <= localDay(at, zone)})

monthFacts(shop, month, calendar, now) ==
    LET from(m) == monthStart(m, calendar, shop.zone)
        ours == {o \in shop.orders : ~o.cancelled /\ o.currency = OwnCurrency}
        placed(m) == {o \in ours : from(m) <= o.at /\ o.at < from(m + 1)}
        wholesale(m) == {o \in placed(m) : o.wholesale}
        buyers(m) == {o.buyer[1] : o \in {p \in wholesale(m) : p.buyer # << >>}}
        owed == {o \in ours : o.wholesale /\ ~o.isPaid /\ o.due # << >>}
    IN  [wholesaleRevenue |-> MapThenSumSet(revenueOf, wholesale(month)),
         retailRevenue |-> MapThenSumSet(revenueOf, placed(month) \ wholesale(month)),
         wholesaleOrders |-> Cardinality(wholesale(month)),
         buyers |-> Cardinality(buyers(month)),
         newBuyers |-> Cardinality(buyers(month) \ buyers(month - 1)),
         quietBuyers |-> Cardinality(buyers(month - 1) \ buyers(month)),
         buyersBefore |-> Cardinality(buyers(month - 1)),
         owedNow |-> MapThenSumSet(owedOn, owed),
         overdueNow |-> MapThenSumSet(owedOn, {o \in owed : o.due[1] < now})]
=============================================================================
