-------------------------------- MODULE Reports --------------------------------
(***************************************************************************)
(* What the merchant reads, asked one question each: the lines of an order *)
(* by whichever door it came, the activity feed page after page, who is in *)
(* a segment, and the shop's own figures on three pages.  A behaviour asks *)
(* one question of the sets below and stops.                               *)
(***************************************************************************)
EXTENDS OrderDoors, Feed, Segments, Analytics

CONSTANTS
    DoorCases,    \* records of order, and doors (a sequence of payloads' kinds)
    FeedCases,    \* records of rows, limit and ask
    SegmentCases, \* records of conditions, customers and now
    ChartCases    \* records of shop, range and now

VARIABLE inquiry

NotAsked == [about |-> "none", case |-> << >>]

Inquire(about, cases) ==
    /\ inquiry = NotAsked
    /\ \E c \in cases : inquiry' = [about |-> about, case |-> c]

AskDoors == Inquire("doors", DoorCases)
AskFeed == Inquire("feed", FeedCases)
AskSegment == Inquire("segment", SegmentCases)
AskCharts == Inquire("charts", ChartCases)

ReportsInit == inquiry = NotAsked
ReportsNext == AskDoors \/ AskFeed \/ AskSegment \/ AskCharts

(***************************************************************************)
(* Doors: an order says the same by both, as far as both carry it; what is *)
(* left of a line is never more than was charged for it, nor do its parts  *)
(* add up to more; and what is held of an order is the whole of it or is   *)
(* flagged, and once each, whichever payloads came in which order.  An     *)
(* order first heard of in a payload without lines is left out: its row is *)
(* not flagged and has none.                                               *)
(***************************************************************************)
FactsBy(door, order) ==
    CASE door = "node" -> factsFromNode(NodeOf(order))
      [] door = "webhook" -> factsFromWebhook(PayloadOf(order))
      [] door = "bare" -> factsFromWebhook([PayloadOf(order) EXCEPT !.lines = << >>])

Figures(facts) ==
    [k \in {"total", "refunded", "totalQuantity", "source"} |-> facts[k]]

(* A draft order's discounts are unnamed by the one, not there by the other*)
SameByBothDoors(order, node, webhook) ==
    LET carried == Min({Len(node.lines), Len(webhook.lines)})
    IN  /\ ~webhook.linesTruncated => Figures(node) = Figures(webhook)
        /\ \A i \in 1 .. carried :
             \/ node.lines[i] = webhook.lines[i]
             \/ /\ order.isDraft
                /\ [node.lines[i] EXCEPT !.discounts = webhook.lines[i].discounts]
                     = webhook.lines[i]

NeverMoreThanCharged(door, lines) ==
    \A i \in DOMAIN lines :
        LET line == lines[i]
            left(n) == currentTotalOf(line.discounted, line.quantity, n)
        IN  /\ line.currentTotal <= line.discounted
            /\ line.discounted <= line.original
            /\ door = "webhook" =>
                 line.original - line.discounted
                   = Min({line.original, AmountOff(line.discounts)})
            /\ \A n \in 0 .. line.quantity :
                 left(n) + left(line.quantity - n) <= line.discounted

HeldAfter(order, doors) ==
    FoldLeft(LAMBDA row, door : linesHeld(row, FactsBy(door, order)),
             << >>, doors)

WholeOrFlagged(order, doors, row) ==
    LET ids == {order.lines[i].id : i \in DOMAIN order.lines}
    IN  IsThere(row) /\ Head(doors) # "bare" =>
            /\ \A k, l \in row[1].lines : k.id = l.id => k = l
            /\ row[1].truncated \/ {l.id : l \in row[1].lines} = ids

DoorsAgree ==
    inquiry.about = "doors" =>
        LET c == inquiry.case
        IN  /\ SameByBothDoors(c.order, FactsBy("node", c.order),
                               FactsBy("webhook", c.order))
            /\ \A door \in {"node", "webhook"} :
                 NeverMoreThanCharged(door, FactsBy(door, c.order).lines)
            /\ WholeOrFlagged(c.order, c.doors, HeldAfter(c.order, c.doors))

(***************************************************************************)
(* Feed: page after page shows each row that was asked for once, newest    *)
(* first, clusters of one instant included: unless an entry and an order   *)
(* share theirs, when the merge and the cursor go by different ids.        *)
(***************************************************************************)
ShownWhole(c, shown) ==
    LET mixed == \E r, s \in c.rows : r.table # s.table /\ r.at = s.at
    IN  /\ ~mixed =>
             /\ ToSet(shown) = {r \in c.rows : Chosen(r, c.ask)}
             /\ Cardinality(ToSet(shown)) = Len(shown)
             /\ \A i \in 2 .. Len(shown) : shown[i].at <= shown[i - 1].at
        /\ rangeIsInverted(c.ask) => shown = << >>

FeedIsWhole ==
    inquiry.about = "feed" =>
        LET c == inquiry.case
        IN  ShownWhole(c, PagesOf(c.rows, c.limit, c.ask).shown)

(***************************************************************************)
(* Segments: one that is saved reads back as it was; a condition more      *)
(* never lets anyone in; when none match, the one it is said to loosen is  *)
(* that which lets in most, and none is said only where none helps; nobody *)
(* both never ordered and ordered so long ago.                             *)
(***************************************************************************)
SegmentsHold ==
    inquiry.about = "segment" =>
        LET c == inquiry.case
            read == readConditions(c.conditions)
            In(conditions) == MembersOf(conditions, c.customers, c.now)
            preview == previewSegment(read, c.customers, c.now)
            saved == saveSegment(read, c.customers, c.now)
            fields == {read[i].field : i \in DOMAIN read}
        IN  /\ \A i \in DOMAIN read : In(read) \subseteq In(Without(read, i))
            /\ saved # << >> => readConditions(saved[1].conditions) = read
            /\ In(read) = {} /\ Len(read) > 1 =>
                 LET loosened(i) == Cardinality(In(Without(read, i)))
                 IN  IF preview.loosen = << >>
                     THEN \A i \in DOMAIN read : loosened(i) = 0
                     ELSE /\ loosened(preview.loosen[1]) > 0
                          /\ \A i \in DOMAIN read :
                               loosened(i) <= loosened(preview.loosen[1])
            /\ {"never_ordered", "last_order_days"} \subseteq fields
                 => In(read) = {}
            /\ \A n \in 0 .. Cardinality(c.customers) :
                 \E chosen \in SUBSET In(read) :
                   IsAudience(chosen, read, c.customers, c.now, n)

(***************************************************************************)
(* Charts: the parts of a chart add up to the whole of it, as the chart    *)
(* beside it has it; a window is as many days as it says, unless the       *)
(* clocks change; a funnel never widens; and the three pages that show one *)
(* figure agree on it.                                                     *)
(***************************************************************************)
ClocksChange(shop) == shop.zone.before # shop.zone.after

PartsAddUp(chart) ==
    LET whole == TotalOfPoints(chart.revenue.wholesale)
    IN  whole = RankedTotal(chart.byGroup) /\ whole = RankedTotal(chart.topBuyers)

NoneFallsOut(shop, chart, now) ==
    LET read == OrdersRead(shop.orders, chart.start, now).read
    IN  /\ TotalOfPoints(chart.orderCounts.wholesale)
             + TotalOfPoints(chart.orderCounts.retail) = Cardinality(read)
        /\ chart.days = localDay(chart.start, shop.zone) .. localDay(now, shop.zone)

FunnelNarrows(chart) ==
    \A f \in chart.funnel : f.submitted >= f.approved /\ f.approved >= f.ordered

RanksHold(rows) ==
    \A i \in DOMAIN rows :
        LET told == rankedAnswer(rows, rows[i].key)
        IN  ~rows[i].isRest =>
              /\ IsThere(told) /\ told[1].value = rows[i].value
              /\ Cardinality({j \in DOMAIN rows :
                    ~rows[j].isRest /\ rows[j].value > told[1].value}) < told[1].rank

(* Home, the ledger's aging and the review on one debt; and on an order's  *)
(* revenue, as far as their windows are the same.                          *)
PagesAgree(shop, chart, range, now) ==
    LET card == loadKpis(shop, range, now)
        calendar == shop.calendar
        month == monthOf(now, calendar, shop.zone)
        review(m) == monthFacts(shop, m, calendar, now)
        late == chart.aging.overdue
        \* a review is of the months there are on both sides of it
        Reviewed == Min(DOMAIN calendar) + 1 .. Max(DOMAIN calendar) - 1
    IN  /\ chart.aging.outstanding = card.outstanding
        /\ \A m \in Reviewed :
             LET facts == review(m)
             IN  /\ facts.owedNow = card.outstanding
                 /\ late <= facts.overdueNow /\ facts.overdueNow <= facts.owedNow
                 /\ facts.buyers - facts.newBuyers
                      = facts.buyersBefore - facts.quietBuyers
        /\ ~ClocksChange(shop) /\ ~chart.ordersCapped =>
             TotalOfPoints(chart.revenue.wholesale) <= card.revenue

EachOrderInItsMonth(shop) ==
    \A o \in shop.orders :
        {m \in DOMAIN shop.calendar \ {Max(DOMAIN shop.calendar)} :
           /\ monthStart(m, shop.calendar, shop.zone) <= o.at
           /\ o.at < monthStart(m + 1, shop.calendar, shop.zone)}
          = {monthOf(o.at, shop.calendar, shop.zone)}
              \ {Max(DOMAIN shop.calendar)}

ChartsAddUp ==
    inquiry.about = "charts" =>
        LET c == inquiry.case
            chart == loadAnalytics(c.shop, c.range, c.now)
        IN  /\ PartsAddUp(chart)
            /\ NoneFallsOut(c.shop, chart, c.now)
            /\ ~ClocksChange(c.shop) => Cardinality(chart.days) = c.range
            /\ FunnelNarrows(chart)
            /\ RanksHold(chart.byGroup) /\ RanksHold(chart.topBuyers)
            /\ PagesAgree(c.shop, chart, c.range, c.now)
            /\ EachOrderInItsMonth(c.shop)

(* What the merchant reads of the shop is whole, and the same wherever it  *)
(* is read.                                                                *)
ReportsHold == DoorsAgree /\ FeedIsWhole /\ SegmentsHold /\ ChartsAddUp
=============================================================================
