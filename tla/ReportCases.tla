------------------------------ MODULE ReportCases ------------------------------
(***************************************************************************)
(* The questions of Reports: small orders, feeds, customers and shops in   *)
(* which every branch of what is read of them is taken.                    *)
(***************************************************************************)
EXTENDS Reports

(***************************************************************************)
(* Doors: of one line to four, with discounts that have a name, a code or  *)
(* neither, and lines returned in part or altogether.                      *)
(***************************************************************************)
Off(at, amount) == [at |-> at, amount |-> amount]
OrderLine(id, quantity, current, unit, off) ==
    [id |-> id, product |-> "p", quantity |-> quantity, current |-> current,
     unit |-> unit, off |-> off]

DoorLines ==
    { OrderLine("", 3, Nothing, 5, << >>),
      OrderLine("", 3, <<2>>, 5, <<Off(1, 4)>>),
      OrderLine("", 4, <<0>>, 5, <<Off(2, 1), Off(3, 2)>>),
      OrderLine("", 5, <<3>>, 7, <<Off(1, 30), Off(2, 5)>>),
      OrderLine("", 0, <<2>>, 7, << >>) }

DoorOrder(lines, isDraft, currency, name, attribute) ==
    [lines |-> [i \in DOMAIN lines |-> [lines[i] EXCEPT !.id = ToString(i)]],
     isDraft |-> isDraft, currency |-> currency, total |-> 40, refunded |-> 5,
     applications |-> <<<<"gold">>, Nothing, <<"CODE">>>>,
     sourceName |-> name, attribute |-> attribute]

MCDoorCases ==
    { [order |-> DoorOrder(lines, d, "jpy", Nothing, Nothing),
       doors |-> <<"node">>] :
      lines \in {<<l, m>> : l, m \in DoorLines}, d \in BOOLEAN }
    \cup
    { [order |-> DoorOrder([i \in 1 .. n |-> OrderLine("", 3, <<2>>, 5, <<Off(1, 4)>>)],
                           FALSE, "usd", name, attribute),
       doors |-> doors] :
      n \in 1 .. 4, name \in {Nothing, <<"web">>, <<"pos">>, <<"x">>},
      attribute \in {Nothing, <<"quick_order">>, <<"x">>},
      doors \in UNION {[1 .. k -> {"node", "webhook", "bare"}] : k \in 1 .. 3} }

(***************************************************************************)
(* Feed: of up to five rows, some of one transaction and so of one instant.*)
(***************************************************************************)
FeedRow(table, family, actor, id, at) ==
    [table |-> table, family |-> family, actor |-> actor, id |-> id, at |-> at,
     wholesale |-> TRUE]

FeedRows ==
    { FeedRow("audit", "pricing_rule", "staff", 1, 1),
      FeedRow("audit", "quote", "staff", 2, 1),
      FeedRow("audit", "form", "system", 3, 1),
      FeedRow("audit", "pricing_rule", "buyer_agent", 4, 3),
      FeedRow("order", "order", "buyer", 1, 1),
      FeedRow("order", "order", "buyer", 2, 2),
      FeedRow("order", "order", "buyer", 3, 2),
      [FeedRow("order", "order", "buyer", 4, 2) EXCEPT !.wholesale = FALSE] }

Wanted(filter, actor, action, from, to) ==
    [filter |-> filter, actor |-> actor, action |-> action, from |-> from, to |-> to]

MCFeedCases ==
    { [rows |-> rows, limit |-> limit, ask |-> ask] :
      rows \in SUBSET FeedRows, limit \in 1 .. 3,
      ask \in {Wanted(f, "anyone", << >>, << >>, << >>) :
                 f \in {"all", "orders", "registrations", "pricing"}}
              \cup {Wanted("all", a, << >>, << >>, << >>) : a \in {"agent", "staff"}}
              \cup {Wanted("all", "anyone", <<"form">>, << >>, << >>),
                    Wanted("all", "anyone", << >>, <<1>>, <<1>>),
                    Wanted("all", "anyone", << >>, << >>, <<0>>),
                    Wanted("all", "anyone", << >>, <<1>>, <<0>>)} }

(***************************************************************************)
(* Segments: of up to three conditions, some of them unreadable, over four *)
(* customers.                                                              *)
(***************************************************************************)
Cond(field, op, value) ==
    [field |-> field, op |-> op, value |-> value, currency |-> "usd"]

Conditions ==
    { Cond("lifetime_spend", "gte", 5), Cond("lifetime_spend", "lt", -1),
      Cond("order_count", "gt", 1), Cond("last_order_days", "gt", 30),
      Cond("last_order_days", "lte", 30), Cond("never_ordered", "", 0),
      Cond("tag", "has", "vip"), Cond("tag", "not_has", "vip"),
      Cond("tag", "has", ""), Cond("group", "is_not", "gold"),
      Cond("country", "is", "us"), Cond("country", "near", "us"),
      Cond("tax_exempt", "", TRUE), Cond("status", "", "APPROVED"),
      Cond("nonsense", "is", "us") }

Buyer(spend, orders, last, tags, group) ==
    [spend |-> spend, currency |-> "usd", orders |-> orders, last |-> last,
     tags |-> tags, group |-> group, country |-> <<"us">>, exempt |-> FALSE,
     status |-> "APPROVED", deleted |-> FALSE]

Buyers ==
    { Buyer(9, 3, <<70>>, {"vip"}, <<"gold">>),
      Buyer(5, 1, <<20>>, {}, <<"silver">>),
      [Buyer(0, 0, << >>, {"vip"}, << >>) EXCEPT !.country = << >>, !.exempt = TRUE],
      [Buyer(7, 2, <<70>>, {}, << >>) EXCEPT !.currency = "eur", !.status = "PENDING"],
      [Buyer(8, 5, <<90>>, {"vip"}, <<"gold">>) EXCEPT !.deleted = TRUE] }

MCSegmentCases ==
    { [conditions |-> c, customers |-> b, now |-> 100] :
      c \in (UNION {[1 .. n -> Conditions] : n \in 0 .. 2})
              \cup {<<Cond("order_count", "gt", 1), d, e>> : d, e \in Conditions},
      b \in {Buyers} \cup {Buyers \ {x} : x \in Buyers} }

(***************************************************************************)
(* Charts: four days of a shop, three months of three days each.           *)
(***************************************************************************)
Zone(before, after) == [before |-> before, after |-> after, changes |-> 131]

ChartOrder(id, at, amount, paid, buyer) ==
    [id |-> id, at |-> at, amount |-> amount, paid |-> paid, isPaid |-> FALSE,
     due |-> << >>, wholesale |-> TRUE, cancelled |-> FALSE, currency |-> "usd",
     buyer |-> buyer,
     lines |-> {[id |-> id, product |-> "p", current |-> 1, currentTotal |-> amount,
                 discounts |-> <<[title |-> "gold", amount |-> 1]>>]}]

ChartOrders ==
    { [ChartOrder(1, 96, 7, 2, <<"ann">>) EXCEPT !.due = <<100>>],
      ChartOrder(2, 130, 4, 0, <<"bob">>),
      ChartOrder(3, 143, 2, 0, << >>),
      [ChartOrder(4, 155, 5, 9, <<"ann">>) EXCEPT !.due = <<160>>],
      [ChartOrder(5, 155, 3, 0, <<"cat">>) EXCEPT !.wholesale = FALSE],
      [ChartOrder(6, 150, 8, 0, <<"bob">>) EXCEPT !.cancelled = TRUE, !.due = <<100>>],
      [ChartOrder(7, 150, 6, 0, <<"bob">>) EXCEPT !.currency = "eur"] }

ShopWith(orders, zone) ==
    [orders |-> orders, zone |-> zone, rules |-> {"gold"},
     groupOf |-> [ann |-> "g1", cat |-> "g1"], calendar |-> <<0, 3, 6, 9, 12>>,
     applications |->
        {[at |-> 120, status |-> "APPROVED", buyer |-> <<"ann">>],
         [at |-> 156, status |-> "APPROVED", buyer |-> <<"ann">>],
         [at |-> 130, status |-> "PENDING", buyer |-> << >>]}]

MCChartCases ==
    { [shop |-> ShopWith(orders, zone), range |-> range, now |-> now] :
      orders \in {ChartOrders \ out : out \in kSubset(2, ChartOrders)}
                   \cup {ChartOrders},
      zone \in {Zone(h, h) : h \in {-11, 0, 14}} \cup {Zone(-5, -4), Zone(2, 1)},
      range \in {2, 3}, now \in {156, 167} }
=============================================================================
