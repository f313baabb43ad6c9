------------------------------ MODULE OrderDoors ------------------------------
(***************************************************************************)
(* The two doors an order comes in by (orders/sync.server.ts): the node    *)
(* the backfill reads and the payload a webhook carries, narrowed to the   *)
(* same facts, and the lines written from them.  Pure: no variables.       *)
(* Amounts are as on the wire in Checkout; what may be absent is a         *)
(* sequence of at most one element.                                        *)
(***************************************************************************)
EXTENDS Checkout

CONSTANTS
    LinePage,     \* lines of one order in a node: LINE_PAGE_SIZE
    WebhookCap    \* lines in a payload: WEBHOOK_LINE_CAP

UNNAMED_DISCOUNT == "(unnamed discount)"

(* lib/money.ts: what cannot be read is told to the operator, and is zero. *)
parseShopifyMoney(amount, currency) == OrZero(parseMoney(amount, currency))

readQuantity(value) == IF IsThere(value) /\ value[1] >= 0 THEN value[1] ELSE 0

currentQuantity(line) ==
    readQuantity(IF IsThere(line.current) THEN line.current ELSE line.quantity)

(* What is left of a line after returns and edits.                         *)
currentTotalOf(total, quantity, current) ==
    IF quantity <= 0 \/ current <= 0 THEN 0
    ELSE IF current >= quantity THEN total
    ELSE (total * current) \div quantity

classifySource(name, attribute) ==
    IF attribute \in {<<"quick_order">>, <<"buyer_agent">>} THEN attribute[1]
    ELSE CASE name \in {Nothing, <<"web">>} -> "storefront"
           [] name = <<"shopify_draft_order">> -> "draft"
           [] name = <<"pos">> -> "pos"
           [] OTHER -> "other"

AmountOff(discounts) ==
    MapThenSumSet(LAMBDA i : discounts[i].amount, DOMAIN discounts)

NamedAs(application) ==
    IF IsThere(application) THEN application[1] ELSE UNNAMED_DISCOUNT

LineFacts(line, unit, original, discounted, discounts) ==
    LET quantity == readQuantity(line.quantity)
    IN  [id |-> line.id, product |-> line.product, quantity |-> quantity,
         current |-> currentQuantity(line), unit |-> unit, original |-> original,
         discounted |-> discounted, discounts |-> discounts,
         currentTotal |-> currentTotalOf(discounted, quantity,
                                         currentQuantity(line))]

(* A node gives the three figures; nothing is multiplied.                  *)
linesFromNode(lines, currency) ==
    LET read(amount) == parseShopifyMoney(amount, currency)
    IN  [i \in DOMAIN lines |->
           LineFacts(lines[i], read(lines[i].unit), read(lines[i].original),
               read(lines[i].discounted),
               [k \in DOMAIN lines[i].allocations |->
                  [title |-> NamedAs(lines[i].allocations[k].title),
                   amount |-> read(lines[i].allocations[k].amount)]])]

(* A payload gives a price for one and what was taken off, by the position *)
(* of the discount in the order; a line whose discount was allocated       *)
(* nowhere (a draft order's) has the whole of it, unnamed.                 *)
linesFromWebhook(payload, currency) ==
    LET read(amount) == parseShopifyMoney(amount, currency)
        titled(at) == IF IsThere(at) /\ at[1] \in DOMAIN payload.applications
                      THEN NamedAs(payload.applications[at[1]])
                      ELSE UNNAMED_DISCOUNT
        facts(line) ==
            LET unit == read(line.unit)
                original == unit * readQuantity(line.quantity)
                allocated == [k \in DOMAIN line.allocations |->
                    [title |-> titled(line.allocations[k].at),
                     amount |-> read(line.allocations[k].amount)]]
                whole == read(line.totalDiscount)
                discounts == IF AmountOff(allocated) = 0 /\ whole > 0
                             THEN Append(allocated, [title |-> UNNAMED_DISCOUNT,
                                                     amount |-> whole])
                             ELSE allocated
            IN  LineFacts(line, unit, original,
                          Max({0, original - AmountOff(discounts)}), discounts)
    IN  [i \in DOMAIN payload.lines |-> facts(payload.lines[i])]

factsFromNode(node) ==
    LET read(amount) == parseShopifyMoney(amount, node.currency)
    IN  [total |-> read(node.currentTotal), refunded |-> read(node.refunded),
         totalQuantity |-> readQuantity(node.totalQuantity),
         source |-> classifySource(node.sourceName, node.attribute),
         lines |-> linesFromNode(node.lines, node.currency),
         linesTruncated |-> node.hasNextPage]

(* The refunds themselves, where the payload has no total of them.         *)
refundedFromWebhook(payload) ==
    IF IsThere(payload.refunded)
    THEN parseShopifyMoney(payload.refunded, payload.currency)
    ELSE MapThenSumSet(LAMBDA i :
             parseShopifyMoney(payload.transactions[i].amount, payload.currency),
             {i \in DOMAIN payload.transactions :
                payload.transactions[i].kind = "refund"})

factsFromWebhook(payload) ==
    [total |-> parseShopifyMoney(IF IsThere(payload.currentTotal)
                                 THEN payload.currentTotal ELSE payload.total,
                                 payload.currency),
     refunded |-> refundedFromWebhook(payload),
     totalQuantity |-> MapThenSumSet(LAMBDA i : currentQuantity(payload.lines[i]),
                                     DOMAIN payload.lines),
     source |-> classifySource(payload.sourceName, payload.attribute),
     lines |-> SelectSeq(linesFromWebhook(payload, payload.currency),
                         LAMBDA line : line.id # ""),
     linesTruncated |-> Len(payload.lines) >= WebhookCap]

(***************************************************************************)
(* upsertOrder and replaceLines: a row is the lines held of an order and   *)
(* the flag that these are not all.  Lines are replaced together, once     *)
(* each; a payload without lines says nothing of them.                     *)
(***************************************************************************)
FirstOfEach(lines) ==
    {lines[i] : i \in {j \in DOMAIN lines :
        \A k \in 1 .. j - 1 : lines[k].id # lines[j].id}}

linesHeld(row, facts) ==
    IF facts.lines = << >> /\ IsThere(row) THEN row
    ELSE <<[lines |-> FirstOfEach(facts.lines),
            truncated |-> facts.linesTruncated]>>

(***************************************************************************)
(* What Shopify sends of one order (external): `off` is what each discount *)
(* takes off a line; a draft order's is allocated nowhere.                 *)
(***************************************************************************)
Wire(minor, currency) == <<formatMoney(minor, currency)>>

NodeOf(order) ==
    LET wire(n) == Wire(n, order.currency)
        line(l) == [id |-> l.id, product |-> l.product, quantity |-> <<l.quantity>>,
                    current |-> l.current, unit |-> wire(l.unit),
                    original |-> wire(l.unit * l.quantity),
                    discounted |-> wire(l.unit * l.quantity - AmountOff(l.off)),
                    allocations |-> IF order.isDraft THEN << >> ELSE
                      [k \in DOMAIN l.off |->
                         [title |-> order.applications[l.off[k].at],
                          amount |-> wire(l.off[k].amount)]]]
        shown == SubSeq(order.lines, 1, Min({LinePage, Len(order.lines)}))
    IN  [currency |-> order.currency, currentTotal |-> wire(order.total),
         refunded |-> wire(order.refunded), sourceName |-> order.sourceName,
         attribute |-> order.attribute,
         totalQuantity |-> <<MapThenSumSet(LAMBDA i :
             IF IsThere(order.lines[i].current) THEN order.lines[i].current[1]
             ELSE order.lines[i].quantity, DOMAIN order.lines)>>,
         lines |-> [i \in DOMAIN shown |-> line(shown[i])],
         hasNextPage |-> Len(order.lines) > LinePage]

PayloadOf(order) ==
    LET wire(n) == Wire(n, order.currency)
        line(l) == [id |-> l.id, product |-> l.product, quantity |-> <<l.quantity>>,
                    current |-> l.current, unit |-> wire(l.unit),
                    totalDiscount |-> wire(AmountOff(l.off)),
                    allocations |-> IF order.isDraft THEN << >> ELSE
                      [k \in DOMAIN l.off |->
                         [at |-> <<l.off[k].at>>, amount |-> wire(l.off[k].amount)]]]
        carried == SubSeq(order.lines, 1, Min({WebhookCap, Len(order.lines)}))
    IN  [currency |-> order.currency, currentTotal |-> wire(order.total),
         total |-> wire(order.total + order.refunded), refunded |-> Nothing,
         transactions |-> <<[kind |-> "refund", amount |-> wire(order.refunded)],
                            [kind |-> "sale", amount |-> wire(order.total)]>>,
         sourceName |-> order.sourceName, attribute |-> order.attribute,
         applications |-> order.applications,
         lines |-> [i \in DOMAIN carried |-> line(carried[i])]]
=============================================================================
