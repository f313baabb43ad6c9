-------------------------- MODULE OrderLedgerProofs --------------------------
(***************************************************************************)
(* The mirror of an order and its invoice stay honest, for any number of   *)
(* handlers, clerks and events, any totals, amounts and terms, and every   *)
(* misfortune but those each promise names.                                *)
(*                                                                         *)
(* What is paid and chased rests on the one clerk at work: nobody writes   *)
(* what it has read until it is done (Reckoned, Chasing).  What is mirrored*)
(* rests on the deliveries that are out, in Shopify's outbox or in the     *)
(* hands of a handler: each tells the truth of its revision (Truth), they  *)
(* come in order (Ordered), and the newest revision is on its way or is    *)
(* the one the row has (Latest).  What was decided on the way in rests on  *)
(* a handler holding the row's own decision while it is at work (Decided). *)
(***************************************************************************)
EXTENDS OrderLedger, TLAPS

OrderRow == [rev: 0..MaxEvents, total: Totals \cup {0}, cancelled: BOOLEAN,
             wholesale: BOOLEAN, resync: BOOLEAN, due: Days \cup {0},
             paid: Int, settled: BOOLEAN, reminded: BOOLEAN]

Handling ==
    {OffWork} \cup [at: {"decide", "upsert"}, facts: OrderDelivery, wholesale: BOOLEAN]
              \cup [at: {"terms"}, facts: OrderDelivery, saved: OrderRow]

Clerking ==
    {OffWork} \cup [at: {"pay"}, amount: Int, read: OrderRow] \cup [at: {"deliver", "stamp"}]

LedgerTypes ==
    /\ LedgerTypeOK
    /\ handling \in [Handler -> Handling]
    /\ clerking \in [Clerk -> Clerking]
    /\ order.rev <= events /\ events <= MaxEvents
    /\ order.rev > 0 => order.total \in Totals

-----------------------------------------------------------------------------
(* What is paid, and chased                                                *)

AtTask(c) == clerking[c].at # "idle"

Alone == Calm({"doubled"}) => \A c, d \in Clerk : AtTask(c) /\ AtTask(d) => c = d

\* The paid amount a clerk has read is still the row's.
Reckoned ==
    Calm({"doubled"}) => \A c \in Clerk : clerking[c].at = "pay" => clerking[c].read.paid = mirror.paid

\* A reminder is counted from its delivery to the end of the cooldown.
Chasing ==
    Calm({"doubled", "killed"}) =>
        /\ chased = IF mirror.reminded \/ \E c \in Clerk : clerking[c].at = "stamp" THEN 1 ELSE 0
        /\ \A c \in Clerk : clerking[c].at = "deliver" => ~mirror.reminded

InvoiceInv == LedgerTypes /\ Alone /\ Reckoned /\ PaymentsAddUp /\ Chasing

-----------------------------------------------------------------------------
(* What is mirrored                                                        *)

Busy(h) == handling[h].at # "idle"

Undelivered == outbox \cup {handling[h].facts : h \in {g \in Handler : Busy(g)}}

\* One webhook at a time, and no page of the backfill: what a handler has yet
\* to decide is a page.
Apart ==
    /\ \A h \in Handler : handling[h].at = "decide" => handling[h].facts.topic = "backfill"
    /\ Calm({"overlapped"}) => \A g, h \in Handler :
          Busy(g) /\ Busy(h) /\ handling[g].facts.topic # "backfill"
             /\ handling[h].facts.topic # "backfill" => g = h
    /\ Calm({"backfilled"}) => \A h \in Handler : Busy(h) => handling[h].facts.topic # "backfill"

\* A delivery tells the order as it was, and a cancellation is for good.
Fact(d) ==
    /\ d.rev <= order.rev
    /\ d.rev = order.rev => d.total = order.total /\ d.cancelled = order.cancelled
    /\ d.cancelled => order.cancelled
    /\ d.topic = "cancelled" => d.cancelled

Truth ==
    /\ \A d \in Undelivered : Fact(d)
    /\ \A d, e \in Undelivered : d.rev <= e.rev /\ d.cancelled => e.cancelled
    /\ mirror.cancelled => order.cancelled

Fair == Calm({"reordered", "overlapped", "backfilled"})

\* What is handled is no newer than what is not, nor the row than either.
Ordered == Fair =>
    /\ \A h \in Handler, d \in outbox : Busy(h) => handling[h].facts.rev <= d.rev
    /\ mirror.cancelled => \A d \in Undelivered : d.cancelled

Latest == Fair /\ order.rev > 0 =>
    \/ \E d \in outbox : d.topic = "upsert" /\ d.rev = order.rev
    \/ \E h \in Handler : /\ handling[h].at = "upsert" /\ handling[h].facts.topic = "upsert"
                          /\ handling[h].facts.rev = order.rev
    \/ /\ mirror.total = order.total /\ mirror.cancelled = order.cancelled
       /\ \A d \in Undelivered : d.rev = order.rev

Decided ==
    /\ Calm({"overlapped", "backfilled"}) => \A h \in Handler :
          handling[h].at = "upsert" /\ mirror.rev > 0 => handling[h].wholesale = mirror.wholesale
    /\ Calm({"overlapped"}) => \A h \in Handler : handling[h].at = "terms" =>
          handling[h].facts.topic = "upsert" /\ handling[h].saved.due = mirror.due

MirrorInv == LedgerTypes /\ Apart /\ Truth /\ Ordered /\ Latest /\ Decided

-----------------------------------------------------------------------------
(* Types                                                                   *)

LEMMA OrderLedgerFacts ==
    /\ Totals \subseteq Nat /\ Days \subseteq Nat /\ Amounts \subseteq Int /\ MaxEvents \in Nat
BY OrderLedgerAssumption

\* What a handler saves is a row: the delivery's facts over the terms, the
\* payments and the reminders of the row there was.
LEMMA RowUpserted ==
    ASSUME NEW row \in OrderRow, NEW facts \in OrderDelivery, NEW wholesale \in BOOLEAN
    PROVE  /\ upsertOrder(row, facts, wholesale) \in OrderRow
           /\ upsertOrder(row, facts, wholesale).rev = facts.rev
           /\ upsertOrder(row, facts, wholesale).total = facts.total
           /\ upsertOrder(row, facts, wholesale).cancelled
                  = (facts.cancelled \/ facts.topic = "cancelled")
           /\ upsertOrder(row, facts, wholesale).wholesale = wholesale
           /\ upsertOrder(row, facts, wholesale).due = row.due
           /\ upsertOrder(row, facts, wholesale).paid = row.paid
           /\ upsertOrder(row, facts, wholesale).settled = row.settled
           /\ upsertOrder(row, facts, wholesale).reminded = row.reminded
<1>1. PICK b \in BOOLEAN : b = (facts.cancelled \/ facts.topic = "cancelled")
    OBVIOUS
<1>2. upsertOrder(row, facts, wholesale) =
          [row EXCEPT !.rev = facts.rev, !.total = facts.total, !.cancelled = b,
                      !.wholesale = wholesale, !.resync = FALSE]
    BY <1>1, Zenon DEF upsertOrder
<1>3. /\ facts.rev \in 0..MaxEvents /\ facts.total \in Totals
    BY OrderLedgerFacts DEF OrderDelivery
<1>4. [row EXCEPT !.rev = facts.rev, !.total = facts.total, !.cancelled = b,
                  !.wholesale = wholesale, !.resync = FALSE] \in OrderRow
    BY <1>3 DEF OrderRow
<1> DEFINE saved == [row EXCEPT !.rev = facts.rev, !.total = facts.total, !.cancelled = b,
                                !.wholesale = wholesale, !.resync = FALSE]
<1>7. saved \in OrderRow
    BY <1>4
<1>5. /\ saved.rev = facts.rev /\ saved.total = facts.total /\ saved.cancelled = b
      /\ saved.wholesale = wholesale /\ saved.due = row.due /\ saved.paid = row.paid
      /\ saved.settled = row.settled /\ saved.reminded = row.reminded
    BY DEF OrderRow
<1>6. upsertOrder(row, facts, wholesale) = saved
    BY <1>2
<1> HIDE DEF saved
<1>8. upsertOrder(row, facts, wholesale).cancelled = (facts.cancelled \/ facts.topic = "cancelled")
    BY <1>1, <1>5, <1>6, Zenon
<1> QED
    BY <1>5, <1>6, <1>7, <1>8

LEMMA ItsParts ==
    ASSUME NEW row \in OrderRow
    PROVE  row.paid \in Int /\ row.total \in Nat /\ row.rev \in Nat
<1>1. row.paid \in Int
    BY DEF OrderRow
<1>4. row.total \in Totals \cup {0}
    BY DEF OrderRow
<1>5. row.rev \in 0..MaxEvents
    BY DEF OrderRow
<1>2. row.total \in Nat
    <2>1. \A n : n \in Totals \cup {0} => n \in Nat
        BY OrderLedgerFacts
    <2> QED
        BY <1>4, <2>1, Zenon
<1>3. row.rev \in Nat
    BY <1>5, OrderLedgerFacts
<1> QED
    BY <1>1, <1>2, <1>3

\* What a handler or a clerk at each step has in hand.
LEMMA InHand ==
    ASSUME LedgerTypes
    PROVE  /\ mirror \in OrderRow
           /\ \A h \in Handler :
                /\ Busy(h) => handling[h].facts \in OrderDelivery
                /\ handling[h].at = "upsert" => handling[h].wholesale \in BOOLEAN
                /\ handling[h].at = "terms" => handling[h].saved \in OrderRow
           /\ \A c \in Clerk : clerking[c].at = "pay" =>
                clerking[c].amount \in Int /\ clerking[c].read \in OrderRow
<1>1. mirror \in OrderRow
    BY DEF LedgerTypes, LedgerTypeOK, OrderRow
<1>2. ASSUME NEW h \in Handler
      PROVE  /\ Busy(h) => handling[h].facts \in OrderDelivery
             /\ handling[h].at = "upsert" => handling[h].wholesale \in BOOLEAN
             /\ handling[h].at = "terms" => handling[h].saved \in OrderRow
    <2>1. handling[h] \in Handling
        BY DEF LedgerTypes
    <2> QED
        BY <2>1 DEF Handling, OffWork, Busy
<1>3. ASSUME NEW c \in Clerk, clerking[c].at = "pay"
      PROVE  clerking[c].amount \in Int /\ clerking[c].read \in OrderRow
    <2>1. clerking[c] \in Clerking
        BY DEF LedgerTypes
    <2> QED
        BY <1>3, <2>1 DEF Clerking, OffWork
<1> QED
    BY <1>1, <1>2, <1>3

\* The types, one variable at a time.
LEMMA TypesSuffice ==
    ASSUME weather \in Weathers,
           order \in [rev: 0..MaxEvents, total: Totals \cup {0}, cancelled: BOOLEAN],
           order.rev > 0 => order.total \in Totals,
           order.rev <= events, events \in Nat, events <= MaxEvents,
           outbox \subseteq OrderDelivery,
           buyer \in [wholesale: BOOLEAN, days: Days],
           handling \in [Handler -> Handling],
           mirror \in OrderRow,
           received \in Int, chased \in Nat,
           clerking \in [Clerk -> Clerking]
    PROVE  LedgerTypes
<1>1. \A h \in Handler : handling[h].at \in {"idle", "decide", "upsert", "terms"}
    BY DEF Handling, OffWork
<1>2. \A c \in Clerk : clerking[c].at \in {"idle", "pay", "deliver", "stamp"}
    BY DEF Clerking, OffWork
<1> QED
    BY <1>1, <1>2 DEF LedgerTypes, LedgerTypeOK, OrderRow

LEMMA TypesInitially == LedgerInit => LedgerTypes
<1> SUFFICES ASSUME LedgerInit PROVE LedgerTypes
    OBVIOUS
<1>1. handling \in [Handler -> Handling] /\ clerking \in [Clerk -> Clerking]
    BY DEF LedgerInit, Handling, Clerking
<1>2. mirror \in OrderRow
    BY OrderLedgerFacts DEF LedgerInit, NoRow, OrderRow
<1>3. order \in [rev: 0..MaxEvents, total: Totals \cup {0}, cancelled: BOOLEAN] /\ ~(order.rev > 0)
    BY OrderLedgerFacts DEF LedgerInit
<1> QED
    BY <1>1, <1>2, <1>3, OrderLedgerFacts, TypesSuffice DEF LedgerInit

\* What Shopify announces is a delivery, and true of the order.
LEMMA AnnouncedTyped ==
    ASSUME LedgerTypes, ShopifyChanges
    PROVE  /\ LedgerTypes'
           /\ order'.rev = order.rev + 1
           /\ order.cancelled => order'.cancelled
           /\ outbox \subseteq outbox'
           /\ \E d \in outbox' : d.topic = "upsert" /\ d.rev = order'.rev
           /\ \A d \in outbox' \ outbox :
                /\ d.rev = order'.rev /\ d.total = order'.total /\ d.cancelled = order'.cancelled
                /\ d.topic = "cancelled" => d.cancelled
<1>1. LedgerTypeOK /\ order.rev <= events /\ (order.rev > 0 => order.total \in Totals)
    BY DEF LedgerTypes
<1>2. events' = events + 1 /\ events' \in Nat /\ events' <= MaxEvents
    <2>1. Happens
        BY DEF ShopifyChanges
    <2> QED
        BY <1>1, <2>1, OrderLedgerFacts DEF Happens, LedgerTypeOK
<1> DEFINE Known(topics) ==
        /\ topics \subseteq {"upsert", "cancelled", "edited"}
        /\ Announce(topics) /\ "upsert" \in topics
        /\ "cancelled" \in topics => order'.cancelled
        /\ order' \in [rev: 0..MaxEvents, total: Totals, cancelled: BOOLEAN]
        /\ order'.rev = order.rev + 1
        /\ order.cancelled => order'.cancelled
<1>10. events \in Nat /\ order.rev + 1 \in 0..MaxEvents
    BY <1>1, <1>2, OrderLedgerFacts DEF LedgerTypeOK
<1>11. ASSUME NEW total \in Totals, order' = [order EXCEPT !.rev = @ + 1, !.total = total],
              Announce({"upsert"}) \/ Announce({"edited", "upsert"})
       PROVE  \E topics : Known(topics)
    <2>1. order' \in [rev: 0..MaxEvents, total: Totals, cancelled: BOOLEAN]
        BY <1>1, <1>10, <1>11 DEF LedgerTypeOK
    <2>2. order'.rev = order.rev + 1 /\ order'.cancelled = order.cancelled
        BY <1>1, <1>11 DEF LedgerTypeOK
    <2>3. CASE Announce({"upsert"})
        <3> WITNESS {"upsert"}
        <3> QED
            BY <2>1, <2>2, <2>3
    <2>4. CASE Announce({"edited", "upsert"})
        <3> WITNESS {"edited", "upsert"}
        <3> QED
            BY <2>1, <2>2, <2>4
    <2> QED
        BY <1>11, <2>3, <2>4
<1>12. ASSUME order.rev > 0, order' = [order EXCEPT !.rev = @ + 1, !.cancelled = TRUE],
              Announce({"cancelled", "upsert"})
       PROVE  \E topics : Known(topics)
    <2>1. order' \in [rev: 0..MaxEvents, total: Totals, cancelled: BOOLEAN]
        BY <1>1, <1>10, <1>12 DEF LedgerTypeOK
    <2>2. order'.rev = order.rev + 1 /\ order'.cancelled
        BY <1>1, <1>12 DEF LedgerTypeOK
    <2> WITNESS {"cancelled", "upsert"}
    <2> QED
        BY <1>12, <2>1, <2>2
<1>13. PICK topics : Known(topics)
    <2> HIDE DEF Known
    <2>1. CASE \E total \in Totals :
                 /\ order' = [order EXCEPT !.rev = @ + 1, !.total = total]
                 /\ Announce({"upsert"}) \/ Announce({"edited", "upsert"})
        BY <1>11, <2>1
    <2>2. CASE /\ order.rev > 0
               /\ order' = [order EXCEPT !.rev = @ + 1, !.cancelled = TRUE]
               /\ Announce({"cancelled", "upsert"})
        BY <1>12, <2>2
    <2> QED
        BY <2>1, <2>2, Zenon DEF ShopifyChanges
<1> HIDE DEF Known
<1>3. /\ order' \in [rev: 0..MaxEvents, total: Totals, cancelled: BOOLEAN]
      /\ order'.rev = order.rev + 1
      /\ order.cancelled => order'.cancelled
    BY <1>13 DEF Known
<1>4. /\ topics \subseteq {"upsert", "cancelled", "edited"}
      /\ Announce(topics) /\ "upsert" \in topics
      /\ "cancelled" \in topics => order'.cancelled
    BY <1>13 DEF Known
<1> DEFINE Said(t) == [topic |-> t, rev |-> order'.rev, total |-> order'.total,
                       cancelled |-> order'.cancelled]
<1>5. outbox' = outbox \cup {Said(t) : t \in topics}
    BY <1>4 DEF Announce
<1>6. \A t \in topics : Said(t) \in OrderDelivery
    <2>1. order'.rev \in 1..MaxEvents /\ order'.total \in Totals /\ order'.cancelled \in BOOLEAN
        BY <1>1, <1>3, <1>10 DEF LedgerTypeOK
    <2> QED
        BY <1>4, <2>1 DEF OrderDelivery
<1>7. outbox' \subseteq OrderDelivery
    BY <1>1, <1>5, <1>6 DEF LedgerTypeOK
<1>8. LedgerTypes'
    <2>1. order'.rev <= events' /\ order' \in [rev: 0..MaxEvents, total: Totals \cup {0}, cancelled: BOOLEAN]
        BY <1>1, <1>2, <1>3 DEF LedgerTypeOK
    <2>2. UNCHANGED <<weather, handling, buyer, mirror, ledgerVars>>
        BY DEF ShopifyChanges
    <2>3. order'.total \in Totals
        BY <1>3
    <2> QED
        BY <1>2, <1>7, <2>1, <2>2, <2>3 DEF LedgerTypes, LedgerTypeOK, ledgerVars
<1>9. \A d \in outbox' \ outbox :
          /\ d.rev = order'.rev /\ d.total = order'.total /\ d.cancelled = order'.cancelled
          /\ d.topic = "cancelled" => d.cancelled
    BY <1>4, <1>5
<1>14. \E d \in outbox' : d.topic = "upsert" /\ d.rev = order'.rev
    <2>1. Said("upsert") \in outbox' /\ Said("upsert").topic = "upsert" /\ Said("upsert").rev = order'.rev
        BY <1>4, <1>5
    <2> QED
        BY <2>1
<1> QED
    BY <1>3, <1>5, <1>8, <1>9, <1>14

LEMMA TermsTyped == ASSUME LedgerTypes, BuyerChanges PROVE LedgerTypes'
<1>1. buyer' \in [wholesale: BOOLEAN, days: Days]
    BY DEF BuyerChanges, LedgerTypes, LedgerTypeOK
<1>2. events' \in Nat /\ events' <= MaxEvents /\ order'.rev <= events'
    BY OrderLedgerFacts DEF BuyerChanges, Happens, LedgerTypes, LedgerTypeOK
<1> QED
    BY <1>1, <1>2 DEF BuyerChanges, LedgerTypes, LedgerTypeOK, ledgerVars

\* The handlers.
LEMMA TakenTyped ==
    ASSUME LedgerTypes, NEW h \in Handler, NEW m \in outbox, Taken(m)
    PROVE  outbox' \subseteq outbox /\ m \in OrderDelivery
BY DEF Taken, LedgerTypes, LedgerTypeOK

LEMMA HandlersTyped ==
    ASSUME LedgerTypes, NEW h \in Handler, HandlerStep(h)
    PROVE  LedgerTypes'
<1>1. /\ LedgerTypeOK /\ mirror \in OrderRow /\ handling \in [Handler -> Handling]
      /\ clerking \in [Clerk -> Clerking]
    BY InHand DEF LedgerTypes
<1>2. ASSUME UNCHANGED <<weather, order, buyer, ledgerVars, events>>,
             outbox' \subseteq OrderDelivery, mirror' \in OrderRow, handling' \in [Handler -> Handling]
      PROVE  LedgerTypes'
    <2>1. /\ weather' \in Weathers
          /\ order' \in [rev: 0..MaxEvents, total: Totals \cup {0}, cancelled: BOOLEAN]
          /\ buyer' \in [wholesale: BOOLEAN, days: Days]
          /\ events' \in Nat /\ received' \in Int /\ chased' \in Nat
        BY <1>1, <1>2 DEF LedgerTypeOK, ledgerVars
    <2>2. /\ order'.rev > 0 => order'.total \in Totals
          /\ order'.rev <= events' /\ events' <= MaxEvents
          /\ clerking' \in [Clerk -> Clerking]
        BY <1>2 DEF LedgerTypes, ledgerVars
    <2>3. \A g \in Handler : handling'[g].at \in {"idle", "decide", "upsert", "terms"}
        BY <1>2 DEF Handling, OffWork
    <2>4. \A c \in Clerk : clerking'[c].at \in {"idle", "pay", "deliver", "stamp"}
        BY <2>2 DEF Clerking, OffWork
    <2> QED
        BY <1>2, <2>1, <2>2, <2>3, <2>4 DEF LedgerTypes, LedgerTypeOK, OrderRow
<1>3. ASSUME NEW m \in outbox, handleOrdersUpsert(h, m) \/ handleOrdersCancelled(h, m)
      PROVE  LedgerTypes'
    <2>1. m \in OrderDelivery /\ outbox' \subseteq OrderDelivery
        BY <1>1, <1>3, TakenTyped DEF handleOrdersUpsert, handleOrdersCancelled, LedgerTypeOK
    <2>2. \E w \in BOOLEAN :
             handling' = [handling EXCEPT ![h] = [at |-> "upsert", facts |-> m, wholesale |-> w]]
        <3>1. CASE handleOrdersUpsert(h, m)
            BY <1>1, <3>1 DEF handleOrdersUpsert, isWholesaleOrder, LedgerTypeOK
        <3>2. CASE handleOrdersCancelled(h, m)
            <4>1. (mirror.rev > 0 /\ mirror.wholesale) \in BOOLEAN
                OBVIOUS
            <4> QED
                BY <3>2, <4>1 DEF handleOrdersCancelled
        <3> QED
            BY <1>3, <3>1, <3>2
    <2>3. handling' \in [Handler -> Handling]
        BY <1>1, <2>1, <2>2 DEF Handling
    <2> QED
        BY <1>1, <1>2, <1>3, <2>1, <2>3 DEF handleOrdersUpsert, handleOrdersCancelled
<1>4. ASSUME NEW m \in outbox, handleOrdersEdited(h, m) PROVE LedgerTypes'
    <2>1. outbox' \subseteq OrderDelivery
        BY <1>1, <1>4, TakenTyped DEF handleOrdersEdited, LedgerTypeOK
    <2>2. mirror' \in OrderRow
        BY <1>1, <1>4 DEF handleOrdersEdited, markNeedsResync, OrderRow
    <2> QED
        BY <1>1, <1>2, <1>4, <2>1, <2>2 DEF handleOrdersEdited
<1>5. CASE fetchOrderPage(h)
    <2>1. [topic |-> "backfill", rev |-> order.rev, total |-> order.total,
           cancelled |-> order.cancelled] \in OrderDelivery
        BY <1>1, <1>5 DEF fetchOrderPage, OrderDelivery, LedgerTypes, LedgerTypeOK
    <2>2. handling' \in [Handler -> Handling]
        BY <1>1, <1>5, <2>1 DEF fetchOrderPage, Handling
    <2> QED
        BY <1>1, <1>2, <1>5, <2>2 DEF fetchOrderPage, shopifyVars, LedgerTypeOK
<1>6. CASE backfillOrders(h)
    <2>1. handling[h] \in [at: {"decide", "upsert"}, facts: OrderDelivery, wholesale: BOOLEAN]
        BY <1>1, <1>6 DEF backfillOrders, Handling, OffWork
    <2>2. handling' \in [Handler -> Handling]
        BY <1>1, <1>6, <2>1 DEF backfillOrders, Handling, isWholesaleOrder, LedgerTypeOK
    <2> QED
        BY <1>1, <1>2, <1>6, <2>2 DEF backfillOrders, shopifyVars, LedgerTypeOK
<1>7. CASE Upserted(h)
    <2>1. handling[h].facts \in OrderDelivery /\ handling[h].wholesale \in BOOLEAN
        BY <1>7, InHand DEF Upserted, Busy
    <2>2. mirror' \in OrderRow
        BY <1>1, <1>7, <2>1, RowUpserted DEF Upserted
    <2>3. handling' \in [Handler -> Handling]
        BY <1>1, <1>7, <2>1, <2>2 DEF Upserted, Handling
    <2> QED
        BY <1>1, <1>2, <1>7, <2>2, <2>3 DEF Upserted, shopifyVars, LedgerTypeOK
<1>8. CASE applyTermsToOrder(h)
    <2>1. mirror' \in OrderRow
        BY <1>1, <1>8 DEF applyTermsToOrder, OrderRow, LedgerTypeOK
    <2>2. handling' \in [Handler -> Handling]
        BY <1>1, <1>8 DEF applyTermsToOrder, Handling
    <2> QED
        BY <1>1, <1>2, <1>8, <2>1, <2>2 DEF applyTermsToOrder, shopifyVars, LedgerTypeOK
<1>9. CASE HandlerKilled(h)
    <2>1. outbox' \subseteq OrderDelivery
        BY <1>1, <1>9, InHand DEF HandlerKilled, Busy, LedgerTypeOK
    <2>2. handling' \in [Handler -> Handling]
        BY <1>1, <1>9 DEF HandlerKilled, Handling
    <2> QED
        BY <1>1, <1>2, <1>9, <2>1, <2>2 DEF HandlerKilled
<1> QED
    BY <1>3, <1>4, <1>5, <1>6, <1>7, <1>8, <1>9 DEF HandlerStep

\* The clerks.
LEMMA ClerksTyped ==
    ASSUME LedgerTypes, CooldownOver \/ \E c \in Clerk : ClerkStep(c)
    PROVE  LedgerTypes'
<1>1. /\ LedgerTypeOK /\ mirror \in OrderRow /\ handling \in [Handler -> Handling]
      /\ clerking \in [Clerk -> Clerking]
    BY InHand DEF LedgerTypes
<1>2. ASSUME UNCHANGED <<weather, shopifyVars, handling>>,
             events' \in {events} \/ Happens,
             mirror' \in OrderRow, received' \in Int, chased' \in Nat, clerking' \in [Clerk -> Clerking]
      PROVE  LedgerTypes'
    <2>1. /\ weather' \in Weathers
          /\ order' \in [rev: 0..MaxEvents, total: Totals \cup {0}, cancelled: BOOLEAN]
          /\ outbox' \subseteq OrderDelivery
          /\ buyer' \in [wholesale: BOOLEAN, days: Days]
          /\ \A h \in Handler : handling'[h].at \in {"idle", "decide", "upsert", "terms"}
        BY <1>1, <1>2 DEF LedgerTypeOK, shopifyVars
    <2>2. /\ order'.rev > 0 => order'.total \in Totals
          /\ handling' \in [Handler -> Handling]
        BY <1>2 DEF LedgerTypes, shopifyVars
    <2>3. events' \in Nat /\ events' <= MaxEvents /\ order'.rev <= events'
        BY <1>1, <1>2, OrderLedgerFacts DEF LedgerTypes, LedgerTypeOK, Happens, shopifyVars
    <2>4. \A c \in Clerk : clerking'[c].at \in {"idle", "pay", "deliver", "stamp"}
        BY <1>2 DEF Clerking, OffWork
    <2> QED
        BY <1>2, <2>1, <2>2, <2>3, <2>4 DEF LedgerTypes, LedgerTypeOK, OrderRow
<1>3. CASE CooldownOver
    <2>1. mirror' \in OrderRow
        BY <1>1, <1>3 DEF CooldownOver, OrderRow
    <2> QED
        BY <1>1, <1>2, <1>3, <2>1 DEF CooldownOver, LedgerTypeOK
<1>4. ASSUME NEW c \in Clerk, NEW amount \in Amounts, recordPayment(c, amount) PROVE LedgerTypes'
    <2>1. amount \in Int
        BY OrderLedgerFacts
    <2>2. clerking' \in [Clerk -> Clerking]
        BY <1>1, <1>4, <2>1 DEF recordPayment, Clerking
    <2> QED
        BY <1>1, <1>2, <1>4, <2>2 DEF recordPayment, MayAsk, LedgerTypeOK
<1>5. ASSUME NEW c \in Clerk, PaymentWritten(c) PROVE LedgerTypes'
    <2>1. clerking[c].amount \in Int /\ clerking[c].read \in OrderRow
        BY <1>5, InHand DEF PaymentWritten
    <2>2. clerking[c].read.paid \in Int /\ orderRevenue(clerking[c].read) \in Int
        BY <2>1, ItsParts DEF orderRevenue
    <2>5. \E paid \in Int, settled \in BOOLEAN :
              mirror' = [mirror EXCEPT !.paid = paid, !.settled = settled]
        <3>1. clerking[c].read.paid + clerking[c].amount \in Int
            BY <2>1, <2>2
        <3>2. (clerking[c].read.paid + clerking[c].amount >= orderRevenue(clerking[c].read)) \in BOOLEAN
            OBVIOUS
        <3> QED
            BY <1>5, <3>1, <3>2, Zenon DEF PaymentWritten
    <2>3. mirror' \in OrderRow
        BY <1>1, <2>5 DEF OrderRow
    <2>4. received' \in Int /\ clerking' \in [Clerk -> Clerking]
        BY <1>1, <1>5, <2>1 DEF PaymentWritten, LedgerTypeOK, Clerking
    <2> QED
        BY <1>1, <1>2, <1>5, <2>3, <2>4 DEF PaymentWritten, LedgerTypeOK
<1>6. ASSUME NEW c \in Clerk, sendReminder(c) PROVE LedgerTypes'
    <2>1. clerking' \in [Clerk -> Clerking]
        BY <1>1, <1>6 DEF sendReminder, Clerking
    <2> QED
        BY <1>1, <1>2, <1>6, <2>1 DEF sendReminder, MayAsk, LedgerTypeOK
<1>7. ASSUME NEW c \in Clerk, ReminderDelivered(c) PROVE LedgerTypes'
    <2>1. clerking' \in [Clerk -> Clerking] /\ chased' \in Nat
        BY <1>1, <1>7 DEF ReminderDelivered, Clerking, LedgerTypeOK
    <2> QED
        BY <1>1, <1>2, <1>7, <2>1 DEF ReminderDelivered, LedgerTypeOK
<1>8. ASSUME NEW c \in Clerk, ReminderStamped(c) PROVE LedgerTypes'
    <2>1. clerking' \in [Clerk -> Clerking] /\ mirror' \in OrderRow
        BY <1>1, <1>8 DEF ReminderStamped, Clerking, OrderRow
    <2> QED
        BY <1>1, <1>2, <1>8, <2>1 DEF ReminderStamped, LedgerTypeOK
<1>9. ASSUME NEW c \in Clerk, ClerkKilled(c) PROVE LedgerTypes'
    <2>1. clerking' \in [Clerk -> Clerking]
        BY <1>1, <1>9 DEF ClerkKilled, Clerking
    <2> QED
        BY <1>1, <1>2, <1>9, <2>1 DEF ClerkKilled, LedgerTypeOK
<1> QED
    BY <1>3, <1>4, <1>5, <1>6, <1>7, <1>8, <1>9 DEF ClerkStep

LEMMA TypesStep == LedgerTypes /\ [LedgerNext]_ledgerState => LedgerTypes'
<1> SUFFICES ASSUME LedgerTypes, [LedgerNext]_ledgerState PROVE LedgerTypes'
    OBVIOUS
<1>1. CASE UNCHANGED ledgerState
    BY <1>1 DEF LedgerTypes, LedgerTypeOK, ledgerState, shopifyVars, ledgerVars
<1> QED
    BY <1>1, AnnouncedTyped, TermsTyped, HandlersTyped, ClerksTyped DEF LedgerNext

\* Every row, delivery and request is what its type says, in every misfortune.
THEOREM LedgerTypesHold == LedgerSpec => []LedgerTypeOK
<1>1. LedgerTypes => LedgerTypeOK
    BY DEF LedgerTypes
<1> QED
    BY TypesInitially, TypesStep, <1>1, PTL DEF LedgerSpec

-----------------------------------------------------------------------------
(* What is paid, and chased                                                *)

\* The world and the handlers write nothing the invoice depends on.
LEMMA InvoiceUntouched ==
    ASSUME LedgerTypes,
           ShopifyChanges \/ BuyerChanges \/ \E h \in Handler : HandlerStep(h)
    PROVE  /\ weather' = weather /\ clerking' = clerking
           /\ received' = received /\ chased' = chased
           /\ mirror'.paid = mirror.paid /\ mirror'.reminded = mirror.reminded
<1>1. mirror \in OrderRow
    BY InHand
<1>2. CASE ShopifyChanges \/ BuyerChanges
    BY <1>2 DEF ShopifyChanges, BuyerChanges, ledgerVars
<1>3. ASSUME NEW h \in Handler, HandlerStep(h)
      PROVE  /\ weather' = weather /\ clerking' = clerking
             /\ received' = received /\ chased' = chased
             /\ mirror'.paid = mirror.paid /\ mirror'.reminded = mirror.reminded
    <2>1. weather' = weather /\ clerking' = clerking /\ received' = received /\ chased' = chased
        BY <1>3 DEF HandlerStep, handleOrdersUpsert, handleOrdersCancelled, handleOrdersEdited,
            fetchOrderPage, backfillOrders, Upserted, applyTermsToOrder, HandlerKilled, ledgerVars
    <2>2. CASE Upserted(h)
        <3>1. handling[h].facts \in OrderDelivery /\ handling[h].wholesale \in BOOLEAN
            BY <2>2, InHand DEF Upserted, Busy
        <3> QED
            BY <1>1, <2>1, <2>2, <3>1, RowUpserted DEF Upserted
    <2>3. ASSUME NEW m \in outbox, handleOrdersEdited(h, m)
          PROVE  mirror'.paid = mirror.paid /\ mirror'.reminded = mirror.reminded
        BY <1>1, <2>3 DEF handleOrdersEdited, markNeedsResync, OrderRow
    <2>4. CASE applyTermsToOrder(h)
        BY <1>1, <2>1, <2>4 DEF applyTermsToOrder, OrderRow
    <2>5. CASE mirror' = mirror
        BY <2>1, <2>5
    <2> QED
        BY <1>3, <2>1, <2>2, <2>3, <2>4, <2>5 DEF HandlerStep, handleOrdersUpsert,
            handleOrdersCancelled, fetchOrderPage, backfillOrders, HandlerKilled
<1> QED
    BY <1>2, <1>3

\* With one clerk at work, no other is, nor takes a step.
LEMMA OthersIdle ==
    ASSUME InvoiceInv, NEW c \in Clerk, ClerkStep(c)
    PROVE  /\ weather' = weather
           /\ \A d \in Clerk : d # c => clerking'[d] = clerking[d]
           /\ Calm({"doubled"}) => \A d \in Clerk : d # c => ~AtTask(d)
<1>1. clerking \in [Clerk -> Clerking]
    BY DEF InvoiceInv, LedgerTypes
<1>2. weather' = weather /\ \E new : clerking' = [clerking EXCEPT ![c] = new]
    BY DEF ClerkStep, recordPayment, PaymentWritten, sendReminder, ReminderDelivered,
        ReminderStamped, ClerkKilled
<1>3. \/ AtTask(c)
      \/ "doubled" \notin weather => \A d \in Clerk : clerking[d].at = "idle"
    BY DEF ClerkStep, recordPayment, PaymentWritten, sendReminder, ReminderDelivered,
        ReminderStamped, ClerkKilled, MayAsk, AtTask
<1>4. Calm({"doubled"}) => \A d \in Clerk : d # c => ~AtTask(d)
    BY <1>3 DEF InvoiceInv, Alone, AtTask, Calm
<1> QED
    BY <1>1, <1>2, <1>4

LEMMA ClerkKeepsInvoice ==
    ASSUME InvoiceInv, NEW c \in Clerk, ClerkStep(c)
    PROVE  (Alone /\ Reckoned /\ PaymentsAddUp /\ Chasing)'
<1>1. /\ LedgerTypes /\ mirror \in OrderRow /\ clerking \in [Clerk -> Clerking]
      /\ received \in Int /\ chased \in Nat
    BY InHand DEF InvoiceInv, LedgerTypes, LedgerTypeOK
<1>2. /\ weather' = weather
      /\ \A d \in Clerk : d # c => clerking'[d] = clerking[d]
      /\ Calm({"doubled"}) => \A d \in Clerk : d # c => clerking[d].at = "idle"
    BY OthersIdle DEF AtTask
<1>3. Calm({"doubled", "killed"}) => Calm({"doubled"}) /\ "killed" \notin weather
    BY DEF Calm
<1>4. \A some : Calm(some)' <=> Calm(some)
    BY <1>2 DEF Calm
<1>5. Alone'
    BY <1>2, <1>4 DEF Alone, AtTask
<1> DEFINE PayFits == clerking'[c].at = "pay" => clerking'[c].read.paid = mirror'.paid
           ChaseFits == /\ chased' = IF mirror'.reminded \/ clerking'[c].at = "stamp" THEN 1 ELSE 0
                        /\ clerking'[c].at = "deliver" => ~mirror'.reminded
<1>6. Calm({"doubled"}) =>
          /\ clerking[c].at = "pay" => clerking[c].read.paid = mirror.paid
          /\ mirror.paid = received
    BY DEF InvoiceInv, Reckoned, PaymentsAddUp
<1>7. Calm({"doubled", "killed"}) =>
          /\ chased = IF mirror.reminded \/ clerking[c].at = "stamp" THEN 1 ELSE 0
          /\ clerking[c].at = "deliver" => ~mirror.reminded
    BY <1>2, <1>3 DEF InvoiceInv, Chasing
<1>8. ASSUME Calm({"doubled"}) => PayFits /\ mirror'.paid = received',
             Calm({"doubled", "killed"}) => ChaseFits
      PROVE  (Alone /\ Reckoned /\ PaymentsAddUp /\ Chasing)'
    <2>1. Reckoned' /\ PaymentsAddUp'
        BY <1>2, <1>4, <1>8 DEF Reckoned, PaymentsAddUp
    <2>2. Calm({"doubled", "killed"}) =>
              ((\E d \in Clerk : clerking'[d].at = "stamp") <=> clerking'[c].at = "stamp")
        BY <1>2, <1>3
    <2>3. Chasing'
        BY <1>2, <1>3, <1>4, <1>8, <2>2 DEF Chasing
    <2> QED
        BY <1>5, <2>1, <2>3
<1> HIDE DEF PayFits, ChaseFits
<1>9. ASSUME NEW amount \in Amounts, recordPayment(c, amount)
      PROVE  (Alone /\ Reckoned /\ PaymentsAddUp /\ Chasing)'
    <2>1. /\ clerking[c].at = "idle" /\ mirror' = mirror /\ received' = received /\ chased' = chased
          /\ clerking'[c] = [at |-> "pay", amount |-> amount, read |-> mirror]
        BY <1>1, <1>9 DEF recordPayment, MayAsk
    <2> QED
        BY <1>6, <1>7, <1>8, <2>1 DEF PayFits, ChaseFits
<1>10. CASE PaymentWritten(c)
    <2>1. /\ clerking[c].at = "pay" /\ clerking'[c] = OffWork /\ chased' = chased
          /\ received' = received + clerking[c].amount
        BY <1>1, <1>10 DEF PaymentWritten
    <2>2. mirror'.paid = clerking[c].read.paid + clerking[c].amount
              /\ mirror'.reminded = mirror.reminded
        <3> DEFINE paid == clerking[c].read.paid + clerking[c].amount
                   done == paid >= orderRevenue(clerking[c].read)
        <3>1. mirror' = [mirror EXCEPT !.paid = paid, !.settled = done]
            BY <1>10 DEF PaymentWritten
        <3> HIDE DEF paid, done
        <3>2. mirror'.paid = paid /\ mirror'.reminded = mirror.reminded
            BY <1>1, <3>1, Zenon DEF OrderRow
        <3> QED
            BY <3>2 DEF paid
    <2>3. Calm({"doubled"}) => PayFits /\ mirror'.paid = received'
        BY <1>6, <2>1, <2>2 DEF PayFits, OffWork
    <2>4. Calm({"doubled", "killed"}) => ChaseFits
        BY <1>7, <2>1, <2>2 DEF ChaseFits, OffWork
    <2> QED
        BY <1>8, <2>3, <2>4
<1>11. CASE sendReminder(c)
    <2>1. /\ clerking[c].at = "idle" /\ mirror' = mirror /\ received' = received /\ chased' = chased
          /\ clerking'[c] = [at |-> "deliver"] /\ ~mirror.reminded
        BY <1>1, <1>11 DEF sendReminder, MayAsk, canRemind
    <2> QED
        BY <1>6, <1>7, <1>8, <2>1 DEF PayFits, ChaseFits
<1>12. CASE ReminderDelivered(c)
    <2>1. /\ clerking[c].at = "deliver" /\ mirror' = mirror /\ received' = received
          /\ clerking'[c] = [at |-> "stamp"] /\ chased' = chased + 1
        BY <1>1, <1>12 DEF ReminderDelivered
    <2>2. Calm({"doubled", "killed"}) => ChaseFits
        BY <1>7, <2>1 DEF ChaseFits
    <2> QED
        BY <1>6, <1>8, <2>1, <2>2 DEF PayFits
<1>13. CASE ReminderStamped(c)
    <2>1. /\ clerking[c].at = "stamp" /\ received' = received
          /\ clerking'[c] = OffWork /\ chased' = chased
        BY <1>1, <1>13 DEF ReminderStamped
    <2>2. mirror'.paid = mirror.paid /\ mirror'.reminded
        BY <1>1, <1>13 DEF ReminderStamped, OrderRow
    <2>3. Calm({"doubled", "killed"}) => ChaseFits
        BY <1>7, <2>1, <2>2 DEF ChaseFits, OffWork
    <2> QED
        BY <1>6, <1>8, <2>1, <2>2, <2>3 DEF PayFits, OffWork
<1>14. CASE ClerkKilled(c)
    <2>1. /\ mirror' = mirror /\ received' = received /\ clerking'[c] = OffWork
          /\ "killed" \in weather
        BY <1>1, <1>14 DEF ClerkKilled
    <2> QED
        BY <1>3, <1>6, <1>8, <2>1 DEF PayFits, OffWork
<1> QED
    BY <1>9, <1>10, <1>11, <1>12, <1>13, <1>14 DEF ClerkStep

LEMMA InvoiceInitially == LedgerInit => InvoiceInv
<1> SUFFICES ASSUME LedgerInit PROVE InvoiceInv
    OBVIOUS
<1>1. LedgerTypes
    BY TypesInitially
<1>2. /\ \A c \in Clerk : clerking[c].at = "idle"
      /\ mirror.paid = 0 /\ received = 0 /\ chased = 0 /\ ~mirror.reminded
    BY DEF LedgerInit, OffWork, NoRow
<1> QED
    BY <1>1, <1>2 DEF InvoiceInv, Alone, AtTask, Reckoned, PaymentsAddUp, Chasing

LEMMA InvoiceStep == InvoiceInv /\ [LedgerNext]_ledgerState => InvoiceInv'
<1> SUFFICES ASSUME InvoiceInv, [LedgerNext]_ledgerState PROVE InvoiceInv'
    OBVIOUS
<1>1. LedgerTypes /\ LedgerTypes'
    BY TypesStep DEF InvoiceInv
<1> SUFFICES (Alone /\ Reckoned /\ PaymentsAddUp /\ Chasing)'
    BY <1>1 DEF InvoiceInv
<1>2. CASE \/ UNCHANGED ledgerState
           \/ ShopifyChanges \/ BuyerChanges \/ \E h \in Handler : HandlerStep(h)
    <2>1. /\ weather' = weather /\ clerking' = clerking
          /\ received' = received /\ chased' = chased
          /\ mirror'.paid = mirror.paid /\ mirror'.reminded = mirror.reminded
        BY <1>1, <1>2, InvoiceUntouched DEF ledgerState, ledgerVars
    <2> QED
        BY <2>1 DEF InvoiceInv, Alone, AtTask, Reckoned, PaymentsAddUp, Chasing, Calm
<1>3. CASE CooldownOver
    <2>1. /\ weather' = weather /\ clerking' = clerking /\ received' = received /\ chased' = 0
          /\ \A c \in Clerk : clerking[c].at # "stamp"
        BY <1>3 DEF CooldownOver
    <2>2. mirror'.paid = mirror.paid /\ ~mirror'.reminded
        BY <1>1, <1>3, InHand DEF CooldownOver, OrderRow
    <2> QED
        BY <2>1, <2>2 DEF InvoiceInv, Alone, AtTask, Reckoned, PaymentsAddUp, Chasing, Calm
<1> QED
    BY <1>2, <1>3, ClerkKeepsInvoice DEF LedgerNext

\* What an order is recorded as having been paid is the sum of its payments
\* unless the merchant's requests overlap, and a reminder goes out once in a
\* cooldown unless they do or one is killed.
THEOREM InvoicesStayHonest == LedgerSpec => []InvoicesHonest
<1>1. InvoiceInv => InvoicesHonest
    BY DEF InvoiceInv, InvoicesHonest, OneReminder, Chasing
<1> QED
    BY InvoiceInitially, InvoiceStep, <1>1, PTL DEF LedgerSpec

-----------------------------------------------------------------------------
(* What is mirrored                                                        *)

LEMMA OutstandingParts ==
    /\ \A d : d \in Undelivered <=>
          d \in outbox \/ \E h \in Handler : Busy(h) /\ handling[h].facts = d
    /\ \A d : d \in Undelivered' <=>
          d \in outbox' \/ \E h \in Handler : Busy(h)' /\ handling'[h].facts = d
<1>1. \A d : d \in Undelivered <=>
          d \in outbox \/ \E h \in Handler : Busy(h) /\ handling[h].facts = d
    BY DEF Undelivered
<1>2. \A d : d \in Undelivered' <=>
          d \in outbox' \/ \E h \in Handler : Busy(h)' /\ handling'[h].facts = d
    BY DEF Undelivered
<1> QED
    BY <1>1, <1>2

\* Of what is out, the numbers can be compared.
LEMMA RevisionsAreNumbers ==
    ASSUME LedgerTypes
    PROVE  /\ order.rev \in Nat
           /\ \A d \in Undelivered : d.rev \in Nat /\ d \in OrderDelivery
<1>1. order.rev \in Nat /\ outbox \subseteq OrderDelivery
    BY OrderLedgerFacts DEF LedgerTypes, LedgerTypeOK
<1>2. ASSUME NEW d \in Undelivered PROVE d \in OrderDelivery
    BY <1>1, OutstandingParts, InHand
<1>3. \A d \in OrderDelivery : d.rev \in Nat
    BY OrderLedgerFacts DEF OrderDelivery
<1> QED
    BY <1>1, <1>2, <1>3

\* Fewer deliveries out are still true of the order.
LEMMA FewerOutstanding ==
    ASSUME Truth, order' = order, Undelivered' \subseteq Undelivered,
           mirror'.cancelled => order.cancelled
    PROVE  Truth'
BY DEF Truth, Fact

LEMMA FairIsCalm ==
    /\ Fair => Calm({"overlapped"}) /\ Calm({"backfilled"}) /\ "reordered" \notin weather
    /\ Fair => Calm({"overlapped", "backfilled"})
    /\ Calm({"overlapped", "backfilled"}) => Calm({"overlapped"}) /\ Calm({"backfilled"})
BY DEF Fair, Calm

\* In fair weather a handler at work is alone.
LEMMA OneAtTask ==
    ASSUME Apart, Calm({"overlapped"}), Calm({"backfilled"}),
           NEW g \in Handler, NEW h \in Handler, Busy(g), Busy(h)
    PROVE  g = h
BY DEF Apart

LEMMA MirrorInitially == LedgerInit => MirrorInv
<1> SUFFICES ASSUME LedgerInit PROVE MirrorInv
    OBVIOUS
<1>1. LedgerTypes
    BY TypesInitially
<1>2. /\ \A h \in Handler : handling[h].at = "idle"
      /\ outbox = {} /\ order.rev = 0 /\ ~mirror.cancelled
    BY DEF LedgerInit, OffWork, NoRow
<1>3. Undelivered = {}
    BY <1>2 DEF Undelivered, Busy
<1> QED
    BY <1>1, <1>2, <1>3 DEF MirrorInv, Apart, Truth, Ordered, Latest, Decided, Busy

\* The clerks and the buyer write nothing the mirror's facts depend on.
LEMMA MirrorUntouched ==
    ASSUME LedgerTypes, BuyerChanges \/ CooldownOver \/ \E c \in Clerk : ClerkStep(c)
    PROVE  /\ UNCHANGED <<weather, order, outbox, handling>>
           /\ mirror'.rev = mirror.rev /\ mirror'.total = mirror.total
           /\ mirror'.cancelled = mirror.cancelled
           /\ mirror'.wholesale = mirror.wholesale /\ mirror'.due = mirror.due
<1> DEFINE Same == /\ mirror'.rev = mirror.rev /\ mirror'.total = mirror.total
                   /\ mirror'.cancelled = mirror.cancelled
                   /\ mirror'.wholesale = mirror.wholesale /\ mirror'.due = mirror.due
<1>1. mirror \in OrderRow
    BY InHand
<1>2. UNCHANGED <<weather, order, outbox, handling>>
    BY DEF BuyerChanges, CooldownOver, ClerkStep, recordPayment, PaymentWritten, sendReminder,
        ReminderDelivered, ReminderStamped, ClerkKilled, shopifyVars
<1>3. CASE mirror' = mirror
    BY <1>2, <1>3
<1>4. CASE CooldownOver
    BY <1>1, <1>2, <1>4 DEF CooldownOver, OrderRow
<1>5. ASSUME NEW c \in Clerk, PaymentWritten(c) PROVE Same
    <2> DEFINE paid == clerking[c].read.paid + clerking[c].amount
               done == paid >= orderRevenue(clerking[c].read)
    <2>1. mirror' = [mirror EXCEPT !.paid = paid, !.settled = done]
        BY <1>5 DEF PaymentWritten
    <2> HIDE DEF paid, done
    <2> QED
        BY <1>1, <2>1, Zenon DEF OrderRow
<1>6. ASSUME NEW c \in Clerk, ReminderStamped(c) PROVE Same
    BY <1>1, <1>6 DEF ReminderStamped, OrderRow
<1> QED
    BY <1>2, <1>3, <1>4, <1>5, <1>6 DEF BuyerChanges, ClerkStep, recordPayment, sendReminder,
        ReminderDelivered, ClerkKilled

LEMMA SameMirrorKept ==
    ASSUME Apart, Truth, Ordered, Latest, Decided,
           UNCHANGED <<weather, order, outbox, handling>>,
           mirror'.rev = mirror.rev, mirror'.total = mirror.total,
           mirror'.cancelled = mirror.cancelled,
           mirror'.wholesale = mirror.wholesale, mirror'.due = mirror.due
    PROVE  (Apart /\ Truth /\ Ordered /\ Latest /\ Decided)'
<1>1. Undelivered' = Undelivered /\ (\A h \in Handler : Busy(h)' <=> Busy(h))
    BY DEF Undelivered, Busy
<1>2. Fair' <=> Fair
    BY DEF Fair, Calm
<1>3. Apart'
    BY <1>1 DEF Apart, Calm
<1>4. Truth'
    BY <1>1 DEF Truth, Fact
<1>5. Ordered'
    BY <1>1, <1>2 DEF Ordered
<1>6. Latest'
    BY <1>1, <1>2 DEF Latest
<1>7. Decided'
    BY DEF Decided, Calm
<1> QED
    BY <1>3, <1>4, <1>5, <1>6, <1>7

\* What Shopify announces is newer than all that is out.
LEMMA AnnouncedKept ==
    ASSUME MirrorInv, ShopifyChanges
    PROVE  (Apart /\ Truth /\ Ordered /\ Latest /\ Decided)'
<1>1. LedgerTypes /\ order.rev \in Nat /\ (\A d \in Undelivered : d.rev \in Nat)
    BY RevisionsAreNumbers DEF MirrorInv
<1>2. /\ order'.rev = order.rev + 1
      /\ order.cancelled => order'.cancelled
      /\ outbox \subseteq outbox'
      /\ \E d \in outbox' : d.topic = "upsert" /\ d.rev = order'.rev
      /\ \A d \in outbox' \ outbox :
           /\ d.rev = order'.rev /\ d.total = order'.total /\ d.cancelled = order'.cancelled
           /\ d.topic = "cancelled" => d.cancelled
    BY <1>1, AnnouncedTyped
<1>3. UNCHANGED <<weather, handling, mirror>>
    BY DEF ShopifyChanges
<1>4. /\ \A h \in Handler : Busy(h)' <=> Busy(h)
      /\ Fair' <=> Fair
    BY <1>3 DEF Busy, Fair, Calm
<1>5. \A d \in Undelivered' : d \in Undelivered \/ d \in outbox' \ outbox
    BY <1>3, <1>4, OutstandingParts
<1>6. \A d \in Undelivered : Fact(d) /\ d.rev < order'.rev
    BY <1>1, <1>2 DEF MirrorInv, Truth, Fact
<1>7. Apart'
    BY <1>3, <1>4 DEF MirrorInv, Apart, Calm
<1>8. Truth'
    <2>1. ASSUME NEW d \in Undelivered' PROVE Fact(d)'
        BY <1>1, <1>2, <1>5, <1>6, <2>1 DEF Fact
    <2>2. ASSUME NEW d \in Undelivered', NEW e \in Undelivered', d.rev <= e.rev, d.cancelled
          PROVE  e.cancelled
        <3>1. CASE e \in Undelivered /\ d \in Undelivered
            BY <2>2, <3>1 DEF MirrorInv, Truth
        <3>2. CASE e \in Undelivered /\ d \in outbox' \ outbox
            BY <1>1, <1>2, <1>6, <2>2, <3>2
        <3>3. CASE e \in outbox' \ outbox /\ d \in Undelivered
            BY <1>2, <1>6, <2>2, <3>3 DEF Fact
        <3>4. CASE e \in outbox' \ outbox /\ d \in outbox' \ outbox
            BY <1>2, <2>2, <3>4
        <3> QED
            BY <1>5, <2>2, <3>1, <3>2, <3>3, <3>4
    <2>3. mirror'.cancelled => order'.cancelled
        BY <1>2, <1>3 DEF MirrorInv, Truth
    <2> QED
        BY <2>1, <2>2, <2>3 DEF Truth
<1>9. Ordered'
    <2> SUFFICES ASSUME Fair
                 PROVE  /\ \A h \in Handler, d \in outbox' : Busy(h) => handling[h].facts.rev <= d.rev
                        /\ mirror.cancelled => \A d \in Undelivered' : d.cancelled
        BY <1>3, <1>4 DEF Ordered
    <2>1. ASSUME NEW h \in Handler, NEW d \in outbox', Busy(h)
          PROVE  handling[h].facts.rev <= d.rev
        <3>1. handling[h].facts \in Undelivered
            BY <2>1, OutstandingParts
        <3>2. CASE d \in outbox
            BY <2>1, <3>2 DEF MirrorInv, Ordered
        <3>3. CASE d \notin outbox
            BY <1>1, <1>2, <1>6, <3>1, <3>3
        <3> QED
            BY <3>2, <3>3
    <2>2. ASSUME mirror.cancelled, NEW d \in Undelivered' PROVE d.cancelled
        BY <1>2, <1>5, <2>2 DEF MirrorInv, Ordered, Truth
    <2> QED
        BY <2>1, <2>2
<1>10. Latest'
    BY <1>2 DEF Latest
<1>11. Decided'
    BY <1>3 DEF MirrorInv, Decided, Calm
<1> QED
    BY <1>7, <1>8, <1>9, <1>10, <1>11

\* A webhook is taken up: what is out stays out.
LEMMA ReceivedKept ==
    ASSUME MirrorInv, NEW h \in Handler, NEW m \in outbox,
           handleOrdersUpsert(h, m) \/ handleOrdersCancelled(h, m)
    PROVE  (Apart /\ Truth /\ Ordered /\ Latest /\ Decided)'
<1>1. LedgerTypes /\ handling \in [Handler -> Handling] /\ m \in OrderDelivery
    BY DEF MirrorInv, LedgerTypes, LedgerTypeOK
<1>2. /\ UNCHANGED <<weather, order, mirror>> /\ m.topic \in {"upsert", "cancelled"}
      /\ MayReceive(h, m) /\ Taken(m) /\ handling[h].at = "idle"
    BY DEF handleOrdersUpsert, handleOrdersCancelled, MayReceive
<1>3. PICK w : handling' = [handling EXCEPT ![h] = [at |-> "upsert", facts |-> m, wholesale |-> w]]
    BY DEF handleOrdersUpsert, handleOrdersCancelled
<1>4. /\ handling'[h].at = "upsert" /\ handling'[h].facts = m /\ handling'[h].wholesale = w
      /\ \A g \in Handler : g # h => handling'[g] = handling[g]
    BY <1>1, <1>3
<1>5. mirror.rev > 0 => w = mirror.wholesale
    <2>1. CASE handleOrdersUpsert(h, m)
        <3>1. handling'[h].wholesale = IF mirror.rev > 0 THEN mirror.wholesale ELSE isWholesaleOrder
            BY <1>1, <2>1 DEF handleOrdersUpsert
        <3> QED
            BY <1>4, <3>1
    <2>2. CASE handleOrdersCancelled(h, m)
        <3> DEFINE kept == mirror.rev > 0 /\ mirror.wholesale
        <3>1. handling' = [handling EXCEPT ![h] = [at |-> "upsert", facts |-> m, wholesale |-> kept]]
            BY <2>2 DEF handleOrdersCancelled
        <3>2. mirror.wholesale \in BOOLEAN
            BY <1>1, InHand DEF OrderRow
        <3>3. mirror.rev > 0 => kept = mirror.wholesale
            BY <3>2
        <3> HIDE DEF kept
        <3>4. handling'[h].wholesale = kept
            BY <1>1, <3>1
        <3> QED
            BY <1>4, <3>3, <3>4
    <2> QED
        BY <2>1, <2>2
<1>6. /\ outbox' \subseteq outbox /\ (\A d \in outbox : d = m \/ d \in outbox')
      /\ Fair' <=> Fair
      /\ Busy(h)' /\ ~Busy(h) /\ (\A g \in Handler : g # h => (Busy(g)' <=> Busy(g)))
    BY <1>2, <1>4 DEF Taken, Fair, Calm, Busy
<1>7. Undelivered' = Undelivered
    <2>1. \A d : d \in Undelivered' => d \in Undelivered
        BY <1>4, <1>6, OutstandingParts
    <2>2. \A d : d \in Undelivered => d \in Undelivered'
        BY <1>4, <1>6, OutstandingParts
    <2> QED
        BY <2>1, <2>2
<1>8. Apart'
    <2>1. Calm({"overlapped"}) => \A g \in Handler : g # h /\ Busy(g)' => handling'[g].facts.topic = "backfill"
        BY <1>2, <1>4, <1>6 DEF MayReceive, Calm, Busy
    <2>2. Calm({"overlapped"}) => \A f, g \in Handler :
              Busy(f)' /\ Busy(g)' /\ handling'[f].facts.topic # "backfill"
                 /\ handling'[g].facts.topic # "backfill" => f = g
        BY <2>1
    <2>3. \A g \in Handler : handling'[g].at = "decide" => handling'[g].facts.topic = "backfill"
        BY <1>2, <1>4 DEF MirrorInv, Apart
    <2>4. Calm({"backfilled"}) => \A g \in Handler : Busy(g)' => handling'[g].facts.topic # "backfill"
        BY <1>2, <1>4, <1>6 DEF MirrorInv, Apart
    <2> QED
        BY <1>2, <2>2, <2>3, <2>4 DEF Apart, Calm
<1>9. Truth'
    BY <1>2, <1>7, FewerOutstanding DEF MirrorInv, Truth
<1>10. Ordered'
    <2>1. ASSUME Fair, NEW g \in Handler, NEW d \in outbox', Busy(g)'
          PROVE  handling'[g].facts.rev <= d.rev
        BY <1>2, <1>4, <1>6, <2>1, FairIsCalm DEF MirrorInv, Ordered, MayReceive
    <2>2. Fair /\ mirror'.cancelled => \A d \in Undelivered' : d.cancelled
        BY <1>2, <1>7 DEF MirrorInv, Ordered
    <2> QED
        BY <1>6, <2>1, <2>2 DEF Ordered
<1>11. Latest'
    <2> SUFFICES ASSUME Fair, order.rev > 0
                 PROVE  \/ \E d \in outbox' : d.topic = "upsert" /\ d.rev = order.rev
                        \/ \E g \in Handler : /\ handling'[g].at = "upsert"
                                              /\ handling'[g].facts.topic = "upsert"
                                              /\ handling'[g].facts.rev = order.rev
                        \/ /\ mirror.total = order.total /\ mirror.cancelled = order.cancelled
                           /\ \A d \in Undelivered' : d.rev = order.rev
        BY <1>2, <1>6 DEF Latest
    <2>1. ASSUME NEW d \in outbox, d.topic = "upsert", d.rev = order.rev
          PROVE  d \in outbox' \/ handling'[h].facts = d
        BY <1>4, <1>6
    <2>2. ASSUME NEW g \in Handler, handling[g].at = "upsert", handling[g].facts.topic = "upsert",
                 handling[g].facts.rev = order.rev
          PROVE  g # h /\ handling'[g] = handling[g]
        BY <1>2, <1>4, <2>2
    <2> QED
        BY <1>4, <1>7, <2>1, <2>2 DEF MirrorInv, Latest
<1>12. Decided'
    <2>1. Calm({"overlapped", "backfilled"}) => \A g \in Handler :
              handling'[g].at = "upsert" /\ mirror.rev > 0 => handling'[g].wholesale = mirror.wholesale
        BY <1>4, <1>5 DEF MirrorInv, Decided
    <2>2. Calm({"overlapped"}) => \A g \in Handler : handling'[g].at = "terms" =>
              handling'[g].facts.topic = "upsert" /\ handling'[g].saved.due = mirror.due
        BY <1>4 DEF MirrorInv, Decided
    <2> QED
        BY <1>2, <2>1, <2>2 DEF Decided, Calm
<1> QED
    BY <1>8, <1>9, <1>10, <1>11, <1>12

\* An edit flags the row, and the upsert that comes with it is still out.
LEMMA EditedKept ==
    ASSUME MirrorInv, NEW h \in Handler, NEW m \in outbox, handleOrdersEdited(h, m)
    PROVE  (Apart /\ Truth /\ Ordered /\ Latest /\ Decided)'
<1>1. LedgerTypes /\ mirror \in OrderRow
    BY InHand DEF MirrorInv
<1>2. UNCHANGED <<weather, order, handling>> /\ m.topic = "edited" /\ Taken(m)
    BY DEF handleOrdersEdited
<1>3. /\ mirror'.rev = mirror.rev /\ mirror'.total = mirror.total
      /\ mirror'.cancelled = mirror.cancelled
      /\ mirror'.wholesale = mirror.wholesale /\ mirror'.due = mirror.due
    BY <1>1 DEF handleOrdersEdited, markNeedsResync, OrderRow
<1>4. /\ outbox' \subseteq outbox /\ (\A d \in outbox : d = m \/ d \in outbox')
      /\ Fair' <=> Fair
      /\ \A g \in Handler : Busy(g)' <=> Busy(g)
    BY <1>2 DEF Taken, Fair, Calm, Busy
<1>5. Undelivered' \subseteq Undelivered
    <2>1. handling' = handling
        BY <1>2
    <2> QED
        BY <1>4, <2>1, OutstandingParts
<1>6. Apart'
    <2>1. handling' = handling /\ weather' = weather
        BY <1>2
    <2> QED
        BY <2>1 DEF MirrorInv, Apart, Calm, Busy
<1>7. Truth'
    BY <1>2, <1>3, <1>5, FewerOutstanding DEF MirrorInv, Truth
<1>8. Ordered'
    BY <1>2, <1>3, <1>4, <1>5 DEF MirrorInv, Ordered
<1>9. Latest'
    BY <1>2, <1>3, <1>4, <1>5 DEF MirrorInv, Latest
<1>10. Decided'
    BY <1>2, <1>3 DEF MirrorInv, Decided, Calm
<1> QED
    BY <1>6, <1>7, <1>8, <1>9, <1>10

\* The backfill reads the order as it is: true, if not in order.
LEMMA FetchedKept ==
    ASSUME MirrorInv, NEW h \in Handler, fetchOrderPage(h)
    PROVE  (Apart /\ Truth /\ Ordered /\ Latest /\ Decided)'
<1> DEFINE page == [topic |-> "backfill", rev |-> order.rev, total |-> order.total,
                    cancelled |-> order.cancelled]
<1>1. LedgerTypes /\ handling \in [Handler -> Handling] /\ order.rev \in Nat
      /\ \A d \in Undelivered : d.rev \in Nat
    BY RevisionsAreNumbers DEF MirrorInv, LedgerTypes
<1>2. /\ UNCHANGED <<weather, order, outbox, mirror>>
      /\ "backfilled" \in weather /\ handling[h].at = "idle"
    BY DEF fetchOrderPage, shopifyVars
<1>3. ~Calm({"backfilled"}) /\ ~Calm({"overlapped", "backfilled"}) /\ ~Fair /\ ~Fair'
    BY <1>2 DEF Calm, Fair
<1>4. handling'[h].at = "decide" /\ handling'[h].facts = page
      /\ \A g \in Handler : g # h => handling'[g] = handling[g]
    BY <1>1 DEF fetchOrderPage
<1>5. Busy(h)' /\ (\A g \in Handler : g # h => (Busy(g)' <=> Busy(g)))
    BY <1>4 DEF Busy
<1>6. \A d \in Undelivered' : d \in Undelivered \/ d = page
    BY <1>2, <1>4, <1>5, OutstandingParts
<1>7. Apart'
    BY <1>2, <1>3, <1>4, <1>5 DEF MirrorInv, Apart, Calm
<1>8. Truth'
    <2>1. Fact(page) /\ \A d \in Undelivered : Fact(d)
        BY <1>1 DEF Fact, MirrorInv, Truth
    <2>2. ASSUME NEW d \in Undelivered', NEW e \in Undelivered', d.rev <= e.rev, d.cancelled
          PROVE  e.cancelled
        <3>1. CASE e = page
            BY <1>6, <2>1, <2>2, <3>1 DEF Fact
        <3>2. CASE e \in Undelivered /\ d = page
            BY <1>1, <2>1, <2>2, <3>2 DEF Fact
        <3>3. CASE e \in Undelivered /\ d \in Undelivered
            BY <2>2, <3>3 DEF MirrorInv, Truth
        <3> QED
            BY <1>6, <2>2, <3>1, <3>2, <3>3
    <2>3. \A d \in Undelivered' : Fact(d)'
        BY <1>2, <1>6, <2>1 DEF Fact
    <2>4. mirror'.cancelled => order'.cancelled
        BY <1>2 DEF MirrorInv, Truth
    <2> QED
        BY <2>2, <2>3, <2>4 DEF Truth
<1>9. Ordered' /\ Latest'
    BY <1>3 DEF Ordered, Latest
<1>10. Decided'
    BY <1>2, <1>3, <1>4 DEF MirrorInv, Decided, Calm
<1> QED
    BY <1>7, <1>8, <1>9, <1>10

LEMMA PageDecidedKept ==
    ASSUME MirrorInv, NEW h \in Handler, backfillOrders(h)
    PROVE  (Apart /\ Truth /\ Ordered /\ Latest /\ Decided)'
<1>1. LedgerTypes /\ handling \in [Handler -> Handling]
    BY DEF MirrorInv, LedgerTypes
<1>2. /\ UNCHANGED <<weather, order, outbox, mirror>>
      /\ handling[h].at = "decide" /\ handling[h].facts.topic = "backfill"
    BY DEF backfillOrders, shopifyVars, MirrorInv, Apart
<1>3. ~Calm({"backfilled"}) /\ ~Calm({"overlapped", "backfilled"}) /\ ~Fair /\ ~Fair'
    BY <1>2, FairIsCalm DEF MirrorInv, Apart, Busy, Fair, Calm
<1>4. handling'[h].at = "upsert" /\ handling'[h].facts = handling[h].facts
      /\ \A g \in Handler : g # h => handling'[g] = handling[g]
    <2>1. handling[h] \in [at: {"decide", "upsert"}, facts: OrderDelivery, wholesale: BOOLEAN]
        BY <1>1, <1>2 DEF Handling, OffWork
    <2> QED
        BY <1>1, <2>1 DEF backfillOrders
<1>5. Busy(h) /\ Busy(h)' /\ (\A g \in Handler : Busy(g)' <=> Busy(g))
    BY <1>2, <1>4 DEF Busy
<1>6. Undelivered' \subseteq Undelivered
    BY <1>2, <1>4, <1>5, OutstandingParts
<1>7. Apart'
    BY <1>2, <1>3, <1>4, <1>5 DEF MirrorInv, Apart, Calm
<1>8. Truth'
    BY <1>2, <1>6, FewerOutstanding DEF MirrorInv, Truth
<1>9. Ordered' /\ Latest'
    BY <1>3 DEF Ordered, Latest
<1>10. Decided'
    BY <1>2, <1>3, <1>4 DEF MirrorInv, Decided, Calm
<1> QED
    BY <1>7, <1>8, <1>9, <1>10

\* A handler at work that stops: who is left was there before.
LEMMA OneFewer ==
    ASSUME LedgerTypes, NEW h \in Handler, handling' = [handling EXCEPT ![h] = OffWork]
    PROVE  /\ handling'[h].at = "idle" /\ ~Busy(h)'
           /\ \A g \in Handler : handling'[g].at # "idle" => g # h /\ handling'[g] = handling[g]
           /\ \A g \in Handler : g # h => handling'[g] = handling[g]
<1>1. handling \in [Handler -> Handling]
    BY DEF LedgerTypes
<1> QED
    BY <1>1 DEF OffWork, Busy

\* The row is what the handler had in hand: as true as that was, and in fair
\* weather no older than the row.
LEMMA UpsertedKept ==
    ASSUME MirrorInv, NEW h \in Handler, Upserted(h)
    PROVE  (Apart /\ Truth /\ Ordered /\ Latest /\ Decided)'
<1> DEFINE f == handling[h].facts
           w == handling[h].wholesale
           saved == upsertOrder(mirror, f, w)
<1>1. LedgerTypes /\ mirror \in OrderRow /\ handling \in [Handler -> Handling] /\ order.rev \in Nat
      /\ \A d \in Undelivered : d.rev \in Nat
    BY InHand, RevisionsAreNumbers DEF MirrorInv, LedgerTypes
<1>2. /\ UNCHANGED <<weather, order, outbox>> /\ mirror' = saved
      /\ handling[h].at = "upsert" /\ Busy(h)
    BY DEF Upserted, shopifyVars, Busy
<1>3. f \in OrderDelivery /\ w \in BOOLEAN /\ f \in Undelivered /\ Fact(f)
    BY <1>1, <1>2, InHand, OutstandingParts DEF MirrorInv, Truth
<1>4. /\ mirror'.rev = f.rev /\ mirror'.total = f.total
      /\ mirror'.wholesale = w /\ mirror'.due = mirror.due
    BY <1>1, <1>2, <1>3, RowUpserted
<1>5. mirror'.cancelled <=> f.cancelled
    <2>1. mirror'.cancelled = (f.cancelled \/ f.topic = "cancelled")
        BY <1>1, <1>2, <1>3, RowUpserted
    <2> QED
        BY <1>3, <2>1 DEF Fact
<1>6. /\ \/ handling'[h] = OffWork
         \/ /\ handling'[h] = [at |-> "terms", facts |-> f, saved |-> mirror'] /\ f.topic = "upsert"
      /\ \A g \in Handler : g # h => handling'[g] = handling[g]
    BY <1>1 DEF Upserted
<1> HIDE DEF f, w, saved
<1>7. /\ \A g \in Handler : Busy(g)' => Busy(g) /\ handling'[g].facts = handling[g].facts
      /\ Fair' <=> Fair
    BY <1>2, <1>6 DEF Busy, OffWork, Fair, Calm, f
<1>8. Undelivered' \subseteq Undelivered
    BY <1>2, <1>7, OutstandingParts
<1>9. Apart'
    <2>1. \A g \in Handler : handling'[g].at = "decide" => handling'[g].facts.topic = "backfill"
        BY <1>6 DEF MirrorInv, Apart, OffWork
    <2>2. weather' = weather
        BY <1>2
    <2> QED
        BY <1>7, <2>1, <2>2 DEF MirrorInv, Apart, Calm
<1>10. Truth'
    <2>1. mirror'.cancelled => order.cancelled
        BY <1>3, <1>5 DEF Fact
    <2> QED
        BY <1>2, <1>8, <2>1, FewerOutstanding DEF MirrorInv
<1>11. ASSUME Fair
       PROVE  \A d \in Undelivered' : f.rev <= d.rev
    <2>1. \A d \in outbox : f.rev <= d.rev
        BY <1>2, <1>11 DEF MirrorInv, Ordered, f
    <2>2. ASSUME NEW g \in Handler, Busy(g)' PROVE handling'[g].facts = f
        BY <1>2, <1>7, <1>11, <2>2, OneAtTask, FairIsCalm DEF MirrorInv, f
    <2> QED
        BY <1>1, <1>2, <1>3, <2>1, <2>2, OutstandingParts
<1>12. Ordered'
    <2>1. ASSUME Fair, NEW g \in Handler, NEW d \in outbox', Busy(g)'
          PROVE  handling'[g].facts.rev <= d.rev
        BY <1>2, <1>7, <2>1 DEF MirrorInv, Ordered
    <2>2. ASSUME Fair, mirror'.cancelled, NEW d \in Undelivered' PROVE d.cancelled
        BY <1>3, <1>5, <1>8, <1>11, <2>2 DEF MirrorInv, Truth
    <2> QED
        BY <1>7, <2>1, <2>2 DEF Ordered
<1>13. Latest'
    <2> SUFFICES ASSUME Fair, order.rev > 0
                 PROVE  \/ \E d \in outbox : d.topic = "upsert" /\ d.rev = order.rev
                        \/ /\ mirror'.total = order.total /\ mirror'.cancelled = order.cancelled
                           /\ \A d \in Undelivered' : d.rev = order.rev
        BY <1>2, <1>7 DEF Latest
    <2>1. ASSUME f.rev = order.rev
          PROVE  /\ mirror'.total = order.total /\ mirror'.cancelled = order.cancelled
                 /\ \A d \in Undelivered' : d.rev = order.rev
        <3>1. mirror'.total = order.total
            BY <1>3, <1>4, <2>1 DEF Fact
        <3>2. mirror'.cancelled = order.cancelled
            <4>1. f.cancelled = order.cancelled
                BY <1>3, <2>1 DEF Fact
            <4>2. mirror' \in OrderRow
                BY <1>1, <1>2, <1>3, RowUpserted DEF saved
            <4>3. mirror'.cancelled \in BOOLEAN /\ f.cancelled \in BOOLEAN
                BY <1>3, <4>2 DEF OrderRow, OrderDelivery
            <4> QED
                BY <1>5, <4>1, <4>3
        <3>3. ASSUME NEW d \in Undelivered' PROVE d.rev = order.rev
            <4>1. d.rev <= order.rev /\ order.rev <= d.rev /\ d.rev \in Nat
                BY <1>1, <1>8, <1>11, <2>1, <3>3 DEF MirrorInv, Truth, Fact
            <4> QED
                BY <1>1, <4>1
        <3> QED
            BY <3>1, <3>2, <3>3
    <2>2. ASSUME NEW g \in Handler, handling[g].at = "upsert", handling[g].facts.rev = order.rev
          PROVE  f.rev = order.rev
        BY <1>2, <2>2, OneAtTask, FairIsCalm DEF MirrorInv, Busy, f
    <2>3. (\A d \in Undelivered : d.rev = order.rev) => f.rev = order.rev
        BY <1>3
    <2> QED
        BY <2>1, <2>2, <2>3 DEF MirrorInv, Latest
<1>14. Decided'
    <2>1. ASSUME Calm({"overlapped", "backfilled"}), NEW g \in Handler, handling'[g].at = "upsert"
          PROVE  FALSE
        <3>1. g # h /\ Busy(g)
            BY <1>6, <1>7, <2>1 DEF Busy, OffWork
        <3> QED
            BY <1>2, <2>1, <3>1, OneAtTask, FairIsCalm DEF MirrorInv
    <2>2. ASSUME Calm({"overlapped"}), NEW g \in Handler, handling'[g].at = "terms"
          PROVE  handling'[g].facts.topic = "upsert" /\ handling'[g].saved.due = mirror'.due
        BY <1>4, <1>6, <2>2 DEF MirrorInv, Decided, OffWork
    <2>3. weather' = weather
        BY <1>2
    <2> QED
        BY <2>1, <2>2, <2>3 DEF Decided, Calm
<1> QED
    BY <1>9, <1>10, <1>12, <1>13, <1>14

LEMMA TermsKept ==
    ASSUME MirrorInv, NEW h \in Handler, applyTermsToOrder(h)
    PROVE  (Apart /\ Truth /\ Ordered /\ Latest /\ Decided)'
<1>1. LedgerTypes /\ mirror \in OrderRow
    BY InHand DEF MirrorInv
<1>2. /\ UNCHANGED <<weather, order, outbox>>
      /\ handling[h].at = "terms" /\ Busy(h) /\ handling' = [handling EXCEPT ![h] = OffWork]
    BY DEF applyTermsToOrder, shopifyVars, Busy
<1>3. /\ mirror'.rev = mirror.rev /\ mirror'.total = mirror.total
      /\ mirror'.cancelled = mirror.cancelled /\ mirror'.wholesale = mirror.wholesale
    BY <1>1 DEF applyTermsToOrder, OrderRow
<1>4. /\ \A g \in Handler : handling'[g].at # "idle" => g # h /\ handling'[g] = handling[g]
      /\ \A g \in Handler : g # h => handling'[g] = handling[g]
    BY <1>1, <1>2, OneFewer
<1>5. /\ \A g \in Handler : Busy(g)' => Busy(g) /\ handling'[g] = handling[g]
      /\ Fair' <=> Fair
    BY <1>2, <1>4 DEF Busy, Fair, Calm
<1>6. Undelivered' \subseteq Undelivered
    BY <1>2, <1>5, OutstandingParts
<1>7. Apart'
    <2>1. \A g \in Handler : handling'[g].at = "decide" => handling'[g].facts.topic = "backfill"
        BY <1>4 DEF MirrorInv, Apart
    <2>2. weather' = weather
        BY <1>2
    <2> QED
        BY <1>5, <2>1, <2>2 DEF MirrorInv, Apart, Calm
<1>8. Truth'
    BY <1>2, <1>3, <1>6, FewerOutstanding DEF MirrorInv, Truth
<1>9. Ordered'
    <2>1. ASSUME Fair, NEW g \in Handler, NEW d \in outbox', Busy(g)'
          PROVE  handling'[g].facts.rev <= d.rev
        BY <1>2, <1>5, <2>1 DEF MirrorInv, Ordered
    <2>2. Fair /\ mirror'.cancelled => \A d \in Undelivered' : d.cancelled
        BY <1>3, <1>6 DEF MirrorInv, Ordered
    <2> QED
        BY <1>5, <2>1, <2>2 DEF Ordered
<1>10. Latest'
    <2> SUFFICES ASSUME Fair, order.rev > 0
                 PROVE  \/ \E d \in outbox : d.topic = "upsert" /\ d.rev = order.rev
                        \/ \E g \in Handler : /\ handling'[g].at = "upsert"
                                              /\ handling'[g].facts.topic = "upsert"
                                              /\ handling'[g].facts.rev = order.rev
                        \/ /\ mirror'.total = order.total /\ mirror'.cancelled = order.cancelled
                           /\ \A d \in Undelivered' : d.rev = order.rev
        BY <1>2, <1>5 DEF Latest
    <2>1. ASSUME NEW g \in Handler, handling[g].at = "upsert" PROVE handling'[g] = handling[g]
        BY <1>2, <1>4, <2>1
    <2> QED
        BY <1>3, <1>6, <2>1 DEF MirrorInv, Latest
<1>11. Decided'
    <2>1. ASSUME Calm({"overlapped", "backfilled"}), NEW g \in Handler,
                 handling'[g].at = "upsert", mirror'.rev > 0
          PROVE  handling'[g].wholesale = mirror'.wholesale
        BY <1>3, <1>4, <2>1 DEF MirrorInv, Decided
    <2>2. ASSUME Calm({"overlapped"}), NEW g \in Handler, handling'[g].at = "terms"
          PROVE  FALSE
        <3>1. g # h /\ handling[g].at = "terms" /\ Busy(g)
            BY <1>4, <2>2 DEF Busy
        <3>2. handling[g].facts.topic = "upsert" /\ handling[h].facts.topic = "upsert"
            BY <1>2, <2>2, <3>1 DEF MirrorInv, Decided
        <3> QED
            BY <1>2, <2>2, <3>1, <3>2 DEF MirrorInv, Apart
    <2>3. weather' = weather
        BY <1>2
    <2> QED
        BY <2>1, <2>2, <2>3 DEF Decided, Calm
<1> QED
    BY <1>7, <1>8, <1>9, <1>10, <1>11

\* What a killed handler had in hand goes back to be delivered again.
LEMMA KilledKept ==
    ASSUME MirrorInv, NEW h \in Handler, HandlerKilled(h)
    PROVE  (Apart /\ Truth /\ Ordered /\ Latest /\ Decided)'
<1> DEFINE f == handling[h].facts
<1>1. LedgerTypes
    BY DEF MirrorInv
<1>2. /\ UNCHANGED <<weather, order, mirror>> /\ Busy(h)
      /\ handling' = [handling EXCEPT ![h] = OffWork]
      /\ outbox' = outbox \cup {m \in {f} : m.topic # "backfill"}
    BY DEF HandlerKilled, Busy
<1> HIDE DEF f
<1>3. /\ \A g \in Handler : handling'[g].at # "idle" => g # h /\ handling'[g] = handling[g]
      /\ \A g \in Handler : g # h => handling'[g] = handling[g]
    BY <1>1, <1>2, OneFewer
<1>4. /\ \A g \in Handler : Busy(g)' => Busy(g) /\ g # h /\ handling'[g] = handling[g]
      /\ Fair' <=> Fair
      /\ \A d \in outbox' : d \in outbox \/ d = f
      /\ outbox \subseteq outbox' /\ (f.topic = "upsert" => f \in outbox')
    BY <1>2, <1>3 DEF Busy, Fair, Calm
<1>5. f \in Undelivered
    BY <1>2, OutstandingParts DEF f
<1>6. Undelivered' \subseteq Undelivered
    BY <1>4, <1>5, OutstandingParts
<1>7. Apart'
    <2>1. \A g \in Handler : handling'[g].at = "decide" => handling'[g].facts.topic = "backfill"
        BY <1>3 DEF MirrorInv, Apart
    <2>2. weather' = weather
        BY <1>2
    <2> QED
        BY <1>4, <2>1, <2>2 DEF MirrorInv, Apart, Calm
<1>8. Truth'
    BY <1>2, <1>6, FewerOutstanding DEF MirrorInv, Truth
<1>9. ASSUME Fair, NEW g \in Handler, Busy(g) PROVE g = h
    BY <1>2, <1>9, OneAtTask, FairIsCalm DEF MirrorInv
<1>10. Ordered'
    BY <1>2, <1>4, <1>6, <1>9 DEF MirrorInv, Ordered
<1>11. Latest'
    <2> SUFFICES ASSUME Fair, order.rev > 0
                 PROVE  \/ \E d \in outbox' : d.topic = "upsert" /\ d.rev = order.rev
                        \/ /\ mirror.total = order.total /\ mirror.cancelled = order.cancelled
                           /\ \A d \in Undelivered' : d.rev = order.rev
        BY <1>2, <1>4 DEF Latest
    <2>1. ASSUME NEW g \in Handler, handling[g].at = "upsert", handling[g].facts.topic = "upsert",
                 handling[g].facts.rev = order.rev
          PROVE  f \in outbox' /\ f.topic = "upsert" /\ f.rev = order.rev
        BY <1>4, <1>9, <2>1 DEF Busy, f
    <2> QED
        BY <1>4, <1>6, <2>1 DEF MirrorInv, Latest
<1>12. Decided'
    <2>1. weather' = weather /\ mirror' = mirror
        BY <1>2
    <2> QED
        BY <1>3, <2>1 DEF MirrorInv, Decided, Calm
<1> QED
    BY <1>7, <1>8, <1>10, <1>11, <1>12

LEMMA MirrorStep == MirrorInv /\ [LedgerNext]_ledgerState => MirrorInv'
<1> SUFFICES ASSUME MirrorInv, [LedgerNext]_ledgerState PROVE MirrorInv'
    OBVIOUS
<1>1. LedgerTypes /\ LedgerTypes'
    BY TypesStep DEF MirrorInv
<1> SUFFICES (Apart /\ Truth /\ Ordered /\ Latest /\ Decided)'
    BY <1>1 DEF MirrorInv
<1>2. CASE \/ UNCHANGED ledgerState
           \/ BuyerChanges \/ CooldownOver \/ \E c \in Clerk : ClerkStep(c)
    <2>1. /\ UNCHANGED <<weather, order, outbox, handling>>
          /\ mirror'.rev = mirror.rev /\ mirror'.total = mirror.total
          /\ mirror'.cancelled = mirror.cancelled
          /\ mirror'.wholesale = mirror.wholesale /\ mirror'.due = mirror.due
        BY <1>1, <1>2, MirrorUntouched DEF ledgerState, shopifyVars
    <2> QED
        BY <2>1, SameMirrorKept DEF MirrorInv
<1>3. ASSUME NEW h \in Handler, HandlerStep(h)
      PROVE  (Apart /\ Truth /\ Ordered /\ Latest /\ Decided)'
    BY <1>3, ReceivedKept, EditedKept, FetchedKept, PageDecidedKept, UpsertedKept, TermsKept,
        KilledKept DEF HandlerStep
<1> QED
    BY <1>2, <1>3, AnnouncedKept DEF LedgerNext

\* Once every delivery is handled the row says what Shopify says, or is
\* flagged for a resync, when deliveries come in order and one at a time.
THEOREM MirrorStaysHonest == LedgerSpec => []MirrorHonest
<1>1. MirrorInv => MirrorHonest
    BY DEF MirrorInv, Latest, MirrorHonest, Fair
<1> QED
    BY MirrorInitially, MirrorStep, <1>1, PTL DEF LedgerSpec

\* A recorded cancellation, what an order is, and its terms, once decided, stay:
\* each unless the misfortunes it names happen.
THEOREM DecisionsAreKept == LedgerSpec => DecisionsStay
<1>1. MirrorInv /\ [LedgerNext]_ledgerState
          => [CancelledStays /\ WholesaleStays /\ TermsStay]_ledgerState
    <2> SUFFICES ASSUME MirrorInv, [LedgerNext]_ledgerState
                 PROVE  CancelledStays /\ WholesaleStays /\ TermsStay
        OBVIOUS
    <2>1. LedgerTypes /\ mirror \in OrderRow
        BY InHand DEF MirrorInv
    <2>2. CASE /\ mirror'.cancelled = mirror.cancelled
               /\ mirror'.wholesale = mirror.wholesale /\ mirror'.due = mirror.due
        BY <2>2 DEF CancelledStays, WholesaleStays, TermsStay
    <2>3. CASE \/ UNCHANGED ledgerState \/ ShopifyChanges
               \/ BuyerChanges \/ CooldownOver \/ \E c \in Clerk : ClerkStep(c)
        BY <2>1, <2>2, <2>3, MirrorUntouched DEF ledgerState, ShopifyChanges
    <2>4. ASSUME NEW h \in Handler, Upserted(h)
          PROVE  CancelledStays /\ WholesaleStays /\ TermsStay
        <3> DEFINE f == handling[h].facts
                   w == handling[h].wholesale
        <3>1. f \in OrderDelivery /\ w \in BOOLEAN /\ f \in Undelivered
            BY <2>1, <2>4, InHand, OutstandingParts DEF Upserted, Busy
        <3>2. mirror' = upsertOrder(mirror, f, w)
            BY <2>4 DEF Upserted
        <3>3. /\ mirror'.cancelled = (f.cancelled \/ f.topic = "cancelled")
              /\ mirror'.wholesale = w /\ mirror'.due = mirror.due
            BY <2>1, <3>1, <3>2, RowUpserted
        <3>4. Fair /\ mirror.cancelled => f.cancelled
            BY <3>1 DEF MirrorInv, Ordered
        <3>5. Calm({"overlapped", "backfilled"}) /\ mirror.rev > 0 => w = mirror.wholesale
            BY <2>4 DEF MirrorInv, Decided, Upserted
        <3> HIDE DEF f, w
        <3>6. CancelledStays
            BY <3>3, <3>4 DEF CancelledStays, Fair
        <3> QED
            BY <3>3, <3>5, <3>6 DEF WholesaleStays, TermsStay
    <2>5. ASSUME NEW h \in Handler, applyTermsToOrder(h)
          PROVE  CancelledStays /\ WholesaleStays /\ TermsStay
        <3>1. mirror'.cancelled = mirror.cancelled /\ mirror'.wholesale = mirror.wholesale
            BY <2>1, <2>5 DEF applyTermsToOrder, OrderRow
        <3>2. ASSUME Calm({"overlapped"}), mirror.due # 0 PROVE mirror' = mirror
            <4>1. handling[h].saved.due # 0
                BY <2>5, <3>2 DEF applyTermsToOrder, MirrorInv, Decided
            <4> QED
                BY <2>5, <4>1 DEF applyTermsToOrder
        <3> QED
            BY <3>1, <3>2 DEF CancelledStays, WholesaleStays, TermsStay
    <2>6. ASSUME NEW h \in Handler, NEW m \in outbox, handleOrdersEdited(h, m)
          PROVE  CancelledStays /\ WholesaleStays /\ TermsStay
        BY <2>1, <2>2, <2>6 DEF handleOrdersEdited, markNeedsResync, OrderRow
    <2>7. ASSUME NEW h \in Handler, HandlerStep(h), mirror' = mirror
          PROVE  CancelledStays /\ WholesaleStays /\ TermsStay
        BY <2>2, <2>7
    <2> QED
        BY <2>3, <2>4, <2>5, <2>6, <2>7 DEF LedgerNext, HandlerStep, handleOrdersUpsert,
            handleOrdersCancelled, fetchOrderPage, backfillOrders, HandlerKilled
<1> QED
    BY MirrorInitially, MirrorStep, <1>1, PTL DEF LedgerSpec, DecisionsStay
=============================================================================
