------------------------------ MODULE OrderLedger ------------------------------
(***************************************************************************)
(* One order of one buyer: Shopify's copy, the row that mirrors it, and    *)
(* what is owed on it.  app/lib/orders/sync.server.ts writes the row from  *)
(* the order webhooks (app/lib/webhooks/handlers/orders-*.server.ts) and   *)
(* from a page of the backfill (jobs/handlers/backfill-orders.server.ts);  *)
(* app/lib/terms puts it on the buyer's terms, records payments and sends  *)
(* reminders.                                                              *)
(*                                                                         *)
(* A delivery carries the order as it was when Shopify sent it, and no     *)
(* write looks at its age.  One step for each call of the database.  What  *)
(* can go wrong in a behaviour is fixed at its start, by `weather`, so     *)
(* that a property can say what it rests on.  Publishing what checkout     *)
(* reads is PlanReconcile's; order lines are rewritten in the transaction  *)
(* that writes the row, and are left out with it.                          *)
(***************************************************************************)
EXTENDS Integers, FiniteSets

CONSTANTS
    Handler,        \* webhook requests and job runs that write the mirror
    Clerk,          \* requests of the merchant on the ledger
    Weathers,       \* the sets of misfortunes to consider
    Totals,         \* totals an order can have
    Amounts,        \* amounts a merchant may record; negative is a correction
    Days,           \* terms a buyer may have; 0 is no terms
    MaxEvents       \* bound: what Shopify, the buyer and the merchant do

Misfortunes == {"reordered",    \* a delivery overtakes another, or comes again
                "overlapped",   \* two deliveries are handled at once
                "backfilled",   \* the backfill reaches the order
                "doubled",      \* two of the merchant's requests at once
                "killed"}       \* a request is killed between two steps

ASSUME OrderLedgerAssumption ==
    /\ Weathers \subseteq SUBSET Misfortunes
    /\ Totals \subseteq Nat /\ Days \subseteq Nat /\ Amounts \subseteq Int
    /\ MaxEvents \in Nat

VARIABLES
    weather,
    order,      \* Shopify's order: revision, total, cancelled
    outbox,     \* deliveries not handled yet
    handling,   \* where each handler is
    buyer,      \* is the buyer wholesale, and on what terms
    mirror,     \* our row; rev 0 before there is one
    received,   \* the sum of the payment rows
    clerking,   \* where each clerk is
    chased,     \* history: reminders sent in this cooldown
    events

shopifyVars == <<order, outbox, buyer>>
ledgerVars  == <<received, clerking, chased>>
ledgerState == <<weather, shopifyVars, handling, mirror, ledgerVars, events>>

NoRow == [rev |-> 0, total |-> 0, cancelled |-> FALSE, wholesale |-> FALSE,
          resync |-> FALSE, due |-> 0, paid |-> 0, settled |-> FALSE, reminded |-> FALSE]

OrderDelivery == [topic: {"upsert", "cancelled", "edited", "backfill"},
             rev: 1..MaxEvents, total: Totals, cancelled: BOOLEAN]

OffWork == [at |-> "idle"]

-----------------------------------------------------------------------------
(* lib/orders/totals.ts                                                    *)

orderRevenue(row) == row.total

amountOwed(row) == IF row.total > row.paid THEN row.total - row.paid ELSE 0

-----------------------------------------------------------------------------
(* sync.server.ts                                                          *)

isWholesaleOrder == buyer.wholesale

upsertKeepingTotal(row, facts, wholesale) ==     \* mutant: a total is written once
    [row EXCEPT !.rev = facts.rev, !.total = IF row.rev = 0 THEN facts.total ELSE @,
                !.cancelled = facts.cancelled \/ facts.topic = "cancelled",
                !.wholesale = wholesale, !.resync = FALSE]

(* rowData over the row there is: what is owed, agreed and paid is not its *)
(* to write.  The cancelled handler never passes a missing date            *)
upsertOrder(row, facts, wholesale) ==
    [row EXCEPT !.rev = facts.rev, !.total = facts.total,
                !.cancelled = facts.cancelled \/ facts.topic = "cancelled",
                !.wholesale = wholesale, !.resync = FALSE]

markNeedsResync(row) == IF row.rev = 0 THEN row ELSE [row EXCEPT !.resync = TRUE]

-----------------------------------------------------------------------------
(* Shopify: the order is placed, edited, refunded or cancelled             *)

Announce(topics) ==
    outbox' = outbox \cup {[topic |-> t, rev |-> order'.rev, total |-> order'.total,
                            cancelled |-> order'.cancelled] : t \in topics}

Happens == events < MaxEvents /\ events' = events + 1

ShopifyChanges ==
    /\ Happens
    /\ \/ \E total \in Totals :
            /\ order' = [order EXCEPT !.rev = @ + 1, !.total = total]
            /\ \/ Announce({"upsert"})
               \/ order.rev > 0 /\ Announce({"edited", "upsert"})
       \/ /\ order.rev > 0 /\ ~order.cancelled
          /\ order' = [order EXCEPT !.rev = @ + 1, !.cancelled = TRUE]
          /\ Announce({"cancelled", "upsert"})
    /\ UNCHANGED <<weather, handling, buyer, mirror, ledgerVars>>

BuyerChanges ==
    /\ Happens
    /\ \/ buyer' = [buyer EXCEPT !.wholesale = ~@]
       \/ \E days \in Days \ {buyer.days} : buyer' = [buyer EXCEPT !.days = days]
    /\ UNCHANGED <<weather, order, outbox, handling, mirror, ledgerVars>>

-----------------------------------------------------------------------------
(* The handlers.  `keep` says that the delivery will come again            *)

MayReceive(h, m) ==
    /\ handling[h].at = "idle"
    /\ "overlapped" \notin weather => \A g \in Handler :
            handling[g].at # "idle" => handling[g].facts.topic = "backfill"
    /\ "reordered" \notin weather => \A n \in outbox : m.rev <= n.rev

Taken(m) ==
    \/ outbox' = outbox \ {m}
    \/ "reordered" \in weather /\ outbox' = outbox

(* An existing row keeps what was decided when it was first written        *)
handleOrdersUpsert(h, m) ==
    /\ m.topic = "upsert" /\ MayReceive(h, m) /\ Taken(m)
    /\ handling' = [handling EXCEPT ![h] =
            [at |-> "upsert", facts |-> m,
             wholesale |-> IF mirror.rev > 0 THEN mirror.wholesale ELSE isWholesaleOrder]]
    /\ UNCHANGED <<weather, order, buyer, mirror, ledgerVars, events>>

handleOrdersCancelled(h, m) ==
    /\ m.topic = "cancelled" /\ MayReceive(h, m) /\ Taken(m)
    /\ handling' = [handling EXCEPT ![h] =
            [at |-> "upsert", facts |-> m, wholesale |-> mirror.rev > 0 /\ mirror.wholesale]]
    /\ UNCHANGED <<weather, order, buyer, mirror, ledgerVars, events>>

handleOrdersEdited(h, m) ==
    /\ m.topic = "edited" /\ MayReceive(h, m) /\ Taken(m)
    /\ mirror' = markNeedsResync(mirror)
    /\ UNCHANGED <<weather, order, handling, buyer, ledgerVars, events>>

(* A page of the backfill, read from Shopify and written order by order    *)
fetchOrderPage(h) ==
    /\ "backfilled" \in weather /\ order.rev > 0 /\ handling[h].at = "idle"
    /\ \A g \in Handler : handling[g].at # "idle" => handling[g].facts.topic # "backfill"
    /\ handling' = [handling EXCEPT ![h] =
            [at |-> "decide", wholesale |-> FALSE,
             facts |-> [topic |-> "backfill", rev |-> order.rev,
                        total |-> order.total, cancelled |-> order.cancelled]]]
    /\ UNCHANGED <<weather, shopifyVars, mirror, ledgerVars, events>>

backfillOrders(h) ==
    /\ handling[h].at = "decide"
    /\ handling' = [handling EXCEPT ![h].at = "upsert", ![h].wholesale = isWholesaleOrder]
    /\ UNCHANGED <<weather, shopifyVars, mirror, ledgerVars, events>>

Upserted(h) ==
    /\ handling[h].at = "upsert"
    /\ LET facts     == handling[h].facts
           wholesale == handling[h].wholesale
           saved     == upsertOrder(mirror, facts, wholesale)
       IN  /\ mirror' = saved
           /\ handling' = [handling EXCEPT ![h] =
                IF facts.topic = "upsert" /\ wholesale
                    THEN [at |-> "terms", facts |-> facts, saved |-> saved]
                    ELSE OffWork]
    /\ UNCHANGED <<weather, shopifyVars, ledgerVars, events>>

applyTermsAgain(h) ==     \* mutant: an order has its terms applied anew
    /\ handling[h].at = "terms"
    /\ handling' = [handling EXCEPT ![h] = OffWork]
    /\ IF buyer.days # 0 /\ ~handling[h].saved.settled
         THEN mirror' = [mirror EXCEPT !.due = buyer.days]
         ELSE UNCHANGED mirror
    /\ UNCHANGED <<weather, shopifyVars, ledgerVars, events>>

(* by the row as this handler saved it, and the buyer's terms of now       *)
applyTermsToOrder(h) ==
    /\ handling[h].at = "terms"
    /\ handling' = [handling EXCEPT ![h] = OffWork]
    /\ IF buyer.days # 0 /\ handling[h].saved.due = 0 /\ ~handling[h].saved.settled
         THEN mirror' = [mirror EXCEPT !.due = buyer.days]
         ELSE UNCHANGED mirror
    /\ UNCHANGED <<weather, shopifyVars, ledgerVars, events>>

(* Shopify delivers again what was not answered; a job runs again          *)
HandlerKilled(h) ==
    /\ "killed" \in weather /\ handling[h].at # "idle"
    /\ handling' = [handling EXCEPT ![h] = OffWork]
    /\ outbox' = outbox \cup {m \in {handling[h].facts} : m.topic # "backfill"}
    /\ UNCHANGED <<weather, order, buyer, mirror, ledgerVars, events>>

-----------------------------------------------------------------------------
(* The merchant: ledger.server.ts and reminders.server.ts                  *)

MayAsk(c) ==
    /\ Happens /\ clerking[c].at = "idle" /\ mirror.rev > 0
    /\ "doubled" \notin weather => \A d \in Clerk : clerking[d].at = "idle"

(* The order is read and the amount held against what it owes              *)
recordPayment(c, amount) ==
    /\ MayAsk(c)
    /\ amount # 0 /\ amount <= amountOwed(mirror)
    /\ clerking' = [clerking EXCEPT ![c] = [at |-> "pay", amount |-> amount, read |-> mirror]]
    /\ UNCHANGED <<weather, shopifyVars, handling, mirror, received, chased>>

PaymentReplaces(c) ==     \* mutant: the amount of the last payment only
    /\ clerking[c].at = "pay"
    /\ LET paid == clerking[c].amount
       IN  mirror' = [mirror EXCEPT !.paid = paid,
                                    !.settled = paid >= orderRevenue(clerking[c].read)]
    /\ received' = received + clerking[c].amount
    /\ clerking' = [clerking EXCEPT ![c] = OffWork]
    /\ UNCHANGED <<weather, shopifyVars, handling, chased, events>>

(* The transaction of the payment row and of the order's paid amount       *)
PaymentWritten(c) ==
    /\ clerking[c].at = "pay"
    /\ LET paid == clerking[c].read.paid + clerking[c].amount
       IN  mirror' = [mirror EXCEPT !.paid = paid,
                                    !.settled = paid >= orderRevenue(clerking[c].read)]
    /\ received' = received + clerking[c].amount
    /\ clerking' = [clerking EXCEPT ![c] = OffWork]
    /\ UNCHANGED <<weather, shopifyVars, handling, chased, events>>

canAlwaysRemind(row) == TRUE     \* mutant: no cooldown

canRemind(row) == ~row.reminded

sendReminder(c) ==
    /\ MayAsk(c) /\ canRemind(mirror)
    /\ clerking' = [clerking EXCEPT ![c] = [at |-> "deliver"]]
    /\ UNCHANGED <<weather, shopifyVars, handling, mirror, received, chased>>

ReminderDelivered(c) ==
    /\ clerking[c].at = "deliver"
    /\ chased' = chased + 1
    /\ clerking' = [clerking EXCEPT ![c] = [at |-> "stamp"]]
    /\ UNCHANGED <<weather, shopifyVars, handling, mirror, received, events>>

ReminderStamped(c) ==
    /\ clerking[c].at = "stamp"
    /\ mirror' = [mirror EXCEPT !.reminded = TRUE]
    /\ clerking' = [clerking EXCEPT ![c] = OffWork]
    /\ UNCHANGED <<weather, shopifyVars, handling, received, chased, events>>

(* REMINDER_COOLDOWN_DAYS after the stamp.  No request is as slow as that  *)
CooldownOver ==
    /\ mirror.reminded /\ \A c \in Clerk : clerking[c].at \notin {"deliver", "stamp"}
    /\ mirror' = [mirror EXCEPT !.reminded = FALSE]
    /\ chased' = 0
    /\ UNCHANGED <<weather, shopifyVars, handling, received, clerking, events>>

ClerkKilled(c) ==
    /\ "killed" \in weather /\ clerking[c].at # "idle"
    /\ clerking' = [clerking EXCEPT ![c] = OffWork]
    /\ UNCHANGED <<weather, shopifyVars, handling, mirror, received, chased, events>>

-----------------------------------------------------------------------------
LedgerInit ==
    /\ weather \in Weathers
    /\ order = [rev |-> 0, total |-> 0, cancelled |-> FALSE]
    /\ outbox = {}
    /\ handling = [h \in Handler |-> OffWork]
    /\ buyer \in [wholesale: BOOLEAN, days: Days]
    /\ mirror = NoRow
    /\ received = 0
    /\ clerking = [c \in Clerk |-> OffWork]
    /\ chased = 0
    /\ events = 0

HandlerStep(h) ==
    \/ \E m \in outbox :
         handleOrdersUpsert(h, m) \/ handleOrdersCancelled(h, m) \/ handleOrdersEdited(h, m)
    \/ fetchOrderPage(h) \/ backfillOrders(h)
    \/ Upserted(h) \/ applyTermsToOrder(h) \/ HandlerKilled(h)

ClerkStep(c) ==
    \/ \E amount \in Amounts : recordPayment(c, amount)
    \/ PaymentWritten(c)
    \/ sendReminder(c) \/ ReminderDelivered(c) \/ ReminderStamped(c)
    \/ ClerkKilled(c)

LedgerNext ==
    \/ ShopifyChanges \/ BuyerChanges \/ CooldownOver
    \/ \E h \in Handler : HandlerStep(h)
    \/ \E c \in Clerk : ClerkStep(c)

LedgerSpec == LedgerInit /\ [][LedgerNext]_ledgerState

-----------------------------------------------------------------------------
(* The types of the state.                                                 *)
LedgerTypeOK ==
    /\ weather \in Weathers
    /\ order \in [rev: 0..MaxEvents, total: Totals \cup {0}, cancelled: BOOLEAN]
    /\ outbox \subseteq OrderDelivery
    /\ buyer \in [wholesale: BOOLEAN, days: Days]
    /\ {events, chased} \subseteq Nat
    /\ mirror \in [rev: 0..MaxEvents, total: Totals \cup {0}, cancelled: BOOLEAN,
                   wholesale: BOOLEAN, resync: BOOLEAN, due: Days \cup {0},
                   paid: Int, settled: BOOLEAN, reminded: BOOLEAN]
    /\ received \in Int
    /\ \A h \in Handler : handling[h].at \in {"idle", "decide", "upsert", "terms"}
    /\ \A c \in Clerk : clerking[c].at \in {"idle", "pay", "deliver", "stamp"}

Calm(some) == weather \cap some = {}

(* What an order is recorded as having been paid is the sum of its         *)
(* payments, whatever webhooks, backfills and deaths came between, as long *)
(* as no two of the merchant's requests record at once.                    *)
PaymentsAddUp == Calm({"doubled"}) => mirror.paid = received

(* Once every delivery is handled the row says what Shopify says, or is    *)
(* flagged for a resync: with deliveries in order, one at a time, and no   *)
(* page of the backfill in flight.                                         *)
MirrorHonest ==
    /\ Calm({"reordered", "overlapped", "backfilled"})
    /\ outbox = {} /\ \A h \in Handler : handling[h].at = "idle"
    /\ order.rev > 0
    => \/ mirror.resync
       \/ mirror.total = order.total /\ mirror.cancelled = order.cancelled

(* A cancellation, once recorded, is never taken back, under the same      *)
(* conditions; whether an order is wholesale is decided once, on the way   *)
(* in, whatever becomes of its buyer, unless two handlers of it overlap or *)
(* the backfill reaches it; and it keeps the terms it was first put on,    *)
(* unless two handlers of it overlap.                                      *)
CancelledStays ==
    Calm({"reordered", "overlapped", "backfilled"}) /\ mirror.cancelled => mirror'.cancelled

WholesaleStays ==
    Calm({"overlapped", "backfilled"}) /\ mirror.rev > 0
        => mirror'.wholesale = mirror.wholesale

TermsStay ==
    Calm({"overlapped"}) /\ mirror.due # 0 => mirror'.due = mirror.due

DecisionsStay == [][CancelledStays /\ WholesaleStays /\ TermsStay]_ledgerState

(* One reminder in a cooldown, however often it is clicked: unless two     *)
(* clicks are served at once, or one dies before it stamps.                *)
OneReminder == Calm({"doubled", "killed"}) => chased <= 1

(* The merchant's side of an invoice is right: what was paid, and chased.  *)
InvoicesHonest == PaymentsAddUp /\ OneReminder

=============================================================================
