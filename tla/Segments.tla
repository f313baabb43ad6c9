------------------------------- MODULE Segments -------------------------------
(***************************************************************************)
(* Customer segments (customers/segments.ts, segments.server.ts): a saved  *)
(* filter, read back and run as a query.  Pure: no variables.  A condition *)
(* is a record of field, op and value (and currency); what is unreadable   *)
(* in it is a value no reader takes.  What a customer may lack is a        *)
(* sequence of at most one element; time is in days.                       *)
(***************************************************************************)
EXTENDS Integers, Sequences, SequencesExt, FiniteSetsExt

CONSTANT MaxConditions

NUMERIC_OPS == {"gt", "gte", "lt", "lte"}
BUYER_STATUSES == {"PENDING", "APPROVED", "REJECTED"}
NUMERIC_FIELDS == {"lifetime_spend", "order_count", "last_order_days"}

(* Shapes are checked, here as in a form, in storage and in what Claude    *)
(* read; "" is what was no text.                                           *)
readCondition(condition) ==
    LET c == condition
        readable ==
            CASE c.field \in NUMERIC_FIELDS -> c.op \in NUMERIC_OPS /\ c.value >= 0
              [] c.field = "never_ordered" -> TRUE
              [] c.field = "tag" -> c.op \in {"has", "not_has"} /\ c.value # ""
              [] c.field \in {"group", "country"} ->
                     c.op \in {"is", "is_not"} /\ c.value # ""
              [] c.field = "tax_exempt" -> c.value \in BOOLEAN
              [] c.field = "status" -> c.value \in BUYER_STATUSES
              [] OTHER -> FALSE
    IN  IF readable THEN <<c>> ELSE << >>

readConditions(stored) ==
    FlattenSeq([i \in DOMAIN stored |-> readCondition(stored[i])])

validateSegment(conditions) ==
    /\ Len(conditions) \in 1 .. MaxConditions
    /\ \A i, j \in DOMAIN conditions :
         i # j /\ conditions[i].field = conditions[j].field
           => conditions[i].field = "tag"

Compare(op, left, right) ==
    CASE op = "gt" -> left > right
      [] op = "gte" -> left >= right
      [] op = "lt" -> left < right
      [] op = "lte" -> left <= right

(* "is" and "is not" of a column that may be null: the database answers    *)
(* neither of a customer who has no group or no country (external).        *)
IsOrIsNot(op, held, value) ==
    held # << >> /\ (op = "is" <=> held[1] = value)

(* Exactly so many days ago is on both sides, whatever the operator.       *)
whereFor(condition, customer, now) ==
    LET c == condition
    IN  CASE c.field = "lifetime_spend" ->
                /\ customer.currency = c.currency
                /\ Compare(c.op, customer.spend, c.value)
          [] c.field = "order_count" -> Compare(c.op, customer.orders, c.value)
          [] c.field = "last_order_days" ->
                /\ customer.last # << >>
                /\ IF c.op \in {"gt", "gte"}
                   THEN customer.last[1] <= now - c.value
                   ELSE customer.last[1] >= now - c.value
          [] c.field = "never_ordered" -> customer.last = << >>
          [] c.field = "tag" -> c.op = "has" <=> c.value \in customer.tags
          [] c.field = "group" -> IsOrIsNot(c.op, customer.group, c.value)
          [] c.field = "country" -> IsOrIsNot(c.op, customer.country, c.value)
          [] c.field = "tax_exempt" -> customer.exempt = c.value
          [] c.field = "status" -> customer.status = c.value

(* Every condition, of customers Shopify still has.                        *)
MembersOf(conditions, customers, now) ==
    {c \in customers : /\ ~c.deleted
                       /\ \A i \in DOMAIN conditions :
                            whereFor(conditions[i], c, now)}

countSegment(conditions, customers, now) ==
    Cardinality(MembersOf(conditions, customers, now))

Without(conditions, i) == RemoveAt(conditions, i)

(* The first of those whose absence matches most, if any does.             *)
tightestCondition(counts) ==
    LET helps == {i \in DOMAIN counts : counts[i] > 0}
        best == {i \in helps : \A j \in helps : counts[j] <= counts[i]}
    IN  IF best = {} THEN << >> ELSE <<Min(best)>>

loosenWhich(conditions, customers, now) ==
    CASE Len(conditions) = 0 -> << >>
      [] Len(conditions) = 1 -> <<1>>
      [] OTHER -> tightestCondition(
             [i \in DOMAIN conditions |->
                countSegment(Without(conditions, i), customers, now)])

previewSegment(conditions, customers, now) ==
    LET count == countSegment(conditions, customers, now)
    IN  [count |-> count,
         loosen |-> IF count > 0 THEN << >>
                    ELSE loosenWhich(conditions, customers, now)]

(* The biggest spenders, for a rule's audience: a snapshot.  Equal ones in *)
(* an order of the database's own.                                         *)
IsAudience(chosen, conditions, customers, now, limit) ==
    LET members == MembersOf(conditions, customers, now)
    IN  /\ chosen \subseteq members
        /\ Cardinality(chosen) = Min({limit, Cardinality(members)})
        /\ \A c \in chosen, d \in members \ chosen : c.spend >= d.spend

(* saveSegment: what is kept, and how many it counted that day; Nothing    *)
(* where it is refused.                                                    *)
saveSegment(conditions, customers, now) ==
    IF ~validateSegment(conditions) THEN << >>
    ELSE <<[conditions |-> conditions,
            lastCount |-> countSegment(conditions, customers, now)]>>
=============================================================================
