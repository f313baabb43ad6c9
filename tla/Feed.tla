--------------------------------- MODULE Feed ---------------------------------
(***************************************************************************)
(* The activity feed (activity/feed.server.ts): a union of two tables, the *)
(* audit log and the mirrored orders, merged on time and read a page after *)
(* a page.  Pure: no variables.  A row is a record of table, id, at, family*)
(* (of its action) and actor; an order's family is "order" and its actor   *)
(* "buyer".  Ids are numbers of their own table, and time is in parts of a *)
(* UTC day.                                                                *)
(***************************************************************************)
EXTENDS Integers, Sequences, SequencesExt, FiniteSetsExt

CONSTANT PartsOfDay

AUDIT_FAMILIES ==
    [all |-> {"quote", "terms", "form", "customer", "pricing_rule", "billing"},
     orders |-> {"quote", "terms"},
     registrations |-> {"form", "customer"},
     pricing |-> {"pricing_rule"}]

WANTS_ORDERS == {"all", "orders"}

ACTOR_TYPES == [anyone |-> {"staff", "system", "merchant_agent", "buyer_agent"},
                agent |-> {"merchant_agent", "buyer_agent"},
                staff |-> {"staff"}, system |-> {"system"}]

(* from and to are days, either of which may be absent; the whole of `to`  *)
(* is meant.                                                               *)
InDays(at, ask) ==
    /\ ask.from # << >> => at >= PartsOfDay * ask.from[1]
    /\ ask.to # << >> => at < PartsOfDay * (ask.to[1] + 1)

Chosen(row, ask) ==
    /\ InDays(row.at, ask)
    /\ IF row.table = "audit"
       THEN /\ row.family \in AUDIT_FAMILIES[ask.filter]
            /\ row.actor \in ACTOR_TYPES[ask.actor]
            /\ ask.action # << >> => row.family = ask.action[1]
       ELSE /\ row.wholesale
            /\ ask.filter \in WANTS_ORDERS /\ ask.actor = "anyone"
            /\ ask.action = << >>

OlderByTime(row, cursor) ==   \* mutant: the cursor is a time alone
    cursor # << >> => row.at < cursor[1].at
(* Strictly older, or the same instant with a smaller id.                  *)
OlderThan(row, cursor) ==
    cursor # << >> => \/ row.at < cursor[1].at
                      \/ row.at = cursor[1].at /\ row.id < cursor[1].id

(* The merge: newest first, and at one instant by the id as it is shown,   *)
(* "audit:..." before "order:...".                                         *)
ShownBefore(a, b) ==
    \/ a.at > b.at
    \/ a.at = b.at /\ a.table = "order" /\ b.table = "audit"
    \/ a.at = b.at /\ a.table = b.table /\ a.id > b.id

Newest(rows, count) ==
    LET sorted == SetToSortSeq(rows, ShownBefore)
    IN  SubSeq(sorted, 1, Min({count, Len(sorted)}))

(* One row more than the page is read, to know whether there is another.   *)
PageOf(merged, limit) ==
    IF Len(merged) > limit
    THEN [rows |-> SubSeq(merged, 1, limit),
          next |-> <<[at |-> merged[limit].at, id |-> merged[limit].id]>>]
    ELSE [rows |-> merged, next |-> << >>]

loadActivity(rows, limit, cursor, ask) ==
    LET asked(table) == Newest({r \in rows : /\ r.table = table
                                             /\ Chosen(r, ask)
                                             /\ OlderThan(r, cursor)}, limit + 1)
        found == UNION {ToSet(asked(table)) : table \in {"audit", "order"}}
    IN  PageOf(Newest(found, limit + 1), limit)

(* "Show more", until there is no next page.                               *)
Extended(walk, page) ==
    [shown |-> walk.shown \o page.rows, cursor |-> page.next,
     done |-> page.next = << >>]

PagesOf(rows, limit, ask) ==
    FoldLeft(LAMBDA walk, i :
               IF walk.done THEN walk
               ELSE Extended(walk, loadActivity(rows, limit, walk.cursor, ask)),
             [shown |-> << >>, cursor |-> << >>, done |-> FALSE],
             [i \in 1 .. Cardinality(rows) |-> i])

rangeIsInverted(ask) ==
    ask.from # << >> /\ ask.to # << >> /\ ask.from[1] > ask.to[1]
=============================================================================
