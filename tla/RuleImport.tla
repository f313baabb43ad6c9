----------------------------- MODULE RuleImport -----------------------------
(***************************************************************************)
(* What a file of rules would create (app/lib/pricing/csv/plan.ts): rules  *)
(* planned, errors and warnings, by line.  Pure: no variables.             *)
(*                                                                         *)
(* A row is a record of its line and its cells.  A cell with a number is   *)
(* [is, n]: blank, bad (unreadable) or a number.  A name is the name in    *)
(* small letters; names, columns and messages are left out of the report.  *)
(***************************************************************************)
EXTENDS MarginGuard

TYPE_ALIASES == [percentage |-> "percentage", percent |-> "percentage",
                 amount_off |-> "amount_off", amount |-> "amount_off",
                 fixed_price |-> "fixed_price", price |-> "fixed_price"]

NotANumber == -1      \* outside of every range a rule is held to

readNumber(cell, fallback) == IF cell.is = "number" THEN cell.n ELSE fallback

Report(line, code, raised) ==
    IF raised THEN {[line |-> line, code |-> code]} ELSE {}

(***************************************************************************)
(* The fields every rule has                                               *)
(***************************************************************************)
NamesSkus(row) == row.applies \notin {"", "all"} /\ row.skus # {}

readTargets(row, ids) ==
    IF ~NamesSkus(row) THEN [mode |-> "all", ids |-> {}]
    ELSE [mode |-> "variants",
          ids |-> {ids[s] : s \in row.skus \cap DOMAIN ids}]

readAudience(row) ==
    [mode |-> IF row.tags = {} THEN "all" ELSE "tags", ids |-> row.tags]

readDate(cell) == IF cell.is = "number" THEN <<cell.n>> ELSE Nothing

baseFields(row, ids) ==
    [name |-> row.name, priority |-> readNumber(row.priority, 100),
     targets |-> readTargets(row, ids), audience |-> readAudience(row),
     starts |-> readDate(row.starts), ends |-> readDate(row.ends)]

BaseErrors(row, ids) ==
    Report(row.line, "bad_number", row.priority.is = "bad")
      \cup Report(row.line, "unknown_sku",
                  NamesSkus(row) /\ ~(row.skus \subseteq DOMAIN ids))
      \cup Report(row.line, "bad_date",
                  "bad" \in {row.starts.is, row.ends.is})

Priced(base, kind, value) ==
    [f \in DOMAIN base \cup {"kind", "value"} |->
        CASE f = "kind" -> kind [] f = "value" -> value [] OTHER -> base[f]]

(***************************************************************************)
(* A rule per row                                                          *)
(***************************************************************************)
HasKind(row) == row.type \in DOMAIN TYPE_ALIASES

Amount(cell) == readNumber(cell, 0)
Percentage(cell) == IF cell.is = "number" THEN 100 * cell.n ELSE NotANumber

RuleOfRow(row, ids) ==
    LET kind == TYPE_ALIASES[row.type]
        value == IF kind = "percentage" THEN Percentage(row.value)
                 ELSE [c \in {"usd"} |-> Amount(row.value)]
    IN  Priced(baseFields(row, ids), kind, value)

(* Money that cannot be read ends the row; a percentage that cannot is     *)
(* told, and then found out of range.                                      *)
RowErrors(row, ids) ==
    LET bad == row.value.is = "bad"
        percentage == TYPE_ALIASES[row.type] = "percentage"
    IN  BaseErrors(row, ids) \cup
        ( IF row.name = "" THEN Report(row.line, "missing_required", TRUE)
          ELSE IF ~HasKind(row) THEN Report(row.line, "unknown_type", TRUE)
          ELSE IF ~percentage /\ bad THEN Report(row.line, "bad_money", TRUE)
          ELSE Report(row.line, "bad_number", bad)
                 \cup Report(row.line, "invalid_rule",
                             ~validateRule(RuleOfRow(row, ids))) )

(* A name seen in an earlier rule of the file is told, and taken again.    *)
planRulesTemplate(rows, ids, existing) ==
    LET good == {i \in DOMAIN rows : RowErrors(rows[i], ids) = {}}
        again == {i \in good : \E j \in good :
                                   j < i /\ rows[j].name = rows[i].name}
        known == {i \in good : rows[i].name \in existing}
        zero == {i \in DOMAIN rows :
                   /\ rows[i].name # "" /\ HasKind(rows[i])
                   /\ rows[i].value = [is |-> "number", n |-> 0]}
        Warn(those, code) ==
            UNION {Report(rows[i].line, code, TRUE) : i \in those}
    IN  [planned |-> {[rule |-> RuleOfRow(rows[i], ids),
                       lines |-> {rows[i].line}] : i \in good},
         errors |-> UNION {RowErrors(rows[i], ids) : i \in DOMAIN rows},
         warnings |-> Warn(again, "duplicate_name")
                        \cup Warn(zero, "zero_value")
                        \cup Warn(known, "existing_name")]

(***************************************************************************)
(* A rule per name, with a tier per row                                    *)
(***************************************************************************)

(* A maximum that cannot be read compares with nothing.                    *)
TierOf(row) ==
    [min |-> row.min.n,
     max |-> IF row.max.is = "blank" THEN Nothing
             ELSE <<readNumber(row.max, row.min.n)>>,
     kind |-> IF row.type \in {"percentage", "fixed_price"} THEN row.type
              ELSE "amount_off",
     amount |-> IF row.type = "percentage" THEN Percentage(row.value)
                ELSE Amount(row.value),
     currency |-> "usd"]

TiersBut(tiers, row) ==
    Only(tiers, {t \in Range(tiers) : t.min # row.min.n})

(* The later row with the same minimum wins, and it is told.               *)
TierPut(tiers, row) ==
    Append(TiersBut(tiers, row), TierOf(row))

HasAmount(row) == row.type = "percentage" \/ row.value.is # "bad"

WithRow(tiers, row) ==
    IF row.min.is # "number" THEN tiers
    ELSE IF HasAmount(row) THEN TierPut(tiers, row)
    ELSE TiersBut(tiers, row)

BreakErrors(row) ==
    Report(row.line, "bad_number", row.min.is = "bad")
      \cup (IF row.min.is # "number" THEN {} ELSE
              Report(row.line, "bad_number", row.max.is = "bad")
                \cup Report(row.line, "bad_number",
                            row.type = "percentage" /\ row.value.is = "bad")
                \cup Report(row.line, "bad_money", ~HasAmount(row)))

RowsNamed(rows, name) == Only(rows, {r \in Range(rows) : r.name = name})

(* Tiers by where they start; no two of a group start together.            *)
TierInserted(sorted, tier) ==
    LET after == {i \in DOMAIN sorted : tier.min < sorted[i].min}
    IN  InsertAt(sorted, IF after = {} THEN Len(sorted) + 1 ELSE Min(after), tier)

TiersOf(group) ==
    FoldLeft(TierInserted, << >>, FoldLeft(WithRow, << >>, group))

RuleOfGroup(group, ids) ==
    Priced(baseFields(group[1], ids), "volume_tier", TiersOf(group))

GroupErrors(group, ids) ==
    BaseErrors(group[1], ids)
      \cup (UNION {BreakErrors(group[i]) : i \in DOMAIN group})
      \cup Report(group[1].line, "invalid_rule",
                  ~validateRule(RuleOfGroup(group, ids)))

LastWins(group) ==
    UNION {Report(group[j].line, "last_wins",
                  /\ group[j].min.is = "number"
                  /\ \E i \in 1 .. j - 1 : group[i].min = group[j].min) :
           j \in DOMAIN group}

planQuantityBreaks(rows, ids, existing) ==
    LET nameless == {i \in DOMAIN rows : rows[i].name = ""}
        groups == {RowsNamed(rows, rows[i].name) :
                     i \in DOMAIN rows \ nameless}
        good == {g \in groups : GroupErrors(g, ids) = {}}
        Lines(g) == {g[i].line : i \in DOMAIN g}
        Missing(i) == Report(rows[i].line, "missing_required", TRUE)
    IN  [planned |-> {[rule |-> RuleOfGroup(g, ids), lines |-> Lines(g)] :
                        g \in good},
         errors |-> (UNION {GroupErrors(g, ids) : g \in groups})
                      \cup (UNION {Missing(i) : i \in nameless}),
         warnings |-> (UNION {LastWins(g) : g \in groups})
                        \cup {[line |-> g[1].line, code |-> "existing_name"] :
                                g \in {h \in good : h[1].name \in existing}}]

planImport(template, rows, ids, existing) ==
    IF template = "quantity_breaks"
    THEN planQuantityBreaks(rows, ids, existing)
    ELSE planRulesTemplate(rows, ids, existing)
=============================================================================
