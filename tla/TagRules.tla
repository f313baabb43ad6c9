------------------------------ MODULE TagRules ------------------------------
(***************************************************************************)
(* Tag rules (app/lib/customers/tagging.ts): what tags a buyer should have.*)
(* Pure: no variables.  A tag as written is a record of its name and the   *)
(* letter case it was typed in: tags that differ in case only are the same.*)
(* A condition is a record of field, op and what it compares the field of  *)
(* that name of the buyer's facts with: a value, values or a tag.          *)
(***************************************************************************)
EXTENDS Integers, Sequences, SequencesExt

(* Tags compared as they were typed.                                       *)
sameTyping(a, b) == a = b
sameTag(a, b) == a.name = b.name

(* What a condition may be about.  Answers of a form are left out: they are*)
(* compared like the rest.                                                 *)
TAG_FIELDS == {"lifetime_spend", "order_count", "days_since_last_order",
               "country", "has_tag", "lacks_tag"}

compareNumber(op, left, right) ==
    IF op = "gte" THEN left >= right ELSE left <= right

Holds(tags, tag) == \E t \in tags : sameTag(t, tag)

(* Money is of one currency.                                               *)
matchesCondition(c, facts) ==
    CASE c.field \in {"lifetime_spend", "order_count"} ->
             compareNumber(c.op, facts[c.field], c.value)
      [] c.field = "days_since_last_order" ->
             /\ facts.days_since_last_order # << >>
             /\ compareNumber(c.op, facts.days_since_last_order[1], c.value)
      [] c.field = "country" ->
             IF facts.country = << >> THEN c.op = "not_in"
             ELSE (c.op = "in") <=> (facts.country[1] \in c.values)
      [] c.field = "has_tag" -> Holds(facts.tags, c.tag)
      [] c.field = "lacks_tag" -> ~Holds(facts.tags, c.tag)

matchesRule(rule, facts) ==
    /\ rule.conditions # {}
    /\ IF rule.matchMode = "any"
       THEN \E c \in rule.conditions : matchesCondition(c, facts)
       ELSE \A c \in rule.conditions : matchesCondition(c, facts)

(* A map keyed by the name: the last rule to speak about a tag decides it. *)
Decide(decided, tag, wanted) ==
    {d \in decided : ~sameTag(d.tag, tag)}
        \cup {[tag |-> tag, wanted |-> wanted]}

TagsDecided(decided, tags, wanted) ==
    FoldLeft(LAMBDA d, t : Decide(d, t, wanted), decided, tags)

Spoken(decided, rule) ==
    TagsDecided(TagsDecided(decided, rule.addTags, TRUE), rule.removeTags, FALSE)

RunsBefore(a, b) ==
    \/ a.priority < b.priority
    \/ a.priority = b.priority /\ a.id < b.id
(* Lower priority runs last.                                               *)
RunsAfter(a, b) ==
    \/ a.priority > b.priority
    \/ a.priority = b.priority /\ a.id < b.id

LastToRun(rules) ==
    CHOOSE r \in rules : \A s \in rules : s = r \/ RunsBefore(s, r)

(* What the rules have decided, once each has spoken in its turn.          *)
AllSpoken(rules) ==
    MapThenFoldSet(LAMBDA rule, decided : Spoken(decided, rule), {},
                   LAMBDA rule : rule, LastToRun, rules)

evaluateTagRules(rules, facts) ==
    LET matched == {r \in rules : r.enabled /\ matchesRule(r, facts)}
        decided == AllSpoken(matched)
        refused(tag) == \E d \in decided : ~d.wanted /\ sameTag(d.tag, tag)
        keep == {t \in facts.tags : ~refused(t)}
        add == {d.tag : d \in {e \in decided : e.wanted
                                 /\ ~Holds(keep, e.tag)}}
    IN  [add |-> add, remove |-> facts.tags \ keep, tags |-> keep \cup add,
         unchanged |-> add = {} /\ facts.tags = keep]
=============================================================================
