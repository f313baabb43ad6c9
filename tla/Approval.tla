------------------------------ MODULE Approval ------------------------------
(***************************************************************************)
(* The criteria an application is approved by (app/lib/forms/approval.ts). *)
(* Pure: no variables.  A criterion is a record with every field one may   *)
(* have; an optional value is a sequence of at most one.  What is stored   *)
(* may not be readable: its field unknown, its number or its values gone.  *)
(***************************************************************************)
EXTENDS Integers, Sequences, SequencesExt

CRITERION_FIELDS == {"vat_valid", "years_in_business", "country",
                     "has_upload", "answer", "existing_customer"}

(* Facts: vat, years, country, uploads, answers (by key) and existing.     *)
(* Where nothing is known of a country it is not in a list, nor outside it.*)
meets(c, facts) ==
    CASE c.field = "vat_valid" -> facts.vat = "VALID"
      [] c.field = "years_in_business" ->
             facts.years # << >> /\ facts.years[1] >= c.atLeast[1]
      [] c.field = "country" ->
             /\ facts.country # << >>
             /\ c.op = "in" <=> facts.country[1] \in c.values
      [] c.field = "has_upload" ->
             IF c.key = "" THEN facts.uploads # {}
             ELSE c.key \in facts.uploads
      [] c.field = "answer" ->
             /\ c.key \in DOMAIN facts.answers
             /\ facts.answers[c.key] = <<c.equals>>
      [] c.field = "existing_customer" -> facts.existing

evaluateApproval(approval, facts) ==
    IF ~approval.enabled \/ approval.criteria = << >> THEN "review"
    ELSE IF \A i \in DOMAIN approval.criteria :
                meets(approval.criteria[i], facts)
         THEN "approve"
         ELSE approval.otherwise

(* What the form builder is told before it saves: TRUE for no issue.       *)
validateApproval(approval) ==
    /\ approval.enabled => approval.criteria # << >>
    /\ \A i \in DOMAIN approval.criteria :
         LET c == approval.criteria[i] IN
         /\ c.field = "years_in_business" => c.atLeast[1] >= 0
         /\ c.field = "country" => c.values # {}
         /\ c.field = "answer" => c.key # ""

Readable(raw) ==
    CASE raw.field = "years_in_business" -> raw.atLeast # << >>
      [] raw.field = "country" ->
             raw.op \in {"in", "not_in"} /\ raw.values # {}
      [] raw.field = "answer" -> raw.key # ""
      [] OTHER -> raw.field \in CRITERION_FIELDS

ReadOnes(criteria) ==
    FoldLeft(LAMBDA read, raw :
               IF Readable(raw) THEN Append(read, raw) ELSE read,
             << >>, criteria)

(* A criterion that is lost would leave the rest wider, so that nothing is *)
(* decided then.                                                           *)
readApproval(stored) ==
    LET criteria == ReadOnes(stored.criteria) IN
    [stored EXCEPT !.criteria = criteria,
                   !.enabled = @ /\ Len(criteria) = Len(stored.criteria)]
=============================================================================
