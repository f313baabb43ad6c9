------------------------------ MODULE Redaction ------------------------------
(***************************************************************************)
(* One buyer asks to be told what a shop holds about them, or to be        *)
(* forgotten (privacy/buyer-data.server.ts, the customers/data_request and *)
(* customers/redact webhooks).  The redaction is a row of statements, each *)
(* committed by itself: a process that dies between two leaves the rest to *)
(* the next delivery, which looks for the buyer anew.                      *)
(*                                                                         *)
(* A piece is something a table holds that names the buyer: a row of their *)
(* own, the name on an order or a quote, their part in an audit entry, the *)
(* words of a stored answer.  It names them by what it carries (the id,    *)
(* the address as it was asked, the address in another case) and by the    *)
(* row it hangs on, an application, a customer, or the account by its id.  *)
(***************************************************************************)
EXTENDS Naturals, FiniteSets

CONSTANTS
    Traces,     \* sets of pieces that a buyer may have left
    Persons,    \* sets of what Shopify tells of them: "id", "email"
    Courier,    \* requests that carry the webhook
    MaxDeaths   \* bound: requests that die on the way

VARIABLES
    trace,      \* what there was before anybody asked
    person,     \* who Shopify says it is
    held,       \* what is left of the trace
    stage,      \* of each request, the statement it is at
    seen,       \* of each request, the rows it read: applications, customers
    together,   \* of each request, which of the four are still under way
    redacted,   \* the delivery is marked handled
    deaths

redactionVars == <<trace, person, held, stage, seen, together, redacted, deaths>>

Own == {"customer", "application", "upload", "message", "conversation", "order",
        "quote"}
Documents == {"data", "review"}

Piece(area, by, of) == [area |-> area, by |-> by, of |-> of]

(* What each table can hold of a buyer: the columns that name them, and the*)
(* row it hangs on.                                                        *)
Pieces ==
    [area: {"customer", "application", "order", "quote", "actor", "review"},
     by: SUBSET {"id", "email", "EMAIL"}, of: {"none"}]
    \cup [area: {"words", "data"}, by: SUBSET {"email", "EMAIL"}, of: {"none"}]
    \cup [area: {"message"}, by: SUBSET {"email", "EMAIL"}, of: {"none", "application"}]
    \cup [area: {"conversation"}, by: SUBSET {"id"}, of: {"none"}]
    \cup [area: {"upload"}, by: {{}}, of: {"application"}]
    \cup [area: {"about"}, by: {{}}, of: {"application", "customer", "account"}]

ASSUME RedactionAssumption ==
    /\ Traces \subseteq SUBSET Pieces /\ Persons \subseteq SUBSET {"id", "email"}
    /\ MaxDeaths \in Nat

(* Addresses are matched whatever their case.                              *)
Carries(piece) ==
    \/ "id" \in person /\ "id" \in piece.by
    \/ "email" \in person /\ piece.by \cap {"email", "EMAIL"} # {}
CarriesAddress(piece) ==
    "email" \in person /\ piece.by \cap {"email", "EMAIL"} # {}
CarriesId(piece) == "id" \in person /\ "id" \in piece.by

Rows(area, pieces) == {p \in pieces : p.area = area /\ Carries(p)}

(* The rows whose ids the next statements go by.                           *)
Found(pieces) ==
    {area \in {"application", "customer"} : Rows(area, pieces) # {}}

-----------------------------------------------------------------------------
(* What each statement takes.                                              *)
Uploads(pieces, rows) ==
    {p \in pieces : p.area = "upload" /\ "application" \in rows}
(* As if every message had gone to the address that was asked.             *)
MessagesByAddress(pieces, rows) ==
    {p \in pieces : p.area = "message" /\ CarriesAddress(p)}
Messages(pieces, rows) ==
    {p \in pieces : p.area = "message" /\ \/ CarriesAddress(p)
                                          \/ p.of \in rows \cap {"application"}}
Conversations(pieces) ==
    {p \in pieces : p.area = "conversation" /\ CarriesId(p)}

AboutThem(pieces, rows) ==
    {p \in pieces : p.area = "about" /\ \/ p.of \in rows
                                        \/ p.of = "account" /\ "id" \in person}
AsActor(pieces) == {p \in pieces : p.area = "actor" /\ Carries(p)}
InWords(pieces) == {p \in pieces : p.area = "words" /\ CarriesAddress(p)}

(* Found whatever its case, and replaced only as it was asked.             *)
InData(pieces) ==
    {p \in pieces : p.area = "data" /\ "email" \in person \cap p.by}
StoredFacts(pieces) ==
    {p \in pieces : p.area = "review" /\ person \cap p.by # {}}

(* customers/data_request: everything there is, area by area.              *)
buyerData(pieces) ==
    LET rows == Found(pieces)
    IN  Rows("customer", pieces) \cup Rows("application", pieces)
          \cup Uploads(pieces, rows) \cup Messages(pieces, rows)
          \cup Rows("order", pieces) \cup Rows("quote", pieces)
          \cup Conversations(pieces)

-----------------------------------------------------------------------------
RedactionInit ==
    /\ trace \in Traces
    /\ person \in Persons
    /\ held = trace
    /\ stage = [d \in Courier |-> "idle"]
    /\ seen = [d \in Courier |-> {}]
    /\ together = [d \in Courier |-> {}]
    /\ redacted = FALSE
    /\ deaths = 0

(* A delivery that is marked handled is not run again.                     *)
FindsThem(d) ==
    /\ stage[d] = "idle" /\ ~redacted
    /\ seen' = [seen EXCEPT ![d] = Found(held)]
    /\ stage' = [stage EXCEPT ![d] = "uploads"]
    /\ UNCHANGED <<trace, person, held, together, redacted, deaths>>

Takes(d, from, pieces, to) ==
    /\ stage[d] = from
    /\ held' = held \ pieces
    /\ stage' = [stage EXCEPT ![d] = to]
    /\ UNCHANGED <<trace, person, seen, together, redacted, deaths>>

TakesUploads(d) == Takes(d, "uploads", Uploads(held, seen[d]), "messages")
TakesMessages(d) == Takes(d, "messages", Messages(held, seen[d]), "conversations")

TakesConversations(d) ==
    /\ stage[d] = "conversations"
    /\ held' = held \ Conversations(held)
    /\ stage' = [stage EXCEPT ![d] = "together"]
    /\ together' = [together EXCEPT ![d] = {"customer", "application", "order", "quote"}]
    /\ UNCHANGED <<trace, person, seen, redacted, deaths>>

(* Four statements at once, in whatever order they arrive.                 *)
TakesOneOfFour(d) ==
    /\ stage[d] = "together"
    /\ \E area \in together[d] :
          /\ held' = held \ Rows(area, held)
          /\ together' = [together EXCEPT ![d] = @ \ {area}]
          /\ stage' = [stage EXCEPT ![d] = IF together[d] = {area} THEN "about" ELSE @]
    /\ UNCHANGED <<trace, person, seen, redacted, deaths>>

TakesEntries(d) == Takes(d, "about", AboutThem(held, seen[d]), "actor")
TakesActor(d)   == Takes(d, "actor", AsActor(held), "words")
TakesWords(d)   == Takes(d, "words", InWords(held), "data")
TakesData(d)    == Takes(d, "data", InData(held), "stored")
TakesStored(d)  == Takes(d, "stored", StoredFacts(held), "marks")

MarksHandled(d) ==
    /\ stage[d] = "marks"
    /\ redacted' = TRUE
    /\ stage' = [stage EXCEPT ![d] = "idle"]
    /\ UNCHANGED <<trace, person, held, seen, together, deaths>>

CourierDies(d) ==
    /\ stage[d] # "idle" /\ deaths < MaxDeaths
    /\ stage' = [stage EXCEPT ![d] = "idle"]
    /\ together' = [together EXCEPT ![d] = {}]
    /\ deaths' = deaths + 1
    /\ UNCHANGED <<trace, person, held, seen, redacted>>

RedactionNext ==
    \E d \in Courier :
       \/ FindsThem(d) \/ TakesUploads(d) \/ TakesMessages(d)
       \/ TakesConversations(d) \/ TakesOneOfFour(d) \/ TakesEntries(d)
       \/ TakesActor(d) \/ TakesWords(d) \/ TakesData(d) \/ TakesStored(d)
       \/ MarksHandled(d) \/ CourierDies(d)

RedactionSpec == RedactionInit /\ [][RedactionNext]_redactionVars

-----------------------------------------------------------------------------
Stages == {"idle", "uploads", "messages", "conversations", "together", "about",
           "actor", "words", "data", "stored", "marks"}

RedactionTypeOK ==
    /\ trace \in Traces /\ held \subseteq trace /\ person \in Persons
    /\ stage \in [Courier -> Stages]
    /\ seen \in [Courier -> SUBSET {"application", "customer"}]
    /\ together \in [Courier -> SUBSET Own]
    /\ redacted \in BOOLEAN /\ deaths \in 0 .. MaxDeaths

(* What the shop held of the buyer when they asked.                        *)
Theirs ==
    {p \in trace :
       \/ Carries(p)
       \/ p.of = "account" /\ "id" \in person
       \/ \E q \in trace : q.area = p.of /\ Carries(q)}

AllDelivered == redacted /\ \A d \in Courier : stage[d] = "idle"

(* Somebody who asks is told every row of theirs (buyerData); once a       *)
(* redaction is marked handled no row, order or quote of theirs names      *)
(* them, however many attempts died or ran beside each other before, and   *)
(* if none died no audit entry and no stored answer does either, but for   *)
(* an address in another case inside a document (redactBuyer, redactAudit, *)
(* redactStoredFacts).                                                     *)
Forgotten ==
    /\ held = trace => buyerData(held) = {p \in Theirs : p.area \in Own}
    /\ AllDelivered =>
         \A p \in held \cap Theirs :
            /\ p.area \notin Own
            /\ deaths = 0 => p.area \in Documents /\ "EMAIL" \in p.by

(* "A second delivery finds nothing left" (customers-redact.server.ts): a  *)
(* redaction that was handled leaves nothing that names the buyer.         *)
NothingNamesThem == AllDelivered => held \cap Theirs = {}
=============================================================================
