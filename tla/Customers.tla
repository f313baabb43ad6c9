------------------------------- MODULE Customers -------------------------------
(***************************************************************************)
(* One buyer of a shop, three times: in Shopify, in the mirror's row, and  *)
(* in the metafield checkout prices from; and the groups the row may be    *)
(* in.  The operations are those of the merchant's staff (app/lib/         *)
(* customers/customers.server.ts, groups.server.ts), the auto-tagging      *)
(* sweep (tag-rules.server.ts), the customers backfill and the customers   *)
(* webhooks (webhooks/handlers/customers-*.server.ts).                     *)
(*                                                                         *)
(* Every write of tags at Shopify makes it send the buyer as they then     *)
(* are.  An operation reads, writes at Shopify, writes the row, reads the  *)
(* row back and publishes, and another may come in between where `climate` *)
(* lets it.  A group's tag is the group's name; the plan (PlanReconcile),  *)
(* the open invoices, the buyer's address and what a tag rule asks of a    *)
(* buyer beyond the tags are left out.                                     *)
(***************************************************************************)
EXTENDS Naturals, Sequences, FiniteSets

CONSTANTS
    Group,
    OtherTag,       \* tags that are no group's
    Steward,        \* requests of staff, job runs and webhook deliveries
    Climates,       \* the sets of disturbances to consider
    Deeds,          \* the kinds of operation staff begin
    MaxDeeds,       \* bound: operations begun by staff and jobs
    MaxShopTurns    \* bound: what happens to the buyer in Shopify by itself

Disturbances == {"overlapped",  \* operations run side by side
                 "refused",     \* Shopify refuses a call, which throws
                 "reordered",   \* a webhook comes after later ones, as a retry may
                 "redacted"}    \* Shopify asks for the buyer to be forgotten

ASSUME CustomersAssumption ==
    /\ IsFiniteSet(Group) /\ Climates \subseteq SUBSET Disturbances
    /\ MaxDeeds \in Nat /\ MaxShopTurns \in Nat

Tag == Group \cup OtherTag

VARIABLES
    climate,
    account,    \* Shopify: << >> or <<the buyer's tags>>
    row,        \* the mirror: << >> or <<[tags, group, days, deleted]>>
    groupDays,  \* CustomerGroup: << >> or <<its netTermsDays>>
    published,  \* Shopify's metafield: << >> or <<[tags, group, days]>>
    deliveries, \* webhooks not answered nor at work, oldest first: `account`
                \* as it became
    stewards,   \* where each operation is
    deeds,
    shopTurns

tallies == <<deeds, shopTurns>>
customersVars == <<climate, account, row, groupDays, published, deliveries, stewards, tallies>>

Unoccupied == [at |-> "idle"]

NoGroup == "none"

NoDays == 0

Stands(p, at) == stewards[p].at = at

MovesTo(p, at) == stewards' = [stewards EXCEPT ![p].at = at]

Leaves(p) == stewards' = [stewards EXCEPT ![p] = Unoccupied]

MayTakeUp(p) ==
    Stands(p, "idle") /\ ("overlapped" \notin climate => \A q \in Steward : Stands(q, "idle"))

GroupThere(g) == g # NoGroup /\ groupDays[g] # << >>

(* What checkout is to be told of a row: publishBuyerTerms                 *)
effectiveDays(r) ==
    IF r.days # NoDays THEN r.days
    ELSE IF GroupThere(r.group) THEN groupDays[r.group][1] ELSE NoDays

NoFacts == [tags |-> {}, group |-> NoGroup, days |-> NoDays]

factsOf(r) == [tags |-> r.tags, group |-> r.group, days |-> effectiveDays(r)]

-----------------------------------------------------------------------------
(* Shopify                                                                 *)

ShopifyHas(tags) ==
    /\ account' = <<tags>>
    /\ deliveries' = IF account = <<tags>> THEN deliveries ELSE Append(deliveries, <<tags>>)

(* The merchant's own hand, or another app's                               *)
ShopifyTags ==
    /\ shopTurns < MaxShopTurns /\ account # << >>
    /\ shopTurns' = shopTurns + 1
    /\ \E t \in Tag : ShopifyHas(IF t \in account[1] THEN account[1] \ {t}
                                                     ELSE account[1] \cup {t})
    /\ UNCHANGED <<climate, row, groupDays, published, stewards, deeds>>

ShopifyDeletes ==
    /\ shopTurns < MaxShopTurns /\ account # << >>
    /\ shopTurns' = shopTurns + 1
    /\ account' = << >> /\ published' = << >>
    /\ deliveries' = Append(deliveries, << >>)
    /\ UNCHANGED <<climate, row, groupDays, stewards, deeds>>

-----------------------------------------------------------------------------
(* An operation begins by reading the buyer                                *)

BeginDeed(p, kind, r, add, remove, to, next) ==
    /\ MayTakeUp(p) /\ deeds < MaxDeeds /\ kind \in Deeds
    /\ deeds' = deeds + 1
    /\ stewards' = [stewards EXCEPT ![p] = [at |-> next, kind |-> kind, add |-> add,
                    remove |-> remove, tags |-> r.tags, to |-> to, facts |-> NoFacts]]
    /\ UNCHANGED <<climate, account, row, groupDays, published, deliveries, shopTurns>>

changeGroup(p) ==
    \E to \in Group \cup {NoGroup} :
        /\ row # << >> /\ (to = NoGroup \/ GroupThere(to))
        /\ LET r == row[1] IN
           BeginDeed(p, "group", r, ({to} \ {NoGroup}) \ r.tags,
                     (IF r.group = to THEN {} ELSE {r.group}) \ {NoGroup}, to, "add")

setTags(p) ==
    \E wanted \in SUBSET Tag :
        /\ row # << >> /\ wanted # row[1].tags
        /\ BeginDeed(p, "tags", row[1], wanted \ row[1].tags, row[1].tags \ wanted,
                     row[1].group, "add")

setTerms(p) ==
    \E days \in {NoDays, 30} :
        row # << >> /\ BeginDeed(p, "terms", row[1], {}, {}, days, "write")

(* runTagSweep: any rule that would change this buyer; not one deleted      *)
runTagSweep(p) ==
    \E t \in Tag, adds \in BOOLEAN :
        /\ row # << >> /\ ~row[1].deleted /\ (t \in row[1].tags) # adds
        /\ BeginDeed(p, "sweep", row[1], IF adds THEN {t} ELSE {}, IF adds THEN {} ELSE {t},
                     row[1].group, "add")

(* backfillCustomers: the buyer as a page of Shopify's list has them       *)
BackfillReads(p) ==
    /\ account # << >>
    /\ BeginDeed(p, "backfill",
                 [tags |-> account[1], group |-> NoGroup, days |-> NoDays, deleted |-> FALSE],
                 {}, {}, NoGroup, "upsert")

DeliveriesBut(i) ==
    SubSeq(deliveries, 1, i - 1) \o SubSeq(deliveries, i + 1, Len(deliveries))

(* ... or, for a webhook, by taking the payload: the oldest, unless what   *)
(* came later may come first                                               *)
HookTakes(p) ==
    /\ MayTakeUp(p)
    /\ \E i \in DOMAIN deliveries :
         LET it == deliveries[i] IN
         /\ "reordered" \notin climate => i = 1
         /\ deliveries' = DeliveriesBut(i)
         /\ stewards' = [stewards EXCEPT ![p] =
                [at |-> IF it = << >> THEN "mark" ELSE "upsert", kind |-> "hook", add |-> {},
                 remove |-> {}, tags |-> IF it = << >> THEN {} ELSE it[1],
                 to |-> NoGroup, facts |-> NoFacts]]
    /\ UNCHANGED <<climate, account, row, groupDays, published, tallies>>

-----------------------------------------------------------------------------
(* applyTagChange: what to add, then what to take away                      *)

TagsWanted(p) == (stewards[p].tags \ stewards[p].remove) \cup stewards[p].add

tagsAdd(p) == IF account = << >> THEN FALSE ELSE ShopifyHas(account[1] \cup stewards[p].add)

tagsReplace(p) ==       \* mutant: the whole list is written, as it was read
    IF account = << >> THEN FALSE ELSE ShopifyHas(TagsWanted(p))

tagsRemove(p) == IF account = << >> THEN FALSE ELSE ShopifyHas(account[1] \ stewards[p].remove)

AddTags(p) ==
    /\ Stands(p, "add") /\ MovesTo(p, "remove")
    /\ IF stewards[p].add = {} THEN UNCHANGED <<account, deliveries>> ELSE tagsAdd(p)
    /\ UNCHANGED <<climate, row, groupDays, published, tallies>>

RemoveTags(p) ==
    /\ Stands(p, "remove") /\ MovesTo(p, "write")
    /\ IF stewards[p].remove = {} THEN UNCHANGED <<account, deliveries>> ELSE tagsRemove(p)
    /\ UNCHANGED <<climate, row, groupDays, published, tallies>>

(* The row; a buyer forgotten meanwhile, or a group deleted, throws        *)
Written(p) ==
    LET d == stewards[p]  r == row[1] IN
    CASE d.kind = "group" -> [r EXCEPT !.tags = TagsWanted(p), !.group = d.to]
      [] d.kind = "terms" -> [r EXCEPT !.days = d.to]
      [] OTHER            -> [r EXCEPT !.tags = TagsWanted(p)]

WriteRow(p) ==
    /\ Stands(p, "write")
    /\ IF row = << >> \/ (stewards[p].kind = "group" /\ stewards[p].to # NoGroup
                            /\ ~GroupThere(stewards[p].to))
         THEN Leaves(p) /\ UNCHANGED row
         ELSE row' = <<Written(p)>> /\ MovesTo(p, "reread")
    /\ UNCHANGED <<climate, account, groupDays, published, deliveries, tallies>>

(* upsertCustomer: what Shopify says of the buyer, and they are there      *)
NewRow(p) ==
    [tags |-> stewards[p].tags, group |-> NoGroup, days |-> NoDays, deleted |-> FALSE]

upsertKeepsTags(p) ==       \* mutant: a row that is there keeps its own tags
    IF row = << >> THEN <<NewRow(p)>> ELSE <<[row[1] EXCEPT !.deleted = FALSE]>>

upsertCustomer(p) ==
    IF row = << >> THEN <<NewRow(p)>>
    ELSE <<[row[1] EXCEPT !.tags = stewards[p].tags, !.deleted = FALSE]>>

Upsert(p) ==
    /\ Stands(p, "upsert") /\ MovesTo(p, "reread")
    /\ row' = upsertCustomer(p)
    /\ UNCHANGED <<climate, account, groupDays, published, deliveries, tallies>>

markCustomerDeleted(p) ==
    /\ Stands(p, "mark") /\ Leaves(p)
    /\ row' = IF row = << >> THEN row ELSE <<[row[1] EXCEPT !.deleted = TRUE]>>
    /\ UNCHANGED <<climate, account, groupDays, published, deliveries, tallies>>

(* What Shopify is answered 500 for: the payload a webhook was begun with. *)
(* It is sent again, until Shopify gives up                                *)
Payload(p) == IF stewards[p].kind = "hook" THEN << <<stewards[p].tags>> >> ELSE << >>

AnsweredFailed(payload) == deliveries' \in {deliveries, payload \o deliveries}

(* republishBuyer: the row and its group are read again, then published.   *)
(* The backfill publishes nobody a rule could not apply to                 *)
Targeted(p) == stewards[p].kind = "backfill" => row[1].group # NoGroup \/ row[1].tags # {}

Reread(p) ==
    /\ Stands(p, "reread")
    /\ IF row = << >> THEN Leaves(p) /\ AnsweredFailed(Payload(p))
       ELSE /\ UNCHANGED deliveries
            /\ IF ~Targeted(p) THEN Leaves(p)
               ELSE stewards' = [stewards EXCEPT ![p] =
                       [at |-> "publish", facts |-> factsOf(row[1]), again |-> Payload(p)]]
    /\ UNCHANGED <<climate, account, row, groupDays, published, tallies>>

Publish(p) ==
    /\ Stands(p, "publish") /\ Leaves(p)
    /\ account # << >> /\ published' = <<stewards[p].facts>>
    /\ UNCHANGED <<climate, account, row, groupDays, deliveries, tallies>>

(* Shopify refuses, as it does for a buyer it no longer has.  A webhook's  *)
(* handler has written the row by then                                     *)
ShopifyRefuses(p) ==
    /\ stewards[p].at \in {"add", "remove", "publish"}
    /\ "refused" \in climate \/ account = << >>
    /\ Leaves(p)
    /\ IF Stands(p, "publish") THEN AnsweredFailed(stewards[p].again)
                               ELSE UNCHANGED deliveries
    /\ UNCHANGED <<climate, account, row, groupDays, published, tallies>>

redactBuyer ==
    /\ "redacted" \in climate /\ account = << >> /\ row # << >>
    /\ row' = << >>
    /\ UNCHANGED <<climate, account, groupDays, published, deliveries, stewards, tallies>>

-----------------------------------------------------------------------------
(* Groups                                                                  *)

GroupTurn == deeds < MaxDeeds /\ deeds' = deeds + 1 /\ "grouping" \in Deeds

createGroup(g) ==
    /\ GroupTurn /\ groupDays[g] = << >>
    /\ \E days \in {NoDays, 60} : groupDays' = [groupDays EXCEPT ![g] = <<days>>]
    /\ UNCHANGED <<climate, account, row, published, deliveries, stewards, shopTurns>>

updateGroup(g) ==
    /\ GroupTurn /\ groupDays[g] # << >>
    /\ \E days \in {NoDays, 60} : groupDays' = [groupDays EXCEPT ![g] = <<days>>]
    /\ UNCHANGED <<climate, account, row, published, deliveries, stewards, shopTurns>>

MembersStay(g, to) == row       \* mutant: the members are not moved first

MembersMove(g, to) ==
    IF row # << >> /\ row[1].group = g THEN <<[row[1] EXCEPT !.group = to]>> ELSE row

(* A destination is asked for when the group has members                   *)
deleteGroup(g) ==
    /\ GroupTurn /\ groupDays[g] # << >>
    /\ \E to \in Group \cup {NoGroup} :
         /\ to # g /\ (to # NoGroup => GroupThere(to))
         /\ row' = MembersMove(g, to)
    /\ groupDays' = [groupDays EXCEPT ![g] = << >>]
    /\ UNCHANGED <<climate, account, published, deliveries, stewards, shopTurns>>

-----------------------------------------------------------------------------
CustomersInit ==
    /\ climate \in Climates
    /\ account = <<{}>> /\ deliveries = <<account>>
    /\ row = << >> /\ published = << >>
    /\ groupDays = [g \in Group |-> <<60>>]
    /\ stewards = [p \in Steward |-> Unoccupied]
    /\ deeds = 0 /\ shopTurns = 0

DeedBegins(p) ==
    \/ changeGroup(p) \/ setTags(p) \/ setTerms(p) \/ runTagSweep(p)
    \/ BackfillReads(p) \/ HookTakes(p)

DeedGoesOn(p) ==
    \/ AddTags(p) \/ RemoveTags(p) \/ WriteRow(p) \/ Upsert(p)
    \/ markCustomerDeleted(p) \/ Reread(p) \/ Publish(p) \/ ShopifyRefuses(p)

CustomersNext ==
    \/ ShopifyTags \/ ShopifyDeletes \/ redactBuyer
    \/ \E p \in Steward : DeedBegins(p) \/ DeedGoesOn(p)
    \/ \E g \in Group : createGroup(g) \/ updateGroup(g) \/ deleteGroup(g)

CustomersSpec == CustomersInit /\ [][CustomersNext]_customersVars

-----------------------------------------------------------------------------
Facts == [tags : SUBSET Tag, group : Group \cup {NoGroup}, days : {NoDays, 30, 60}]

Row == [tags : SUBSET Tag, group : Group \cup {NoGroup}, days : {NoDays, 30},
        deleted : BOOLEAN]

(* The type of the state, and no row in a group that is gone.              *)
CustomersTypeOK ==
    /\ climate \in Climates
    /\ account = << >> \/ \E tags \in SUBSET Tag : account = <<tags>>
    /\ row = << >> \/ (row[1] \in Row /\ (row[1].group = NoGroup \/ GroupThere(row[1].group)))
    /\ published = << >> \/ published[1] \in Facts
    /\ \A p \in Steward : Stands(p, "idle") \/ stewards[p].facts \in Facts

NobodyBusy == deliveries = << >> /\ \A p \in Steward : Stands(p, "idle")

(***************************************************************************)
(* Shopify, the mirror and checkout come to say the same of a buyer:       *)
(* once every delivery was handled and no operation is under way the row   *)
(* has Shopify's tags and knows whether the buyer is still there, and      *)
(* checkout has the row's tags (customers-upsert.server.ts:42-53).  That   *)
(* needs operations one at a time, and webhooks in the order of what they  *)
(* tell, one that failed tried again before the next: the row does not say *)
(* how old it is.  Checkout's copy needs that no call is refused.          *)
(***************************************************************************)
BuyerAgrees ==
    NobodyBusy /\ row # << >> /\ climate \cap {"overlapped", "reordered"} = {} =>
      /\ row[1].deleted = (account = << >>)
      /\ account # << >> => row[1].tags = account[1]
      /\ account # << >> /\ "refused" \notin climate =>
           published # << >> /\ published[1].tags = row[1].tags

(***************************************************************************)
(* A tag another app puts on a buyer between an operation's read and its   *)
(* writes survives it: an operation takes a tag away in Shopify only if it *)
(* read it there (applyTagChange, admin-graphql.server.ts:197-203), or if  *)
(* it is the tag of the group the buyer leaves.                            *)
(***************************************************************************)
OthersTagsSurvive ==
    [][account # << >> /\ account' # << >> /\ shopTurns' = shopTurns =>
         \A t \in account[1] \ account'[1] :
            \E p \in Steward :
               /\ Stands(p, "remove")
               /\ t \in stewards[p].tags \/ (stewards[p].kind = "group" /\ t \in stewards[p].remove)
      ]_customersVars

(***************************************************************************)
(* groups.server.ts:247 says that the members of a group deleted without a *)
(* destination are priced by their tags alone from then on: what checkout  *)
(* has would then not name the group.                                      *)
(***************************************************************************)
DeletedGroupPricesNobody ==
    NobodyBusy /\ climate = {} /\ published # << >> /\ published[1].group # NoGroup =>
      GroupThere(published[1].group)
================================================================================
