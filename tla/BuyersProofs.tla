----------------------------- MODULE BuyersProofs -----------------------------
(***************************************************************************)
(* What the app knows of a buyer, for any number of requests, groups and   *)
(* tags: Shopify, the mirror and checkout come to agree (Customers), who   *)
(* asked to be forgotten is (Redaction), and the agent speaks where it may *)
(* and tells what it did (BuyerAgent).                                     *)
(*                                                                         *)
(* Shopify's last word is the last delivery, or it has been taken.  So     *)
(* while deliveries wait nothing is owed; and when none does, the one      *)
(* operation at work has read what is still so, and has taken nothing from *)
(* the buyer and given them nothing: it would have been told of it.        *)
(***************************************************************************)
EXTENDS Customers, BuyerAgent, Redaction, FiniteSetTheorems, SequenceTheorems, TLAPS

(***************************************************************************)
(* One buyer in Shopify, the mirror and checkout                           *)
(***************************************************************************)
Accounts == {<< >>} \cup {<<tags>> : tags \in SUBSET Tag}

AtWork == [at: {"add", "remove", "write", "upsert", "mark", "reread"},
           kind: {"group", "tags", "terms", "sweep", "backfill", "hook"},
           add: SUBSET Tag, remove: SUBSET Tag, tags: SUBSET Tag,
           to: Group \cup {NoGroup} \cup {NoDays, 30}, facts: {NoFacts}]

Publishing == [at: {"publish"}, facts: Facts,
               again: {<< >>} \cup { << <<tags>> >> : tags \in SUBSET Tag }]

\* What a request asks for is of its kind, and it takes away what it has read.
DeedTyped(p) ==
    /\ stewards[p] \in {Unoccupied} \cup AtWork \cup Publishing
    /\ stewards[p].at \in {"add", "remove", "write"} =>
         /\ stewards[p].kind # "hook"
         /\ stewards[p].kind = "group" => stewards[p].to \in Group \cup {NoGroup}
         /\ stewards[p].kind = "terms" => stewards[p].to \in {NoDays, 30}
         /\ stewards[p].kind # "group" => stewards[p].remove \subseteq stewards[p].tags

BuyerTypes ==
    /\ climate \in Climates
    /\ account \in Accounts
    /\ row \in {<< >>} \cup {<<r>> : r \in Row}
    /\ row # << >> => row[1].group = NoGroup \/ GroupThere(row[1].group)
    /\ groupDays \in [Group -> {<< >>, <<NoDays>>, <<60>>}]
    /\ published \in {<< >>} \cup {<<f>> : f \in Facts}
    /\ deliveries \in Seq(Accounts)
    /\ shopTurns \in Nat

\* One operation at a time, and the webhooks in the order of what they tell.
InTurn == climate \cap {"overlapped", "reordered"} = {}

LastIsSo == InTurn /\ deliveries # << >> => deliveries[Len(deliveries)] = account

RowAgrees ==
    /\ row # << >> => row[1].deleted = (account = << >>)
    /\ account # << >> => row # << >> /\ row[1].tags = account[1]

CheckoutKnows ==
    account # << >> /\ "refused" \notin climate =>
        published # << >> /\ published[1].tags = account[1]

\* What the one at work has read is so, and it has changed nothing.
StillSo(p) ==
    /\ Stands(p, "upsert") =>
         /\ account # << >> /\ stewards[p].tags = account[1]
         /\ stewards[p].kind # "hook" => RowAgrees /\ CheckoutKnows
    /\ Stands(p, "mark") => account = << >>
    /\ stewards[p].at \in {"add", "remove", "write"} =>
         /\ RowAgrees /\ CheckoutKnows
         /\ account # << >> =>
              /\ stewards[p].tags = account[1]
              /\ ~Stands(p, "add") => stewards[p].add \subseteq account[1]
              /\ Stands(p, "write") => stewards[p].remove \cap account[1] = {}
    /\ Stands(p, "reread") =>
         /\ RowAgrees
         /\ stewards[p].kind # "hook" => CheckoutKnows
         /\ stewards[p].kind = "hook" => account # << >> /\ stewards[p].tags = account[1]
    /\ Stands(p, "publish") =>
         /\ RowAgrees /\ (account # << >> => stewards[p].facts.tags = account[1])
         /\ stewards[p].again # << >> => stewards[p].again = <<account>>

OneSteward == \A p, q \in Steward : Stands(p, "idle") \/ Stands(q, "idle") \/ p = q

Caught ==
    /\ (\A p \in Steward : Stands(p, "idle")) => RowAgrees /\ CheckoutKnows
    /\ \A p \in Steward : StillSo(p)

BuyerInv ==
    /\ BuyerTypes
    /\ stewards \in [Steward -> {Unoccupied} \cup AtWork \cup Publishing]
    /\ \A p \in Steward : DeedTyped(p)
    /\ LastIsSo
    /\ InTurn => OneSteward /\ (deliveries = << >> => Caught)

-----------------------------------------------------------------------------
(* Shapes                                                                  *)

StewardTypes ==
    /\ stewards \in [Steward -> {Unoccupied} \cup AtWork \cup Publishing]
    /\ \A p \in Steward : DeedTyped(p)

BuyerTyped == BuyerTypes /\ StewardTypes /\ LastIsSo

LEMMA DeedsAre ==
    ASSUME StewardTypes, NEW p \in Steward
    PROVE  /\ stewards[p].at \in {"add", "remove", "write", "upsert", "mark", "reread"}
                => stewards[p] \in AtWork
           /\ stewards[p].at = "publish" => stewards[p] \in Publishing
           /\ stewards[p].at \in {"idle", "add", "remove", "write", "upsert", "mark",
                                  "reread", "publish"}
<1>1. stewards[p] \in {Unoccupied} \cup AtWork \cup Publishing
    BY DEF StewardTypes
<1> QED
    BY <1>1 DEF Unoccupied, AtWork, Publishing

\* An operation moves, the others stand.
LEMMA Steps ==
    ASSUME StewardTypes, NEW p \in Steward,
           NEW to \in {"add", "remove", "write", "upsert", "mark", "reread"},
           stewards[p] \in AtWork, MovesTo(p, to),
           to \in {"add", "remove", "write"} =>
               stewards[p].at \in {"add", "remove", "write"}
    PROVE  /\ StewardTypes'
           /\ stewards'[p].at = to /\ stewards'[p].kind = stewards[p].kind
           /\ stewards'[p].add = stewards[p].add /\ stewards'[p].remove = stewards[p].remove
           /\ stewards'[p].tags = stewards[p].tags /\ stewards'[p].to = stewards[p].to
           /\ \A q \in Steward : q # p => stewards'[q] = stewards[q]
<1>1. stewards' = [stewards EXCEPT ![p] = [stewards[p] EXCEPT !.at = to]]
    BY DEF MovesTo
<1>2. [stewards[p] EXCEPT !.at = to] \in AtWork
    BY DEF AtWork
<1>3. /\ stewards' \in [Steward -> {Unoccupied} \cup AtWork \cup Publishing]
      /\ stewards'[p] = [stewards[p] EXCEPT !.at = to]
      /\ \A q \in Steward : q # p => stewards'[q] = stewards[q]
    BY <1>1, <1>2 DEF StewardTypes
<1>4. /\ stewards'[p].at = to /\ stewards'[p].kind = stewards[p].kind
      /\ stewards'[p].add = stewards[p].add /\ stewards'[p].remove = stewards[p].remove
      /\ stewards'[p].tags = stewards[p].tags /\ stewards'[p].to = stewards[p].to
    BY <1>3 DEF AtWork
<1>5. ASSUME NEW q \in Steward PROVE DeedTyped(q)'
    <2>1. DeedTyped(q) /\ stewards'[q] \in {Unoccupied} \cup AtWork \cup Publishing
        BY <1>3 DEF StewardTypes
    <2> QED
        BY <1>3, <1>4, <2>1 DEF DeedTyped
<1> QED
    BY <1>3, <1>4, <1>5 DEF StewardTypes

LEMMA Left ==
    ASSUME StewardTypes, NEW p \in Steward, Leaves(p)
    PROVE  /\ StewardTypes' /\ stewards'[p].at = "idle"
           /\ \A q \in Steward : q # p => stewards'[q] = stewards[q]
<1>1. /\ stewards' \in [Steward -> {Unoccupied} \cup AtWork \cup Publishing]
      /\ stewards'[p] = Unoccupied
      /\ \A q \in Steward : q # p => stewards'[q] = stewards[q]
    BY DEF StewardTypes, Leaves
<1>2. stewards'[p].at = "idle"
    BY <1>1 DEF Unoccupied
<1>3. ASSUME NEW q \in Steward PROVE DeedTyped(q)'
    <2>1. DeedTyped(q) /\ stewards'[q] \in {Unoccupied} \cup AtWork \cup Publishing
        BY <1>1 DEF StewardTypes
    <2> QED
        BY <1>1, <1>2, <2>1 DEF DeedTyped
<1> QED
    BY <1>1, <1>2, <1>3 DEF StewardTypes

-----------------------------------------------------------------------------
(* Who is at work is alone at it                                           *)

LEMMA AloneAtIt ==
    ASSUME BuyerInv, InTurn, NEW p \in Steward
    PROVE  /\ ~Stands(p, "idle") => \A q \in Steward : q # p => Stands(q, "idle")
           /\ deliveries = << >> => StillSo(p)
           /\ deliveries = << >> /\ (\A q \in Steward : Stands(q, "idle")) =>
                RowAgrees /\ CheckoutKnows
BY DEF BuyerInv, OneSteward, Caught

\* What the operation that moves has to show for itself.
LEMMA OneStepped ==
    ASSUME BuyerInv, NEW p \in Steward, UNCHANGED climate,
           BuyerTypes', StewardTypes', LastIsSo',
           \A q \in Steward : q # p => stewards'[q] = stewards[q],
           \/ ~Stands(p, "idle")
           \/ InTurn => \A q \in Steward : Stands(q, "idle"),
           InTurn /\ deliveries' = << >> =>
               /\ StillSo(p)'
               /\ Stands(p, "idle")' => RowAgrees' /\ CheckoutKnows'
    PROVE  BuyerInv'
<1>1. ASSUME InTurn
      PROVE  OneSteward' /\ (deliveries' = << >> => Caught')
    <2>1. \A q \in Steward : q # p => Stands(q, "idle")
        BY <1>1, AloneAtIt
    <2>2. \A q \in Steward : q # p => Stands(q, "idle")'
        BY <2>1 DEF Stands
    <2>3. OneSteward'
        BY <2>2 DEF OneSteward
    <2>4. \A q \in Steward : q # p => StillSo(q)'
        BY <2>2 DEF StillSo, Stands
    <2> QED
        BY <1>1, <2>2, <2>3, <2>4 DEF Caught
<1> QED
    BY <1>1 DEF BuyerInv, StewardTypes, InTurn

-----------------------------------------------------------------------------
(* An operation begins                                                     *)

LEMMA FactsAre == NoFacts \in Facts /\ NoFacts \in {NoFacts}
BY DEF NoFacts, Facts, NoDays

\* It has a record of its own.
LEMMA TakenUp ==
    ASSUME StewardTypes, NEW p \in Steward, NEW rec \in AtWork,
           stewards' = [stewards EXCEPT ![p] = rec],
           rec.at \in {"add", "remove", "write"} =>
             /\ rec.kind # "hook"
             /\ rec.kind = "group" => rec.to \in Group \cup {NoGroup}
             /\ rec.kind = "terms" => rec.to \in {NoDays, 30}
             /\ rec.kind # "group" => rec.remove \subseteq rec.tags
    PROVE  /\ StewardTypes' /\ stewards'[p] = rec
           /\ \A q \in Steward : q # p => stewards'[q] = stewards[q]
<1>1. /\ stewards' \in [Steward -> {Unoccupied} \cup AtWork \cup Publishing]
      /\ stewards'[p] = rec
      /\ \A q \in Steward : q # p => stewards'[q] = stewards[q]
    BY DEF StewardTypes
<1>2. ASSUME NEW q \in Steward PROVE DeedTyped(q)'
    <2>1. DeedTyped(q) /\ stewards'[q] \in {Unoccupied} \cup AtWork \cup Publishing
        BY <1>1 DEF StewardTypes
    <2> QED
        BY <1>1, <2>1 DEF DeedTyped
<1> QED
    BY <1>1, <1>2 DEF StewardTypes

\* It has read the row, or the account, as it is.
LEMMA DeedBegun ==
    ASSUME BuyerInv, NEW p \in Steward,
           NEW kind \in {"group", "tags", "terms", "sweep", "backfill"}, NEW r,
           NEW add \in SUBSET Tag, NEW remove \in SUBSET Tag,
           NEW to \in Group \cup {NoGroup} \cup {NoDays, 30},
           NEW next \in {"add", "write", "upsert"},
           BeginDeed(p, kind, r, add, remove, to, next),
           r.tags \in SUBSET Tag,
           next = "upsert" => account # << >> /\ r.tags = account[1],
           next # "upsert" =>
             /\ row # << >> /\ r = row[1]
             /\ kind = "group" => to \in Group \cup {NoGroup}
             /\ kind = "terms" => to \in {NoDays, 30}
             /\ kind # "group" => remove \subseteq r.tags,
           next = "write" => add = {} /\ remove = {}
    PROVE  BuyerInv'
<1> DEFINE rec == [at |-> next, kind |-> kind, add |-> add, remove |-> remove,
                   tags |-> r.tags, to |-> to, facts |-> NoFacts]
<1>1. /\ MayTakeUp(p) /\ stewards' = [stewards EXCEPT ![p] = rec]
      /\ UNCHANGED <<climate, account, row, groupDays, published, deliveries, shopTurns>>
    BY DEF BeginDeed
<1>2. rec \in AtWork
    BY FactsAre DEF AtWork
<1>3. /\ StewardTypes' /\ stewards'[p] = rec
      /\ \A q \in Steward : q # p => stewards'[q] = stewards[q]
    BY <1>1, <1>2, TakenUp DEF BuyerInv, StewardTypes
<1>4. /\ stewards'[p].at = next /\ stewards'[p].kind = kind /\ stewards'[p].add = add
      /\ stewards'[p].remove = remove /\ stewards'[p].tags = r.tags
    BY <1>3
<1> HIDE DEF rec
<1>5. BuyerTypes' /\ LastIsSo'
    BY <1>1 DEF BuyerInv, BuyerTypes, LastIsSo, InTurn, GroupThere
<1>6. ASSUME InTurn, deliveries' = << >>
      PROVE  StillSo(p)' /\ ~Stands(p, "idle")'
    <2>1. RowAgrees /\ CheckoutKnows
        BY <1>1, <1>6, AloneAtIt DEF MayTakeUp, InTurn
    <2>2. RowAgrees' /\ CheckoutKnows'
        BY <1>1, <2>1 DEF RowAgrees, CheckoutKnows
    <2>3. CASE next = "upsert"
        BY <1>1, <1>4, <2>2, <2>3 DEF StillSo, Stands
    <2>4. CASE next # "upsert"
        <3>1. account # << >> => r.tags = account[1]
            BY <2>1, <2>4 DEF RowAgrees
        <3>2. next = "write" => add = {} /\ remove = {}
            OBVIOUS
        <3> QED
            BY <1>1, <1>4, <2>2, <2>4, <3>1, <3>2 DEF StillSo, Stands
    <2> QED
        BY <2>3, <2>4
<1> QED
    BY <1>1, <1>3, <1>5, <1>6, OneStepped DEF MayTakeUp, InTurn

LEMMA RowIs ==
    ASSUME BuyerTypes, row # << >>
    PROVE  row[1] \in Row /\ row = <<row[1]>> /\ row[1].tags \in SUBSET Tag
           /\ row[1].group \in Group \cup {NoGroup}
<1>1. PICK r \in Row : row = <<r>>
    BY DEF BuyerTypes
<1> QED
    BY <1>1 DEF Row

LEMMA AccountIs ==
    ASSUME BuyerTypes, account # << >>
    PROVE  account = <<account[1]>> /\ account[1] \in SUBSET Tag
<1>1. PICK tags \in SUBSET Tag : account = <<tags>>
    BY DEF BuyerTypes, Accounts
<1> QED
    BY <1>1

LEMMA changeGroupKept ==
    ASSUME BuyerInv, NEW p \in Steward, changeGroup(p) PROVE BuyerInv'
<1> DEFINE r == row[1]
           Add(to) == ({to} \ {NoGroup}) \ r.tags
           Remove(to) == (IF r.group = to THEN {} ELSE {r.group}) \ {NoGroup}
<1>1. PICK to \in Group \cup {NoGroup} :
          /\ row # << >>
          /\ BeginDeed(p, "group", r, Add(to), Remove(to), to, "add")
    BY DEF changeGroup
<1>2. r.tags \in SUBSET Tag /\ r.group \in Group \cup {NoGroup}
    BY <1>1, RowIs DEF BuyerInv
<1>3. Add(to) \in SUBSET Tag /\ Remove(to) \in SUBSET Tag
    BY <1>2 DEF Tag
<1> HIDE DEF Add, Remove
<1> QED
    BY <1>1, <1>2, <1>3, DeedBegun

LEMMA setTagsKept ==
    ASSUME BuyerInv, NEW p \in Steward, setTags(p) PROVE BuyerInv'
<1>1. PICK wanted \in SUBSET Tag :
          /\ row # << >>
          /\ BeginDeed(p, "tags", row[1], wanted \ row[1].tags, row[1].tags \ wanted,
                       row[1].group, "add")
    BY DEF setTags
<1>2. row[1].tags \in SUBSET Tag /\ row[1].group \in Group \cup {NoGroup}
    BY <1>1, RowIs DEF BuyerInv
<1>3. wanted \ row[1].tags \in SUBSET Tag /\ row[1].tags \ wanted \in SUBSET Tag
    BY <1>2
<1> QED
    BY <1>1, <1>2, <1>3, DeedBegun

LEMMA setTermsKept ==
    ASSUME BuyerInv, NEW p \in Steward, setTerms(p) PROVE BuyerInv'
<1>1. PICK days \in {NoDays, 30} :
          row # << >> /\ BeginDeed(p, "terms", row[1], {}, {}, days, "write")
    BY DEF setTerms
<1>2. row[1].tags \in SUBSET Tag
    BY <1>1, RowIs DEF BuyerInv
<1> QED
    BY <1>1, <1>2, DeedBegun

LEMMA runTagSweepKept ==
    ASSUME BuyerInv, NEW p \in Steward, runTagSweep(p) PROVE BuyerInv'
<1>1. PICK t \in Tag, adds \in BOOLEAN :
          /\ row # << >> /\ (t \in row[1].tags) # adds
          /\ BeginDeed(p, "sweep", row[1], IF adds THEN {t} ELSE {}, IF adds THEN {} ELSE {t},
                       row[1].group, "add")
    BY DEF runTagSweep
<1>2. row[1].tags \in SUBSET Tag /\ row[1].group \in Group \cup {NoGroup}
    BY <1>1, RowIs DEF BuyerInv
<1>3. CASE adds = TRUE
    <2>1. BeginDeed(p, "sweep", row[1], {t}, {}, row[1].group, "add")
        BY <1>1, <1>3
    <2> QED
        BY <1>1, <1>2, <2>1, DeedBegun
<1>4. CASE adds = FALSE
    <2>1. BeginDeed(p, "sweep", row[1], {}, {t}, row[1].group, "add") /\ t \in row[1].tags
        BY <1>1, <1>4
    <2> QED
        BY <1>1, <1>2, <2>1, DeedBegun
<1> QED
    BY <1>3, <1>4

LEMMA BackfillReadsKept ==
    ASSUME BuyerInv, NEW p \in Steward, BackfillReads(p) PROVE BuyerInv'
<1> DEFINE r == [tags |-> account[1], group |-> NoGroup, days |-> NoDays, deleted |-> FALSE]
<1>1. account # << >> /\ BeginDeed(p, "backfill", r, {}, {}, NoGroup, "upsert")
    BY DEF BackfillReads
<1>2. r.tags \in SUBSET Tag /\ r.tags = account[1]
    BY <1>1, AccountIs DEF BuyerInv
<1> HIDE DEF r
<1> QED
    BY <1>1, <1>2, DeedBegun

\* The others stay in their order when one is taken.
LEMMA OthersWait ==
    ASSUME deliveries \in Seq(Accounts), NEW i \in DOMAIN deliveries
    PROVE  /\ deliveries[i] \in Accounts /\ DeliveriesBut(i) \in Seq(Accounts)
           /\ i = 1 => /\ DeliveriesBut(i) = << >> => Len(deliveries) = 1
                       /\ DeliveriesBut(i) # << >> =>
                            DeliveriesBut(i)[Len(DeliveriesBut(i))] = deliveries[Len(deliveries)]
<1> DEFINE n == Len(deliveries)
           before == SubSeq(deliveries, 1, i - 1)
           after == SubSeq(deliveries, i + 1, n)
<1>1. n \in Nat /\ i \in 1 .. n /\ deliveries[i] \in Accounts
    BY LenProperties, ElementOfSeq
<1>2. before \in Seq(Accounts) /\ after \in Seq(Accounts)
    <2>1. \A k \in 1 .. i - 1 : deliveries[k] \in Accounts
        BY <1>1, ElementOfSeq
    <2>2. \A k \in i + 1 .. n : deliveries[k] \in Accounts
        BY <1>1, ElementOfSeq
    <2>3. i - 1 \in Int /\ i + 1 \in Int /\ n \in Int /\ 1 \in Int
        BY <1>1
    <2> HIDE DEF n
    <2>4. SubSeq(deliveries, 1, i - 1) \in Seq(Accounts)
        BY <2>1, <2>3, SubSeqProperties
    <2>5. SubSeq(deliveries, i + 1, n) \in Seq(Accounts)
        BY <2>2, <2>3, SubSeqProperties
    <2> QED
        BY <2>4, <2>5
<1>3. DeliveriesBut(i) = before \o after /\ before \o after \in Seq(Accounts)
    BY <1>2, ConcatProperties DEF DeliveriesBut
<1>4. ASSUME i = 1
      PROVE  /\ DeliveriesBut(i) = << >> => n = 1
             /\ DeliveriesBut(i) # << >> =>
                  DeliveriesBut(i)[Len(DeliveriesBut(i))] = deliveries[n]
    <2>1. Len(after) = n - 1 /\ \A k \in 1 .. n - 1 : after[k] = deliveries[k + 1]
        <3>1. after = SubSeq(deliveries, 2, n) /\ n \in Int /\ 2 \in Int
            BY <1>1, <1>4
        <3>2. \A k \in 2 .. n : deliveries[k] \in Accounts
            BY <1>1, ElementOfSeq
        <3> HIDE DEF n, after
        <3>3. /\ Len(SubSeq(deliveries, 2, n)) = IF 2 <= n THEN n - 2 + 1 ELSE 0
              /\ \A k \in 1 .. n - 2 + 1 :
                   SubSeq(deliveries, 2, n)[k] = deliveries[2 + k - 1]
            BY <3>1, <3>2, SubSeqProperties
        <3>4. n - 2 + 1 = n - 1 /\ \A k \in 1 .. n - 1 : 2 + k - 1 = k + 1
            BY <1>1
        <3> QED
            BY <1>1, <3>1, <3>3, <3>4
    <2>2. before = << >>
        BY <1>1, <1>4, SubSeqEmpty
    <2>3. DeliveriesBut(i) = after
        BY <1>2, <1>3, <2>2, ConcatEmptySeq
    <2> HIDE DEF n, after
    <2>4. after = << >> <=> n = 1
        <3>1. after = << >> <=> Len(after) = 0
            BY <1>2, EmptySeq
        <3> QED
            BY <1>1, <2>1, <3>1
    <2>5. after # << >> => n - 1 \in 1 .. n - 1 /\ after[n - 1] = deliveries[n]
        <3>1. n # 1 => n - 1 \in 1 .. n - 1 /\ n - 1 + 1 = n
            BY <1>1
        <3> QED
            BY <2>1, <2>4, <3>1
    <2> QED
        BY <2>1, <2>3, <2>4, <2>5
<1> QED
    BY <1>1, <1>3, <1>4

LEMMA HookTakesKept ==
    ASSUME BuyerInv, NEW p \in Steward, HookTakes(p) PROVE BuyerInv'
<1> DEFINE Rec(it) == [at |-> IF it = << >> THEN "mark" ELSE "upsert", kind |-> "hook",
                   add |-> {}, remove |-> {}, tags |-> IF it = << >> THEN {} ELSE it[1],
                   to |-> NoGroup, facts |-> NoFacts]
<1>0. PICK i \in DOMAIN deliveries :
          /\ "reordered" \notin climate => i = 1
          /\ deliveries' = DeliveriesBut(i)
          /\ stewards' = [stewards EXCEPT ![p] = Rec(deliveries[i])]
    BY DEF HookTakes
<1> DEFINE it == deliveries[i]
           rec == Rec(it)
<1>1. /\ MayTakeUp(p) /\ deliveries' = DeliveriesBut(i)
      /\ stewards' = [stewards EXCEPT ![p] = rec]
      /\ UNCHANGED <<climate, account, row, groupDays, published, shopTurns>>
      /\ InTurn => i = 1
    BY <1>0 DEF HookTakes, tallies, InTurn
<1>2. /\ deliveries \in Seq(Accounts) /\ deliveries # << >> /\ BuyerTypes /\ StewardTypes
      /\ InTurn => deliveries[Len(deliveries)] = account
    <2>1. deliveries # << >>
        OBVIOUS
    <2> QED
        BY <2>1 DEF BuyerInv, BuyerTypes, StewardTypes, LastIsSo
<1>3. it \in Accounts /\ DeliveriesBut(i) \in Seq(Accounts)
    BY <1>2, OthersWait
<1>4. rec \in AtWork
    <2>1. CASE it = << >>
        BY <2>1, FactsAre DEF AtWork
    <2>2. CASE it # << >>
        <3>1. PICK tags \in SUBSET Tag : it = <<tags>>
            BY <1>3, <2>2 DEF Accounts
        <3>2. it[1] \in SUBSET Tag
            BY <3>1
        <3> QED
            BY <2>2, <3>2, FactsAre DEF AtWork
    <2> QED
        BY <2>1, <2>2
<1>5. /\ StewardTypes' /\ stewards'[p] = rec
      /\ \A q \in Steward : q # p => stewards'[q] = stewards[q]
    <2>1. rec.at \notin {"add", "remove", "write"}
        OBVIOUS
    <2> HIDE DEF rec, it, Rec
    <2>2. StewardTypes /\ stewards' = [stewards EXCEPT ![p] = rec]
        BY <1>1, <1>2
    <2> QED
        BY <1>4, <2>1, <2>2, TakenUp
<1>6. /\ it = << >> => stewards'[p].at = "mark"
      /\ it # << >> => stewards'[p].at = "upsert" /\ stewards'[p].tags = it[1]
      /\ stewards'[p].kind = "hook"
    BY <1>5
<1>7. BuyerTypes'
    BY <1>1, <1>2, <1>3 DEF BuyerTypes, GroupThere
<1>8. InTurn =>
        /\ deliveries' = << >> => deliveries[i] = account
        /\ deliveries' # << >> => deliveries'[Len(deliveries')] = account
    BY <1>1, <1>2, OthersWait
<1>9. LastIsSo'
    BY <1>1, <1>8 DEF LastIsSo, InTurn
<1>10. ASSUME InTurn, deliveries' = << >> PROVE StillSo(p)' /\ ~Stands(p, "idle")'
    <2>1. it = account
        BY <1>8, <1>10
    <2> HIDE DEF rec, it
    <2>2. \/ account = << >> /\ stewards'[p].at = "mark"
          \/ account # << >> /\ stewards'[p].at = "upsert" /\ stewards'[p].tags = account[1]
        BY <1>6, <2>1
    <2> QED
        BY <1>1, <1>6, <2>2 DEF StillSo, Stands
<1> QED
    BY <1>1, <1>5, <1>7, <1>9, <1>10, OneStepped DEF MayTakeUp, InTurn

-----------------------------------------------------------------------------
(* Shopify tells of every change                                           *)

LEMMA Told ==
    ASSUME BuyerTypes, LastIsSo, NEW it \in Accounts, account' = it,
           deliveries' = Append(deliveries, it)
    PROVE  deliveries' \in Seq(Accounts) /\ LastIsSo' /\ deliveries' # << >>
<1>1. deliveries \in Seq(Accounts) /\ Len(deliveries) \in Nat
    BY LenProperties DEF BuyerTypes
<1>2. /\ deliveries' \in Seq(Accounts) /\ deliveries' # << >>
      /\ Len(deliveries') = Len(deliveries) + 1 /\ deliveries'[Len(deliveries) + 1] = it
    BY <1>1, AppendProperties
<1>3. deliveries'[Len(deliveries')] = it
    BY <1>1, <1>2
<1> QED
    BY <1>2, <1>3 DEF LastIsSo, InTurn

LEMMA ShopifyTells ==
    ASSUME BuyerTypes, LastIsSo, climate' = climate, NEW tags \in SUBSET Tag, ShopifyHas(tags)
    PROVE  /\ account' = <<tags>> /\ account' \in Accounts
           /\ deliveries' \in Seq(Accounts) /\ LastIsSo'
           /\ deliveries' = << >> => deliveries = << >> /\ account' = account
<1>1. account' = <<tags>> /\ account' \in Accounts /\ <<tags>> \in Accounts
    BY DEF ShopifyHas, Accounts
<1>2. CASE account = <<tags>>
    <2>1. deliveries' = deliveries /\ account' = account
        BY <1>1, <1>2 DEF ShopifyHas
    <2> QED
        BY <1>1, <2>1 DEF BuyerTypes, LastIsSo, InTurn
<1>3. CASE account # <<tags>>
    <2>1. deliveries' = Append(deliveries, <<tags>>)
        BY <1>3 DEF ShopifyHas
    <2>2. deliveries' \in Seq(Accounts) /\ LastIsSo' /\ deliveries' # << >>
        BY <1>1, <2>1, Told
    <2> QED
        BY <1>1, <2>2
<1> QED
    BY <1>2, <1>3

\* Nothing happened to the account that the shop was not told of.
LEMMA TagsMove ==
    ASSUME BuyerInv, NEW p \in Steward, NEW to \in {"remove", "write"}, MovesTo(p, to),
           stewards[p].at \in {"add", "remove"},
           UNCHANGED <<climate, row, groupDays, published, shopTurns>>,
           \/ UNCHANGED <<account, deliveries>>
           \/ \E tags \in SUBSET Tag : ShopifyHas(tags),
           account # << >> /\ stewards[p].tags = account[1] /\ account' = account
             /\ (~Stands(p, "add") => stewards[p].add \subseteq account[1])
             => /\ stewards[p].add \subseteq account[1]
                /\ to = "write" => stewards[p].remove \cap account[1] = {}
    PROVE  BuyerInv'
<1>1. BuyerTypes /\ StewardTypes /\ LastIsSo
    BY DEF BuyerInv, StewardTypes
<1>2. /\ account' \in Accounts /\ deliveries' \in Seq(Accounts) /\ LastIsSo'
      /\ deliveries' = << >> => deliveries = << >> /\ account' = account
    <2>1. CASE UNCHANGED <<account, deliveries>>
        BY <1>1, <2>1 DEF BuyerTypes, LastIsSo, InTurn
    <2>2. CASE \E tags \in SUBSET Tag : ShopifyHas(tags)
        BY <1>1, <2>2, ShopifyTells
    <2> QED
        BY <2>1, <2>2
<1>3. /\ StewardTypes' /\ stewards'[p].at = to /\ stewards'[p].kind = stewards[p].kind
      /\ stewards'[p].add = stewards[p].add /\ stewards'[p].remove = stewards[p].remove
      /\ stewards'[p].tags = stewards[p].tags
      /\ \A q \in Steward : q # p => stewards'[q] = stewards[q]
    BY <1>1, DeedsAre, Steps
<1>4. BuyerTypes'
    BY <1>1, <1>2 DEF BuyerTypes, GroupThere
<1>5. ASSUME InTurn, deliveries' = << >>
      PROVE  StillSo(p)' /\ ~Stands(p, "idle")'
    <2>1. StillSo(p) /\ account' = account
        BY <1>2, <1>5, AloneAtIt
    <2>2. RowAgrees' /\ CheckoutKnows'
        BY <2>1 DEF StillSo, RowAgrees, CheckoutKnows
    <2>3. account # << >> =>
            /\ stewards[p].tags = account[1] /\ stewards[p].add \subseteq account[1]
            /\ to = "write" => stewards[p].remove \cap account[1] = {}
        BY <2>1 DEF StillSo
    <2> QED
        BY <1>3, <2>1, <2>2, <2>3 DEF StillSo, Stands
<1> QED
    BY <1>2, <1>3, <1>4, <1>5, OneStepped DEF Stands

LEMMA AddTagsKept ==
    ASSUME BuyerInv, NEW p \in Steward, AddTags(p) PROVE BuyerInv'
<1>1. /\ stewards[p].at = "add" /\ MovesTo(p, "remove")
      /\ UNCHANGED <<climate, row, groupDays, published, shopTurns>>
    BY DEF AddTags, Stands, tallies
<1>2. stewards[p].add \in SUBSET Tag
    BY <1>1, DeedsAre DEF BuyerInv, StewardTypes, AtWork
<1>3. CASE stewards[p].add = {}
    <2>1. UNCHANGED <<account, deliveries>>
        BY <1>3 DEF AddTags
    <2> QED
        BY <1>1, <1>3, <2>1, TagsMove
<1>4. CASE stewards[p].add # {}
    <2>1. account # << >> /\ ShopifyHas(account[1] \cup stewards[p].add)
        BY <1>4 DEF AddTags, tagsAdd
    <2>2. account[1] \cup stewards[p].add \in SUBSET Tag
        BY <1>2, <2>1, AccountIs DEF BuyerInv
    <2>3. account' = <<account[1] \cup stewards[p].add>>
        BY <2>1 DEF ShopifyHas
    <2>4. account' = account => stewards[p].add \subseteq account[1]
        BY <2>3
    <2> QED
        BY <1>1, <2>1, <2>2, <2>4, TagsMove
<1> QED
    BY <1>3, <1>4

LEMMA RemoveTagsKept ==
    ASSUME BuyerInv, NEW p \in Steward, RemoveTags(p) PROVE BuyerInv'
<1>1. /\ stewards[p].at = "remove" /\ MovesTo(p, "write") /\ ~Stands(p, "add")
      /\ UNCHANGED <<climate, row, groupDays, published, shopTurns>>
    BY DEF RemoveTags, Stands, tallies
<1>2. CASE stewards[p].remove = {}
    <2>1. UNCHANGED <<account, deliveries>>
        BY <1>2 DEF RemoveTags
    <2> QED
        BY <1>1, <1>2, <2>1, TagsMove
<1>3. CASE stewards[p].remove # {}
    <2>1. account # << >> /\ ShopifyHas(account[1] \ stewards[p].remove)
        BY <1>3 DEF RemoveTags, tagsRemove
    <2>2. account[1] \ stewards[p].remove \in SUBSET Tag
        BY <2>1, AccountIs DEF BuyerInv
    <2>3. account' = <<account[1] \ stewards[p].remove>>
        BY <2>1 DEF ShopifyHas
    <2>4. account' = account => stewards[p].remove \cap account[1] = {}
        BY <2>3
    <2> QED
        BY <1>1, <2>1, <2>2, <2>4, TagsMove
<1> QED
    BY <1>2, <1>3

-----------------------------------------------------------------------------
(* The row is written, read back and published                             *)

\* The one at work writes the row, to be read back, or leaves it.
LEMMA RowWritten ==
    ASSUME BuyerInv, NEW p \in Steward,
           stewards[p] \in AtWork, UNCHANGED <<climate, account, groupDays, published,
                                               deliveries, shopTurns>>,
           NEW r \in Row, row' = <<r>>, r.group = NoGroup \/ GroupThere(r.group),
           MovesTo(p, "reread"),
           InTurn /\ deliveries = << >> /\ StillSo(p) =>
             /\ r.deleted = (account = << >>)
             /\ account # << >> => r.tags = account[1]
             /\ stewards[p].kind # "hook" => CheckoutKnows
             /\ stewards[p].kind = "hook" => account # << >> /\ stewards[p].tags = account[1]
    PROVE  BuyerInv'
<1>1. BuyerTypes /\ StewardTypes /\ LastIsSo
    BY DEF BuyerInv, StewardTypes
<1>2. /\ StewardTypes' /\ stewards'[p].at = "reread" /\ stewards'[p].kind = stewards[p].kind
      /\ stewards'[p].tags = stewards[p].tags
      /\ \A q \in Steward : q # p => stewards'[q] = stewards[q]
    BY <1>1, Steps
<1>3. row' # << >> /\ row'[1] = r /\ row' \in {<<x>> : x \in Row}
    OBVIOUS
<1>4. BuyerTypes' /\ LastIsSo'
    BY <1>1, <1>3 DEF BuyerTypes, LastIsSo, InTurn, GroupThere
<1>5. ASSUME InTurn, deliveries' = << >>
      PROVE  StillSo(p)' /\ ~Stands(p, "idle")'
    <2>1. StillSo(p)
        BY <1>5, AloneAtIt
    <2>2. RowAgrees' /\ (stewards[p].kind # "hook" => CheckoutKnows')
        BY <1>3, <1>5, <2>1 DEF RowAgrees, CheckoutKnows
    <2> QED
        BY <1>2, <1>5, <2>1, <2>2 DEF StillSo, Stands
<1>6. ~Stands(p, "idle")
    BY DEF Stands, AtWork
<1> QED
    BY <1>2, <1>4, <1>5, <1>6, OneStepped

\* The deliveries are as they were, or the one that failed is before them again.
LEMMA FailedComesAgain ==
    ASSUME BuyerInv, UNCHANGED <<climate, account>>,
           NEW payload \in {<< >>} \cup { << <<tags>> >> : tags \in SUBSET Tag },
           deliveries' \in {deliveries, payload \o deliveries},
           InTurn /\ deliveries = << >> /\ payload # << >> => payload = <<account>>
    PROVE  /\ deliveries' \in Seq(Accounts) /\ LastIsSo'
           /\ deliveries' = << >> => deliveries = << >>
<1>1. deliveries \in Seq(Accounts) /\ LastIsSo /\ Len(deliveries) \in Nat
    BY LenProperties DEF BuyerInv, BuyerTypes
<1>2. CASE deliveries' = deliveries
    BY <1>1, <1>2 DEF LastIsSo, InTurn
<1>3. CASE payload = << >> /\ deliveries' = payload \o deliveries
    <2>1. deliveries' = deliveries
        BY <1>1, <1>3, ConcatEmptySeq
    <2> QED
        BY <1>2, <2>1
<1>4. CASE payload # << >> /\ deliveries' = payload \o deliveries
    <2>1. PICK tags \in SUBSET Tag : payload = << <<tags>> >>
        BY <1>4
    <2>2. payload \in Seq(Accounts) /\ Len(payload) = 1 /\ payload[1] = <<tags>>
        <3>1. <<tags>> \in Accounts
            BY DEF Accounts
        <3> QED
            BY <2>1, <3>1
    <2>3. /\ deliveries' \in Seq(Accounts) /\ Len(deliveries') = 1 + Len(deliveries)
          /\ \A k \in 1 .. 1 + Len(deliveries) :
               deliveries'[k] = IF k <= 1 THEN payload[k] ELSE deliveries[k - 1]
        BY <1>1, <1>4, <2>2, ConcatProperties
    <2>4. deliveries' # << >>
        BY <1>1, <2>3
    <2>5. CASE deliveries = << >>
        <3>1. Len(deliveries') = 1 /\ deliveries'[1] = payload[1]
            BY <2>3, <2>5
        <3>2. InTurn => payload[1] = account
            BY <1>4, <2>5
        <3> QED
            BY <2>3, <2>4, <3>1, <3>2 DEF LastIsSo, InTurn
    <2>6. CASE deliveries # << >>
        <3>1. Len(deliveries) # 0
            BY <1>1, <2>6, EmptySeq
        <3>2. deliveries'[Len(deliveries')] = deliveries[Len(deliveries)]
            BY <1>1, <2>3, <3>1
        <3> QED
            BY <1>1, <2>3, <2>4, <2>6, <3>2 DEF LastIsSo, InTurn
    <2> QED
        BY <2>5, <2>6
<1> QED
    BY <1>2, <1>3, <1>4

\* ... or is done, with nothing changed.
LEMMA LeftAlone ==
    ASSUME BuyerInv, NEW p \in Steward, ~Stands(p, "idle"), Leaves(p),
           UNCHANGED <<climate, account, row, groupDays, shopTurns>>,
           deliveries' \in Seq(Accounts), LastIsSo', deliveries' = << >> => deliveries = << >>,
           published' \in {<< >>} \cup {<<f>> : f \in Facts},
           InTurn /\ deliveries = << >> /\ StillSo(p) =>
             RowAgrees /\ CheckoutKnows'
    PROVE  BuyerInv'
<1>1. BuyerTypes /\ StewardTypes /\ LastIsSo
    BY DEF BuyerInv, StewardTypes
<1>2. /\ StewardTypes' /\ stewards'[p].at = "idle"
      /\ \A q \in Steward : q # p => stewards'[q] = stewards[q]
    BY <1>1, Left
<1>3. BuyerTypes'
    BY <1>1 DEF BuyerTypes, GroupThere
<1>4. ASSUME InTurn, deliveries' = << >>
      PROVE  StillSo(p)' /\ RowAgrees' /\ CheckoutKnows'
    <2>1. StillSo(p)
        BY <1>4, AloneAtIt
    <2>2. RowAgrees' /\ CheckoutKnows'
        BY <1>4, <2>1 DEF RowAgrees
    <2> QED
        BY <1>2, <2>2 DEF StillSo, Stands
<1> QED
    BY <1>2, <1>3, <1>4, OneStepped

LEMMA WriteRowKept ==
    ASSUME BuyerInv, NEW p \in Steward, WriteRow(p) PROVE BuyerInv'
<1>1. /\ stewards[p].at = "write"
      /\ UNCHANGED <<climate, account, groupDays, published, deliveries, shopTurns>>
    BY DEF WriteRow, Stands, tallies
<1>2. BuyerTypes /\ StewardTypes /\ stewards[p] \in AtWork /\ ~Stands(p, "idle")
    BY <1>1, DeedsAre DEF BuyerInv, StewardTypes, Stands
<1>3. CASE row = << >> \/ (stewards[p].kind = "group" /\ stewards[p].to # NoGroup
                            /\ ~GroupThere(stewards[p].to))
    <2>1. Leaves(p) /\ row' = row
        BY <1>3 DEF WriteRow
    <2>2. StillSo(p) => RowAgrees /\ CheckoutKnows'
        BY <1>1 DEF StillSo, CheckoutKnows
    <2>3. /\ published' \in {<< >>} \cup {<<f>> : f \in Facts}
          /\ deliveries' \in Seq(Accounts) /\ LastIsSo'
        BY <1>1, <1>2 DEF BuyerInv, BuyerTypes, LastIsSo, InTurn
    <2> QED
        BY <1>1, <1>2, <2>1, <2>2, <2>3, LeftAlone
<1>4. CASE ~(row = << >> \/ (stewards[p].kind = "group" /\ stewards[p].to # NoGroup
                              /\ ~GroupThere(stewards[p].to)))
    <2>1. row # << >> /\ row' = <<Written(p)>> /\ MovesTo(p, "reread")
        BY <1>4 DEF WriteRow
    <2>2. row[1] \in Row /\ (row[1].group = NoGroup \/ GroupThere(row[1].group))
        BY <1>2, <2>1, RowIs DEF BuyerTypes
    <2>3. /\ stewards[p].kind = "group" =>
               /\ stewards[p].to \in Group \cup {NoGroup}
               /\ stewards[p].to = NoGroup \/ GroupThere(stewards[p].to)
          /\ stewards[p].kind = "terms" => stewards[p].to \in {NoDays, 30}
        BY <1>1, <1>2, <1>4 DEF StewardTypes, DeedTyped
    <2>4. TagsWanted(p) \in SUBSET Tag
        BY <1>2 DEF TagsWanted, AtWork
    <2> DEFINE r == Written(p)
    <2>5. /\ r \in Row /\ (r.group = NoGroup \/ GroupThere(r.group))
          /\ r.deleted = row[1].deleted
          /\ r.tags = (IF stewards[p].kind = "terms" THEN row[1].tags ELSE TagsWanted(p))
        <3>1. CASE stewards[p].kind = "group"
            <4>1. r = [row[1] EXCEPT !.tags = TagsWanted(p), !.group = stewards[p].to]
                BY <3>1 DEF Written
            <4> HIDE DEF r
            <4> QED
                BY <2>2, <2>3, <2>4, <3>1, <4>1 DEF Row
        <3>2. CASE stewards[p].kind = "terms"
            <4>1. r = [row[1] EXCEPT !.days = stewards[p].to]
                BY <3>2 DEF Written
            <4> HIDE DEF r
            <4> QED
                BY <2>2, <2>3, <3>2, <4>1 DEF Row
        <3>3. CASE stewards[p].kind \notin {"group", "terms"}
            <4>1. r = [row[1] EXCEPT !.tags = TagsWanted(p)]
                BY <3>3 DEF Written
            <4> HIDE DEF r
            <4> QED
                BY <2>2, <2>4, <3>3, <4>1 DEF Row
        <3> QED
            BY <3>1, <3>2, <3>3
    <2>6. ASSUME StillSo(p)
          PROVE  /\ r.deleted = (account = << >>)
                 /\ account # << >> => r.tags = account[1]
                 /\ CheckoutKnows
        <3>1. /\ RowAgrees /\ CheckoutKnows
              /\ account # << >> =>
                   /\ stewards[p].tags = account[1] /\ stewards[p].add \subseteq account[1]
                   /\ stewards[p].remove \cap account[1] = {}
            BY <1>1, <2>6 DEF StillSo, Stands
        <3>2. account # << >> => TagsWanted(p) = account[1] /\ row[1].tags = account[1]
            BY <3>1 DEF TagsWanted, RowAgrees
        <3> QED
            BY <2>1, <2>5, <3>1, <3>2 DEF RowAgrees
    <2>7. row' = <<r>>
        BY <2>1
    <2> HIDE DEF r
    <2>8. stewards[p].kind # "hook"
        BY <1>1, <1>2 DEF StewardTypes, DeedTyped
    <2> QED
        BY <1>1, <1>2, <2>1, <2>5, <2>6, <2>7, <2>8, RowWritten
<1> QED
    BY <1>3, <1>4

LEMMA UpsertKept ==
    ASSUME BuyerInv, NEW p \in Steward, Upsert(p) PROVE BuyerInv'
<1>1. /\ stewards[p].at = "upsert" /\ MovesTo(p, "reread") /\ row' = upsertCustomer(p)
      /\ UNCHANGED <<climate, account, groupDays, published, deliveries, shopTurns>>
    BY DEF Upsert, Stands, tallies
<1>2. BuyerTypes /\ stewards[p] \in AtWork
    BY <1>1, DeedsAre DEF BuyerInv, StewardTypes
<1>3. PICK r \in Row : /\ row' = <<r>> /\ r.deleted = FALSE /\ r.tags = stewards[p].tags
                       /\ r.group = NoGroup \/ GroupThere(r.group)
    <2>1. stewards[p].tags \in SUBSET Tag
        BY <1>2 DEF AtWork
    <2>2. CASE row = << >>
        <3>1. NewRow(p) \in Row /\ NewRow(p).deleted = FALSE /\ NewRow(p).group = NoGroup
              /\ NewRow(p).tags = stewards[p].tags
            BY <2>1 DEF NewRow, Row
        <3> QED
            BY <1>1, <2>2, <3>1 DEF upsertCustomer
    <2>3. CASE row # << >>
        <3> DEFINE r == [row[1] EXCEPT !.tags = stewards[p].tags, !.deleted = FALSE]
        <3>1. row[1] \in Row /\ (row[1].group = NoGroup \/ GroupThere(row[1].group))
            BY <1>2, <2>3, RowIs DEF BuyerTypes
        <3>2. /\ r \in Row /\ r.deleted = FALSE /\ r.tags = stewards[p].tags
              /\ r.group = row[1].group
            BY <2>1, <3>1 DEF Row
        <3>3. row' = <<r>>
            BY <1>1, <2>3 DEF upsertCustomer
        <3> HIDE DEF r
        <3> QED
            BY <3>1, <3>2, <3>3
    <2> QED
        BY <2>2, <2>3
<1>4. StillSo(p) => /\ account # << >> /\ r.tags = account[1]
                    /\ stewards[p].kind # "hook" => CheckoutKnows
                    /\ stewards[p].tags = account[1]
    BY <1>1, <1>3 DEF StillSo, Stands
<1> QED
    BY <1>1, <1>2, <1>3, <1>4, RowWritten

LEMMA markCustomerDeletedKept ==
    ASSUME BuyerInv, NEW p \in Steward, markCustomerDeleted(p) PROVE BuyerInv'
<1>1. /\ stewards[p].at = "mark" /\ Leaves(p)
      /\ row' = IF row = << >> THEN row ELSE <<[row[1] EXCEPT !.deleted = TRUE]>>
      /\ UNCHANGED <<climate, account, groupDays, published, deliveries, shopTurns>>
    BY DEF markCustomerDeleted, Stands, tallies
<1>2. BuyerTypes /\ StewardTypes /\ LastIsSo
    BY DEF BuyerInv, StewardTypes
<1>3. /\ StewardTypes' /\ stewards'[p].at = "idle"
      /\ \A q \in Steward : q # p => stewards'[q] = stewards[q]
    BY <1>1, <1>2, Left
<1>4. \/ row = << >> /\ row' = << >>
      \/ /\ row' # << >> /\ row'[1] \in Row /\ row' = <<row'[1]>> /\ row'[1].deleted = TRUE
         /\ row'[1].group = NoGroup \/ GroupThere(row'[1].group)
    <2>1. CASE row # << >>
        <3> DEFINE r == [row[1] EXCEPT !.deleted = TRUE]
        <3>1. row[1] \in Row /\ (row[1].group = NoGroup \/ GroupThere(row[1].group))
            BY <1>2, <2>1, RowIs DEF BuyerTypes
        <3>2. r \in Row /\ r.deleted = TRUE /\ r.group = row[1].group
            BY <3>1 DEF Row
        <3>3. row' = <<r>>
            BY <1>1, <2>1
        <3> HIDE DEF r
        <3> QED
            BY <3>1, <3>2, <3>3
    <2> QED
        BY <1>1, <2>1
<1>5. BuyerTypes' /\ LastIsSo'
    BY <1>1, <1>2, <1>4 DEF BuyerTypes, LastIsSo, InTurn, GroupThere
<1>6. ASSUME InTurn, deliveries' = << >>
      PROVE  StillSo(p)' /\ RowAgrees' /\ CheckoutKnows'
    <2>1. account = << >>
        BY <1>1, <1>6, AloneAtIt DEF StillSo, Stands
    <2> QED
        BY <1>1, <1>3, <1>4, <2>1 DEF StillSo, Stands, RowAgrees, CheckoutKnows
<1> QED
    BY <1>1, <1>3, <1>5, <1>6, OneStepped DEF Stands

LEMMA FactsOfRows ==
    ASSUME BuyerTypes, row # << >>
    PROVE  factsOf(row[1]) \in Facts /\ factsOf(row[1]).tags = row[1].tags
<1>1. /\ row[1] \in Row /\ row[1].tags \in SUBSET Tag /\ row[1].group \in Group \cup {NoGroup}
      /\ row[1].days \in {NoDays, 30}
    BY RowIs DEF Row
<1>2. effectiveDays(row[1]) \in {NoDays, 30, 60}
    <2>1. CASE row[1].days # NoDays
        BY <1>1, <2>1 DEF effectiveDays
    <2>2. CASE row[1].days = NoDays /\ GroupThere(row[1].group)
        <3>1. PICK g \in Group : g = row[1].group /\ groupDays[g] # << >>
            BY <1>1, <2>2 DEF GroupThere
        <3>2. groupDays[g] \in {<<NoDays>>, <<60>>}
            BY <3>1 DEF BuyerTypes
        <3>3. groupDays[g][1] \in {NoDays, 60}
            BY <3>2
        <3> QED
            BY <2>2, <3>1, <3>3 DEF effectiveDays
    <2>3. CASE row[1].days = NoDays /\ ~GroupThere(row[1].group)
        BY <2>3 DEF effectiveDays
    <2> QED
        BY <2>1, <2>2, <2>3
<1> QED
    BY <1>1, <1>2 DEF factsOf, Facts

\* A webhook begun with what is so has it to be sent again.
LEMMA PayloadIs ==
    ASSUME StewardTypes, NEW p \in Steward, Stands(p, "reread")
    PROVE  /\ Payload(p) \in {<< >>} \cup { << <<tags>> >> : tags \in SUBSET Tag }
           /\ StillSo(p) /\ BuyerTypes /\ Payload(p) # << >> =>
                account # << >> /\ Payload(p) = <<account>>
<1>1. stewards[p].tags \in SUBSET Tag
    BY DeedsAre DEF Stands, AtWork
<1>2. StillSo(p) /\ BuyerTypes /\ stewards[p].kind = "hook" =>
        account # << >> /\ account = <<stewards[p].tags>>
    BY AccountIs DEF StillSo
<1> QED
    BY <1>1, <1>2 DEF Payload

LEMMA RereadKept ==
    ASSUME BuyerInv, NEW p \in Steward, Reread(p) PROVE BuyerInv'
<1>1. /\ stewards[p].at = "reread" /\ ~Stands(p, "idle") /\ Stands(p, "reread")
      /\ UNCHANGED <<climate, account, row, groupDays, published, shopTurns>>
    BY DEF Reread, Stands, tallies
<1>2. BuyerTypes /\ StewardTypes /\ LastIsSo
    BY DEF BuyerInv, StewardTypes
<1>3. StillSo(p) => RowAgrees /\ (stewards[p].kind # "hook" => CheckoutKnows)
    BY <1>1 DEF StillSo, Stands
<1>4. published' \in {<< >>} \cup {<<f>> : f \in Facts}
    BY <1>1, <1>2 DEF BuyerTypes
<1>5. CASE row = << >>
    <2>1. Leaves(p) /\ AnsweredFailed(Payload(p))
        BY <1>5 DEF Reread
    <2>2. InTurn /\ deliveries = << >> /\ Payload(p) # << >> => Payload(p) = <<account>>
        BY <1>1, <1>2, AloneAtIt, PayloadIs
    <2>3. /\ deliveries' \in Seq(Accounts) /\ LastIsSo'
          /\ deliveries' = << >> => deliveries = << >>
        BY <1>1, <1>2, <2>1, <2>2, PayloadIs, FailedComesAgain DEF AnsweredFailed
    <2>4. StillSo(p) => RowAgrees /\ CheckoutKnows'
        BY <1>1, <1>3, <1>5 DEF RowAgrees, CheckoutKnows
    <2> QED
        BY <1>1, <1>4, <2>1, <2>3, <2>4, LeftAlone
<1>6. CASE row # << >> /\ ~Targeted(p)
    <2>1. Leaves(p) /\ deliveries' = deliveries
        BY <1>6 DEF Reread
    <2>2. StillSo(p) => RowAgrees /\ CheckoutKnows'
        BY <1>1, <1>3, <1>6 DEF Targeted, RowAgrees, CheckoutKnows
    <2>3. deliveries' \in Seq(Accounts) /\ LastIsSo'
        BY <1>1, <1>2, <2>1 DEF BuyerTypes, LastIsSo, InTurn
    <2> QED
        BY <1>1, <1>4, <2>1, <2>2, <2>3, LeftAlone
<1>7. CASE row # << >> /\ Targeted(p)
    <2> DEFINE rec == [at |-> "publish", facts |-> factsOf(row[1]), again |-> Payload(p)]
    <2>1. stewards' = [stewards EXCEPT ![p] = rec] /\ deliveries' = deliveries
        BY <1>7 DEF Reread
    <2>2. /\ rec \in Publishing /\ rec.at = "publish" /\ rec.facts.tags = row[1].tags
          /\ rec.again = Payload(p)
        BY <1>1, <1>2, <1>7, FactsOfRows, PayloadIs DEF Publishing
    <2>3. /\ stewards' \in [Steward -> {Unoccupied} \cup AtWork \cup Publishing]
          /\ stewards'[p] = rec /\ \A q \in Steward : q # p => stewards'[q] = stewards[q]
        BY <1>2, <2>1, <2>2 DEF StewardTypes
    <2> HIDE DEF rec
    <2>4. StewardTypes'
        <3>1. ASSUME NEW q \in Steward PROVE DeedTyped(q)'
            <4>1. DeedTyped(q) /\ stewards'[q] \in {Unoccupied} \cup AtWork \cup Publishing
                BY <1>2, <2>3 DEF StewardTypes
            <4> QED
                BY <2>2, <2>3, <4>1 DEF DeedTyped
        <3> QED
            BY <2>3, <3>1 DEF StewardTypes
    <2>5. BuyerTypes' /\ LastIsSo'
        BY <1>1, <1>2, <2>1 DEF BuyerTypes, LastIsSo, InTurn, GroupThere
    <2>6. ASSUME InTurn, deliveries' = << >>
          PROVE  StillSo(p)' /\ ~Stands(p, "idle")'
        <3>1. StillSo(p) /\ RowAgrees /\ RowAgrees'
            BY <1>1, <1>3, <2>1, <2>6, AloneAtIt DEF RowAgrees
        <3>2. Payload(p) # << >> => Payload(p) = <<account>>
            BY <1>1, <1>2, <3>1, PayloadIs
        <3> QED
            BY <1>1, <2>2, <2>3, <3>1, <3>2 DEF StillSo, Stands, RowAgrees
    <2> QED
        BY <1>1, <2>3, <2>4, <2>5, <2>6, OneStepped
<1> QED
    BY <1>5, <1>6, <1>7

LEMMA PublishKept ==
    ASSUME BuyerInv, NEW p \in Steward, Publish(p) PROVE BuyerInv'
<1>1. /\ stewards[p].at = "publish" /\ ~Stands(p, "idle") /\ Leaves(p)
      /\ account # << >> /\ published' = <<stewards[p].facts>>
      /\ UNCHANGED <<climate, account, row, groupDays, deliveries, shopTurns>>
    BY DEF Publish, Stands, tallies
<1>2. BuyerTypes /\ LastIsSo /\ stewards[p].facts \in Facts
    BY <1>1, DeedsAre DEF BuyerInv, StewardTypes, Publishing
<1>3. /\ published' \in {<< >>} \cup {<<f>> : f \in Facts}
      /\ deliveries' \in Seq(Accounts) /\ LastIsSo'
    BY <1>1, <1>2 DEF BuyerTypes, LastIsSo, InTurn
<1>4. StillSo(p) => RowAgrees /\ CheckoutKnows'
    BY <1>1 DEF StillSo, Stands, CheckoutKnows
<1> QED
    BY <1>1, <1>3, <1>4, LeftAlone

LEMMA ShopifyRefusesKept ==
    ASSUME BuyerInv, NEW p \in Steward, ShopifyRefuses(p) PROVE BuyerInv'
<1>1. /\ stewards[p].at \in {"add", "remove", "publish"} /\ ~Stands(p, "idle") /\ Leaves(p)
      /\ "refused" \in climate \/ account = << >>
      /\ UNCHANGED <<climate, account, row, groupDays, published, shopTurns>>
    BY DEF ShopifyRefuses, Stands, tallies
<1>2. BuyerTypes /\ StewardTypes /\ LastIsSo
    BY DEF BuyerInv, StewardTypes
<1>3. published' \in {<< >>} \cup {<<f>> : f \in Facts}
    BY <1>1, <1>2 DEF BuyerTypes
<1>4. StillSo(p) => RowAgrees /\ CheckoutKnows'
    BY <1>1 DEF StillSo, Stands, CheckoutKnows
<1>5. /\ deliveries' \in Seq(Accounts) /\ LastIsSo'
      /\ deliveries' = << >> => deliveries = << >>
    <2>1. CASE Stands(p, "publish")
        <3>1. stewards[p].again \in {<< >>} \cup { << <<tags>> >> : tags \in SUBSET Tag }
            BY <1>2, <2>1, DeedsAre DEF Stands, Publishing
        <3>2. InTurn /\ deliveries = << >> /\ stewards[p].again # << >> =>
                stewards[p].again = <<account>>
            BY <2>1, AloneAtIt DEF StillSo
        <3>3. deliveries' \in {deliveries, stewards[p].again \o deliveries}
            BY <2>1 DEF ShopifyRefuses, AnsweredFailed
        <3> QED
            BY <1>1, <3>1, <3>2, <3>3, FailedComesAgain
    <2>2. CASE ~Stands(p, "publish")
        <3>1. deliveries' = deliveries
            BY <2>2 DEF ShopifyRefuses
        <3> QED
            BY <1>1, <1>2, <3>1 DEF BuyerTypes, LastIsSo, InTurn
    <2> QED
        BY <2>1, <2>2
<1> QED
    BY <1>1, <1>3, <1>4, <1>5, LeftAlone

-----------------------------------------------------------------------------
(* What happens beside the operations                                      *)

\* Shopify changes the buyer, and says so.
LEMMA ShopifyTurns ==
    ASSUME BuyerInv, UNCHANGED <<climate, row, groupDays, stewards>>,
           shopTurns' = shopTurns + 1, account' \in Accounts,
           published' \in {<< >>} \cup {<<f>> : f \in Facts},
           deliveries' \in Seq(Accounts), LastIsSo', deliveries' # << >>
    PROVE  BuyerInv'
<1>1. BuyerTypes'
    BY DEF BuyerInv, BuyerTypes, GroupThere
<1>2. \A p \in Steward : DeedTyped(p)'
    BY DEF BuyerInv, DeedTyped
<1>3. OneSteward' <=> OneSteward
    BY DEF OneSteward, Stands
<1> QED
    BY <1>1, <1>2, <1>3 DEF BuyerInv, InTurn

LEMMA ShopifyTagsKept == BuyerInv /\ ShopifyTags => BuyerInv'
<1> SUFFICES ASSUME BuyerInv, ShopifyTags PROVE BuyerInv'
    OBVIOUS
<1>1. PICK t \in Tag :
          ShopifyHas(IF t \in account[1] THEN account[1] \ {t} ELSE account[1] \cup {t})
    BY DEF ShopifyTags
<1>2. /\ account # << >> /\ shopTurns' = shopTurns + 1
      /\ UNCHANGED <<climate, row, groupDays, published, stewards>>
    BY DEF ShopifyTags
<1>3. account = <<account[1]>> /\ account[1] \in SUBSET Tag
    BY <1>2, AccountIs DEF BuyerInv
<1>4. PICK tags \in SUBSET Tag : ShopifyHas(tags) /\ tags # account[1]
    <2>1. CASE t \in account[1]
        <3>1. ShopifyHas(account[1] \ {t}) /\ account[1] \ {t} # account[1]
            BY <1>1, <2>1
        <3> QED
            BY <1>3, <3>1
    <2>2. CASE t \notin account[1]
        <3>1. ShopifyHas(account[1] \cup {t}) /\ account[1] \cup {t} # account[1]
            BY <1>1, <2>2
        <3> QED
            BY <1>3, <3>1
    <2> QED
        BY <2>1, <2>2
<1>5. /\ account' = <<tags>> /\ account' \in Accounts
      /\ deliveries' \in Seq(Accounts) /\ LastIsSo'
      /\ deliveries' = << >> => account' = account
    BY <1>2, <1>4, ShopifyTells DEF BuyerInv
<1>6. account' # account
    BY <1>3, <1>4, <1>5
<1>7. published' \in {<< >>} \cup {<<f>> : f \in Facts}
    BY <1>2 DEF BuyerInv, BuyerTypes
<1> QED
    BY <1>2, <1>5, <1>6, <1>7, ShopifyTurns

LEMMA ShopifyDeletesKept == BuyerInv /\ ShopifyDeletes => BuyerInv'
<1> SUFFICES ASSUME BuyerInv, ShopifyDeletes PROVE BuyerInv'
    OBVIOUS
<1>1. /\ account' = << >> /\ published' = << >> /\ deliveries' = Append(deliveries, << >>)
      /\ shopTurns' = shopTurns + 1 /\ UNCHANGED <<climate, row, groupDays, stewards>>
    BY DEF ShopifyDeletes
<1>2. << >> \in Accounts
    BY DEF Accounts
<1>3. deliveries' \in Seq(Accounts) /\ LastIsSo' /\ deliveries' # << >>
    BY <1>1, <1>2, Told DEF BuyerInv
<1> QED
    BY <1>1, <1>2, <1>3, ShopifyTurns

\* The row changes in what nobody agrees on, or goes with the account.
LEMMA RowTurns ==
    ASSUME BuyerInv, UNCHANGED <<climate, account, published, deliveries, stewards, shopTurns>>,
           BuyerTypes', RowAgrees => RowAgrees'
    PROVE  BuyerInv'
<1>1. (\A p \in Steward : DeedTyped(p)') /\ LastIsSo'
    BY DEF BuyerInv, DeedTyped, LastIsSo, InTurn
<1>2. OneSteward' <=> OneSteward
    BY DEF OneSteward, Stands
<1>3. CheckoutKnows' <=> CheckoutKnows
    BY DEF CheckoutKnows
<1>4. \A p \in Steward : StillSo(p) => StillSo(p)'
    BY <1>3 DEF StillSo, Stands
<1>5. Caught => Caught'
    BY <1>3, <1>4 DEF Caught, Stands
<1> QED
    BY <1>1, <1>2, <1>5 DEF BuyerInv, InTurn

LEMMA redactBuyerKept == BuyerInv /\ redactBuyer => BuyerInv'
<1> SUFFICES ASSUME BuyerInv, redactBuyer PROVE BuyerInv'
    OBVIOUS
<1>1. /\ account = << >> /\ row' = << >>
      /\ UNCHANGED <<climate, account, groupDays, published, deliveries, stewards, shopTurns>>
    BY DEF redactBuyer, tallies
<1>2. BuyerTypes' /\ RowAgrees'
    BY <1>1 DEF BuyerInv, BuyerTypes, RowAgrees
<1> QED
    BY <1>1, <1>2, RowTurns

LEMMA GroupsKept ==
    ASSUME BuyerInv, NEW g \in Group, createGroup(g) \/ updateGroup(g) \/ deleteGroup(g)
    PROVE  BuyerInv'
<1>1. BuyerTypes /\ UNCHANGED <<climate, account, published, deliveries, stewards, shopTurns>>
    BY DEF BuyerInv, createGroup, updateGroup, deleteGroup
<1>2. CASE createGroup(g) \/ updateGroup(g)
    <2>1. PICK days \in {NoDays, 60} : groupDays' = [groupDays EXCEPT ![g] = <<days>>]
        BY <1>2 DEF createGroup, updateGroup, NoDays
    <2>2. /\ row' = row
          /\ groupDays' \in [Group -> {<< >>, <<NoDays>>, <<60>>}]
          /\ groupDays'[g] # << >>
          /\ \A h \in Group : h # g => groupDays'[h] = groupDays[h]
        BY <1>1, <1>2, <2>1 DEF createGroup, updateGroup, BuyerTypes
    <2>3. (row # << >> => row[1].group = NoGroup \/ GroupThere(row[1].group))'
        <3>1. row # << >> =>
                row[1].group = NoGroup \/ (row[1].group \in Group /\ GroupThere(row[1].group))
            BY <1>1, RowIs DEF BuyerTypes
        <3> QED
            BY <2>2, <3>1 DEF GroupThere
    <2>4. BuyerTypes'
        BY <1>1, <2>2, <2>3 DEF BuyerTypes
    <2> QED
        BY <1>1, <2>2, <2>4, RowTurns DEF RowAgrees
<1>3. CASE deleteGroup(g)
    <2>1. PICK to \in Group \cup {NoGroup} :
              to # g /\ (to # NoGroup => GroupThere(to)) /\ row' = MembersMove(g, to)
        BY <1>3 DEF deleteGroup
    <2>2. groupDays' = [groupDays EXCEPT ![g] = << >>]
        BY <1>3 DEF deleteGroup
    <2>3. /\ groupDays' \in [Group -> {<< >>, <<NoDays>>, <<60>>}]
          /\ \A h \in Group : h # g => groupDays'[h] = groupDays[h]
        BY <1>1, <2>2 DEF BuyerTypes
    <2>4. CASE row = << >>
        <3>1. row' = << >>
            BY <2>1, <2>4 DEF MembersMove
        <3>2. BuyerTypes'
            BY <1>1, <2>3, <3>1 DEF BuyerTypes
        <3> QED
            BY <1>1, <2>4, <3>1, <3>2, RowTurns DEF RowAgrees
    <2>5. CASE row # << >>
        <3>1. /\ row[1] \in Row /\ row[1].group \in Group \cup {NoGroup}
              /\ row[1].group = NoGroup \/ GroupThere(row[1].group)
            BY <1>1, <2>5, RowIs DEF BuyerTypes
        <3>2. PICK r \in Row : /\ row' = <<r>> /\ r.tags = row[1].tags
                               /\ r.deleted = row[1].deleted
                               /\ r.group = (IF row[1].group = g THEN to ELSE row[1].group)
            <4>1. CASE row[1].group = g
                <5> DEFINE r == [row[1] EXCEPT !.group = to]
                <5>1. row' = <<r>>
                    BY <2>1, <2>5, <4>1 DEF MembersMove
                <5>2. r \in Row /\ r.tags = row[1].tags /\ r.deleted = row[1].deleted
                      /\ r.group = to
                    BY <3>1 DEF Row
                <5> HIDE DEF r
                <5> QED
                    BY <4>1, <5>1, <5>2
            <4>2. CASE row[1].group # g
                <5>1. row' = <<row[1]>>
                    BY <1>1, <2>1, <2>5, <4>2, RowIs DEF MembersMove
                <5> QED
                    BY <3>1, <4>2, <5>1
            <4> QED
                BY <4>1, <4>2
        <3>3. r.group = NoGroup \/ GroupThere(r.group)'
            <4>1. r.group = NoGroup \/ (r.group \in Group /\ r.group # g /\ GroupThere(r.group))
                BY <2>1, <3>1, <3>2
            <4> QED
                BY <2>3, <4>1 DEF GroupThere
        <3>4. BuyerTypes'
            BY <1>1, <2>3, <3>2, <3>3 DEF BuyerTypes
        <3>5. RowAgrees => RowAgrees'
            BY <1>1, <2>5, <3>2 DEF RowAgrees
        <3> QED
            BY <1>1, <3>4, <3>5, RowTurns
    <2> QED
        BY <2>4, <2>5
<1> QED
    BY <1>2, <1>3

-----------------------------------------------------------------------------
(* What is known of a buyer                                                *)

LEMMA BuyerInitially == CustomersInit => BuyerInv
<1> SUFFICES ASSUME CustomersInit PROVE BuyerInv
    OBVIOUS
<1>1. /\ account = <<{}>> /\ deliveries = <<account>> /\ row = << >> /\ published = << >>
      /\ groupDays = [g \in Group |-> <<60>>] /\ stewards = [p \in Steward |-> Unoccupied]
      /\ climate \in Climates /\ shopTurns = 0
    BY DEF CustomersInit
<1>2. account \in Accounts /\ deliveries \in Seq(Accounts) /\ deliveries # << >> /\ LastIsSo
    <2>1. account \in Accounts
        BY <1>1 DEF Accounts
    <2>2. Len(deliveries) = 1 /\ deliveries[1] = account
        BY <1>1
    <2> QED
        BY <1>1, <2>1, <2>2 DEF LastIsSo, InTurn
<1>3. BuyerTypes
    BY <1>1, <1>2 DEF BuyerTypes
<1>4. \A p \in Steward : stewards[p] = Unoccupied /\ stewards[p].at = "idle"
    BY <1>1 DEF Unoccupied
<1>5. \A p \in Steward : DeedTyped(p)
    BY <1>4 DEF DeedTyped
<1>6. OneSteward
    BY <1>4 DEF OneSteward, Stands
<1> QED
    BY <1>1, <1>2, <1>3, <1>5, <1>6 DEF BuyerInv

LEMMA BuyerStep == BuyerInv /\ [CustomersNext]_customersVars => BuyerInv'
<1> SUFFICES ASSUME BuyerInv, [CustomersNext]_customersVars PROVE BuyerInv'
    OBVIOUS
<1>1. CASE UNCHANGED customersVars
    <2>1. UNCHANGED <<climate, account, row, groupDays, published, deliveries, stewards,
                      shopTurns>>
        BY <1>1 DEF customersVars, tallies
    <2>2. BuyerTypes'
        BY <2>1 DEF BuyerInv, BuyerTypes, GroupThere
    <2> QED
        BY <2>1, <2>2, RowTurns DEF RowAgrees
<1>2. ASSUME NEW p \in Steward, DeedBegins(p) \/ DeedGoesOn(p) PROVE BuyerInv'
    BY <1>2, changeGroupKept, setTagsKept, setTermsKept, runTagSweepKept, BackfillReadsKept,
        HookTakesKept, AddTagsKept, RemoveTagsKept, WriteRowKept, UpsertKept,
        markCustomerDeletedKept, RereadKept, PublishKept, ShopifyRefusesKept
        DEF DeedBegins, DeedGoesOn
<1> QED
    BY <1>1, <1>2, ShopifyTagsKept, ShopifyDeletesKept, redactBuyerKept, GroupsKept
        DEF CustomersNext

LEMMA BuyerInvariant == CustomersSpec => []BuyerInv
BY BuyerInitially, BuyerStep, PTL DEF CustomersSpec

\* The state of the customers keeps its types, and no row is in a group that
\* is gone (Customers, deleteGroup of app/lib/customers/groups.server.ts).
THEOREM CustomerTypesHold == CustomersSpec => []CustomersTypeOK
<1>1. ASSUME BuyerInv PROVE CustomersTypeOK
    <2>1. account = << >> \/ \E tags \in SUBSET Tag : account = <<tags>>
        BY <1>1 DEF BuyerInv, BuyerTypes, Accounts
    <2>2. row = << >> \/ (row[1] \in Row /\ (row[1].group = NoGroup \/ GroupThere(row[1].group)))
        BY <1>1, RowIs DEF BuyerInv, BuyerTypes
    <2>3. published = << >> \/ published[1] \in Facts
        BY <1>1 DEF BuyerInv, BuyerTypes
    <2>4. \A p \in Steward : Stands(p, "idle") \/ stewards[p].facts \in Facts
        BY <1>1, FactsAre DEF BuyerInv, Stands, Unoccupied, AtWork, Publishing
    <2> QED
        BY <1>1, <2>1, <2>2, <2>3, <2>4 DEF CustomersTypeOK, BuyerInv, BuyerTypes
<1> QED
    BY <1>1, BuyerInvariant, PTL

\* However many tags, groups and operations there are, when every delivery was
\* handled and nobody is at work the row has Shopify's tags and knows whether
\* the buyer is there, and checkout has the row's tags
\* (webhooks/handlers/customers-upsert.server.ts:42-53): where operations run
\* one at a time and the webhooks are taken in the order of what they tell, one
\* that failed before the next, and, for checkout, Shopify refuses no call.
THEOREM BuyersComeToAgree == CustomersSpec => []BuyerAgrees
<1>1. ASSUME BuyerInv PROVE BuyerAgrees
    <2> SUFFICES ASSUME NobodyBusy, row # << >>, InTurn
                 PROVE  /\ row[1].deleted = (account = << >>)
                        /\ account # << >> => row[1].tags = account[1]
                        /\ account # << >> /\ "refused" \notin climate =>
                             published # << >> /\ published[1].tags = row[1].tags
        BY DEF BuyerAgrees, InTurn
    <2>1. RowAgrees /\ CheckoutKnows
        BY <1>1 DEF NobodyBusy, BuyerInv, Caught
    <2> QED
        BY <2>1 DEF RowAgrees, CheckoutKnows
<1> QED
    BY <1>1, BuyerInvariant, PTL

\* No operation takes a tag away in Shopify that it did not read there, but
\* for that of the group the buyer leaves: what another app put on a buyer in
\* the meantime stays (applyTagChange, admin-graphql.server.ts:197-203).
THEOREM TagsOfOthersSurvive == CustomersSpec => OthersTagsSurvive
<1> DEFINE Taken(t) == \E p \in Steward :
               /\ Stands(p, "remove")
               /\ t \in stewards[p].tags \/ (stewards[p].kind = "group" /\ t \in stewards[p].remove)
           Spared == account # << >> /\ account' # << >> /\ shopTurns' = shopTurns =>
                         \A t \in account[1] \ account'[1] : Taken(t)
<1>1. ASSUME BuyerInv, [CustomersNext]_customersVars PROVE Spared
    <2> SUFFICES ASSUME account # << >>, account' # << >>, shopTurns' = shopTurns,
                        NEW t \in account[1] \ account'[1]
                 PROVE  Taken(t)
        OBVIOUS
    <2>1. shopTurns' # shopTurns + 1
        BY <1>1 DEF BuyerInv, BuyerTypes
    <2>2. PICK p \in Steward : AddTags(p) \/ RemoveTags(p)
        <3>1. account' # account
            OBVIOUS
        <3>2. CustomersNext
            BY <1>1, <3>1 DEF customersVars
        <3>3. ~ShopifyTags /\ ~ShopifyDeletes /\ ~redactBuyer
            BY <2>1, <3>1 DEF ShopifyTags, ShopifyDeletes, redactBuyer
        <3>4. ASSUME NEW g \in Group PROVE ~(createGroup(g) \/ updateGroup(g) \/ deleteGroup(g))
            BY <3>1 DEF createGroup, updateGroup, deleteGroup
        <3>5. ASSUME NEW p \in Steward PROVE ~DeedBegins(p)
            BY <3>1 DEF DeedBegins, changeGroup, setTags, setTerms, runTagSweep, BackfillReads,
                HookTakes, BeginDeed
        <3>6. ASSUME NEW p \in Steward, DeedGoesOn(p) PROVE AddTags(p) \/ RemoveTags(p)
            BY <3>1, <3>6 DEF DeedGoesOn, WriteRow, Upsert, markCustomerDeleted, Reread, Publish,
                ShopifyRefuses
        <3> QED
            BY <3>2, <3>3, <3>4, <3>5, <3>6 DEF CustomersNext
    <2>3. CASE AddTags(p)
        <3>1. account' = account \/ account' = <<account[1] \cup stewards[p].add>>
            BY <2>3 DEF AddTags, tagsAdd, ShopifyHas
        <3> QED
            BY <3>1
    <2>4. CASE RemoveTags(p)
        <3>1. account' = account \/ account' = <<account[1] \ stewards[p].remove>>
            BY <2>4 DEF RemoveTags, tagsRemove, ShopifyHas
        <3>2. t \in stewards[p].remove
            BY <3>1
        <3>3. Stands(p, "remove") /\ DeedTyped(p)
            BY <1>1, <2>4 DEF RemoveTags, BuyerInv
        <3> QED
            BY <3>2, <3>3 DEF DeedTyped, Stands
    <2> QED
        BY <2>2, <2>3, <2>4
<1>2. BuyerInv /\ [CustomersNext]_customersVars => [Spared]_customersVars
    BY <1>1
<1>3. CustomersSpec => [][Spared]_customersVars
    <2> HIDE DEF Spared
    <2> QED
        BY <1>2, BuyerInvariant, PTL DEF CustomersSpec
<1> QED
    BY <1>3 DEF OthersTagsSurvive

(***************************************************************************)
(* One buyer is forgotten.  What a statement takes stays taken, so what is *)
(* gone when a request is at a statement is gone for all; and whoever goes *)
(* by a row that another has deleted has seen it, or finds nothing by it.  *)
(***************************************************************************)
Four == {"customer", "application", "order", "quote"}
RowAreas == {"application", "customer"}

AfterAbout == {"actor", "words", "data", "stored", "marks"}
AfterFour == {"about"} \cup AfterAbout
AfterConversations == {"together"} \cup AfterFour
AfterMessages == {"conversations"} \cup AfterConversations
AfterUploads == {"messages"} \cup AfterMessages

Had == Found(trace)
Has == Found(held)

Gone(area) == \A p \in held \cap Theirs : p.area # area
EntriesGone(of) == \A p \in held : p.area = "about" => p.of # of
Blotted(area) == \A p \in held \cap Theirs : p.area = area => "EMAIL" \in p.by

RedTypes ==
    /\ trace \in Traces /\ person \in Persons /\ held \subseteq trace
    /\ stage \in [Courier -> Stages]
    /\ seen \in [Courier -> SUBSET RowAreas]
    /\ together \in [Courier -> SUBSET Four]
    /\ redacted \in BOOLEAN /\ deaths \in 0 .. MaxDeaths

\* What is gone when a request is at a statement.
GoneAt(d) ==
    /\ stage[d] \in AfterUploads => Gone("upload")
    /\ stage[d] \in AfterMessages => Gone("message")
    /\ stage[d] \in AfterConversations => Gone("conversation")
    /\ stage[d] = "together" => \A area \in Four \ together[d] : Gone(area)
    /\ stage[d] \in AfterFour => \A area \in Four : Gone(area)
    /\ stage[d] \in AfterAbout /\ "id" \in person => EntriesGone("account")
    /\ stage[d] \in {"words", "data", "stored", "marks"} => Gone("actor")
    /\ stage[d] \in {"data", "stored", "marks"} => Gone("words")
    /\ stage[d] \in {"stored", "marks"} => Blotted("data")
    /\ stage[d] = "marks" => Blotted("review")

AllGone ==
    /\ \A area \in Own \cup {"actor", "words"} : Gone(area)
    /\ "id" \in person => EntriesGone("account")
    /\ Blotted("data") /\ Blotted("review")

\* A row that is no longer there was seen by whoever goes by it.
RowsSeen ==
    /\ \A d \in Courier : stage[d] # "idle" => Has \subseteq seen[d]
    /\ "application" \in Had \ Has => Gone("upload") /\ Gone("message")

EntriesFollow ==
    \A of \in Had \ Has :
        \/ EntriesGone(of)
        \/ \E d \in Courier : of \in seen[d] /\ stage[d] \in {"together", "about"}

RedInv ==
    /\ RedTypes
    /\ \A d \in Courier : GoneAt(d)
    /\ redacted => AllGone
    /\ RowsSeen
    /\ deaths = 0 => EntriesFollow

LEMMA PiecesAre ==
    ASSUME RedTypes
    PROVE  trace \subseteq Pieces /\ held \subseteq Pieces /\ person \subseteq {"id", "email"}
<1>1. trace \in SUBSET Pieces /\ person \in SUBSET {"id", "email"}
      BY RedactionAssumption DEF RedTypes
<1>. QED  BY <1>1 DEF RedTypes

LEMMA TheirPieces ==
    ASSUME RedTypes, NEW p \in held \cap Theirs
    PROVE  /\ p \in Pieces
           /\ p.area \notin {"upload", "about", "message"} => Carries(p)
           /\ p.area = "upload" => "application" \in Had
           /\ p.area = "message" => \/ Carries(p)
                                    \/ p.of = "application" /\ "application" \in Had
           /\ p.area = "about" => \/ p.of = "account" /\ "id" \in person
                                  \/ p.of \in Had
<1>1. p \in Pieces /\ p \in trace /\ trace \subseteq Pieces  BY PiecesAre DEF Theirs
<1>2. \/ Carries(p)
      \/ p.of = "account" /\ "id" \in person
      \/ \E q \in trace : q.area = p.of /\ Carries(q)
      BY DEF Theirs
<1>3. ASSUME NEW q \in trace, q.area = p.of, Carries(q)
      PROVE  p.of \notin {"none", "account"} /\ (p.of \in RowAreas => p.of \in Had)
      <2>1. q \in Pieces  BY <1>1
      <2>2. q.area \notin {"none", "account"}  BY <2>1 DEF Pieces
      <2>3. q \in Rows(q.area, trace)  BY <1>3 DEF Rows
      <2>. QED  BY <1>3, <2>2, <2>3 DEF Had, Found, RowAreas
<1>4. p.area \notin {"upload", "about", "message"} => p.of = "none"  BY <1>1 DEF Pieces
<1>5. p.area = "message" => p.of \in {"none", "application"}  BY <1>1 DEF Pieces
<1>6. p.area = "upload" => p.of = "application" /\ p.by = {}  BY <1>1 DEF Pieces
<1>7. p.area = "about" => p.of \in RowAreas \cup {"account"} /\ p.by = {}
      BY <1>1 DEF Pieces, RowAreas
<1>8. p.by = {} => ~Carries(p)  BY DEF Carries
<1>9. \/ Carries(p)
      \/ p.of = "account" /\ "id" \in person
      \/ p.of \notin {"none", "account"} /\ (p.of \in RowAreas => p.of \in Had)
      BY <1>2, <1>3
<1>10. p.area \notin {"upload", "about", "message"} => Carries(p)  BY <1>4, <1>9
<1>11. p.area = "message" => \/ Carries(p)
                             \/ p.of = "application" /\ "application" \in Had
       BY <1>5, <1>9 DEF RowAreas
<1>12. p.area = "upload" => "application" \in Had  BY <1>6, <1>8, <1>9 DEF RowAreas
<1>13. p.area = "about" => \/ p.of = "account" /\ "id" \in person
                           \/ p.of \in Had
       BY <1>7, <1>8, <1>9
<1>14. p \in Pieces  BY <1>1
<1>. QED  BY <1>10, <1>11, <1>12, <1>13, <1>14

\* Nothing comes back.
LEMMA Shrinks ==
    ASSUME held' \subseteq held, trace' = trace, person' = person
    PROVE  /\ Theirs' = Theirs /\ Had' = Had /\ Has' \subseteq Has
           /\ \A area : (Gone(area) => Gone(area)')
           /\ \A area : (EntriesGone(area) => EntriesGone(area)')
           /\ \A area : (Blotted(area) => Blotted(area)')
<1>1. Theirs' = Theirs  BY DEF Theirs, Carries
<1>2. Had' = Had  BY DEF Had, Found, Rows, Carries
<1>3. Has' \subseteq Has  BY DEF Has, Found, Rows, Carries
<1>4. \A area : (Gone(area) => Gone(area)')  BY <1>1 DEF Gone
<1>5. \A area : (EntriesGone(area) => EntriesGone(area)')  BY DEF EntriesGone
<1>6. \A area : (Blotted(area) => Blotted(area)')  BY <1>1 DEF Blotted
<1>. QED  BY <1>1, <1>2, <1>3, <1>4, <1>5, <1>6

LEMMA RowsStay ==
    ASSUME held' \subseteq held, person' = person,
           \A p \in held \ held' : p.area \notin RowAreas
    PROVE  Has' = Has
BY DEF Has, Found, Rows, Carries, RowAreas

\* What is gone stays gone for a request that does not move.
LEMMA GoneStays ==
    ASSUME held' \subseteq held, trace' = trace, person' = person,
           NEW d \in Courier, GoneAt(d), stage'[d] = stage[d], together'[d] = together[d]
    PROVE  GoneAt(d)'
<1>. USE Shrinks
<1>1. /\ stage'[d] \in AfterUploads => Gone("upload")'
      /\ stage'[d] \in AfterMessages => Gone("message")'
      /\ stage'[d] \in AfterConversations => Gone("conversation")'
      BY DEF GoneAt
<1>2. stage'[d] = "together" => \A area \in Four \ together'[d] : Gone(area)'
      BY DEF GoneAt
<1>3. stage'[d] \in AfterFour => \A area \in Four : Gone(area)'
      BY DEF GoneAt
<1>4. stage'[d] \in AfterAbout /\ "id" \in person' => EntriesGone("account")'
      BY DEF GoneAt
<1>5. /\ stage'[d] \in {"words", "data", "stored", "marks"} => Gone("actor")'
      /\ stage'[d] \in {"data", "stored", "marks"} => Gone("words")'
      BY DEF GoneAt
<1>6. /\ stage'[d] \in {"stored", "marks"} => Blotted("data")'
      /\ stage'[d] = "marks" => Blotted("review")'
      BY DEF GoneAt
<1>. QED  BY <1>1, <1>2, <1>3, <1>4, <1>5, <1>6 DEF GoneAt

LEMMA AllStaysGone ==
    ASSUME held' \subseteq held, trace' = trace, person' = person, AllGone
    PROVE  AllGone'
<1>. USE Shrinks
<1>1. \A area \in Own \cup {"actor", "words"} : Gone(area)'  BY DEF AllGone
<1>2. "id" \in person' => EntriesGone("account")'  BY DEF AllGone
<1>3. Blotted("data")' /\ Blotted("review")'  BY DEF AllGone
<1>. QED  BY <1>1, <1>2, <1>3 DEF AllGone

\* A request that goes by a row has seen it, or finds nothing by it.
LEMMA SeenOrGone ==
    ASSUME RedInv, NEW d \in Courier, stage[d] # "idle"
    PROVE  \/ "application" \in seen[d]
           \/ "application" \notin Had
           \/ Gone("upload") /\ Gone("message")
BY DEF RedInv, RowsSeen

-----------------------------------------------------------------------------
LEMMA UploadsTaken ==
    ASSUME RedInv, NEW d \in Courier, stage[d] # "idle", trace' = trace, person' = person,
           held' = held \ Uploads(held, seen[d])
    PROVE  Gone("upload")'
<1>t. RedTypes  BY DEF RedInv
<1>1. Theirs' = Theirs  BY Shrinks
<1>2. ASSUME NEW p \in held' \cap Theirs', p.area = "upload" PROVE FALSE
      <2>1. p \in held \cap Theirs /\ p \notin Uploads(held, seen[d])  BY <1>1, <1>2
      <2>2. "application" \notin seen[d]  BY <2>1, <1>2 DEF Uploads
      <2>3. "application" \in Had  BY <2>1, <1>2, <1>t, TheirPieces
      <2>4. Gone("upload")  BY <2>2, <2>3, SeenOrGone
      <2>. QED  BY <2>1, <2>4, <1>2 DEF Gone
<1>. QED  BY <1>2 DEF Gone

LEMMA MessagesTaken ==
    ASSUME RedInv, NEW d \in Courier, stage[d] # "idle", trace' = trace, person' = person,
           held' = held \ Messages(held, seen[d])
    PROVE  Gone("message")'
<1>t. RedTypes  BY DEF RedInv
<1>1. Theirs' = Theirs  BY Shrinks
<1>2. ASSUME NEW p \in held' \cap Theirs', p.area = "message" PROVE FALSE
      <2>1. p \in held \cap Theirs /\ p \notin Messages(held, seen[d])  BY <1>1, <1>2
      <2>2. p \in Pieces  BY <2>1, <1>t, TheirPieces
      <2>3. p.by \subseteq {"email", "EMAIL"} /\ p.of \in {"none", "application"}
            BY <2>2, <1>2 DEF Pieces
      <2>4. ~CarriesAddress(p)  BY <2>1, <1>2 DEF Messages
      <2>5. ~Carries(p)  BY <2>3, <2>4 DEF Carries, CarriesAddress
      <2>6. p.of = "application" /\ "application" \in Had
            BY <2>1, <2>3, <2>5, <1>2, <1>t, TheirPieces
      <2>7. "application" \notin seen[d]  BY <2>1, <2>6, <1>2 DEF Messages
      <2>8. Gone("message")  BY <2>6, <2>7, SeenOrGone
      <2>. QED  BY <2>1, <2>8, <1>2 DEF Gone
<1>. QED  BY <1>2 DEF Gone

LEMMA ConversationsTaken ==
    ASSUME RedInv, trace' = trace, person' = person, held' = held \ Conversations(held)
    PROVE  Gone("conversation")'
<1>t. RedTypes  BY DEF RedInv
<1>1. Theirs' = Theirs  BY Shrinks
<1>2. ASSUME NEW p \in held' \cap Theirs', p.area = "conversation" PROVE FALSE
      <2>1. p \in held \cap Theirs /\ p \notin Conversations(held)  BY <1>1, <1>2
      <2>2. p \in Pieces /\ Carries(p)  BY <2>1, <1>2, <1>t, TheirPieces
      <2>3. p.by \subseteq {"id"}  BY <2>2, <1>2 DEF Pieces
      <2>4. CarriesId(p)  BY <2>2, <2>3 DEF Carries, CarriesId
      <2>. QED  BY <2>1, <2>4, <1>2 DEF Conversations
<1>. QED  BY <1>2 DEF Gone

LEMMA RowsTaken ==
    ASSUME RedInv, NEW area \in Four \cup {"actor"}, trace' = trace, person' = person,
           held' \subseteq held, held' \cap Rows(area, held) = {}
    PROVE  Gone(area)'
<1>t. RedTypes  BY DEF RedInv
<1>1. Theirs' = Theirs  BY Shrinks
<1>2. ASSUME NEW p \in held' \cap Theirs', p.area = area PROVE FALSE
      <2>1. p \in held \cap Theirs /\ p \notin Rows(area, held)  BY <1>1, <1>2
      <2>2. Carries(p)
            <3>1. p.area \notin {"upload", "about", "message"}  BY <1>2 DEF Four
            <3>. QED  BY <2>1, <3>1, <1>t, TheirPieces
      <2>. QED  BY <2>1, <2>2, <1>2 DEF Rows
<1>. QED  BY <1>2 DEF Gone

LEMMA WordsTaken ==
    ASSUME RedInv, trace' = trace, person' = person, held' = held \ InWords(held)
    PROVE  Gone("words")'
<1>t. RedTypes  BY DEF RedInv
<1>1. Theirs' = Theirs  BY Shrinks
<1>2. ASSUME NEW p \in held' \cap Theirs', p.area = "words" PROVE FALSE
      <2>1. p \in held \cap Theirs /\ p \notin InWords(held)  BY <1>1, <1>2
      <2>2. p \in Pieces /\ Carries(p)  BY <2>1, <1>2, <1>t, TheirPieces
      <2>3. p.by \subseteq {"email", "EMAIL"}  BY <2>2, <1>2 DEF Pieces
      <2>4. CarriesAddress(p)  BY <2>2, <2>3 DEF Carries, CarriesAddress
      <2>. QED  BY <2>1, <2>4, <1>2 DEF InWords
<1>. QED  BY <1>2 DEF Gone

LEMMA DataTaken ==
    ASSUME RedInv, trace' = trace, person' = person, held' = held \ InData(held)
    PROVE  Blotted("data")'
<1>t. RedTypes  BY DEF RedInv
<1>1. Theirs' = Theirs  BY Shrinks
<1>2. ASSUME NEW p \in held' \cap Theirs', p.area = "data", "EMAIL" \notin p.by PROVE FALSE
      <2>1. p \in held \cap Theirs /\ p \notin InData(held)  BY <1>1, <1>2
      <2>2. p \in Pieces /\ Carries(p)  BY <2>1, <1>2, <1>t, TheirPieces
      <2>3. p.by \subseteq {"email", "EMAIL"}  BY <2>2, <1>2 DEF Pieces
      <2>4. "email" \in person \cap p.by  BY <2>2, <2>3, <1>2 DEF Carries
      <2>. QED  BY <2>1, <2>4, <1>2 DEF InData
<1>. QED  BY <1>2 DEF Blotted

LEMMA StoredTaken ==
    ASSUME RedInv, trace' = trace, person' = person, held' = held \ StoredFacts(held)
    PROVE  Blotted("review")'
<1>t. RedTypes  BY DEF RedInv
<1>1. Theirs' = Theirs  BY Shrinks
<1>2. ASSUME NEW p \in held' \cap Theirs', p.area = "review", "EMAIL" \notin p.by PROVE FALSE
      <2>1. p \in held \cap Theirs /\ p \notin StoredFacts(held)  BY <1>1, <1>2
      <2>2. p \in Pieces /\ Carries(p)  BY <2>1, <1>2, <1>t, TheirPieces
      <2>4. person \cap p.by # {}  BY <2>2, <1>2 DEF Carries
      <2>. QED  BY <2>1, <2>4, <1>2 DEF StoredFacts
<1>. QED  BY <1>2 DEF Blotted

LEMMA EntriesTaken ==
    ASSUME NEW rows, trace' = trace, person' = person, held' = held \ AboutThem(held, rows)
    PROVE  /\ "id" \in person' => EntriesGone("account")'
           /\ \A of \in rows : EntriesGone(of)'
BY DEF AboutThem, EntriesGone

-----------------------------------------------------------------------------
\* A statement that deletes no row others go by.
LEMMA StatementKept ==
    ASSUME RedInv, NEW d \in Courier, NEW from, NEW pieces, NEW to,
           Takes(d, from, pieces, to), from # "idle",
           to \in Stages \ {"idle", "together", "about"},
           \A p \in held \cap pieces : p.area \notin RowAreas, GoneAt(d)',
           from \in {"together", "about"} => \A of \in seen[d] : EntriesGone(of)'
    PROVE  RedInv'
<1>t. RedTypes  BY DEF RedInv
<1>e. /\ trace' = trace /\ person' = person /\ seen' = seen /\ together' = together
      /\ redacted' = redacted /\ deaths' = deaths /\ held' = held \ pieces
      /\ stage[d] = from /\ stage' = [stage EXCEPT ![d] = to]
      BY DEF Takes
<1>s. /\ stage'[d] = to /\ \A e \in Courier \ {d} : stage'[e] = stage[e]
      /\ stage' \in [Courier -> Stages]
      BY <1>t, <1>e DEF RedTypes
<1>h. held' \subseteq held  BY <1>e
<1>1. RedTypes'
      <2>1. held' \subseteq trace'  BY <1>t, <1>e DEF RedTypes
      <2>. QED  BY <1>t, <1>e, <1>s, <2>1 DEF RedTypes
<1>2. ASSUME NEW e \in Courier PROVE GoneAt(e)'
      <2>1. CASE e = d  BY <2>1
      <2>2. CASE e # d
            <3>1. GoneAt(e)  BY DEF RedInv
            <3>2. stage'[e] = stage[e] /\ together'[e] = together[e]  BY <2>2, <1>e, <1>s
            <3>. QED  BY <1>e, <1>h, <3>1, <3>2, GoneStays
      <2>. QED  BY <2>1, <2>2
<1>3. redacted' => AllGone'  BY <1>e, <1>h, AllStaysGone DEF RedInv
<1>r. Has' = Has /\ Had' = Had
      <2>1. \A p \in held \ held' : p.area \notin RowAreas  BY <1>e
      <2>. QED  BY <2>1, <1>e, <1>h, RowsStay, Shrinks
<1>4. RowsSeen'
      <2>1. RowsSeen  BY DEF RedInv
      <2>2. \A e \in Courier : stage'[e] # "idle" => Has' \subseteq seen'[e]
            BY <2>1, <1>e, <1>r, <1>s DEF RowsSeen
      <2>3. ("application" \in Had \ Has => Gone("upload") /\ Gone("message"))'
            BY <2>1, <1>e, <1>h, <1>r, Shrinks DEF RowsSeen
      <2>. QED  BY <2>2, <2>3 DEF RowsSeen
<1>5. ASSUME deaths' = 0 PROVE EntriesFollow'
      <2>1. EntriesFollow  BY <1>5, <1>e DEF RedInv
      <2>2. ASSUME NEW of \in Had' \ Has'
            PROVE  \/ EntriesGone(of)'
                   \/ \E e \in Courier : of \in seen'[e] /\ stage'[e] \in {"together", "about"}
            <3>1. CASE EntriesGone(of)  BY <3>1, <1>e, <1>h, Shrinks
            <3>2. CASE \E e \in Courier : of \in seen[e] /\ stage[e] \in {"together", "about"}
                  <4>1. PICK e \in Courier : of \in seen[e] /\ stage[e] \in {"together", "about"}
                        BY <3>2
                  <4>2. CASE e = d  BY <4>1, <4>2, <1>e
                  <4>3. CASE e # d  BY <4>1, <4>3, <1>e, <1>s
                  <4>. QED  BY <4>2, <4>3
            <3>. QED  BY <2>1, <2>2, <1>r, <3>1, <3>2 DEF EntriesFollow
      <2>. QED  BY <2>2 DEF EntriesFollow
<1>. QED  BY <1>1, <1>2, <1>3, <1>4, <1>5 DEF RedInv

LEMMA NotRows ==
    ASSUME NEW p, NEW rows
    PROVE  /\ p \in Uploads(held, rows) \cup Messages(held, rows) \cup Conversations(held)
                    \cup AboutThem(held, rows) \cup AsActor(held) \cup InWords(held)
                    \cup InData(held) \cup StoredFacts(held)
                => p.area \notin RowAreas
BY DEF Uploads, Messages, Conversations, AboutThem, AsActor, InWords, InData, StoredFacts,
       Rows, RowAreas

LEMMA TakesUploadsKept ==
    ASSUME RedInv, NEW d \in Courier, TakesUploads(d)
    PROVE  RedInv'
<1>e. /\ Takes(d, "uploads", Uploads(held, seen[d]), "messages")
      /\ trace' = trace /\ person' = person /\ held' = held \ Uploads(held, seen[d])
      /\ stage[d] = "uploads" /\ stage' = [stage EXCEPT ![d] = "messages"]
      BY DEF TakesUploads, Takes
<1>1. stage'[d] = "messages"  BY <1>e DEF RedInv, RedTypes
<1>2. Gone("upload")'  BY <1>e, UploadsTaken
<1>3. GoneAt(d)'
      BY <1>1, <1>2 DEF GoneAt, AfterUploads, AfterMessages, AfterConversations, AfterFour,
                        AfterAbout
<1>4. \A p \in held \cap Uploads(held, seen[d]) : p.area \notin RowAreas  BY NotRows
<1>. QED  BY <1>e, <1>3, <1>4, StatementKept DEF Stages

LEMMA TakesMessagesKept ==
    ASSUME RedInv, NEW d \in Courier, TakesMessages(d)
    PROVE  RedInv'
<1>e. /\ Takes(d, "messages", Messages(held, seen[d]), "conversations")
      /\ trace' = trace /\ person' = person /\ held' = held \ Messages(held, seen[d])
      /\ stage[d] = "messages" /\ stage' = [stage EXCEPT ![d] = "conversations"]
      BY DEF TakesMessages, Takes
<1>1. stage'[d] = "conversations"  BY <1>e DEF RedInv, RedTypes
<1>2. Gone("message")'  BY <1>e, MessagesTaken
<1>u. Gone("upload")'  BY <1>e, Shrinks DEF RedInv, GoneAt, AfterUploads
<1>3. GoneAt(d)'
      BY <1>1, <1>2, <1>u DEF GoneAt, AfterUploads, AfterMessages, AfterConversations,
                              AfterFour, AfterAbout
<1>4. \A p \in held \cap Messages(held, seen[d]) : p.area \notin RowAreas  BY NotRows
<1>. QED  BY <1>e, <1>3, <1>4, StatementKept DEF Stages

\* A request past the rows has everything gone that the rows are gone for.
LEMMA RowsPassed ==
    ASSUME RedInv, NEW d \in Courier, stage[d] \in AfterFour,
           held' \subseteq held, trace' = trace, person' = person
    PROVE  /\ Gone("upload")' /\ Gone("message")' /\ Gone("conversation")'
           /\ \A area \in Four : Gone(area)'
<1>1. GoneAt(d)  BY DEF RedInv
<1>2. /\ Gone("upload") /\ Gone("message") /\ Gone("conversation")
      /\ \A area \in Four : Gone(area)
      BY <1>1 DEF GoneAt, AfterUploads, AfterMessages, AfterConversations
<1>. QED  BY <1>2, Shrinks

\* And what the statements after it have taken.
LEMMA AfterRows ==
    ASSUME RedInv, NEW d \in Courier, stage[d] \in AfterFour, stage'[d] \in AfterAbout,
           held' \subseteq held, trace' = trace, person' = person,
           "id" \in person' => EntriesGone("account")',
           stage'[d] \in {"words", "data", "stored", "marks"} => Gone("actor")',
           stage'[d] \in {"data", "stored", "marks"} => Gone("words")',
           stage'[d] \in {"stored", "marks"} => Blotted("data")',
           stage'[d] = "marks" => Blotted("review")'
    PROVE  GoneAt(d)'
<1>1. stage'[d] # "together"  BY DEF AfterAbout
<1>. QED  BY <1>1, RowsPassed DEF GoneAt

LEMMA TakesEntriesKept ==
    ASSUME RedInv, NEW d \in Courier, TakesEntries(d)
    PROVE  RedInv'
<1>e. /\ Takes(d, "about", AboutThem(held, seen[d]), "actor")
      /\ trace' = trace /\ person' = person /\ held' = held \ AboutThem(held, seen[d])
      /\ stage[d] = "about" /\ stage' = [stage EXCEPT ![d] = "actor"]
      BY DEF TakesEntries, Takes
<1>1. stage'[d] = "actor"  BY <1>e DEF RedInv, RedTypes
<1>2. /\ "id" \in person' => EntriesGone("account")'
      /\ \A of \in seen[d] : EntriesGone(of)'
      BY <1>e, EntriesTaken
<1>3. GoneAt(d)'
      <2>1. stage[d] \in AfterFour /\ stage'[d] \in AfterAbout
            BY <1>1, <1>e DEF AfterFour, AfterAbout
      <2>. QED  BY <1>1, <1>2, <1>e, <2>1, AfterRows
<1>4. \A p \in held \cap AboutThem(held, seen[d]) : p.area \notin RowAreas  BY NotRows
<1>. QED  BY <1>e, <1>2, <1>3, <1>4, StatementKept DEF Stages

LEMMA TakesActorKept ==
    ASSUME RedInv, NEW d \in Courier, TakesActor(d)
    PROVE  RedInv'
<1>e. /\ Takes(d, "actor", AsActor(held), "words")
      /\ trace' = trace /\ person' = person /\ held' = held \ AsActor(held)
      /\ stage[d] = "actor" /\ stage' = [stage EXCEPT ![d] = "words"]
      BY DEF TakesActor, Takes
<1>1. stage'[d] = "words"  BY <1>e DEF RedInv, RedTypes
<1>2. Gone("actor")'
      <2>1. AsActor(held) = Rows("actor", held)  BY DEF AsActor, Rows
      <2>. QED  BY <1>e, <2>1, RowsTaken
<1>g. GoneAt(d)  BY DEF RedInv
<1>a. "id" \in person' => EntriesGone("account")'
      BY <1>g, <1>e, Shrinks DEF GoneAt, AfterAbout
<1>3. GoneAt(d)'
      <2>1. stage[d] \in AfterFour /\ stage'[d] \in AfterAbout
            BY <1>1, <1>e DEF AfterFour, AfterAbout
      <2>. QED  BY <1>1, <1>2, <1>a, <1>e, <2>1, AfterRows
<1>4. \A p \in held \cap AsActor(held) : p.area \notin RowAreas  BY NotRows
<1>. QED  BY <1>e, <1>3, <1>4, StatementKept DEF Stages

LEMMA TakesWordsKept ==
    ASSUME RedInv, NEW d \in Courier, TakesWords(d)
    PROVE  RedInv'
<1>e. /\ Takes(d, "words", InWords(held), "data")
      /\ trace' = trace /\ person' = person /\ held' = held \ InWords(held)
      /\ stage[d] = "words" /\ stage' = [stage EXCEPT ![d] = "data"]
      BY DEF TakesWords, Takes
<1>1. stage'[d] = "data"  BY <1>e DEF RedInv, RedTypes
<1>2. Gone("words")'  BY <1>e, WordsTaken
<1>g. GoneAt(d)  BY DEF RedInv
<1>a. "id" \in person' => EntriesGone("account")'
      BY <1>g, <1>e, Shrinks DEF GoneAt, AfterAbout
<1>b. Gone("actor")'  BY <1>g, <1>e, Shrinks DEF GoneAt
<1>3. GoneAt(d)'
      <2>1. stage[d] \in AfterFour /\ stage'[d] \in AfterAbout
            BY <1>1, <1>e DEF AfterFour, AfterAbout
      <2>. QED  BY <1>1, <1>2, <1>a, <1>b, <1>e, <2>1, AfterRows
<1>4. \A p \in held \cap InWords(held) : p.area \notin RowAreas  BY NotRows
<1>. QED  BY <1>e, <1>3, <1>4, StatementKept DEF Stages

LEMMA TakesDataKept ==
    ASSUME RedInv, NEW d \in Courier, TakesData(d)
    PROVE  RedInv'
<1>e. /\ Takes(d, "data", InData(held), "stored")
      /\ trace' = trace /\ person' = person /\ held' = held \ InData(held)
      /\ stage[d] = "data" /\ stage' = [stage EXCEPT ![d] = "stored"]
      BY DEF TakesData, Takes
<1>1. stage'[d] = "stored"  BY <1>e DEF RedInv, RedTypes
<1>2. Blotted("data")'  BY <1>e, DataTaken
<1>g. GoneAt(d)  BY DEF RedInv
<1>a. "id" \in person' => EntriesGone("account")'
      BY <1>g, <1>e, Shrinks DEF GoneAt, AfterAbout
<1>b. Gone("actor")' /\ Gone("words")'  BY <1>g, <1>e, Shrinks DEF GoneAt
<1>3. GoneAt(d)'
      <2>1. stage[d] \in AfterFour /\ stage'[d] \in AfterAbout
            BY <1>1, <1>e DEF AfterFour, AfterAbout
      <2>. QED  BY <1>1, <1>2, <1>a, <1>b, <1>e, <2>1, AfterRows
<1>4. \A p \in held \cap InData(held) : p.area \notin RowAreas  BY NotRows
<1>. QED  BY <1>e, <1>3, <1>4, StatementKept DEF Stages

LEMMA TakesStoredKept ==
    ASSUME RedInv, NEW d \in Courier, TakesStored(d)
    PROVE  RedInv'
<1>e. /\ Takes(d, "stored", StoredFacts(held), "marks")
      /\ trace' = trace /\ person' = person /\ held' = held \ StoredFacts(held)
      /\ stage[d] = "stored" /\ stage' = [stage EXCEPT ![d] = "marks"]
      BY DEF TakesStored, Takes
<1>1. stage'[d] = "marks"  BY <1>e DEF RedInv, RedTypes
<1>2. Blotted("review")'  BY <1>e, StoredTaken
<1>g. GoneAt(d)  BY DEF RedInv
<1>a. "id" \in person' => EntriesGone("account")'
      BY <1>g, <1>e, Shrinks DEF GoneAt, AfterAbout
<1>b. Gone("actor")' /\ Gone("words")' /\ Blotted("data")'
      BY <1>g, <1>e, Shrinks DEF GoneAt
<1>3. GoneAt(d)'
      <2>1. stage[d] \in AfterFour /\ stage'[d] \in AfterAbout
            BY <1>1, <1>e DEF AfterFour, AfterAbout
      <2>. QED  BY <1>1, <1>2, <1>a, <1>b, <1>e, <2>1, AfterRows
<1>4. \A p \in held \cap StoredFacts(held) : p.area \notin RowAreas  BY NotRows
<1>. QED  BY <1>e, <1>3, <1>4, StatementKept DEF Stages

-----------------------------------------------------------------------------
LEMMA TakesConversationsKept ==
    ASSUME RedInv, NEW d \in Courier, TakesConversations(d)
    PROVE  RedInv'
<1>t. RedTypes  BY DEF RedInv
<1>e. /\ trace' = trace /\ person' = person /\ seen' = seen
      /\ redacted' = redacted /\ deaths' = deaths /\ held' = held \ Conversations(held)
      /\ stage[d] = "conversations" /\ stage' = [stage EXCEPT ![d] = "together"]
      /\ together' = [together EXCEPT ![d] = Four]
      BY DEF TakesConversations, Four
<1>s. /\ stage'[d] = "together" /\ \A e \in Courier \ {d} : stage'[e] = stage[e]
      /\ stage' \in [Courier -> Stages]
      /\ together'[d] = Four /\ \A e \in Courier \ {d} : together'[e] = together[e]
      /\ together' \in [Courier -> SUBSET Four]
      BY <1>t, <1>e DEF RedTypes, Stages
<1>h. held' \subseteq held  BY <1>e
<1>1. RedTypes'
      <2>1. held' \subseteq trace'  BY <1>t, <1>e DEF RedTypes
      <2>. QED  BY <1>t, <1>e, <1>s, <2>1 DEF RedTypes
<1>2. ASSUME NEW e \in Courier PROVE GoneAt(e)'
      <2>0. GoneAt(e)  BY DEF RedInv
      <2>1. CASE e = d
            <3>1. Gone("upload") /\ Gone("message")
                  BY <2>0, <2>1, <1>e DEF GoneAt, AfterUploads, AfterMessages
            <3>2. Gone("upload")' /\ Gone("message")'  BY <3>1, <1>e, <1>h, Shrinks
            <3>3. Gone("conversation")'  BY <1>e, ConversationsTaken
            <3>4. "together" \notin AfterFour /\ "together" \notin AfterAbout
                  BY DEF AfterFour, AfterAbout
            <3>. QED  BY <2>1, <3>2, <3>3, <3>4, <1>s DEF GoneAt
      <2>2. CASE e # d
            <3>2. stage'[e] = stage[e] /\ together'[e] = together[e]  BY <2>2, <1>s
            <3>. QED  BY <1>e, <1>h, <2>0, <3>2, GoneStays
      <2>. QED  BY <2>1, <2>2
<1>3. redacted' => AllGone'  BY <1>e, <1>h, AllStaysGone DEF RedInv
<1>r. Has' = Has /\ Had' = Had
      <2>1. \A p \in held \ held' : p.area \notin RowAreas  BY <1>e, NotRows
      <2>. QED  BY <2>1, <1>e, <1>h, RowsStay, Shrinks
<1>4. RowsSeen'
      <2>1. RowsSeen  BY DEF RedInv
      <2>2. \A e \in Courier : stage'[e] # "idle" => Has' \subseteq seen'[e]
            BY <2>1, <1>e, <1>r, <1>s DEF RowsSeen
      <2>3. ("application" \in Had \ Has => Gone("upload") /\ Gone("message"))'
            BY <2>1, <1>e, <1>h, <1>r, Shrinks DEF RowsSeen
      <2>. QED  BY <2>2, <2>3 DEF RowsSeen
<1>5. ASSUME deaths' = 0 PROVE EntriesFollow'
      <2>1. EntriesFollow  BY <1>5, <1>e DEF RedInv
      <2>2. ASSUME NEW of \in Had' \ Has'
            PROVE  \/ EntriesGone(of)'
                   \/ \E e \in Courier : of \in seen'[e] /\ stage'[e] \in {"together", "about"}
            <3>1. CASE EntriesGone(of)  BY <3>1, <1>e, <1>h, Shrinks
            <3>2. CASE \E e \in Courier : of \in seen[e] /\ stage[e] \in {"together", "about"}
                  BY <3>2, <1>e, <1>s
            <3>. QED  BY <2>1, <2>2, <1>r, <3>1, <3>2 DEF EntriesFollow
      <2>. QED  BY <2>2 DEF EntriesFollow
<1>. QED  BY <1>1, <1>2, <1>3, <1>4, <1>5 DEF RedInv

LEMMA TakesOneOfFourKept ==
    ASSUME RedInv, NEW d \in Courier, TakesOneOfFour(d)
    PROVE  RedInv'
<1>t. RedTypes  BY DEF RedInv
<1>0. PICK area \in together[d] :
        /\ held' = held \ Rows(area, held)
        /\ together' = [together EXCEPT ![d] = @ \ {area}]
        /\ stage' = [stage EXCEPT ![d] = IF together[d] = {area} THEN "about" ELSE @]
      BY DEF TakesOneOfFour
<1>e. /\ trace' = trace /\ person' = person /\ seen' = seen
      /\ redacted' = redacted /\ deaths' = deaths /\ stage[d] = "together"
      BY DEF TakesOneOfFour
<1>a. together[d] \subseteq Four /\ area \in Four  BY <1>t DEF RedTypes
<1>s. /\ stage'[d] = IF together[d] = {area} THEN "about" ELSE "together"
      /\ \A e \in Courier \ {d} : stage'[e] = stage[e]
      /\ stage' \in [Courier -> Stages]
      BY <1>t, <1>0, <1>e DEF RedTypes, Stages
<1>o. /\ together'[d] = together[d] \ {area}
      /\ \A e \in Courier \ {d} : together'[e] = together[e]
      /\ together' \in [Courier -> SUBSET Four]
      BY <1>t, <1>0 DEF RedTypes
<1>h. held' \subseteq held  BY <1>0
<1>1. RedTypes'
      <2>1. held' \subseteq trace'  BY <1>t, <1>e, <1>h DEF RedTypes
      <2>. QED  BY <1>t, <1>e, <1>s, <1>o, <2>1 DEF RedTypes
<1>g. GoneAt(d)  BY DEF RedInv
<1>p. Gone("upload") /\ Gone("message") /\ Gone("conversation")
      BY <1>g, <1>e DEF GoneAt, AfterUploads, AfterMessages, AfterConversations
<1>2. ASSUME NEW e \in Courier PROVE GoneAt(e)'
      <2>1. CASE e = d
            <3>1. Gone("upload")' /\ Gone("message")' /\ Gone("conversation")'
                  BY <1>p, <1>e, <1>h, Shrinks
            <3>2. Gone(area)'
                  <4>1. held' \cap Rows(area, held) = {}  BY <1>0
                  <4>. QED  BY <4>1, <1>a, <1>e, <1>h, RowsTaken
            <3>3. \A other \in Four \ together[d] : Gone(other)'
                  <4>1. \A other \in Four \ together[d] : Gone(other)  BY <1>g, <1>e DEF GoneAt
                  <4>. QED  BY <4>1, <1>e, <1>h, Shrinks
            <3>4. \A other \in Four \ together'[d] : Gone(other)'  BY <3>2, <3>3, <1>o
            <3>5. stage'[d] = "about" => \A other \in Four : Gone(other)'
                  BY <3>2, <3>3, <1>s
            <3>6. stage'[d] \in {"together", "about"}  BY <1>s
            <3>7. stage'[d] \in AfterFour => stage'[d] = "about"
                  BY <3>6 DEF AfterFour, AfterAbout
            <3>8. stage'[d] \notin AfterAbout  BY <3>6 DEF AfterAbout
            <3>. QED  BY <2>1, <3>1, <3>4, <3>5, <3>6, <3>7, <3>8 DEF GoneAt
      <2>2. CASE e # d
            <3>1. GoneAt(e)  BY DEF RedInv
            <3>2. stage'[e] = stage[e] /\ together'[e] = together[e]  BY <2>2, <1>s, <1>o
            <3>. QED  BY <1>e, <1>h, <3>1, <3>2, GoneStays
      <2>. QED  BY <2>1, <2>2
<1>3. redacted' => AllGone'  BY <1>e, <1>h, AllStaysGone DEF RedInv
<1>r. Has' \subseteq Has /\ Had' = Had  BY <1>e, <1>h, Shrinks
<1>w. \A e \in Courier : stage'[e] # "idle" => stage[e] # "idle"  BY <1>e, <1>s
<1>4. RowsSeen'
      <2>1. RowsSeen  BY DEF RedInv
      <2>2. \A e \in Courier : stage'[e] # "idle" => Has' \subseteq seen'[e]
            BY <2>1, <1>e, <1>r, <1>w DEF RowsSeen
      <2>3. Gone("upload")' /\ Gone("message")'  BY <1>p, <1>e, <1>h, Shrinks
      <2>. QED  BY <2>2, <2>3 DEF RowsSeen
<1>5. ASSUME deaths' = 0 PROVE EntriesFollow'
      <2>1. EntriesFollow /\ RowsSeen  BY <1>5, <1>e DEF RedInv
      <2>2. ASSUME NEW of \in Had' \ Has'
            PROVE  \/ EntriesGone(of)'
                   \/ \E e \in Courier : of \in seen'[e] /\ stage'[e] \in {"together", "about"}
            <3>0. stage'[d] \in {"together", "about"}  BY <1>s
            <3>1. CASE of \in Has
                  <4>1. of \in seen[d]  BY <2>1, <3>1, <1>e DEF RowsSeen
                  <4>. QED  BY <4>1, <3>0, <1>e
            <3>2. CASE of \notin Has
                  <4>1. CASE EntriesGone(of)  BY <4>1, <1>e, <1>h, Shrinks
                  <4>2. CASE \E e \in Courier : /\ of \in seen[e]
                                                /\ stage[e] \in {"together", "about"}
                        <5>1. PICK e \in Courier : /\ of \in seen[e]
                                                   /\ stage[e] \in {"together", "about"}
                              BY <4>2
                        <5>2. stage'[e] \in {"together", "about"}  BY <5>1, <3>0, <1>s
                        <5>. QED  BY <5>1, <5>2, <1>e
                  <4>. QED  BY <2>1, <2>2, <1>r, <3>2, <4>1, <4>2 DEF EntriesFollow
            <3>. QED  BY <3>1, <3>2
      <2>. QED  BY <2>2 DEF EntriesFollow
<1>. QED  BY <1>1, <1>2, <1>3, <1>4, <1>5 DEF RedInv

\* A request begins, ends or dies, and takes nothing.
LEMMA NothingTaken ==
    ASSUME RedInv, NEW d \in Courier, UNCHANGED <<trace, person, held>>,
           RedTypes', \A e \in Courier \ {d} : /\ stage'[e] = stage[e]
                                               /\ together'[e] = together[e]
                                               /\ seen'[e] = seen[e],
           stage'[d] \in {"idle", "uploads"},
           stage'[d] = "uploads" => seen'[d] = Has,
           deaths' = 0 => deaths = 0 /\ stage[d] \notin {"together", "about"},
           redacted' => AllGone
    PROVE  RedInv'
<1>e. held' = held /\ trace' = trace /\ person' = person  OBVIOUS
<1>h. held' \subseteq held  BY <1>e
<1>r. Has' = Has /\ Had' = Had
      <2>1. \A p \in held \ held' : p.area \notin RowAreas  BY <1>e
      <2>. QED  BY <2>1, <1>e, <1>h, RowsStay, Shrinks
<1>2. ASSUME NEW e \in Courier PROVE GoneAt(e)'
      <2>1. CASE e = d
            <3>1. stage'[d] \notin AfterUploads
                  BY DEF AfterUploads, AfterMessages, AfterConversations, AfterFour, AfterAbout
            <3>. QED  BY <2>1, <3>1 DEF GoneAt, AfterUploads, AfterMessages,
                                        AfterConversations, AfterFour, AfterAbout
      <2>2. CASE e # d
            <3>1. GoneAt(e)  BY DEF RedInv
            <3>2. stage'[e] = stage[e] /\ together'[e] = together[e]  BY <2>2
            <3>. QED  BY <1>e, <1>h, <3>1, <3>2, GoneStays
      <2>. QED  BY <2>1, <2>2
<1>3. redacted' => AllGone'  BY <1>e, <1>h, AllStaysGone
<1>4. RowsSeen'
      <2>1. RowsSeen  BY DEF RedInv
      <2>2. ASSUME NEW e \in Courier, stage'[e] # "idle" PROVE Has' \subseteq seen'[e]
            <3>1. CASE e = d  BY <2>2, <3>1, <1>r
            <3>2. CASE e # d  BY <2>1, <2>2, <3>2, <1>r DEF RowsSeen
            <3>. QED  BY <3>1, <3>2
      <2>3. ("application" \in Had \ Has => Gone("upload") /\ Gone("message"))'
            BY <2>1, <1>e, <1>h, <1>r, Shrinks DEF RowsSeen
      <2>. QED  BY <2>2, <2>3 DEF RowsSeen
<1>5. ASSUME deaths' = 0 PROVE EntriesFollow'
      <2>1. EntriesFollow /\ stage[d] \notin {"together", "about"}  BY <1>5 DEF RedInv
      <2>2. ASSUME NEW of \in Had' \ Has'
            PROVE  \/ EntriesGone(of)'
                   \/ \E e \in Courier : of \in seen'[e] /\ stage'[e] \in {"together", "about"}
            <3>1. CASE EntriesGone(of)  BY <3>1, <1>e, <1>h, Shrinks
            <3>2. CASE \E e \in Courier : of \in seen[e] /\ stage[e] \in {"together", "about"}
                  <4>1. PICK e \in Courier : of \in seen[e] /\ stage[e] \in {"together", "about"}
                        BY <3>2
                  <4>2. e # d  BY <4>1, <2>1
                  <4>. QED  BY <4>1, <4>2
            <3>. QED  BY <2>1, <2>2, <1>r, <3>1, <3>2 DEF EntriesFollow
      <2>. QED  BY <2>2 DEF EntriesFollow
<1>. QED  BY <1>2, <1>3, <1>4, <1>5 DEF RedInv

LEMMA FindsThemKept ==
    ASSUME RedInv, NEW d \in Courier, FindsThem(d)
    PROVE  RedInv'
<1>t. RedTypes  BY DEF RedInv
<1>e. /\ trace' = trace /\ person' = person /\ held' = held /\ together' = together
      /\ redacted' = redacted /\ deaths' = deaths /\ stage[d] = "idle" /\ ~redacted
      /\ stage' = [stage EXCEPT ![d] = "uploads"] /\ seen' = [seen EXCEPT ![d] = Has]
      BY DEF FindsThem, Has
<1>h. Has \in SUBSET RowAreas  BY DEF Has, Found, RowAreas
<1>s. /\ stage'[d] = "uploads" /\ seen'[d] = Has
      /\ \A e \in Courier \ {d} : stage'[e] = stage[e] /\ seen'[e] = seen[e]
      /\ stage' \in [Courier -> Stages] /\ seen' \in [Courier -> SUBSET RowAreas]
      BY <1>t, <1>e, <1>h DEF RedTypes, Stages
<1>1. RedTypes'  BY <1>t, <1>e, <1>s DEF RedTypes
<1>. QED  BY <1>e, <1>s, <1>1, NothingTaken

LEMMA MarksHandledKept ==
    ASSUME RedInv, NEW d \in Courier, MarksHandled(d)
    PROVE  RedInv'
<1>t. RedTypes  BY DEF RedInv
<1>e. /\ trace' = trace /\ person' = person /\ held' = held /\ together' = together
      /\ redacted' = TRUE /\ deaths' = deaths /\ stage[d] = "marks" /\ seen' = seen
      /\ stage' = [stage EXCEPT ![d] = "idle"]
      BY DEF MarksHandled
<1>s. /\ stage'[d] = "idle" /\ \A e \in Courier \ {d} : stage'[e] = stage[e]
      /\ stage' \in [Courier -> Stages]
      BY <1>t, <1>e DEF RedTypes, Stages
<1>1. RedTypes'  BY <1>t, <1>e, <1>s DEF RedTypes
<1>2. AllGone
      <2>1. GoneAt(d)  BY DEF RedInv
      <2>2. Gone("upload") /\ Gone("message") /\ Gone("conversation")
            BY <2>1, <1>e DEF GoneAt, AfterUploads, AfterMessages, AfterConversations,
                              AfterFour, AfterAbout
      <2>3. \A area \in Four : Gone(area)  BY <2>1, <1>e DEF GoneAt, AfterFour, AfterAbout
      <2>4. Gone("actor") /\ Gone("words") /\ Blotted("data") /\ Blotted("review")
            BY <2>1, <1>e DEF GoneAt
      <2>5. "id" \in person => EntriesGone("account")  BY <2>1, <1>e DEF GoneAt, AfterAbout
      <2>6. \A area \in Own \cup {"actor", "words"} :
                area \in Four \cup {"upload", "message", "conversation", "actor", "words"}
            BY DEF Own, Four
      <2>7. \A area \in Own \cup {"actor", "words"} : Gone(area)
            BY <2>2, <2>3, <2>4, <2>6
      <2>. QED  BY <2>4, <2>5, <2>7 DEF AllGone
<1>. QED  BY <1>e, <1>s, <1>1, <1>2, NothingTaken

LEMMA CourierDiesKept ==
    ASSUME RedInv, NEW d \in Courier, CourierDies(d)
    PROVE  RedInv'
<1>t. RedTypes  BY DEF RedInv
<1>e. /\ trace' = trace /\ person' = person /\ held' = held /\ redacted' = redacted
      /\ seen' = seen /\ deaths < MaxDeaths /\ deaths' = deaths + 1
      /\ stage' = [stage EXCEPT ![d] = "idle"] /\ together' = [together EXCEPT ![d] = {}]
      BY DEF CourierDies
<1>s. /\ stage'[d] = "idle"
      /\ \A e \in Courier \ {d} : stage'[e] = stage[e] /\ together'[e] = together[e]
      /\ stage' \in [Courier -> Stages] /\ together' \in [Courier -> SUBSET Four]
      BY <1>t, <1>e DEF RedTypes, Stages
<1>d. deaths' \in 0 .. MaxDeaths /\ deaths' # 0
      <2>1. deaths \in 0 .. MaxDeaths  BY <1>t DEF RedTypes
      <2>. QED  BY <2>1, <1>e, RedactionAssumption
<1>1. RedTypes'  BY <1>t, <1>e, <1>s, <1>d DEF RedTypes
<1>2. redacted' => AllGone  BY <1>e DEF RedInv
<1>. QED  BY <1>e, <1>s, <1>d, <1>1, <1>2, NothingTaken

-----------------------------------------------------------------------------
LEMMA RedInitially == RedactionInit => RedInv
<1>. SUFFICES ASSUME RedactionInit PROVE RedInv  OBVIOUS
<1>1. RedTypes
      <2>1. deaths \in 0 .. MaxDeaths  BY RedactionAssumption DEF RedactionInit
      <2>. QED  BY <2>1 DEF RedactionInit, RedTypes, Stages
<1>2. \A d \in Courier : stage[d] = "idle"  BY DEF RedactionInit
<1>3. \A d \in Courier : GoneAt(d)
      BY <1>2 DEF GoneAt, AfterUploads, AfterMessages, AfterConversations, AfterFour, AfterAbout
<1>4. Had = Has  BY DEF RedactionInit, Had, Has
<1>. QED  BY <1>1, <1>2, <1>3, <1>4 DEF RedInv, RowsSeen, EntriesFollow, RedactionInit

LEMMA RedStep == RedInv /\ [RedactionNext]_redactionVars => RedInv'
<1>. SUFFICES ASSUME RedInv, [RedactionNext]_redactionVars PROVE RedInv'
     OBVIOUS
<1>1. CASE RedactionNext
      BY <1>1, FindsThemKept, TakesUploadsKept, TakesMessagesKept, TakesConversationsKept,
         TakesOneOfFourKept, TakesEntriesKept, TakesActorKept, TakesWordsKept, TakesDataKept,
         TakesStoredKept, MarksHandledKept, CourierDiesKept DEF RedactionNext
<1>2. CASE UNCHANGED redactionVars
      <2>e. /\ trace' = trace /\ person' = person /\ held' = held /\ together' = together
            /\ redacted' = redacted /\ deaths' = deaths /\ stage' = stage /\ seen' = seen
            BY <1>2 DEF redactionVars
      <2>h. held' \subseteq held  BY <2>e
      <2>1. RedTypes'  BY <2>e DEF RedInv, RedTypes
      <2>2. ASSUME NEW d \in Courier PROVE GoneAt(d)'
            <3>1. GoneAt(d)  BY DEF RedInv
            <3>. QED  BY <3>1, <2>e, <2>h, GoneStays
      <2>3. redacted' => AllGone'  BY <2>e, <2>h, AllStaysGone DEF RedInv
      <2>r. Has' = Has /\ Had' = Had
            <3>1. \A p \in held \ held' : p.area \notin RowAreas  BY <2>e
            <3>. QED  BY <3>1, <2>e, <2>h, RowsStay, Shrinks
      <2>4. RowsSeen'
            <3>1. RowsSeen  BY DEF RedInv
            <3>2. ("application" \in Had \ Has => Gone("upload") /\ Gone("message"))'
                  BY <3>1, <2>e, <2>h, <2>r, Shrinks DEF RowsSeen
            <3>. QED  BY <3>1, <3>2, <2>e, <2>r DEF RowsSeen
      <2>5. deaths' = 0 => EntriesFollow'
            <3>1. deaths = 0 => EntriesFollow  BY DEF RedInv
            <3>2. \A of : (EntriesGone(of) => EntriesGone(of)')  BY <2>e, <2>h, Shrinks
            <3>. QED  BY <3>1, <3>2, <2>e, <2>r DEF EntriesFollow
      <2>. QED  BY <2>1, <2>2, <2>3, <2>4, <2>5 DEF RedInv
<1>. QED  BY <1>1, <1>2

LEMMA RedInvariant == RedactionSpec => []RedInv
BY RedInitially, RedStep, PTL DEF RedactionSpec

\* The state of a redaction is typed.
THEOREM RedactionTypesHold == RedactionSpec => []RedactionTypeOK
<1>1. RedInv => RedactionTypeOK
      <2>. SUFFICES ASSUME RedTypes PROVE RedactionTypeOK  BY DEF RedInv
      <2>1. together \in [Courier -> SUBSET Own]
            <3>1. Four \subseteq Own  BY DEF Four, Own
            <3>. QED  BY <3>1 DEF RedTypes
      <2>. QED  BY <2>1 DEF RedTypes, RedactionTypeOK, RowAreas
<1>. QED  BY <1>1, RedInvariant, PTL

\* customers/data_request: who asks is told every row of theirs.
LEMMA ToldOfAll ==
    ASSUME RedTypes, held = trace
    PROVE  buyerData(held) = {p \in Theirs : p.area \in Own}
<1>. DEFINE rows == Found(held)
<1>r. rows = Had  BY DEF Had
<1>1. ASSUME NEW p \in buyerData(held) PROVE p \in Theirs /\ p.area \in Own
      <2>1. \/ \E area \in Four : p \in Rows(area, held)
            \/ p \in Uploads(held, rows) \cup Messages(held, rows) \cup Conversations(held)
            BY <1>1 DEF buyerData, Four
      <2>a. "application" \in rows => \E q \in trace : q.area = "application" /\ Carries(q)
            BY DEF Found, Rows
      <2>2. CASE \E area \in Four : p \in Rows(area, held)
            BY <2>2 DEF Four, Rows, Theirs, Own
      <2>3. CASE p \in Uploads(held, rows)
            <3>1. p \in trace /\ p.area = "upload" /\ "application" \in rows
                  BY <2>3 DEF Uploads
            <3>2. p \in Pieces  BY <3>1, PiecesAre
            <3>3. p.of = "application"  BY <3>1, <3>2 DEF Pieces
            <3>. QED  BY <3>1, <3>3, <2>a DEF Theirs, Own
      <2>4. CASE p \in Messages(held, rows)
            <3>1. p \in trace /\ p.area = "message"  BY <2>4 DEF Messages
            <3>2. CASE CarriesAddress(p)
                  BY <3>1, <3>2 DEF CarriesAddress, Carries, Theirs, Own
            <3>3. CASE p.of \in rows \cap {"application"}
                  BY <3>1, <3>3, <2>a DEF Theirs, Own
            <3>. QED  BY <2>4, <3>2, <3>3 DEF Messages
      <2>5. CASE p \in Conversations(held)
            BY <2>5 DEF Conversations, CarriesId, Carries, Theirs, Own
      <2>. QED  BY <2>1, <2>2, <2>3, <2>4, <2>5
<1>2. ASSUME NEW p \in Theirs, p.area \in Own PROVE p \in buyerData(held)
      <2>0. p \in held \cap Theirs  BY DEF Theirs
      <2>1. CASE p.area \in Four
            <3>1. p.area \notin {"upload", "about", "message"}  BY <2>1 DEF Four
            <3>2. Carries(p)  BY <2>0, <3>1, TheirPieces
            <3>. QED  BY <2>0, <2>1, <3>2 DEF Rows, Four, buyerData
      <2>2. CASE p.area = "upload"
            <3>1. "application" \in rows  BY <2>0, <2>2, <1>r, TheirPieces
            <3>. QED  BY <2>0, <2>2, <3>1 DEF Uploads, buyerData
      <2>3. CASE p.area = "message"
            <3>1. \/ Carries(p)
                  \/ p.of = "application" /\ "application" \in rows
                  BY <2>0, <2>3, <1>r, TheirPieces
            <3>2. p \in Pieces  BY <2>0, TheirPieces
            <3>3. p.by \subseteq {"email", "EMAIL"}  BY <2>3, <3>2 DEF Pieces
            <3>4. Carries(p) => CarriesAddress(p)  BY <3>3 DEF Carries, CarriesAddress
            <3>5. p \in Messages(held, rows)  BY <2>0, <2>3, <3>1, <3>4 DEF Messages
            <3>. QED  BY <3>5 DEF buyerData
      <2>4. CASE p.area = "conversation"
            <3>1. p \in Pieces /\ Carries(p)  BY <2>0, <2>4, TheirPieces
            <3>2. p.by \subseteq {"id"}  BY <2>4, <3>1 DEF Pieces
            <3>3. CarriesId(p)  BY <3>1, <3>2 DEF Carries, CarriesId
            <3>. QED  BY <2>0, <2>4, <3>3 DEF Conversations, buyerData
      <2>5. p.area \in Four \cup {"upload", "message", "conversation"}
            BY <1>2 DEF Own, Four
      <2>. QED  BY <2>1, <2>2, <2>3, <2>4, <2>5
<1>. QED  BY <1>1, <1>2

\* redactBuyer, redactAudit, redactStoredFacts: once a redaction is marked handled
\* no row, order or quote of the buyer names them, however many attempts died or ran
\* beside each other, and if none died no entry or stored answer does, but for an
\* address in another case inside a document.
THEOREM BuyersAreForgotten == RedactionSpec => []Forgotten
<1>1. RedInv => Forgotten
      <2>. SUFFICES ASSUME RedInv PROVE Forgotten  OBVIOUS
      <2>t. RedTypes  BY DEF RedInv
      <2>1. held = trace => buyerData(held) = {p \in Theirs : p.area \in Own}
            BY <2>t, ToldOfAll
      <2>2. ASSUME AllDelivered, NEW p \in held \cap Theirs PROVE p.area \notin Own
            BY <2>2 DEF RedInv, AllDelivered, AllGone, Gone
      <2>3. ASSUME AllDelivered, NEW p \in held \cap Theirs, deaths = 0
            PROVE  p.area \in Documents /\ "EMAIL" \in p.by
            <3>1. AllGone /\ EntriesFollow /\ \A d \in Courier : stage[d] = "idle"
                  BY <2>3 DEF RedInv, AllDelivered
            <3>2. p \in Pieces /\ p.area \notin Own \cup {"actor", "words"}
                  BY <2>t, <2>3, <3>1, TheirPieces DEF AllGone, Gone
            <3>3. p.area \in {"about", "data", "review"}  BY <3>2 DEF Pieces, Own
            <3>4. p.area # "about"
                  <4>. SUFFICES ASSUME p.area = "about" PROVE FALSE  OBVIOUS
                  <4>1. \/ p.of = "account" /\ "id" \in person
                        \/ p.of \in Had
                        BY <2>t, TheirPieces
                  <4>2. CASE p.of = "account" /\ "id" \in person
                        BY <4>2, <3>1 DEF AllGone, EntriesGone
                  <4>3. CASE p.of \in Had
                        <5>1. Has = {}
                              <6>1. ASSUME NEW area \in Has PROVE FALSE
                                    <7>1. area \in RowAreas /\ Rows(area, held) # {}
                                          BY <6>1 DEF Has, Found, RowAreas
                                    <7>2. PICK q \in held : q.area = area /\ Carries(q)
                                          BY <7>1 DEF Rows
                                    <7>3. q \in held \cap Theirs
                                          BY <7>2, <2>t DEF RedTypes, Theirs
                                    <7>. QED  BY <7>1, <7>2, <7>3, <3>1
                                              DEF AllGone, Gone, Own, RowAreas
                              <6>. QED  BY <6>1
                        <5>2. EntriesGone(p.of)  BY <4>3, <5>1, <3>1 DEF EntriesFollow
                        <5>. QED  BY <5>2 DEF EntriesGone
                  <4>. QED  BY <4>1, <4>2, <4>3
            <3>. QED  BY <3>1, <3>3, <3>4 DEF AllGone, Blotted, Documents
      <2>. QED  BY <2>1, <2>2, <2>3 DEF Forgotten
<1>. QED  BY <1>1, RedInvariant, PTL

(***************************************************************************)
(* The buyer agent.  A turn speaks in the conversation it joined, and had  *)
(* read that nobody else was there; what is said is never unsaid, so what a*)
(* chip, a quote or the publish switch rests on stays.                     *)
(***************************************************************************)
Actor == Turn \cup {Staff}

Waiting == {"idle", "refused", "asked", "gated", "alone"}
Speaking == {"joined", "routing", "writing", "ranking", "marking"}

Thread == [test: BOOLEAN, open: BOOLEAN, fresh: BOOLEAN, taken: BOOLEAN, outcome: Outcomes]

Line == [thread: Nat \ {0}, role: {"BUYER", "AGENT", "MERCHANT"},
         kind: {"asked", "answered", "quoted", "failed", "failed_quoted", "declined",
                "joined", "typed"},
         by: Actor]

ReadOf == [test: BOOLEAN, mayQuote: BOOLEAN, thread: Nat, taken: BOOLEAN, from: Nat,
           outcome: Outcomes]

AgTypes ==
    /\ scene \in Scenes
    /\ guardrails \in [live: BOOLEAN, reviewed: BOOLEAN, mayQuote: BOOLEAN]
    /\ switches \in 0 .. MaxSwitches
    /\ threads \in Seq(Thread) /\ said \in Seq(Line)
    /\ \A m \in DOMAIN said : said[m].thread <= Len(threads)
    /\ filed \subseteq Turn /\ lost \subseteq Turn
    /\ at \in [Actor -> Waiting \cup Speaking \cup {"done", "claiming", "typing"}]
    /\ turn \in [Actor -> ReadOf]
    /\ \A a \in Actor : turn[a].thread <= Len(threads) /\ turn[a].from <= Len(said)

OfPerson(n) == said[n].kind \in {"joined", "typed"}

\* No person had joined what the turn has read of its conversation.
HeardNone(t) ==
    \A n \in DOMAIN said :
        OfPerson(n) /\ said[n].thread = turn[t].thread => turn[t].from < n

SaidIn(i, kinds) == \E m \in DOMAIN said : said[m].thread = i /\ said[m].kind \in kinds

Earned(i, outcome) ==
    /\ outcome = "QUOTE" => SaidIn(i, {"quoted"})
    /\ outcome \in {"ANSWERED", "CART"} => SaidIn(i, {"answered"})

ToldBy(t) == \E m \in DOMAIN said : /\ said[m].by = t /\ said[m].thread = turn[t].thread
                                    /\ said[m].kind \in {"quoted", "failed_quoted"}

Ready == rehearsalCompleted /\ guardrails.reviewed

TurnSo(t) ==
    /\ at[t] \in Waiting => turn[t].thread = 0 /\ t \notin filed
    /\ at[t] \in Speaking => turn[t].thread # 0
    /\ at[t] \in {"claiming", "typing"} => FALSE
    /\ turn[t].thread # 0 => threads[turn[t].thread].test = turn[t].test
    /\ at[t] = "joined" => turn[t].taken \/ HeardNone(t)
    /\ at[t] \in {"routing", "writing"} => HeardNone(t)
    /\ t \in filed => ~turn[t].test /\ at[t] \notin {"joined", "routing"}
    /\ at[t] = "writing" => /\ turn[t].outcome \in Verdicts \cup {"QUOTE"}
                            /\ t \in filed <=> turn[t].outcome = "QUOTE"
    /\ t \in filed \ lost /\ at[t] \in {"ranking", "marking", "done"} => ToldBy(t)
    /\ at[t] \in {"gated", "alone"} \cup Speaking /\ ~turn[t].test => Ready
    /\ at[t] = "refused" => Cardinality(BuyerTurns) >= TurnLimit

RanksSo(a) ==
    at[a] \in {"ranking", "marking"} => Earned(turn[a].thread, turn[a].outcome)

StaffSo ==
    /\ at[Staff] \in {"idle", "claiming", "typing", "ranking", "marking"}
    /\ at[Staff] # "idle" => /\ turn[Staff].thread # 0 /\ turn[Staff].outcome = "ESCALATED"
                             /\ ~threads[turn[Staff].thread].test

LineSo(m) ==
    /\ said[m].by = Staff <=> OfPerson(m)
    /\ said[m].by = Staff => ~threads[said[m].thread].test
    /\ said[m].by # Staff => turn[said[m].by].thread = said[m].thread
    /\ Replied(m) => HeardNone(said[m].by)

ThreadSo(i) ==
    /\ ~threads[i].taken => \A n \in DOMAIN said : OfPerson(n) => said[n].thread # i
    /\ Earned(i, threads[i].outcome)

AgInv ==
    /\ AgTypes
    /\ \A t \in Turn : TurnSo(t)
    /\ \A a \in Actor : RanksSo(a)
    /\ StaffSo
    /\ \A m \in DOMAIN said : LineSo(m)
    /\ \A i \in DOMAIN threads : ThreadSo(i)
    /\ guardrails.live \/ BuyerTurns # {} => Ready

\* What is said stays said, and a conversation stays a rehearsal or none.
Grown ==
    /\ Len(said) <= Len(said') /\ Len(threads) <= Len(threads')
    /\ \A m \in DOMAIN said : m \in DOMAIN said' /\ said'[m] = said[m]
    /\ \A i \in DOMAIN threads : i \in DOMAIN threads' /\ threads'[i].test = threads[i].test

LEMMA SaidAre ==
    ASSUME AgTypes
    PROVE  /\ Len(said) \in Nat /\ DOMAIN said = 1 .. Len(said)
           /\ Len(threads) \in Nat /\ DOMAIN threads = 1 .. Len(threads)
           /\ \A m \in DOMAIN said : said[m] \in Line /\ said[m].thread \in DOMAIN threads
           /\ \A i \in DOMAIN threads : threads[i] \in Thread
           /\ IsFiniteSet(BuyerTurns)
<1>1. said \in Seq(Line) /\ threads \in Seq(Thread)  BY DEF AgTypes
<1>2. /\ Len(said) \in Nat /\ DOMAIN said = 1 .. Len(said)
      /\ Len(threads) \in Nat /\ DOMAIN threads = 1 .. Len(threads)
      /\ \A m \in DOMAIN said : said[m] \in Line
      /\ \A i \in DOMAIN threads : threads[i] \in Thread
      BY <1>1, LenProperties
<1>3. ASSUME NEW m \in DOMAIN said PROVE said[m].thread \in DOMAIN threads
      <2>1. said[m].thread <= Len(threads)  BY DEF AgTypes
      <2>2. said[m].thread \in Nat \ {0}  BY <1>2 DEF Line
      <2>. QED  BY <1>2, <2>1, <2>2
<1>4. IsFiniteSet(DOMAIN said)  BY <1>2, FS_Interval
<1>5. BuyerTurns \subseteq DOMAIN said  BY DEF BuyerTurns
<1>6. IsFiniteSet(BuyerTurns)  BY <1>4, <1>5, FS_Subset
<1>. QED  BY <1>2, <1>3, <1>6

LEMMA Stable ==
    ASSUME AgTypes, AgTypes', Grown
    PROVE  /\ \A i, kinds : SaidIn(i, kinds) => SaidIn(i, kinds)'
           /\ \A i, outcome : Earned(i, outcome) => Earned(i, outcome)'
           /\ rehearsalCompleted => rehearsalCompleted'
           /\ BuyerTurns \subseteq BuyerTurns'
           /\ Cardinality(BuyerTurns) >= TurnLimit => Cardinality(BuyerTurns') >= TurnLimit
<1>0. /\ \A m \in DOMAIN said : said[m].thread \in DOMAIN threads
      /\ \A m \in DOMAIN said : m \in DOMAIN said' /\ said'[m] = said[m]
      /\ \A i \in DOMAIN threads : threads'[i].test = threads[i].test
      BY SaidAre DEF Grown
<1>1. \A i, kinds : SaidIn(i, kinds) => SaidIn(i, kinds)'  BY <1>0 DEF SaidIn
<1>2. \A i, outcome : Earned(i, outcome) => Earned(i, outcome)'  BY <1>1 DEF Earned
<1>3. rehearsalCompleted => rehearsalCompleted'  BY <1>0 DEF rehearsalCompleted
<1>4. BuyerTurns \subseteq BuyerTurns'  BY <1>0 DEF BuyerTurns
<1>5. IsFiniteSet(BuyerTurns) /\ IsFiniteSet(BuyerTurns')
      <2>1. IsFiniteSet(BuyerTurns)  BY SaidAre
      <2>2. said' \in Seq(Line)  BY DEF AgTypes
      <2>3. DOMAIN said' = 1 .. Len(said') /\ Len(said') \in Nat  BY <2>2, LenProperties
      <2>4. IsFiniteSet(DOMAIN said')  BY <2>3, FS_Interval
      <2>5. BuyerTurns' \subseteq DOMAIN said'  BY DEF BuyerTurns
      <2>6. IsFiniteSet(BuyerTurns')  BY <2>4, <2>5, FS_Subset
      <2>. QED  BY <2>1, <2>6
<1>6. Cardinality(BuyerTurns) >= TurnLimit => Cardinality(BuyerTurns') >= TurnLimit
      <2>1. /\ Cardinality(BuyerTurns) <= Cardinality(BuyerTurns')
            /\ Cardinality(BuyerTurns) \in Nat /\ Cardinality(BuyerTurns') \in Nat
            BY <1>4, <1>5, FS_Subset, FS_CardinalityType
      <2>. QED  BY <2>1, BuyerAgentAssumption
<1>. QED  BY <1>1, <1>2, <1>3, <1>4, <1>6

\* What a turn has not heard it never has, and what it told it has told.
LEMMA HeardStays ==
    ASSUME AgTypes, AgTypes', Grown, NEW t \in Turn,
           turn'[t].thread = turn[t].thread, turn'[t].from = turn[t].from
    PROVE  /\ HeardNone(t) => HeardNone(t)'
           /\ ToldBy(t) => ToldBy(t)'
<1>1. /\ DOMAIN said = 1 .. Len(said) /\ DOMAIN said' = 1 .. Len(said')
      /\ Len(said) \in Nat /\ Len(said') \in Nat
      /\ \A m \in DOMAIN said : m \in DOMAIN said' /\ said'[m] = said[m]
      BY SaidAre DEF Grown
<1>2. turn[t].from \in Nat /\ turn[t].from <= Len(said)
      BY DEF AgTypes, Actor, ReadOf
<1>3. ASSUME HeardNone(t) PROVE HeardNone(t)'
      <2>1. ASSUME NEW n \in DOMAIN said', OfPerson(n)', said'[n].thread = turn'[t].thread
            PROVE  turn'[t].from < n
            <3>1. CASE n \in DOMAIN said
                  BY <1>1, <1>3, <2>1, <3>1 DEF HeardNone, OfPerson
            <3>2. CASE n \notin DOMAIN said  BY <1>1, <1>2, <3>2
            <3>. QED  BY <3>1, <3>2
      <2>. QED  BY <2>1 DEF HeardNone
<1>4. ASSUME ToldBy(t) PROVE ToldBy(t)'
      BY <1>1, <1>4 DEF ToldBy
<1>. QED  BY <1>3, <1>4

LEMMA ReadyStays ==
    ASSUME AgTypes, AgTypes', Grown, guardrails.reviewed => guardrails'.reviewed
    PROVE  Ready => Ready'
BY Stable DEF Ready

\* A turn that does not move.
LEMMA TurnStays ==
    ASSUME AgTypes, AgTypes', Grown, guardrails.reviewed => guardrails'.reviewed,
           NEW t \in Turn, TurnSo(t), at'[t] = at[t], turn'[t] = turn[t],
           t \in filed' <=> t \in filed, lost \subseteq lost'
    PROVE  TurnSo(t)'
<1>1. /\ HeardNone(t) => HeardNone(t)'
      /\ ToldBy(t) => ToldBy(t)'
      BY HeardStays
<1>2. Ready => Ready'  BY ReadyStays
<1>3. Cardinality(BuyerTurns) >= TurnLimit => Cardinality(BuyerTurns') >= TurnLimit
      BY Stable
<1>4. turn[t].thread # 0 => threads'[turn[t].thread].test = threads[turn[t].thread].test
      <2>1. turn[t].thread \in Nat /\ turn[t].thread <= Len(threads)
            BY DEF AgTypes, Actor, ReadOf
      <2>2. turn[t].thread # 0 => turn[t].thread \in DOMAIN threads  BY <2>1, SaidAre
      <2>. QED  BY <2>2 DEF Grown
<1>a. (at[t] \in Waiting => turn[t].thread = 0 /\ t \notin filed)'  BY DEF TurnSo
<1>b. (at[t] \in Speaking => turn[t].thread # 0)'  BY DEF TurnSo
<1>c. (at[t] \in {"claiming", "typing"} => FALSE)'  BY DEF TurnSo
<1>d. (turn[t].thread # 0 => threads[turn[t].thread].test = turn[t].test)'
      BY <1>4 DEF TurnSo
<1>e. (at[t] = "joined" => turn[t].taken \/ HeardNone(t))'  BY <1>1 DEF TurnSo
<1>f. (at[t] \in {"routing", "writing"} => HeardNone(t))'  BY <1>1 DEF TurnSo
<1>g. (t \in filed => ~turn[t].test /\ at[t] \notin {"joined", "routing"})'  BY DEF TurnSo
<1>h. (at[t] = "writing" => /\ turn[t].outcome \in Verdicts \cup {"QUOTE"}
                            /\ t \in filed <=> turn[t].outcome = "QUOTE")'
      BY DEF TurnSo
<1>i. (t \in filed \ lost /\ at[t] \in {"ranking", "marking", "done"} => ToldBy(t))'
      BY <1>1 DEF TurnSo
<1>j. (at[t] \in {"gated", "alone"} \cup Speaking /\ ~turn[t].test => Ready)'
      BY <1>2 DEF TurnSo
<1>k. (at[t] = "refused" => Cardinality(BuyerTurns) >= TurnLimit)'
      BY <1>3 DEF TurnSo
<1>. QED  BY <1>a, <1>b, <1>c, <1>d, <1>e, <1>f, <1>g, <1>h, <1>i, <1>j, <1>k DEF TurnSo

\* A line that was said, whoever moves now.
LEMMA LineStays ==
    ASSUME AgTypes, AgTypes', Grown, NEW m \in DOMAIN said, LineSo(m),
           \A t \in Turn : turn[t].thread # 0 =>
               turn'[t].thread = turn[t].thread /\ turn'[t].from = turn[t].from
    PROVE  LineSo(m)'
<1>1. /\ said'[m] = said[m] /\ said[m] \in Line /\ said[m].thread \in DOMAIN threads
      /\ m \in DOMAIN said'
      BY SaidAre DEF Grown
<1>2. threads'[said[m].thread].test = threads[said[m].thread].test  BY <1>1 DEF Grown
<1>3. said[m].by \in Turn \cup {Staff} /\ said[m].thread # 0  BY <1>1 DEF Line, Actor
<1>4. ASSUME said[m].by # Staff
      PROVE  /\ turn'[said[m].by].thread = said[m].thread
             /\ \A b : b = said[m].by /\ Replied(m) => HeardNone(b)'
      <2>1. PICK t \in Turn : t = said[m].by  BY <1>3, <1>4
      <2>2. turn[t].thread = said[m].thread  BY <2>1, <1>4 DEF LineSo
      <2>3. turn'[t].thread = turn[t].thread /\ turn'[t].from = turn[t].from
            BY <2>2, <1>3
      <2>4. Replied(m) => HeardNone(t)  BY <2>1 DEF LineSo
      <2>5. Replied(m) => HeardNone(t)'  BY <2>3, <2>4, HeardStays
      <2>. QED  BY <2>1, <2>2, <2>3, <2>5, <1>1
<1>5. ASSUME said[m].by = Staff PROVE ~Replied(m)
      BY <1>5 DEF LineSo, OfPerson, Replied
<1>6. Replied(m)' = Replied(m) /\ OfPerson(m)' = OfPerson(m)
      BY <1>1 DEF Replied, OfPerson
<1>a. (said[m].by = Staff <=> OfPerson(m))'  BY <1>1, <1>6 DEF LineSo
<1>b. (said[m].by = Staff => ~threads[said[m].thread].test)'  BY <1>1, <1>2 DEF LineSo
<1>c. (said[m].by # Staff => turn[said[m].by].thread = said[m].thread)'  BY <1>1, <1>4
<1>d. (Replied(m) => HeardNone(said[m].by))'
      <2>1. PICK b : b = said[m].by  OBVIOUS
      <2>2. said'[m].by = b  BY <2>1, <1>1
      <2>3. Replied(m)' => HeardNone(b)'  BY <2>1, <1>4, <1>5, <1>6
      <2>. QED  BY <2>2, <2>3
<1>. QED  BY <1>a, <1>b, <1>c, <1>d DEF LineSo

LEMMA AgStep ==
    ASSUME AgInv, AgTypes', Grown, NEW a \in Actor,
           \A b \in Actor \ {a} : at'[b] = at[b] /\ turn'[b] = turn[b],
           \A m \in DOMAIN said' : m \notin DOMAIN said => LineSo(m)',
           \A i \in DOMAIN threads' : ThreadSo(i)',
           \A t \in Turn \ {a} : t \in filed' <=> t \in filed,
           lost \subseteq lost', guardrails.reviewed => guardrails'.reviewed,
           guardrails'.live \/ BuyerTurns' # {} => guardrails.live \/ BuyerTurns # {} \/ Ready,
           a \in Turn => TurnSo(a)', a = Staff => StaffSo', RanksSo(a)',
           a \in Turn /\ turn[a].thread # 0 =>
               turn'[a].thread = turn[a].thread /\ turn'[a].from = turn[a].from
    PROVE  AgInv'
<1>t. AgTypes  BY DEF AgInv
<1>s. Staff \notin Turn  BY BuyerAgentAssumption
<1>1. ASSUME NEW t \in Turn PROVE TurnSo(t)'
      <2>1. CASE t = a  BY <2>1
      <2>2. CASE t # a
            <3>1. TurnSo(t)  BY DEF AgInv
            <3>2. at'[t] = at[t] /\ turn'[t] = turn[t]  BY <2>2 DEF Actor
            <3>3. t \in filed' <=> t \in filed  BY <2>2
            <3>. QED  BY <1>t, <3>1, <3>2, <3>3, TurnStays
      <2>. QED  BY <2>1, <2>2
<1>2. ASSUME NEW b \in Actor PROVE RanksSo(b)'
      <2>1. CASE b = a  BY <2>1
      <2>2. CASE b # a
            <3>1. RanksSo(b)  BY DEF AgInv
            <3>2. at'[b] = at[b] /\ turn'[b] = turn[b]  BY <2>2
            <3>3. PICK i, outcome : i = turn[b].thread /\ outcome = turn[b].outcome
                  OBVIOUS
            <3>4. turn'[b].thread = i /\ turn'[b].outcome = outcome  BY <3>2, <3>3
            <3>5. Earned(i, outcome) => Earned(i, outcome)'  BY <1>t, Stable
            <3>6. at[b] \in {"ranking", "marking"} => Earned(i, outcome)
                  BY <3>1, <3>3 DEF RanksSo
            <3>7. at'[b] \in {"ranking", "marking"} => Earned(i, outcome)'
                  BY <3>2, <3>5, <3>6
            <3>. QED  BY <3>4, <3>7 DEF RanksSo
      <2>. QED  BY <2>1, <2>2
<1>3. StaffSo'
      <2>1. CASE a = Staff  BY <2>1
      <2>2. CASE a # Staff
            <3>1. StaffSo  BY DEF AgInv
            <3>2. at'[Staff] = at[Staff] /\ turn'[Staff] = turn[Staff]  BY <2>2 DEF Actor
            <3>3. turn[Staff].thread \in Nat /\ turn[Staff].thread <= Len(threads)
                  BY <1>t DEF AgTypes, Actor, ReadOf
            <3>4. turn[Staff].thread # 0 => turn[Staff].thread \in DOMAIN threads
                  BY <3>3, <1>t, SaidAre
            <3>5. turn[Staff].thread # 0 =>
                      threads'[turn[Staff].thread].test = threads[turn[Staff].thread].test
                  BY <3>4 DEF Grown
            <3>. QED  BY <3>1, <3>2, <3>5 DEF StaffSo
      <2>. QED  BY <2>1, <2>2
<1>4. ASSUME NEW m \in DOMAIN said' PROVE LineSo(m)'
      <2>1. CASE m \notin DOMAIN said  BY <2>1
      <2>2. CASE m \in DOMAIN said
            <3>1. LineSo(m)  BY <2>2 DEF AgInv
            <3>2. ASSUME NEW t \in Turn, turn[t].thread # 0
                  PROVE  turn'[t].thread = turn[t].thread /\ turn'[t].from = turn[t].from
                  BY <3>2 DEF Actor
            <3>. QED  BY <1>t, <2>2, <3>1, <3>2, LineStays
      <2>. QED  BY <2>1, <2>2
<1>5. (guardrails.live \/ BuyerTurns # {} => Ready)'
      <2>1. guardrails.live \/ BuyerTurns # {} => Ready  BY DEF AgInv
      <2>2. Ready => Ready'  BY <1>t, ReadyStays
      <2>. QED  BY <2>1, <2>2
<1>. QED  BY <1>1, <1>2, <1>3, <1>4, <1>5 DEF AgInv

-----------------------------------------------------------------------------
LEMMA AgHas == AgInv => /\ AgTypes /\ StaffSo
                        /\ \A t \in Turn : TurnSo(t)
                        /\ \A a \in Actor : RanksSo(a)
                        /\ \A i \in DOMAIN threads : ThreadSo(i)
BY DEF AgInv

LEMMA Placed ==
    ASSUME AgTypes, NEW a \in Actor, NEW place, To(a, place),
           place \in Waiting \cup Speaking \cup {"done", "claiming", "typing"}
    PROVE  /\ at' \in [Actor -> Waiting \cup Speaking \cup {"done", "claiming", "typing"}]
           /\ at'[a] = place /\ \A b \in Actor \ {a} : at'[b] = at[b]
BY DEF AgTypes, To

LEMMA ReadsAre ==
    ASSUME AgTypes, NEW a \in Actor
    PROVE  /\ turn[a] \in ReadOf /\ turn[a].thread \in Nat /\ turn[a].from \in Nat
           /\ turn[a].thread # 0 => turn[a].thread \in DOMAIN threads
           /\ turn[a].thread <= Len(threads) /\ turn[a].from <= Len(said)
<1>1. turn[a] \in ReadOf /\ turn[a].thread <= Len(threads) /\ turn[a].from <= Len(said)
      BY DEF AgTypes
<1>2. turn[a].thread \in Nat /\ turn[a].from \in Nat  BY <1>1 DEF ReadOf
<1>. QED  BY <1>1, <1>2, SaidAre

\* What one actor learns.
LEMMA TurnSet ==
    ASSUME AgTypes, NEW a \in Actor, NEW r \in ReadOf, turn' = [turn EXCEPT ![a] = r]
    PROVE  /\ turn' \in [Actor -> ReadOf] /\ turn'[a] = r
           /\ \A b \in Actor \ {a} : turn'[b] = turn[b]
BY DEF AgTypes

LEMMA LearnsOutcome ==
    ASSUME AgTypes, NEW a \in Actor, NEW o \in Outcomes, Learns(a, "outcome", o)
    PROVE  /\ turn' \in [Actor -> ReadOf]
           /\ \A b \in Actor \ {a} : turn'[b] = turn[b]
           /\ turn'[a].outcome = o /\ turn'[a].test = turn[a].test
           /\ turn'[a].thread = turn[a].thread /\ turn'[a].from = turn[a].from
<1>. DEFINE r == [turn[a] EXCEPT !.outcome = o]
<1>1. turn[a] \in ReadOf  BY ReadsAre
<1>2. /\ r \in ReadOf /\ r.outcome = o /\ r.test = turn[a].test
      /\ r.thread = turn[a].thread /\ r.from = turn[a].from
      BY <1>1 DEF ReadOf
<1>3. turn' = [turn EXCEPT ![a] = r]  BY DEF Learns
<1>. HIDE DEF r
<1>. QED  BY <1>2, <1>3, TurnSet

LEMMA Frees ==
    ASSUME AgTypes, NEW a \in Actor, LetsGo(a)
    PROVE  /\ at' \in [Actor -> Waiting \cup Speaking \cup {"done", "claiming", "typing"}]
           /\ at'[a] = (IF a = Staff THEN "idle" ELSE "done")
           /\ \A b \in Actor \ {a} : at'[b] = at[b] /\ turn'[b] = turn[b]
           /\ turn' \in [Actor -> ReadOf]
           /\ turn'[a].thread = turn[a].thread /\ turn'[a].from = turn[a].from
           /\ turn'[a].test = turn[a].test
<1>. DEFINE r == [turn[a] EXCEPT !.mayQuote = FALSE, !.taken = FALSE, !.outcome = "FAILED"]
            place == IF a = Staff THEN "idle" ELSE "done"
<1>1. turn[a] \in ReadOf  BY ReadsAre
<1>2. "FAILED" \in Outcomes  BY DEF Outcomes, RANK
<1>3. /\ r \in ReadOf /\ r.test = turn[a].test
      /\ r.thread = turn[a].thread /\ r.from = turn[a].from
      BY <1>1, <1>2 DEF ReadOf
<1>4. turn' = [turn EXCEPT ![a] = r]
      <2>1. turn' = [turn EXCEPT ![a].mayQuote = FALSE, ![a].taken = FALSE,
                                 ![a].outcome = "FAILED"]
            BY DEF LetsGo
      <2>. QED  BY <2>1 DEF AgTypes
<1>5. To(a, place)  BY DEF LetsGo
<1>6. place \in Waiting \cup {"done"}  BY DEF Waiting
<1>. HIDE DEF r, place
<1>7. /\ turn' \in [Actor -> ReadOf] /\ turn'[a] = r
      /\ \A b \in Actor \ {a} : turn'[b] = turn[b]
      BY <1>3, <1>4, TurnSet
<1>8. /\ at' \in [Actor -> Waiting \cup Speaking \cup {"done", "claiming", "typing"}]
      /\ at'[a] = place /\ \A b \in Actor \ {a} : at'[b] = at[b]
      BY <1>5, <1>6, Placed
<1>. QED  BY <1>3, <1>7, <1>8 DEF place

LEMMA AgTyped ==
    ASSUME AgTypes, Grown, threads' \in Seq(Thread), said' \in Seq(Line),
           \A m \in DOMAIN said' : said'[m].thread <= Len(threads'),
           guardrails' \in [live: BOOLEAN, reviewed: BOOLEAN, mayQuote: BOOLEAN],
           switches' \in 0 .. MaxSwitches, scene' = scene, filed' \subseteq Turn,
           lost' \subseteq Turn, NEW a \in Actor,
           at' \in [Actor -> Waiting \cup Speaking \cup {"done", "claiming", "typing"}],
           turn' \in [Actor -> ReadOf], \A b \in Actor \ {a} : turn'[b] = turn[b],
           turn'[a].thread <= Len(threads'), turn'[a].from <= Len(said')
    PROVE  AgTypes'
<1>1. ASSUME NEW b \in Actor
      PROVE  turn'[b].thread <= Len(threads') /\ turn'[b].from <= Len(said')
      <2>1. CASE b = a  BY <2>1
      <2>2. CASE b # a
            <3>1. turn'[b] = turn[b]  BY <2>2
            <3>2. /\ turn[b].thread <= Len(threads) /\ turn[b].from <= Len(said)
                  /\ turn[b].thread \in Nat /\ turn[b].from \in Nat
                  BY ReadsAre
            <3>3. Len(said) <= Len(said') /\ Len(threads) <= Len(threads')  BY DEF Grown
            <3>4. /\ Len(said) \in Nat /\ Len(threads) \in Nat
                  /\ Len(said') \in Nat /\ Len(threads') \in Nat
                  BY SaidAre, LenProperties
            <3>. QED  BY <3>1, <3>2, <3>3, <3>4
      <2>. QED  BY <2>1, <2>2
<1>2. scene' \in Scenes  BY DEF AgTypes
<1>. QED  BY <1>1, <1>2 DEF AgTypes

LEMMA NothingSaid ==
    ASSUME AgTypes, said' = said, threads' = threads
    PROVE  /\ Grown /\ threads' \in Seq(Thread) /\ said' \in Seq(Line)
           /\ \A m \in DOMAIN said' : said'[m].thread <= Len(threads')
<1>1. Len(said) \in Nat /\ Len(threads) \in Nat  BY SaidAre
<1>. QED  BY <1>1 DEF Grown, AgTypes

\* A turn moves and says nothing.
LEMMA TurnMovesOn ==
    ASSUME AgInv, NEW t \in Turn, AgTypes', UNCHANGED <<guardrails, threads, said>>,
           \A b \in Actor \ {t} : at'[b] = at[b] /\ turn'[b] = turn[b],
           \A u \in Turn \ {t} : u \in filed' <=> u \in filed, lost \subseteq lost',
           TurnSo(t)', RanksSo(t)',
           turn[t].thread # 0 =>
               turn'[t].thread = turn[t].thread /\ turn'[t].from = turn[t].from
    PROVE  AgInv'
<1>t. AgTypes  BY AgHas
<1>e. guardrails' = guardrails /\ threads' = threads /\ said' = said  OBVIOUS
<1>1. Grown  BY <1>t, <1>e, NothingSaid
<1>2. \A i \in DOMAIN threads' : ThreadSo(i)'
      BY <1>e, AgHas DEF ThreadSo, OfPerson, Earned, SaidIn
<1>3. BuyerTurns' = BuyerTurns  BY <1>e DEF BuyerTurns
<1>4. t \in Actor /\ t # Staff  BY BuyerAgentAssumption DEF Actor
<1>5. guardrails'.live \/ BuyerTurns' # {} => guardrails.live \/ BuyerTurns # {} \/ Ready
      BY <1>3
<1>6. \A m \in DOMAIN said' : m \notin DOMAIN said => LineSo(m)'  BY <1>e
<1>. QED  BY <1>1, <1>2, <1>4, <1>5, <1>6, AgStep

\* A turn that has not joined a conversation yet.
LEMMA StillWaiting ==
    ASSUME NEW t \in Turn, at'[t] \in {"refused", "asked", "gated", "alone", "done"},
           turn'[t].thread = 0, t \notin filed',
           at'[t] \in {"gated", "alone"} /\ ~turn'[t].test => Ready',
           at'[t] = "refused" => Cardinality(BuyerTurns') >= TurnLimit
    PROVE  TurnSo(t)' /\ RanksSo(t)'
<1>1. at'[t] \notin Speaking \cup {"claiming", "typing", "joined", "routing", "writing",
                                   "ranking", "marking"}
      BY DEF Speaking
<1>. QED  BY <1>1 DEF TurnSo, RanksSo, Speaking

LEMMA BuyerAsksKept ==
    ASSUME AgInv, NEW t \in Turn, BuyerAsks(t)
    PROVE  AgInv'
<1>t. AgTypes /\ TurnSo(t) /\ t \in Actor  BY AgHas DEF Actor
<1>e. /\ scene' = scene /\ guardrails' = guardrails /\ switches' = switches
      /\ threads' = threads /\ said' = said /\ filed' = filed /\ lost' = lost /\ turn' = turn
      BY DEF BuyerAsks
<1>1. PICK recent \in SUBSET BuyerTurns :
        To(t, IF overTurnLimit(recent) THEN "refused" ELSE "asked")
      BY DEF BuyerAsks
<1>. DEFINE place == IF overTurnLimit(recent) THEN "refused" ELSE "asked"
<1>2. place \in Waiting /\ place \in {"refused", "asked"}  BY DEF Waiting
<1>3. place = "refused" => Cardinality(recent) >= TurnLimit  BY DEF overTurnLimit
<1>4. To(t, place)  BY <1>1
<1>. HIDE DEF place
<1>5. /\ at' \in [Actor -> Waiting \cup Speaking \cup {"done", "claiming", "typing"}]
      /\ at'[t] = place /\ \A b \in Actor \ {t} : at'[b] = at[b]
      BY <1>t, <1>2, <1>4, Placed
<1>6. AgTypes'  BY <1>t, <1>e, <1>5 DEF AgTypes
<1>7. place = "refused" => Cardinality(BuyerTurns) >= TurnLimit
      <2>1. IsFiniteSet(BuyerTurns)  BY <1>t, SaidAre
      <2>2. /\ Cardinality(recent) <= Cardinality(BuyerTurns)
            /\ Cardinality(recent) \in Nat /\ Cardinality(BuyerTurns) \in Nat
            BY <2>1, FS_Subset, FS_CardinalityType
      <2>. QED  BY <1>3, <2>2, BuyerAgentAssumption
<1>8. BuyerTurns' = BuyerTurns  BY <1>e DEF BuyerTurns
<1>9. turn[t].thread = 0 /\ t \notin filed
      BY <1>t DEF BuyerAsks, Begins, TurnSo, Waiting
<1>10. TurnSo(t)' /\ RanksSo(t)'
       BY <1>2, <1>5, <1>7, <1>8, <1>9, <1>e, StillWaiting
<1>. QED  BY <1>e, <1>5, <1>6, <1>10, TurnMovesOn

LEMMA MerchantRehearsesKept ==
    ASSUME AgInv, NEW t \in Turn, MerchantRehearses(t)
    PROVE  AgInv'
<1>t. AgTypes /\ TurnSo(t) /\ t \in Actor  BY AgHas DEF Actor
<1>e. /\ scene' = scene /\ guardrails' = guardrails /\ switches' = switches
      /\ threads' = threads /\ said' = said /\ filed' = filed /\ lost' = lost
      /\ To(t, "asked") /\ at[t] = "idle"
      BY DEF MerchantRehearses, Begins
<1>. DEFINE r == [turn[t] EXCEPT !.test = TRUE]
<1>1. r \in ReadOf /\ r.thread = turn[t].thread /\ r.from = turn[t].from
      BY <1>t, ReadsAre DEF ReadOf
<1>2. turn' = [turn EXCEPT ![t] = r]  BY DEF MerchantRehearses, Learns
<1>. HIDE DEF r
<1>3. /\ turn' \in [Actor -> ReadOf] /\ turn'[t] = r
      /\ \A b \in Actor \ {t} : turn'[b] = turn[b]
      BY <1>t, <1>1, <1>2, TurnSet
<1>5. /\ at' \in [Actor -> Waiting \cup Speaking \cup {"done", "claiming", "typing"}]
      /\ at'[t] = "asked" /\ \A b \in Actor \ {t} : at'[b] = at[b]
      BY <1>t, <1>e, Placed DEF Waiting
<1>6. AgTypes'
      <2>1. \A a \in Actor : turn'[a].thread <= Len(threads') /\ turn'[a].from <= Len(said')
            BY <1>t, <1>e, <1>1, <1>3, ReadsAre
      <2>. QED  BY <1>t, <1>e, <1>3, <1>5, <2>1 DEF AgTypes
<1>9. turn[t].thread = 0 /\ t \notin filed  BY <1>t, <1>e DEF TurnSo, Waiting
<1>10. TurnSo(t)' /\ RanksSo(t)'
       BY <1>1, <1>3, <1>5, <1>9, <1>e, StillWaiting
<1>. QED  BY <1>e, <1>3, <1>5, <1>6, <1>9, <1>10, TurnMovesOn

LEMMA LoadsGuardrailsKept ==
    ASSUME AgInv, NEW t \in Turn, LoadsGuardrails(t)
    PROVE  AgInv'
<1>t. AgTypes /\ TurnSo(t) /\ t \in Actor  BY AgHas DEF Actor
<1>. DEFINE place == IF guardrails.live \/ turn[t].test THEN "gated" ELSE "done"
            r == [turn[t] EXCEPT !.mayQuote = guardrails.mayQuote]
<1>e. /\ scene' = scene /\ guardrails' = guardrails /\ switches' = switches
      /\ threads' = threads /\ said' = said /\ filed' = filed /\ lost' = lost
      /\ To(t, place) /\ at[t] = "asked"
      BY DEF LoadsGuardrails
<1>g. guardrails.mayQuote \in BOOLEAN  BY <1>t DEF AgTypes
<1>1. r \in ReadOf /\ r.thread = turn[t].thread /\ r.from = turn[t].from /\ r.test = turn[t].test
      <2>1. turn[t] \in ReadOf  BY <1>t, ReadsAre
      <2>. QED  BY <1>g, <2>1 DEF ReadOf
<1>2. turn' = [turn EXCEPT ![t] = r]  BY DEF LoadsGuardrails, Learns
<1>p. /\ place \in {"gated", "done"}
      /\ place = "gated" => guardrails.live \/ turn[t].test
      OBVIOUS
<1>. HIDE DEF r, place
<1>3. /\ turn' \in [Actor -> ReadOf] /\ turn'[t] = r
      /\ \A b \in Actor \ {t} : turn'[b] = turn[b]
      BY <1>t, <1>1, <1>2, TurnSet
<1>5. /\ at' \in [Actor -> Waiting \cup Speaking \cup {"done", "claiming", "typing"}]
      /\ at'[t] = place /\ \A b \in Actor \ {t} : at'[b] = at[b]
      BY <1>t, <1>e, <1>p, Placed DEF Waiting
<1>6. AgTypes'
      <2>1. \A a \in Actor : turn'[a].thread <= Len(threads') /\ turn'[a].from <= Len(said')
            BY <1>t, <1>e, <1>1, <1>3, ReadsAre
      <2>. QED  BY <1>t, <1>e, <1>3, <1>5, <2>1 DEF AgTypes
<1>9. turn[t].thread = 0 /\ t \notin filed  BY <1>t, <1>e DEF TurnSo, Waiting
<1>r. at'[t] \in {"gated", "alone"} /\ ~turn'[t].test => Ready'
      <2>1. guardrails.live => Ready  BY DEF AgInv
      <2>2. Ready' = Ready  BY <1>e DEF Ready, rehearsalCompleted
      <2>. QED  BY <2>1, <2>2, <1>1, <1>3, <1>5, <1>p
<1>10. TurnSo(t)' /\ RanksSo(t)'
       BY <1>1, <1>3, <1>5, <1>9, <1>e, <1>p, <1>r, StillWaiting
<1>. QED  BY <1>e, <1>3, <1>5, <1>6, <1>9, <1>10, TurnMovesOn

\* What a turn knows of the conversation it joins.
LEMMA JoinsIt ==
    ASSUME AgTypes, NEW t \in Turn, NEW i \in Nat, NEW taken \in BOOLEAN, Joins(t, i, taken)
    PROVE  /\ turn' \in [Actor -> ReadOf]
           /\ \A b \in Actor \ {t} : turn'[b] = turn[b]
           /\ turn'[t].thread = i /\ turn'[t].taken = taken /\ turn'[t].from = Len(said)
           /\ turn'[t].test = turn[t].test
<1>. DEFINE r == [turn[t] EXCEPT !.thread = i, !.taken = taken, !.from = Len(said)]
<1>t. t \in Actor  BY DEF Actor
<1>1. turn[t] \in ReadOf  BY <1>t, ReadsAre
<1>2. Len(said) \in Nat  BY SaidAre
<1>3. /\ r \in ReadOf /\ r.thread = i /\ r.taken = taken /\ r.from = Len(said)
      /\ r.test = turn[t].test
      BY <1>1, <1>2 DEF ReadOf
<1>4. turn' = [turn EXCEPT ![t] = r]
      <2>1. turn' = [turn EXCEPT ![t].thread = i, ![t].taken = taken, ![t].from = Len(said)]
            BY DEF Joins
      <2>. QED  BY <2>1 DEF AgTypes
<1>. HIDE DEF r
<1>. QED  BY <1>t, <1>3, <1>4, TurnSet

\* A turn that has just joined one.
LEMMA JoinedSo ==
    ASSUME NEW t \in Turn, at'[t] = "joined", turn'[t].thread # 0, t \notin filed',
           threads'[turn'[t].thread].test = turn'[t].test,
           turn'[t].taken \/ HeardNone(t)', ~turn'[t].test => Ready'
    PROVE  TurnSo(t)' /\ RanksSo(t)'
BY DEF TurnSo, RanksSo, Waiting, Speaking

LEMMA FindsThreadKept ==
    ASSUME AgInv, NEW t \in Turn, FindsThread(t)
    PROVE  AgInv'
<1>t. AgTypes /\ TurnSo(t) /\ t \in Actor  BY AgHas DEF Actor
<1>e. /\ scene' = scene /\ guardrails' = guardrails /\ switches' = switches
      /\ threads' = threads /\ said' = said /\ filed' = filed /\ lost' = lost
      /\ at[t] = "gated"
      BY DEF FindsThread
<1>9. turn[t].thread = 0 /\ t \notin filed  BY <1>t, <1>e DEF TurnSo, Waiting
<1>r. ~turn[t].test => Ready'
      <2>1. ~turn[t].test => Ready  BY <1>t, <1>e DEF TurnSo
      <2>2. Ready' = Ready  BY <1>e DEF Ready, rehearsalCompleted
      <2>. QED  BY <2>1, <2>2
<1>1. CASE Joinable(t) = {}
      <2>1. To(t, "alone") /\ turn' = turn  BY <1>1 DEF FindsThread
      <2>2. /\ at' \in [Actor -> Waiting \cup Speaking \cup {"done", "claiming", "typing"}]
            /\ at'[t] = "alone" /\ \A b \in Actor \ {t} : at'[b] = at[b]
            BY <1>t, <2>1, Placed DEF Waiting
      <2>3. AgTypes'  BY <1>t, <1>e, <2>1, <2>2 DEF AgTypes
      <2>4. TurnSo(t)' /\ RanksSo(t)'
            BY <2>1, <2>2, <1>9, <1>e, <1>r, StillWaiting
      <2>. QED  BY <1>e, <2>1, <2>2, <2>3, <2>4, TurnMovesOn
<1>2. CASE Joinable(t) # {}
      <2>1. PICK i \in Joinable(t) : To(t, "joined") /\ Joins(t, i, threads[i].taken)
            BY <1>2 DEF FindsThread
      <2>2. i \in DOMAIN threads /\ threads[i].test = turn[t].test  BY DEF Joinable
      <2>3. i \in Nat /\ i # 0 /\ i <= Len(threads) /\ threads[i] \in Thread
            BY <1>t, <2>2, SaidAre
      <2>4. threads[i].taken \in BOOLEAN  BY <2>3 DEF Thread
      <2>5. /\ turn' \in [Actor -> ReadOf]
            /\ \A b \in Actor \ {t} : turn'[b] = turn[b]
            /\ turn'[t].thread = i /\ turn'[t].taken = threads[i].taken
            /\ turn'[t].from = Len(said) /\ turn'[t].test = turn[t].test
            BY <1>t, <2>1, <2>3, <2>4, JoinsIt
      <2>6. /\ at' \in [Actor -> Waiting \cup Speaking \cup {"done", "claiming", "typing"}]
            /\ at'[t] = "joined" /\ \A b \in Actor \ {t} : at'[b] = at[b]
            BY <1>t, <2>1, Placed DEF Speaking
      <2>7. AgTypes'
            <3>1. \A a \in Actor : turn'[a].thread <= Len(threads') /\ turn'[a].from <= Len(said')
                  BY <1>t, <1>e, <2>3, <2>5, ReadsAre, SaidAre
            <3>. QED  BY <1>t, <1>e, <2>5, <2>6, <3>1 DEF AgTypes
      <2>8. threads[i].taken \/ HeardNone(t)'
            <3>1. ThreadSo(i)  BY <2>2, AgHas
            <3>. QED  BY <3>1, <2>5, <1>e DEF ThreadSo, HeardNone, OfPerson
      <2>9. TurnSo(t)' /\ RanksSo(t)'
            BY <2>2, <2>3, <2>5, <2>6, <2>8, <1>9, <1>e, <1>r, JoinedSo
      <2>. QED  BY <1>e, <1>9, <2>5, <2>6, <2>7, <2>9, TurnMovesOn
<1>. QED  BY <1>1, <1>2

LEMMA OpensThreadKept ==
    ASSUME AgInv, NEW t \in Turn, OpensThread(t)
    PROVE  AgInv'
<1>t. AgTypes /\ TurnSo(t) /\ t \in Actor /\ t # Staff
      BY AgHas, BuyerAgentAssumption DEF Actor
<1>. DEFINE new == Len(threads) + 1
<1>e. /\ scene' = scene /\ guardrails' = guardrails /\ switches' = switches
      /\ said' = said /\ filed' = filed /\ lost' = lost
      /\ at[t] = "alone" /\ To(t, "joined") /\ Joins(t, new, FALSE)
      /\ threads' = Append(threads, Fresh(turn[t].test))
      BY DEF OpensThread
<1>9. turn[t].thread = 0 /\ t \notin filed  BY <1>t, <1>e DEF TurnSo, Waiting
<1>s. /\ Len(threads) \in Nat /\ DOMAIN threads = 1 .. Len(threads) /\ Len(said) \in Nat
      /\ \A m \in DOMAIN said : said[m].thread \in DOMAIN threads
      BY <1>t, SaidAre
<1>1. Fresh(turn[t].test) \in Thread
      <2>1. turn[t].test \in BOOLEAN  BY <1>t, ReadsAre DEF ReadOf
      <2>2. "FAILED" \in Outcomes  BY DEF Outcomes, RANK
      <2>. QED  BY <2>1, <2>2 DEF Fresh, Thread
<1>2. threads \in Seq(Thread) /\ said \in Seq(Line)  BY <1>t DEF AgTypes
<1>3. /\ threads' \in Seq(Thread) /\ Len(threads') = new /\ DOMAIN threads' = 1 .. new
      /\ threads'[new] = Fresh(turn[t].test)
      /\ \A i \in DOMAIN threads : i \in DOMAIN threads' /\ threads'[i] = threads[i]
      BY <1>e, <1>1, <1>2, <1>s, AppendProperties, LenProperties
<1>4. Grown  BY <1>3, <1>s, <1>e DEF Grown
<1>5. /\ turn' \in [Actor -> ReadOf]
      /\ \A b \in Actor \ {t} : turn'[b] = turn[b]
      /\ turn'[t].thread = new /\ turn'[t].taken = FALSE
      /\ turn'[t].from = Len(said) /\ turn'[t].test = turn[t].test
      <2>1. PICK j \in Nat : j = new  BY <1>s
      <2>2. Joins(t, j, FALSE)  BY <2>1, <1>e
      <2>3. FALSE \in BOOLEAN  OBVIOUS
      <2>4. /\ turn' \in [Actor -> ReadOf]
            /\ \A b \in Actor \ {t} : turn'[b] = turn[b]
            /\ turn'[t].thread = j /\ turn'[t].taken = FALSE
            /\ turn'[t].from = Len(said) /\ turn'[t].test = turn[t].test
            BY <1>t, <2>2, <2>3, JoinsIt
      <2>. QED  BY <2>1, <2>4
<1>6. /\ at' \in [Actor -> Waiting \cup Speaking \cup {"done", "claiming", "typing"}]
      /\ at'[t] = "joined" /\ \A b \in Actor \ {t} : at'[b] = at[b]
      BY <1>t, <1>e, Placed DEF Speaking
<1>7. AgTypes'
      <2>1. said' \in Seq(Line) /\ \A m \in DOMAIN said' : said'[m].thread <= Len(threads')
            BY <1>2, <1>3, <1>e, <1>s
      <2>2. turn'[t].thread <= Len(threads') /\ turn'[t].from <= Len(said')
            BY <1>3, <1>5, <1>e, <1>s
      <2>3. /\ guardrails' \in [live: BOOLEAN, reviewed: BOOLEAN, mayQuote: BOOLEAN]
            /\ switches' \in 0 .. MaxSwitches /\ filed' \subseteq Turn /\ lost' \subseteq Turn
            BY <1>t, <1>e DEF AgTypes
      <2>. QED  BY <1>t, <1>e, <1>3, <1>4, <1>5, <1>6, <2>1, <2>2, <2>3, AgTyped
<1>8. \A n \in DOMAIN said : said[n].thread # new
      <2>1. \A n \in DOMAIN said : said[n].thread \in 1 .. Len(threads)  BY <1>s
      <2>. QED  BY <2>1, <1>s
<1>10. TurnSo(t)' /\ RanksSo(t)'
      <2>1. HeardNone(t)'  BY <1>5, <1>8, <1>e DEF HeardNone
      <2>2. ~turn'[t].test => Ready'
            <3>1. ~turn[t].test => Ready  BY <1>t, <1>e DEF TurnSo
            <3>2. Ready => Ready'  BY <1>t, <1>4, <1>7, <1>e, ReadyStays
            <3>. QED  BY <3>1, <3>2, <1>5
      <2>3. threads'[new].test = turn'[t].test  BY <1>3, <1>5 DEF Fresh
      <2>4. new # 0  BY <1>s
      <2>. QED  BY <2>1, <2>2, <2>3, <2>4, <1>5, <1>6, <1>9, <1>e, JoinedSo
<1>11. ASSUME NEW i \in DOMAIN threads' PROVE ThreadSo(i)'
      <2>1. CASE i \in DOMAIN threads
            <3>1. ThreadSo(i) /\ threads'[i] = threads[i]  BY <2>1, <1>3, AgHas
            <3>. QED  BY <3>1, <1>e DEF ThreadSo, OfPerson, Earned, SaidIn
      <2>2. CASE i \notin DOMAIN threads
            <3>1. i = new  BY <2>2, <1>3, <1>s
            <3>2. threads'[i].outcome = "FAILED"  BY <3>1, <1>3 DEF Fresh
            <3>. QED  BY <3>1, <3>2, <1>8, <1>e DEF ThreadSo, Earned
      <2>. QED  BY <2>1, <2>2
<1>12. BuyerTurns' = BuyerTurns
      BY <1>e, <1>3, <1>s DEF BuyerTurns
<1>13. /\ \A m \in DOMAIN said' : m \notin DOMAIN said => LineSo(m)'
       /\ \A u \in Turn \ {t} : u \in filed' <=> u \in filed
       /\ lost \subseteq lost' /\ (guardrails.reviewed => guardrails'.reviewed)
       BY <1>e
<1>14. guardrails'.live \/ BuyerTurns' # {} => guardrails.live \/ BuyerTurns # {} \/ Ready
      BY <1>12, <1>e
<1>. QED  BY <1>t, <1>4, <1>5, <1>6, <1>7, <1>9, <1>10, <1>11, <1>13, <1>14, AgStep

\* A line is said in a conversation, which may change in what else it keeps.
LEMMA LineSaid ==
    ASSUME AgTypes, NEW i \in DOMAIN threads, NEW l \in Line, l.thread = i,
           NEW r \in Thread, r.test = threads[i].test,
           said' = Append(said, l), threads' = [threads EXCEPT ![i] = r]
    PROVE  /\ Grown /\ threads' \in Seq(Thread) /\ said' \in Seq(Line)
           /\ DOMAIN threads' = DOMAIN threads /\ Len(threads') = Len(threads)
           /\ DOMAIN said' = 1 .. Len(said) + 1 /\ Len(said') = Len(said) + 1
           /\ said'[Len(said) + 1] = l
           /\ \A m \in DOMAIN said : m \in DOMAIN said' /\ said'[m] = said[m]
           /\ threads'[i] = r /\ \A j \in DOMAIN threads \ {i} : threads'[j] = threads[j]
           /\ \A m \in DOMAIN said' : said'[m].thread <= Len(threads')
<1>1. /\ Len(said) \in Nat /\ DOMAIN said = 1 .. Len(said)
      /\ Len(threads) \in Nat /\ DOMAIN threads = 1 .. Len(threads)
      /\ \A m \in DOMAIN said : said[m].thread \in DOMAIN threads
      BY SaidAre
<1>2. said \in Seq(Line) /\ threads \in Seq(Thread)  BY DEF AgTypes
<1>3. /\ said' \in Seq(Line) /\ Len(said') = Len(said) + 1
      /\ DOMAIN said' = 1 .. Len(said) + 1 /\ said'[Len(said) + 1] = l
      /\ \A m \in DOMAIN said : m \in DOMAIN said' /\ said'[m] = said[m]
      BY <1>1, <1>2, AppendProperties, LenProperties
<1>4. /\ threads' \in Seq(Thread) /\ Len(threads') = Len(threads)
      /\ DOMAIN threads' = DOMAIN threads
      BY <1>1, <1>2, ExceptSeq, LenProperties
<1>5. threads'[i] = r /\ \A j \in DOMAIN threads \ {i} : threads'[j] = threads[j]
      OBVIOUS
<1>6. Grown
      <2>1. \A j \in DOMAIN threads : threads'[j].test = threads[j].test  BY <1>5
      <2>. QED  BY <1>1, <1>3, <1>4, <2>1 DEF Grown
<1>7. ASSUME NEW m \in DOMAIN said' PROVE said'[m].thread <= Len(threads')
      <2>1. CASE m \in DOMAIN said  BY <1>1, <1>3, <1>4, <2>1
      <2>2. CASE m \notin DOMAIN said
            <3>1. m = Len(said) + 1  BY <1>1, <1>3, <2>2
            <3>. QED  BY <3>1, <1>1, <1>3, <1>4
      <2>. QED  BY <2>1, <2>2
<1>. QED  BY <1>3, <1>4, <1>5, <1>6, <1>7

Saying == {"asked", "answered", "quoted", "failed", "failed_quoted", "declined"}

\* A turn says something in the conversation it joined.
LEMMA TurnSpeaks ==
    ASSUME AgInv, NEW t \in Turn, at[t] \in Speaking, NEW who \in {"BUYER", "AGENT"},
           NEW kind \in Saying, appendTurn(turn[t].thread, who, kind, t),
           scene' = scene, guardrails' = guardrails, switches' = switches,
           filed' = filed, lost' = lost,
           at' \in [Actor -> Waiting \cup Speaking \cup {"done", "claiming", "typing"}],
           turn' \in [Actor -> ReadOf], \A b \in Actor \ {t} : turn'[b] = turn[b],
           turn'[t].thread = turn[t].thread, turn'[t].from = turn[t].from
    PROVE  /\ AgTypes' /\ Grown
           /\ DOMAIN threads' = DOMAIN threads
           /\ DOMAIN said' = 1 .. Len(said) + 1
           /\ said'[Len(said) + 1] = Utterance(turn[t].thread, who, kind, t)
           /\ \A i \in DOMAIN threads : /\ threads'[i].test = threads[i].test
                                        /\ threads'[i].taken = threads[i].taken
                                        /\ threads'[i].outcome = threads[i].outcome
<1>. DEFINE i == turn[t].thread
            l == Utterance(i, who, kind, t)
            r == [threads[i] EXCEPT !.fresh = TRUE]
<1>t. AgTypes /\ TurnSo(t) /\ t \in Actor  BY AgHas DEF Actor
<1>1. i # 0  BY <1>t DEF TurnSo
<1>2. i \in DOMAIN threads /\ i \in Nat  BY <1>t, <1>1, ReadsAre
<1>3. threads[i] \in Thread  BY <1>t, <1>2, SaidAre
<1>4. /\ r \in Thread /\ r.test = threads[i].test /\ r.taken = threads[i].taken
      /\ r.outcome = threads[i].outcome
      BY <1>3 DEF Thread
<1>5. l \in Line /\ l.thread = i  BY <1>1, <1>2, <1>t DEF Utterance, Line, Saying
<1>6. said' = Append(said, l)  BY DEF appendTurn
<1>7. threads' = [threads EXCEPT ![i] = r]
      <2>1. threads' = [threads EXCEPT ![i].fresh = TRUE]  BY DEF appendTurn
      <2>. QED  BY <2>1, <1>t DEF AgTypes
<1>8. PICK k : k = i  OBVIOUS
<1>. HIDE DEF l, r
<1>9. /\ Grown /\ threads' \in Seq(Thread) /\ said' \in Seq(Line)
      /\ DOMAIN threads' = DOMAIN threads /\ Len(threads') = Len(threads)
      /\ DOMAIN said' = 1 .. Len(said) + 1 /\ Len(said') = Len(said) + 1
      /\ said'[Len(said) + 1] = l
      /\ threads'[i] = r /\ \A j \in DOMAIN threads \ {i} : threads'[j] = threads[j]
      /\ \A m \in DOMAIN said' : said'[m].thread <= Len(threads')
      BY <1>t, <1>2, <1>4, <1>5, <1>6, <1>7, LineSaid
<1>10. turn'[t].thread <= Len(threads') /\ turn'[t].from <= Len(said')
       <2>1. turn[t].thread <= Len(threads) /\ turn[t].from <= Len(said) /\ turn[t].from \in Nat
             BY <1>t, ReadsAre
       <2>2. Len(said) \in Nat  BY <1>t, SaidAre
       <2>. QED  BY <2>1, <2>2, <1>9
<1>11. /\ guardrails' \in [live: BOOLEAN, reviewed: BOOLEAN, mayQuote: BOOLEAN]
       /\ switches' \in 0 .. MaxSwitches /\ filed' \subseteq Turn /\ lost' \subseteq Turn
       BY <1>t DEF AgTypes
<1>12. AgTypes'  BY <1>t, <1>9, <1>10, <1>11, AgTyped
<1>13. ASSUME NEW j \in DOMAIN threads
       PROVE  /\ threads'[j].test = threads[j].test
              /\ threads'[j].taken = threads[j].taken
              /\ threads'[j].outcome = threads[j].outcome
       <2>1. CASE j = i  BY <2>1, <1>9, <1>4
       <2>2. CASE j # i  BY <2>2, <1>9
       <2>. QED  BY <2>1, <2>2
<1>. QED  BY <1>9, <1>12, <1>13 DEF l

\* What it says keeps the rest, if it replies only where it heard nobody.
LEMMA SpeaksKept ==
    ASSUME AgInv, NEW t \in Turn, at[t] \in Speaking, NEW who \in {"BUYER", "AGENT"},
           NEW kind \in Saying, appendTurn(turn[t].thread, who, kind, t),
           scene' = scene, guardrails' = guardrails, switches' = switches,
           filed' = filed, lost' = lost,
           at' \in [Actor -> Waiting \cup Speaking \cup {"done", "claiming", "typing"}],
           turn' \in [Actor -> ReadOf],
           \A b \in Actor \ {t} : at'[b] = at[b] /\ turn'[b] = turn[b],
           turn'[t].thread = turn[t].thread, turn'[t].from = turn[t].from,
           kind \in {"answered", "quoted", "declined"} => HeardNone(t),
           TurnSo(t)', RanksSo(t)'
    PROVE  AgInv'
<1>n. PICK new : new = Len(said) + 1  OBVIOUS
<1>t. AgTypes /\ TurnSo(t) /\ t \in Actor /\ t # Staff
      BY AgHas, BuyerAgentAssumption DEF Actor
<1>1. /\ AgTypes' /\ Grown
      /\ DOMAIN threads' = DOMAIN threads /\ DOMAIN said' = 1 .. new
      /\ said'[new] = Utterance(turn[t].thread, who, kind, t)
      /\ \A i \in DOMAIN threads : /\ threads'[i].test = threads[i].test
                                   /\ threads'[i].taken = threads[i].taken
                                   /\ threads'[i].outcome = threads[i].outcome
      BY <1>t, <1>n, TurnSpeaks
<1>2. /\ said'[new].thread = turn[t].thread /\ said'[new].kind = kind
      /\ said'[new].by = t /\ said'[new].role = who
      BY <1>1 DEF Utterance
<1>3. /\ Len(said) \in Nat /\ DOMAIN said = 1 .. Len(said)
      /\ \A m \in DOMAIN said : said[m].thread \in DOMAIN threads
      /\ \A m \in DOMAIN said : m \in DOMAIN said' /\ said'[m] = said[m]
      BY <1>t, <1>1, SaidAre DEF Grown
<1>4. \A m \in DOMAIN said' : m \notin DOMAIN said => m = new
      BY <1>1, <1>3, <1>n
<1>5. ~OfPerson(new)'  BY <1>2 DEF OfPerson, Saying
<1>6. HeardNone(t) => HeardNone(t)'  BY <1>t, <1>1, HeardStays
<1>7. ASSUME NEW m \in DOMAIN said', m \notin DOMAIN said PROVE LineSo(m)'
      <2>1. m = new  BY <1>4, <1>7
      <2>2. said'[m].by = t /\ ~OfPerson(m)'  BY <2>1, <1>2, <1>5
      <2>3. turn'[t].thread = said'[m].thread  BY <2>1, <1>2
      <2>4. Replied(m)' => HeardNone(t)'  BY <2>1, <1>2, <1>6 DEF Replied
      <2>a. (said[m].by = Staff <=> OfPerson(m))'  BY <2>2, <1>t
      <2>b. (said[m].by = Staff => ~threads[said[m].thread].test)'  BY <2>2, <1>t
      <2>c. (said[m].by # Staff => turn[said[m].by].thread = said[m].thread)'
            BY <2>2, <2>3
      <2>d. (Replied(m) => HeardNone(said[m].by))'  BY <2>2, <2>4
      <2>. QED  BY <2>a, <2>b, <2>c, <2>d DEF LineSo
<1>8. ASSUME NEW i \in DOMAIN threads' PROVE ThreadSo(i)'
      <2>1. ThreadSo(i) /\ threads'[i].taken = threads[i].taken
            /\ threads'[i].outcome = threads[i].outcome
            BY <1>1, AgHas
      <2>2. (~threads[i].taken => \A n \in DOMAIN said : OfPerson(n) => said[n].thread # i)'
            <3>1. SUFFICES ASSUME ~threads'[i].taken, NEW n \in DOMAIN said', OfPerson(n)'
                           PROVE  said'[n].thread # i
                  OBVIOUS
            <3>2. n \in DOMAIN said  BY <3>1, <1>4, <1>5
            <3>3. said'[n] = said[n]  BY <3>2, <1>3
            <3>. QED  BY <3>1, <3>2, <3>3, <2>1 DEF ThreadSo, OfPerson
      <2>3. PICK o : o = threads[i].outcome  OBVIOUS
      <2>4. Earned(i, o)  BY <2>1, <2>3 DEF ThreadSo
      <2>5. Earned(i, o)'  BY <2>4, <1>t, <1>1, Stable
      <2>6. threads'[i].outcome = o  BY <2>1, <2>3
      <2>. QED  BY <2>2, <2>5, <2>6 DEF ThreadSo
<1>9. ASSUME BuyerTurns' # {} PROVE BuyerTurns # {} \/ Ready
      <2>1. PICK m \in DOMAIN said' : /\ said'[m].role = "BUYER"
                                      /\ ~threads'[said'[m].thread].test
            BY <1>9 DEF BuyerTurns
      <2>2. CASE m \in DOMAIN said
            <3>1. m \in BuyerTurns  BY <2>1, <2>2, <1>1, <1>3 DEF BuyerTurns
            <3>. QED  BY <3>1
      <2>3. CASE m \notin DOMAIN said
            <3>1. said'[m].thread = turn[t].thread  BY <2>3, <1>2, <1>4
            <3>2. turn[t].thread # 0 /\ turn[t].thread \in DOMAIN threads
                  BY <1>t, ReadsAre DEF TurnSo
            <3>3. ~threads[turn[t].thread].test  BY <3>1, <3>2, <2>1, <1>1
            <3>4. ~turn[t].test  BY <3>2, <3>3, <1>t DEF TurnSo
            <3>. QED  BY <3>4, <1>t DEF TurnSo
      <2>. QED  BY <2>2, <2>3
<1>10. guardrails'.live \/ BuyerTurns' # {} => guardrails.live \/ BuyerTurns # {} \/ Ready
       BY <1>9
<1>11. /\ \A u \in Turn \ {t} : u \in filed' <=> u \in filed
       /\ lost \subseteq lost' /\ (guardrails.reviewed => guardrails'.reviewed)
       OBVIOUS
<1>. QED  BY <1>t, <1>1, <1>7, <1>8, <1>10, <1>11, AgStep

\* A turn whose outcome is about to be ranked.
LEMMA RankingSo ==
    ASSUME NEW t \in Turn, at'[t] = "ranking", turn'[t].thread # 0,
           threads'[turn'[t].thread].test = turn'[t].test,
           t \in filed' => ~turn'[t].test, t \in filed' \ lost' => ToldBy(t)',
           ~turn'[t].test => Ready', Earned(turn[t].thread, turn[t].outcome)'
    PROVE  TurnSo(t)' /\ RanksSo(t)'
<1>1. RanksSo(t)'  BY DEF RanksSo
<1>2. at'[t] \notin Waiting \cup {"claiming", "typing", "joined", "routing", "writing",
                                  "refused", "done"}
      BY DEF Waiting
<1>3. TurnSo(t)'  BY <1>2 DEF TurnSo
<1>. QED  BY <1>1, <1>3

\* What stays of a turn that speaks and keeps its conversation.
LEMMA SpeakerStays ==
    ASSUME AgInv, NEW t \in Turn, at[t] \in Speaking, AgTypes', Grown,
           guardrails' = guardrails,
           turn'[t].thread = turn[t].thread, turn'[t].from = turn[t].from,
           turn'[t].test = turn[t].test
    PROVE  /\ turn'[t].thread # 0
           /\ threads'[turn'[t].thread].test = turn'[t].test
           /\ t \in filed => ~turn'[t].test
           /\ ~turn'[t].test => Ready'
           /\ HeardNone(t) => HeardNone(t)'
           /\ ToldBy(t) => ToldBy(t)'
<1>t. AgTypes /\ TurnSo(t) /\ t \in Actor  BY AgHas DEF Actor
<1>1. turn[t].thread # 0  BY <1>t DEF TurnSo
<1>2. turn[t].thread \in DOMAIN threads  BY <1>t, <1>1, ReadsAre
<1>3. threads'[turn[t].thread].test = threads[turn[t].thread].test  BY <1>2 DEF Grown
<1>4. threads'[turn'[t].thread].test = turn'[t].test  BY <1>1, <1>3, <1>t DEF TurnSo
<1>5. Ready => Ready'  BY <1>t, ReadyStays
<1>6. ~turn'[t].test => Ready'  BY <1>5, <1>t DEF TurnSo
<1>7. /\ HeardNone(t) => HeardNone(t)'
      /\ ToldBy(t) => ToldBy(t)'
      BY <1>t, HeardStays
<1>8. t \in filed => ~turn'[t].test  BY <1>t DEF TurnSo
<1>. QED  BY <1>1, <1>4, <1>6, <1>7, <1>8

LEMMA KeepsWordsKept ==
    ASSUME AgInv, NEW t \in Turn, KeepsWords(t)
    PROVE  AgInv'
<1>t. AgTypes /\ TurnSo(t) /\ t \in Actor  BY AgHas DEF Actor
<1>e. /\ scene' = scene /\ guardrails' = guardrails /\ switches' = switches
      /\ filed' = filed /\ lost' = lost
      /\ at[t] = "joined" /\ appendTurn(turn[t].thread, "BUYER", "asked", t)
      BY DEF KeepsWords
<1>1. at[t] \in Speaking /\ "asked" \in Saying  BY <1>e DEF Speaking, Saying
<1>2. t \notin filed /\ (turn[t].taken \/ HeardNone(t))  BY <1>t, <1>e DEF TurnSo
<1>3. CASE turn[t].taken
      <2>1. Learns(t, "outcome", "ESCALATED") /\ To(t, "ranking")
            BY <1>3 DEF KeepsWords, Recording
      <2>2. PICK o \in Outcomes : o = "ESCALATED"  BY DEF Outcomes, RANK
      <2>3. /\ turn' \in [Actor -> ReadOf]
            /\ \A b \in Actor \ {t} : turn'[b] = turn[b]
            /\ turn'[t].outcome = "ESCALATED" /\ turn'[t].test = turn[t].test
            /\ turn'[t].thread = turn[t].thread /\ turn'[t].from = turn[t].from
            BY <1>t, <2>1, <2>2, LearnsOutcome
      <2>4. /\ at' \in [Actor -> Waiting \cup Speaking \cup {"done", "claiming", "typing"}]
            /\ at'[t] = "ranking" /\ \A b \in Actor \ {t} : at'[b] = at[b]
            BY <1>t, <2>1, Placed DEF Speaking
      <2>5. AgTypes' /\ Grown  BY <1>e, <1>1, <2>3, <2>4, TurnSpeaks
      <2>6. /\ turn'[t].thread # 0
            /\ threads'[turn'[t].thread].test = turn'[t].test
            /\ ~turn'[t].test => Ready'
            BY <1>e, <1>1, <2>3, <2>5, SpeakerStays
      <2>7. Earned(turn[t].thread, turn[t].outcome)'  BY <2>3 DEF Earned
      <2>8. TurnSo(t)' /\ RanksSo(t)'
            BY <1>e, <1>2, <2>4, <2>6, <2>7, RankingSo
      <2>. QED  BY <1>e, <1>1, <2>3, <2>4, <2>8, SpeaksKept
<1>4. CASE ~turn[t].taken
      <2>1. turn' = turn /\ To(t, "routing")  BY <1>4 DEF KeepsWords
      <2>3. turn' \in [Actor -> ReadOf]  BY <2>1, <1>t DEF AgTypes
      <2>4. /\ at' \in [Actor -> Waiting \cup Speaking \cup {"done", "claiming", "typing"}]
            /\ at'[t] = "routing" /\ \A b \in Actor \ {t} : at'[b] = at[b]
            BY <1>t, <2>1, Placed DEF Speaking
      <2>5. AgTypes' /\ Grown  BY <1>e, <1>1, <2>1, <2>3, <2>4, TurnSpeaks
      <2>6. /\ turn'[t].thread # 0
            /\ threads'[turn'[t].thread].test = turn'[t].test
            /\ ~turn'[t].test => Ready'
            /\ HeardNone(t)'
            BY <1>e, <1>1, <1>2, <1>4, <2>1, <2>5, SpeakerStays
      <2>7. at'[t] \notin Waiting \cup {"claiming", "typing", "joined", "writing",
                                        "refused", "ranking", "marking", "done"}
            BY <2>4 DEF Waiting
      <2>8. TurnSo(t)'  BY <1>e, <1>2, <2>6, <2>7 DEF TurnSo
      <2>9. RanksSo(t)'  BY <2>7 DEF RanksSo
      <2>. QED  BY <1>e, <1>1, <2>1, <2>3, <2>4, <2>8, <2>9, SpeaksKept
<1>. QED  BY <1>3, <1>4

\* The agent's line, and the outcome the turn will ask for.
LEMMA SaysKept ==
    ASSUME AgInv, NEW t \in Turn, at[t] \in {"routing", "writing"},
           NEW kind \in Saying, NEW outcome \in Outcomes, Says(t, kind, outcome),
           t \in filed => kind \in {"quoted", "failed_quoted"},
           outcome = "QUOTE" => kind = "quoted",
           outcome \in {"ANSWERED", "CART"} => kind = "answered"
    PROVE  AgInv'
<1>t. AgTypes /\ TurnSo(t) /\ t \in Actor  BY AgHas DEF Actor
<1>e. /\ scene' = scene /\ guardrails' = guardrails /\ switches' = switches
      /\ filed' = filed /\ lost' = lost
      /\ appendTurn(turn[t].thread, "AGENT", kind, t)
      /\ Learns(t, "outcome", outcome) /\ To(t, "ranking")
      BY DEF Says, Recording
<1>1. at[t] \in Speaking  BY DEF Speaking
<1>2. HeardNone(t)  BY <1>t DEF TurnSo
<1>3. /\ turn' \in [Actor -> ReadOf]
      /\ \A b \in Actor \ {t} : turn'[b] = turn[b]
      /\ turn'[t].outcome = outcome /\ turn'[t].test = turn[t].test
      /\ turn'[t].thread = turn[t].thread /\ turn'[t].from = turn[t].from
      BY <1>t, <1>e, LearnsOutcome
<1>4. /\ at' \in [Actor -> Waiting \cup Speaking \cup {"done", "claiming", "typing"}]
      /\ at'[t] = "ranking" /\ \A b \in Actor \ {t} : at'[b] = at[b]
      BY <1>t, <1>e, Placed DEF Speaking
<1>5. /\ AgTypes' /\ Grown
      /\ DOMAIN said' = 1 .. Len(said) + 1
      /\ said'[Len(said) + 1] = Utterance(turn[t].thread, "AGENT", kind, t)
      BY <1>e, <1>1, <1>3, <1>4, TurnSpeaks
<1>6. /\ turn'[t].thread # 0
      /\ threads'[turn'[t].thread].test = turn'[t].test
      /\ t \in filed => ~turn'[t].test
      /\ ~turn'[t].test => Ready'
      BY <1>e, <1>1, <1>3, <1>5, SpeakerStays
<1>7. PICK new \in DOMAIN said' : said'[new] = Utterance(turn[t].thread, "AGENT", kind, t)
      <2>1. Len(said) \in Nat  BY <1>t, SaidAre
      <2>. QED  BY <2>1, <1>5
<1>8. /\ said'[new].thread = turn'[t].thread /\ said'[new].kind = kind /\ said'[new].by = t
      BY <1>3, <1>7 DEF Utterance
<1>9. t \in filed' \ lost' => ToldBy(t)'  BY <1>e, <1>8 DEF ToldBy
<1>10. Earned(turn[t].thread, turn[t].outcome)'
       BY <1>3, <1>8 DEF Earned, SaidIn
<1>11. TurnSo(t)' /\ RanksSo(t)'
       BY <1>e, <1>4, <1>6, <1>9, <1>10, RankingSo
<1>. QED  BY <1>e, <1>1, <1>2, <1>3, <1>4, <1>11, SpeaksKept

LEMMA TellsKept ==
    ASSUME AgInv, NEW t \in Turn,
           Declines(t) \/ FailsToRoute(t) \/ WritesReply(t) \/ CannotWrite(t)
    PROVE  AgInv'
<1>t. AgTypes /\ TurnSo(t) /\ t \in Actor  BY AgHas DEF Actor
<1>k. /\ "declined" \in Saying /\ "failed" \in Saying /\ "failed_quoted" \in Saying
      /\ "quoted" \in Saying /\ "answered" \in Saying
      /\ "DECLINED" \in Outcomes /\ "FAILED" \in Outcomes
      BY DEF Saying, Outcomes, RANK
<1>r. at[t] = "routing" => t \notin filed  BY <1>t DEF TurnSo
<1>1. CASE Declines(t)
      <2>1. at[t] = "routing" /\ Says(t, "declined", "DECLINED")  BY <1>1 DEF Declines
      <2>. QED  BY <2>1, <1>k, <1>r, SaysKept
<1>2. CASE FailsToRoute(t)
      <2>1. at[t] = "routing" /\ Says(t, "failed", "FAILED")  BY <1>2 DEF FailsToRoute
      <2>. QED  BY <2>1, <1>k, <1>r, SaysKept
<1>3. CASE WritesReply(t)
      <2>1. PICK kind \in Saying, outcome \in Outcomes :
              /\ kind = IF t \in filed THEN "quoted" ELSE "answered"
              /\ outcome = turn[t].outcome
            BY <1>k, <1>t, ReadsAre DEF ReadOf
      <2>2. at[t] = "writing" /\ Says(t, kind, outcome)  BY <1>3, <2>1 DEF WritesReply
      <2>3. t \in filed <=> outcome = "QUOTE"  BY <2>1, <2>2, <1>t DEF TurnSo
      <2>4. /\ t \in filed => kind \in {"quoted", "failed_quoted"}
            /\ outcome = "QUOTE" => kind = "quoted"
            /\ outcome \in {"ANSWERED", "CART"} => kind = "answered"
            BY <2>1, <2>3
      <2>. QED  BY <2>2, <2>4, SaysKept
<1>4. CASE CannotWrite(t)
      <2>1. PICK kind \in Saying : kind = IF t \in filed THEN "failed_quoted" ELSE "failed"
            BY <1>k
      <2>2. at[t] = "writing" /\ Says(t, kind, "FAILED")  BY <1>4, <2>1 DEF CannotWrite
      <2>3. t \in filed => kind \in {"quoted", "failed_quoted"}  BY <2>1
      <2>. QED  BY <2>2, <2>3, <1>k, SaysKept
<1>. QED  BY <1>1, <1>2, <1>3, <1>4

\* A tool has run: the reply is about to be written.
LEMMA WritesKept ==
    ASSUME AgInv, NEW t \in Turn, NEW outcome \in Verdicts \cup {"QUOTE"}, Writes(t, outcome),
           scene' = scene, guardrails' = guardrails, switches' = switches,
           threads' = threads, said' = said, lost' = lost,
           filed' = (IF outcome = "QUOTE" THEN filed \cup {t} ELSE filed),
           outcome = "QUOTE" => ~turn[t].test
    PROVE  AgInv'
<1>t. AgTypes /\ TurnSo(t) /\ t \in Actor  BY AgHas DEF Actor
<1>o. outcome \in Outcomes  BY BuyerAgentAssumption DEF Outcomes, RANK
<1>1. at[t] = "routing" /\ To(t, "writing") /\ Learns(t, "outcome", outcome)
      BY DEF Writes
<1>2. t \notin filed /\ HeardNone(t) /\ turn[t].thread # 0 /\ (~turn[t].test => Ready)
      BY <1>t, <1>1 DEF TurnSo, Speaking
<1>3. /\ turn' \in [Actor -> ReadOf]
      /\ \A b \in Actor \ {t} : turn'[b] = turn[b]
      /\ turn'[t].outcome = outcome /\ turn'[t].test = turn[t].test
      /\ turn'[t].thread = turn[t].thread /\ turn'[t].from = turn[t].from
      BY <1>t, <1>o, <1>1, LearnsOutcome
<1>4. /\ at' \in [Actor -> Waiting \cup Speaking \cup {"done", "claiming", "typing"}]
      /\ at'[t] = "writing" /\ \A b \in Actor \ {t} : at'[b] = at[b]
      BY <1>t, <1>1, Placed DEF Speaking
<1>f. /\ t \in filed' <=> outcome = "QUOTE"
      /\ filed' \subseteq Turn
      /\ \A u \in Turn \ {t} : u \in filed' <=> u \in filed
      BY <1>2, <1>t DEF AgTypes
<1>5. AgTypes'
      <2>1. \A a \in Actor : turn'[a].thread <= Len(threads') /\ turn'[a].from <= Len(said')
            BY <1>t, <1>3, ReadsAre
      <2>. QED  BY <1>t, <1>f, <1>3, <1>4, <2>1 DEF AgTypes
<1>6. Grown  BY <1>t, NothingSaid
<1>7. /\ turn'[t].thread # 0
      /\ threads'[turn'[t].thread].test = turn'[t].test
      /\ ~turn'[t].test => Ready'
      /\ HeardNone(t)'
      BY <1>1, <1>2, <1>3, <1>5, <1>6, SpeakerStays DEF Speaking
<1>8. at'[t] \notin Waiting \cup {"claiming", "typing", "joined", "routing",
                                  "refused", "ranking", "marking", "done"}
      BY <1>4 DEF Waiting
<1>9. TurnSo(t)'
      <2>a. (t \in filed => ~turn[t].test /\ at[t] \notin {"joined", "routing"})'
            BY <1>3, <1>f, <1>8
      <2>b. (at[t] = "writing" => /\ turn[t].outcome \in Verdicts \cup {"QUOTE"}
                                  /\ t \in filed <=> turn[t].outcome = "QUOTE")'
            BY <1>3, <1>f
      <2>. QED  BY <1>4, <1>7, <1>8, <2>a, <2>b DEF TurnSo
<1>10. RanksSo(t)'  BY <1>8 DEF RanksSo
<1>. QED  BY <1>3, <1>4, <1>5, <1>f, <1>9, <1>10, TurnMovesOn

LEMMA ToolsKept ==
    ASSUME AgInv, NEW t \in Turn, RunsTool(t) \/ requestQuote(t)
    PROVE  AgInv'
<1>1. CASE RunsTool(t)
      <2>1. PICK outcome \in Verdicts : Writes(t, outcome)  BY <1>1 DEF RunsTool
      <2>2. outcome # "QUOTE" /\ outcome \in Verdicts \cup {"QUOTE"}  BY BuyerAgentAssumption
      <2>3. /\ scene' = scene /\ guardrails' = guardrails /\ switches' = switches
            /\ threads' = threads /\ said' = said /\ lost' = lost /\ filed' = filed
            BY <1>1, <2>1 DEF RunsTool, Writes
      <2>. QED  BY <2>1, <2>2, <2>3, WritesKept
<1>2. CASE requestQuote(t)
      <2>1. PICK outcome \in Verdicts \cup {"QUOTE"} : outcome = "QUOTE"  OBVIOUS
      <2>2. Writes(t, outcome) /\ ~turn[t].test /\ filed' = filed \cup {t}
            BY <1>2, <2>1 DEF requestQuote
      <2>3. /\ scene' = scene /\ guardrails' = guardrails /\ switches' = switches
            /\ threads' = threads /\ said' = said /\ lost' = lost
            BY <2>2 DEF Writes
      <2>. QED  BY <2>1, <2>2, <2>3, WritesKept
<1>. QED  BY <1>1, <1>2

\* A turn that ends.
LEMMA EndedSo ==
    ASSUME AgInv, NEW t \in Turn, at[t] \notin Ended, LetsGo(t), AgTypes', Grown,
           guardrails.reviewed => guardrails'.reviewed, filed' = filed, lost \subseteq lost',
           t \in lost' \/ at[t] \in {"ranking", "marking"}
    PROVE  TurnSo(t)' /\ RanksSo(t)'
<1>t. AgTypes /\ TurnSo(t) /\ t \in Actor /\ t # Staff
      BY AgHas, BuyerAgentAssumption DEF Actor
<1>1. /\ at'[t] = "done"
      /\ turn'[t].thread = turn[t].thread /\ turn'[t].from = turn[t].from
      /\ turn'[t].test = turn[t].test
      BY <1>t, Frees
<1>2. at'[t] \notin Waiting \cup Speaking \cup {"claiming", "typing", "joined", "routing",
                "writing", "refused", "ranking", "marking", "gated", "alone"}
      BY <1>1 DEF Waiting, Speaking
<1>3. turn'[t].thread # 0 => threads'[turn'[t].thread].test = turn'[t].test
      <2>1. turn[t].thread # 0 =>
              threads'[turn[t].thread].test = threads[turn[t].thread].test
            BY <1>t, ReadsAre DEF Grown
      <2>2. turn[t].thread # 0 => threads[turn[t].thread].test = turn[t].test
            BY <1>t DEF TurnSo
      <2>. QED  BY <1>1, <2>1, <2>2
<1>4. t \in filed' \ lost' => ToldBy(t)'
      <2>1. ToldBy(t) => ToldBy(t)'  BY <1>t, <1>1, HeardStays
      <2>2. t \in filed \ lost /\ at[t] \in {"ranking", "marking"} => ToldBy(t)
            BY <1>t DEF TurnSo
      <2>. QED  BY <2>1, <2>2
<1>5. t \in filed' => ~turn'[t].test  BY <1>1, <1>t DEF TurnSo
<1>6. TurnSo(t)'  BY <1>2, <1>3, <1>4, <1>5 DEF TurnSo
<1>7. RanksSo(t)'  BY <1>2 DEF RanksSo
<1>. QED  BY <1>6, <1>7

LEMMA TurnIsLostKept ==
    ASSUME AgInv, NEW t \in Turn, TurnIsLost(t)
    PROVE  AgInv'
<1>t. AgTypes /\ t \in Actor  BY AgHas DEF Actor
<1>e. /\ scene' = scene /\ guardrails' = guardrails /\ switches' = switches
      /\ threads' = threads /\ said' = said /\ filed' = filed
      /\ lost' = lost \cup {t} /\ at[t] \notin Ended /\ LetsGo(t)
      BY DEF TurnIsLost
<1>1. /\ at' \in [Actor -> Waiting \cup Speaking \cup {"done", "claiming", "typing"}]
      /\ \A b \in Actor \ {t} : at'[b] = at[b] /\ turn'[b] = turn[b]
      /\ turn' \in [Actor -> ReadOf]
      /\ turn'[t].thread = turn[t].thread /\ turn'[t].from = turn[t].from
      BY <1>t, <1>e, Frees
<1>2. AgTypes'
      <2>1. \A a \in Actor : turn'[a].thread <= Len(threads') /\ turn'[a].from <= Len(said')
            BY <1>t, <1>e, <1>1, ReadsAre
      <2>. QED  BY <1>t, <1>e, <1>1, <2>1 DEF AgTypes
<1>3. Grown  BY <1>t, <1>e, NothingSaid
<1>4. TurnSo(t)' /\ RanksSo(t)'  BY <1>e, <1>2, <1>3, EndedSo
<1>. QED  BY <1>e, <1>1, <1>2, <1>4, TurnMovesOn

\* A turn or the person moves and says nothing.
LEMMA ActorMovesOn ==
    ASSUME AgInv, NEW a \in Actor, AgTypes', UNCHANGED <<guardrails, threads, said, filed>>,
           \A b \in Actor \ {a} : at'[b] = at[b] /\ turn'[b] = turn[b], lost \subseteq lost',
           a \in Turn => TurnSo(a)', a = Staff => StaffSo', RanksSo(a)',
           a \in Turn /\ turn[a].thread # 0 =>
               turn'[a].thread = turn[a].thread /\ turn'[a].from = turn[a].from
    PROVE  AgInv'
<1>t. AgTypes  BY AgHas
<1>e. guardrails' = guardrails /\ threads' = threads /\ said' = said /\ filed' = filed
      OBVIOUS
<1>1. Grown  BY <1>t, <1>e, NothingSaid
<1>2. \A i \in DOMAIN threads' : ThreadSo(i)'
      BY <1>e, AgHas DEF ThreadSo, OfPerson, Earned, SaidIn
<1>3. BuyerTurns' = BuyerTurns  BY <1>e DEF BuyerTurns
<1>5. guardrails'.live \/ BuyerTurns' # {} => guardrails.live \/ BuyerTurns # {} \/ Ready
      BY <1>3, <1>e
<1>6. /\ \A m \in DOMAIN said' : m \notin DOMAIN said => LineSo(m)'
      /\ \A t \in Turn \ {a} : t \in filed' <=> t \in filed
      /\ guardrails.reviewed => guardrails'.reviewed
      BY <1>e
<1>. QED  BY <1>1, <1>2, <1>5, <1>6, AgStep

LEMMA LetsGoSo ==
    ASSUME AgInv, NEW a \in Actor, at[a] \in {"ranking", "marking", "typing"},
           LetsGo(a), AgTypes', Grown,
           guardrails' = guardrails, filed' = filed, lost' = lost
    PROVE  /\ a \in Turn => TurnSo(a)'
           /\ a = Staff => StaffSo'
           /\ RanksSo(a)'
<1>t. AgTypes /\ \A t \in Turn : TurnSo(t)  BY AgHas
<1>1. at'[a] = IF a = Staff THEN "idle" ELSE "done"  BY <1>t, Frees
<1>2. ASSUME a \in Turn PROVE TurnSo(a)'
      <2>1. at[a] \in {"ranking", "marking"}  BY <1>2, <1>t DEF TurnSo
      <2>2. at[a] \notin Ended  BY <2>1 DEF Ended
      <2>. QED  BY <1>2, <2>1, <2>2, EndedSo
<1>3. a = Staff => StaffSo'  BY <1>1 DEF StaffSo
<1>4. RanksSo(a)'  BY <1>1 DEF RanksSo
<1>. QED  BY <1>2, <1>3, <1>4

LEMMA RanksOutcomeKept ==
    ASSUME AgInv, NEW a \in Actor, RanksOutcome(a)
    PROVE  AgInv'
<1>t. AgTypes /\ StaffSo /\ RanksSo(a)  BY AgHas
<1>e. /\ scene' = scene /\ guardrails' = guardrails /\ switches' = switches
      /\ threads' = threads /\ said' = said /\ filed' = filed /\ lost' = lost
      /\ at[a] = "ranking"
      BY DEF RanksOutcome
<1>g. Grown  BY <1>t, <1>e, NothingSaid
<1>1. CASE Outranked(a)
      <2>1. LetsGo(a)  BY <1>1 DEF RanksOutcome
      <2>2. /\ at' \in [Actor -> Waiting \cup Speaking \cup {"done", "claiming", "typing"}]
            /\ \A b \in Actor \ {a} : at'[b] = at[b] /\ turn'[b] = turn[b]
            /\ turn' \in [Actor -> ReadOf]
            /\ turn'[a].thread = turn[a].thread /\ turn'[a].from = turn[a].from
            BY <1>t, <2>1, Frees
      <2>3. AgTypes'
            <3>1. \A b \in Actor : turn'[b].thread <= Len(threads') /\ turn'[b].from <= Len(said')
                  BY <1>t, <1>e, <2>2, ReadsAre
            <3>. QED  BY <1>t, <1>e, <2>2, <3>1 DEF AgTypes
      <2>4. /\ a \in Turn => TurnSo(a)'
            /\ a = Staff => StaffSo'
            /\ RanksSo(a)'
            BY <1>e, <1>g, <2>1, <2>3, LetsGoSo
      <2>. QED  BY <1>e, <2>2, <2>3, <2>4, ActorMovesOn
<1>2. CASE ~Outranked(a)
      <2>1. To(a, "marking") /\ turn' = turn  BY <1>2 DEF RanksOutcome
      <2>2. /\ at' \in [Actor -> Waiting \cup Speaking \cup {"done", "claiming", "typing"}]
            /\ at'[a] = "marking" /\ \A b \in Actor \ {a} : at'[b] = at[b]
            BY <1>t, <2>1, Placed DEF Speaking
      <2>3. AgTypes'  BY <1>t, <1>e, <2>1, <2>2 DEF AgTypes
      <2>4. ASSUME a \in Turn PROVE TurnSo(a)'
            <3>1. TurnSo(a) /\ at[a] \in Speaking  BY <2>4, <1>e, AgHas DEF Speaking
            <3>2. /\ turn'[a].thread # 0
                  /\ threads'[turn'[a].thread].test = turn'[a].test
                  /\ a \in filed => ~turn'[a].test
                  /\ ~turn'[a].test => Ready'
                  /\ ToldBy(a) => ToldBy(a)'
                  BY <2>4, <3>1, <1>e, <1>g, <2>1, <2>3, SpeakerStays
            <3>3. a \in filed' \ lost' => ToldBy(a)'  BY <3>1, <3>2, <1>e DEF TurnSo
            <3>4. at'[a] \notin Waiting \cup {"claiming", "typing", "joined", "routing",
                                              "writing", "refused", "done"}
                  BY <2>2 DEF Waiting
            <3>. QED  BY <1>e, <3>2, <3>3, <3>4 DEF TurnSo
      <2>5. a = Staff => StaffSo'  BY <1>t, <1>e, <2>1, <2>2 DEF StaffSo
      <2>6. RanksSo(a)'
            <3>1. PICK i, o : i = turn[a].thread /\ o = turn[a].outcome  OBVIOUS
            <3>2. Earned(i, o)  BY <1>t, <1>e, <3>1 DEF RanksSo
            <3>3. Earned(i, o)'  BY <3>2, <1>t, <1>g, <2>3, Stable
            <3>4. turn'[a].thread = i /\ turn'[a].outcome = o  BY <2>1, <3>1
            <3>. QED  BY <3>3, <3>4 DEF RanksSo
      <2>. QED  BY <1>e, <2>1, <2>2, <2>3, <2>4, <2>5, <2>6, ActorMovesOn
<1>. QED  BY <1>1, <1>2

\* Something of a conversation changes, and nothing is said.
LEMMA ThreadSet ==
    ASSUME AgTypes, NEW i \in DOMAIN threads, NEW r \in Thread, r.test = threads[i].test,
           threads' = [threads EXCEPT ![i] = r], said' = said
    PROVE  /\ Grown /\ threads' \in Seq(Thread) /\ said' \in Seq(Line)
           /\ DOMAIN threads' = DOMAIN threads /\ Len(threads') = Len(threads)
           /\ threads'[i] = r /\ \A j \in DOMAIN threads \ {i} : threads'[j] = threads[j]
           /\ \A m \in DOMAIN said' : said'[m].thread <= Len(threads')
           /\ BuyerTurns' = BuyerTurns
<1>1. /\ Len(said) \in Nat /\ Len(threads) \in Nat /\ DOMAIN threads = 1 .. Len(threads)
      /\ \A m \in DOMAIN said : said[m].thread \in DOMAIN threads
      BY SaidAre
<1>2. said \in Seq(Line) /\ threads \in Seq(Thread)  BY DEF AgTypes
<1>3. /\ threads' \in Seq(Thread) /\ Len(threads') = Len(threads)
      /\ DOMAIN threads' = DOMAIN threads
      BY <1>1, <1>2, ExceptSeq, LenProperties
<1>4. threads'[i] = r /\ \A j \in DOMAIN threads \ {i} : threads'[j] = threads[j]
      OBVIOUS
<1>5. \A j \in DOMAIN threads : threads'[j].test = threads[j].test  BY <1>4
<1>6. Grown  BY <1>1, <1>3, <1>5 DEF Grown
<1>7. \A m \in DOMAIN said' : said'[m].thread <= Len(threads')  BY <1>1, <1>3
<1>8. BuyerTurns' = BuyerTurns  BY <1>1, <1>5 DEF BuyerTurns
<1>. QED  BY <1>2, <1>3, <1>4, <1>6, <1>7, <1>8

LEMMA MarksOutcomeKept ==
    ASSUME AgInv, NEW a \in Actor, MarksOutcome(a)
    PROVE  AgInv'
<1>t. AgTypes /\ StaffSo /\ RanksSo(a) /\ \A t \in Turn : TurnSo(t)  BY AgHas
<1>. DEFINE o == turn[a].outcome
            r == [threads[turn[a].thread] EXCEPT !.outcome = o]
<1>e. /\ scene' = scene /\ guardrails' = guardrails /\ switches' = switches
      /\ said' = said /\ filed' = filed /\ lost' = lost
      /\ at[a] = "marking" /\ LetsGo(a)
      /\ threads' = [threads EXCEPT ![turn[a].thread].outcome = o]
      BY DEF MarksOutcome
<1>1. turn[a].thread # 0
      <2>1. CASE a = Staff  BY <2>1, <1>t, <1>e DEF StaffSo
      <2>2. CASE a # Staff
            <3>1. a \in Turn  BY <2>2 DEF Actor
            <3>. QED  BY <3>1, <1>t, <1>e DEF TurnSo, Speaking
      <2>. QED  BY <2>1, <2>2
<1>2. PICK i \in DOMAIN threads : i = turn[a].thread  BY <1>t, <1>1, ReadsAre
<1>3. o \in Outcomes  BY <1>t, ReadsAre DEF ReadOf
<1>4. /\ r \in Thread /\ r.test = threads[i].test /\ r.taken = threads[i].taken
      /\ r.outcome = o
      <2>1. threads[i] \in Thread  BY <1>t, SaidAre
      <2>. QED  BY <2>1, <1>2, <1>3 DEF Thread
<1>5. threads' = [threads EXCEPT ![i] = r]  BY <1>e, <1>2, <1>t DEF AgTypes
<1>6. Earned(i, o)  BY <1>t, <1>e, <1>2 DEF RanksSo
<1>. HIDE DEF r
<1>7. /\ Grown /\ threads' \in Seq(Thread) /\ said' \in Seq(Line)
      /\ DOMAIN threads' = DOMAIN threads
      /\ threads'[i] = r /\ \A j \in DOMAIN threads \ {i} : threads'[j] = threads[j]
      /\ \A m \in DOMAIN said' : said'[m].thread <= Len(threads')
      /\ BuyerTurns' = BuyerTurns /\ Len(threads') = Len(threads)
      BY <1>t, <1>e, <1>4, <1>5, ThreadSet
<1>8. /\ at' \in [Actor -> Waiting \cup Speaking \cup {"done", "claiming", "typing"}]
      /\ \A b \in Actor \ {a} : at'[b] = at[b] /\ turn'[b] = turn[b]
      /\ turn' \in [Actor -> ReadOf]
      /\ turn'[a].thread = turn[a].thread /\ turn'[a].from = turn[a].from
      BY <1>t, <1>e, Frees
<1>9. AgTypes'
      <2>1. turn'[a].thread <= Len(threads') /\ turn'[a].from <= Len(said')
            BY <1>t, <1>e, <1>7, <1>8, ReadsAre
      <2>2. /\ guardrails' \in [live: BOOLEAN, reviewed: BOOLEAN, mayQuote: BOOLEAN]
            /\ switches' \in 0 .. MaxSwitches /\ filed' \subseteq Turn /\ lost' \subseteq Turn
            BY <1>t, <1>e DEF AgTypes
      <2>. QED  BY <1>t, <1>e, <1>7, <1>8, <2>1, <2>2, AgTyped
<1>10. /\ a \in Turn => TurnSo(a)'
       /\ a = Staff => StaffSo'
       /\ RanksSo(a)'
       BY <1>e, <1>7, <1>9, LetsGoSo
<1>11. ASSUME NEW j \in DOMAIN threads' PROVE ThreadSo(j)'
       <2>1. j \in DOMAIN threads /\ ThreadSo(j)  BY <1>7, AgHas
       <2>2. threads'[j].taken = threads[j].taken
             <3>1. CASE j = i  BY <3>1, <1>4, <1>7
             <3>2. CASE j # i  BY <3>2, <2>1, <1>7
             <3>. QED  BY <3>1, <3>2
       <2>3. Earned(j, threads[j].outcome)'
             <3>1. PICK p : p = threads[j].outcome  OBVIOUS
             <3>2. PICK q : q = o  OBVIOUS
             <3>3. CASE j = i
                   <4>1. Earned(j, q)  BY <1>6, <3>2, <3>3
                   <4>2. Earned(j, q)'  BY <4>1, <1>t, <1>7, <1>9, Stable
                   <4>3. threads'[j].outcome = q  BY <3>2, <3>3, <1>4, <1>7
                   <4>. QED  BY <4>2, <4>3
             <3>4. CASE j # i
                   <4>1. Earned(j, p)  BY <2>1, <3>1 DEF ThreadSo
                   <4>2. Earned(j, p)'  BY <4>1, <1>t, <1>7, <1>9, Stable
                   <4>3. threads'[j].outcome = p  BY <3>1, <3>4, <2>1, <1>7
                   <4>. QED  BY <4>2, <4>3
             <3>. QED  BY <3>3, <3>4
       <2>4. (~threads[j].taken => \A n \in DOMAIN said : OfPerson(n) => said[n].thread # j)'
             BY <1>e, <2>1, <2>2 DEF ThreadSo, OfPerson
       <2>. QED  BY <2>3, <2>4 DEF ThreadSo
<1>12. /\ \A m \in DOMAIN said' : m \notin DOMAIN said => LineSo(m)'
       /\ \A t \in Turn \ {a} : t \in filed' <=> t \in filed
       /\ lost \subseteq lost' /\ (guardrails.reviewed => guardrails'.reviewed)
       BY <1>e
<1>13. guardrails'.live \/ BuyerTurns' # {} => guardrails.live \/ BuyerTurns # {} \/ Ready
       BY <1>e, <1>7
<1>. QED  BY <1>7, <1>8, <1>9, <1>10, <1>11, <1>12, <1>13, AgStep

\* A switch, or a conversation that idles or is closed.
LEMMA NobodyMoves ==
    ASSUME AgInv, AgTypes', Grown, at' = at, turn' = turn, said' = said,
           filed' = filed, lost' = lost, guardrails.reviewed => guardrails'.reviewed,
           DOMAIN threads' = DOMAIN threads,
           \A j \in DOMAIN threads : /\ threads'[j].taken = threads[j].taken
                                     /\ threads'[j].outcome = threads[j].outcome,
           guardrails'.live => guardrails.live \/ Ready
    PROVE  AgInv'
<1>t. AgTypes /\ StaffSo /\ RanksSo(Staff) /\ Staff \in Actor /\ Staff \notin Turn
      BY AgHas, BuyerAgentAssumption DEF Actor
<1>1. /\ \A m \in DOMAIN said : said[m].thread \in DOMAIN threads
      /\ \A j \in DOMAIN threads : threads'[j].test = threads[j].test
      BY <1>t, SaidAre DEF Grown
<1>2. BuyerTurns' = BuyerTurns  BY <1>1 DEF BuyerTurns
<1>3. ASSUME NEW j \in DOMAIN threads' PROVE ThreadSo(j)'
      <2>1. j \in DOMAIN threads /\ ThreadSo(j)  BY AgHas
      <2>. QED  BY <2>1 DEF ThreadSo, OfPerson, Earned, SaidIn
<1>4. StaffSo'
      <2>1. turn[Staff].thread # 0 => turn[Staff].thread \in DOMAIN threads
            BY <1>t, ReadsAre
      <2>. QED  BY <1>t, <1>1, <2>1 DEF StaffSo
<1>5. RanksSo(Staff)'  BY <1>t DEF RanksSo, Earned, SaidIn
<1>6. guardrails'.live \/ BuyerTurns' # {} => guardrails.live \/ BuyerTurns # {} \/ Ready
      BY <1>2
<1>. QED  BY <1>t, <1>3, <1>4, <1>5, <1>6, AgStep

LEMMA ReadsKept ==
    ASSUME AgInv, NEW i \in DOMAIN threads, BeginsTakeOver(i) \/ BeginsReply(i)
    PROVE  AgInv'
<1>t. AgTypes /\ Staff \in Actor /\ Staff \notin Turn
      BY AgHas, BuyerAgentAssumption DEF Actor
<1>1. PICK next \in {"claiming", "typing"} : Reads(i, next)  BY DEF BeginsTakeOver, BeginsReply
<1>. DEFINE r == [Unread EXCEPT !.thread = i, !.taken = threads[i].taken,
                                !.outcome = "ESCALATED"]
<1>e. /\ scene' = scene /\ guardrails' = guardrails /\ switches' = switches
      /\ threads' = threads /\ said' = said /\ filed' = filed /\ lost' = lost
      /\ ~threads[i].test /\ To(Staff, next) /\ turn' = [turn EXCEPT ![Staff] = r]
      BY <1>1 DEF Reads
<1>2. threads[i] \in Thread /\ i \in Nat \ {0} /\ i <= Len(threads) /\ Len(said) \in Nat
      BY <1>t, SaidAre
<1>3. /\ r \in ReadOf /\ r.thread = i /\ r.outcome = "ESCALATED" /\ r.from = 0
      <2>1. threads[i].taken \in BOOLEAN  BY <1>2 DEF Thread
      <2>2. "ESCALATED" \in Outcomes  BY DEF Outcomes, RANK
      <2>. QED  BY <1>2, <2>1, <2>2 DEF Unread, ReadOf
<1>. HIDE DEF r
<1>4. /\ turn' \in [Actor -> ReadOf] /\ turn'[Staff] = r
      /\ \A b \in Actor \ {Staff} : turn'[b] = turn[b]
      BY <1>t, <1>e, <1>3, TurnSet
<1>5. /\ at' \in [Actor -> Waiting \cup Speaking \cup {"done", "claiming", "typing"}]
      /\ at'[Staff] = next /\ \A b \in Actor \ {Staff} : at'[b] = at[b]
      BY <1>t, <1>e, Placed
<1>6. AgTypes'
      <2>1. \A a \in Actor : turn'[a].thread <= Len(threads') /\ turn'[a].from <= Len(said')
            BY <1>t, <1>e, <1>2, <1>3, <1>4, ReadsAre
      <2>. QED  BY <1>t, <1>e, <1>4, <1>5, <2>1 DEF AgTypes
<1>7. StaffSo'  BY <1>e, <1>2, <1>3, <1>4, <1>5 DEF StaffSo
<1>8. RanksSo(Staff)'  BY <1>5 DEF RanksSo
<1>. QED  BY <1>t, <1>e, <1>4, <1>5, <1>6, <1>7, <1>8, ActorMovesOn

\* The person says something: from then on the conversation is taken.
LEMMA PersonSays ==
    ASSUME AgInv, NEW i \in Nat, i = turn[Staff].thread, at[Staff] \in {"claiming", "typing"},
           NEW who \in {"AGENT", "MERCHANT"}, NEW kind \in {"joined", "typed"},
           NEW r \in Thread, r.test = threads[i].test, r.taken = TRUE,
           r.outcome = threads[i].outcome, threads' = [threads EXCEPT ![i] = r],
           said' = Append(said, Utterance(i, who, kind, Staff)),
           scene' = scene, guardrails' = guardrails, switches' = switches,
           filed' = filed, lost' = lost,
           \/ LetsGo(Staff)
           \/ To(Staff, "ranking") /\ turn' = turn
    PROVE  AgInv'
<1>n. PICK new : new = Len(said) + 1  OBVIOUS
<1>. DEFINE l == Utterance(i, who, kind, Staff)
<1>t. /\ AgTypes /\ StaffSo /\ Staff \in Actor /\ Staff \notin Turn
      BY AgHas, BuyerAgentAssumption DEF Actor
<1>1. i # 0 /\ turn[Staff].outcome = "ESCALATED" /\ ~threads[i].test
      BY <1>t DEF StaffSo
<1>2. i \in DOMAIN threads  BY <1>t, <1>1, ReadsAre
<1>3. l \in Line /\ l.thread = i /\ l.kind = kind /\ l.by = Staff /\ l.role = who
      BY <1>1, <1>t DEF Utterance, Line
<1>. HIDE DEF l
<1>4. /\ Grown /\ threads' \in Seq(Thread) /\ said' \in Seq(Line)
      /\ DOMAIN threads' = DOMAIN threads /\ Len(threads') = Len(threads)
      /\ DOMAIN said' = 1 .. new /\ Len(said') = new /\ said'[new] = l
      /\ \A m \in DOMAIN said : m \in DOMAIN said' /\ said'[m] = said[m]
      /\ threads'[i] = r /\ \A j \in DOMAIN threads \ {i} : threads'[j] = threads[j]
      /\ \A m \in DOMAIN said' : said'[m].thread <= Len(threads')
      <2>1. said' = Append(said, l)  BY DEF l
      <2>. QED  BY <1>n, <1>t, <1>2, <1>3, <2>1, LineSaid
<1>s. /\ Len(said) \in Nat /\ DOMAIN said = 1 .. Len(said)
      /\ \A m \in DOMAIN said : said[m].thread \in DOMAIN threads
      BY <1>t, SaidAre
<1>5. \A m \in DOMAIN said' : m \notin DOMAIN said => m = new  BY <1>4, <1>s, <1>n
<1>6. /\ at' \in [Actor -> Waiting \cup Speaking \cup {"done", "claiming", "typing"}]
      /\ at'[Staff] \in {"idle", "ranking"}
      /\ \A b \in Actor \ {Staff} : at'[b] = at[b] /\ turn'[b] = turn[b]
      /\ turn' \in [Actor -> ReadOf]
      /\ turn'[Staff].thread = i /\ turn'[Staff].from = turn[Staff].from
      /\ at'[Staff] = "ranking" => turn'[Staff].outcome = "ESCALATED"
      <2>1. CASE LetsGo(Staff)  BY <1>t, <2>1, Frees
      <2>2. CASE To(Staff, "ranking") /\ turn' = turn
            <3>1. turn \in [Actor -> ReadOf]  BY <1>t DEF AgTypes
            <3>2. /\ at' \in [Actor -> Waiting \cup Speaking \cup {"done", "claiming", "typing"}]
                  /\ at'[Staff] = "ranking" /\ \A b \in Actor \ {Staff} : at'[b] = at[b]
                  BY <1>t, <2>2, Placed DEF Speaking
            <3>. QED  BY <1>1, <2>2, <3>1, <3>2
      <2>. QED  BY <2>1, <2>2
<1>7. AgTypes'
      <2>1. turn'[Staff].thread <= Len(threads') /\ turn'[Staff].from <= Len(said')
            <3>1. turn[Staff].thread <= Len(threads) /\ turn[Staff].from <= Len(said)
                  /\ turn[Staff].from \in Nat
                  BY <1>t, ReadsAre
            <3>. QED  BY <3>1, <1>s, <1>n, <1>4, <1>6
      <2>2. /\ guardrails' \in [live: BOOLEAN, reviewed: BOOLEAN, mayQuote: BOOLEAN]
            /\ switches' \in 0 .. MaxSwitches /\ filed' \subseteq Turn /\ lost' \subseteq Turn
            BY <1>t DEF AgTypes
      <2>. QED  BY <1>t, <1>4, <1>6, <2>1, <2>2, AgTyped
<1>8. StaffSo'  BY <1>1, <1>4, <1>6 DEF StaffSo
<1>9. RanksSo(Staff)'  BY <1>6 DEF RanksSo, Earned
<1>10. ASSUME NEW m \in DOMAIN said', m \notin DOMAIN said PROVE LineSo(m)'
       <2>1. said'[m] = l  BY <1>4, <1>5, <1>10
       <2>2. /\ said'[m].by = Staff /\ said'[m].thread = i /\ OfPerson(m)' /\ ~Replied(m)'
             BY <2>1, <1>3 DEF OfPerson, Replied
       <2>3. ~threads'[i].test  BY <1>1, <1>4
       <2>. QED  BY <2>2, <2>3 DEF LineSo
<1>11. ASSUME NEW j \in DOMAIN threads' PROVE ThreadSo(j)'
       <2>1. j \in DOMAIN threads /\ ThreadSo(j)  BY <1>4, AgHas
       <2>2. threads'[j].outcome = threads[j].outcome  BY <1>4, <2>1
       <2>3. PICK o : o = threads[j].outcome  OBVIOUS
       <2>4. Earned(j, o)  BY <2>1, <2>3 DEF ThreadSo
       <2>5. Earned(j, o)'  BY <2>4, <1>t, <1>4, <1>7, Stable
       <2>6. (~threads[j].taken => \A n \in DOMAIN said : OfPerson(n) => said[n].thread # j)'
             <3>1. SUFFICES ASSUME ~threads'[j].taken, NEW n \in DOMAIN said', OfPerson(n)'
                            PROVE  said'[n].thread # j
                   OBVIOUS
             <3>2. j # i  BY <3>1, <1>4
             <3>3. threads'[j] = threads[j]  BY <3>2, <2>1, <1>4
             <3>4. CASE n \in DOMAIN said
                   <4>1. said'[n] = said[n]  BY <3>4, <1>4
                   <4>. QED  BY <4>1, <3>1, <3>3, <3>4, <2>1 DEF ThreadSo, OfPerson
             <3>5. CASE n \notin DOMAIN said
                   <4>1. said'[n] = l  BY <3>1, <3>5, <1>4, <1>5
                   <4>. QED  BY <4>1, <3>2, <1>3
             <3>. QED  BY <3>4, <3>5
       <2>. QED  BY <2>2, <2>3, <2>5, <2>6 DEF ThreadSo
<1>12. ASSUME BuyerTurns' # {} PROVE BuyerTurns # {}
       <2>1. PICK m \in DOMAIN said' : /\ said'[m].role = "BUYER"
                                       /\ ~threads'[said'[m].thread].test
             BY <1>12 DEF BuyerTurns
       <2>2. m \in DOMAIN said
             <3>1. m \notin DOMAIN said => said'[m].role = who  BY <1>3, <1>4, <1>5
             <3>. QED  BY <3>1, <2>1
       <2>3. said'[m] = said[m] /\ threads'[said[m].thread].test = threads[said[m].thread].test
             BY <2>2, <1>4, <1>s DEF Grown
       <2>. QED  BY <2>1, <2>2, <2>3 DEF BuyerTurns
<1>13. guardrails'.live \/ BuyerTurns' # {} => guardrails.live \/ BuyerTurns # {} \/ Ready
       BY <1>12
<1>. QED  BY <1>t, <1>4, <1>6, <1>7, <1>8, <1>9, <1>10, <1>11, <1>13, AgStep

LEMMA PersonActsKept ==
    ASSUME AgInv, TakesOver \/ RepliesAsMerchant
    PROVE  AgInv'
<1>t. /\ AgTypes /\ StaffSo /\ Staff \in Actor /\ Staff \notin Turn
      BY AgHas, BuyerAgentAssumption DEF Actor
<1>1. PICK i \in Nat : i = turn[Staff].thread  BY <1>t, ReadsAre
<1>c. at[Staff] \in {"claiming", "typing"}  BY DEF TakesOver, RepliesAsMerchant
<1>2. i # 0 /\ turn[Staff].outcome = "ESCALATED"  BY <1>t, <1>1, <1>c DEF StaffSo
<1>3. i \in DOMAIN threads  BY <1>t, <1>1, <1>2, ReadsAre
<1>4. threads[i] \in Thread  BY <1>t, <1>3, SaidAre
<1>e. /\ scene' = scene /\ guardrails' = guardrails /\ switches' = switches
      /\ filed' = filed /\ lost' = lost
      BY DEF TakesOver, RepliesAsMerchant
<1>5. CASE TakesOver
      <2>1. To(Staff, "ranking") /\ turn' = turn  BY <1>5 DEF TakesOver
      <2>2. CASE threads[i].taken
            <3>1. threads' = threads /\ said' = said  BY <1>1, <1>5, <2>2 DEF TakesOver
            <3>2. /\ at' \in [Actor -> Waiting \cup Speaking \cup {"done", "claiming", "typing"}]
                  /\ at'[Staff] = "ranking" /\ \A b \in Actor \ {Staff} : at'[b] = at[b]
                  BY <1>t, <2>1, Placed DEF Speaking
            <3>3. AgTypes'  BY <1>t, <1>e, <2>1, <3>1, <3>2 DEF AgTypes
            <3>4. StaffSo'  BY <1>t, <1>c, <2>1, <3>1, <3>2 DEF StaffSo
            <3>5. RanksSo(Staff)'  BY <1>2, <2>1 DEF RanksSo, Earned
            <3>. QED  BY <1>t, <1>e, <2>1, <3>1, <3>2, <3>3, <3>4, <3>5, ActorMovesOn
      <2>3. CASE ~threads[i].taken
            <3>. DEFINE r == [threads[i] EXCEPT !.taken = TRUE]
            <3>1. /\ threads' = [threads EXCEPT ![i].taken = TRUE]
                  /\ said' = Append(said, Utterance(i, "AGENT", "joined", Staff))
                  BY <1>1, <1>5, <2>3 DEF TakesOver
            <3>2. threads' = [threads EXCEPT ![i] = r]  BY <3>1, <1>t DEF AgTypes
            <3>3. /\ r \in Thread /\ r.test = threads[i].test /\ r.taken = TRUE
                  /\ r.outcome = threads[i].outcome
                  BY <1>4 DEF Thread
            <3>. HIDE DEF r
            <3>. QED  BY <1>1, <1>c, <1>e, <2>1, <3>1, <3>2, <3>3, PersonSays
      <2>. QED  BY <2>2, <2>3
<1>6. CASE RepliesAsMerchant
      <2>. DEFINE r == [threads[i] EXCEPT !.taken = TRUE, !.fresh = TRUE]
      <2>1. /\ threads' = [threads EXCEPT ![i].taken = TRUE, ![i].fresh = TRUE]
            /\ said' = Append(said, Utterance(i, "MERCHANT", "typed", Staff))
            /\ \/ LetsGo(Staff)
               \/ To(Staff, "ranking") /\ turn' = turn
            BY <1>1, <1>6 DEF RepliesAsMerchant
      <2>2. threads' = [threads EXCEPT ![i] = r]  BY <2>1, <1>t, <1>3 DEF AgTypes
      <2>3. /\ r \in Thread /\ r.test = threads[i].test /\ r.taken = TRUE
            /\ r.outcome = threads[i].outcome
            BY <1>4 DEF Thread
      <2>. HIDE DEF r
      <2>. QED  BY <1>1, <1>c, <1>e, <2>1, <2>2, <2>3, PersonSays
<1>. QED  BY <1>5, <1>6

LEMMA ThreadsRestKept ==
    ASSUME AgInv, closeRehearsal \/ \E i \in DOMAIN threads : GoesIdle(i)
    PROVE  AgInv'
<1>t. AgTypes /\ said \in Seq(Line)  BY AgHas DEF AgTypes
<1>s. /\ Len(said) \in Nat /\ Len(threads) \in Nat /\ DOMAIN threads = 1 .. Len(threads)
      /\ \A j \in DOMAIN threads : threads[j] \in Thread
      BY <1>t, SaidAre
<1>e. /\ scene' = scene /\ guardrails' = guardrails /\ switches' = switches
      /\ said' = said /\ filed' = filed /\ lost' = lost /\ at' = at /\ turn' = turn
      BY DEF closeRehearsal, GoesIdle
<1>1. /\ threads' \in Seq(Thread) /\ DOMAIN threads' = DOMAIN threads
      /\ Len(threads') = Len(threads)
      /\ \A j \in DOMAIN threads : /\ threads'[j].test = threads[j].test
                                   /\ threads'[j].taken = threads[j].taken
                                   /\ threads'[j].outcome = threads[j].outcome
      <2>1. CASE closeRehearsal
            <3>. DEFINE closed(j) == [threads[j] EXCEPT !.open = @ /\ ~threads[j].test]
            <3>1. threads' = [j \in DOMAIN threads |-> closed(j)]  BY <2>1 DEF closeRehearsal
            <3>2. ASSUME NEW j \in DOMAIN threads
                  PROVE  /\ closed(j) \in Thread /\ closed(j).test = threads[j].test
                         /\ closed(j).taken = threads[j].taken
                         /\ closed(j).outcome = threads[j].outcome
                  <4>1. threads[j] \in Thread  BY <1>s
                  <4>2. (threads[j].open /\ ~threads[j].test) \in BOOLEAN  OBVIOUS
                  <4>. QED  BY <4>1, <4>2 DEF Thread
            <3>. HIDE DEF closed
            <3>3. DOMAIN threads' = 1 .. Len(threads)  BY <3>1, <1>s
            <3>4. \A j \in 1 .. Len(threads) : threads'[j] = closed(j)  BY <3>1, <1>s
            <3>5. threads' = [j \in 1 .. Len(threads) |-> closed(j)]  BY <3>1, <1>s
            <3>6. threads' \in Seq(Thread) /\ Len(threads') = Len(threads)
                  <4>1. \A j \in 1 .. Len(threads) : closed(j) \in Thread  BY <3>2, <1>s
                  <4>. QED  BY <3>5, <4>1, <1>s
            <3>. QED  BY <3>2, <3>3, <3>4, <3>6, <1>s
      <2>2. CASE \E i \in DOMAIN threads : GoesIdle(i)
            <3>1. PICK i \in DOMAIN threads : threads' = [threads EXCEPT ![i].fresh = FALSE]
                  BY <2>2 DEF GoesIdle
            <3>. DEFINE r == [threads[i] EXCEPT !.fresh = FALSE]
            <3>2. threads' = [threads EXCEPT ![i] = r]  BY <3>1, <1>t DEF AgTypes
            <3>3. /\ r \in Thread /\ r.test = threads[i].test /\ r.taken = threads[i].taken
                  /\ r.outcome = threads[i].outcome
                  BY <1>s DEF Thread
            <3>. HIDE DEF r
            <3>4. /\ threads' \in Seq(Thread) /\ DOMAIN threads' = DOMAIN threads
                  /\ Len(threads') = Len(threads)
                  /\ threads'[i] = r /\ \A j \in DOMAIN threads \ {i} : threads'[j] = threads[j]
                  BY <1>t, <1>e, <3>2, <3>3, ThreadSet
            <3>. QED  BY <3>3, <3>4
      <2>. QED  BY <2>1, <2>2
<1>2. Grown  BY <1>1, <1>e, <1>s DEF Grown
<1>3. AgTypes'
      <2>1. \A m \in DOMAIN said' : said'[m].thread <= Len(threads')
            BY <1>t, <1>e, <1>1 DEF AgTypes
      <2>2. \A a \in Actor : turn'[a].thread <= Len(threads') /\ turn'[a].from <= Len(said')
            BY <1>t, <1>e, <1>1 DEF AgTypes
      <2>. QED  BY <1>t, <1>e, <1>1, <2>1, <2>2 DEF AgTypes
<1>. QED  BY <1>1, <1>2, <1>3, <1>e, NobodyMoves

LEMMA SwitchesKept ==
    ASSUME AgInv, PublishAgent \/ UnpublishAgent \/ MarkGuardrailsReviewed \/ SaveGuardrails
    PROVE  AgInv'
<1>t. AgTypes  BY AgHas
<1>g. guardrails \in [live: BOOLEAN, reviewed: BOOLEAN, mayQuote: BOOLEAN]
      BY <1>t DEF AgTypes
<1>1. PICK to \in [live: BOOLEAN, reviewed: BOOLEAN, mayQuote: BOOLEAN] :
        /\ Switches(to)
        /\ guardrails.reviewed => to.reviewed
        /\ to.live => guardrails.live \/ Ready
      <2>1. CASE PublishAgent
            <3>. DEFINE to == [guardrails EXCEPT !.live = TRUE]
            <3>1. Switches(to) /\ Ready  BY <2>1 DEF PublishAgent, Ready
            <3>2. /\ to \in [live: BOOLEAN, reviewed: BOOLEAN, mayQuote: BOOLEAN]
                  /\ to.reviewed = guardrails.reviewed
                  BY <1>g
            <3>. QED  BY <3>1, <3>2
      <2>2. CASE UnpublishAgent
            <3>. DEFINE to == [guardrails EXCEPT !.live = FALSE]
            <3>1. Switches(to)  BY <2>2 DEF UnpublishAgent
            <3>2. /\ to \in [live: BOOLEAN, reviewed: BOOLEAN, mayQuote: BOOLEAN]
                  /\ to.reviewed = guardrails.reviewed /\ ~to.live
                  BY <1>g
            <3>. QED  BY <3>1, <3>2
      <2>3. CASE MarkGuardrailsReviewed
            <3>. DEFINE to == [guardrails EXCEPT !.reviewed = TRUE]
            <3>1. Switches(to)  BY <2>3 DEF MarkGuardrailsReviewed
            <3>2. /\ to \in [live: BOOLEAN, reviewed: BOOLEAN, mayQuote: BOOLEAN]
                  /\ to.reviewed /\ to.live = guardrails.live
                  BY <1>g
            <3>. QED  BY <3>1, <3>2
      <2>4. CASE SaveGuardrails
            <3>. DEFINE to == [guardrails EXCEPT !.mayQuote = ~guardrails.mayQuote]
            <3>1. Switches(to)  BY <2>4 DEF SaveGuardrails
            <3>2. /\ to \in [live: BOOLEAN, reviewed: BOOLEAN, mayQuote: BOOLEAN]
                  /\ to.reviewed = guardrails.reviewed /\ to.live = guardrails.live
                  BY <1>g
            <3>. QED  BY <3>1, <3>2
      <2>. QED  BY <2>1, <2>2, <2>3, <2>4
<1>e. /\ guardrails' = to /\ switches' = switches + 1 /\ switches < MaxSwitches
      /\ scene' = scene /\ threads' = threads /\ said' = said /\ filed' = filed
      /\ lost' = lost /\ at' = at /\ turn' = turn
      BY <1>1 DEF Switches
<1>2. Grown  BY <1>t, <1>e, NothingSaid
<1>3. AgTypes'
      <2>1. switches \in 0 .. MaxSwitches  BY <1>t DEF AgTypes
      <2>2. switches' \in 0 .. MaxSwitches  BY <2>1, <1>e, BuyerAgentAssumption
      <2>3. guardrails' \in [live: BOOLEAN, reviewed: BOOLEAN, mayQuote: BOOLEAN]  BY <1>e
      <2>. QED  BY <1>t, <1>e, <2>2, <2>3 DEF AgTypes
<1>4. /\ guardrails.reviewed => guardrails'.reviewed
      /\ guardrails'.live => guardrails.live \/ Ready
      BY <1>1, <1>e
<1>. QED  BY <1>2, <1>3, <1>4, <1>e, NobodyMoves

LEMMA AgNext == AgInv /\ [BuyerAgentNext]_agentVars => AgInv'
<1>. SUFFICES ASSUME AgInv, [BuyerAgentNext]_agentVars PROVE AgInv'
     OBVIOUS
<1>1. ASSUME NEW t \in Turn, TurnMoves(t) PROVE AgInv'
      <2>1. \/ BuyerAsks(t) \/ MerchantRehearses(t) \/ LoadsGuardrails(t)
            \/ FindsThread(t) \/ OpensThread(t) \/ KeepsWords(t)
            \/ (Declines(t) \/ FailsToRoute(t) \/ WritesReply(t) \/ CannotWrite(t))
            \/ (RunsTool(t) \/ requestQuote(t)) \/ TurnIsLost(t)
            BY <1>1 DEF TurnMoves
      <2>. QED  BY <2>1, BuyerAsksKept, MerchantRehearsesKept, LoadsGuardrailsKept,
                   FindsThreadKept, OpensThreadKept, KeepsWordsKept, TellsKept,
                   ToolsKept, TurnIsLostKept
<1>2. ASSUME NEW a \in Turn \cup {Staff}, RanksOutcome(a) \/ MarksOutcome(a) PROVE AgInv'
      BY <1>2, RanksOutcomeKept, MarksOutcomeKept DEF Actor
<1>3. ASSUME NEW i \in DOMAIN threads, BeginsTakeOver(i) \/ BeginsReply(i) \/ GoesIdle(i)
      PROVE  AgInv'
      BY <1>3, ReadsKept, ThreadsRestKept
<1>4. ASSUME UNCHANGED agentVars PROVE AgInv'
      <2>1. /\ scene' = scene /\ guardrails' = guardrails /\ switches' = switches
            /\ threads' = threads /\ said' = said /\ filed' = filed
            /\ lost' = lost /\ at' = at /\ turn' = turn
            BY <1>4 DEF agentVars
      <2>2. AgTypes /\ AgTypes'  BY <2>1, AgHas DEF AgTypes
      <2>3. Grown  BY <2>1, <2>2, NothingSaid
      <2>. QED  BY <2>1, <2>2, <2>3, NobodyMoves
<1>. QED  BY <1>1, <1>2, <1>3, <1>4, PersonActsKept, ThreadsRestKept, SwitchesKept
          DEF BuyerAgentNext

LEMMA AgInit == BuyerAgentInit => AgInv
<1>. SUFFICES ASSUME BuyerAgentInit PROVE AgInv
     OBVIOUS
<1>a. Staff \notin Turn /\ First \in Turn /\ First # Staff  BY BuyerAgentAssumption
<1>k. "FAILED" \in Outcomes /\ "ANSWERED" \in Outcomes  BY DEF Outcomes, RANK
<1>s. scene \in Scenes /\ switches = 0 /\ filed = {} /\ lost = {}  BY DEF BuyerAgentInit
<1>u. /\ Unread \in ReadOf /\ Unread.thread = 0 /\ Unread.from = 0
      BY <1>k DEF Unread, ReadOf
<1>w. 0 \in 0 .. MaxSwitches  BY BuyerAgentAssumption
<1>1. CASE "live" \notin scene
      <2>1. /\ guardrails = [live |-> FALSE, reviewed |-> FALSE, mayQuote |-> TRUE]
            /\ threads = << >> /\ said = << >>
            <3>1. guardrails = [live |-> ("live" \in scene), reviewed |-> ("live" \in scene),
                                mayQuote |-> TRUE]
                  BY DEF BuyerAgentInit
            <3>2. ("live" \in scene) = FALSE  BY <1>1
            <3>3. threads = << >> /\ said = << >>  BY <1>1 DEF BuyerAgentInit
            <3>4. guardrails = [live |-> FALSE, reviewed |-> FALSE, mayQuote |-> TRUE]
                  BY <3>1, <3>2, Zenon
            <3>. QED  BY <3>3, <3>4
      <2>2. at = [a \in Actor |-> "idle"] /\ turn = [a \in Actor |-> Unread]
            BY <1>1 DEF BuyerAgentInit, Actor
      <2>3. \A a \in Actor : at[a] = "idle" /\ turn[a] = Unread  BY <2>2
      <2>4. /\ Len(threads) = 0 /\ Len(said) = 0 /\ DOMAIN threads = {} /\ DOMAIN said = {}
            /\ threads \in Seq(Thread) /\ said \in Seq(Line)
            BY <2>1
      <2>5. AgTypes
            <3>1. at \in [Actor -> Waiting \cup Speaking \cup {"done", "claiming", "typing"}]
                  BY <2>2 DEF Waiting
            <3>2. turn \in [Actor -> ReadOf]  BY <2>2, <1>u
            <3>3. guardrails \in [live: BOOLEAN, reviewed: BOOLEAN, mayQuote: BOOLEAN]
                  BY <2>1
            <3>. QED  BY <1>s, <1>u, <1>w, <2>3, <2>4, <3>1, <3>2, <3>3 DEF AgTypes
      <2>6. ASSUME NEW t \in Turn PROVE TurnSo(t)
            <3>1. at[t] = "idle" /\ turn[t].thread = 0  BY <2>3, <1>u DEF Actor
            <3>. QED  BY <3>1, <1>s DEF TurnSo, Speaking
      <2>7. \A a \in Actor : RanksSo(a)  BY <2>3 DEF RanksSo
      <2>8. StaffSo  BY <2>3 DEF StaffSo, Actor
      <2>9. ~guardrails.live /\ BuyerTurns = {}  BY <2>1, <2>4 DEF BuyerTurns
      <2>. QED  BY <2>4, <2>5, <2>6, <2>7, <2>8, <2>9 DEF AgInv
<1>2. CASE "live" \in scene
      <2>. DEFINE th == [Fresh(TRUE) EXCEPT !.outcome = "ANSWERED"]
                  ask == Utterance(1, "BUYER", "asked", First)
                  answer == Utterance(1, "AGENT", "answered", First)
                  r == [Unread EXCEPT !.test = TRUE, !.thread = 1]
      <2>1. /\ guardrails = [live |-> TRUE, reviewed |-> TRUE, mayQuote |-> TRUE]
            /\ threads = <<th>> /\ said = <<ask, answer>>
            BY <1>2 DEF BuyerAgentInit
      <2>2. /\ at = [a \in Actor |-> IF a \in {First} THEN "done" ELSE "idle"]
            /\ turn = [a \in Actor |-> IF a \in {First} THEN r ELSE Unread]
            BY <1>2 DEF BuyerAgentInit, Actor
      <2>3. /\ th \in Thread /\ th.test = TRUE /\ th.taken = FALSE /\ th.outcome = "ANSWERED"
            BY <1>k DEF Fresh, Thread
      <2>4. /\ ask \in Line /\ ask.thread = 1 /\ ask.by = First /\ ask.kind = "asked"
            /\ answer \in Line /\ answer.thread = 1 /\ answer.by = First
            /\ answer.kind = "answered" /\ answer.role = "AGENT" /\ ask.role = "BUYER"
            BY <1>a DEF Utterance, Line, Actor
      <2>5. r \in ReadOf /\ r.test = TRUE /\ r.thread = 1 /\ r.from = 0
            BY <1>k DEF Unread, ReadOf
      <2>. HIDE DEF th, ask, answer, r
      <2>6. /\ First \in Actor /\ at[First] = "done" /\ turn[First] = r
            /\ \A a \in Actor \ {First} : at[a] = "idle" /\ turn[a] = Unread
            BY <2>2, <1>a DEF Actor
      <2>7. /\ Len(threads) = 1 /\ DOMAIN threads = {1} /\ threads[1] = th
            /\ threads \in Seq(Thread)
            BY <2>1, <2>3
      <2>8. /\ Len(said) = 2 /\ DOMAIN said = {1, 2} /\ said[1] = ask /\ said[2] = answer
            /\ said \in Seq(Line)
            BY <2>1, <2>4
      <2>9. \A m \in DOMAIN said : /\ said[m].thread = 1 /\ said[m].by = First
                                   /\ ~OfPerson(m)
            BY <2>4, <2>8 DEF OfPerson
      <2>10. AgTypes
             <3>1. at \in [Actor -> Waiting \cup Speaking \cup {"done", "claiming", "typing"}]
                   BY <2>2 DEF Waiting
             <3>2. turn \in [Actor -> ReadOf]  BY <2>2, <2>5, <1>u
             <3>3. guardrails \in [live: BOOLEAN, reviewed: BOOLEAN, mayQuote: BOOLEAN]
                   BY <2>1
             <3>4. \A a \in Actor : turn[a].thread <= Len(threads) /\ turn[a].from <= Len(said)
                   BY <2>5, <2>6, <2>7, <2>8, <1>u
             <3>5. \A m \in DOMAIN said : said[m].thread <= Len(threads)  BY <2>7, <2>9
             <3>. QED  BY <1>s, <1>w, <2>7, <2>8, <3>1, <3>2, <3>3, <3>4, <3>5 DEF AgTypes
      <2>11. ASSUME NEW t \in Turn PROVE TurnSo(t)
             <3>1. CASE t = First
                   <4>1. /\ at[t] = "done" /\ turn[t].thread = 1 /\ turn[t].test = TRUE
                         /\ threads[1].test = TRUE
                         BY <3>1, <2>3, <2>5, <2>6, <2>7
                   <4>. QED  BY <4>1, <1>s DEF TurnSo, Waiting, Speaking
             <3>2. CASE t # First
                   <4>1. at[t] = "idle" /\ turn[t].thread = 0  BY <3>2, <2>6, <1>u DEF Actor
                   <4>. QED  BY <4>1, <1>s DEF TurnSo, Speaking
             <3>. QED  BY <3>1, <3>2
      <2>12. \A a \in Actor : RanksSo(a)
             <3>1. \A a \in Actor : at[a] \in {"idle", "done"}  BY <2>6
             <3>. QED  BY <3>1 DEF RanksSo
      <2>13. StaffSo  BY <2>6, <1>a DEF StaffSo, Actor
      <2>14. ASSUME NEW m \in DOMAIN said PROVE LineSo(m)
             <3>1. HeardNone(First)  BY <2>9 DEF HeardNone
             <3>2. turn[First].thread = 1  BY <2>5, <2>6
             <3>. QED  BY <3>1, <3>2, <2>9, <1>a DEF LineSo
      <2>15. ASSUME NEW i \in DOMAIN threads PROVE ThreadSo(i)
             <3>1. i = 1 /\ threads[i].outcome = "ANSWERED"  BY <2>3, <2>7
             <3>2. SaidIn(i, {"answered"})  BY <3>1, <2>4, <2>8 DEF SaidIn
             <3>. QED  BY <3>1, <3>2, <2>9 DEF ThreadSo, Earned
      <2>16. Ready
             <3>1. rehearsalCompleted
                   BY <2>3, <2>4, <2>7, <2>8 DEF rehearsalCompleted
             <3>. QED  BY <3>1, <2>1 DEF Ready
      <2>. QED  BY <2>10, <2>11, <2>12, <2>13, <2>14, <2>15, <2>16 DEF AgInv
<1>. QED  BY <1>1, <1>2

LEMMA AgInvariant == BuyerAgentSpec => []AgInv
<1>. QED  BY AgInit, AgNext, PTL DEF BuyerAgentSpec

\* Every line is in a conversation, and every turn that joined one joined one
\* that is there: openConversation, appendTurn.
THEOREM AgentTypesHold == BuyerAgentSpec => []BuyerAgentTypeOK
<1>1. AgInv => BuyerAgentTypeOK
      <2>. SUFFICES ASSUME AgInv PROVE BuyerAgentTypeOK
           OBVIOUS
      <2>1. AgTypes  BY AgHas
      <2>2. \A i \in DOMAIN threads : threads[i] \in Thread  BY <2>1, SaidAre
      <2>3. \A m \in DOMAIN said : said[m].thread \in DOMAIN threads  BY <2>1, SaidAre
      <2>4. ASSUME NEW t \in Turn PROVE turn[t].thread \in 0 .. Len(threads)
            <3>1. t \in Actor  BY DEF Actor
            <3>2. turn[t].thread \in Nat /\ turn[t].thread <= Len(threads)
                  BY <2>1, <3>1, ReadsAre
            <3>3. Len(threads) \in Nat  BY <2>1, SaidAre
            <3>. QED  BY <3>2, <3>3
      <2>. QED  BY <2>1, <2>2, <2>3, <2>4 DEF AgTypes, BuyerAgentTypeOK, Thread
<1>. QED  BY <1>1, AgInvariant, PTL

\* However turns, the person who joins in and the merchant's switches cross:
\* the agent says nothing where a person was before it read, tells every quote
\* it filed, keeps a rehearsal out of the buyer's conversations, meets no buyer
\* before one, and shows an outcome that happened (turn.server, tools.server,
\* conversation.server, publish.server).
THEOREM AgentStaysHonest == BuyerAgentSpec => []AgentHonest
<1>1. AgInv => AgentHonest
      <2>. SUFFICES ASSUME AgInv PROVE AgentHonest
           OBVIOUS
      <2>t. AgTypes /\ \A t \in Turn : TurnSo(t)  BY AgHas
      <2>s. /\ \A m \in DOMAIN said : LineSo(m)
            /\ \A m \in DOMAIN said : said[m].thread \in DOMAIN threads
            /\ \A m \in DOMAIN said : said[m] \in Line
            BY <2>t, SaidAre DEF AgInv
      <2>b. \A m \in DOMAIN said : said[m].by # Staff =>
                /\ said[m].by \in Turn
                /\ threads[said[m].thread].test = turn[said[m].by].test
            <3>1. SUFFICES ASSUME NEW m \in DOMAIN said, said[m].by # Staff
                           PROVE  /\ said[m].by \in Turn
                                  /\ threads[said[m].thread].test = turn[said[m].by].test
                  OBVIOUS
            <3>2. PICK t \in Turn : t = said[m].by  BY <2>s, <3>1 DEF Line, Actor
            <3>3. said[m].thread # 0 /\ turn[t].thread = said[m].thread
                  BY <2>s, <3>1, <3>2 DEF LineSo, Line
            <3>4. TurnSo(t)  BY <2>t
            <3>. QED  BY <3>2, <3>3, <3>4 DEF TurnSo
      <2>1. PersonIsHeard
            <3>1. SUFFICES ASSUME NEW m \in DOMAIN said, NEW n \in DOMAIN said, Replied(m),
                                  said[n].kind \in {"joined", "typed"},
                                  said[n].thread = said[m].thread
                           PROVE  turn[said[m].by].from < n
                  BY DEF PersonIsHeard
            <3>2. LineSo(m)  BY <2>s
            <3>3. said[m].by # Staff  BY <3>1, <3>2 DEF LineSo, OfPerson, Replied
            <3>4. HeardNone(said[m].by) /\ turn[said[m].by].thread = said[m].thread
                  BY <3>1, <3>2, <3>3 DEF LineSo
            <3>. QED  BY <3>1, <3>4 DEF HeardNone, OfPerson
      <2>2. FiledIsTold
            <3>1. SUFFICES ASSUME NEW t \in filed, t \notin lost,
                                  at[t] \in {"ranking", "marking", "done"}
                           PROVE  ToldBy(t)
                  BY DEF FiledIsTold, ToldBy
            <3>2. t \in Turn  BY <2>t DEF AgTypes
            <3>. QED  BY <2>t, <3>1, <3>2 DEF TurnSo
      <2>3. RehearsalsApart
            <3>1. \A t \in filed : ~turn[t].test  BY <2>t DEF AgTypes, TurnSo
            <3>2. \A m \in DOMAIN said : threads[said[m].thread].test
                    => said[m].by # Staff /\ turn[said[m].by].test
                  BY <2>s, <2>b DEF LineSo
            <3>3. \A m \in DOMAIN said : ~threads[said[m].thread].test /\ said[m].by # Staff
                    => ~turn[said[m].by].test
                  BY <2>b
            <3>4. (\E t \in Turn : at[t] = "refused") => Cardinality(BuyerTurns) >= TurnLimit
                  BY <2>t DEF TurnSo
            <3>. QED  BY <3>1, <3>2, <3>3, <3>4 DEF RehearsalsApart
      <2>4. RehearsedFirst  BY DEF AgInv, Ready, RehearsedFirst
      <2>5. ChipIsEarned  BY AgHas DEF ThreadSo, Earned, SaidIn, ChipIsEarned
      <2>. QED  BY <2>1, <2>2, <2>3, <2>4, <2>5 DEF AgentHonest
<1>. QED  BY <1>1, AgInvariant, PTL
=============================================================================
