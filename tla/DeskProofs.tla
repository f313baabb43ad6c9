------------------------------ MODULE DeskProofs ------------------------------
(***************************************************************************)
(* What the staff's desk keeps up, for any number of requests, rows and    *)
(* runners: checkout holds what the merchant was last told it holds        *)
(* (RulesetPublish, LimitsPublish), no plan's quota is passed (PlanGate),  *)
(* and every part keeps its types, whichever of them moves (MCDesk).       *)
(*                                                                         *)
(* What is published rests on the one request at work: what it has read is *)
(* still so when it writes it.  The parts share no variables, so that a    *)
(* behaviour of the desk is one of each of them, and what each of them     *)
(* promises holds there (DeskHasParts).                                    *)
(***************************************************************************)
EXTENDS MCDesk, BuyersProofs, ApplicationsProofs, OrderLedgerProofs, SequenceTheorems, TLAPS

(***************************************************************************)
(* The order limits on their way to checkout                               *)
(***************************************************************************)
LimitDesks ==
    {AtRest} \cup [at: {"saved"}]
        \cup [at: {"found"}, group: Scopes(LimitGroup), body: LimitBody,
              row: SUBSET (1 .. MaxLimitEdits), id: 1 .. MaxLimitEdits]
        \cup [at: {"rows"}, hash: {<< >>} \cup {<<rows>> : rows \in SUBSET LimitRow}]
        \cup [at: {"push", "stamp"}, rows: SUBSET LimitRow]

LimitTypes ==
    /\ strain \in Strains /\ entitled \in BOOLEAN
    /\ limitGroups \subseteq LimitGroup
    /\ limitRows \subseteq LimitRow /\ atCheckout \subseteq LimitRow
    /\ limitsHash \in {<< >>} \cup {<<rows>> : rows \in SUBSET LimitRow}
    /\ limitDesk \in [LimitEditor -> LimitDesks]
    /\ limitEdits \in 0 .. MaxLimitEdits

RowsHaveGroups == \A r \in limitRows : ~GroupIsGone(r.group)

WantedRows == IF entitled THEN limitRows ELSE {}

\* A request that publishes has read what is still so.
OnePublisher ==
    /\ \A e, f \in LimitEditor : Idle(e) \/ Idle(f) \/ e = f
    /\ \A e \in LimitEditor : At(e, "rows") => limitDesk[e].hash = limitsHash
    /\ \A e \in LimitEditor : At(e, "push") \/ At(e, "stamp") =>
          OfAGroupThatIs(limitDesk[e].rows) = WantedRows
    /\ \A e \in LimitEditor : At(e, "stamp") => atCheckout = limitDesk[e].rows

HashIsOfIt ==
    (\A e \in LimitEditor : ~At(e, "stamp")) /\ limitsHash # << >> =>
        limitsHash = HashOf(atCheckout)

CartsHeld ==
    strain = {} /\ limitsHash # << >> /\ (\A e \in LimitEditor : Idle(e) \/ At(e, "found")) =>
        OfAGroupThatIs(atCheckout) = WantedRows

LimitsInv ==
    /\ LimitTypes /\ RowsHaveGroups
    /\ strain \subseteq {"refused"} => OnePublisher /\ HashIsOfIt /\ CartsHeld

-----------------------------------------------------------------------------
(* What a group that is deleted takes along                                *)

LEMMA RowParts ==
    ASSUME NEW r \in LimitRow
    PROVE  /\ r.id \in 1 .. MaxLimitEdits /\ r.body \in LimitBody
           /\ \/ r.group = StoreWide
              \/ \E g \in LimitGroup : r.group = <<g>> /\ r.group[1] = g
           /\ r.group \in Scopes(LimitGroup)
BY DEF LimitRow, Scopes

\* A group is gone to no row but its own.
LEMMA GroupGone ==
    ASSUME NEW g \in limitGroups, limitGroups' = limitGroups \ {g}, NEW r \in LimitRow
    PROVE  GroupIsGone(r.group)' <=> GroupIsGone(r.group) \/ r.group = <<g>>
<1>1. CASE r.group = StoreWide
    BY <1>1 DEF GroupIsGone, StoreWide
<1>2. CASE r.group # StoreWide
    <2>1. PICK h \in LimitGroup : r.group = <<h>> /\ r.group[1] = h
        BY <1>2, RowParts
    <2>2. r.group = <<g>> <=> h = g
        BY <2>1
    <2> QED
        BY <1>2, <2>1, <2>2 DEF GroupIsGone
<1> QED
    BY <1>1, <1>2

LEMMA GroupTakes ==
    ASSUME LimitTypes, RowsHaveGroups, NEW g \in LimitGroup, GroupTakesItsLimit(g)
    PROVE  /\ RowsHaveGroups'
           /\ \A rows \in SUBSET LimitRow :
                OfAGroupThatIs(rows) = WantedRows => OfAGroupThatIs(rows)' = WantedRows'
<1>1. /\ g \in limitGroups /\ limitGroups' = limitGroups \ {g}
      /\ limitRows' = limitRows \ {r \in limitRows : r.group = <<g>>}
      /\ UNCHANGED entitled
    BY DEF GroupTakesItsLimit, RowsOf
<1>2. \A r \in LimitRow : GroupIsGone(r.group)' <=> GroupIsGone(r.group) \/ r.group = <<g>>
    BY <1>1, GroupGone
<1>3. RowsHaveGroups'
    BY <1>1, <1>2 DEF RowsHaveGroups, LimitTypes
<1>4. ASSUME NEW rows \in SUBSET LimitRow, OfAGroupThatIs(rows) = WantedRows
      PROVE  OfAGroupThatIs(rows)' = WantedRows'
    <2>1. \A r \in rows : ~GroupIsGone(r.group) <=> r \in WantedRows
        BY <1>4 DEF OfAGroupThatIs
    <2>2. \A r : r \in WantedRows' <=> r \in WantedRows /\ r.group # <<g>>
        BY <1>1 DEF WantedRows
    <2>3. \A r \in WantedRows : r \in rows
        BY <1>4 DEF OfAGroupThatIs
    <2>4. \A r : r \in OfAGroupThatIs(rows)' <=> r \in rows /\ ~GroupIsGone(r.group)'
        BY DEF OfAGroupThatIs
    <2>5. \A r : r \in OfAGroupThatIs(rows)' <=> r \in WantedRows'
        BY <1>2, <2>1, <2>2, <2>3, <2>4
    <2> QED
        BY <2>5 DEF OfAGroupThatIs, WantedRows
<1> QED
    BY <1>3, <1>4

-----------------------------------------------------------------------------
(* A request goes on, the others where they are                            *)

LEMMA EditorWent ==
    ASSUME LimitTypes, NEW e \in LimitEditor, NEW to \in LimitDesks, Moves(e, to)
    PROVE  /\ limitDesk' \in [LimitEditor -> LimitDesks] /\ limitDesk'[e] = to
           /\ \A f \in LimitEditor : f # e => limitDesk'[f] = limitDesk[f]
BY DEF LimitTypes, Moves

\* What the one request at work has to show for itself.
LEMMA AloneAtWork ==
    ASSUME LimitTypes, NEW e \in LimitEditor, NEW to \in LimitDesks, Moves(e, to),
           UNCHANGED limitGroups, OnePublisher,
           \A f \in LimitEditor : f # e => Idle(f),
           to.at = "rows" => to.hash = limitsHash',
           to.at \in {"push", "stamp"} => OfAGroupThatIs(to.rows) = WantedRows',
           to.at = "stamp" => atCheckout' = to.rows,
           to.at # "stamp" /\ limitsHash' # << >> => limitsHash' = HashOf(atCheckout'),
           strain' = {} /\ limitsHash' # << >> /\ to.at \in {"rest", "found"}
               => OfAGroupThatIs(atCheckout') = WantedRows'
    PROVE  (OnePublisher /\ HashIsOfIt /\ CartsHeld)'
<1>1. /\ limitDesk'[e] = to
      /\ \A f \in LimitEditor : f # e => limitDesk'[f] = AtRest
    BY EditorWent DEF Idle
<1>2. \A rows : OfAGroupThatIs(rows)' = OfAGroupThatIs(rows)
    BY DEF OfAGroupThatIs, GroupIsGone
<1>3. OnePublisher'
    <2>1. \A f \in LimitEditor : f # e => Idle(f)'
        BY <1>1 DEF Idle
    <2>2. (\A f, g \in LimitEditor : Idle(f) \/ Idle(g) \/ f = g)'
        BY <2>1
    <2>3. \A f \in LimitEditor : f # e => limitDesk'[f].at = "rest"
        BY <1>1 DEF AtRest
    <2>4. \A f \in LimitEditor : limitDesk'[f].at = "rows" => limitDesk'[f].hash = limitsHash'
        BY <1>1, <2>3
    <2>5. \A f \in LimitEditor : limitDesk'[f].at \in {"push", "stamp"} =>
              OfAGroupThatIs(limitDesk'[f].rows) = WantedRows'
        BY <1>1, <2>3
    <2>6. \A f \in LimitEditor : limitDesk'[f].at = "stamp" => atCheckout' = limitDesk'[f].rows
        BY <1>1, <2>3
    <2>7. (\A f \in LimitEditor : At(f, "push") \/ At(f, "stamp") =>
                OfAGroupThatIs(limitDesk[f].rows) = WantedRows)'
        BY <2>5 DEF At, OfAGroupThatIs, GroupIsGone
    <2> QED
        BY <2>2, <2>4, <2>6, <2>7 DEF OnePublisher, At
<1>4. HashIsOfIt'
    BY <1>1 DEF HashIsOfIt, At, HashOf
<1>5. CartsHeld'
    <2>1. Idle(e)' \/ At(e, "found")' => to.at \in {"rest", "found"}
        BY <1>1 DEF Idle, At, AtRest
    <2>2. OfAGroupThatIs(atCheckout)' = OfAGroupThatIs(atCheckout')
        BY DEF OfAGroupThatIs, GroupIsGone
    <2> QED
        BY <2>1, <2>2 DEF CartsHeld
<1> QED
    BY <1>3, <1>4, <1>5

\* Who is at work is alone at it, and who begins it.
LEMMA AloneThere ==
    ASSUME LimitTypes, strain \subseteq {"refused"}, OnePublisher, NEW e \in LimitEditor,
           ~Idle(e) \/ MayBegin(e)
    PROVE  \A f \in LimitEditor : f # e => Idle(f)
BY DEF OnePublisher, MayBegin

-----------------------------------------------------------------------------
(* The steps of a request                                                  *)

\* What is at a step carries what the step needs.
LEMMA DeskParts ==
    ASSUME LimitTypes, NEW e \in LimitEditor
    PROVE  /\ At(e, "found") =>
                /\ limitDesk[e].group \in Scopes(LimitGroup) /\ limitDesk[e].body \in LimitBody
                /\ limitDesk[e].id \in 1 .. MaxLimitEdits
           /\ At(e, "rows") => limitDesk[e].hash \in {<< >>} \cup {<<s>> : s \in SUBSET LimitRow}
           /\ At(e, "push") \/ At(e, "stamp") =>
                /\ limitDesk[e].rows \in SUBSET LimitRow
                /\ limitDesk[e] = [at |-> limitDesk[e].at, rows |-> limitDesk[e].rows]
           /\ Idle(e) <=> limitDesk[e].at = "rest"
BY DEF LimitTypes, LimitDesks, At, AtRest, Idle

LEMMA DesksAre ==
    /\ AtRest \in LimitDesks /\ [at |-> "saved"] \in LimitDesks
    /\ \A s \in SUBSET LimitRow :
          [at |-> "push", rows |-> s] \in LimitDesks /\ [at |-> "stamp", rows |-> s] \in LimitDesks
BY DEF LimitDesks, AtRest

LEMMA SaveFindsKept ==
    ASSUME LimitsInv, NEW e \in LimitEditor, SaveFinds(e) PROVE LimitsInv'
<1>1. PICK group \in Scopes(limitGroups), body \in LimitBody,
           found \in {{}} \cup {{r.id} : r \in limitRows} :
         Moves(e, [at |-> "found", group |-> group, body |-> body, row |-> found,
                   id |-> limitEdits + 1])
    BY DEF SaveFinds, RowsOf
<1>2. /\ limitEdits < MaxLimitEdits /\ limitEdits' = limitEdits + 1 /\ MayBegin(e) /\ Idle(e)
      /\ UNCHANGED <<strain, entitled, limitGroups, limitRows, atCheckout, limitsHash>>
      /\ LimitTypes
    BY DEF SaveFinds, MayBegin, LimitsInv
<1> DEFINE to == [at |-> "found", group |-> group, body |-> body, row |-> found,
                  id |-> limitEdits + 1]
<1>3. to \in LimitDesks
    <2>1. limitEdits + 1 \in 1 .. MaxLimitEdits
        BY <1>2, LimitsAssumption DEF LimitTypes, LimitsAssumption
    <2>2. group \in Scopes(LimitGroup)
        BY <1>2 DEF LimitTypes, Scopes
    <2>3. found \in SUBSET (1 .. MaxLimitEdits)
        BY <1>2 DEF LimitTypes, LimitRow
    <2> QED
        BY <2>1, <2>2, <2>3 DEF LimitDesks
<1>4. to.at = "found" /\ Moves(e, to)
    BY <1>1
<1> HIDE DEF to
<1>5. LimitTypes'
    <2>1. limitEdits' \in 0 .. MaxLimitEdits
        BY <1>2, LimitsAssumption DEF LimitTypes, LimitsAssumption
    <2> QED
        BY <1>2, <1>3, <1>4, <2>1, EditorWent DEF LimitTypes
<1>6. RowsHaveGroups'
    BY <1>2 DEF LimitsInv, RowsHaveGroups, GroupIsGone
<1>7. ASSUME strain \subseteq {"refused"} PROVE (OnePublisher /\ HashIsOfIt /\ CartsHeld)'
    <2>1. \A f \in LimitEditor : f # e => Idle(f)
        BY <1>2, <1>7, AloneThere DEF LimitsInv
    <2>2. OnePublisher /\ HashIsOfIt /\ CartsHeld /\ \A f \in LimitEditor : Idle(f)
        BY <1>2, <1>7, <2>1 DEF LimitsInv
    <2>3. limitsHash # << >> => limitsHash = HashOf(atCheckout)
        BY <2>2 DEF HashIsOfIt, At, Idle, AtRest
    <2>4. strain = {} /\ limitsHash # << >> => OfAGroupThatIs(atCheckout) = WantedRows
        BY <2>2 DEF CartsHeld
    <2> QED
        BY <1>2, <1>3, <1>4, <2>1, <2>2, <2>3, <2>4, AloneAtWork DEF HashOf, WantedRows
<1> QED
    BY <1>2, <1>5, <1>6, <1>7 DEF LimitsInv

\* A request ends as it is, or goes on to publish, whatever it wrote.
LEMMA SavedKept ==
    ASSUME LimitsInv, NEW e \in LimitEditor, NEW to \in {AtRest, [at |-> "saved"]},
           Moves(e, to), ~Idle(e) \/ MayBegin(e), ~At(e, "stamp"),
           LimitTypes /\ RowsHaveGroups => LimitTypes' /\ RowsHaveGroups',
           UNCHANGED <<strain, limitGroups, atCheckout, limitsHash>>,
           to = AtRest => Idle(e) \/ At(e, "found"),
           to = AtRest => UNCHANGED <<entitled, limitRows>>
    PROVE  LimitsInv'
<1>1. /\ LimitTypes /\ to \in LimitDesks /\ to.at \in {"rest", "saved"}
      /\ to = AtRest <=> to.at = "rest"
    BY DesksAre DEF LimitsInv, AtRest
<1>2. ASSUME strain \subseteq {"refused"} PROVE (OnePublisher /\ HashIsOfIt /\ CartsHeld)'
    <2>1. OnePublisher /\ HashIsOfIt /\ CartsHeld
        BY <1>2 DEF LimitsInv
    <2>2. \A f \in LimitEditor : f # e => Idle(f)
        BY <1>1, <1>2, <2>1, AloneThere
    <2>3. limitsHash # << >> => limitsHash = HashOf(atCheckout)
        BY <2>1, <2>2 DEF HashIsOfIt, At, Idle, AtRest
    <2>4. to = AtRest /\ strain = {} /\ limitsHash # << >> =>
              OfAGroupThatIs(atCheckout) = WantedRows'
        BY <2>1, <2>2 DEF CartsHeld, WantedRows
    <2> QED
        BY <1>1, <2>1, <2>2, <2>3, <2>4, AloneAtWork DEF HashOf
<1> QED
    BY <1>2 DEF LimitsInv

LEMMA SaveWritesKept ==
    ASSUME LimitsInv, NEW e \in LimitEditor, SaveWrites(e) PROVE LimitsInv'
<1> DEFINE desk == limitDesk[e]
           mine == {r \in limitRows : r.id \in desk.row}
           made == [id |-> desk.id, group |-> desk.group, body |-> desk.body]
<1>1. /\ At(e, "found") /\ LimitTypes
      /\ UNCHANGED <<strain, entitled, limitGroups, atCheckout, limitsHash, limitEdits>>
    BY DEF SaveWrites, LimitsInv
<1>2. /\ desk.group \in Scopes(LimitGroup) /\ desk.body \in LimitBody
      /\ desk.id \in 1 .. MaxLimitEdits /\ ~Idle(e) /\ ~At(e, "stamp")
    BY <1>1, DeskParts DEF At
<1>3. CASE limitRows' = limitRows /\ Moves(e, AtRest)
    <2>1. LimitTypes' /\ RowsHaveGroups'
        BY <1>1, <1>3, DesksAre, EditorWent DEF LimitTypes, LimitsInv, RowsHaveGroups, GroupIsGone
    <2> QED
        BY <1>1, <1>2, <1>3, <2>1, SavedKept
<1>4. CASE /\ Moves(e, [at |-> "saved"])
           /\ \/ limitRows' = limitRows \cup {made} /\ ~GroupIsGone(desk.group)
              \/ limitRows' = (limitRows \ mine)
                                \cup {[r EXCEPT !.body = desk.body] : r \in mine}
    <2>1. ASSUME NEW r \in limitRows'
          PROVE  r \in LimitRow /\ ~GroupIsGone(r.group)
        <3>1. CASE r \in limitRows
            BY <1>1, <3>1 DEF LimitTypes, LimitsInv, RowsHaveGroups
        <3>2. CASE r = made /\ ~GroupIsGone(desk.group)
            BY <1>2, <3>2 DEF LimitRow
        <3>3. CASE \E q \in limitRows : r = [q EXCEPT !.body = desk.body]
            <4>1. PICK q \in limitRows : r = [q EXCEPT !.body = desk.body]
                BY <3>3
            <4>2. q \in LimitRow /\ ~GroupIsGone(q.group)
                BY <1>1 DEF LimitTypes, LimitsInv, RowsHaveGroups
            <4>3. r \in LimitRow /\ r.group = q.group
                BY <1>2, <4>1, <4>2 DEF LimitRow
            <4> QED
                BY <4>2, <4>3
        <3> QED
            BY <1>4, <2>1, <3>1, <3>2, <3>3
    <2>2. limitRows' \subseteq LimitRow
        BY <2>1
    <2>3. RowsHaveGroups'
        BY <1>1, <2>1 DEF RowsHaveGroups, GroupIsGone
    <2>4. LimitTypes'
        BY <1>1, <1>4, <2>2, DesksAre, EditorWent DEF LimitTypes
    <2>5. [at |-> "saved"] # AtRest
        BY DEF AtRest
    <2> QED
        BY <1>1, <1>2, <1>4, <2>3, <2>4, <2>5, SavedKept
<1>5. \/ limitRows' = limitRows /\ Moves(e, AtRest)
      \/ /\ Moves(e, [at |-> "saved"])
         /\ \/ limitRows' = limitRows \cup {made} /\ ~GroupIsGone(desk.group)
            \/ limitRows' = (limitRows \ mine)
                              \cup {[r EXCEPT !.body = desk.body] : r \in mine}
    BY DEF SaveWrites
<1> QED
    BY <1>3, <1>4, <1>5

LEMMA deleteLimitKept ==
    ASSUME LimitsInv, NEW e \in LimitEditor, deleteLimit(e) PROVE LimitsInv'
<1>1. /\ MayBegin(e) /\ Idle(e) /\ Moves(e, [at |-> "saved"]) /\ limitRows' \subseteq limitRows
      /\ limitEdits < MaxLimitEdits /\ limitEdits' = limitEdits + 1 /\ LimitTypes
      /\ UNCHANGED <<strain, entitled, limitGroups, atCheckout, limitsHash>>
    BY DEF deleteLimit, MayBegin, LimitsInv
<1>2. limitEdits' \in 0 .. MaxLimitEdits
    BY <1>1, LimitsAssumption DEF LimitTypes, LimitsAssumption
<1>3. LimitTypes'
    BY <1>1, <1>2, DesksAre, EditorWent DEF LimitTypes
<1>4. RowsHaveGroups'
    BY <1>1 DEF LimitsInv, RowsHaveGroups, GroupIsGone
<1>5. [at |-> "saved"] # AtRest /\ ~At(e, "stamp")
    BY <1>1 DEF AtRest, Idle, At
<1> QED
    BY <1>1, <1>3, <1>4, <1>5, SavedKept

LEMMA PlanMovesKept ==
    ASSUME LimitsInv, NEW e \in LimitEditor, PlanMovesLimits(e) PROVE LimitsInv'
<1>1. /\ MayBegin(e) /\ Idle(e) /\ Moves(e, [at |-> "saved"]) /\ entitled' = ~entitled
      /\ limitEdits < MaxLimitEdits /\ limitEdits' = limitEdits + 1 /\ LimitTypes
      /\ UNCHANGED <<strain, limitGroups, limitRows, atCheckout, limitsHash>>
    BY DEF PlanMovesLimits, MayBegin, LimitsInv
<1>2. limitEdits' \in 0 .. MaxLimitEdits
    BY <1>1, LimitsAssumption DEF LimitTypes, LimitsAssumption
<1>3. entitled' \in BOOLEAN
    BY <1>1
<1>4. LimitTypes'
    BY <1>1, <1>2, <1>3, DesksAre, EditorWent DEF LimitTypes
<1>5. RowsHaveGroups'
    BY <1>1 DEF LimitsInv, RowsHaveGroups, GroupIsGone
<1>6. [at |-> "saved"] # AtRest /\ ~At(e, "stamp")
    BY <1>1 DEF AtRest, Idle, At
<1> QED
    BY <1>1, <1>4, <1>5, <1>6, SavedKept

\* A step that moves the request alone.
LEMMA OnlyDeskMoves ==
    ASSUME LimitsInv, NEW e \in LimitEditor, NEW to \in LimitDesks, Moves(e, to),
           UNCHANGED <<strain, entitled, limitGroups, limitRows, atCheckout, limitsHash,
                       limitEdits>>,
           strain \subseteq {"refused"} => (OnePublisher /\ HashIsOfIt /\ CartsHeld)'
    PROVE  LimitsInv'
<1>1. LimitTypes'
    BY EditorWent DEF LimitsInv, LimitTypes
<1>2. RowsHaveGroups'
    BY DEF LimitsInv, RowsHaveGroups, GroupIsGone
<1> QED
    BY <1>1, <1>2 DEF LimitsInv

LEMMA PublishBeginsKept ==
    ASSUME LimitsInv, NEW e \in LimitEditor, PublishBegins(e) PROVE LimitsInv'
<1> DEFINE to == [at |-> "rows", hash |-> limitsHash]
<1>1. /\ At(e, "saved") /\ ~Idle(e) /\ ~At(e, "stamp") /\ Moves(e, to) /\ LimitTypes
      /\ UNCHANGED <<strain, entitled, limitGroups, limitRows, atCheckout, limitsHash, limitEdits>>
    BY DEF PublishBegins, LimitsInv, At, Idle, AtRest
<1>2. to \in LimitDesks /\ to.at = "rows" /\ to.hash = limitsHash
    BY <1>1 DEF LimitTypes, LimitDesks
<1> HIDE DEF to
<1>3. ASSUME strain \subseteq {"refused"} PROVE (OnePublisher /\ HashIsOfIt /\ CartsHeld)'
    <2>1. OnePublisher /\ HashIsOfIt
        BY <1>3 DEF LimitsInv
    <2>2. \A f \in LimitEditor : f # e => Idle(f)
        BY <1>1, <1>3, <2>1, AloneThere
    <2>3. limitsHash # << >> => limitsHash = HashOf(atCheckout)
        BY <1>1, <2>1, <2>2 DEF HashIsOfIt, At, Idle, AtRest
    <2> QED
        BY <1>1, <1>2, <2>1, <2>2, <2>3, AloneAtWork DEF HashOf
<1> QED
    BY <1>1, <1>2, <1>3, OnlyDeskMoves

\* The rows that are read are all of groups that are.
LEMMA WantedAre ==
    ASSUME LimitTypes, RowsHaveGroups
    PROVE  WantedRows \in SUBSET LimitRow /\ OfAGroupThatIs(WantedRows) = WantedRows
BY DEF LimitTypes, RowsHaveGroups, WantedRows, OfAGroupThatIs

LEMMA PublishReadsKept ==
    ASSUME LimitsInv, NEW e \in LimitEditor, PublishReads(e) PROVE LimitsInv'
<1>1. /\ At(e, "rows") /\ ~Idle(e) /\ ~At(e, "stamp") /\ LimitTypes
      /\ Moves(e, IF limitDesk[e].hash = HashOf(WantedRows) THEN AtRest
                  ELSE [at |-> "push", rows |-> WantedRows])
      /\ UNCHANGED <<strain, entitled, limitGroups, limitRows, atCheckout, limitsHash, limitEdits>>
    BY DEF PublishReads, LimitsInv, At, Idle, AtRest, WantedRows
<1>2. WantedRows \in SUBSET LimitRow /\ OfAGroupThatIs(WantedRows) = WantedRows
      /\ WantedRows' = WantedRows
    BY <1>1, WantedAre DEF LimitsInv, WantedRows
<1>3. ASSUME strain \subseteq {"refused"}
      PROVE  /\ OnePublisher /\ \A f \in LimitEditor : f # e => Idle(f)
             /\ limitsHash # << >> => limitsHash = HashOf(atCheckout)
             /\ limitDesk[e].hash = limitsHash
    <2>1. OnePublisher /\ HashIsOfIt
        BY <1>3 DEF LimitsInv
    <2>2. \A f \in LimitEditor : f # e => Idle(f)
        BY <1>1, <1>3, <2>1, AloneThere
    <2> QED
        BY <1>1, <2>1, <2>2 DEF OnePublisher, HashIsOfIt, At, Idle, AtRest
<1>4. CASE limitDesk[e].hash = HashOf(WantedRows)
    <2>1. Moves(e, AtRest) /\ AtRest \in LimitDesks /\ AtRest.at = "rest"
        BY <1>1, <1>4, DesksAre DEF AtRest
    <2>2. ASSUME strain \subseteq {"refused"} PROVE (OnePublisher /\ HashIsOfIt /\ CartsHeld)'
        <3>1. atCheckout = WantedRows
            BY <1>3, <1>4, <2>2 DEF HashOf
        <3> QED
            BY <1>1, <1>2, <1>3, <2>1, <2>2, <3>1, AloneAtWork DEF HashOf
    <2> QED
        BY <1>1, <2>1, <2>2, OnlyDeskMoves
<1>5. CASE limitDesk[e].hash # HashOf(WantedRows)
    <2> DEFINE to == [at |-> "push", rows |-> WantedRows]
    <2>1. Moves(e, to) /\ to \in LimitDesks /\ to.at = "push" /\ to.rows = WantedRows
        BY <1>1, <1>2, <1>5, DesksAre
    <2> HIDE DEF to
    <2>2. ASSUME strain \subseteq {"refused"} PROVE (OnePublisher /\ HashIsOfIt /\ CartsHeld)'
        BY <1>1, <1>2, <1>3, <2>1, <2>2, AloneAtWork DEF HashOf
    <2> QED
        BY <1>1, <2>1, <2>2, OnlyDeskMoves
<1> QED
    BY <1>4, <1>5

LEMMA PublishPushesKept ==
    ASSUME LimitsInv, NEW e \in LimitEditor, PublishPushes(e) PROVE LimitsInv'
<1>1. /\ At(e, "push") /\ ~Idle(e) /\ ~At(e, "stamp") /\ LimitTypes /\ RowsHaveGroups
      /\ \/ atCheckout' = limitDesk[e].rows /\ Moves(e, [limitDesk[e] EXCEPT !.at = "stamp"])
         \/ "refused" \in strain /\ Moves(e, AtRest) /\ UNCHANGED atCheckout
      /\ UNCHANGED <<strain, entitled, limitGroups, limitRows, limitsHash, limitEdits>>
    BY DEF PublishPushes, LimitsInv, At, Idle, AtRest
<1>2. limitDesk[e].rows \in SUBSET LimitRow
      /\ limitDesk[e] = [at |-> limitDesk[e].at, rows |-> limitDesk[e].rows]
    BY <1>1, DeskParts
<1>3. ASSUME strain \subseteq {"refused"}
      PROVE  /\ OnePublisher /\ \A f \in LimitEditor : f # e => Idle(f)
             /\ limitsHash # << >> => limitsHash = HashOf(atCheckout)
             /\ OfAGroupThatIs(limitDesk[e].rows) = WantedRows
    <2>1. OnePublisher /\ HashIsOfIt
        BY <1>3 DEF LimitsInv
    <2>2. \A f \in LimitEditor : f # e => Idle(f)
        BY <1>1, <1>3, <2>1, AloneThere
    <2> QED
        BY <1>1, <2>1, <2>2 DEF OnePublisher, HashIsOfIt, At, Idle, AtRest
<1>4. CASE "refused" \in strain /\ Moves(e, AtRest) /\ UNCHANGED atCheckout
    <2>1. AtRest \in LimitDesks /\ AtRest.at = "rest"
        BY DesksAre DEF AtRest
    <2>2. ASSUME strain \subseteq {"refused"} PROVE (OnePublisher /\ HashIsOfIt /\ CartsHeld)'
        BY <1>1, <1>3, <1>4, <2>1, <2>2, AloneAtWork DEF HashOf
    <2> QED
        BY <1>1, <1>4, <2>1, <2>2, OnlyDeskMoves
<1>5. CASE atCheckout' = limitDesk[e].rows /\ Moves(e, [limitDesk[e] EXCEPT !.at = "stamp"])
    <2> DEFINE to == [at |-> "stamp", rows |-> limitDesk[e].rows]
    <2>1. Moves(e, to)
        <3>1. [limitDesk[e] EXCEPT !.at = "stamp"] = to
            BY <1>2
        <3> QED
            BY <1>5, <3>1
    <2>2. to \in LimitDesks /\ to.at = "stamp" /\ to.rows = limitDesk[e].rows
        BY <1>2, DesksAre
    <2> HIDE DEF to
    <2>3. ASSUME strain \subseteq {"refused"} PROVE (OnePublisher /\ HashIsOfIt /\ CartsHeld)'
        BY <1>1, <1>3, <1>5, <2>1, <2>2, <2>3, AloneAtWork DEF WantedRows
    <2>4. LimitTypes'
        BY <1>1, <1>2, <1>5, <2>1, <2>2, EditorWent DEF LimitTypes
    <2>5. RowsHaveGroups'
        BY <1>1 DEF RowsHaveGroups, GroupIsGone
    <2> QED
        BY <1>1, <2>3, <2>4, <2>5 DEF LimitsInv
<1> QED
    BY <1>1, <1>4, <1>5

LEMMA PublishStampsKept ==
    ASSUME LimitsInv, NEW e \in LimitEditor, PublishStamps(e) PROVE LimitsInv'
<1>1. /\ At(e, "stamp") /\ ~Idle(e) /\ LimitTypes /\ RowsHaveGroups
      /\ limitsHash' = HashOf(limitDesk[e].rows) /\ Moves(e, AtRest)
      /\ UNCHANGED <<strain, entitled, limitGroups, limitRows, atCheckout, limitEdits>>
    BY DEF PublishStamps, LimitsInv, At, Idle, AtRest
<1>2. limitDesk[e].rows \in SUBSET LimitRow
    BY <1>1, DeskParts
<1>3. AtRest \in LimitDesks /\ AtRest.at = "rest"
    BY DesksAre DEF AtRest
<1>4. ASSUME strain \subseteq {"refused"} PROVE (OnePublisher /\ HashIsOfIt /\ CartsHeld)'
    <2>1. OnePublisher
        BY <1>4 DEF LimitsInv
    <2>2. \A f \in LimitEditor : f # e => Idle(f)
        BY <1>1, <1>4, <2>1, AloneThere
    <2>3. atCheckout = limitDesk[e].rows /\ OfAGroupThatIs(atCheckout) = WantedRows
        BY <1>1, <2>1 DEF OnePublisher
    <2> QED
        BY <1>1, <1>3, <2>1, <2>2, <2>3, AloneAtWork DEF WantedRows
<1>5. LimitTypes'
    <2>1. limitsHash' \in {<< >>} \cup {<<s>> : s \in SUBSET LimitRow}
        BY <1>1, <1>2 DEF HashOf
    <2> QED
        BY <1>1, <1>3, <2>1, EditorWent DEF LimitTypes
<1>6. RowsHaveGroups'
    BY <1>1 DEF RowsHaveGroups, GroupIsGone
<1> QED
    BY <1>1, <1>4, <1>5, <1>6 DEF LimitsInv

LEMMA EditorDiesKept ==
    ASSUME LimitsInv, NEW e \in LimitEditor, EditorDies(e) PROVE LimitsInv'
<1>1. /\ "killed" \in strain /\ Moves(e, AtRest) /\ AtRest \in LimitDesks
      /\ UNCHANGED <<strain, entitled, limitGroups, limitRows, atCheckout, limitsHash, limitEdits>>
    BY DesksAre DEF EditorDies
<1> QED
    BY <1>1, OnlyDeskMoves

LEMMA GroupTakesKept ==
    ASSUME LimitsInv, NEW g \in LimitGroup, GroupTakesItsLimit(g) PROVE LimitsInv'
<1>1. /\ LimitTypes /\ RowsHaveGroups
      /\ UNCHANGED <<strain, entitled, atCheckout, limitsHash, limitDesk, limitEdits>>
      /\ limitGroups' \subseteq limitGroups /\ limitRows' \subseteq limitRows
    BY DEF GroupTakesItsLimit, LimitsInv
<1>2. /\ RowsHaveGroups'
      /\ \A rows \in SUBSET LimitRow :
           OfAGroupThatIs(rows) = WantedRows => OfAGroupThatIs(rows)' = WantedRows'
    BY <1>1, GroupTakes
<1>3. LimitTypes'
    BY <1>1 DEF LimitTypes
<1>4. ASSUME strain \subseteq {"refused"} PROVE (OnePublisher /\ HashIsOfIt /\ CartsHeld)'
    <2>1. OnePublisher /\ HashIsOfIt /\ CartsHeld
        BY <1>4 DEF LimitsInv
    <2>2. ASSUME NEW e \in LimitEditor, At(e, "push") \/ At(e, "stamp")
          PROVE  OfAGroupThatIs(limitDesk[e].rows)' = WantedRows'
        <3>1. PICK rows \in SUBSET LimitRow : rows = limitDesk[e].rows
            BY <1>1, <2>2, DeskParts
        <3>2. OfAGroupThatIs(rows)' = WantedRows'
            BY <1>2, <2>1, <2>2, <3>1 DEF OnePublisher
        <3> QED
            BY <1>1, <3>1, <3>2 DEF OfAGroupThatIs
    <2>3. OnePublisher'
        BY <1>1, <2>1, <2>2 DEF OnePublisher, Idle, At
    <2>4. HashIsOfIt'
        BY <1>1, <2>1 DEF HashIsOfIt, At, HashOf
    <2>5. CartsHeld'
        <3>1. PICK rows \in SUBSET LimitRow : rows = atCheckout
            BY <1>1 DEF LimitTypes
        <3>2. OfAGroupThatIs(rows) = WantedRows => OfAGroupThatIs(rows)' = WantedRows'
            BY <1>2
        <3>3. OfAGroupThatIs(atCheckout) = WantedRows => OfAGroupThatIs(atCheckout)' = WantedRows'
            BY <1>1, <3>1, <3>2 DEF OfAGroupThatIs
        <3> QED
            BY <1>1, <2>1, <3>3 DEF CartsHeld, Idle, At
    <2> QED
        BY <2>3, <2>4, <2>5
<1> QED
    BY <1>1, <1>2, <1>3, <1>4 DEF LimitsInv

LEMMA LimitsInitially == LimitsInit => LimitsInv
<1> SUFFICES ASSUME LimitsInit PROVE LimitsInv
    OBVIOUS
<1>1. LimitTypes
    BY DesksAre, LimitsAssumption DEF LimitsInit, LimitTypes, LimitsAssumption
<1>2. RowsHaveGroups /\ OnePublisher /\ HashIsOfIt /\ CartsHeld
    BY DEF LimitsInit, RowsHaveGroups, OnePublisher, HashIsOfIt, CartsHeld, At, Idle, AtRest
<1> QED
    BY <1>1, <1>2 DEF LimitsInv

LEMMA LimitsStep == LimitsInv /\ [LimitsNext]_limitsVars => LimitsInv'
<1> SUFFICES ASSUME LimitsInv, [LimitsNext]_limitsVars PROVE LimitsInv'
    OBVIOUS
<1>1. CASE UNCHANGED limitsVars
    BY <1>1 DEF limitsVars, LimitsInv, LimitTypes, RowsHaveGroups, GroupIsGone, OnePublisher,
        HashIsOfIt, CartsHeld, Idle, At, OfAGroupThatIs, WantedRows
<1> QED
    BY <1>1, SaveFindsKept, SaveWritesKept, deleteLimitKept, PlanMovesKept, PublishBeginsKept,
        PublishReadsKept, PublishPushesKept, PublishStampsKept, EditorDiesKept, GroupTakesKept
        DEF LimitsNext

LEMMA LimitsInvariant == LimitsSpec => []LimitsInv
BY LimitsInitially, LimitsStep, PTL DEF LimitsSpec

\* The state of the order limits keeps its types (LimitsPublish).
THEOREM LimitTypesHold == LimitsSpec => []LimitsTypeOK
<1>1. LimitsInv => LimitsTypeOK
    BY DEF LimitsInv, LimitTypes, LimitDesks, AtRest, LimitsTypeOK
<1> QED
    BY <1>1, LimitsInvariant, PTL

\* Where one request is at work at a time and none is killed or throws between
\* its push and its stamp, the hash is of what checkout holds; and where none is refused either, carts are held to the
\* rows of the plan, however many groups are deleted meanwhile
\* (app/lib/orders/limits.server.ts, publishLimits).
THEOREM LimitsStayAgreed == LimitsSpec => []LimitsAgree
<1>1. LimitsInv => LimitsAgree
    <2> SUFFICES ASSUME LimitsInv, AllAtRest, strain \subseteq {"refused"}
                 PROVE  /\ limitsHash # << >> => limitsHash = HashOf(atCheckout)
                        /\ strain = {} /\ limitsHash # << >> =>
                             OfAGroupThatIs(atCheckout) = IF entitled THEN limitRows ELSE {}
        BY DEF LimitsAgree
    <2> QED
        BY DEF LimitsInv, AllAtRest, HashIsOfIt, CartsHeld, WantedRows, Idle, At, AtRest
<1> QED
    BY <1>1, LimitsInvariant, PTL

(***************************************************************************)
(* The pricing rules on their way to checkout                              *)
(***************************************************************************)
RuleRow == [status: {"NONE", "ACTIVE", "DRAFT", "ARCHIVED", "GONE"},
            price: Price \cup {0}, version: Nat]

OfARow == {"update", "archive", "restore", "delete"}
AtLarge == {"create", "import", "reorder", "pause", "resume"}

Edit == [at: {"write", "read", "compare", "create", "keep", "set", "stamp", "silence",
              "tell"},
         kind: OfARow \cup AtLarge \cup {"undo"},
         read: [rule: Rule, row: RuleRow] \cup {RowOf({}, NoRule)} \cup SUBSET Rule,
         flag: BOOLEAN, silenced: BOOLEAN, ruleset: Ruleset, existing: Nat]

RuleTypes ==
    /\ luck \in Lucks
    /\ rules \in [Rule -> RuleRow]
    /\ \A r \in Rule : rules[r].status = "ACTIVE" => rules[r].price \in Price
    /\ imported \subseteq Rule
    /\ flag \in BOOLEAN /\ silenced \in BOOLEAN
    /\ hash \in {<< >>} \cup {<<s>> : s \in Ruleset}
    /\ discounts \in Seq(Ruleset) /\ discountId \in 0 .. Len(discounts)
    /\ begun \in 0 .. MaxEdits

EditTypes ==
    /\ editing \in [Editor -> {AtDesk} \cup Edit]
    /\ \A p \in Editor :
         editing[p].at # "idle" =>
             /\ editing[p].existing <= Len(discounts)
             /\ editing[p].kind \in OfARow => editing[p].read \in [rule: Rule, row: RuleRow]
             /\ editing[p].kind = "undo" => editing[p].read \in SUBSET Rule

RulesetTypes == RuleTypes /\ EditTypes

EditAt(p, places) == editing[p].at \in places

\* What checkout prices with is what the active rules say, and a shop that has
\* no discount has no active rule, paused or not.
PricedWell ==
    IF discountId = 0 THEN \A r \in Rule : rules[r].status # "ACTIVE"
                      ELSE discounts[discountId] = activeEngineRules

\* What a request has read is still so when it writes, ...
ReadIsSo(p) ==
    EditAt(p, {"write"}) =>
        /\ editing[p].flag = flag /\ editing[p].silenced = silenced
        /\ editing[p].existing = discountId
        /\ editing[p].kind \in OfARow =>
             editing[p].read.row = rules[editing[p].read.rule]
        /\ editing[p].kind \in {"restore", "delete"} => editing[p].read.row.status = "ARCHIVED"

\* ... and when it publishes.
PublishesSo(p) ==
    /\ EditAt(p, {"compare", "create", "keep", "set", "stamp"}) =>
          editing[p].ruleset = activeEngineRules
    /\ EditAt(p, {"create"}) => discountId = 0
    /\ EditAt(p, {"keep"}) =>
          discountId = 0 /\ editing[p].existing = 1 /\ discounts = <<editing[p].ruleset>>
    /\ EditAt(p, {"set"}) => discountId # 0 /\ editing[p].existing = discountId
    /\ EditAt(p, {"stamp"}) => discountId # 0 /\ discounts[discountId] = editing[p].ruleset

\* A pause that says so has silenced checkout; a resume can put that back.
PausesSo(p) ==
    /\ EditAt(p, {"silence"}) => flag /\ Silent /\ editing[p].kind = "pause"
    /\ ~EditAt(p, {"idle", "write"}) /\ editing[p].kind = "pause" => flag
    /\ EditAt(p, {"read", "compare", "create", "keep", "set"}) /\ editing[p].kind = "resume" =>
          discountId # 0 /\ (editing[p].silenced => Silent)

OneAtWork == \A p, q \in Editor : EditAt(p, {"idle"}) \/ EditAt(q, {"idle"}) \/ p = q

PublishedWell ==
    /\ (\A p \in Editor : ~EditAt(p, {"keep"})) => OneDiscount
    /\ (\A p \in Editor : ~EditAt(p, {"stamp"})) => HashIsOfCheckout
    /\ discountId = 0 => hash = << >>
    /\ flag /\ silenced => Silent
    /\ LuckyIn(Mishaps) /\ (\A p \in Editor : EditAt(p, {"idle", "write", "silence", "tell"}))
          => PricedWell

RulesetInv ==
    /\ RulesetTypes
    /\ LuckyIn({"overlapped", "killed", "unanswered"}) =>
          /\ OneAtWork /\ PublishedWell
          /\ \A p \in Editor : ReadIsSo(p) /\ PublishesSo(p) /\ PausesSo(p)

-----------------------------------------------------------------------------
(* What is live                                                            *)

LEMMA LiveRules ==
    ASSUME RuleTypes
    PROVE  activeEngineRules \in Ruleset /\ (flag => activeEngineRules = {})
BY DEF RuleTypes, activeEngineRules, Ruleset

\* What is live depends on the active rules and the pause.
LEMMA LiveSame ==
    ASSUME UNCHANGED flag,
           \A r \in Rule : rules'[r].status = "ACTIVE" <=> rules[r].status = "ACTIVE",
           \A r \in Rule : rules'[r].status = "ACTIVE" => rules'[r].price = rules[r].price
    PROVE  activeEngineRules' = activeEngineRules
BY DEF activeEngineRules

LEMMA LuckOfAll ==
    LuckyIn(Mishaps) =>
        LuckyIn({"overlapped", "killed", "unanswered"}) /\ "refused" \notin luck
BY DEF LuckyIn, Mishaps

-----------------------------------------------------------------------------
(* A request goes on, the others where they are                            *)

LEMMA EditWent ==
    ASSUME RulesetTypes, NEW p \in Editor, editing[p].at # "idle",
           NEW to \in {"write", "read", "compare", "create", "keep", "set", "stamp", "silence",
                       "tell"},
           EditGoes(p, to)
    PROVE  /\ editing' \in [Editor -> {AtDesk} \cup Edit]
           /\ editing'[p].at = to /\ editing'[p].kind = editing[p].kind
           /\ editing'[p].read = editing[p].read /\ editing'[p].flag = editing[p].flag
           /\ editing'[p].silenced = editing[p].silenced
           /\ editing'[p].ruleset = editing[p].ruleset
           /\ editing'[p].existing = editing[p].existing
           /\ \A q \in Editor : q # p => editing'[q] = editing[q]
<1>1. editing[p] \in Edit
    BY DEF RulesetTypes, EditTypes, AtDesk
<1>2. editing' = [editing EXCEPT ![p] = [editing[p] EXCEPT !.at = to]]
    BY DEF EditGoes
<1>3. [editing[p] EXCEPT !.at = to] \in Edit
    BY <1>1 DEF Edit
<1>4. /\ editing' \in [Editor -> {AtDesk} \cup Edit]
      /\ editing'[p] = [editing[p] EXCEPT !.at = to]
      /\ \A q \in Editor : q # p => editing'[q] = editing[q]
    BY <1>2, <1>3 DEF RulesetTypes, EditTypes
<1> QED
    BY <1>1, <1>4 DEF Edit

LEMMA EditEnded ==
    ASSUME RulesetTypes, NEW p \in Editor, EditDone(p)
    PROVE  /\ editing' \in [Editor -> {AtDesk} \cup Edit]
           /\ editing'[p] = AtDesk /\ editing'[p].at = "idle"
           /\ \A q \in Editor : q # p => editing'[q] = editing[q]
BY DEF RulesetTypes, EditTypes, EditDone, AtDesk

ReadTyped(p) ==
    editing[p].at # "idle" =>
        /\ editing[p].existing <= Len(discounts)
        /\ editing[p].kind \in OfARow => editing[p].read \in [rule: Rule, row: RuleRow]
        /\ editing[p].kind = "undo" => editing[p].read \in SUBSET Rule

\* What is published, where p is the one at work.
PublishedBy(p) ==
    /\ ~EditAt(p, {"keep"}) => OneDiscount
    /\ ~EditAt(p, {"stamp"}) => HashIsOfCheckout
    /\ discountId = 0 => hash = << >>
    /\ flag /\ silenced => Silent
    /\ LuckyIn(Mishaps) /\ EditAt(p, {"idle", "write", "silence", "tell"}) =>
          PricedWell

IsSo(p) == ReadIsSo(p) /\ PublishesSo(p) /\ PausesSo(p)

Sequential == LuckyIn({"overlapped", "killed", "unanswered"})

\* What the one request at work has to show for itself.
LEMMA OneMoves ==
    ASSUME RulesetInv, NEW p \in Editor, luck' = luck, RuleTypes',
           editing' \in [Editor -> {AtDesk} \cup Edit], ReadTyped(p)',
           \A q \in Editor : q # p => editing'[q] = editing[q],
           Len(discounts) <= Len(discounts'),
           Sequential => /\ \A q \in Editor : q # p => EditAt(q, {"idle"})
                         /\ PublishedBy(p)' /\ IsSo(p)'
    PROVE  RulesetInv'
<1>1. EditTypes'
    <2>1. ASSUME NEW q \in Editor, q # p PROVE ReadTyped(q)'
        <3>1. ReadTyped(q)
            BY DEF RulesetInv, RulesetTypes, EditTypes, ReadTyped
        <3>2. editing'[q] = editing[q] /\ Len(discounts) \in Nat /\ Len(discounts') \in Nat
            BY <2>1 DEF RulesetInv, RulesetTypes, RuleTypes
        <3>3. editing[q].at # "idle" => editing[q].existing \in Nat
            BY DEF RulesetInv, RulesetTypes, EditTypes, Edit, AtDesk
        <3> QED
            BY <3>1, <3>2, <3>3 DEF ReadTyped
    <2>2. \A q \in Editor : ReadTyped(q)'
        BY <2>1
    <2> QED
        BY <2>2 DEF EditTypes, ReadTyped
<1>2. ASSUME Sequential
      PROVE  (OneAtWork /\ PublishedWell /\ \A q \in Editor : IsSo(q))'
    <2>1. \A q \in Editor : q # p => editing'[q].at = "idle"
        BY <1>2 DEF EditAt
    <2>2. OneAtWork'
        BY <2>1 DEF OneAtWork, EditAt
    <2>3. PublishedBy(p)'
        BY <1>2
    <2>4. PublishedWell'
        BY <2>3 DEF PublishedWell, PublishedBy, EditAt
    <2>5. ASSUME NEW q \in Editor, q # p PROVE IsSo(q)'
        BY <2>1, <2>5 DEF IsSo, ReadIsSo, PublishesSo, PausesSo, EditAt
    <2> QED
        BY <1>2, <2>2, <2>4, <2>5
<1> QED
    BY <1>1, <1>2 DEF RulesetInv, RulesetTypes, Sequential, LuckyIn, IsSo

\* Who is at work is alone at it.
LEMMA AloneIs ==
    ASSUME RulesetInv, Sequential, NEW p \in Editor,
           editing[p].at # "idle" \/ \A q \in Editor : editing[q].at = "idle"
    PROVE  /\ \A q \in Editor : q # p => EditAt(q, {"idle"})
           /\ PublishedBy(p) /\ IsSo(p)
<1>1. OneAtWork /\ PublishedWell /\ IsSo(p)
    BY DEF RulesetInv, Sequential, IsSo
<1>2. \A q \in Editor : q # p => EditAt(q, {"idle"})
    BY <1>1 DEF OneAtWork, EditAt
<1>3. PublishedBy(p)
    BY <1>1, <1>2 DEF PublishedWell, PublishedBy, EditAt
<1> QED
    BY <1>1, <1>2, <1>3

-----------------------------------------------------------------------------
(* A request begins                                                        *)

LEMMA EditAskedKept ==
    ASSUME RulesetInv, NEW p \in Editor, NEW kind \in OfARow \cup AtLarge \cup {"undo"},
           NEW more \in [rule: Rule, row: RuleRow] \cup {RowOf({}, NoRule)} \cup SUBSET Rule,
           EditAsked(p, kind, more),
           kind \in OfARow => /\ more \in [rule: Rule, row: RuleRow]
                              /\ more.row = rules[more.rule],
           kind \in {"restore", "delete"} => more.row.status = "ARCHIVED",
           kind = "undo" => more \in SUBSET Rule
    PROVE  RulesetInv'
<1> DEFINE rec == [at |-> "write", kind |-> kind, read |-> more, flag |-> flag,
                   silenced |-> silenced, ruleset |-> {}, existing |-> discountId]
<1>1. /\ editing[p].at = "idle" /\ begun < MaxEdits /\ begun' = begun + 1
      /\ "overlapped" \notin luck => \A q \in Editor : editing[q].at = "idle"
      /\ editing' = [editing EXCEPT ![p] = rec]
      /\ UNCHANGED <<luck, rules, imported, flag, silenced, hash, discountId, discounts>>
      /\ RuleTypes /\ EditTypes
    BY DEF EditAsked, rowVars, pauseVars, publishVars, RulesetInv, RulesetTypes
<1>2. discountId \in Nat /\ discountId <= Len(discounts) /\ Len(discounts) \in Nat
    BY <1>1 DEF RuleTypes
<1>3. rec \in Edit
    BY <1>1, <1>2 DEF Edit, Ruleset, RuleTypes
<1>4. /\ editing' \in [Editor -> {AtDesk} \cup Edit] /\ editing'[p] = rec
      /\ \A q \in Editor : q # p => editing'[q] = editing[q]
    BY <1>1, <1>3 DEF EditTypes
<1>5. /\ editing'[p].at = "write" /\ editing'[p].kind = kind /\ editing'[p].read = more
      /\ editing'[p].flag = flag /\ editing'[p].silenced = silenced
      /\ editing'[p].existing = discountId
    BY <1>4
<1> HIDE DEF rec
<1>6. RuleTypes'
    <2>1. begun' \in 0 .. MaxEdits
        BY <1>1, RulesetAssumption DEF RuleTypes
    <2> QED
        BY <1>1, <2>1 DEF RuleTypes
<1>7. ReadTyped(p)'
    BY <1>1, <1>2, <1>5 DEF ReadTyped
<1>8. ASSUME Sequential
      PROVE  /\ \A q \in Editor : q # p => EditAt(q, {"idle"})
             /\ PublishedBy(p)' /\ IsSo(p)'
    <2>1. \A q \in Editor : editing[q].at = "idle"
        BY <1>1, <1>8 DEF Sequential, LuckyIn
    <2>2. PublishedBy(p)
        BY <1>8, <2>1, AloneIs
    <2>3. PublishedBy(p)'
        BY <1>1, <1>5, <2>2 DEF PublishedBy, EditAt, OneDiscount, HashIsOfCheckout, Silent,
            LuckyIn, PricedWell, activeEngineRules
    <2>4. ReadIsSo(p)'
        BY <1>1, <1>5 DEF ReadIsSo, EditAt
    <2>5. PublishesSo(p)' /\ PausesSo(p)'
        BY <1>5 DEF PublishesSo, PausesSo, EditAt
    <2> QED
        BY <2>1, <2>3, <2>4, <2>5 DEF EditAt, IsSo
<1> QED
    BY <1>1, <1>2, <1>4, <1>6, <1>7, <1>8, OneMoves

LEMMA BeginsKept ==
    ASSUME RulesetInv, NEW p \in Editor, EditRule(p) \/ EditAtLarge(p) \/ EditUndo(p)
    PROVE  RulesetInv'
<1>1. rules \in [Rule -> RuleRow] /\ imported \in SUBSET Rule
    BY DEF RulesetInv, RulesetTypes, RuleTypes
<1>2. CASE EditRule(p)
    <2>1. PICK r \in Rule, kind \in OfARow :
              /\ EditAsked(p, kind, RowOf(r, rules[r]))
              /\ kind \in {"restore", "delete"} => rules[r].status = "ARCHIVED"
        BY <1>2 DEF EditRule, OfARow
    <2>2. /\ RowOf(r, rules[r]) \in [rule: Rule, row: RuleRow]
          /\ RowOf(r, rules[r]).row = rules[r] /\ RowOf(r, rules[r]).rule = r
        BY <1>1 DEF RowOf
    <2>3. kind # "undo"
        BY DEF OfARow
    <2> DEFINE more == RowOf(r, rules[r])
    <2>4. /\ more \in [rule: Rule, row: RuleRow] /\ more.row = rules[more.rule]
          /\ kind \in {"restore", "delete"} => more.row.status = "ARCHIVED"
          /\ EditAsked(p, kind, more)
        BY <2>1, <2>2
    <2> HIDE DEF more
    <2> QED
        BY <2>3, <2>4, EditAskedKept
<1>3. CASE EditAtLarge(p)
    <2>1. PICK kind \in AtLarge : EditAsked(p, kind, RowOf({}, NoRule))
        BY <1>3 DEF EditAtLarge, AtLarge
    <2>2. kind \notin OfARow /\ kind \notin {"restore", "delete"} /\ kind # "undo"
        BY DEF OfARow, AtLarge
    <2> QED
        BY <2>1, <2>2, EditAskedKept
<1>4. CASE EditUndo(p)
    <2>1. EditAsked(p, "undo", imported) /\ "undo" \notin OfARow
        BY <1>4 DEF EditUndo, OfARow
    <2> QED
        BY <1>1, <2>1, EditAskedKept
<1> QED
    BY <1>2, <1>3, <1>4

-----------------------------------------------------------------------------
(* It writes, ...                                                          *)

\* ... and goes on to publish.
LEMMA WroteReads ==
    ASSUME RulesetInv, NEW p \in Editor, editing[p].at = "write", EditGoes(p, "read"),
           UNCHANGED <<luck, publishVars>>, RuleTypes',
           Sequential => /\ flag' /\ silenced' => Silent
                         /\ editing[p].kind = "pause" => flag'
                         /\ editing[p].kind = "resume" =>
                              discountId # 0 /\ (editing[p].silenced => Silent)
    PROVE  RulesetInv'
<1>1. RulesetTypes /\ UNCHANGED <<hash, discountId, discounts>>
    BY DEF RulesetInv, publishVars
<1>2. /\ editing' \in [Editor -> {AtDesk} \cup Edit]
      /\ editing'[p].at = "read" /\ editing'[p].kind = editing[p].kind
      /\ editing'[p].read = editing[p].read
      /\ editing'[p].silenced = editing[p].silenced
      /\ editing'[p].existing = editing[p].existing
      /\ \A q \in Editor : q # p => editing'[q] = editing[q]
    BY <1>1, EditWent
<1>3. ReadTyped(p)'
    BY <1>1, <1>2 DEF ReadTyped, RulesetTypes, EditTypes
<1>4. Len(discounts) <= Len(discounts')
    BY <1>1 DEF RulesetTypes, RuleTypes
<1>5. ASSUME Sequential
      PROVE  /\ \A q \in Editor : q # p => EditAt(q, {"idle"})
             /\ PublishedBy(p)' /\ IsSo(p)'
    <2>1. (\A q \in Editor : q # p => EditAt(q, {"idle"})) /\ PublishedBy(p)
        BY <1>5, AloneIs
    <2>2. PublishedBy(p)'
        BY <1>1, <1>2, <1>5, <2>1 DEF PublishedBy, EditAt, OneDiscount, HashIsOfCheckout, Silent
    <2>3. ReadIsSo(p)' /\ PublishesSo(p)'
        BY <1>2 DEF ReadIsSo, PublishesSo, EditAt
    <2>4. PausesSo(p)'
        BY <1>1, <1>2, <1>5 DEF PausesSo, EditAt, Silent
    <2> QED
        BY <2>1, <2>2, <2>3, <2>4 DEF IsSo
<1> QED
    BY <1>2, <1>3, <1>4, <1>5, OneMoves

\* ... and is done.
LEMMA WroteDone ==
    ASSUME RulesetInv, NEW p \in Editor, editing[p].at \notin {"idle", "keep", "stamp"},
           EditDone(p), UNCHANGED <<luck, publishVars>>, RuleTypes',
           Sequential => (flag' /\ silenced' => Silent),
           LuckyIn(Mishaps) => PricedWell'
    PROVE  RulesetInv'
<1>1. RulesetTypes /\ UNCHANGED <<hash, discountId, discounts>>
    BY DEF RulesetInv, publishVars
<1>2. /\ editing' \in [Editor -> {AtDesk} \cup Edit]
      /\ editing'[p].at = "idle"
      /\ \A q \in Editor : q # p => editing'[q] = editing[q]
    BY <1>1, EditEnded
<1>3. ReadTyped(p)'
    BY <1>2 DEF ReadTyped
<1>4. Len(discounts) <= Len(discounts')
    BY <1>1 DEF RulesetTypes, RuleTypes
<1>5. ASSUME Sequential
      PROVE  /\ \A q \in Editor : q # p => EditAt(q, {"idle"})
             /\ PublishedBy(p)' /\ IsSo(p)'
    <2>1. (\A q \in Editor : q # p => EditAt(q, {"idle"})) /\ PublishedBy(p)
        BY <1>5, AloneIs
    <2>2. PublishedBy(p)'
        BY <1>1, <1>2, <1>5, <2>1 DEF PublishedBy, EditAt, OneDiscount, HashIsOfCheckout,
            Silent, LuckyIn
    <2>3. IsSo(p)'
        BY <1>2 DEF IsSo, ReadIsSo, PublishesSo, PausesSo, EditAt
    <2> QED
        BY <2>1, <2>2, <2>3
<1> QED
    BY <1>2, <1>3, <1>4, <1>5, OneMoves

\* Rows of which the same are active, at the same price, leave checkout right.
LEMMA StaysPriced ==
    ASSUME PricedWell, UNCHANGED <<flag, discountId, discounts>>,
           \A r \in Rule : rules'[r].status = "ACTIVE" <=> rules[r].status = "ACTIVE",
           \A r \in Rule : rules'[r].status = "ACTIVE" => rules'[r].price = rules[r].price
    PROVE  PricedWell'
BY LiveSame DEF PricedWell

\* What a request that writes may count on.
LEMMA WriterKnows ==
    ASSUME RulesetInv, NEW p \in Editor, editing[p].at = "write"
    PROVE  /\ RulesetTypes /\ RuleTypes
           /\ editing[p].kind \in OfARow => editing[p].read \in [rule: Rule, row: RuleRow]
           /\ Sequential => (flag /\ silenced => Silent) /\ ReadIsSo(p)
           /\ LuckyIn(Mishaps) => PricedWell
<1>1. RulesetTypes /\ EditTypes /\ RuleTypes
    BY DEF RulesetInv, RulesetTypes
<1>2. Sequential => PublishedBy(p) /\ IsSo(p)
    BY AloneIs
<1> QED
    BY <1>1, <1>2, LuckOfAll DEF EditTypes, PublishedBy, IsSo, EditAt, Sequential

\* The rows are written, the pause is not.
LEMMA RowsWritten ==
    ASSUME RulesetInv, NEW p \in Editor, editing[p].at = "write",
           editing[p].kind \notin {"pause", "resume"},
           UNCHANGED <<luck, pauseVars, publishVars, begun>>,
           rules' \in [Rule -> RuleRow], imported' \subseteq Rule,
           \A r \in Rule : rules'[r].status = "ACTIVE" => rules'[r].price \in Price,
           \/ EditGoes(p, "read")
           \/ /\ EditDone(p)
              /\ LuckyIn(Mishaps) =>
                   \A r \in Rule : /\ rules'[r].status = "ACTIVE" <=> rules[r].status = "ACTIVE"
                                   /\ rules'[r].status = "ACTIVE" => rules'[r].price = rules[r].price
    PROVE  RulesetInv'
<1>1. RuleTypes'
    BY DEF RulesetInv, RulesetTypes, RuleTypes, pauseVars, publishVars
<1>2. Sequential => (flag' /\ silenced' => Silent)
    BY WriterKnows DEF pauseVars
<1>3. CASE EditGoes(p, "read")
    BY <1>1, <1>2, <1>3, WroteReads
<1>4. CASE /\ EditDone(p)
           /\ LuckyIn(Mishaps) =>
                \A r \in Rule : /\ rules'[r].status = "ACTIVE" <=> rules[r].status = "ACTIVE"
                                /\ rules'[r].status = "ACTIVE" => rules'[r].price = rules[r].price
    <2>1. LuckyIn(Mishaps) => PricedWell'
        BY <1>4, WriterKnows, StaysPriced DEF pauseVars, publishVars
    <2> QED
        BY <1>1, <1>2, <1>4, <2>1, WroteDone
<1> QED
    BY <1>3, <1>4

LEMMA createRuleKept ==
    ASSUME RulesetInv, NEW p \in Editor, createRule(p) PROVE RulesetInv'
<1>1. /\ editing[p].at = "write" /\ editing[p].kind = "create" /\ RuleTypes
      /\ UNCHANGED <<luck, imported, pauseVars, publishVars, begun>>
    BY DEF createRule, Writing, RulesetInv, RulesetTypes
<1>2. PICK r \in Rule, price \in Price, status \in {"ACTIVE", "DRAFT"} :
          /\ rules[r].status = "NONE"
          /\ rules' = [rules EXCEPT ![r] = [status |-> status, price |-> price, version |-> 1]]
          /\ EditThen(p, status = "ACTIVE")
    BY DEF createRule
<1>3. rules \in [Rule -> RuleRow] /\ imported' \subseteq Rule
    BY <1>1 DEF RuleTypes
<1>4. [status |-> status, price |-> price, version |-> 1] \in RuleRow
    BY DEF RuleRow
<1>5. /\ rules' \in [Rule -> RuleRow]
      /\ rules'[r].status = status /\ rules'[r].price = price
      /\ \A q \in Rule : q # r => rules'[q] = rules[q]
    BY <1>2, <1>3, <1>4
<1>6. \A q \in Rule : rules'[q].status = "ACTIVE" => rules'[q].price \in Price
    BY <1>1, <1>5 DEF RuleTypes
<1>7. CASE status = "ACTIVE"
    BY <1>1, <1>2, <1>3, <1>5, <1>6, <1>7, RowsWritten DEF EditThen
<1>8. CASE status = "DRAFT"
    <2>1. EditDone(p)
        BY <1>2, <1>8 DEF EditThen
    <2>2. \A q \in Rule : rules'[q].status = "ACTIVE" <=> rules[q].status = "ACTIVE"
        BY <1>2, <1>5, <1>8
    <2>3. \A q \in Rule : rules'[q].status = "ACTIVE" => rules'[q].price = rules[q].price
        BY <1>5, <1>8
    <2> QED
        BY <1>1, <1>3, <1>5, <1>6, <2>1, <2>2, <2>3, RowsWritten
<1> QED
    BY <1>7, <1>8

LEMMA updateRuleKept ==
    ASSUME RulesetInv, NEW p \in Editor, updateRule(p) PROVE RulesetInv'
<1> DEFINE r == editing[p].read.rule
           current == editing[p].read.row
<1>1. /\ editing[p].at = "write" /\ editing[p].kind = "update" /\ RuleTypes
      /\ UNCHANGED <<luck, imported, pauseVars, publishVars, begun>>
    BY DEF updateRule, Writing, RulesetInv, RulesetTypes
<1>2. r \in Rule /\ rules \in [Rule -> RuleRow] /\ rules[r] \in RuleRow /\ imported' \subseteq Rule
    BY <1>1, WriterKnows DEF RuleTypes, OfARow
<1>3. CASE EditDone(p) /\ UNCHANGED rules
    <2>1. \A q \in Rule : rules'[q].status = "ACTIVE" => rules'[q].price \in Price
        BY <1>1, <1>3 DEF RuleTypes
    <2> QED
        BY <1>1, <1>2, <1>3, <2>1, RowsWritten
<1>4. ASSUME NEW price \in Price, NEW status \in {"ACTIVE", "DRAFT"},
             rules' = [rules EXCEPT ![r] = [status |-> status, price |-> price,
                                            version |-> @.version + 1]],
             EditThen(p, "ACTIVE" \in {status, current.status})
      PROVE  RulesetInv'
    <2>1. [status |-> status, price |-> price, version |-> rules[r].version + 1] \in RuleRow
        BY <1>2 DEF RuleRow
    <2>2. /\ rules' \in [Rule -> RuleRow]
          /\ rules'[r].status = status /\ rules'[r].price = price
          /\ \A q \in Rule : q # r => rules'[q] = rules[q]
        BY <1>2, <1>4, <2>1
    <2>3. \A q \in Rule : rules'[q].status = "ACTIVE" => rules'[q].price \in Price
        BY <1>1, <2>2 DEF RuleTypes
    <2>4. CASE "ACTIVE" \in {status, current.status}
        BY <1>1, <1>2, <1>4, <2>2, <2>3, <2>4, RowsWritten DEF EditThen
    <2>5. CASE status # "ACTIVE" /\ current.status # "ACTIVE"
        <3>1. EditDone(p)
            BY <1>4, <2>5 DEF EditThen
        <3>2. ASSUME LuckyIn(Mishaps)
              PROVE  \A q \in Rule :
                        /\ rules'[q].status = "ACTIVE" <=> rules[q].status = "ACTIVE"
                        /\ rules'[q].status = "ACTIVE" => rules'[q].price = rules[q].price
            <4>1. rules[r] = current
                BY <1>1, <3>2, WriterKnows, LuckOfAll DEF ReadIsSo, EditAt, OfARow, Sequential
            <4> QED
                BY <2>2, <2>5, <4>1
        <3> QED
            BY <1>1, <1>2, <2>2, <2>3, <3>1, <3>2, RowsWritten
    <2> QED
        BY <2>4, <2>5
<1>5. \/ EditDone(p) /\ UNCHANGED rules
      \/ \E price \in Price, status \in {"ACTIVE", "DRAFT"} :
            /\ rules' = [rules EXCEPT ![r] = [status |-> status, price |-> price,
                                              version |-> @.version + 1]]
            /\ EditThen(p, "ACTIVE" \in {status, current.status})
    BY DEF updateRule
<1> QED
    BY <1>3, <1>4, <1>5

\* A rule is moved to a status that is not live.
LEMMA RuleMoved ==
    ASSUME RuleTypes, NEW p \in Editor, editing[p].read \in [rule: Rule, row: RuleRow],
           NEW status \in {"ARCHIVED", "DRAFT"}, MoveTo(p, status)
    PROVE  /\ rules' \in [Rule -> RuleRow]
           /\ \A r \in Rule : rules'[r].status = "ACTIVE" => rules'[r].price \in Price
           /\ \A r \in Rule : rules'[r].status = "ACTIVE" =>
                rules[r].status = "ACTIVE" /\ rules'[r].price = rules[r].price
           /\ \A r \in Rule : r # editing[p].read.rule => rules'[r] = rules[r]
           /\ rules[editing[p].read.rule].status = "GONE" => rules' = rules
<1> DEFINE r == editing[p].read.rule
<1>1. r \in Rule /\ rules \in [Rule -> RuleRow] /\ rules[r] \in RuleRow
    BY DEF RuleTypes
<1>2. CASE rules[r].status = "GONE"
    BY <1>1, <1>2 DEF MoveTo, RuleTypes
<1>3. CASE rules[r].status # "GONE"
    <2>1. rules' = [rules EXCEPT ![r] = [rules[r] EXCEPT !.status = status,
                                                         !.version = rules[r].version + 1]]
        BY <1>1, <1>3 DEF MoveTo, RuleRow
    <2>2. [rules[r] EXCEPT !.status = status, !.version = rules[r].version + 1] \in RuleRow
        <3> DEFINE was == rules[r]
                   next == was.version + 1
        <3>1. was \in RuleRow /\ next \in Nat
            BY <1>1 DEF RuleRow
        <3> HIDE DEF was, next
        <3>2. [was EXCEPT !.status = status, !.version = next] \in RuleRow
            BY <3>1 DEF RuleRow
        <3> QED
            BY <3>2 DEF was, next
    <2>3. /\ rules' \in [Rule -> RuleRow] /\ rules'[r].status = status
          /\ \A q \in Rule : q # r => rules'[q] = rules[q]
        BY <1>1, <2>1, <2>2 DEF RuleRow
    <2> QED
        BY <1>3, <2>3 DEF RuleTypes
<1> QED
    BY <1>2, <1>3

LEMMA archiveRuleKept ==
    ASSUME RulesetInv, NEW p \in Editor, archiveRule(p) PROVE RulesetInv'
<1> DEFINE r == editing[p].read.rule
           toPublish == editing[p].read.row.status = "ACTIVE" /\ rules[r].status # "GONE"
<1>1. /\ editing[p].at = "write" /\ editing[p].kind = "archive" /\ RuleTypes
      /\ MoveTo(p, "ARCHIVED") /\ EditThen(p, toPublish)
      /\ UNCHANGED <<luck, imported, pauseVars, publishVars, begun>>
    BY DEF archiveRule, Writing, RulesetInv, RulesetTypes
<1>2. editing[p].read \in [rule: Rule, row: RuleRow] /\ r \in Rule /\ imported' \subseteq Rule
    BY <1>1, WriterKnows DEF OfARow, RuleTypes
<1>3. /\ rules' \in [Rule -> RuleRow]
      /\ \A q \in Rule : rules'[q].status = "ACTIVE" => rules'[q].price \in Price
      /\ \A q \in Rule : rules'[q].status = "ACTIVE" =>
            rules[q].status = "ACTIVE" /\ rules'[q].price = rules[q].price
      /\ \A q \in Rule : q # r => rules'[q] = rules[q]
      /\ rules[r].status = "GONE" => rules' = rules
    BY <1>1, <1>2, RuleMoved
<1>4. CASE toPublish
    BY <1>1, <1>2, <1>3, <1>4, RowsWritten DEF EditThen
<1>5. CASE ~toPublish
    <2>1. ASSUME LuckyIn(Mishaps)
          PROVE  \A q \in Rule :
                    /\ rules'[q].status = "ACTIVE" <=> rules[q].status = "ACTIVE"
                    /\ rules'[q].status = "ACTIVE" => rules'[q].price = rules[q].price
        <3>1. rules[r] = editing[p].read.row
            BY <1>1, <2>1, WriterKnows, LuckOfAll DEF ReadIsSo, EditAt, OfARow, Sequential
        <3>2. rules[r].status # "ACTIVE" \/ rules' = rules
            BY <1>3, <1>5, <3>1
        <3> QED
            BY <1>3, <3>2
    <2>2. EditDone(p)
        BY <1>1, <1>5 DEF EditThen
    <2> QED
        BY <1>1, <1>2, <1>3, <2>1, <2>2, RowsWritten
<1> QED
    BY <1>4, <1>5

LEMMA restoreRuleKept ==
    ASSUME RulesetInv, NEW p \in Editor, restoreRule(p) PROVE RulesetInv'
<1> DEFINE r == editing[p].read.rule
<1>1. /\ editing[p].at = "write" /\ editing[p].kind = "restore" /\ RuleTypes
      /\ MoveTo(p, "DRAFT") /\ EditDone(p)
      /\ UNCHANGED <<luck, imported, pauseVars, publishVars, begun>>
    BY DEF restoreRule, Writing, RulesetInv, RulesetTypes
<1>2. editing[p].read \in [rule: Rule, row: RuleRow] /\ r \in Rule /\ imported' \subseteq Rule
    BY <1>1, WriterKnows DEF OfARow, RuleTypes
<1>3. /\ rules' \in [Rule -> RuleRow]
      /\ \A q \in Rule : rules'[q].status = "ACTIVE" => rules'[q].price \in Price
      /\ \A q \in Rule : rules'[q].status = "ACTIVE" =>
            rules[q].status = "ACTIVE" /\ rules'[q].price = rules[q].price
      /\ \A q \in Rule : q # r => rules'[q] = rules[q]
    BY <1>1, <1>2, RuleMoved
<1>4. ASSUME LuckyIn(Mishaps)
      PROVE  \A q \in Rule :
                /\ rules'[q].status = "ACTIVE" <=> rules[q].status = "ACTIVE"
                /\ rules'[q].status = "ACTIVE" => rules'[q].price = rules[q].price
    <2>1. rules[r].status = "ARCHIVED"
        BY <1>1, <1>4, WriterKnows, LuckOfAll DEF ReadIsSo, EditAt, OfARow, Sequential
    <2> QED
        BY <1>3, <2>1
<1> QED
    BY <1>1, <1>2, <1>3, <1>4, RowsWritten

LEMMA deleteRuleKept ==
    ASSUME RulesetInv, NEW p \in Editor, deleteRule(p) PROVE RulesetInv'
<1> DEFINE r == editing[p].read.rule
<1>1. /\ editing[p].at = "write" /\ editing[p].kind = "delete" /\ RuleTypes
      /\ rules' = [rules EXCEPT ![r].status = "GONE"] /\ EditDone(p)
      /\ UNCHANGED <<luck, imported, pauseVars, publishVars, begun>>
    BY DEF deleteRule, Writing, RulesetInv, RulesetTypes
<1>2. /\ r \in Rule /\ imported' \subseteq Rule
      /\ rules \in [Rule -> RuleRow] /\ rules[r] \in RuleRow
    BY <1>1, WriterKnows DEF OfARow, RuleTypes
<1>3. [rules[r] EXCEPT !.status = "GONE"] \in RuleRow
    BY <1>2 DEF RuleRow
<1>4. /\ rules' \in [Rule -> RuleRow] /\ rules'[r].status = "GONE"
      /\ \A q \in Rule : q # r => rules'[q] = rules[q]
    BY <1>1, <1>2, <1>3 DEF RuleRow
<1>5. \A q \in Rule : rules'[q].status = "ACTIVE" => rules'[q].price \in Price
    BY <1>1, <1>4 DEF RuleTypes
<1>6. ASSUME LuckyIn(Mishaps)
      PROVE  \A q \in Rule :
                /\ rules'[q].status = "ACTIVE" <=> rules[q].status = "ACTIVE"
                /\ rules'[q].status = "ACTIVE" => rules'[q].price = rules[q].price
    <2>1. rules[r].status = "ARCHIVED"
        BY <1>1, <1>6, WriterKnows, LuckOfAll DEF ReadIsSo, EditAt, OfARow, Sequential
    <2> QED
        BY <1>4, <2>1
<1> QED
    BY <1>1, <1>2, <1>4, <1>5, <1>6, RowsWritten

LEMMA reorderRulesKept ==
    ASSUME RulesetInv, NEW p \in Editor, reorderRules(p) PROVE RulesetInv'
<1>1. /\ editing[p].at = "write" /\ editing[p].kind = "reorder" /\ RuleTypes /\ EditGoes(p, "read")
      /\ UNCHANGED <<luck, rules, imported, pauseVars, publishVars, begun>>
    BY DEF reorderRules, Writing, rowVars, RulesetInv, RulesetTypes
<1>2. /\ rules' \in [Rule -> RuleRow] /\ imported' \subseteq Rule
      /\ \A q \in Rule : rules'[q].status = "ACTIVE" => rules'[q].price \in Price
    BY <1>1 DEF RuleTypes
<1> QED
    BY <1>1, <1>2, RowsWritten

LEMMA runImportKept ==
    ASSUME RulesetInv, NEW p \in Editor, runImport(p) PROVE RulesetInv'
<1>1. /\ editing[p].at = "write" /\ editing[p].kind = "import" /\ RuleTypes
      /\ UNCHANGED <<luck, pauseVars, publishVars, begun>>
    BY DEF runImport, Writing, RulesetInv, RulesetTypes
<1>2. PICK some \in SUBSET {r \in Rule : rules[r].status = "NONE"}, price \in Price,
           status \in {"ACTIVE", "DRAFT"} :
          /\ rules' = [r \in Rule |-> IF r \in some
                        THEN [status |-> status, price |-> price, version |-> 1] ELSE rules[r]]
          /\ imported' = some
          /\ EditThen(p, status = "ACTIVE")
    BY DEF runImport
<1>3. rules \in [Rule -> RuleRow] /\ imported' \subseteq Rule
    BY <1>1, <1>2 DEF RuleTypes
<1>4. [status |-> status, price |-> price, version |-> 1] \in RuleRow
    BY DEF RuleRow
<1>5. \A r \in Rule :
        /\ rules'[r] \in RuleRow
        /\ r \in some => rules'[r].status = status /\ rules'[r].price = price
        /\ r \notin some => rules'[r] = rules[r]
    BY <1>2, <1>3, <1>4
<1>6. rules' \in [Rule -> RuleRow]
    BY <1>2, <1>5
<1>7. \A q \in Rule : rules'[q].status = "ACTIVE" => rules'[q].price \in Price
    BY <1>1, <1>5 DEF RuleTypes
<1>8. CASE status = "ACTIVE"
    BY <1>1, <1>2, <1>3, <1>6, <1>7, <1>8, RowsWritten DEF EditThen
<1>9. CASE status = "DRAFT"
    <2>1. EditDone(p)
        BY <1>2, <1>9 DEF EditThen
    <2>2. \A q \in Rule : rules'[q].status = "ACTIVE" <=> rules[q].status = "ACTIVE"
        BY <1>2, <1>5, <1>9
    <2>3. \A q \in Rule : rules'[q].status = "ACTIVE" => rules'[q].price = rules[q].price
        BY <1>5, <1>9
    <2> QED
        BY <1>1, <1>3, <1>6, <1>7, <2>1, <2>2, <2>3, RowsWritten
<1> QED
    BY <1>8, <1>9

LEMMA undoImportKept ==
    ASSUME RulesetInv, NEW p \in Editor, undoImport(p) PROVE RulesetInv'
<1>1. /\ editing[p].at = "write" /\ editing[p].kind = "undo" /\ RuleTypes
      /\ rules' = [r \in Rule |-> IF r \in editing[p].read
                                    THEN [rules[r] EXCEPT !.status = "GONE"] ELSE rules[r]]
      /\ imported' = {} /\ EditGoes(p, "read")
      /\ UNCHANGED <<luck, pauseVars, publishVars, begun>>
    BY DEF undoImport, Writing, RulesetInv, RulesetTypes
<1>2. rules \in [Rule -> RuleRow]
    BY <1>1 DEF RuleTypes
<1>3. \A r \in Rule : /\ [rules[r] EXCEPT !.status = "GONE"] \in RuleRow
                      /\ [rules[r] EXCEPT !.status = "GONE"].status = "GONE"
    BY <1>2 DEF RuleRow
<1>4. \A r \in Rule : /\ rules'[r] \in RuleRow
                      /\ rules'[r].status = "GONE" \/ rules'[r] = rules[r]
    BY <1>1, <1>2, <1>3
<1>5. rules' \in [Rule -> RuleRow] /\ imported' \subseteq Rule
    BY <1>1, <1>4
<1>6. \A q \in Rule : rules'[q].status = "ACTIVE" => rules'[q].price \in Price
    BY <1>1, <1>4 DEF RuleTypes
<1> QED
    BY <1>1, <1>5, <1>6, RowsWritten

LEMMA pauseAppKept ==
    ASSUME RulesetInv, NEW p \in Editor, pauseApp(p) PROVE RulesetInv'
<1>1. /\ editing[p].at = "write" /\ editing[p].kind = "pause" /\ RulesetTypes /\ RuleTypes
      /\ \/ editing[p].flag /\ flag' = flag /\ silenced' = silenced
         \/ flag' = TRUE /\ silenced' = FALSE
      /\ EditGoes(p, IF editing[p].existing = 0 THEN "silence" ELSE "read")
      /\ UNCHANGED <<luck, rules, imported, hash, discountId, discounts, begun>>
    BY DEF pauseApp, Writing, rowVars, pauseVars, publishVars, RulesetInv, RulesetTypes
<1>2. RuleTypes'
    <2>1. flag' \in BOOLEAN /\ silenced' \in BOOLEAN
        BY <1>1 DEF RuleTypes
    <2> QED
        BY <1>1, <2>1 DEF RuleTypes
<1>3. Sequential => flag' /\ (flag' /\ silenced' => Silent)
    <2>1. ASSUME Sequential PROVE editing[p].flag = flag /\ (flag /\ silenced => Silent)
        BY <1>1, <2>1, WriterKnows DEF ReadIsSo, EditAt
    <2>2. CASE editing[p].flag /\ flag' = flag /\ silenced' = silenced
        BY <2>1, <2>2
    <2>3. CASE flag' = TRUE /\ silenced' = FALSE
        BY <2>3
    <2> QED
        BY <1>1, <2>2, <2>3
<1>4. CASE editing[p].existing # 0
    BY <1>1, <1>2, <1>3, <1>4, WroteReads DEF publishVars
<1>5. CASE editing[p].existing = 0
    <2>1. EditGoes(p, "silence")
        BY <1>1, <1>5
    <2>2. /\ editing' \in [Editor -> {AtDesk} \cup Edit]
          /\ editing'[p].at = "silence" /\ editing'[p].kind = "pause"
          /\ editing'[p].read = editing[p].read
          /\ editing'[p].existing = editing[p].existing
          /\ \A q \in Editor : q # p => editing'[q] = editing[q]
        BY <1>1, <2>1, EditWent
    <2>3. ReadTyped(p)'
        BY <1>1, <2>2 DEF ReadTyped, RulesetTypes, EditTypes
    <2>4. Len(discounts) <= Len(discounts')
        BY <1>1 DEF RulesetTypes, RuleTypes
    <2>5. ASSUME Sequential
          PROVE  /\ \A q \in Editor : q # p => EditAt(q, {"idle"})
                 /\ PublishedBy(p)' /\ IsSo(p)'
        <3>1. (\A q \in Editor : q # p => EditAt(q, {"idle"})) /\ PublishedBy(p) /\ ReadIsSo(p)
            BY <1>1, <2>5, AloneIs DEF IsSo
        <3>2. discountId = 0
            BY <1>1, <1>5, <3>1 DEF ReadIsSo, EditAt
        <3>3. OneDiscount /\ HashIsOfCheckout
            BY <1>1, <3>1 DEF PublishedBy, EditAt
        <3>4. Silent
            BY <3>2, <3>3 DEF OneDiscount, Silent
        <3>5. LuckyIn(Mishaps) => PricedWell'
            BY <1>1, <3>2, WriterKnows DEF PricedWell
        <3>6. PublishedBy(p)'
            BY <1>1, <2>2, <3>1, <3>3, <3>4, <3>5
                DEF PublishedBy, EditAt, OneDiscount, HashIsOfCheckout, Silent, LuckyIn
        <3>7. PausesSo(p)'
            BY <1>1, <1>3, <2>2, <2>5, <3>4 DEF PausesSo, EditAt, Silent
        <3>8. ReadIsSo(p)' /\ PublishesSo(p)'
            BY <2>2 DEF ReadIsSo, PublishesSo, EditAt
        <3> QED
            BY <3>1, <3>6, <3>7, <3>8 DEF IsSo
    <2> QED
        BY <1>1, <1>2, <2>2, <2>3, <2>4, <2>5, OneMoves
<1> QED
    BY <1>4, <1>5

\* A resume with nothing to publish goes on to tell.
LEMMA WroteTells ==
    ASSUME RulesetInv, NEW p \in Editor, editing[p].at = "write", editing[p].kind = "resume",
           EditGoes(p, "tell"), UNCHANGED <<luck, publishVars>>, RuleTypes',
           Sequential => (flag' /\ silenced' => Silent),
           LuckyIn(Mishaps) => PricedWell'
    PROVE  RulesetInv'
<1>1. RulesetTypes /\ UNCHANGED <<hash, discountId, discounts>>
    BY DEF RulesetInv, publishVars
<1>2. /\ editing' \in [Editor -> {AtDesk} \cup Edit]
      /\ editing'[p].at = "tell" /\ editing'[p].kind = "resume"
      /\ editing'[p].read = editing[p].read
      /\ editing'[p].existing = editing[p].existing
      /\ \A q \in Editor : q # p => editing'[q] = editing[q]
    BY <1>1, EditWent
<1>3. ReadTyped(p)'
    BY <1>1, <1>2 DEF ReadTyped, RulesetTypes, EditTypes
<1>4. Len(discounts) <= Len(discounts')
    BY <1>1 DEF RulesetTypes, RuleTypes
<1>5. ASSUME Sequential
      PROVE  /\ \A q \in Editor : q # p => EditAt(q, {"idle"})
             /\ PublishedBy(p)' /\ IsSo(p)'
    <2>1. (\A q \in Editor : q # p => EditAt(q, {"idle"})) /\ PublishedBy(p)
        BY <1>5, AloneIs
    <2>2. PublishedBy(p)'
        BY <1>1, <1>2, <1>5, <2>1 DEF PublishedBy, EditAt, OneDiscount, HashIsOfCheckout,
            Silent, LuckyIn
    <2>3. IsSo(p)'
        BY <1>2 DEF IsSo, ReadIsSo, PublishesSo, PausesSo, EditAt
    <2> QED
        BY <2>1, <2>2, <2>3
<1> QED
    BY <1>2, <1>3, <1>4, <1>5, OneMoves

LEMMA resumeAppKept ==
    ASSUME RulesetInv, NEW p \in Editor, resumeApp(p) PROVE RulesetInv'
<1>1. /\ editing[p].at = "write" /\ editing[p].kind = "resume" /\ RulesetTypes /\ RuleTypes
      /\ \/ editing[p].flag /\ flag' = FALSE /\ silenced' = FALSE
         \/ ~editing[p].flag /\ flag' = flag /\ silenced' = silenced
      /\ UNCHANGED <<luck, rules, imported, hash, discountId, discounts, begun>>
    BY DEF resumeApp, Writing, rowVars, pauseVars, publishVars, RulesetInv, RulesetTypes
<1>2. RuleTypes'
    <2>1. flag' \in BOOLEAN /\ silenced' \in BOOLEAN
        BY <1>1 DEF RuleTypes
    <2> QED
        BY <1>1, <2>1 DEF RuleTypes
<1>3. Sequential => /\ flag' /\ silenced' => Silent
                    /\ editing[p].flag = flag /\ editing[p].silenced = silenced
                    /\ editing[p].existing = discountId
                    /\ flag /\ silenced => Silent
    BY <1>1, WriterKnows DEF ReadIsSo, EditAt
<1>4. CASE editing[p].flag /\ editing[p].existing # 0
    <2>1. EditGoes(p, "read")
        BY <1>4 DEF resumeApp
    <2> QED
        BY <1>1, <1>2, <1>3, <1>4, <2>1, WroteReads DEF publishVars
<1>5. ASSUME ~(editing[p].flag /\ editing[p].existing # 0), LuckyIn(Mishaps)
      PROVE  PricedWell'
    <2>1. PricedWell /\ Sequential
        BY <1>1, <1>5, WriterKnows, LuckOfAll DEF Sequential
    <2>2. discountId = 0 \/ flag' = flag
        BY <1>1, <1>3, <1>5, <2>1
    <2> QED
        BY <1>1, <2>1, <2>2 DEF PricedWell, activeEngineRules
<1>6. CASE editing[p].flag /\ editing[p].existing = 0
    <2>1. EditGoes(p, "tell")
        BY <1>6 DEF resumeApp
    <2> QED
        BY <1>1, <1>2, <1>3, <1>5, <1>6, <2>1, WroteTells DEF publishVars
<1>7. CASE ~editing[p].flag
    <2>1. EditDone(p)
        BY <1>7 DEF resumeApp
    <2> QED
        BY <1>1, <1>2, <1>3, <1>5, <1>7, <2>1, WroteDone DEF publishVars
<1> QED
    BY <1>4, <1>6, <1>7

-----------------------------------------------------------------------------
(* It publishes, ...                                                       *)

\* What a request that publishes may count on.
LEMMA PublisherKnows ==
    ASSUME RulesetInv, NEW p \in Editor, editing[p].at \notin {"idle", "write"}
    PROVE  /\ RulesetTypes /\ RuleTypes /\ EditTypes /\ editing[p] \in Edit /\ ReadTyped(p)
           /\ Sequential => /\ \A q \in Editor : q # p => EditAt(q, {"idle"})
                            /\ PublishedBy(p) /\ PublishesSo(p) /\ PausesSo(p)
<1>1. RulesetTypes /\ EditTypes /\ RuleTypes
    BY DEF RulesetInv, RulesetTypes
<1>2. editing[p] \in Edit /\ ReadTyped(p)
    BY <1>1 DEF EditTypes, ReadTyped, AtDesk
<1> QED
    BY <1>1, <1>2, AloneIs DEF IsSo

\* A shop's one discount is the first.
LEMMA OneLive ==
    ASSUME RuleTypes, OneDiscount, discountId # 0
    PROVE  /\ discountId = 1 /\ Len(discounts) = 1
           /\ Silent <=> discounts[discountId] = {}
BY DEF RuleTypes, OneDiscount, Silent

\* A request that published is done, or has its pause to stamp, or its resume to tell.
LEMMA PublishEnds ==
    ASSUME RulesetInv, NEW p \in Editor, editing[p].at \in {"compare", "stamp"}, PublishDone(p),
           UNCHANGED <<luck, rules, imported, flag, silenced, discountId, discounts, begun>>,
           RuleTypes',
           Sequential => /\ discountId # 0 /\ discounts[discountId] = activeEngineRules
                         /\ hash' = <<discounts[discountId]>>
    PROVE  RulesetInv'
<1>1. /\ RulesetTypes /\ RuleTypes /\ EditTypes /\ ReadTyped(p)
      /\ Sequential => /\ \A q \in Editor : q # p => EditAt(q, {"idle"})
                       /\ PublishedBy(p) /\ PublishesSo(p) /\ PausesSo(p)
    BY PublisherKnows
<1>2. Len(discounts) <= Len(discounts')
    BY <1>1 DEF RuleTypes
<1>3. ASSUME Sequential
      PROVE  /\ OneDiscount' /\ HashIsOfCheckout' /\ (discountId = 0 => hash = << >>)'
             /\ flag' /\ silenced' => Silent'
             /\ PricedWell'
             /\ editing[p].kind = "pause" => flag' /\ Silent'
    <2>1. OneDiscount /\ discountId # 0 /\ (flag /\ silenced => Silent)
        BY <1>1, <1>3 DEF PublishedBy, EditAt
    <2>2. OneDiscount' /\ HashIsOfCheckout' /\ (Silent' <=> Silent)
        BY <1>3, <2>1 DEF OneDiscount, HashIsOfCheckout, Silent
    <2>3. PricedWell'
        BY <1>3, <2>1 DEF PricedWell, activeEngineRules
    <2>4. editing[p].kind = "pause" => flag /\ Silent
        <3>1. editing[p].kind = "pause" => flag
            BY <1>1, <1>3 DEF PausesSo, EditAt
        <3>2. flag => Silent
            BY <1>1, <1>3, <2>1, OneLive, LiveRules
        <3> QED
            BY <3>1, <3>2
    <2> QED
        BY <2>1, <2>2, <2>3, <2>4
<1>4. CASE editing[p].kind \in {"pause", "resume"}
    <2>1. PICK to \in {"silence", "tell"} :
              EditGoes(p, to) /\ (to = "silence" => editing[p].kind = "pause")
        BY <1>4 DEF PublishDone
    <2>2. /\ editing' \in [Editor -> {AtDesk} \cup Edit]
          /\ editing'[p].at = to /\ editing'[p].kind = editing[p].kind
          /\ editing'[p].read = editing[p].read
          /\ editing'[p].existing = editing[p].existing
          /\ \A q \in Editor : q # p => editing'[q] = editing[q]
        BY <1>1, <1>4, <2>1, EditWent
    <2>3. ReadTyped(p)'
        <3>1. ReadTyped(p) /\ editing[p].at # "idle" /\ discounts' = discounts
            BY <1>1
        <3> QED
            BY <1>4, <2>2, <3>1 DEF ReadTyped
    <2>4. ASSUME Sequential PROVE PublishedBy(p)' /\ IsSo(p)'
        <3>1. PublishedBy(p)'
            BY <1>3, <2>4 DEF PublishedBy
        <3>2. PausesSo(p)'
            BY <1>3, <2>1, <2>2, <2>4 DEF PausesSo, EditAt
        <3>3. ReadIsSo(p)' /\ PublishesSo(p)'
            BY <2>2 DEF ReadIsSo, PublishesSo, EditAt
        <3> QED
            BY <3>1, <3>2, <3>3 DEF IsSo
    <2> QED
        BY <1>1, <1>2, <2>2, <2>3, <2>4, OneMoves
<1>5. CASE editing[p].kind \notin {"pause", "resume"}
    <2>1. /\ editing' \in [Editor -> {AtDesk} \cup Edit] /\ editing'[p].at = "idle"
          /\ \A q \in Editor : q # p => editing'[q] = editing[q]
        BY <1>1, <1>5, EditEnded DEF PublishDone
    <2>2. ReadTyped(p)'
        BY <2>1 DEF ReadTyped
    <2>3. ASSUME Sequential PROVE PublishedBy(p)' /\ IsSo(p)'
        <3>1. PublishedBy(p)'
            BY <1>3, <2>3 DEF PublishedBy
        <3>2. IsSo(p)'
            BY <2>1 DEF IsSo, ReadIsSo, PublishesSo, PausesSo, EditAt
        <3> QED
            BY <3>1, <3>2
    <2> QED
        BY <1>1, <1>2, <2>1, <2>2, <2>3, OneMoves
<1> QED
    BY <1>4, <1>5

LEMMA RulesReadKept ==
    ASSUME RulesetInv, NEW p \in Editor, RulesRead(p) PROVE RulesetInv'
<1>1. /\ editing[p].at = "read"
      /\ editing' = [editing EXCEPT ![p].at = "compare", ![p].ruleset = activeEngineRules]
      /\ UNCHANGED <<luck, rules, imported, flag, silenced, hash, discountId, discounts, begun>>
    BY DEF RulesRead, rowVars, pauseVars, publishVars
<1>2. /\ RuleTypes /\ EditTypes /\ editing[p] \in Edit /\ ReadTyped(p)
      /\ Sequential => /\ \A q \in Editor : q # p => EditAt(q, {"idle"})
                       /\ PublishedBy(p) /\ PausesSo(p)
    BY <1>1, PublisherKnows
<1> DEFINE rec == [editing[p] EXCEPT !.at = "compare", !.ruleset = activeEngineRules]
<1>3. rec \in Edit
    BY <1>2, LiveRules DEF Edit
<1>4. /\ editing' \in [Editor -> {AtDesk} \cup Edit] /\ editing'[p] = rec
      /\ \A q \in Editor : q # p => editing'[q] = editing[q]
    BY <1>1, <1>2, <1>3 DEF EditTypes, Edit
<1>5. /\ editing'[p].at = "compare" /\ editing'[p].kind = editing[p].kind
      /\ editing'[p].read = editing[p].read /\ editing'[p].silenced = editing[p].silenced
      /\ editing'[p].existing = editing[p].existing /\ editing'[p].ruleset = activeEngineRules
    BY <1>2, <1>4 DEF Edit
<1> HIDE DEF rec
<1>6. RuleTypes' /\ ReadTyped(p)' /\ Len(discounts) <= Len(discounts')
    <2>1. RuleTypes' /\ Len(discounts) <= Len(discounts')
        BY <1>1, <1>2 DEF RuleTypes
    <2>2. ReadTyped(p) /\ editing[p].at # "idle" /\ discounts' = discounts
        BY <1>1, <1>2
    <2>3. ReadTyped(p)'
        BY <1>5, <2>2 DEF ReadTyped
    <2> QED
        BY <2>1, <2>3
<1>7. ASSUME Sequential PROVE PublishedBy(p)' /\ IsSo(p)'
    <2>1. PublishedBy(p)'
        BY <1>1, <1>2, <1>5, <1>7
            DEF PublishedBy, EditAt, OneDiscount, HashIsOfCheckout, Silent
    <2>2. PausesSo(p)'
        BY <1>1, <1>2, <1>5, <1>7 DEF PausesSo, EditAt, Silent
    <2>3. activeEngineRules' = activeEngineRules
        BY <1>1 DEF activeEngineRules
    <2>4. ReadIsSo(p)' /\ PublishesSo(p)'
        BY <1>5, <2>3 DEF ReadIsSo, PublishesSo, EditAt
    <2> QED
        BY <2>1, <2>2, <2>4 DEF IsSo
<1> QED
    BY <1>1, <1>2, <1>4, <1>6, <1>7, OneMoves

LEMMA HashComparedKept ==
    ASSUME RulesetInv, NEW p \in Editor, HashCompared(p) PROVE RulesetInv'
<1>1. /\ editing[p].at = "compare"
      /\ UNCHANGED <<luck, rules, imported, flag, silenced, hash, discountId, discounts, begun>>
    BY DEF HashCompared, rowVars, pauseVars, publishVars
<1>2. /\ RuleTypes /\ EditTypes /\ editing[p] \in Edit /\ ReadTyped(p)
      /\ Sequential => /\ \A q \in Editor : q # p => EditAt(q, {"idle"})
                       /\ PublishedBy(p) /\ PublishesSo(p) /\ PausesSo(p)
    BY <1>1, PublisherKnows
<1>3. RuleTypes' /\ Len(discounts) <= Len(discounts')
    BY <1>1, <1>2 DEF RuleTypes
<1>4. CASE hash = <<editing[p].ruleset>> /\ discountId # 0
    <2>1. PublishDone(p)
        BY <1>4 DEF HashCompared
    <2>2. ASSUME Sequential
          PROVE  discounts[discountId] = activeEngineRules /\ hash' = <<discounts[discountId]>>
        <3>1. hash = <<discounts[discountId]>> /\ editing[p].ruleset = activeEngineRules
            BY <1>1, <1>2, <1>4, <2>2 DEF PublishedBy, PublishesSo, EditAt, HashIsOfCheckout
        <3> QED
            BY <1>1, <1>4, <3>1
    <2> QED
        BY <1>1, <1>3, <1>4, <2>1, <2>2, PublishEnds
<1>5. CASE ~(hash = <<editing[p].ruleset>> /\ discountId # 0)
    <2> DEFINE to == IF discountId = 0 THEN "create" ELSE "set"
               rec == [editing[p] EXCEPT !.existing = discountId, !.at = to]
    <2>1. editing' = [editing EXCEPT ![p].existing = discountId, ![p].at = to]
        BY <1>5 DEF HashCompared
    <2>2. discountId \in Nat /\ discountId <= Len(discounts)
        BY <1>2 DEF RuleTypes
    <2>3. rec \in Edit
        BY <1>2, <2>2 DEF Edit
    <2>4. /\ editing' \in [Editor -> {AtDesk} \cup Edit] /\ editing'[p] = rec
          /\ \A q \in Editor : q # p => editing'[q] = editing[q]
        BY <1>2, <2>1, <2>3 DEF EditTypes, Edit
    <2>5. /\ editing'[p].at = to /\ editing'[p].kind = editing[p].kind
          /\ editing'[p].read = editing[p].read /\ editing'[p].silenced = editing[p].silenced
          /\ editing'[p].existing = discountId /\ editing'[p].ruleset = editing[p].ruleset
        BY <1>2, <2>4 DEF Edit
    <2>6. to \in {"create", "set"} /\ (to = "create" <=> discountId = 0)
        OBVIOUS
    <2> HIDE DEF to, rec
    <2>7. ReadTyped(p)'
        BY <1>1, <1>2, <2>2, <2>5 DEF ReadTyped
    <2>8. ASSUME Sequential PROVE PublishedBy(p)' /\ IsSo(p)'
        <3>1. PublishedBy(p)'
            BY <1>1, <1>2, <2>5, <2>6, <2>8
                DEF PublishedBy, EditAt, OneDiscount, HashIsOfCheckout, Silent
        <3>2. PausesSo(p)'
            BY <1>1, <1>2, <2>5, <2>6, <2>8 DEF PausesSo, EditAt, Silent
        <3>3. activeEngineRules' = activeEngineRules /\ editing[p].ruleset = activeEngineRules
            BY <1>1, <1>2, <2>8 DEF activeEngineRules, PublishesSo, EditAt
        <3>4. ReadIsSo(p)' /\ PublishesSo(p)'
            BY <1>1, <2>5, <2>6, <3>3 DEF ReadIsSo, PublishesSo, EditAt
        <3> QED
            BY <3>1, <3>2, <3>4 DEF IsSo
    <2> QED
        BY <1>1, <1>2, <1>3, <2>4, <2>7, <2>8, OneMoves
<1> QED
    BY <1>4, <1>5

\* One more discount, or another ruleset on one.
LEMMA DiscountsAre ==
    ASSUME RuleTypes, NEW s \in Ruleset
    PROVE  /\ Append(discounts, s) \in Seq(Ruleset)
           /\ Len(Append(discounts, s)) = Len(discounts) + 1 /\ Len(discounts) \in Nat
           /\ Append(discounts, s)[Len(discounts) + 1] = s
           /\ \A i \in 1 .. Len(discounts) : Append(discounts, s)[i] = discounts[i]
           /\ \A d : /\ [discounts EXCEPT ![d] = s] \in Seq(Ruleset)
                     /\ Len([discounts EXCEPT ![d] = s]) = Len(discounts)
                     /\ d \in 1 .. Len(discounts) => [discounts EXCEPT ![d] = s][d] = s
<1>1. discounts \in Seq(Ruleset) /\ Len(discounts) \in Nat
    BY DEF RuleTypes
<1>2. /\ Append(discounts, s) \in Seq(Ruleset)
      /\ Len(Append(discounts, s)) = Len(discounts) + 1
      /\ Append(discounts, s)[Len(discounts) + 1] = s
      /\ \A i \in 1 .. Len(discounts) : Append(discounts, s)[i] = discounts[i]
    BY <1>1
<1>3. ASSUME NEW d
      PROVE  /\ [discounts EXCEPT ![d] = s] \in Seq(Ruleset)
             /\ Len([discounts EXCEPT ![d] = s]) = Len(discounts)
             /\ d \in 1 .. Len(discounts) => [discounts EXCEPT ![d] = s][d] = s
    <2>1. CASE d \in 1 .. Len(discounts)
        BY <1>1, <2>1, ExceptSeq
    <2>2. CASE d \notin 1 .. Len(discounts)
        <3>1. DOMAIN discounts = 1 .. Len(discounts)
            BY <1>1
        <3>2. [discounts EXCEPT ![d] = s] = discounts
            BY <1>1, <2>2, <3>1
        <3> QED
            BY <1>1, <2>2, <3>2
    <2> QED
        BY <2>1, <2>2
<1> QED
    BY <1>1, <1>2, <1>3

LEMMA ensureDiscountKept ==
    ASSUME RulesetInv, NEW p \in Editor, ensureDiscount(p) PROVE RulesetInv'
<1> DEFINE s == editing[p].ruleset
           rec == [editing[p] EXCEPT !.at = "keep", !.existing = Len(discounts')]
<1>1. /\ editing[p].at = "create" /\ discounts' = Append(discounts, s)
      /\ editing' = [editing EXCEPT ![p].at = "keep", ![p].existing = Len(discounts')]
      /\ UNCHANGED <<luck, rules, imported, flag, silenced, hash, discountId, begun>>
    BY DEF ensureDiscount, rowVars, pauseVars
<1>2. /\ RuleTypes /\ EditTypes /\ editing[p] \in Edit /\ ReadTyped(p)
      /\ Sequential => /\ \A q \in Editor : q # p => EditAt(q, {"idle"})
                       /\ PublishedBy(p) /\ PublishesSo(p) /\ PausesSo(p)
    BY <1>1, PublisherKnows
<1>3. s \in Ruleset
    BY <1>2 DEF Edit
<1>4. /\ discounts' \in Seq(Ruleset) /\ Len(discounts') = Len(discounts) + 1
      /\ Len(discounts) \in Nat /\ discounts'[Len(discounts) + 1] = s
      /\ \A i \in 1 .. Len(discounts) : discounts'[i] = discounts[i]
    BY <1>1, <1>2, <1>3, DiscountsAre
<1>5. rec \in Edit
    <2>1. PICK n \in Nat : n = Len(discounts')
        BY <1>4
    <2>2. [editing[p] EXCEPT !.at = "keep", !.existing = n] \in Edit
        BY <1>2 DEF Edit
    <2> QED
        BY <2>1, <2>2
<1>6. /\ editing' \in [Editor -> {AtDesk} \cup Edit] /\ editing'[p] = rec
      /\ \A q \in Editor : q # p => editing'[q] = editing[q]
    BY <1>1, <1>2, <1>5 DEF EditTypes, Edit
<1>7. /\ editing'[p].at = "keep" /\ editing'[p].kind = editing[p].kind
      /\ editing'[p].read = editing[p].read /\ editing'[p].silenced = editing[p].silenced
      /\ editing'[p].existing = Len(discounts') /\ editing'[p].ruleset = s
    BY <1>2, <1>6 DEF Edit
<1> HIDE DEF rec, s
<1>8. RuleTypes' /\ Len(discounts) <= Len(discounts')
    BY <1>1, <1>2, <1>4 DEF RuleTypes
<1>9. ReadTyped(p)'
    <2>1. ReadTyped(p) /\ editing[p].at # "idle"
        BY <1>1, <1>2
    <2> QED
        BY <1>4, <1>7, <2>1 DEF ReadTyped
<1>10. ASSUME Sequential PROVE PublishedBy(p)' /\ IsSo(p)'
    <2>1. /\ PublishedBy(p) /\ PublishesSo(p) /\ PausesSo(p) /\ discountId = 0 /\ OneDiscount
          /\ s = activeEngineRules
        BY <1>1, <1>2, <1>10 DEF PublishedBy, PublishesSo, EditAt, s
    <2>2. Len(discounts) = 0 /\ Len(discounts') = 1 /\ discounts'[1] = s
        BY <1>4, <2>1 DEF OneDiscount
    <2>3. discounts' = <<s>>
        BY <1>4, <2>2
    <2>4. activeEngineRules' = activeEngineRules
        BY <1>1 DEF activeEngineRules
    <2>5. PublishedBy(p)'
        <3>1. ~EditAt(p, {"stamp", "idle", "write", "silence"})' /\ EditAt(p, {"keep"})'
            BY <1>7 DEF EditAt
        <3>2. HashIsOfCheckout'
            BY <1>1, <2>1 DEF PublishedBy, HashIsOfCheckout
        <3>3. flag' /\ silenced' => Silent'
            BY <1>1, <1>2, <2>1, <2>2, LiveRules DEF Silent
        <3> QED
            BY <1>1, <2>1, <3>1, <3>2, <3>3 DEF PublishedBy, EditAt
    <2>6. PausesSo(p)'
        <3>1. editing[p].kind # "resume"
            BY <1>1, <2>1 DEF PausesSo, EditAt
        <3>2. editing[p].kind = "pause" => flag
            BY <1>1, <2>1 DEF PausesSo, EditAt
        <3> QED
            BY <1>1, <1>7, <3>1, <3>2 DEF PausesSo, EditAt
    <2>7. ReadIsSo(p)' /\ PublishesSo(p)'
        BY <1>1, <1>7, <2>1, <2>2, <2>3, <2>4 DEF ReadIsSo, PublishesSo, EditAt
    <2> QED
        BY <2>5, <2>6, <2>7 DEF IsSo
<1> QED
    BY <1>1, <1>2, <1>6, <1>8, <1>9, <1>10, OneMoves

LEMMA DiscountKeptKept ==
    ASSUME RulesetInv, NEW p \in Editor, DiscountKept(p) PROVE RulesetInv'
<1>1. /\ editing[p].at = "keep" /\ discountId' = editing[p].existing /\ EditGoes(p, "set")
      /\ UNCHANGED <<luck, rules, imported, flag, silenced, hash, discounts, begun>>
    BY DEF DiscountKept, rowVars, pauseVars
<1>2. /\ RulesetTypes /\ RuleTypes /\ editing[p] \in Edit /\ ReadTyped(p)
      /\ Sequential => /\ \A q \in Editor : q # p => EditAt(q, {"idle"})
                       /\ PublishedBy(p) /\ PublishesSo(p) /\ PausesSo(p)
    BY <1>1, PublisherKnows
<1>3. /\ editing' \in [Editor -> {AtDesk} \cup Edit]
      /\ editing'[p].at = "set" /\ editing'[p].kind = editing[p].kind
      /\ editing'[p].read = editing[p].read /\ editing'[p].silenced = editing[p].silenced
      /\ editing'[p].ruleset = editing[p].ruleset
      /\ editing'[p].existing = editing[p].existing
      /\ \A q \in Editor : q # p => editing'[q] = editing[q]
    BY <1>1, <1>2, EditWent
<1>4. editing[p].existing \in 0 .. Len(discounts) /\ Len(discounts) \in Nat
    BY <1>1, <1>2 DEF Edit, ReadTyped, RuleTypes
<1>5. RuleTypes' /\ Len(discounts) <= Len(discounts')
    BY <1>1, <1>2, <1>4 DEF RuleTypes
<1>6. ReadTyped(p)'
    <2>1. ReadTyped(p) /\ editing[p].at # "idle" /\ discounts' = discounts
        BY <1>1, <1>2
    <2> QED
        BY <1>3, <2>1 DEF ReadTyped
<1>7. ASSUME Sequential PROVE PublishedBy(p)' /\ IsSo(p)'
    <2>1. /\ PublishedBy(p) /\ PausesSo(p) /\ discountId = 0 /\ hash = << >>
          /\ editing[p].existing = 1
          /\ discounts = <<editing[p].ruleset>> /\ editing[p].ruleset = activeEngineRules
        BY <1>1, <1>2, <1>7 DEF PublishedBy, PublishesSo, EditAt
    <2>2. activeEngineRules' = activeEngineRules
        BY <1>1 DEF activeEngineRules
    <2>3. discountId' = 1 /\ Len(discounts') = 1
        BY <1>1, <2>1
    <2>4. PublishedBy(p)'
        BY <1>1, <1>3, <2>1, <2>3 DEF PublishedBy, EditAt, OneDiscount, HashIsOfCheckout, Silent
    <2>5. PausesSo(p)'
        BY <1>1, <1>3, <2>1, <2>3 DEF PausesSo, EditAt, Silent
    <2>6. ReadIsSo(p)' /\ PublishesSo(p)'
        BY <1>3, <2>1, <2>2, <2>3 DEF ReadIsSo, PublishesSo, EditAt
    <2> QED
        BY <2>4, <2>5, <2>6 DEF IsSo
<1> QED
    BY <1>1, <1>2, <1>3, <1>5, <1>6, <1>7, OneMoves

LEMMA metafieldsSetKept ==
    ASSUME RulesetInv, NEW p \in Editor, metafieldsSet(p) PROVE RulesetInv'
<1> DEFINE s == editing[p].ruleset
           d == editing[p].existing
<1>1. /\ editing[p].at = "set" /\ discounts' = [discounts EXCEPT ![d] = s]
      /\ EditGoes(p, "stamp")
      /\ UNCHANGED <<luck, rules, imported, flag, silenced, hash, discountId, begun>>
    BY DEF metafieldsSet, rowVars, pauseVars
<1>2. /\ RulesetTypes /\ RuleTypes /\ editing[p] \in Edit /\ ReadTyped(p)
      /\ Sequential => /\ \A q \in Editor : q # p => EditAt(q, {"idle"})
                       /\ PublishedBy(p) /\ PublishesSo(p) /\ PausesSo(p)
    BY <1>1, PublisherKnows
<1>3. /\ editing' \in [Editor -> {AtDesk} \cup Edit]
      /\ editing'[p].at = "stamp" /\ editing'[p].kind = editing[p].kind
      /\ editing'[p].read = editing[p].read /\ editing'[p].silenced = editing[p].silenced
      /\ editing'[p].ruleset = s /\ editing'[p].existing = d
      /\ \A q \in Editor : q # p => editing'[q] = editing[q]
    BY <1>1, <1>2, EditWent
<1>4. s \in Ruleset
    BY <1>2 DEF Edit
<1> HIDE DEF d, s
<1>5. /\ discounts' \in Seq(Ruleset) /\ Len(discounts') = Len(discounts)
      /\ Len(discounts) \in Nat
      /\ d \in 1 .. Len(discounts) => discounts'[d] = s
    BY <1>1, <1>2, <1>4, DiscountsAre
<1>6. RuleTypes' /\ Len(discounts) <= Len(discounts')
    BY <1>1, <1>2, <1>5 DEF RuleTypes
<1>7. ReadTyped(p)'
    <2>1. ReadTyped(p) /\ editing[p].at # "idle" /\ Len(discounts') = Len(discounts)
        BY <1>1, <1>2, <1>5
    <2>2. d = editing[p].existing
        BY DEF d
    <2> QED
        BY <1>3, <2>1, <2>2 DEF ReadTyped
<1>8. ASSUME Sequential PROVE PublishedBy(p)' /\ IsSo(p)'
    <2>1. /\ PublishedBy(p) /\ PausesSo(p) /\ OneDiscount /\ discountId # 0 /\ d = discountId
          /\ s = activeEngineRules
        BY <1>1, <1>2, <1>8 DEF PublishedBy, PublishesSo, EditAt, d, s
    <2>2. discountId = 1 /\ Len(discounts) = 1 /\ discounts'[discountId] = s
        <3>1. discountId = 1 /\ Len(discounts) = 1
            BY <1>2, <2>1, OneLive
        <3> QED
            BY <1>5, <2>1, <3>1
    <2>3. activeEngineRules' = activeEngineRules
        BY <1>1 DEF activeEngineRules
    <2>4. flag => Silent'
        <3>1. flag => s = {}
            BY <1>2, <2>1, LiveRules
        <3>2. Len(discounts') = 1 /\ discounts'[1] = s
            BY <1>5, <2>2
        <3> QED
            BY <3>1, <3>2 DEF Silent
    <2>5. EditAt(p, {"stamp"})' /\ ~EditAt(p, {"idle", "write", "silence", "tell"})'
        BY <1>3 DEF EditAt
    <2>6. OneDiscount'
        BY <1>1, <1>5, <2>1, <2>2 DEF OneDiscount
    <2>7. PublishedBy(p)'
        BY <1>1, <2>1, <2>4, <2>5, <2>6 DEF PublishedBy
    <2>8. PausesSo(p)'
        BY <1>1, <1>3, <2>1 DEF PausesSo, EditAt
    <2>9. ReadIsSo(p)' /\ PublishesSo(p)'
        BY <1>1, <1>3, <2>1, <2>2, <2>3 DEF ReadIsSo, PublishesSo, EditAt
    <2> QED
        BY <2>7, <2>8, <2>9 DEF IsSo
<1> QED
    BY <1>1, <1>2, <1>3, <1>6, <1>7, <1>8, OneMoves

LEMMA HashKeptKept ==
    ASSUME RulesetInv, NEW p \in Editor, HashKept(p) PROVE RulesetInv'
<1>1. /\ editing[p].at = "stamp" /\ hash' = <<editing[p].ruleset>> /\ PublishDone(p)
      /\ UNCHANGED <<luck, rules, imported, flag, silenced, discountId, discounts, begun>>
    BY DEF HashKept, rowVars, pauseVars
<1>2. /\ RuleTypes /\ editing[p] \in Edit
      /\ Sequential => PublishesSo(p)
    BY <1>1, PublisherKnows
<1>3. editing[p].ruleset \in Ruleset
    BY <1>2 DEF Edit
<1>4. RuleTypes'
    BY <1>1, <1>2, <1>3 DEF RuleTypes
<1>5. ASSUME Sequential
      PROVE  /\ discountId # 0 /\ discounts[discountId] = activeEngineRules
             /\ hash' = <<discounts[discountId]>>
    BY <1>1, <1>2, <1>5 DEF PublishesSo, EditAt
<1> QED
    BY <1>1, <1>4, <1>5, PublishEnds

-----------------------------------------------------------------------------
(* ..., and is over, one way or another                                    *)

LEMMA PauseStampedKept ==
    ASSUME RulesetInv, NEW p \in Editor, PauseStamped(p) PROVE RulesetInv'
<1>1. /\ editing[p].at = "silence" /\ silenced' = TRUE /\ EditDone(p)
      /\ UNCHANGED <<luck, rules, imported, flag, hash, discountId, discounts, begun>>
    BY DEF PauseStamped, rowVars, publishVars
<1>2. /\ RuleTypes
      /\ Sequential => PublishedBy(p) /\ PausesSo(p)
    BY <1>1, PublisherKnows
<1>3. RuleTypes'
    BY <1>1, <1>2 DEF RuleTypes
<1>4. Sequential => Silent
    BY <1>1, <1>2 DEF PausesSo, EditAt
<1>5. ASSUME LuckyIn(Mishaps) PROVE PricedWell'
    <2>1. PricedWell
        BY <1>1, <1>2, <1>5, LuckOfAll DEF PublishedBy, EditAt, Sequential
    <2> QED
        BY <1>1, <2>1 DEF PricedWell, activeEngineRules
<1> QED
    BY <1>1, <1>3, <1>4, <1>5, WroteDone DEF publishVars

LEMMA ResumeToldKept ==
    ASSUME RulesetInv, NEW p \in Editor, ResumeTold(p) PROVE RulesetInv'
<1>1. /\ editing[p].at = "tell" /\ EditDone(p)
      /\ UNCHANGED <<luck, rules, imported, flag, silenced, hash, discountId, discounts, begun>>
    BY DEF ResumeTold, rowVars, pauseVars, publishVars
<1>2. /\ RuleTypes
      /\ Sequential => PublishedBy(p)
    BY <1>1, PublisherKnows
<1>3. RuleTypes'
    BY <1>1, <1>2 DEF RuleTypes
<1>4. Sequential => (flag' /\ silenced' => Silent)
    BY <1>1, <1>2 DEF PublishedBy
<1>5. ASSUME LuckyIn(Mishaps) PROVE PricedWell'
    <2>1. PricedWell
        BY <1>1, <1>2, <1>5, LuckOfAll DEF PublishedBy, EditAt, Sequential
    <2> QED
        BY <1>1, <2>1 DEF PricedWell, activeEngineRules
<1> QED
    BY <1>1, <1>3, <1>4, <1>5, WroteDone DEF publishVars

\* Where requests may die or throw late, only types are kept.
LEMMA EditAbandoned ==
    ASSUME RulesetInv, NEW p \in Editor, EditDone(p), ~Sequential, RuleTypes',
           UNCHANGED <<luck, publishVars>>
    PROVE  RulesetInv'
<1>1. RulesetTypes /\ RuleTypes /\ UNCHANGED discounts
    BY DEF RulesetInv, RulesetTypes, publishVars
<1>2. /\ editing' \in [Editor -> {AtDesk} \cup Edit] /\ editing'[p].at = "idle"
      /\ \A q \in Editor : q # p => editing'[q] = editing[q]
    BY <1>1, EditEnded
<1>3. ReadTyped(p)' /\ Len(discounts) <= Len(discounts')
    BY <1>1, <1>2 DEF RuleTypes, ReadTyped
<1> QED
    BY <1>2, <1>3, OneMoves

LEMMA PublishThrowsKept ==
    ASSUME RulesetInv, NEW p \in Editor, PublishThrows(p) PROVE RulesetInv'
<1>1. /\ editing[p].at \notin {"idle", "write"} /\ EditDone(p)
      /\ UNCHANGED <<luck, rules, imported, hash, discountId, discounts, begun>>
      /\ \/ editing[p].kind = "resume" /\ flag' = TRUE /\ silenced' = editing[p].silenced
         \/ editing[p].kind # "resume" /\ flag' = flag /\ silenced' = silenced
      /\ \/ "refused" \in luck /\ editing[p].at \in {"read", "compare", "create", "set"}
         \/ "unanswered" \in luck
    BY DEF PublishThrows, rowVars, pauseVars, publishVars
<1>2. /\ RuleTypes /\ editing[p] \in Edit
      /\ Sequential => PublishedBy(p) /\ PausesSo(p)
    BY <1>1, PublisherKnows
<1>3. RuleTypes'
    <2>1. editing[p].silenced \in BOOLEAN
        BY <1>2 DEF Edit
    <2>2. flag' \in BOOLEAN /\ silenced' \in BOOLEAN
        BY <1>1, <1>2, <2>1 DEF RuleTypes
    <2> QED
        BY <1>1, <1>2, <2>2 DEF RuleTypes
<1>4. CASE "unanswered" \in luck
    BY <1>1, <1>3, <1>4, EditAbandoned DEF Sequential, LuckyIn, publishVars
<1>5. CASE "refused" \in luck /\ editing[p].at \in {"read", "compare", "create", "set"}
    <2>1. Sequential => (flag' /\ silenced' => Silent)
        BY <1>1, <1>2, <1>5 DEF PublishedBy, PausesSo, EditAt
    <2>2. ~LuckyIn(Mishaps)
        BY <1>5, LuckOfAll
    <2>3. editing[p].at \notin {"idle", "keep", "stamp"}
        BY <1>5
    <2> QED
        BY <1>1, <1>3, <2>1, <2>2, <2>3, WroteDone DEF publishVars
<1> QED
    BY <1>1, <1>4, <1>5

LEMMA EditKilledKept ==
    ASSUME RulesetInv, NEW p \in Editor, EditKilled(p) PROVE RulesetInv'
<1>1. /\ "killed" \in luck /\ EditDone(p)
      /\ UNCHANGED <<luck, rules, imported, flag, silenced, hash, discountId, discounts, begun>>
    BY DEF EditKilled, rowVars, pauseVars, publishVars
<1>2. RuleTypes'
    BY <1>1 DEF RulesetInv, RulesetTypes, RuleTypes
<1> QED
    BY <1>1, <1>2, EditAbandoned DEF Sequential, LuckyIn, publishVars

-----------------------------------------------------------------------------
(* What checkout is told                                                   *)

LEMMA RulesetInitially == RulesetInit => RulesetInv
<1> SUFFICES ASSUME RulesetInit PROVE RulesetInv
    OBVIOUS
<1>1. \A p \in Editor : editing[p] = AtDesk /\ editing[p].at = "idle"
    BY DEF RulesetInit, AtDesk
<1>2. discounts = << >> /\ Len(discounts) = 0 /\ discountId = 0 /\ hash = << >>
    BY DEF RulesetInit
<1>3. RuleTypes
    <2>1. rules \in [Rule -> RuleRow] /\ \A r \in Rule : rules[r].status # "ACTIVE"
        BY DEF RulesetInit, NoRule, RuleRow
    <2>2. begun \in 0 .. MaxEdits
        BY RulesetAssumption DEF RulesetInit
    <2>3. flag \in BOOLEAN /\ silenced \in BOOLEAN /\ luck \in Lucks /\ imported \subseteq Rule
        BY DEF RulesetInit
    <2>4. discounts \in Seq(Ruleset) /\ discountId \in 0 .. Len(discounts)
        BY <1>2
    <2>5. hash \in {<< >>} \cup {<<s>> : s \in Ruleset}
        BY <1>2
    <2> QED
        BY <2>1, <2>2, <2>3, <2>4, <2>5 DEF RuleTypes
<1>4. EditTypes
    BY <1>1 DEF RulesetInit, EditTypes
<1>5. OneAtWork /\ \A p \in Editor : ReadIsSo(p) /\ PublishesSo(p) /\ PausesSo(p)
    BY <1>1 DEF OneAtWork, ReadIsSo, PublishesSo, PausesSo, EditAt
<1>6. PricedWell
    BY <1>2 DEF PricedWell, RulesetInit, NoRule
<1>7. PublishedWell
    BY <1>2, <1>6 DEF PublishedWell, OneDiscount, HashIsOfCheckout, RulesetInit
<1> QED
    BY <1>3, <1>4, <1>5, <1>7 DEF RulesetInv, RulesetTypes

LEMMA RulesetStep == RulesetInv /\ [RulesetNext]_rulesetVars => RulesetInv'
<1> SUFFICES ASSUME RulesetInv, [RulesetNext]_rulesetVars PROVE RulesetInv'
    OBVIOUS
<1>1. CASE UNCHANGED rulesetVars
    <2>1. UNCHANGED <<luck, rules, imported, flag, silenced, hash, discountId, discounts,
                      editing, begun>>
        BY <1>1 DEF rulesetVars, rowVars, pauseVars, publishVars
    <2>2. RulesetTypes'
        BY <2>1 DEF RulesetInv, RulesetTypes, RuleTypes, EditTypes
    <2>3. OneAtWork' <=> OneAtWork
        BY <2>1 DEF OneAtWork, EditAt
    <2>4. PublishedWell' <=> PublishedWell
        BY <2>1 DEF PublishedWell, EditAt, OneDiscount, HashIsOfCheckout, Silent, PricedWell,
            activeEngineRules, LuckyIn
    <2>5. \A p \in Editor : IsSo(p)' <=> IsSo(p)
        BY <2>1 DEF IsSo, ReadIsSo, PublishesSo, PausesSo, EditAt, Silent, activeEngineRules
    <2> QED
        BY <2>1, <2>2, <2>3, <2>4, <2>5 DEF RulesetInv, LuckyIn, IsSo
<1>2. CASE RulesetNext
    <2>1. PICK p \in Editor :
              \/ EditRule(p) \/ EditAtLarge(p) \/ EditUndo(p)
              \/ EditWrites(p) \/ PublishStep(p) \/ PublishThrows(p) \/ EditKilled(p)
        BY <1>2 DEF RulesetNext
    <2>2. CASE EditWrites(p)
        BY <2>2, createRuleKept, updateRuleKept, archiveRuleKept, restoreRuleKept,
            deleteRuleKept, reorderRulesKept, runImportKept, undoImportKept, pauseAppKept,
            resumeAppKept DEF EditWrites
    <2>3. CASE PublishStep(p)
        BY <2>3, RulesReadKept, HashComparedKept, ensureDiscountKept, DiscountKeptKept,
            metafieldsSetKept, HashKeptKept, PauseStampedKept, ResumeToldKept DEF PublishStep
    <2> QED
        BY <2>1, <2>2, <2>3, BeginsKept, PublishThrowsKept, EditKilledKept
<1> QED
    BY <1>1, <1>2

LEMMA RulesetInvariant == RulesetSpec => []RulesetInv
BY RulesetInitially, RulesetStep, PTL DEF RulesetSpec

\* The state of the pricing rules keeps its types (RulesetPublish).
THEOREM RulesetTypesHold == RulesetSpec => []RulesetTypeOK
<1>1. RulesetInv => RulesetTypeOK
    BY DEF RulesetInv, RulesetTypes, RuleTypes, RuleRow, RulesetTypeOK
<1> QED
    BY <1>1, RulesetInvariant, PTL

\* However many rules, prices and requests there are, where one request is at
\* work at a time, none is killed and none throws after what it asked of Shopify
\* or of the database was done, a shop has one discount, which its hash is of,
\* and a pause that says so has silenced it; and where nothing is refused
\* either, checkout prices with the active rules and none during a pause
\* (app/lib/pricing/ruleset.server.ts, app/lib/settings/pause.server.ts).
THEOREM CheckoutStaysAgreed == RulesetSpec => []CheckoutAgrees
<1>1. ASSUME RulesetInv PROVE CheckoutAgrees
    <2> SUFFICES ASSUME Sequential, NobodyEdits
                 PROVE  /\ OneDiscount /\ HashIsOfCheckout /\ (flag /\ silenced => Silent)
                        /\ LuckyIn(Mishaps) =>
                             IF discountId = 0 THEN activeEngineRules = {}
                                               ELSE discounts[discountId] = activeEngineRules
        BY LuckOfAll DEF CheckoutAgrees, ActivePriced, PublishSound, PausedIsSilent, Sequential
    <2>1. PublishedWell
        BY <1>1 DEF RulesetInv, Sequential
    <2>2. PricedWell => IF discountId = 0 THEN activeEngineRules = {}
                                          ELSE discounts[discountId] = activeEngineRules
        BY DEF PricedWell, activeEngineRules
    <2> QED
        BY <2>1, <2>2 DEF PublishedWell, NobodyEdits, EditAt
<1> QED
    BY <1>1, RulesetInvariant, PTL

(***************************************************************************)
(* The gate in front of a plan's quotas                                    *)
(*                                                                         *)
(* What carries the argument is the lock: a request that has counted still *)
(* holds it, so between its count and its insert the rows can only have    *)
(* grown by those two doors that `slack` counts.                           *)
(***************************************************************************)
InTransaction(c) == asking[c].at \in {"locked", "counted"}

(* Who is in the transaction of a quota holds its lock, alone.             *)
LockIsHeld ==
    \A c \in Caller : InTransaction(c) => holder[asking[c].quota] = {c}

(* What a request was allowed is some plan's, and no more than Ceiling.    *)
AllowedIsAPlans ==
    \A c \in Caller : asking[c] # Away => asking[c].allowed <= Ceiling

(* What was counted is still true, but for what came in uncounted since.   *)
CountStands ==
    \A c \in Caller : Asking(c, "counted") =>
      live[asking[c].quota] + asking[c].rows
        <= asking[c].allowed + slack[asking[c].quota]

GateInv == GateTypeOK /\ LockIsHeld /\ AllowedIsAPlans /\ CountStands /\ QuotaKept

(* A request is away or is a record of what it asked.                      *)
LEMMA AskedShape ==
  ASSUME GateTypeOK, NEW c \in Caller, asking[c].at # "away"
  PROVE  asking[c] \in Asked /\ asking[c] # Away
  BY DEF GateTypeOK, Away

LEMMA GateInitially == GateInit => GateInv
  BY GateAssumption DEF GateInit, GateInv, GateTypeOK, LockIsHeld, AllowedIsAPlans, CountStands,
       QuotaKept, InTransaction, Asking, Away, Asked

(* Asking reads a plan's own limit.                                        *)
LEMMA AskKeeps ==
  ASSUME GateInv, NEW c \in Caller, AskGate(c)
  PROVE  GateInv'
<1>1. PICK k \in Quota, n \in 1 .. MaxBatch :
        asking' = [asking EXCEPT ![c] = [at |-> "entitled", quota |-> k, rows |-> n,
                                         allowed |-> Allowed[plan][k]]]
  BY DEF AskGate
<1>2. Allowed[plan][k] \in Nat \cup {NoLimit} /\ Allowed[plan][k] <= Ceiling
  BY GateAssumption DEF GateInv, GateTypeOK
<1>3. GateTypeOK'
  BY <1>1, <1>2 DEF GateInv, GateTypeOK, AskGate, Asked
<1>4. asking'[c].at = "entitled" /\ asking'[c].allowed <= Ceiling
        /\ \A d \in Caller \ {c} : asking'[d] = asking[d]
  BY <1>1, <1>2 DEF GateInv, GateTypeOK
<1>5. UNCHANGED <<holder, live, slack>>
  BY DEF AskGate
<1>6. LockIsHeld'
  BY <1>4, <1>5 DEF GateInv, LockIsHeld, InTransaction
<1>7. AllowedIsAPlans'
  BY <1>4 DEF GateInv, AllowedIsAPlans
<1>8. CountStands'
  BY <1>4, <1>5 DEF GateInv, CountStands, Asking
<1>9. QuotaKept'
  BY <1>5 DEF GateInv, QuotaKept
<1> QED BY <1>3, <1>6, <1>7, <1>8, <1>9 DEF GateInv

(* Rows that come in uncounted are in the slack as well.                   *)
LEMMA UncountedKeeps ==
  ASSUME GateInv, NEW k \in Quota, NEW n \in Nat,
         live' = [live EXCEPT ![k] = @ + n], slack' = [slack EXCEPT ![k] = @ + n],
         plan' = plan, holder' = holder, shelved' \in [Quota -> Nat],
         NEW c \in Caller,
         asking' = asking \/ (asking' = [asking EXCEPT ![c] = Away])
  PROVE  GateInv'
<1>1. GateTypeOK'
  <2>1. asking' \in [Caller -> {Away} \cup Asked]
    BY DEF GateInv, GateTypeOK
  <2>2. live' \in [Quota -> Nat] /\ slack' \in [Quota -> Nat]
    BY DEF GateInv, GateTypeOK
  <2>3. plan' \in Plan /\ holder' \in [Quota -> SUBSET Caller]
    BY DEF GateInv, GateTypeOK
  <2> QED BY <2>1, <2>2, <2>3 DEF GateTypeOK
<1>2. \A d \in Caller : asking'[d] = asking[d] \/ asking'[d] = Away
  BY DEF GateInv, GateTypeOK
<1>3. LockIsHeld'
  <2> SUFFICES ASSUME NEW d \in Caller, InTransaction(d)'
               PROVE  (holder[asking[d].quota] = {d})'
    BY DEF LockIsHeld
  <2>1. asking'[d] = asking[d] /\ InTransaction(d)
    BY <1>2 DEF InTransaction, Away
  <2> QED BY <2>1 DEF GateInv, LockIsHeld
<1>4. AllowedIsAPlans'
  BY <1>2 DEF GateInv, AllowedIsAPlans
<1>5. CountStands'
  <2> SUFFICES ASSUME NEW d \in Caller, Asking(d, "counted")'
               PROVE  (live[asking[d].quota] + asking[d].rows
                         <= asking[d].allowed + slack[asking[d].quota])'
    BY DEF CountStands
  <2>1. asking'[d] = asking[d] /\ Asking(d, "counted") /\ asking[d] \in Asked
    BY <1>2, AskedShape DEF Asking, Away, GateInv
  <2>2. live[asking[d].quota] + asking[d].rows <= asking[d].allowed + slack[asking[d].quota]
    BY <2>1 DEF GateInv, CountStands
  <2>3. asking[d].quota \in Quota /\ asking[d].rows \in Nat /\ asking[d].allowed \in Int
    BY <2>1 DEF Asked, NoLimit
  <2> QED BY <2>1, <2>2, <2>3 DEF GateInv, GateTypeOK
<1>6. QuotaKept'
  BY GateAssumption DEF GateInv, GateTypeOK, QuotaKept
<1> QED BY <1>1, <1>3, <1>4, <1>5, <1>6 DEF GateInv

(* Taking the lock: nobody else is in a transaction of the quota.          *)
LEMMA LockKeeps ==
  ASSUME GateInv, NEW c \in Caller, TakeLock(c)
  PROVE  GateInv'
<1>1. asking[c] \in Asked /\ holder[asking[c].quota] = {}
  BY AskedShape DEF GateInv, TakeLock, Asking, LockHeldBack
<1>2. asking' = [asking EXCEPT ![c] = [asking[c] EXCEPT !.at = "locked"]]
        /\ [asking[c] EXCEPT !.at = "locked"] \in Asked
  BY <1>1 DEF TakeLock, GateInv, GateTypeOK, Asked
<1>3. GateTypeOK'
  BY <1>1, <1>2 DEF TakeLock, GateInv, GateTypeOK, Asked
<1>4. asking'[c].at = "locked" /\ asking'[c].quota = asking[c].quota
        /\ asking'[c].allowed = asking[c].allowed
        /\ \A d \in Caller \ {c} : asking'[d] = asking[d]
  BY <1>1, <1>2 DEF GateInv, GateTypeOK, Asked
<1>5. LockIsHeld'
  <2> SUFFICES ASSUME NEW d \in Caller, InTransaction(d)'
               PROVE  (holder[asking[d].quota] = {d})'
    BY DEF LockIsHeld
  <2>1. CASE d = c
    BY <2>1, <1>1, <1>4 DEF TakeLock, GateInv, GateTypeOK, Asked
  <2>2. CASE d # c
    <3>1. holder[asking[d].quota] = {d} /\ asking'[d] = asking[d]
      BY <2>2, <1>4 DEF GateInv, LockIsHeld, InTransaction
    <3>2. asking[d].quota # asking[c].quota
      BY <3>1, <1>1
    <3>3. asking[d] \in Asked
      BY <3>1, <1>4, AskedShape DEF InTransaction, GateInv
    <3> QED BY <3>1, <3>2, <3>3 DEF TakeLock, GateInv, GateTypeOK, Asked
  <2> QED BY <2>1, <2>2
<1>6. AllowedIsAPlans'
  BY <1>4, <1>1, AskedShape DEF GateInv, AllowedIsAPlans, TakeLock, Asking, Away
<1>7. CountStands'
  BY <1>4 DEF GateInv, CountStands, Asking, TakeLock
<1>8. QuotaKept'
  BY DEF GateInv, QuotaKept, TakeLock
<1> QED BY <1>3, <1>5, <1>6, <1>7, <1>8 DEF GateInv

(* Letting a lock go leaves every other transaction as it was.             *)
LEMMA LetGoKeeps ==
  ASSUME GateInv, NEW c \in Caller, InTransaction(c), LetGo(c),
         UNCHANGED <<plan, live, shelved, slack>>
  PROVE  GateInv'
<1>1. asking[c] \in Asked /\ holder[asking[c].quota] = {c}
  BY AskedShape DEF GateInv, InTransaction, LockIsHeld
<1>2. GateTypeOK'
  BY <1>1 DEF LetGo, GateInv, GateTypeOK
<1>3. asking'[c] = Away /\ \A d \in Caller \ {c} : asking'[d] = asking[d]
  BY DEF LetGo, GateInv, GateTypeOK
<1>4. LockIsHeld'
  <2> SUFFICES ASSUME NEW d \in Caller, InTransaction(d)'
               PROVE  (holder[asking[d].quota] = {d})'
    BY DEF LockIsHeld
  <2>1. d # c /\ asking'[d] = asking[d]
    BY <1>3 DEF InTransaction, Away
  <2>2. holder[asking[d].quota] = {d} /\ asking[d] \in Asked
    BY <2>1, AskedShape DEF GateInv, LockIsHeld, InTransaction
  <2> QED BY <2>1, <2>2, <1>1 DEF LetGo, GateInv, GateTypeOK, Asked
<1>5. AllowedIsAPlans'
  BY <1>3 DEF GateInv, AllowedIsAPlans
<1>6. CountStands'
  BY <1>3 DEF GateInv, CountStands, Asking, Away
<1>7. QuotaKept'
  BY DEF GateInv, QuotaKept
<1> QED BY <1>2, <1>4, <1>5, <1>6, <1>7 DEF GateInv

(* The count that lets a request through is what CountStands says.         *)
LEMMA CountKeeps ==
  ASSUME GateInv, NEW c \in Caller, CountRows(c)
  PROVE  GateInv'
<1>1. asking[c] \in Asked /\ InTransaction(c)
  BY AskedShape DEF GateInv, CountRows, Asking, InTransaction
<1>2. CASE ~withinLimit(c)
  BY <1>1, <1>2, LetGoKeeps DEF CountRows
<1>3. CASE withinLimit(c)
  <2>1. asking' = [asking EXCEPT ![c] = [asking[c] EXCEPT !.at = "counted"]]
          /\ [asking[c] EXCEPT !.at = "counted"] \in Asked
          /\ UNCHANGED <<plan, live, shelved, slack, holder>>
    BY <1>1, <1>3 DEF CountRows, GateInv, GateTypeOK, Asked
  <2>2. GateTypeOK'
    BY <2>1 DEF GateInv, GateTypeOK
  <2>3. asking'[c].quota = asking[c].quota /\ asking'[c].allowed = asking[c].allowed
          /\ asking'[c].rows = asking[c].rows
          /\ \A d \in Caller \ {c} : asking'[d] = asking[d]
    BY <1>1, <2>1 DEF GateInv, GateTypeOK, Asked
  <2>4. LockIsHeld'
    BY <1>1, <2>1, <2>3 DEF GateInv, LockIsHeld, InTransaction
  <2>5. AllowedIsAPlans'
    BY <1>1, <2>3, AskedShape DEF GateInv, AllowedIsAPlans, Away, InTransaction
  <2>6. live[asking[c].quota] + asking[c].rows <= asking[c].allowed + slack[asking[c].quota]
    BY <1>1, <1>3 DEF withinLimit, GateInv, GateTypeOK, Asked, NoLimit
  <2>7. CountStands'
    BY <2>1, <2>3, <2>6 DEF GateInv, CountStands, Asking
  <2>8. QuotaKept'
    BY <2>1 DEF GateInv, QuotaKept
  <2> QED BY <2>2, <2>4, <2>5, <2>7, <2>8 DEF GateInv
<1> QED BY <1>2, <1>3

(* The insert: the lock is the requester's, so no other count is spoilt.   *)
LEMMA CreateKeeps ==
  ASSUME GateInv, NEW c \in Caller, CreateCounted(c)
  PROVE  GateInv'
<1> DEFINE k == asking[c].quota
           n == asking[c].rows
<1>1. asking[c] \in Asked /\ holder[k] = {c} /\ k \in Quota /\ n \in Nat
        /\ asking[c].allowed \in Int /\ asking[c].allowed <= Ceiling
  <2>1. asking[c] \in Asked /\ asking[c] # Away /\ InTransaction(c)
    BY AskedShape DEF GateInv, CreateCounted, Asking, InTransaction
  <2> QED BY <2>1 DEF GateInv, LockIsHeld, AllowedIsAPlans, Asked, NoLimit
<1>2. live[k] + n <= asking[c].allowed + slack[k]
  BY DEF GateInv, CountStands, CreateCounted
<1>3. live' = [live EXCEPT ![k] = live[k] + n] /\ UNCHANGED <<plan, shelved, slack>>
  BY <1>1 DEF CreateCounted, GateInv, GateTypeOK
<1>4. GateTypeOK'
  BY <1>1, <1>3 DEF CreateCounted, LetGo, GateInv, GateTypeOK
<1>5. asking'[c] = Away /\ \A d \in Caller \ {c} : asking'[d] = asking[d]
  BY DEF CreateCounted, LetGo, GateInv, GateTypeOK
<1>6. \A d \in Caller : InTransaction(d)' =>
        d # c /\ asking'[d] = asking[d] /\ asking[d] \in Asked
          /\ holder[asking[d].quota] = {d} /\ asking[d].quota # k
  <2> SUFFICES ASSUME NEW d \in Caller, InTransaction(d)'
               PROVE  d # c /\ asking'[d] = asking[d] /\ asking[d] \in Asked
                        /\ holder[asking[d].quota] = {d} /\ asking[d].quota # k
    OBVIOUS
  <2>1. d # c /\ asking'[d] = asking[d]
    BY <1>5 DEF InTransaction, Away
  <2>2. holder[asking[d].quota] = {d} /\ asking[d] \in Asked
    BY <2>1, AskedShape DEF GateInv, LockIsHeld, InTransaction
  <2> QED BY <2>1, <2>2, <1>1
<1>7. LockIsHeld'
  BY <1>1, <1>6 DEF LockIsHeld, CreateCounted, LetGo, GateInv, GateTypeOK, Asked
<1>8. AllowedIsAPlans'
  BY <1>5 DEF GateInv, AllowedIsAPlans
<1>9. CountStands'
  <2> SUFFICES ASSUME NEW d \in Caller, Asking(d, "counted")'
               PROVE  (live[asking[d].quota] + asking[d].rows
                         <= asking[d].allowed + slack[asking[d].quota])'
    BY DEF CountStands
  <2>1. asking'[d] = asking[d] /\ asking[d].quota # k /\ asking[d].quota \in Quota
    BY <1>6 DEF InTransaction, Asking, Asked
  <2>2. live[asking[d].quota] + asking[d].rows <= asking[d].allowed + slack[asking[d].quota]
    BY <2>1 DEF GateInv, CountStands, Asking
  <2> QED BY <1>3, <2>1, <2>2 DEF GateInv, GateTypeOK
<1>10. QuotaKept'
  <2>1. live[k] + n <= Ceiling + slack[k]
    BY <1>1, <1>2, GateAssumption DEF GateInv, GateTypeOK
  <2> QED BY <1>1, <1>3, <2>1 DEF GateInv, GateTypeOK, QuotaKept
<1> QED BY <1>4, <1>7, <1>8, <1>9, <1>10 DEF GateInv

(* Fewer rows are live: every bound on them stands.                        *)
LEMMA FewerKeeps ==
  ASSUME GateInv, live' \in [Quota -> Nat], \A k \in Quota : live'[k] <= live[k],
         shelved' \in [Quota -> Nat], plan' \in Plan,
         UNCHANGED <<slack, holder, asking>>
  PROVE  GateInv'
<1>1. GateTypeOK'
  BY DEF GateInv, GateTypeOK
<1>2. LockIsHeld' /\ AllowedIsAPlans'
  BY DEF GateInv, LockIsHeld, AllowedIsAPlans, InTransaction
<1>3. CountStands'
  <2> SUFFICES ASSUME NEW d \in Caller, Asking(d, "counted")
               PROVE  live'[asking[d].quota] + asking[d].rows
                         <= asking[d].allowed + slack[asking[d].quota]
    BY DEF CountStands, Asking
  <2>1. asking[d].quota \in Quota /\ asking[d].rows \in Nat /\ asking[d].allowed \in Int
    BY AskedShape DEF GateInv, Asking, Asked, NoLimit
  <2>2. live[asking[d].quota] + asking[d].rows <= asking[d].allowed + slack[asking[d].quota]
    BY DEF GateInv, CountStands
  <2> QED BY <2>1, <2>2 DEF GateInv, GateTypeOK
<1>4. QuotaKept'
  BY GateAssumption DEF GateInv, GateTypeOK, QuotaKept
<1> QED BY <1>1, <1>2, <1>3, <1>4 DEF GateInv

LEMMA GateStep == GateInv /\ [GateNext]_gateVars => GateInv'
<1> SUFFICES ASSUME GateInv, [GateNext]_gateVars PROVE GateInv'
  OBVIOUS
<1>1. ASSUME NEW c \in Caller, CreateStep(c) PROVE GateInv'
  <2>1. CASE AskGate(c)
    BY <2>1, AskKeeps
  <2>2. CASE CreateUnlimited(c)
    <3>1. asking[c] \in Asked
      BY <2>2, AskedShape DEF CreateUnlimited, Asking, GateInv
    <3>2. asking[c].quota \in Quota /\ asking[c].rows \in Nat
      BY <3>1 DEF Asked
    <3>3. shelved' \in [Quota -> Nat]
      BY <2>2 DEF CreateUnlimited, GateInv, GateTypeOK
    <3> QED BY <2>2, <3>2, <3>3, UncountedKeeps DEF CreateUnlimited
  <2>3. CASE TakeLock(c)
    BY <2>3, LockKeeps
  <2>4. CASE CountRows(c)
    BY <2>4, CountKeeps
  <2>5. CASE CreateCounted(c)
    BY <2>5, CreateKeeps
  <2>6. CASE AskerDies(c)
    BY <2>6, LetGoKeeps DEF AskerDies, InTransaction
  <2> QED BY <1>1, <2>1, <2>2, <2>3, <2>4, <2>5, <2>6 DEF CreateStep
<1>2. ASSUME NEW k \in Quota, ShelfStep(k) PROVE GateInv'
  <2>1. CASE Shelve(k)
    <3>1. live' \in [Quota -> Nat] /\ shelved' \in [Quota -> Nat]
            /\ \A q \in Quota : live'[q] <= live[q]
      BY <2>1 DEF Shelve, GateInv, GateTypeOK
    <3> QED BY <2>1, <3>1, FewerKeeps DEF Shelve, GateInv, GateTypeOK
  <2>2. CASE Unshelve(k)
    <3>1. shelved' \in [Quota -> Nat]
      BY <2>2 DEF Unshelve, GateInv, GateTypeOK
    <3>2. CASE Caller = {}
      BY <2>2, <3>1, <3>2, GateAssumption DEF Unshelve, GateInv, GateTypeOK, LockIsHeld,
        AllowedIsAPlans, CountStands, QuotaKept
    <3>3. ASSUME NEW c \in Caller PROVE GateInv'
      BY <2>2, <3>1, UncountedKeeps DEF Unshelve
    <3> QED BY <3>2, <3>3
  <2>3. CASE Discard(k)
    <3>1. shelved' \in [Quota -> Nat] /\ live' \in [Quota -> Nat]
            /\ \A q \in Quota : live'[q] <= live[q]
      BY <2>3 DEF Discard, GateInv, GateTypeOK
    <3> QED BY <2>3, <3>1, FewerKeeps DEF Discard, GateInv, GateTypeOK
  <2> QED BY <1>2, <2>1, <2>2, <2>3 DEF ShelfStep
<1>3. CASE PlanMoves
  <2>1. live' \in [Quota -> Nat] /\ shelved' \in [Quota -> Nat]
          /\ \A q \in Quota : live'[q] <= live[q]
    BY <1>3 DEF PlanMoves, GateInv, GateTypeOK
  <2> QED BY <1>3, <2>1, FewerKeeps DEF PlanMoves
<1>4. CASE UNCHANGED gateVars
  BY <1>4 DEF gateVars, GateInv, GateTypeOK, LockIsHeld, AllowedIsAPlans, CountStands,
    QuotaKept, InTransaction, Asking
<1> QED BY <1>1, <1>2, <1>3, <1>4 DEF GateNext

LEMMA GateAlways == GateSpec => []GateInv
  BY GateInitially, GateStep, PTL DEF GateSpec

(* The state of the gate keeps its type (gate.server.ts:124-147).          *)
THEOREM GateTypes == GateSpec => []GateTypeOK
<1>1. GateInv => GateTypeOK
  BY DEF GateInv
<1> QED BY <1>1, GateAlways, PTL

(***************************************************************************)
(* However many requests race for the last place a plan allows, the rows   *)
(* it counts never pass the plan and what came in uncounted.               *)
(***************************************************************************)
THEOREM NoQuotaPassed == GateSpec => []QuotaKept
<1>1. GateInv => QuotaKept
  BY DEF GateInv
<1> QED BY <1>1, GateAlways, PTL

-----------------------------------------------------------------------------
(* Each part of the desk is a behaviour of its component                   *)

LEMMA DeskHasParts ==
    DeskSpec => /\ LedgerSpec /\ RulesetSpec /\ ApplicationsSpec /\ JobChainsSpec
                /\ GateSpec /\ CustomersSpec /\ LimitsSpec /\ BuyerAgentSpec
                /\ RedactionSpec
<1>1. DeskInit => /\ LedgerInit /\ RulesetInit /\ ApplicationsInit /\ JobChainsInit
                  /\ GateInit /\ CustomersInit /\ LimitsInit /\ BuyerAgentInit
                  /\ RedactionInit
    BY DEF DeskInit
<1>2. [DeskNext]_DeskVars =>
         /\ [LedgerNext]_ledgerState /\ [RulesetNext]_rulesetVars
         /\ [ApplicationsNext]_applicationsVars /\ [JobChainsNext]_jobChainVars
         /\ [GateNext]_gateVars /\ [CustomersNext]_customersVars
         /\ [LimitsNext]_limitsVars /\ [BuyerAgentNext]_agentVars
         /\ [RedactionNext]_redactionVars
    BY DEF DeskNext, DeskVars, LedgerMoves, RulesetMoves, ApplicationsMove, ChainsMove,
        GateMoves, CustomersMove, LimitsMove, AgentTalks, BuyerIsForgotten, EnginesAnswer,
        ReportsAnswer
<1> QED
    BY <1>1, <1>2, PTL DEF DeskSpec, LedgerSpec, RulesetSpec, ApplicationsSpec,
        JobChainsSpec, GateSpec, CustomersSpec, LimitsSpec, BuyerAgentSpec, RedactionSpec

\* What CheckoutStaysAgreed says of the rules and LimitsStayAgreed of the limits,
\* on the same conditions (one request at a time, none killed, none that throws
\* after what it asked was done; for agreement with the rows, none refused), also
\* holds where everything else the staff do is under way.
THEOREM CheckoutStaysTold == DeskSpec => []CheckoutIsTold
BY DeskHasParts, CheckoutStaysAgreed, LimitsStayAgreed, PTL DEF CheckoutIsTold

\* Whatever part of the desk moves, its rows, its queues and the requests at
\* work on it keep their types (the handlers and stores each part models).
THEOREM DeskTypesHold == DeskSpec => []DeskTypesOK
<1>1. DeskSpec => /\ []LedgerTypeOK /\ []RulesetTypeOK /\ []ApplicationsTypeOK
                  /\ []JobChainsTypeOK /\ []GateTypeOK /\ []CustomersTypeOK
                  /\ []LimitsTypeOK /\ []BuyerAgentTypeOK /\ []RedactionTypeOK
    BY DeskHasParts, LedgerTypesHold, RulesetTypesHold, ApplicationTypesHold,
        ChainTypesHold, GateTypes, CustomerTypesHold, LimitTypesHold, AgentTypesHold,
        RedactionTypesHold, PTL
<1>2. /\ LedgerTypeOK /\ RulesetTypeOK /\ ApplicationsTypeOK /\ JobChainsTypeOK
      /\ GateTypeOK /\ CustomersTypeOK /\ LimitsTypeOK /\ BuyerAgentTypeOK
      /\ RedactionTypeOK
      => DeskTypesOK
    BY DEF DeskTypesOK
<1> QED BY <1>1, <1>2, PTL
=============================================================================
