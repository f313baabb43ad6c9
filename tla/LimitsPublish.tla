---------------------------- MODULE LimitsPublish ----------------------------
(***************************************************************************)
(* Order limits on their way to checkout (app/lib/orders/limits.server.ts):*)
(* the rows a merchant saves, the copy the cart validation Function reads  *)
(* from a metafield, and the hash that spares a push of the same set.  A   *)
(* save finds the row of its group, writes, and publishes, one after the   *)
(* other and under no lock; a group that is deleted takes its row along    *)
(* and publishes nothing.                                                  *)
(***************************************************************************)
EXTENDS Integers, Sequences

CONSTANTS
    LimitEditor,    \* requests and jobs that may be at work on the limits
    LimitGroup,     \* customer groups
    LimitBody,      \* what a limit asks
    Strains,        \* sets of what may go wrong in one behaviour
    MaxLimitEdits   \* saves, deletions and plan changes in one behaviour

LimitsAssumption ==
    /\ MaxLimitEdits \in Nat
    /\ Strains \subseteq SUBSET {"overlapped", "refused", "killed"}
ASSUME LimitsAssumption

VARIABLES
    strain,       \* what may go wrong in this behaviour
    entitled,     \* the plan includes order limits
    limitGroups,  \* the groups that exist
    limitRows,    \* the OrderLimit table: id, group or none, body
    atCheckout,   \* the rows in the metafield
    limitsHash,   \* Shop.limitsHash
    limitDesk,    \* what each editor is at, and what it read
    limitEdits    \* edits so far: the next row's id

limitsVars == <<strain, entitled, limitGroups, limitRows, atCheckout,
                limitsHash, limitDesk, limitEdits>>

StoreWide == << >>
Scopes(groups) == {StoreWide} \cup {<<g>> : g \in groups}

LimitRow == [id : 1 .. MaxLimitEdits, group : Scopes(LimitGroup),
             body : LimitBody]

(* A hash that leaves the bodies out.                                      *)
HashOfGroups(rows) == <<{<<r.id, r.group>> : r \in rows}>>
(* The SHA-256 of the payload tells every two sets apart.                  *)
HashOf(rows) == <<rows>>

AtRest == [at |-> "rest"]
Idle(e) == limitDesk[e] = AtRest
At(e, step) == limitDesk[e].at = step

(* Requests overlap only where the behaviour has them overlap.             *)
MayBegin(e) ==
    /\ limitEdits < MaxLimitEdits
    /\ Idle(e)
    /\ "overlapped" \notin strain => \A f \in LimitEditor : Idle(f)

Moves(e, to) == limitDesk' = [limitDesk EXCEPT ![e] = to]

LimitsInit ==
    /\ strain \in Strains
    /\ entitled = TRUE
    /\ limitGroups = LimitGroup
    /\ limitRows = {}
    /\ atCheckout = {}
    /\ limitsHash = << >>
    /\ limitDesk = [e \in LimitEditor |-> AtRest]
    /\ limitEdits = 0

(* The row of this group, if the save finds one: findFirst.                *)
RowsOf(group) == {r \in limitRows : r.group = group}

SaveFinds(e) ==
    \E group \in Scopes(limitGroups), body \in LimitBody :
        /\ MayBegin(e)
        /\ entitled
        /\ \E found \in IF RowsOf(group) = {} THEN {{}}
                       ELSE {{r.id} : r \in RowsOf(group)} :
              Moves(e, [at |-> "found", group |-> group, body |-> body,
                        row |-> found, id |-> limitEdits + 1])
        /\ limitEdits' = limitEdits + 1
        /\ UNCHANGED <<strain, entitled, limitGroups, limitRows, atCheckout,
                       limitsHash>>

(* The unique index holds a second row of one group off, but compares no   *)
(* two nulls: a second store-wide row is let in.                           *)
IndexRefuses(group) == group # StoreWide /\ RowsOf(group) # {}
GroupIsGone(group) == group # StoreWide /\ group[1] \notin limitGroups

(* Updates the row it found, by id, or creates one.  A row that has gone   *)
(* meanwhile, or an index or key that refuses, ends the request.           *)
SaveWrites(e) ==
    LET desk == limitDesk[e]
        mine == {r \in limitRows : r.id \in desk.row}
        made == [id |-> desk.id, group |-> desk.group, body |-> desk.body]
        fails == \/ desk.row # {} /\ mine = {}
                 \/ desk.row = {} /\ (IndexRefuses(desk.group)
                                        \/ GroupIsGone(desk.group))
    IN  /\ At(e, "found")
        /\ IF fails THEN limitRows' = limitRows /\ Moves(e, AtRest)
           ELSE /\ Moves(e, [at |-> "saved"])
                /\ limitRows' =
                     IF desk.row = {} THEN limitRows \cup {made}
                     ELSE (limitRows \ mine)
                            \cup {[r EXCEPT !.body = desk.body] : r \in mine}
        /\ UNCHANGED <<strain, entitled, limitGroups, atCheckout, limitsHash,
                       limitEdits>>

deleteLimit(e) ==
    \E r \in limitRows :
        /\ MayBegin(e)
        /\ limitRows' = limitRows \ {r}
        /\ Moves(e, [at |-> "saved"])
        /\ limitEdits' = limitEdits + 1
        /\ UNCHANGED <<strain, entitled, limitGroups, atCheckout, limitsHash>>

(* A plan that lapses or comes back: the sweep that follows publishes.     *)
PlanMovesLimits(e) ==
    /\ MayBegin(e)
    /\ entitled' = ~entitled
    /\ Moves(e, [at |-> "saved"])
    /\ limitEdits' = limitEdits + 1
    /\ UNCHANGED <<strain, limitGroups, limitRows, atCheckout, limitsHash>>

(***************************************************************************)
(* publishLimits: the shop record with its hash, the rows, the push, the   *)
(* hash.                                                                   *)
(***************************************************************************)
PublishBegins(e) ==
    /\ At(e, "saved")
    /\ Moves(e, [at |-> "rows", hash |-> limitsHash])
    /\ UNCHANGED <<strain, entitled, limitGroups, limitRows, atCheckout,
                   limitsHash, limitEdits>>

PublishReads(e) ==
    LET wanted == IF entitled THEN limitRows ELSE {}
    IN  /\ At(e, "rows")
        /\ Moves(e, IF limitDesk[e].hash = HashOf(wanted) THEN AtRest
                    ELSE [at |-> "push", rows |-> wanted])
        /\ UNCHANGED <<strain, entitled, limitGroups, limitRows, atCheckout,
                       limitsHash, limitEdits>>

PublishPushes(e) ==
    /\ At(e, "push")
    /\ \/ /\ atCheckout' = limitDesk[e].rows
          /\ Moves(e, [limitDesk[e] EXCEPT !.at = "stamp"])
       \/ /\ "refused" \in strain
          /\ Moves(e, AtRest)
          /\ UNCHANGED atCheckout
    /\ UNCHANGED <<strain, entitled, limitGroups, limitRows, limitsHash,
                   limitEdits>>

PublishStamps(e) ==
    /\ At(e, "stamp")
    /\ limitsHash' = HashOf(limitDesk[e].rows)
    /\ Moves(e, AtRest)
    /\ UNCHANGED <<strain, entitled, limitGroups, limitRows, atCheckout,
                   limitEdits>>

(* A kill; or a request that throws after what it asked was done, an answer*)
(* lost at "stamp" among them: nothing here puts anything back.            *)
EditorDies(e) ==
    /\ "killed" \in strain
    /\ ~Idle(e)
    /\ Moves(e, AtRest)
    /\ UNCHANGED <<strain, entitled, limitGroups, limitRows, atCheckout,
                   limitsHash, limitEdits>>

(* The row goes with its group, by the foreign key; nothing is published.  *)
GroupTakesItsLimit(g) ==
    /\ g \in limitGroups
    /\ limitGroups' = limitGroups \ {g}
    /\ limitRows' = limitRows \ RowsOf(<<g>>)
    /\ UNCHANGED <<strain, entitled, atCheckout, limitsHash, limitDesk,
                   limitEdits>>

LimitsNext ==
    \/ \E e \in LimitEditor :
          \/ SaveFinds(e) \/ SaveWrites(e) \/ deleteLimit(e)
          \/ PlanMovesLimits(e) \/ PublishBegins(e) \/ PublishReads(e)
          \/ PublishPushes(e) \/ PublishStamps(e) \/ EditorDies(e)
    \/ \E g \in LimitGroup : GroupTakesItsLimit(g)

LimitsSpec == LimitsInit /\ [][LimitsNext]_limitsVars

(***************************************************************************)
(* Properties                                                              *)
(***************************************************************************)
LimitsTypeOK ==
    /\ strain \in Strains
    /\ entitled \in BOOLEAN
    /\ limitGroups \subseteq LimitGroup
    /\ limitRows \subseteq LimitRow
    /\ atCheckout \subseteq LimitRow
    /\ limitEdits \in 0 .. MaxLimitEdits
    /\ \A e \in LimitEditor :
          limitDesk[e].at \in {"rest", "found", "saved", "rows", "push", "stamp"}

AllAtRest == \A e \in LimitEditor : Idle(e)
OfAGroupThatIs(rows) == {r \in rows : ~GroupIsGone(r.group)}

(* Where no request overlaps another, is killed or throws between its push *)
(* and its stamp, the hash is of what checkout holds, so a push is spared  *)
(* only when it would change nothing; and where none is refused either,    *)
(* carts are held to the rows the plan allows once the last publish is     *)
(* over: publishLimits.  (A group that was deleted is left out: its limit  *)
(* stays at checkout.)                                                     *)
LimitsAgree ==
    AllAtRest /\ strain \subseteq {"refused"} =>
        /\ limitsHash # << >> => limitsHash = HashOf(atCheckout)
        /\ strain = {} /\ limitsHash # << >> =>
             OfAGroupThatIs(atCheckout) = IF entitled THEN limitRows ELSE {}
=============================================================================
