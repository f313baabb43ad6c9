-------------------------- MODULE ApplicationsProofs --------------------------
(***************************************************************************)
(* What runs unattended, for any number of requests, rows and runners: an  *)
(* approval is backed by what it promises (Applications), and the jobs of  *)
(* the shop go on and miss no page (JobChains).                            *)
(*                                                                         *)
(* A chain rests on a row that is still to come (Coming): one that waits,  *)
(* or one whose run has not yet passed the place where it queues the next. *)
(* A backfill rests on its one thread (OneThread), whose pages are those up*)
(* to the cursor (PagesRead).                                              *)
(***************************************************************************)
EXTENDS Applications, JobChains, FiniteSetTheorems, SequenceTheorems, TLAPS

(***************************************************************************)
(* An approval and what it promises                                        *)
(*                                                                         *)
(* While nothing was taken back, what is granted only grows, and a desk    *)
(* has granted what it has passed (Granting).  Where no desk dies or is    *)
(* refused, one that begins a grant finishes it, so with nobody approved   *)
(* nothing is granted but by the desk that is at it (Withheld).  And the   *)
(* evaluator stamps an application before it decides it, so that it never  *)
(* lists it again (Once).                                                  *)
(***************************************************************************)
AppRow == [status: {"NONE", "PENDING", "APPROVED", "REJECTED", "SPAM"},
           form: Form \cup {0}, evaluated: BOOLEAN, undoable: BOOLEAN,
           screening: {"WAITING", "SCREENED", "UNAVAILABLE", "OFF"}]

Approving == {"find", "tag", "make", "mirror", "join", "tell", "approve"}
Undoing == {"undo", "revert", "untell", "restore"}
Places == Approving \cup Undoing \cup {"evaluate", "reject", "block"}

AppTypes ==
    /\ gusts \in Gusts
    /\ apps \in [App -> AppRow]
    /\ shopper \in [exists: BOOLEAN, tagged: BOOLEAN]
    /\ record \in [tagged: BOOLEAN, member: BOOLEAN, approved: BOOLEAN]
    /\ told \in BOOLEAN /\ blocked \in BOOLEAN /\ undone \in BOOLEAN
    /\ visits \in [Visitor -> {OffDesk} \cup [at: {"create", "decide", "screen"}, form: Form]]
    /\ desks \in [Decider -> {OffDesk} \cup [at: Places, app: App]]
    /\ lists \in [Kinds -> {OffDesk} \cup [at: {"run"}, list: SUBSET App]]
    /\ queue \subseteq Kinds /\ asked \in 0 .. MaxAsks /\ autos \in [App -> Nat]

\* The evaluator decides an application once.
Once ==
    /\ \A a \in App : /\ autos[a] <= 1
                      /\ autos[a] = 1 => apps[a].evaluated
                      /\ apps[a].status = "NONE" => autos[a] = 0
    /\ desks[Evaluator].at # "idle" =>
         /\ "decide" \in Kinds
         /\ apps[desks[Evaluator].app].evaluated /\ autos[desks[Evaluator].app] = 0
    /\ "decide" \in Kinds /\ lists["decide"].at = "run" =>
         \A a \in lists["decide"].list : ~apps[a].evaluated /\ apps[a].status # "NONE"

\* What a desk has passed is granted, and it has taken nothing back.
GrantsSo(d) ==
    /\ desks[d].at \notin {"revert", "untell", "restore"}
    /\ desks[d].at \in {"mirror", "join", "tell", "approve"} => shopper.tagged
    /\ desks[d].at \in {"join", "tell", "approve"} => record.tagged
    /\ desks[d].at \in {"tell", "approve"} => record.member /\ record.approved
    /\ desks[d].at = "approve" => told

Granting == (ApprovedApps # {} => Granted) /\ \A d \in Decider : GrantsSo(d)

\* One desk is at work, on an application that is still as it was read.
OneDecides ==
    /\ \A d, e \in Decider : desks[d].at = "idle" \/ desks[e].at = "idle" \/ d = e
    /\ \A d \in Decider :
         desks[d].at \in Approving \cup {"reject"} => apps[desks[d].app].status = "PENDING"

WithholdsSo(d) ==
    /\ desks[d].at \in {"find", "tag", "make", "evaluate", "reject", "block"} =>
         (ApprovedApps = {} => NotGranted)
    /\ desks[d].at \in {"revert", "untell", "restore"} => ~shopper.tagged
    /\ desks[d].at \in {"untell", "restore"} => ~record.member /\ ~record.approved
    /\ desks[d].at = "restore" => ~told
    /\ desks[d].at = "undo" => apps[desks[d].app].status = "APPROVED"

Withheld ==
    /\ NobodyDecides /\ ApprovedApps = {} => NotGranted
    /\ \A d \in Decider : WithholdsSo(d)

DesksHave == \A d \in Decider : desks[d].at # "idle" => apps[desks[d].app].status # "NONE"

AppInv ==
    /\ AppTypes /\ DesksHave /\ Once
    /\ ~undone => Granting
    /\ StillOf({"overlapped"}) => OneDecides
    /\ StillOf({"overlapped", "killed", "refused"}) => Withheld

LEMMA PlacesAre ==
    ASSUME AppTypes, NEW d \in Decider
    PROVE  /\ desks[d] = OffDesk \/ desks[d] \in [at: Places, app: App]
           /\ desks[d].at = "idle" => desks[d] = OffDesk
           /\ desks[d].at # "idle" => desks[d].at \in Places /\ desks[d].app \in App
<1>1. desks[d] \in {OffDesk} \cup [at: Places, app: App]  BY DEF AppTypes
<1>2. "idle" \notin Places  BY DEF Places, Approving, Undoing
<1>. QED  BY <1>1, <1>2 DEF OffDesk

\* A desk that goes on keeps its application.
LEMMA DeskWent ==
    ASSUME AppTypes, NEW d \in Decider, desks[d].at # "idle",
           NEW to \in Places, DeskGoes(d, to)
    PROVE  /\ desks' \in [Decider -> {OffDesk} \cup [at: Places, app: App]]
           /\ desks'[d].at = to /\ desks'[d].app = desks[d].app
           /\ \A e \in Decider \ {d} : desks'[e] = desks[e]
<1>1. desks[d] \in [at: Places, app: App]  BY PlacesAre DEF OffDesk
<1>2. desks \in [Decider -> {OffDesk} \cup [at: Places, app: App]]  BY DEF AppTypes
<1>3. desks' = [desks EXCEPT ![d] = [desks[d] EXCEPT !.at = to]]  BY DEF DeskGoes
<1>4. [desks[d] EXCEPT !.at = to] \in [at: Places, app: App]  BY <1>1
<1>5. desks'[d] = [desks[d] EXCEPT !.at = to]  BY <1>2, <1>3
<1>6. /\ desks' \in [Decider -> {OffDesk} \cup [at: Places, app: App]]
      /\ \A e \in Decider \ {d} : desks'[e] = desks[e]
      BY <1>2, <1>3, <1>4
<1>. QED  BY <1>1, <1>5, <1>6

LEMMA DeskTaken ==
    ASSUME AppTypes, NEW d \in Decider, NEW a \in App,
           NEW to \in Places, DeskBegins(d, a, to)
    PROVE  /\ desks' \in [Decider -> {OffDesk} \cup [at: Places, app: App]]
           /\ desks'[d].at = to /\ desks'[d].app = a
           /\ \A e \in Decider \ {d} : desks'[e] = desks[e]
<1>2. desks \in [Decider -> {OffDesk} \cup [at: Places, app: App]]  BY DEF AppTypes
<1>3. desks' = [desks EXCEPT ![d] = [at |-> to, app |-> a]]  BY DEF DeskBegins
<1>4. [at |-> to, app |-> a] \in [at: Places, app: App]  OBVIOUS
<1>5. desks'[d] = [at |-> to, app |-> a]  BY <1>2, <1>3
<1>6. /\ desks' \in [Decider -> {OffDesk} \cup [at: Places, app: App]]
      /\ \A e \in Decider \ {d} : desks'[e] = desks[e]
      BY <1>2, <1>3, <1>4
<1>. QED  BY <1>5, <1>6

LEMMA DeskLeft ==
    ASSUME AppTypes, NEW d \in Decider, DeskEnds(d)
    PROVE  /\ desks' \in [Decider -> {OffDesk} \cup [at: Places, app: App]]
           /\ desks'[d].at = "idle"
           /\ \A e \in Decider \ {d} : desks'[e] = desks[e]
BY DEF AppTypes, DeskEnds, OffDesk

\* The evaluator's run goes on where it was, and its list only shrinks.
LEMMA OnceKept ==
    ASSUME AppTypes, AppTypes', DesksHave, Once, autos' = autos,
           \A a \in App : /\ apps'[a].status = "NONE" => apps[a].status = "NONE"
                          /\ apps[a].status # "NONE" =>
                                apps'[a].evaluated = apps[a].evaluated,
           desks'[Evaluator].at # "idle" =>
               desks[Evaluator].at # "idle" /\ desks'[Evaluator].app = desks[Evaluator].app,
           "decide" \in Kinds /\ lists'["decide"].at = "run" =>
               \A a \in lists'["decide"].list : ~apps[a].evaluated /\ apps[a].status # "NONE"
    PROVE  Once'
<1>e. Evaluator \in Decider  BY DEF Decider
<1>1. ASSUME NEW a \in App
      PROVE  /\ autos'[a] <= 1 /\ (autos'[a] = 1 => apps'[a].evaluated)
             /\ apps'[a].status = "NONE" => autos'[a] = 0
      <2>1. /\ autos[a] <= 1 /\ (autos[a] = 1 => apps[a].evaluated)
            /\ apps[a].status = "NONE" => autos[a] = 0
            BY DEF Once
      <2>. QED  BY <2>1
<1>2. ASSUME desks'[Evaluator].at # "idle"
      PROVE  /\ "decide" \in Kinds
             /\ apps'[desks'[Evaluator].app].evaluated /\ autos'[desks'[Evaluator].app] = 0
      <2>1. desks[Evaluator].at # "idle" /\ desks'[Evaluator].app = desks[Evaluator].app
            BY <1>2
      <2>2. desks[Evaluator].app \in App  BY <2>1, <1>e, PlacesAre
      <2>3. apps[desks[Evaluator].app].status # "NONE"  BY <2>1, <1>e DEF DesksHave
      <2>4. /\ "decide" \in Kinds
            /\ apps[desks[Evaluator].app].evaluated /\ autos[desks[Evaluator].app] = 0
            BY <2>1 DEF Once
      <2>. QED  BY <2>1, <2>2, <2>3, <2>4
<1>3. ASSUME "decide" \in Kinds, lists'["decide"].at = "run",
             NEW a \in lists'["decide"].list
      PROVE  ~apps'[a].evaluated /\ apps'[a].status # "NONE"
      <2>1. ~apps[a].evaluated /\ apps[a].status # "NONE"  BY <1>3
      <2>2. lists'["decide"] \in {OffDesk} \cup [at: {"run"}, list: SUBSET App]
            BY <1>3 DEF AppTypes
      <2>3. a \in App  BY <1>3, <2>2 DEF OffDesk
      <2>. QED  BY <2>1, <2>3
<1>. QED  BY <1>1, <1>2, <1>3 DEF Once

\* Requests, lists and rows move, and no decision does.
LEMMA CasesMove ==
    ASSUME AppInv, AppTypes', UNCHANGED <<gusts, grantVars, desks, historyVars>>,
           \A a \in App : /\ apps[a].status # "NONE" =>
                                /\ apps'[a].status = apps[a].status
                                /\ apps'[a].evaluated = apps[a].evaluated
                          /\ apps[a].status = "NONE" => apps'[a].status # "APPROVED",
           "decide" \in Kinds /\ lists'["decide"].at = "run" =>
               \A a \in lists'["decide"].list : ~apps[a].evaluated /\ apps[a].status # "NONE"
    PROVE  AppInv'
<1>u. /\ gusts' = gusts /\ shopper' = shopper /\ record' = record /\ told' = told
      /\ desks' = desks /\ autos' = autos /\ undone' = undone
      BY DEF grantVars, historyVars
<1>t. AppTypes /\ DesksHave /\ Once  BY DEF AppInv
<1>a. ApprovedApps' = ApprovedApps  BY DEF ApprovedApps
<1>d. DesksHave'
      <2>1. ASSUME NEW d \in Decider, desks'[d].at # "idle"
            PROVE  apps'[desks'[d].app].status # "NONE"
            <3>1. desks[d].at # "idle" /\ desks'[d].app = desks[d].app  BY <1>u, <2>1
            <3>2. desks[d].app \in App  BY <3>1, <1>t, PlacesAre
            <3>3. apps[desks[d].app].status # "NONE"  BY <3>1, <1>t DEF DesksHave
            <3>. QED  BY <3>1, <3>2, <3>3
      <2>. QED  BY <2>1 DEF DesksHave
<1>o. Once'
      <2>1. \A a \in App : /\ apps'[a].status = "NONE" => apps[a].status = "NONE"
                           /\ apps[a].status # "NONE" =>
                                 apps'[a].evaluated = apps[a].evaluated
            OBVIOUS
      <2>. QED  BY <2>1, <1>t, <1>u, OnceKept
<1>g. ~undone' => Granting'
      BY <1>u, <1>a DEF AppInv, Granting, Granted, GrantsSo
<1>n. StillOf({"overlapped"})' => OneDecides'
      <2>. SUFFICES ASSUME StillOf({"overlapped"}) PROVE OneDecides'
           BY <1>u DEF StillOf
      <2>1. OneDecides  BY DEF AppInv
      <2>2. ASSUME NEW d \in Decider, desks'[d].at \in Approving \cup {"reject"}
            PROVE  apps'[desks'[d].app].status = "PENDING"
            <3>1. desks[d].at \in Approving \cup {"reject"} /\ desks'[d].app = desks[d].app
                  BY <1>u, <2>2
            <3>2. desks[d].at # "idle"  BY <3>1 DEF Approving
            <3>3. desks[d].app \in App  BY <3>2, <1>t, PlacesAre
            <3>4. apps[desks[d].app].status = "PENDING"  BY <2>1, <3>1 DEF OneDecides
            <3>. QED  BY <3>1, <3>3, <3>4
      <2>3. \A d, e \in Decider : desks'[d].at = "idle" \/ desks'[e].at = "idle" \/ d = e
            BY <2>1, <1>u DEF OneDecides
      <2>. QED  BY <2>2, <2>3 DEF OneDecides
<1>w. StillOf({"overlapped", "killed", "refused"})' => Withheld'
      <2>. SUFFICES ASSUME StillOf({"overlapped", "killed", "refused"}) PROVE Withheld'
           BY <1>u DEF StillOf
      <2>1. Withheld  BY DEF AppInv
      <2>2. (NobodyDecides /\ ApprovedApps = {} => NotGranted)'
            BY <2>1, <1>u, <1>a DEF Withheld, NobodyDecides, NotGranted
      <2>3. ASSUME NEW d \in Decider PROVE WithholdsSo(d)'
            <3>1. WithholdsSo(d)  BY <2>1 DEF Withheld
            <3>2. desks[d].at = "undo" => apps'[desks[d].app].status = "APPROVED"
                  <4>. SUFFICES ASSUME desks[d].at = "undo"
                                PROVE  apps'[desks[d].app].status = "APPROVED"
                       OBVIOUS
                  <4>1. desks[d].app \in App  BY <1>t, PlacesAre
                  <4>2. apps[desks[d].app].status = "APPROVED"  BY <3>1 DEF WithholdsSo
                  <4>. QED  BY <4>1, <4>2
            <3>3. (desks[d].at \in {"find", "tag", "make", "evaluate", "reject", "block"} =>
                      (ApprovedApps = {} => NotGranted))'
                  BY <3>1, <1>u, <1>a DEF WithholdsSo, NotGranted
            <3>. QED  BY <3>1, <3>2, <3>3, <1>u DEF WithholdsSo
      <2>. QED  BY <2>2, <2>3 DEF Withheld
<1>. QED  BY <1>d, <1>o, <1>g, <1>n, <1>w DEF AppInv

\* One desk moves.
LEMMA DeskMoves ==
    ASSUME AppInv, AppTypes', Once', gusts' = gusts, NEW d \in Decider,
           \A e \in Decider \ {d} : desks'[e] = desks[e],
           StillOf({"overlapped"}) => desks[d].at # "idle" \/ NobodyDecides,
           \A a \in App : apps[a].status # "NONE" => apps'[a].status # "NONE",
           desks'[d].at # "idle" => apps'[desks'[d].app].status # "NONE",
           ~undone' =>
               /\ ~undone /\ GrantsSo(d)'
               /\ (shopper.tagged => shopper'.tagged) /\ (told => told')
               /\ \A part \in {"tagged", "member", "approved"} : record[part] => record'[part]
               /\ ApprovedApps' # {} => ApprovedApps # {} \/ desks[d].at = "approve",
           StillOf({"overlapped"}) /\ desks'[d].at \in Approving \cup {"reject"} =>
               apps'[desks'[d].app].status = "PENDING",
           StillOf({"overlapped", "killed", "refused"}) =>
               /\ WithholdsSo(d)'
               /\ desks'[d].at = "idle" /\ ApprovedApps' = {} => NotGranted'
    PROVE  AppInv'
<1>t. AppTypes /\ DesksHave /\ Once  BY DEF AppInv
<1>s. \A some : StillOf(some)' = StillOf(some)  BY DEF StillOf
<1>d. DesksHave'
      <2>1. ASSUME NEW e \in Decider, desks'[e].at # "idle", e # d
            PROVE  apps'[desks'[e].app].status # "NONE"
            <3>1. desks'[e] = desks[e]  BY <2>1
            <3>2. desks[e].app \in App  BY <2>1, <3>1, <1>t, PlacesAre
            <3>3. apps[desks[e].app].status # "NONE"  BY <2>1, <3>1, <1>t DEF DesksHave
            <3>. QED  BY <3>1, <3>2, <3>3
      <2>. QED  BY <2>1 DEF DesksHave
<1>g. ~undone' => Granting'
      <2>. SUFFICES ASSUME ~undone' PROVE Granting'  OBVIOUS
      <2>1. ~undone /\ Granting  BY DEF AppInv
      <2>2. \A e \in Decider : GrantsSo(e)  BY <2>1 DEF Granting
      <2>r. /\ record \in [tagged: BOOLEAN, member: BOOLEAN, approved: BOOLEAN]
            /\ record' \in [tagged: BOOLEAN, member: BOOLEAN, approved: BOOLEAN]
            BY <1>t DEF AppTypes
      <2>m. /\ shopper.tagged => shopper'.tagged
            /\ told => told'
            /\ record.tagged => record'.tagged
            /\ record.member => record'.member
            /\ record.approved => record'.approved
            OBVIOUS
      <2>3. ASSUME NEW e \in Decider, e # d PROVE GrantsSo(e)'
            <3>1. desks'[e] = desks[e]  BY <2>3
            <3>. QED  BY <3>1, <2>2, <2>m DEF GrantsSo
      <2>4. ApprovedApps' # {} => Granted'
            <3>. SUFFICES ASSUME ApprovedApps' # {} PROVE Granted'  OBVIOUS
            <3>1. CASE ApprovedApps # {}
                  <4>1. Granted  BY <3>1, <2>1 DEF Granting
                  <4>2. shopper'.tagged /\ told'  BY <4>1, <2>m DEF Granted
                  <4>3. record'.tagged /\ record'.member /\ record'.approved
                        BY <4>1, <2>m DEF Granted
                  <4>. QED  BY <4>2, <4>3, <2>r DEF Granted
            <3>2. CASE desks[d].at = "approve"
                  <4>1. shopper.tagged /\ told /\ record.tagged /\ record.member /\ record.approved
                        BY <3>2, <2>2 DEF GrantsSo
                  <4>2. shopper'.tagged /\ told' /\ record'.tagged /\ record'.member
                            /\ record'.approved
                        BY <4>1, <2>m
                  <4>. QED  BY <4>2, <2>r DEF Granted
            <3>. QED  BY <3>1, <3>2
      <2>5. GrantsSo(d)'  OBVIOUS
      <2>. QED  BY <2>3, <2>4, <2>5 DEF Granting
<1>o. StillOf({"overlapped"}) => \A e \in Decider \ {d} : desks'[e].at = "idle"
      <2>. SUFFICES ASSUME StillOf({"overlapped"}), NEW e \in Decider \ {d}
                    PROVE  desks[e].at = "idle"
           OBVIOUS
      <2>1. OneDecides  BY DEF AppInv
      <2>2. CASE desks[d].at # "idle"  BY <2>1, <2>2 DEF OneDecides
      <2>3. CASE NobodyDecides  BY <2>3 DEF NobodyDecides
      <2>. QED  BY <2>2, <2>3
<1>n. StillOf({"overlapped"})' => OneDecides'
      <2>. SUFFICES ASSUME StillOf({"overlapped"}) PROVE OneDecides'  BY <1>s
      <2>1. \A e \in Decider \ {d} : desks'[e].at = "idle"  BY <1>o
      <2>2. "idle" \notin Approving \cup {"reject"}  BY DEF Approving
      <2>. QED  BY <2>1, <2>2 DEF OneDecides
<1>w. StillOf({"overlapped", "killed", "refused"})' => Withheld'
      <2>. SUFFICES ASSUME StillOf({"overlapped", "killed", "refused"}) PROVE Withheld'
           BY <1>s
      <2>0. StillOf({"overlapped"})  BY DEF StillOf
      <2>1. \A e \in Decider \ {d} : desks'[e].at = "idle"  BY <1>o, <2>0
      <2>2. ASSUME NEW e \in Decider, e # d PROVE WithholdsSo(e)'
            BY <2>1, <2>2 DEF WithholdsSo
      <2>3. (NobodyDecides /\ ApprovedApps = {} => NotGranted)'
            <3>1. desks'[d].at = "idle" /\ ApprovedApps' = {} => NotGranted'  OBVIOUS
            <3>. QED  BY <3>1 DEF NobodyDecides
      <2>. QED  BY <2>2, <2>3 DEF Withheld
<1>. QED  BY <1>t, <1>d, <1>g, <1>n, <1>w DEF AppInv

\* What the rows that move have in common.
LEMMA RowSet ==
    ASSUME AppTypes, NEW a \in App, NEW r \in AppRow, apps' = [apps EXCEPT ![a] = r]
    PROVE  /\ apps' \in [App -> AppRow] /\ apps'[a] = r
           /\ \A b \in App \ {a} : apps'[b] = apps[b]
BY DEF AppTypes

\* A list that is still read is the list that was read, or less of it.
LEMMA ListsAre ==
    ASSUME AppTypes, NEW kind \in Kinds, lists[kind].at = "run"
    PROVE  lists[kind] \in [at: {"run"}, list: SUBSET App]
<1>1. lists[kind] \in {OffDesk} \cup [at: {"run"}, list: SUBSET App]  BY DEF AppTypes
<1>. QED  BY <1>1 DEF OffDesk

LEMMA ListGoesOn ==
    ASSUME AppTypes, NEW kind \in Kinds, lists[kind].at = "run", NEW a, ListPassed(kind, a)
    PROVE  /\ lists' \in [Kinds -> {OffDesk} \cup [at: {"run"}, list: SUBSET App]]
           /\ \A other \in Kinds \ {kind} : lists'[other] = lists[other]
           /\ lists'[kind].at = "run" => lists'[kind].list = lists[kind].list \ {a}
<1>. DEFINE rest == lists[kind].list \ {a}
            new == IF rest = {} THEN OffDesk ELSE [lists[kind] EXCEPT !.list = rest]
<1>1. lists[kind] \in [at: {"run"}, list: SUBSET App]  BY ListsAre
<1>2. lists \in [Kinds -> {OffDesk} \cup [at: {"run"}, list: SUBSET App]]  BY DEF AppTypes
<1>3. lists' = [lists EXCEPT ![kind] = new]  BY DEF ListPassed
<1>4. new \in {OffDesk} \cup [at: {"run"}, list: SUBSET App]  BY <1>1
<1>5. new.at = "run" => new.list = rest
      <2>1. OffDesk.at # "run"  BY DEF OffDesk
      <2>2. [lists[kind] EXCEPT !.list = rest].list = rest  BY <1>1
      <2>. QED  BY <2>1, <2>2
<1>. HIDE DEF new, rest
<1>6. lists'[kind] = new  BY <1>2, <1>3
<1>7. /\ lists' \in [Kinds -> {OffDesk} \cup [at: {"run"}, list: SUBSET App]]
      /\ \A other \in Kinds \ {kind} : lists'[other] = lists[other]
      BY <1>2, <1>3, <1>4
<1>8. lists'[kind].at = "run" => lists'[kind].list = rest  BY <1>5, <1>6
<1>. QED  BY <1>7, <1>8 DEF rest

LEMMA RunListsHold ==
    ASSUME AppInv, "decide" \in Kinds, lists["decide"].at = "run"
    PROVE  \A a \in lists["decide"].list : ~apps[a].evaluated /\ apps[a].status # "NONE"
BY DEF AppInv, Once

\* A case that is made is no decision.
LEMMA NewCases ==
    ASSUME NEW f \in Form, NEW status \in {"PENDING", "REJECTED", "SPAM"}
    PROVE  NewCase(f, status) \in AppRow /\ NewCase(f, status).status # "APPROVED"
BY DEF NewCase, NoApp, AppRow

LEMMA CaseMade ==
    ASSUME AppTypes, NEW f \in Form, NEW status \in {"PENDING", "REJECTED", "SPAM"},
           NEW a \in App, RowMade(a, NewCase(f, status))
    PROVE  /\ apps' \in [App -> AppRow]
           /\ \A b \in App : /\ apps[b].status # "NONE" =>
                                   /\ apps'[b].status = apps[b].status
                                   /\ apps'[b].evaluated = apps[b].evaluated
                             /\ apps[b].status = "NONE" => apps'[b].status # "APPROVED"
<1>1. NewCase(f, status) \in AppRow /\ NewCase(f, status).status # "APPROVED"  BY NewCases
<1>2. apps[a].status = "NONE" /\ apps' = [apps EXCEPT ![a] = NewCase(f, status)]
      BY DEF RowMade
<1>3. /\ apps' \in [App -> AppRow] /\ apps'[a] = NewCase(f, status)
      /\ \A b \in App \ {a} : apps'[b] = apps[b]
      BY <1>1, <1>2, RowSet
<1>. QED  BY <1>1, <1>2, <1>3

LEMMA submitFormKept ==
    ASSUME AppInv, NEW v \in Visitor, NEW f \in Form, submitForm(v, f)
    PROVE  AppInv'
<1>t. AppTypes  BY DEF AppInv
<1>u. UNCHANGED <<gusts, grantVars, blocked, desks, lists, queue, asked, historyVars>>
      BY DEF submitForm
<1>e. /\ gusts' = gusts /\ shopper' = shopper /\ record' = record /\ told' = told
      /\ blocked' = blocked /\ desks' = desks /\ lists' = lists /\ queue' = queue
      /\ asked' = asked /\ autos' = autos /\ undone' = undone
      BY <1>u DEF grantVars, historyVars
<1>1. /\ apps' \in [App -> AppRow]
      /\ visits' \in [Visitor -> {OffDesk} \cup [at: {"create", "decide", "screen"}, form: Form]]
      /\ \A a \in App : /\ apps[a].status # "NONE" =>
                              /\ apps'[a].status = apps[a].status
                              /\ apps'[a].evaluated = apps[a].evaluated
                        /\ apps[a].status = "NONE" => apps'[a].status # "APPROVED"
      <2>1. CASE /\ \E a \in App : RowMade(a, NewCase(f, IF blocked THEN "REJECTED" ELSE "SPAM"))
                 /\ UNCHANGED visits
            <3>1. PICK a \in App : RowMade(a, NewCase(f, IF blocked THEN "REJECTED" ELSE "SPAM"))
                  BY <2>1
            <3>2. PICK status \in {"PENDING", "REJECTED", "SPAM"} : RowMade(a, NewCase(f, status))
                  BY <3>1
            <3>3. visits' = visits  BY <2>1
            <3>. QED  BY <1>t, <3>2, <3>3, CaseMade DEF AppTypes
      <2>2. CASE /\ visits' = [visits EXCEPT ![v] = [at |-> "create", form |-> f]]
                 /\ UNCHANGED apps
            BY <1>t, <2>2 DEF AppTypes
      <2>. QED  BY <2>1, <2>2 DEF submitForm
<1>2. AppTypes'  BY <1>t, <1>e, <1>1 DEF AppTypes
<1>. QED  BY <1>e, <1>u, <1>1, <1>2, CasesMove, RunListsHold

LEMMA SubmissionStoredKept ==
    ASSUME AppInv, NEW v \in Visitor, SubmissionStored(v)
    PROVE  AppInv'
<1>t. AppTypes  BY DEF AppInv
<1>u. UNCHANGED <<gusts, grantVars, blocked, desks, lists, queue, asked, historyVars>>
      BY DEF SubmissionStored
<1>e. /\ gusts' = gusts /\ shopper' = shopper /\ record' = record /\ told' = told
      /\ blocked' = blocked /\ desks' = desks /\ lists' = lists /\ queue' = queue
      /\ asked' = asked /\ autos' = autos /\ undone' = undone
      BY <1>u DEF grantVars, historyVars
<1>v. visits[v] \in [at: {"create", "decide", "screen"}, form: Form]
      BY <1>t DEF AppTypes, SubmissionStored, OffDesk
<1>1. visits' \in [Visitor -> {OffDesk} \cup [at: {"create", "decide", "screen"}, form: Form]]
      BY <1>t, <1>v DEF AppTypes, SubmissionStored
<1>2. PICK a \in App : RowMade(a, NewCase(visits[v].form, "PENDING"))
      BY DEF SubmissionStored
<1>3. PICK f \in Form : f = visits[v].form  BY <1>v
<1>4. /\ apps' \in [App -> AppRow]
      /\ \A b \in App : /\ apps[b].status # "NONE" =>
                              /\ apps'[b].status = apps[b].status
                              /\ apps'[b].evaluated = apps[b].evaluated
                        /\ apps[b].status = "NONE" => apps'[b].status # "APPROVED"
      BY <1>t, <1>2, <1>3, CaseMade
<1>5. AppTypes'  BY <1>t, <1>e, <1>1, <1>4 DEF AppTypes
<1>. QED  BY <1>e, <1>u, <1>4, <1>5, CasesMove, RunListsHold

LEMMA SubmissionQueuedKept ==
    ASSUME AppInv, NEW v \in Visitor, NEW kind \in {"decide", "screen"},
           SubmissionQueued(v, kind)
    PROVE  AppInv'
<1>t. AppTypes  BY DEF AppInv
<1>u. UNCHANGED <<gusts, apps, grantVars, blocked, desks, lists, asked, historyVars>>
      BY DEF SubmissionQueued
<1>e. /\ gusts' = gusts /\ shopper' = shopper /\ record' = record /\ told' = told
      /\ blocked' = blocked /\ desks' = desks /\ lists' = lists /\ apps' = apps
      /\ asked' = asked /\ autos' = autos /\ undone' = undone
      BY <1>u DEF grantVars, historyVars
<1>v. visits[v] \in [at: {"create", "decide", "screen"}, form: Form]
      BY <1>t DEF AppTypes, SubmissionQueued, OffDesk
<1>1. visits' \in [Visitor -> {OffDesk} \cup [at: {"create", "decide", "screen"}, form: Form]]
      BY <1>t, <1>v DEF AppTypes, SubmissionQueued
<1>2. queue' \subseteq Kinds  BY <1>t DEF AppTypes, SubmissionQueued
<1>3. AppTypes'  BY <1>t, <1>e, <1>1, <1>2 DEF AppTypes
<1>4. \A a \in App : apps[a].status = "NONE" => apps[a].status # "APPROVED"  OBVIOUS
<1>. QED  BY <1>e, <1>u, <1>3, <1>4, CasesMove, RunListsHold

LEMMA VisitorKilledKept ==
    ASSUME AppInv, NEW v \in Visitor, VisitorKilled(v)
    PROVE  AppInv'
<1>t. AppTypes  BY DEF AppInv
<1>u. UNCHANGED <<gusts, apps, grantVars, blocked, desks, lists, queue, asked, historyVars>>
      BY DEF VisitorKilled
<1>e. /\ gusts' = gusts /\ shopper' = shopper /\ record' = record /\ told' = told
      /\ blocked' = blocked /\ desks' = desks /\ lists' = lists /\ apps' = apps
      /\ asked' = asked /\ autos' = autos /\ undone' = undone /\ queue' = queue
      BY <1>u DEF grantVars, historyVars
<1>1. visits' \in [Visitor -> {OffDesk} \cup [at: {"create", "decide", "screen"}, form: Form]]
      BY <1>t DEF AppTypes, VisitorKilled
<1>3. AppTypes'  BY <1>t, <1>e, <1>1 DEF AppTypes
<1>4. \A a \in App : apps[a].status = "NONE" => apps[a].status # "APPROVED"  OBVIOUS
<1>. QED  BY <1>e, <1>u, <1>3, <1>4, CasesMove, RunListsHold

LEMMA unblockDomainKept == AppInv /\ unblockDomain => AppInv'
<1>. SUFFICES ASSUME AppInv, unblockDomain PROVE AppInv'  OBVIOUS
<1>t. AppTypes  BY DEF AppInv
<1>u. UNCHANGED <<gusts, apps, grantVars, visits, desks, lists, queue, historyVars>>
      BY DEF unblockDomain
<1>e. /\ gusts' = gusts /\ shopper' = shopper /\ record' = record /\ told' = told
      /\ visits' = visits /\ desks' = desks /\ lists' = lists /\ apps' = apps
      /\ autos' = autos /\ undone' = undone /\ queue' = queue
      BY <1>u DEF grantVars, historyVars
<1>1. asked' \in 0 .. MaxAsks /\ blocked' \in BOOLEAN
      <2>1. asked \in 0 .. MaxAsks  BY <1>t DEF AppTypes
      <2>2. asked < MaxAsks /\ asked' = asked + 1  BY DEF unblockDomain
      <2>3. asked' \in 0 .. MaxAsks  BY <2>1, <2>2, ApplicationsAssumption
      <2>4. blocked' = FALSE  BY DEF unblockDomain
      <2>. QED  BY <2>3, <2>4
<1>3. AppTypes'  BY <1>t, <1>e, <1>1 DEF AppTypes
<1>4. \A a \in App : apps[a].status = "NONE" => apps[a].status # "APPROVED"  OBVIOUS
<1>. QED  BY <1>e, <1>u, <1>3, <1>4, CasesMove, RunListsHold

LEMMA JobReadsKept ==
    ASSUME AppInv, NEW kind \in Kinds, JobReads(kind)
    PROVE  AppInv'
<1>t. AppTypes  BY DEF AppInv
<1>u. UNCHANGED <<gusts, apps, grantVars, blocked, visits, desks, asked, historyVars>>
      BY DEF JobReads
<1>e. /\ gusts' = gusts /\ shopper' = shopper /\ record' = record /\ told' = told
      /\ blocked' = blocked /\ desks' = desks /\ visits' = visits /\ apps' = apps
      /\ asked' = asked /\ autos' = autos /\ undone' = undone
      BY <1>u DEF grantVars, historyVars
<1>1. PICK list \in SUBSET App : ListRead(kind, list)  BY DEF JobReads
<1>2. queue' \subseteq Kinds  BY <1>t, <1>1 DEF AppTypes, ListRead
<1>. DEFINE new == IF list = {} THEN OffDesk ELSE [at |-> "run", list |-> list]
<1>3. lists' = [lists EXCEPT ![kind] = new]  BY <1>1 DEF ListRead
<1>4. new \in {OffDesk} \cup [at: {"run"}, list: SUBSET App]  OBVIOUS
<1>5. new.at = "run" => new.list = list  BY DEF OffDesk
<1>. HIDE DEF new
<1>6. lists \in [Kinds -> {OffDesk} \cup [at: {"run"}, list: SUBSET App]]
      BY <1>t DEF AppTypes
<1>7. /\ lists' \in [Kinds -> {OffDesk} \cup [at: {"run"}, list: SUBSET App]]
      /\ lists'[kind] = new /\ \A other \in Kinds \ {kind} : lists'[other] = lists[other]
      BY <1>3, <1>4, <1>6
<1>8. AppTypes'  BY <1>t, <1>e, <1>2, <1>7 DEF AppTypes
<1>9. ASSUME "decide" \in Kinds, lists'["decide"].at = "run", NEW a \in lists'["decide"].list
      PROVE  ~apps[a].evaluated /\ apps[a].status # "NONE"
      <2>1. CASE kind = "decide"
            <3>1. a \in WaitingFor("decide")  BY <1>1, <1>5, <1>7, <1>9, <2>1 DEF ListRead
            <3>. QED  BY <3>1 DEF WaitingFor
      <2>2. CASE kind # "decide"  BY <1>7, <1>9, <2>2, RunListsHold
      <2>. QED  BY <2>1, <2>2
<1>10. \A a \in App : apps[a].status = "NONE" => apps[a].status # "APPROVED"  OBVIOUS
<1>. QED  BY <1>e, <1>u, <1>8, <1>9, <1>10, CasesMove

LEMMA UndoWindowClosesKept ==
    ASSUME AppInv, NEW a \in App, UndoWindowCloses(a)
    PROVE  AppInv'
<1>t. AppTypes  BY DEF AppInv
<1>e. /\ gusts' = gusts /\ shopper' = shopper /\ record' = record /\ told' = told
      /\ blocked' = blocked /\ desks' = desks /\ visits' = visits /\ lists' = lists
      /\ asked' = asked /\ autos' = autos /\ undone' = undone /\ queue' = queue
      BY DEF UndoWindowCloses, caseVars, grantVars, historyVars
<1>1. apps[a] \in AppRow  BY <1>t DEF AppTypes
<1>2. /\ [apps[a] EXCEPT !.undoable = FALSE] \in AppRow
      /\ [apps[a] EXCEPT !.undoable = FALSE].status = apps[a].status
      /\ [apps[a] EXCEPT !.undoable = FALSE].evaluated = apps[a].evaluated
      BY <1>1 DEF AppRow
<1>3. apps' = [apps EXCEPT ![a] = [apps[a] EXCEPT !.undoable = FALSE]]
      BY DEF UndoWindowCloses
<1>4. /\ apps' \in [App -> AppRow] /\ apps'[a] = [apps[a] EXCEPT !.undoable = FALSE]
      /\ \A b \in App \ {a} : apps'[b] = apps[b]
      BY <1>t, <1>2, <1>3, RowSet
<1>5. AppTypes'  BY <1>t, <1>e, <1>4 DEF AppTypes
<1>6. \A b \in App : apps'[b].status = apps[b].status /\ apps'[b].evaluated = apps[b].evaluated
      BY <1>2, <1>4
<1>7. UNCHANGED <<gusts, grantVars, desks, historyVars>>
      BY DEF UndoWindowCloses, caseVars
<1>. QED  BY <1>e, <1>5, <1>6, <1>7, CasesMove, RunListsHold

LEMMA screenApplicationsKept == AppInv /\ screenApplications => AppInv'
<1>. SUFFICES ASSUME AppInv, screenApplications PROVE AppInv'  OBVIOUS
<1>t. AppTypes  BY DEF AppInv
<1>e. /\ gusts' = gusts /\ shopper' = shopper /\ record' = record /\ told' = told
      /\ blocked' = blocked /\ desks' = desks /\ visits' = visits
      /\ asked' = asked /\ autos' = autos /\ undone' = undone /\ queue' = queue
      BY DEF screenApplications, grantVars, historyVars
<1>k. "screen" \in Kinds /\ lists["screen"].at = "run"  BY DEF screenApplications
<1>l. lists["screen"].list \subseteq App  BY <1>t, <1>k, ListsAre
<1>1. /\ apps' \in [App -> AppRow]
      /\ lists' \in [Kinds -> {OffDesk} \cup [at: {"run"}, list: SUBSET App]]
      /\ \A other \in Kinds \ {"screen"} : lists'[other] = lists[other]
      /\ \A b \in App : apps'[b].status = apps[b].status /\ apps'[b].evaluated = apps[b].evaluated
      <2>r. \A b \in App, s \in {"SCREENED", "UNAVAILABLE", "OFF"} :
                LET r == [apps[b] EXCEPT !.screening = s] IN
                r \in AppRow /\ r.status = apps[b].status /\ r.evaluated = apps[b].evaluated
            BY <1>t DEF AppTypes, AppRow
      <2>1. CASE \E a \in lists["screen"].list, verdict \in {"SCREENED", "UNAVAILABLE"} :
                   apps' = [apps EXCEPT ![a].screening = verdict] /\ ListPassed("screen", a)
            <3>1. PICK a \in lists["screen"].list, verdict \in {"SCREENED", "UNAVAILABLE"} :
                     apps' = [apps EXCEPT ![a].screening = verdict] /\ ListPassed("screen", a)
                  BY <2>1
            <3>2. a \in App /\ apps' = [apps EXCEPT ![a] = [apps[a] EXCEPT !.screening = verdict]]
                  BY <1>l, <3>1
            <3>3. /\ [apps[a] EXCEPT !.screening = verdict] \in AppRow
                  /\ [apps[a] EXCEPT !.screening = verdict].status = apps[a].status
                  /\ [apps[a] EXCEPT !.screening = verdict].evaluated = apps[a].evaluated
                  BY <2>r, <3>2
            <3>4. /\ apps' \in [App -> AppRow]
                  /\ apps'[a] = [apps[a] EXCEPT !.screening = verdict]
                  /\ \A b \in App \ {a} : apps'[b] = apps[b]
                  BY <1>t, <3>2, <3>3, RowSet
            <3>5. \A b \in App : /\ apps'[b].status = apps[b].status
                                 /\ apps'[b].evaluated = apps[b].evaluated
                  BY <3>3, <3>4
            <3>6. /\ lists' \in [Kinds -> {OffDesk} \cup [at: {"run"}, list: SUBSET App]]
                  /\ \A other \in Kinds \ {"screen"} : lists'[other] = lists[other]
                  BY <1>t, <1>k, <3>1, ListGoesOn
            <3>. QED  BY <3>4, <3>5, <3>6
      <2>2. CASE /\ apps' = [a \in App |-> IF a \in lists["screen"].list
                               THEN [apps[a] EXCEPT !.screening = "OFF"] ELSE apps[a]]
                 /\ lists' = [lists EXCEPT !["screen"] = OffDesk]
            <3>1. \A b \in App : apps'[b] = apps[b] \/ apps'[b] = [apps[b] EXCEPT !.screening = "OFF"]
                  BY <2>2
            <3>2. \A b \in App : /\ apps'[b] \in AppRow /\ apps'[b].status = apps[b].status
                                 /\ apps'[b].evaluated = apps[b].evaluated
                  <4>1. \A b \in App : apps[b] \in AppRow  BY <1>t DEF AppTypes
                  <4>. QED  BY <3>1, <2>r, <4>1
            <3>3. apps' \in [App -> AppRow]
                  <4>1. apps' = [a \in App |-> apps'[a]]  BY <2>2
                  <4>. QED  BY <3>2, <4>1
            <3>4. /\ lists' \in [Kinds -> {OffDesk} \cup [at: {"run"}, list: SUBSET App]]
                  /\ \A other \in Kinds \ {"screen"} : lists'[other] = lists[other]
                  BY <1>t, <2>2 DEF AppTypes
            <3>. QED  BY <3>2, <3>3, <3>4
      <2>. QED  BY <2>1, <2>2 DEF screenApplications
<1>2. AppTypes'  BY <1>t, <1>e, <1>1 DEF AppTypes
<1>7. UNCHANGED <<gusts, grantVars, desks, historyVars>>  BY DEF screenApplications
<1>. QED  BY <1>e, <1>1, <1>2, <1>7, CasesMove, RunListsHold

-----------------------------------------------------------------------------
LEMMA AppParts == AppInv => AppTypes /\ DesksHave /\ Once
BY DEF AppInv

LEMMA GrantsAre ==
    ASSUME AppInv, ~undone, NEW d \in Decider
    PROVE  GrantsSo(d)
BY DEF AppInv, Granting

LEMMA WithheldAre ==
    ASSUME AppInv, NEW d \in Decider, StillOf({"overlapped", "killed", "refused"})
    PROVE  WithholdsSo(d)
BY DEF AppInv, Withheld

LEMMA PendingAre ==
    ASSUME AppInv, NEW d \in Decider, StillOf({"overlapped"}),
           desks[d].at \in Approving \cup {"reject"}
    PROVE  apps[desks[d].app].status = "PENDING"
BY DEF AppInv, OneDecides

LEMMA NotAlone ==
    ASSUME StillOf({"overlapped", "killed", "refused"})
    PROVE  StillOf({"overlapped"})
BY DEF StillOf

\* A step of a desk that is at work writes no application.
LEMMA DeskWorks ==
    ASSUME AppInv, NEW d \in Decider, desks[d].at # "idle", NEW to \in Places, DeskGoes(d, to),
           UNCHANGED <<caseVars, apps, blocked, autos>>,
           shopper' \in [exists: BOOLEAN, tagged: BOOLEAN],
           record' \in [tagged: BOOLEAN, member: BOOLEAN, approved: BOOLEAN],
           told' \in BOOLEAN, undone' \in BOOLEAN,
           ~undone' =>
               /\ ~undone /\ GrantsSo(d)'
               /\ (shopper.tagged => shopper'.tagged) /\ (told => told')
               /\ \A part \in {"tagged", "member", "approved"} : record[part] => record'[part],
           to \in Approving \cup {"reject"} =>
               desks[d].at \in Approving \cup {"reject"} \/ apps[desks[d].app].status = "PENDING",
           StillOf({"overlapped", "killed", "refused"}) => WithholdsSo(d)'
    PROVE  AppInv'
<1>t. AppTypes /\ DesksHave /\ Once  BY AppParts
<1>e. /\ gusts' = gusts /\ visits' = visits /\ lists' = lists /\ queue' = queue
      /\ asked' = asked /\ apps' = apps /\ blocked' = blocked /\ autos' = autos
      BY DEF caseVars
<1>d. /\ desks' \in [Decider -> {OffDesk} \cup [at: Places, app: App]]
      /\ desks'[d].at = to /\ desks'[d].app = desks[d].app
      /\ \A e \in Decider \ {d} : desks'[e] = desks[e]
      BY <1>t, DeskWent
<1>i. to # "idle"  BY DEF Places, Approving, Undoing
<1>1. AppTypes'  BY <1>t, <1>e, <1>d DEF AppTypes
<1>2. Once'
      <2>1. Evaluator \in Decider  BY DEF Decider
      <2>2. desks'[Evaluator].at # "idle" =>
                desks[Evaluator].at # "idle" /\ desks'[Evaluator].app = desks[Evaluator].app
            BY <1>d, <2>1
      <2>3. "decide" \in Kinds /\ lists["decide"].at = "run" =>
               \A a \in lists["decide"].list : ~apps[a].evaluated /\ apps[a].status # "NONE"
            BY RunListsHold
      <2>. QED  BY <1>t, <1>1, <1>e, <2>2, <2>3, OnceKept
<1>3. apps[desks[d].app].status # "NONE"  BY <1>t DEF DesksHave
<1>4. ApprovedApps' = ApprovedApps  BY <1>e DEF ApprovedApps
<1>5. ASSUME StillOf({"overlapped"}), desks'[d].at \in Approving \cup {"reject"}
      PROVE  apps'[desks'[d].app].status = "PENDING"
      <2>1. apps[desks[d].app].status = "PENDING"  BY <1>5, <1>d, PendingAre
      <2>. QED  BY <2>1, <1>d, <1>e
<1>. QED  BY <1>1, <1>2, <1>3, <1>4, <1>5, <1>d, <1>e, <1>i, DeskMoves

\* A desk gives up, and writes nothing.
LEMMA DeskGivesUp ==
    ASSUME AppInv, NEW d \in Decider, desks[d].at # "idle", DeskEnds(d),
           UNCHANGED <<gusts, apps, grantVars, visits, asked, historyVars>>, blocked' \in BOOLEAN,
           lists' \in [Kinds -> {OffDesk} \cup [at: {"run"}, list: SUBSET App]],
           queue' \subseteq Kinds,
           "decide" \in Kinds /\ lists'["decide"].at = "run" => lists'["decide"] = lists["decide"],
           StillOf({"overlapped", "killed", "refused"}) => (ApprovedApps = {} => NotGranted)
    PROVE  AppInv'
<1>t. AppTypes /\ DesksHave /\ Once  BY AppParts
<1>e. /\ gusts' = gusts /\ visits' = visits /\ shopper' = shopper /\ record' = record
      /\ told' = told /\ asked' = asked /\ apps' = apps
      /\ autos' = autos /\ undone' = undone
      BY DEF grantVars, historyVars
<1>d. /\ desks' \in [Decider -> {OffDesk} \cup [at: Places, app: App]]
      /\ desks'[d].at = "idle"
      /\ \A e \in Decider \ {d} : desks'[e] = desks[e]
      BY <1>t, DeskLeft
<1>1. AppTypes'  BY <1>t, <1>e, <1>d DEF AppTypes
<1>2. Once'
      <2>1. Evaluator \in Decider  BY DEF Decider
      <2>2. desks'[Evaluator].at # "idle" =>
                desks[Evaluator].at # "idle" /\ desks'[Evaluator].app = desks[Evaluator].app
            BY <1>d, <2>1
      <2>3. "decide" \in Kinds /\ lists'["decide"].at = "run" =>
               \A a \in lists'["decide"].list : ~apps[a].evaluated /\ apps[a].status # "NONE"
            BY RunListsHold
      <2>. QED  BY <1>t, <1>1, <1>e, <2>2, <2>3, OnceKept
<1>4. ApprovedApps' = ApprovedApps  BY <1>e DEF ApprovedApps
<1>5. "idle" \notin Approving \cup {"reject"}  BY DEF Approving
<1>6. GrantsSo(d)' /\ WithholdsSo(d)'  BY <1>d DEF GrantsSo, WithholdsSo
<1>7. NotGranted' = NotGranted  BY <1>e DEF NotGranted
<1>. QED  BY <1>1, <1>2, <1>4, <1>5, <1>6, <1>7, <1>d, <1>e, DeskMoves

LEMMA findCustomerByEmailKept ==
    ASSUME AppInv, NEW d \in Decider, findCustomerByEmail(d)
    PROVE  AppInv'
<1>. DEFINE to == IF shopper.exists THEN "tag" ELSE "make"
<1>t. AppTypes  BY AppParts
<1>e. /\ apps' = apps /\ shopper' = shopper /\ record' = record /\ told' = told
      /\ undone' = undone /\ desks[d].at = "find" /\ DeskGoes(d, to)
      BY DEF findCustomerByEmail, grantVars, historyVars
<1>u. UNCHANGED <<caseVars, apps, blocked, autos>>
      BY DEF findCustomerByEmail, historyVars
<1>1. to \in {"tag", "make"}  OBVIOUS
<1>. HIDE DEF to
<1>2. to \in Places  BY <1>1 DEF Places, Approving
<1>3. desks'[d].at = to  BY <1>t, <1>e, <1>2, DeskWent
<1>4. GrantsSo(d)'  BY <1>1, <1>3 DEF GrantsSo
<1>5. ~undone' => ~undone /\ GrantsSo(d)'  BY <1>4, <1>e
<1>6. ASSUME StillOf({"overlapped", "killed", "refused"}) PROVE WithholdsSo(d)'
      <2>1. WithholdsSo(d)  BY <1>6, WithheldAre
      <2>2. ApprovedApps = {} => NotGranted  BY <2>1, <1>e DEF WithholdsSo
      <2>3. (ApprovedApps = {} => NotGranted)'
            BY <2>2, <1>e DEF ApprovedApps, NotGranted
      <2>. QED  BY <2>3, <1>1, <1>3 DEF WithholdsSo
<1>7. desks[d].at \in Approving  BY <1>e DEF Approving
<1>8. /\ shopper' \in [exists: BOOLEAN, tagged: BOOLEAN]
      /\ record' \in [tagged: BOOLEAN, member: BOOLEAN, approved: BOOLEAN]
      /\ told' \in BOOLEAN /\ undone' \in BOOLEAN
      BY <1>t, <1>e DEF AppTypes
<1>9. desks[d].at # "idle"  BY <1>e
<1>. QED  BY <1>e, <1>u, <1>2, <1>5, <1>6, <1>7, <1>8, <1>9, DeskWorks

LEMMA applyTagsKept ==
    ASSUME AppInv, NEW d \in Decider, applyTags(d)
    PROVE  AppInv'
<1>t. AppTypes  BY AppParts
<1>e. /\ apps' = apps /\ shopper' = [exists |-> TRUE, tagged |-> TRUE]
      /\ record' = record /\ told' = told
      /\ undone' = undone /\ desks[d].at \in {"tag", "make"} /\ DeskGoes(d, "mirror")
      BY DEF applyTags, historyVars
<1>u. UNCHANGED <<caseVars, apps, blocked, autos>>
      BY DEF applyTags, historyVars
<1>2. "mirror" \in Places  BY DEF Places, Approving
<1>3. desks'[d].at = "mirror"  BY <1>t, <1>e, <1>2, DeskWent
<1>s. shopper'.tagged  BY <1>e
<1>4. GrantsSo(d)'  BY <1>3, <1>s DEF GrantsSo
<1>5. ~undone' => ~undone /\ GrantsSo(d)'  BY <1>4, <1>e
<1>6. WithholdsSo(d)'  BY <1>3 DEF WithholdsSo
<1>7. desks[d].at \in Approving  BY <1>e DEF Approving
<1>8. /\ shopper' \in [exists: BOOLEAN, tagged: BOOLEAN]
      /\ record' \in [tagged: BOOLEAN, member: BOOLEAN, approved: BOOLEAN]
      /\ told' \in BOOLEAN /\ undone' \in BOOLEAN
      BY <1>t, <1>e DEF AppTypes
<1>9. desks[d].at # "idle"  BY <1>e
<1>. QED  BY <1>e, <1>s, <1>u, <1>2, <1>5, <1>6, <1>7, <1>8, <1>9, DeskWorks

LEMMA MirrorCustomerKept ==
    ASSUME AppInv, NEW d \in Decider, MirrorCustomer(d)
    PROVE  AppInv'
<1>t. AppTypes  BY AppParts
<1>e. /\ apps' = apps /\ shopper' = shopper
      /\ record' = [record EXCEPT !.tagged = TRUE] /\ told' = told
      /\ undone' = undone /\ desks[d].at = "mirror" /\ DeskGoes(d, "join")
      BY DEF MirrorCustomer, historyVars
<1>u. UNCHANGED <<caseVars, apps, blocked, autos>>
      BY DEF MirrorCustomer, historyVars
<1>2. "join" \in Places  BY DEF Places, Approving
<1>3. desks'[d].at = "join"  BY <1>t, <1>e, <1>2, DeskWent
<1>8. /\ shopper' \in [exists: BOOLEAN, tagged: BOOLEAN]
      /\ record' \in [tagged: BOOLEAN, member: BOOLEAN, approved: BOOLEAN]
      /\ told' \in BOOLEAN /\ undone' \in BOOLEAN
      BY <1>t, <1>e DEF AppTypes
<1>r. /\ record'.tagged
      /\ \A part \in {"tagged", "member", "approved"} : record[part] => record'[part]
      BY <1>t, <1>e DEF AppTypes
<1>5. ASSUME ~undone' PROVE ~undone /\ GrantsSo(d)'
      <2>1. shopper.tagged  BY <1>5, <1>e, GrantsAre DEF GrantsSo
      <2>. QED  BY <2>1, <1>5, <1>3, <1>e, <1>r DEF GrantsSo
<1>6. WithholdsSo(d)'  BY <1>3 DEF WithholdsSo
<1>7. desks[d].at \in Approving  BY <1>e DEF Approving
<1>9. desks[d].at # "idle"  BY <1>e
<1>. QED  BY <1>e, <1>r, <1>u, <1>2, <1>5, <1>6, <1>7, <1>8, <1>9, DeskWorks

LEMMA JoinsGroupKept ==
    ASSUME AppInv, NEW d \in Decider, JoinsGroup(d)
    PROVE  AppInv'
<1>t. AppTypes  BY AppParts
<1>e. /\ apps' = apps /\ shopper' = shopper
      /\ record' = [record EXCEPT !.member = TRUE, !.approved = TRUE] /\ told' = told
      /\ undone' = undone /\ desks[d].at = "join" /\ DeskGoes(d, "tell")
      BY DEF JoinsGroup, historyVars
<1>u. UNCHANGED <<caseVars, apps, blocked, autos>>
      BY DEF JoinsGroup, historyVars
<1>2. "tell" \in Places  BY DEF Places, Approving
<1>3. desks'[d].at = "tell"  BY <1>t, <1>e, <1>2, DeskWent
<1>8. /\ shopper' \in [exists: BOOLEAN, tagged: BOOLEAN]
      /\ record' \in [tagged: BOOLEAN, member: BOOLEAN, approved: BOOLEAN]
      /\ told' \in BOOLEAN /\ undone' \in BOOLEAN
      BY <1>t, <1>e DEF AppTypes
<1>r. /\ record'.tagged = record.tagged /\ record'.member /\ record'.approved
      /\ \A part \in {"tagged", "member", "approved"} : record[part] => record'[part]
      BY <1>t, <1>e DEF AppTypes
<1>5. ASSUME ~undone' PROVE ~undone /\ GrantsSo(d)'
      <2>1. shopper.tagged /\ record.tagged  BY <1>5, <1>e, GrantsAre DEF GrantsSo
      <2>. QED  BY <2>1, <1>5, <1>3, <1>e, <1>r DEF GrantsSo
<1>6. WithholdsSo(d)'  BY <1>3 DEF WithholdsSo
<1>7. desks[d].at \in Approving  BY <1>e DEF Approving
<1>9. desks[d].at # "idle"  BY <1>e
<1>. QED  BY <1>e, <1>r, <1>u, <1>2, <1>5, <1>6, <1>7, <1>8, <1>9, DeskWorks

LEMMA publishBuyerTermsKept ==
    ASSUME AppInv, NEW d \in Decider, publishBuyerTerms(d)
    PROVE  AppInv'
<1>. DEFINE to == IF desks[d].at = "tell" THEN "approve" ELSE "restore"
<1>t. AppTypes  BY AppParts
<1>e. /\ apps' = apps /\ shopper' = shopper /\ record' = record
      /\ undone' = undone /\ desks[d].at \in {"tell", "untell"} /\ DeskGoes(d, to)
      BY DEF publishBuyerTerms, historyVars
<1>b. told' = (desks[d].at = "tell")  BY DEF publishBuyerTerms
<1>u. UNCHANGED <<caseVars, apps, blocked, autos>>
      BY DEF publishBuyerTerms, historyVars
<1>1. /\ desks[d].at = "tell" => to = "approve"
      /\ desks[d].at # "tell" => to = "restore"
      OBVIOUS
<1>. HIDE DEF to
<1>2. to \in Places  BY <1>1 DEF Places, Approving, Undoing
<1>3. desks'[d].at = to  BY <1>t, <1>e, <1>2, DeskWent
<1>c. told' \in BOOLEAN  BY <1>b
<1>8. /\ shopper' \in [exists: BOOLEAN, tagged: BOOLEAN]
      /\ record' \in [tagged: BOOLEAN, member: BOOLEAN, approved: BOOLEAN]
      /\ undone' \in BOOLEAN
      BY <1>t, <1>e DEF AppTypes
<1>5. ASSUME ~undone' PROVE ~undone /\ GrantsSo(d)' /\ told'
      <2>1. GrantsSo(d) /\ ~undone  BY <1>5, <1>e, GrantsAre
      <2>2. desks[d].at = "tell"  BY <2>1, <1>e DEF GrantsSo
      <2>3. told'  BY <2>2, <1>b
      <2>4. shopper.tagged /\ record.tagged /\ record.member /\ record.approved
            BY <2>1, <2>2 DEF GrantsSo
      <2>. QED  BY <2>1, <2>2, <2>3, <2>4, <1>3, <1>1, <1>e DEF GrantsSo
<1>6. ASSUME StillOf({"overlapped", "killed", "refused"}) PROVE WithholdsSo(d)'
      <2>1. CASE desks[d].at = "tell"  BY <2>1, <1>1, <1>3 DEF WithholdsSo
      <2>2. CASE desks[d].at = "untell"
            <3>1. ~shopper.tagged /\ ~record.member /\ ~record.approved
                  BY <1>6, <2>2, WithheldAre DEF WithholdsSo
            <3>2. ~told'  BY <1>b, <2>2
            <3>. QED  BY <3>1, <3>2, <2>2, <1>1, <1>3, <1>e DEF WithholdsSo
      <2>. QED  BY <2>1, <2>2, <1>e
<1>7. to \in Approving \cup {"reject"} => desks[d].at \in Approving
      BY <1>1 DEF Approving
<1>9. desks[d].at # "idle"  BY <1>e
<1>. QED  BY <1>e, <1>c, <1>u, <1>2, <1>5, <1>6, <1>7, <1>8, <1>9, DeskWorks

LEMMA TakeBackTagsKept ==
    ASSUME AppInv, NEW d \in Decider, TakeBackTags(d)
    PROVE  AppInv'
<1>t. AppTypes  BY AppParts
<1>e. /\ apps' = apps /\ shopper' = [shopper EXCEPT !.tagged = FALSE]
      /\ record' = record /\ told' = told
      /\ undone' = TRUE /\ desks[d].at = "undo" /\ DeskGoes(d, "revert")
      BY DEF TakeBackTags
<1>u. UNCHANGED <<caseVars, apps, blocked, autos>>
      BY DEF TakeBackTags
<1>2. "revert" \in Places /\ "revert" \notin Approving \cup {"reject"}
      BY DEF Places, Approving, Undoing
<1>3. desks'[d].at = "revert"  BY <1>t, <1>e, <1>2, DeskWent
<1>8. /\ shopper' \in [exists: BOOLEAN, tagged: BOOLEAN] /\ ~shopper'.tagged
      /\ record' \in [tagged: BOOLEAN, member: BOOLEAN, approved: BOOLEAN]
      /\ told' \in BOOLEAN /\ undone' \in BOOLEAN
      BY <1>t, <1>e DEF AppTypes
<1>6. WithholdsSo(d)'  BY <1>3, <1>8 DEF WithholdsSo
<1>9. desks[d].at # "idle"  BY <1>e
<1>. QED  BY <1>e, <1>u, <1>2, <1>6, <1>8, <1>9, DeskWorks

LEMMA RevertedKept ==
    ASSUME AppInv, NEW d \in Decider, Reverted(d)
    PROVE  AppInv'
<1>t. AppTypes  BY AppParts
<1>e. /\ apps' = apps /\ shopper' = shopper
      /\ record' = [tagged |-> FALSE, member |-> FALSE, approved |-> FALSE]
      /\ told' = told /\ undone' = undone
      /\ desks[d].at = "revert" /\ DeskGoes(d, "untell")
      BY DEF Reverted, historyVars
<1>u. UNCHANGED <<caseVars, apps, blocked, autos>>
      BY DEF Reverted, historyVars
<1>2. "untell" \in Places /\ "untell" \notin Approving \cup {"reject"}
      BY DEF Places, Approving, Undoing
<1>3. desks'[d].at = "untell"  BY <1>t, <1>e, <1>2, DeskWent
<1>8. /\ shopper' \in [exists: BOOLEAN, tagged: BOOLEAN]
      /\ record' \in [tagged: BOOLEAN, member: BOOLEAN, approved: BOOLEAN]
      /\ told' \in BOOLEAN /\ undone' \in BOOLEAN
      BY <1>t, <1>e DEF AppTypes
<1>5. undone'
      <2>1. CASE ~undone  BY <2>1, <1>e, GrantsAre DEF GrantsSo
      <2>. QED  BY <2>1, <1>e
<1>6. ASSUME StillOf({"overlapped", "killed", "refused"}) PROVE WithholdsSo(d)'
      <2>1. ~shopper.tagged  BY <1>6, <1>e, WithheldAre DEF WithholdsSo
      <2>. QED  BY <2>1, <1>3, <1>e DEF WithholdsSo
<1>9. desks[d].at # "idle"  BY <1>e
<1>. QED  BY <1>e, <1>u, <1>2, <1>5, <1>6, <1>8, <1>9, DeskWorks

\* Every desk ends on what it has withheld.
LEMMA blockDomainKept ==
    ASSUME AppInv, NEW d \in Decider, blockDomain(d)
    PROVE  AppInv'
<1>t. AppTypes  BY AppParts
<1>e. desks[d].at = "block" /\ blocked' = TRUE /\ DeskEnds(d)  BY DEF blockDomain
<1>c. lists' = lists /\ queue' = queue  BY DEF blockDomain, caseVars
<1>u. UNCHANGED <<gusts, apps, grantVars, visits, asked, historyVars>>
      BY DEF blockDomain, caseVars
<1>1. ASSUME StillOf({"overlapped", "killed", "refused"}) PROVE ApprovedApps = {} => NotGranted
      BY <1>1, <1>e, WithheldAre DEF WithholdsSo
<1>2. blocked' \in BOOLEAN /\ desks[d].at # "idle"  BY <1>e
<1>3. /\ lists' \in [Kinds -> {OffDesk} \cup [at: {"run"}, list: SUBSET App]]
      /\ queue' \subseteq Kinds
      BY <1>t, <1>c DEF AppTypes
<1>. QED  BY <1>e, <1>c, <1>u, <1>1, <1>2, <1>3, DeskGivesUp

LEMMA DecisionRefusedKept ==
    ASSUME AppInv, NEW d \in Decider, DecisionRefused(d)
    PROVE  AppInv'
<1>t. AppTypes  BY AppParts
<1>e. desks[d].at # "idle" /\ DeskEnds(d)  BY DEF DecisionRefused
<1>c. lists' = lists /\ queue' = queue /\ blocked' = blocked  BY DEF DecisionRefused, caseVars
<1>u. UNCHANGED <<gusts, apps, grantVars, visits, asked, historyVars>>
      BY DEF DecisionRefused, caseVars
<1>1. ~StillOf({"overlapped", "killed", "refused"})  BY DEF DecisionRefused, StillOf
<1>3. /\ lists' \in [Kinds -> {OffDesk} \cup [at: {"run"}, list: SUBSET App]]
      /\ queue' \subseteq Kinds /\ blocked' \in BOOLEAN
      BY <1>t, <1>c DEF AppTypes
<1>. QED  BY <1>e, <1>c, <1>u, <1>1, <1>3, DeskGivesUp

LEMMA DeskKilledKept ==
    ASSUME AppInv, NEW d \in Decider, DeskKilled(d)
    PROVE  AppInv'
<1>t. AppTypes /\ Once  BY AppParts
<1>e. desks[d].at # "idle" /\ DeskEnds(d) /\ blocked' = blocked  BY DEF DeskKilled
<1>u. UNCHANGED <<gusts, apps, grantVars, visits, asked, historyVars>>
      BY DEF DeskKilled
<1>1. ~StillOf({"overlapped", "killed", "refused"})  BY DEF DeskKilled, StillOf
<1>2. blocked' \in BOOLEAN  BY <1>t, <1>e DEF AppTypes
<1>3. /\ lists' \in [Kinds -> {OffDesk} \cup [at: {"run"}, list: SUBSET App]]
      /\ queue' \subseteq Kinds
      /\ "decide" \in Kinds /\ lists'["decide"].at = "run" => lists'["decide"] = lists["decide"]
      <2>0. /\ lists \in [Kinds -> {OffDesk} \cup [at: {"run"}, list: SUBSET App]]
            /\ queue \subseteq Kinds
            BY <1>t DEF AppTypes
      <2>1. CASE d = Evaluator
            <3>1. "decide" \in Kinds  BY <1>t, <1>e, <2>1 DEF Once
            <3>2. /\ lists' = [lists EXCEPT !["decide"] = OffDesk]
                  /\ queue' = queue \cup {"decide"}
                  BY <2>1 DEF DeskKilled
            <3>. QED  BY <2>0, <3>1, <3>2 DEF OffDesk
      <2>2. CASE d # Evaluator
            <3>1. lists' = lists /\ queue' = queue  BY <2>2 DEF DeskKilled
            <3>. QED  BY <2>0, <3>1
      <2>. QED  BY <2>1, <2>2
<1>. QED  BY <1>e, <1>u, <1>1, <1>2, <1>3, DeskGivesUp

LEMMA decideOnArrivalKept == AppInv /\ decideOnArrival => AppInv'
<1>. SUFFICES ASSUME AppInv, decideOnArrival PROVE AppInv'  OBVIOUS
<1>t. AppTypes  BY AppParts
<1>v. Evaluator \in Decider  BY DEF Decider
<1>e. desks[Evaluator].at = "evaluate" /\ desks[Evaluator].at # "idle"  BY DEF decideOnArrival
<1>c. /\ gusts' = gusts /\ lists' = lists /\ queue' = queue /\ blocked' = blocked
      /\ apps' = apps /\ shopper' = shopper /\ record' = record /\ told' = told
      /\ undone' = undone
      BY DEF decideOnArrival, caseVars, grantVars, historyVars
<1>8. /\ lists' \in [Kinds -> {OffDesk} \cup [at: {"run"}, list: SUBSET App]]
      /\ queue' \subseteq Kinds /\ blocked' \in BOOLEAN
      /\ shopper' \in [exists: BOOLEAN, tagged: BOOLEAN]
      /\ record' \in [tagged: BOOLEAN, member: BOOLEAN, approved: BOOLEAN]
      /\ told' \in BOOLEAN /\ undone' \in BOOLEAN
      BY <1>t, <1>c DEF AppTypes
<1>w. ASSUME StillOf({"overlapped", "killed", "refused"}) PROVE ApprovedApps = {} => NotGranted
      BY <1>w, <1>e, <1>v, WithheldAre DEF WithholdsSo
<1>1. CASE /\ apps[desks[Evaluator].app].status = "PENDING"
           /\ \E to \in {"find", "reject"} : DeskGoes(Evaluator, to)
      <2>1. PICK to \in {"find", "reject"} : DeskGoes(Evaluator, to)  BY <1>1
      <2>2. to \in Places  BY DEF Places, Approving
      <2>3. desks'[Evaluator].at = to  BY <1>t, <1>e, <1>v, <2>1, <2>2, DeskWent
      <2>4. GrantsSo(Evaluator)'  BY <2>3 DEF GrantsSo
      <2>5. ASSUME StillOf({"overlapped", "killed", "refused"}) PROVE WithholdsSo(Evaluator)'
            <3>1. (ApprovedApps = {} => NotGranted)'
                  BY <1>w, <2>5, <1>c DEF ApprovedApps, NotGranted
            <3>. QED  BY <3>1, <2>3 DEF WithholdsSo
      <2>6. UNCHANGED <<caseVars, apps, blocked, autos>>
            BY DEF decideOnArrival, historyVars
      <2>7. ~undone' => ~undone /\ GrantsSo(Evaluator)'  BY <2>4, <1>c
      <2>. QED  BY <1>1, <1>v, <1>e, <1>c, <1>8, <2>1, <2>2, <2>5, <2>6, <2>7, DeskWorks
<1>2. CASE DeskEnds(Evaluator)
      <2>1. UNCHANGED <<gusts, apps, grantVars, visits, asked, historyVars>>
            BY DEF decideOnArrival, caseVars
      <2>. QED  BY <1>2, <1>v, <1>e, <1>c, <1>8, <1>w, <2>1, DeskGivesUp
<1>. QED  BY <1>1, <1>2 DEF decideOnArrival

\* The application that is written is written by id, and by one desk.
LEMMA DeskWrites ==
    ASSUME AppInv, NEW d \in Decider, desks[d].at # "idle",
           NEW r \in AppRow, apps' = [apps EXCEPT ![desks[d].app] = r],
           r.status # "NONE", r.evaluated = apps[desks[d].app].evaluated
    PROVE  /\ apps' \in [App -> AppRow] /\ desks[d].app \in App /\ apps'[desks[d].app] = r
           /\ \A b \in App \ {desks[d].app} : apps'[b] = apps[b]
           /\ \A b \in App : apps[b].status # "NONE" => apps'[b].status # "NONE"
           /\ \A b \in App : /\ apps'[b].status = "NONE" => apps[b].status = "NONE"
                             /\ apps[b].status # "NONE" =>
                                   apps'[b].evaluated = apps[b].evaluated
<1>1. AppTypes /\ DesksHave  BY AppParts
<1>2. desks[d].app \in App  BY <1>1, PlacesAre
<1>3. apps[desks[d].app].status # "NONE"  BY <1>1 DEF DesksHave
<1>4. /\ apps' \in [App -> AppRow] /\ apps'[desks[d].app] = r
      /\ \A b \in App \ {desks[d].app} : apps'[b] = apps[b]
      BY <1>1, <1>2, RowSet
<1>. QED  BY <1>2, <1>3, <1>4

LEMMA AppIs ==
    ASSUME AppInv, NEW d \in Decider, desks[d].at # "idle"
    PROVE  apps[desks[d].app] \in AppRow
<1>1. AppTypes  BY AppParts
<1>2. desks[d].app \in App  BY <1>1, PlacesAre
<1>. QED  BY <1>1, <1>2 DEF AppTypes

LEMMA undoApprovalKept ==
    ASSUME AppInv, NEW d \in Decider, undoApproval(d)
    PROVE  AppInv'
<1>t. AppTypes /\ DesksHave /\ Once  BY AppParts
<1>. DEFINE r == [apps[desks[d].app] EXCEPT !.status = "PENDING", !.undoable = FALSE]
<1>e. /\ gusts' = gusts /\ visits' = visits /\ lists' = lists /\ queue' = queue
      /\ asked' = asked /\ blocked' = blocked /\ autos' = autos
      /\ shopper' = shopper /\ record' = record /\ told' = told /\ undone' = undone
      BY DEF undoApproval, caseVars, grantVars, historyVars
<1>s. desks[d].at = "restore" /\ desks[d].at # "idle" /\ DeskEnds(d)  BY DEF undoApproval
<1>0. apps[desks[d].app] \in AppRow  BY <1>s, AppIs
<1>1. r \in AppRow /\ r.status = "PENDING" /\ r.evaluated = apps[desks[d].app].evaluated
      BY <1>0 DEF AppRow
<1>2. apps' = [apps EXCEPT ![desks[d].app] = r]
      <2>1. apps' = [apps EXCEPT ![desks[d].app].status = "PENDING",
                                 ![desks[d].app].undoable = FALSE]
            BY DEF undoApproval
      <2>2. desks[d].app \in App  BY <1>t, <1>s, PlacesAre
      <2>. QED  BY <2>1, <2>2, <1>t DEF AppTypes
<1>. HIDE DEF r
<1>w. /\ apps' \in [App -> AppRow] /\ desks[d].app \in App /\ apps'[desks[d].app] = r
      /\ \A b \in App \ {desks[d].app} : apps'[b] = apps[b]
      /\ \A b \in App : apps[b].status # "NONE" => apps'[b].status # "NONE"
      /\ \A b \in App : /\ apps'[b].status = "NONE" => apps[b].status = "NONE"
                        /\ apps[b].status # "NONE" => apps'[b].evaluated = apps[b].evaluated
      <2>1. r.status # "NONE"  BY <1>1
      <2>. QED  BY <1>1, <1>2, <1>s, <2>1, DeskWrites
<1>d. /\ desks' \in [Decider -> {OffDesk} \cup [at: Places, app: App]]
      /\ desks'[d].at = "idle"
      /\ \A e \in Decider \ {d} : desks'[e] = desks[e]
      BY <1>t, <1>s, DeskLeft
<1>3. AppTypes'  BY <1>t, <1>e, <1>d, <1>w DEF AppTypes
<1>4. Once'
      <2>1. Evaluator \in Decider  BY DEF Decider
      <2>2. desks'[Evaluator].at # "idle" =>
                desks[Evaluator].at # "idle" /\ desks'[Evaluator].app = desks[Evaluator].app
            BY <1>d, <2>1
      <2>3. "decide" \in Kinds /\ lists'["decide"].at = "run" =>
               \A a \in lists'["decide"].list : ~apps[a].evaluated /\ apps[a].status # "NONE"
            BY RunListsHold, <1>e
      <2>. QED  BY <1>t, <1>3, <1>e, <1>w, <2>2, <2>3, OnceKept
<1>5. undone'
      <2>1. CASE ~undone  BY <2>1, <1>s, GrantsAre DEF GrantsSo
      <2>. QED  BY <2>1, <1>e
<1>6. "idle" \notin Approving \cup {"reject"}  BY DEF Approving
<1>7. WithholdsSo(d)'  BY <1>d DEF WithholdsSo
<1>8. ASSUME StillOf({"overlapped", "killed", "refused"}) PROVE NotGranted'
      <2>1. ~shopper.tagged /\ ~record.member /\ ~record.approved /\ ~told
            BY <1>8, <1>s, WithheldAre DEF WithholdsSo
      <2>. QED  BY <2>1, <1>e DEF NotGranted
<1>. QED  BY <1>3, <1>4, <1>5, <1>6, <1>7, <1>8, <1>d, <1>e, <1>s, <1>w, DeskMoves

LEMMA rejectSubmissionKept ==
    ASSUME AppInv, NEW d \in Decider, rejectSubmission(d)
    PROVE  AppInv'
<1>t. AppTypes /\ DesksHave /\ Once  BY AppParts
<1>. DEFINE r == [apps[desks[d].app] EXCEPT !.status = "REJECTED"]
<1>e. /\ gusts' = gusts /\ visits' = visits /\ lists' = lists /\ queue' = queue
      /\ asked' = asked /\ blocked' = blocked /\ autos' = autos
      /\ shopper' = shopper /\ record' = record /\ told' = told /\ undone' = undone
      BY DEF rejectSubmission, caseVars, grantVars, historyVars
<1>s. desks[d].at = "reject" /\ desks[d].at # "idle"  BY DEF rejectSubmission
<1>0. apps[desks[d].app] \in AppRow  BY <1>s, AppIs
<1>1. r \in AppRow /\ r.status = "REJECTED" /\ r.evaluated = apps[desks[d].app].evaluated
      BY <1>0 DEF AppRow
<1>2. apps' = [apps EXCEPT ![desks[d].app] = r]  BY DEF rejectSubmission
<1>. HIDE DEF r
<1>w. /\ apps' \in [App -> AppRow] /\ desks[d].app \in App /\ apps'[desks[d].app] = r
      /\ \A b \in App \ {desks[d].app} : apps'[b] = apps[b]
      /\ \A b \in App : apps[b].status # "NONE" => apps'[b].status # "NONE"
      /\ \A b \in App : /\ apps'[b].status = "NONE" => apps[b].status = "NONE"
                        /\ apps[b].status # "NONE" => apps'[b].evaluated = apps[b].evaluated
      <2>1. r.status # "NONE"  BY <1>1
      <2>. QED  BY <1>1, <1>2, <1>s, <2>1, DeskWrites
<1>d. /\ desks' \in [Decider -> {OffDesk} \cup [at: Places, app: App]]
      /\ desks'[d].at \in {"idle", "block"}
      /\ desks'[d].at = "block" => desks'[d].app = desks[d].app
      /\ \A e \in Decider \ {d} : desks'[e] = desks[e]
      <2>1. CASE DeskEnds(d)  BY <1>t, <2>1, DeskLeft
      <2>2. CASE DeskGoes(d, "block")
            <3>1. "block" \in Places  BY DEF Places
            <3>. QED  BY <1>t, <1>s, <2>2, <3>1, DeskWent
      <2>. QED  BY <2>1, <2>2 DEF rejectSubmission
<1>3. AppTypes'  BY <1>t, <1>e, <1>d, <1>w DEF AppTypes
<1>4. Once'
      <2>1. Evaluator \in Decider  BY DEF Decider
      <2>2. desks'[Evaluator].at # "idle" =>
                desks[Evaluator].at # "idle" /\ desks'[Evaluator].app = desks[Evaluator].app
            BY <1>d, <1>s, <2>1
      <2>3. "decide" \in Kinds /\ lists'["decide"].at = "run" =>
               \A a \in lists'["decide"].list : ~apps[a].evaluated /\ apps[a].status # "NONE"
            BY RunListsHold, <1>e
      <2>. QED  BY <1>t, <1>3, <1>e, <1>w, <2>2, <2>3, OnceKept
<1>5. GrantsSo(d)'  BY <1>d DEF GrantsSo
<1>6. "idle" \notin Approving \cup {"reject"} /\ "block" \notin Approving \cup {"reject"}
      BY DEF Approving
<1>7. ApprovedApps' \subseteq ApprovedApps
      BY <1>1, <1>w DEF ApprovedApps
<1>8. ASSUME StillOf({"overlapped", "killed", "refused"})
      PROVE  WithholdsSo(d)' /\ (ApprovedApps' = {} => NotGranted')
      <2>1. ApprovedApps = {} => NotGranted  BY <1>8, <1>s, WithheldAre DEF WithholdsSo
      <2>2. apps[desks[d].app].status = "PENDING"  BY <1>8, <1>s, PendingAre, NotAlone
      <2>3. ApprovedApps' = ApprovedApps  BY <2>2, <1>1, <1>w DEF ApprovedApps
      <2>4. (ApprovedApps = {} => NotGranted)'  BY <2>1, <2>3, <1>e DEF NotGranted
      <2>5. WithholdsSo(d)'  BY <2>4, <1>d DEF WithholdsSo
      <2>. QED  BY <2>4, <2>5
<1>9. desks'[d].at # "idle" => apps'[desks'[d].app].status # "NONE"
      BY <1>1, <1>d, <1>w
<1>10. ~undone' => /\ ~undone /\ GrantsSo(d)'
                   /\ (shopper.tagged => shopper'.tagged) /\ (told => told')
                   /\ \A part \in {"tagged", "member", "approved"} : record[part] => record'[part]
                   /\ ApprovedApps' # {} => ApprovedApps # {} \/ desks[d].at = "approve"
      BY <1>5, <1>7, <1>e
<1>. QED  BY <1>3, <1>4, <1>6, <1>8, <1>9, <1>10, <1>d, <1>e, <1>s, <1>w, DeskMoves

LEMMA approveSubmissionKept ==
    ASSUME AppInv, NEW d \in Decider, approveSubmission(d)
    PROVE  AppInv'
<1>t. AppTypes /\ DesksHave /\ Once  BY AppParts
<1>. DEFINE r == [apps[desks[d].app] EXCEPT !.status = "APPROVED", !.undoable = TRUE]
<1>e. /\ gusts' = gusts /\ visits' = visits /\ lists' = lists /\ queue' = queue
      /\ asked' = asked /\ blocked' = blocked
      /\ shopper' = shopper /\ record' = record /\ told' = told /\ undone' = undone
      BY DEF approveSubmission, caseVars, grantVars
<1>s. desks[d].at = "approve" /\ desks[d].at # "idle" /\ DeskEnds(d)
      BY DEF approveSubmission
<1>0. apps[desks[d].app] \in AppRow  BY <1>s, AppIs
<1>1. r \in AppRow /\ r.status = "APPROVED" /\ r.evaluated = apps[desks[d].app].evaluated
      BY <1>0 DEF AppRow
<1>v. desks[d].app \in App  BY <1>t, <1>s, PlacesAre
<1>2. apps' = [apps EXCEPT ![desks[d].app] = r]
      <2>1. apps' = [apps EXCEPT ![desks[d].app].status = "APPROVED",
                                 ![desks[d].app].undoable = TRUE]
            BY DEF approveSubmission
      <2>. QED  BY <2>1, <1>v, <1>t DEF AppTypes
<1>. HIDE DEF r
<1>w. /\ apps' \in [App -> AppRow] /\ desks[d].app \in App /\ apps'[desks[d].app] = r
      /\ \A b \in App \ {desks[d].app} : apps'[b] = apps[b]
      /\ \A b \in App : apps[b].status # "NONE" => apps'[b].status # "NONE"
      /\ \A b \in App : /\ apps'[b].status = "NONE" => apps[b].status = "NONE"
                        /\ apps[b].status # "NONE" => apps'[b].evaluated = apps[b].evaluated
      <2>1. r.status # "NONE"  BY <1>1
      <2>. QED  BY <1>1, <1>2, <1>s, <2>1, DeskWrites
<1>d. /\ desks' \in [Decider -> {OffDesk} \cup [at: Places, app: App]]
      /\ desks'[d].at = "idle"
      /\ \A e \in Decider \ {d} : desks'[e] = desks[e]
      BY <1>t, <1>s, DeskLeft
<1>a. /\ autos' \in [App -> Nat]
      /\ d # Evaluator => autos' = autos
      /\ d = Evaluator => /\ autos'[desks[d].app] = 1
                          /\ \A b \in App \ {desks[d].app} : autos'[b] = autos[b]
      <2>1. CASE d = Evaluator
            <3>1. autos[desks[d].app] = 0  BY <1>t, <1>s, <2>1 DEF Once
            <3>2. autos' = [autos EXCEPT ![desks[d].app] = @ + 1]
                  BY <2>1 DEF approveSubmission
            <3>3. autos \in [App -> Nat]  BY <1>t DEF AppTypes
            <3>. QED  BY <2>1, <3>1, <3>2, <3>3, <1>v
      <2>2. CASE d # Evaluator
            <3>1. autos' = autos  BY <2>2 DEF approveSubmission
            <3>. QED  BY <1>t, <2>2, <3>1 DEF AppTypes
      <2>. QED  BY <2>1, <2>2
<1>3. AppTypes'  BY <1>t, <1>e, <1>d, <1>w, <1>a DEF AppTypes
<1>4. Once'
      <2>0. Evaluator \in Decider  BY DEF Decider
      <2>4. "decide" \in Kinds /\ lists'["decide"].at = "run" =>
               \A a \in lists'["decide"].list : ~apps[a].evaluated /\ apps[a].status # "NONE"
            BY RunListsHold, <1>e
      <2>1. CASE d = Evaluator
            <3>1. apps[desks[d].app].evaluated  BY <1>t, <1>s, <2>1 DEF Once
            <3>2. ASSUME NEW b \in App
                  PROVE  /\ autos'[b] <= 1 /\ (autos'[b] = 1 => apps'[b].evaluated)
                         /\ apps'[b].status = "NONE" => autos'[b] = 0
                  <4>1. CASE b = desks[d].app
                        <5>1. apps'[b] = r /\ autos'[b] = 1  BY <4>1, <2>1, <1>w, <1>a
                        <5>2. r.evaluated /\ r.status = "APPROVED"
                              BY <3>1, <1>1, <1>w
                        <5>. QED  BY <5>1, <5>2
                  <4>2. CASE b # desks[d].app
                        <5>1. apps'[b] = apps[b] /\ autos'[b] = autos[b]
                              BY <4>2, <2>1, <1>w, <1>a
                        <5>2. /\ autos[b] <= 1 /\ (autos[b] = 1 => apps[b].evaluated)
                              /\ apps[b].status = "NONE" => autos[b] = 0
                              BY <1>t DEF Once
                        <5>. QED  BY <5>1, <5>2
                  <4>. QED  BY <4>1, <4>2
            <3>3. desks'[Evaluator].at = "idle"  BY <2>1, <1>d
            <3>4. ASSUME "decide" \in Kinds, lists'["decide"].at = "run",
                         NEW a \in lists'["decide"].list
                  PROVE  ~apps'[a].evaluated /\ apps'[a].status # "NONE"
                  <4>1. ~apps[a].evaluated /\ apps[a].status # "NONE"  BY <3>4, <2>4
                  <4>2. a \in App  BY <3>4, <1>e, <1>t, ListsAre
                  <4>. QED  BY <4>1, <4>2, <1>w
            <3>. QED  BY <3>2, <3>3, <3>4 DEF Once
      <2>2. CASE d # Evaluator
            <3>1. desks'[Evaluator] = desks[Evaluator]  BY <2>0, <2>2, <1>d
            <3>2. autos' = autos  BY <2>2, <1>a
            <3>. QED  BY <1>t, <1>3, <1>w, <2>4, <3>1, <3>2, OnceKept
      <2>. QED  BY <2>1, <2>2
<1>5. GrantsSo(d)' /\ WithholdsSo(d)'  BY <1>d DEF GrantsSo, WithholdsSo
<1>6. "idle" \notin Approving \cup {"reject"}  BY DEF Approving
<1>7. ApprovedApps' # {}  BY <1>1, <1>w DEF ApprovedApps
<1>8. ~undone' => /\ ~undone /\ GrantsSo(d)'
                  /\ (shopper.tagged => shopper'.tagged) /\ (told => told')
                  /\ \A part \in {"tagged", "member", "approved"} : record[part] => record'[part]
                  /\ ApprovedApps' # {} => ApprovedApps # {} \/ desks[d].at = "approve"
      BY <1>5, <1>e, <1>s
<1>. QED  BY <1>3, <1>4, <1>5, <1>6, <1>7, <1>8, <1>d, <1>e, <1>s, <1>w, DeskMoves

\* Whoever takes an application up is alone, unless decisions may overlap.
LEMMA TakenUpAlone ==
    ASSUME AppInv, NEW d \in Decider, MayDecide(d), StillOf({"overlapped"})
    PROVE  NobodyDecides
BY DEF MayDecide, StillOf, NobodyDecides

LEMMA WithheldAlone ==
    ASSUME AppInv, NEW d \in Decider, MayDecide(d), StillOf({"overlapped", "killed", "refused"})
    PROVE  ApprovedApps = {} => NotGranted
<1>1. NobodyDecides  BY TakenUpAlone, NotAlone
<1>. QED  BY <1>1 DEF AppInv, Withheld

LEMMA AsksKept ==
    ASSUME AppInv, NEW d \in Reviewer, NEW a \in App, Asks(d, a)
    PROVE  AppInv'
<1>t. AppTypes /\ DesksHave /\ Once  BY AppParts
<1>v. d \in Decider /\ d # Evaluator /\ Evaluator \in Decider
      BY ApplicationsAssumption DEF Decider
<1>m. MayDecide(d) /\ asked < MaxAsks /\ asked' = asked + 1  BY DEF Asks
<1>e. /\ gusts' = gusts /\ visits' = visits /\ lists' = lists /\ queue' = queue
      /\ blocked' = blocked /\ autos' = autos /\ apps' = apps
      /\ shopper' = shopper /\ record' = record /\ told' = told /\ undone' = undone
      BY DEF Asks, grantVars, historyVars
<1>1. PICK to \in {"find", "reject", "undo"} :
        /\ DeskBegins(d, a, to)
        /\ to \in {"find", "reject"} => apps[a].status = "PENDING"
        /\ to = "undo" => apps[a].status = "APPROVED"
      <2>1. CASE /\ apps[a].status = "PENDING"
                 /\ \E to \in {"find", "reject"} : DeskBegins(d, a, to)
            <3>1. PICK to \in {"find", "reject"} : DeskBegins(d, a, to)  BY <2>1
            <3>. QED  BY <2>1, <3>1
      <2>2. CASE apps[a].status = "APPROVED" /\ apps[a].undoable /\ DeskBegins(d, a, "undo")
            BY <2>2
      <2>. QED  BY <2>1, <2>2 DEF Asks
<1>2. to \in Places  BY DEF Places, Approving, Undoing
<1>d. /\ desks' \in [Decider -> {OffDesk} \cup [at: Places, app: App]]
      /\ desks'[d].at = to /\ desks'[d].app = a
      /\ \A e \in Decider \ {d} : desks'[e] = desks[e]
      BY <1>t, <1>v, <1>1, <1>2, DeskTaken
<1>3. asked' \in 0 .. MaxAsks
      <2>1. asked \in 0 .. MaxAsks  BY <1>t DEF AppTypes
      <2>. QED  BY <2>1, <1>m, ApplicationsAssumption
<1>4. AppTypes'  BY <1>t, <1>e, <1>d, <1>3 DEF AppTypes
<1>5. Once'
      <2>2. desks'[Evaluator] = desks[Evaluator]  BY <1>v, <1>d
      <2>3. "decide" \in Kinds /\ lists'["decide"].at = "run" =>
               \A b \in lists'["decide"].list : ~apps[b].evaluated /\ apps[b].status # "NONE"
            BY RunListsHold, <1>e
      <2>. QED  BY <1>t, <1>4, <1>e, <2>2, <2>3, OnceKept
<1>6. GrantsSo(d)'  BY <1>d DEF GrantsSo
<1>7. StillOf({"overlapped"}) => NobodyDecides  BY <1>v, <1>m, TakenUpAlone
<1>8. ApprovedApps' = ApprovedApps  BY <1>e DEF ApprovedApps
<1>9. ~undone' => /\ ~undone /\ GrantsSo(d)'
                  /\ (shopper.tagged => shopper'.tagged) /\ (told => told')
                  /\ \A part \in {"tagged", "member", "approved"} : record[part] => record'[part]
                  /\ ApprovedApps' # {} => ApprovedApps # {} \/ desks[d].at = "approve"
      BY <1>6, <1>8, <1>e
<1>10. desks'[d].at \in Approving \cup {"reject"} => apps'[desks'[d].app].status = "PENDING"
      BY <1>1, <1>d, <1>e DEF Approving
<1>11. apps'[desks'[d].app].status # "NONE" /\ desks'[d].at # "idle"  BY <1>1, <1>d, <1>e
<1>12. ASSUME StillOf({"overlapped", "killed", "refused"}) PROVE WithholdsSo(d)'
      <2>1. ApprovedApps = {} => NotGranted  BY <1>12, <1>v, <1>m, WithheldAlone
      <2>2. (ApprovedApps = {} => NotGranted)'  BY <2>1, <1>8, <1>e DEF NotGranted
      <2>3. desks'[d].at = "undo" => apps'[desks'[d].app].status = "APPROVED"
            BY <1>1, <1>d, <1>e
      <2>4. desks'[d].at \in {"find", "reject", "undo"}  BY <1>d
      <2>. QED  BY <2>2, <2>3, <2>4 DEF WithholdsSo
<1>. QED  BY <1>v, <1>e, <1>d, <1>4, <1>5, <1>7, <1>9, <1>10, <1>11, <1>12, DeskMoves

LEMMA decideApplicationsKept ==
    ASSUME AppInv, NEW a \in App, decideApplications(a)
    PROVE  AppInv'
<1>t. AppTypes /\ DesksHave /\ Once  BY AppParts
<1>v. Evaluator \in Decider  BY DEF Decider
<1>k. /\ "decide" \in Kinds /\ lists["decide"].at = "run" /\ a \in lists["decide"].list
      /\ MayDecide(Evaluator) /\ ListPassed("decide", a)
      BY DEF decideApplications
<1>e. /\ gusts' = gusts /\ visits' = visits /\ queue' = queue /\ asked' = asked
      /\ blocked' = blocked /\ autos' = autos
      /\ shopper' = shopper /\ record' = record /\ told' = told /\ undone' = undone
      BY DEF decideApplications, grantVars, historyVars
<1>. DEFINE r == [apps[a] EXCEPT !.evaluated = TRUE]
<1>1. r \in AppRow /\ r.status = apps[a].status /\ r.evaluated
      <2>1. apps[a] \in AppRow  BY <1>t DEF AppTypes
      <2>2. r \in AppRow  BY <2>1 DEF AppRow
      <2>3. r.status = apps[a].status /\ r.evaluated = TRUE  BY <2>1 DEF AppRow
      <2>. QED  BY <2>2, <2>3
<1>2. apps' = [apps EXCEPT ![a] = r]  BY DEF decideApplications
<1>. HIDE DEF r
<1>3. /\ apps' \in [App -> AppRow] /\ apps'[a] = r
      /\ \A b \in App \ {a} : apps'[b] = apps[b]
      BY <1>t, <1>1, <1>2, RowSet
<1>4. \A b \in App : apps'[b].status = apps[b].status  BY <1>1, <1>3
<1>5. ~apps[a].evaluated /\ apps[a].status # "NONE"  BY <1>k, RunListsHold
<1>d. /\ desks' \in [Decider -> {OffDesk} \cup [at: Places, app: App]]
      /\ desks'[Evaluator].at = "evaluate" /\ desks'[Evaluator].app = a
      /\ \A e \in Decider \ {Evaluator} : desks'[e] = desks[e]
      <2>1. "evaluate" \in Places  BY DEF Places
      <2>2. DeskBegins(Evaluator, a, "evaluate")  BY DEF decideApplications, DeskBegins
      <2>. QED  BY <1>t, <1>v, <2>1, <2>2, DeskTaken
<1>l. /\ lists' \in [Kinds -> {OffDesk} \cup [at: {"run"}, list: SUBSET App]]
      /\ lists'["decide"].at = "run" => lists'["decide"].list = lists["decide"].list \ {a}
      BY <1>t, <1>k, ListGoesOn
<1>6. AppTypes'  BY <1>t, <1>e, <1>d, <1>l, <1>3 DEF AppTypes
<1>7. Once'
      <2>1. autos[a] = 0
            <3>1. autos[a] <= 1 /\ (autos[a] = 1 => apps[a].evaluated)  BY <1>t DEF Once
            <3>2. autos[a] \in Nat  BY <1>t DEF AppTypes
            <3>. QED  BY <3>1, <3>2, <1>5
      <2>2. ASSUME NEW b \in App
            PROVE  /\ autos'[b] <= 1 /\ (autos'[b] = 1 => apps'[b].evaluated)
                   /\ apps'[b].status = "NONE" => autos'[b] = 0
            <3>1. /\ autos[b] <= 1 /\ (autos[b] = 1 => apps[b].evaluated)
                  /\ apps[b].status = "NONE" => autos[b] = 0
                  BY <1>t DEF Once
            <3>2. b = a => apps'[b].evaluated  BY <1>1, <1>3
            <3>3. b # a => apps'[b].evaluated = apps[b].evaluated  BY <1>3
            <3>. QED  BY <3>1, <3>2, <3>3, <1>4, <1>e
      <2>3. apps'[desks'[Evaluator].app].evaluated /\ autos'[desks'[Evaluator].app] = 0
            BY <2>1, <1>1, <1>3, <1>d, <1>e
      <2>4. ASSUME lists'["decide"].at = "run", NEW b \in lists'["decide"].list
            PROVE  ~apps'[b].evaluated /\ apps'[b].status # "NONE"
            <3>1. b \in lists["decide"].list /\ b # a  BY <2>4, <1>l
            <3>2. b \in App  BY <3>1, <1>t, <1>k, ListsAre
            <3>3. ~apps[b].evaluated /\ apps[b].status # "NONE"  BY <3>1, <1>k, RunListsHold
            <3>4. apps'[b] = apps[b]  BY <3>1, <3>2, <1>3
            <3>. QED  BY <3>3, <3>4
      <2>. QED  BY <2>2, <2>3, <2>4, <1>k DEF Once
<1>8. GrantsSo(Evaluator)'  BY <1>d DEF GrantsSo
<1>9. StillOf({"overlapped"}) => NobodyDecides  BY <1>v, <1>k, TakenUpAlone
<1>10. ApprovedApps' = ApprovedApps  BY <1>4 DEF ApprovedApps
<1>11. ~undone' => /\ ~undone /\ GrantsSo(Evaluator)'
                   /\ (shopper.tagged => shopper'.tagged) /\ (told => told')
                   /\ \A part \in {"tagged", "member", "approved"} : record[part] => record'[part]
                   /\ ApprovedApps' # {} => ApprovedApps # {} \/ desks[Evaluator].at = "approve"
      BY <1>8, <1>10, <1>e
<1>12. desks'[Evaluator].at \notin Approving \cup {"reject"}  BY <1>d DEF Approving
<1>13. apps'[desks'[Evaluator].app].status # "NONE" /\ desks'[Evaluator].at # "idle"
      BY <1>4, <1>5, <1>d
<1>14. ASSUME StillOf({"overlapped", "killed", "refused"}) PROVE WithholdsSo(Evaluator)'
      <2>1. ApprovedApps = {} => NotGranted  BY <1>14, <1>v, <1>k, WithheldAlone
      <2>2. (ApprovedApps = {} => NotGranted)'  BY <2>1, <1>10, <1>e DEF NotGranted
      <2>. QED  BY <2>2, <1>d DEF WithholdsSo
<1>15. \A b \in App : apps[b].status # "NONE" => apps'[b].status # "NONE"  BY <1>4
<1>. QED  BY <1>v, <1>e, <1>d, <1>6, <1>7, <1>9, <1>11, <1>12, <1>13, <1>14, <1>15, DeskMoves

-----------------------------------------------------------------------------
LEMMA AppInitially == ApplicationsInit => AppInv
<1>. SUFFICES ASSUME ApplicationsInit PROVE AppInv  OBVIOUS
<1>v. Evaluator \in Decider  BY DEF Decider
<1>1. AppTypes
      <2>1. NoApp \in AppRow  BY DEF NoApp, AppRow
      <2>2. /\ gusts \in Gusts /\ apps \in [App -> AppRow]
            /\ record \in [tagged: BOOLEAN, member: BOOLEAN, approved: BOOLEAN]
            /\ told \in BOOLEAN /\ blocked \in BOOLEAN /\ undone \in BOOLEAN
            BY <2>1 DEF ApplicationsInit
      <2>3. shopper \in [exists: BOOLEAN, tagged: BOOLEAN]  BY DEF ApplicationsInit
      <2>4. /\ visits \in [Visitor -> {OffDesk} \cup [at: {"create", "decide", "screen"}, form: Form]]
            /\ desks \in [Decider -> {OffDesk} \cup [at: Places, app: App]]
            /\ lists \in [Kinds -> {OffDesk} \cup [at: {"run"}, list: SUBSET App]]
            BY DEF ApplicationsInit
      <2>5. queue \subseteq Kinds /\ asked \in 0 .. MaxAsks /\ autos \in [App -> Nat]
            BY ApplicationsAssumption DEF ApplicationsInit
      <2>. QED  BY <2>2, <2>3, <2>4, <2>5 DEF AppTypes
<1>2. \A d \in Decider : desks[d].at = "idle"  BY DEF ApplicationsInit, OffDesk
<1>3. ApprovedApps = {}  BY DEF ApplicationsInit, ApprovedApps, NoApp
<1>4. NotGranted  BY DEF ApplicationsInit, NotGranted
<1>5. Once
      <2>1. \A a \in App : autos[a] = 0  BY DEF ApplicationsInit
      <2>2. "decide" \in Kinds => lists["decide"].at # "run"
            BY DEF ApplicationsInit, OffDesk
      <2>. QED  BY <2>1, <2>2, <1>2, <1>v DEF Once
<1>6. Granting  BY <1>2, <1>3 DEF Granting, GrantsSo
<1>7. OneDecides  BY <1>2 DEF OneDecides, Approving
<1>8. Withheld  BY <1>2, <1>4 DEF Withheld, WithholdsSo
<1>9. DesksHave  BY <1>2 DEF DesksHave
<1>. QED  BY <1>1, <1>5, <1>6, <1>7, <1>8, <1>9 DEF AppInv

LEMMA DecidesKept ==
    ASSUME AppInv, NEW d \in Decider, Decides(d)
    PROVE  AppInv'
BY findCustomerByEmailKept, applyTagsKept, MirrorCustomerKept, JoinsGroupKept,
   publishBuyerTermsKept, approveSubmissionKept, rejectSubmissionKept, blockDomainKept,
   TakeBackTagsKept, RevertedKept, undoApprovalKept DEF Decides

LEMMA AppStep == AppInv /\ [ApplicationsNext]_applicationsVars => AppInv'
<1>. SUFFICES ASSUME AppInv, [ApplicationsNext]_applicationsVars PROVE AppInv'
     OBVIOUS
<1>1. CASE \E v \in Visitor :
               (\E f \in Form : submitForm(v, f)) \/ Submits(v) \/ VisitorKilled(v)
      BY <1>1, submitFormKept, SubmissionStoredKept, SubmissionQueuedKept, VisitorKilledKept
         DEF Submits
<1>2. CASE \E d \in Decider : Decides(d) \/ DecisionRefused(d) \/ DeskKilled(d)
      BY <1>2, DecidesKept, DecisionRefusedKept, DeskKilledKept
<1>3. CASE \E d \in Reviewer, a \in App : Asks(d, a)
      BY <1>3, AsksKept
<1>4. CASE JobSteps
      BY <1>4, JobReadsKept, screenApplicationsKept, decideApplicationsKept,
         decideOnArrivalKept DEF JobSteps
<1>5. CASE unblockDomain  BY <1>5, unblockDomainKept
<1>6. CASE \E a \in App : UndoWindowCloses(a)  BY <1>6, UndoWindowClosesKept
<1>7. CASE UNCHANGED applicationsVars
      <2>1. /\ UNCHANGED <<gusts, grantVars, desks, historyVars>>
            /\ visits' = visits /\ lists' = lists /\ queue' = queue /\ asked' = asked
            /\ apps' = apps /\ blocked' = blocked
            BY <1>7 DEF applicationsVars, caseVars
      <2>2. /\ gusts' = gusts /\ shopper' = shopper /\ record' = record /\ told' = told
            /\ desks' = desks /\ autos' = autos /\ undone' = undone
            BY <2>1 DEF grantVars, historyVars
      <2>3. AppTypes'  BY <2>1, <2>2, AppParts DEF AppTypes
      <2>4. \A a \in App : apps[a].status = "NONE" => apps[a].status # "APPROVED"  OBVIOUS
      <2>. QED  BY <2>1, <2>3, <2>4, CasesMove, RunListsHold
<1>. QED  BY <1>1, <1>2, <1>3, <1>4, <1>5, <1>6, <1>7 DEF ApplicationsNext

LEMMA AppInvariant == ApplicationsSpec => []AppInv
BY AppInitially, AppStep, PTL DEF ApplicationsSpec

\* The state of the applications is typed.
THEOREM ApplicationTypesHold == ApplicationsSpec => []ApplicationsTypeOK
<1>1. AppInv => ApplicationsTypeOK
      <2>. SUFFICES ASSUME AppTypes PROVE ApplicationsTypeOK  BY AppParts
      <2>1. ASSUME NEW kind \in Kinds PROVE lists[kind].at \in {"idle", "run"}
            <3>1. lists[kind] \in {OffDesk} \cup [at: {"run"}, list: SUBSET App]
                  BY DEF AppTypes
            <3>. QED  BY <3>1 DEF OffDesk
      <2>2. {told, blocked, undone} \subseteq BOOLEAN  BY DEF AppTypes
      <2>. QED  BY <2>1, <2>2 DEF AppTypes, AppRow, ApplicationsTypeOK
<1>. QED  BY <1>1, AppInvariant, PTL

\* approveSubmission, undoApproval, decideOnArrival: an approved application is
\* backed in Shopify, in the mirror and at checkout, whatever died or was refused
\* half way; nobody is granted without one; and the evaluator approves once.
THEOREM ApprovalsAreBacked == ApplicationsSpec => []AccessMatches
<1>1. AppInv => AccessMatches
      <2>. SUFFICES ASSUME AppInv, StillOf({"overlapped"})
                    PROVE  /\ NobodyDecides /\ ~undone /\ ApprovedApps # {} => Granted
                           /\ NobodyDecides /\ StillOf({"killed", "refused"})
                                /\ ApprovedApps = {} => NotGranted
                           /\ \A a \in App : autos[a] <= 1
           BY DEF AccessMatches
      <2>1. ~undone /\ ApprovedApps # {} => Granted  BY DEF AppInv, Granting
      <2>2. ASSUME NobodyDecides, StillOf({"killed", "refused"}), ApprovedApps = {}
            PROVE  NotGranted
            <3>1. StillOf({"overlapped", "killed", "refused"})  BY <2>2 DEF StillOf
            <3>. QED  BY <2>2, <3>1 DEF AppInv, Withheld
      <2>3. \A a \in App : autos[a] <= 1  BY DEF AppInv, Once
      <2>. QED  BY <2>1, <2>2, <2>3
<1>. QED  BY <1>1, AppInvariant, PTL

(***************************************************************************)
(* The chains of jobs                                                      *)
(***************************************************************************)
AtRun(w) == workers[w].at # "rest"

Runs(w, s) == AtRun(w) /\ workers[w].slot = s

Running == [at: {"read", "cancel", "create", "work", "count", "end"},
            slot: Slot, cursor: 0 .. LastPage - 1]

\* A row that runs is run by one runner at most.
RowTypes ==
    /\ slots \in [Slot -> {"FREE", "PENDING", "RUNNING"}] /\ tries \in [Slot -> Nat]
    /\ workers \in [Worker -> {Resting} \cup Running]
    /\ \A w, u \in Worker : AtRun(w) /\ AtRun(u) /\ workers[w].slot = workers[u].slot => w = u
    /\ \A w \in Worker : AtRun(w) => slots[workers[w].slot] = "RUNNING"

ShopTypes ==
    /\ chain \in Chains /\ odds \in Odds
    /\ install \in {"none", "here", "gone"}
    /\ view.at \in {"rest", "restart", "ensure", "cancel", "create"}
    /\ cursor \in 0 .. LastPage - 1 /\ pages \subseteq 1 .. LastPage
    /\ filled \in BOOLEAN /\ talks \in BOOLEAN /\ left \in BOOLEAN
    /\ moves \in 0 .. MaxMoves /\ losses \in 0 .. MaxLosses

ChainTypes == RowTypes /\ ShopTypes

ThePurge == "agent.purge_conversations"

\* A run of the purge queues the next one last, any other before its work.
Passed(w) == workers[w].at \in IF chain = ThePurge THEN {"end"} ELSE {"work", "count", "end"}

IsAhead(s) ==
    \/ slots[s] = "PENDING"
    \/ slots[s] = "RUNNING" /\ \A w \in Worker : Runs(w, s) => ~Passed(w)

Coming == \E s \in Slot : IsAhead(s)

\* The rows are being replaced.
Replacing == view.at \in {"restart", "cancel", "create"}

GoesOn ==
    /\ install = "gone" => left
    /\ install = "none" =>
         /\ \A s \in Slot : slots[s] = "FREE"
         /\ view.at = "rest" /\ ~filled /\ cursor = 0 /\ pages = {} /\ ~talks
    /\ install = "here" /\ ~left /\ ~Replacing =>
         /\ chain \in QueuedAtInstall \ Backfills => Coming
         /\ chain = ThePurge /\ talks => Coming

\* A row that reads or will read a page, or queue the next.
Live(s) == slots[s] = "PENDING" \/ \E w \in Worker : Runs(w, s) /\ workers[w].at # "end"

OneThread ==
    /\ \A s \in Slot : slots[s] = "RUNNING" => \E w \in Worker : Runs(w, s)
    /\ \A s, q \in Slot : Live(s) /\ Live(q) => s = q
    /\ Replacing => \A s \in Slot : ~Live(s)

PagesRead ==
    /\ (\E s \in Slot : Live(s)) => ~filled
    /\ view.at = "restart" => filled
    /\ view.at \in {"cancel", "create"} => ~filled
    /\ pages = 1 .. IF filled THEN LastPage ELSE cursor
    /\ filled => cursor = 0
    /\ \A w \in Worker : workers[w].at = "work" => workers[w].cursor = cursor

Threaded == chain \in Backfills /\ "killed" \notin odds => OneThread /\ PagesRead

\* Only a backfill is ever filled.
FilledIsBackfill == filled => chain \in Backfills

ChainInv == ChainTypes /\ GoesOn /\ FilledIsBackfill /\ Threaded

-----------------------------------------------------------------------------
(* What the kinds of jobs are                                              *)

LEMMA KindsOfChains ==
    /\ ThePurge \notin Recurring /\ ThePurge \notin Backfills
    /\ ThePurge \notin QueuedAtInstall
    /\ \A k \in QueuedAtInstall : k \in Recurring \/ k \in Backfills
    /\ \A k \in Backfills : k \in QueuedAtInstall
    /\ Recurring \cap Backfills = {}
    /\ Backfills \cap EnsuredByPages = {}
<1> USE DEF KindsThat, ChainJobs, ChainJob, dailyBriefing, monthlyReviewJob, purgeAudit,
        purgeRetention, sendTrialReminder, purgeConversations, backfillCustomers,
        ordersBackfill, backfillProducts
<1>1. /\ ThePurge \notin Recurring /\ ThePurge \notin Backfills
      /\ ThePurge \notin QueuedAtInstall
    BY DEF ThePurge, Recurring, Backfills, QueuedAtInstall
<1>2. /\ \A k \in QueuedAtInstall : k \in Recurring \/ k \in Backfills
      /\ \A k \in Backfills : k \in QueuedAtInstall
    BY DEF Recurring, Backfills, QueuedAtInstall
<1>3. Recurring \cap Backfills = {} /\ Backfills \cap EnsuredByPages = {}
    BY DEF Recurring, Backfills, EnsuredByPages
<1> QED
    BY <1>1, <1>2, <1>3

LEMMA ChainBounds ==
    /\ Slots \in Nat \ {0} /\ LastPage \in Nat \ {0} /\ MaxTries \in Nat \ {0}
    /\ MaxMoves \in Nat /\ MaxLosses \in Nat
    /\ \A s \in Slot : s \in Nat
BY JobChainsAssumption DEF Slot

-----------------------------------------------------------------------------
(* Rows and runners                                                        *)

\* What is at a run is a record of it.
LEMMA RunParts ==
    ASSUME RowTypes, NEW w \in Worker, AtRun(w)
    PROVE  /\ workers[w] \in Running /\ workers[w].slot \in Slot
           /\ slots[workers[w].slot] = "RUNNING"
           /\ workers[w].cursor \in 0 .. LastPage - 1
<1>1. workers[w] \in Running
    BY DEF RowTypes, AtRun, Resting
<1> QED
    BY <1>1 DEF RowTypes, Running

\* A runner that goes on keeps its row.
LEMMA RunnerWent ==
    ASSUME RowTypes, NEW w \in Worker, AtRun(w),
           NEW to \in {"read", "cancel", "create", "work", "count", "end"},
           WorkerGoes(w, to)
    PROVE  /\ workers' \in [Worker -> {Resting} \cup Running]
           /\ workers'[w].at = to /\ workers'[w].cursor = workers[w].cursor
           /\ \A u \in Worker : u # w => workers'[u] = workers[u]
           /\ \A u \in Worker : (AtRun(u)' <=> AtRun(u)) /\ workers'[u].slot = workers[u].slot
<1>1. workers \in [Worker -> {Resting} \cup Running] /\ workers[w] \in Running
    BY RunParts DEF RowTypes
<1>2. workers' = [workers EXCEPT ![w] = [workers[w] EXCEPT !.at = to]]
    BY DEF WorkerGoes
<1>3. [workers[w] EXCEPT !.at = to] \in Running
    BY <1>1 DEF Running
<1>4. /\ workers'[w] = [workers[w] EXCEPT !.at = to]
      /\ \A u \in Worker : u # w => workers'[u] = workers[u]
      /\ workers' \in [Worker -> {Resting} \cup Running]
    BY <1>1, <1>2, <1>3
<1>5. workers'[w].at = to /\ workers'[w].slot = workers[w].slot
          /\ workers'[w].cursor = workers[w].cursor
    BY <1>1, <1>4 DEF Running
<1>6. to # "rest"
    OBVIOUS
<1> QED
    BY <1>4, <1>5, <1>6 DEF AtRun

\* Rows stay rows where runners keep theirs.
LEMMA AppsStay ==
    ASSUME RowTypes,
           slots' \in [Slot -> {"FREE", "PENDING", "RUNNING"}], tries' \in [Slot -> Nat],
           workers' \in [Worker -> {Resting} \cup Running],
           \A u \in Worker : AtRun(u)' => AtRun(u) /\ workers'[u].slot = workers[u].slot,
           \A u \in Worker : AtRun(u)' => slots'[workers[u].slot] = "RUNNING"
    PROVE  RowTypes'
BY DEF RowTypes, AtRun

\* Pending rows are freed, and no other.
LEMMA Cancelled ==
    ASSUME RowTypes, CancelPending
    PROVE  /\ slots' \in [Slot -> {"FREE", "PENDING", "RUNNING"}] /\ tries' \in [Slot -> Nat]
           /\ \A s \in Slot : slots'[s] # "PENDING"
           /\ \A s \in Slot : slots'[s] = "RUNNING" <=> slots[s] = "RUNNING"
BY DEF RowTypes, CancelPending, IsPending

\* A free row comes to wait, and no other changes.
LEMMA Created ==
    ASSUME RowTypes, CreateRow
    PROVE  /\ slots' \in [Slot -> {"FREE", "PENDING", "RUNNING"}] /\ tries' \in [Slot -> Nat]
           /\ \E s \in Slot : /\ slots[s] = "FREE" /\ slots'[s] = "PENDING"
                              /\ \A q \in Slot : q # s => slots'[q] = slots[q]
<1>1. PICK s \in Slot : /\ slots[s] = "FREE"
                        /\ slots' = [slots EXCEPT ![s] = "PENDING"]
                        /\ tries' = [tries EXCEPT ![s] = 0]
    BY DEF CreateRow
<1> QED
    BY <1>1 DEF RowTypes

-----------------------------------------------------------------------------
(* A runner's step                                                         *)

RunnerStep(w) ==
    WorkerStep(w) \/ Fails(w) \/ WorkerKilled(w) \/ \E s \in Slot : Claim(w, s)

\* A runner leaves the shop, the page view and most of the backfill alone.
LEMMA RunnerFrame ==
    ASSUME ChainInv, NEW w \in Worker, RunnerStep(w)
    PROVE  /\ UNCHANGED <<chain, odds, install, view, left>> /\ install # "none"
           /\ talks' => talks
           /\ UNCHANGED fillVars \/ WritesPage(w)
           /\ ShopTypes'
<1> USE DEF RunnerStep, WorkerStep
<1>1. UNCHANGED <<chain, odds, install, view, left>>
    BY DEF ReadsShop, Cancels, Creates, Ends, Works, WritesPage, PurgesConversations,
        CountsConversations, Fails, WorkerKilled, Claim
<1>2. AtRun(w) \/ \E s \in Slot : IsPending(s)
    BY DEF ReadsShop, Cancels, Creates, Ends, Works, WritesPage, PurgesConversations,
        CountsConversations, Fails, WorkerKilled, Claim, AtRun
<1>3. install # "none"
    <2>1. ASSUME AtRun(w) PROVE \E s \in Slot : slots[s] # "FREE"
        BY <2>1, RunParts DEF ChainInv, ChainTypes
    <2>2. ASSUME NEW s \in Slot, IsPending(s) PROVE slots[s] # "FREE"
        BY <2>2 DEF IsPending
    <2> QED
        BY <1>2, <2>1, <2>2 DEF ChainInv, GoesOn
<1>4. UNCHANGED fillVars \/ WritesPage(w)
    BY DEF ReadsShop, Cancels, Creates, Ends, Works, PurgesConversations,
        CountsConversations, Fails, WorkerKilled, Claim
<1>5. talks' \in {FALSE, talks}
    <2>1. CASE PurgesConversations(w)
        BY <2>1 DEF PurgesConversations
    <2>2. CASE ~PurgesConversations(w)
        <3>1. talks' = talks
            BY <2>2 DEF ReadsShop, Cancels, Creates, Ends, Works, WritesPage,
                CountsConversations, Fails, WorkerKilled, Claim
        <3> QED
            BY <3>1
    <2> QED
        BY <2>1, <2>2
<1>6. (talks' => talks) /\ talks' \in BOOLEAN
    <2>1. talks \in BOOLEAN
        BY DEF ChainInv, ChainTypes, ShopTypes
    <2>2. CASE talks' = FALSE
        BY <2>2
    <2>3. CASE talks' = talks
        BY <2>1, <2>3
    <2> QED
        BY <1>5, <2>2, <2>3, Zenon
<1>7. moves' \in 0 .. MaxMoves /\ losses' \in 0 .. MaxLosses
    <2>1. moves' = moves /\ (losses' = losses \/ Loss)
        BY DEF ReadsShop, Cancels, Creates, Ends, Works, WritesPage, PurgesConversations,
            CountsConversations, Fails, WorkerKilled, Claim, countVars, Loss
    <2> QED
        BY <2>1, ChainBounds DEF Loss, ChainInv, ChainTypes, ShopTypes
<1>8. cursor' \in 0 .. LastPage - 1 /\ pages' \subseteq 1 .. LastPage /\ filled' \in BOOLEAN
    <2>1. CASE UNCHANGED fillVars
        BY <2>1 DEF fillVars, ChainInv, ChainTypes, ShopTypes
    <2>2. CASE WritesPage(w)
        <3> DEFINE page == workers[w].cursor + 1
        <3>1. page \in 1 .. LastPage
            <4>1. workers[w].cursor \in 0 .. LastPage - 1
                BY <2>2, RunParts DEF WritesPage, AtRun, ChainInv, ChainTypes
            <4> QED
                BY <4>1, ChainBounds
        <3>2. /\ pages' = pages \cup {page}
              /\ \/ page < LastPage /\ cursor' = page /\ filled' = filled
                 \/ cursor' = 0 /\ filled' = TRUE
            BY <2>2 DEF WritesPage
        <3> HIDE DEF page
        <3>3. pages' \subseteq 1 .. LastPage
            BY <3>1, <3>2 DEF ChainInv, ChainTypes, ShopTypes
        <3>4. cursor' \in 0 .. LastPage - 1
            BY <3>1, <3>2, ChainBounds
        <3>5. filled' \in BOOLEAN
            BY <3>2 DEF ChainInv, ChainTypes, ShopTypes
        <3> QED
            BY <3>3, <3>4, <3>5
    <2> QED
        BY <1>4, <2>1, <2>2
<1>9. ShopTypes'
    BY <1>1, <1>6, <1>7, <1>8 DEF ChainInv, ChainTypes, ShopTypes
<1> QED
    BY <1>1, <1>3, <1>4, <1>6, <1>9

\* It is enough that a row is still to come, where one has to, ...
LEMMA StillGoesOn ==
    ASSUME ChainInv, UNCHANGED <<chain, install, view, left>>, install # "none",
           talks' => talks,
           install = "here" /\ Coming /\ chain \in QueuedAtInstall \ Backfills => Coming',
           install = "here" /\ Coming /\ chain = ThePurge /\ talks' => Coming'
    PROVE  GoesOn'
BY DEF ChainInv, GoesOn, Replacing

\* ... and that no row comes alive.
LEMMA StillThreaded ==
    ASSUME OneThread, PagesRead, UNCHANGED <<view, fillVars>>,
           \A s \in Slot : Live(s)' => Live(s),
           \A s \in Slot : slots'[s] = "RUNNING" => \E w \in Worker : Runs(w, s)',
           \A w \in Worker : workers'[w].at = "work" => workers'[w].cursor = cursor
    PROVE  (OneThread /\ PagesRead)'
<1>1. OneThread'
    BY DEF OneThread, Replacing
<1>2. PagesRead'
    BY DEF PagesRead, fillVars
<1> QED
    BY <1>1, <1>2

\* A step that leaves the rows and the runners' rows alone, where nobody passes.
LEMMA AheadStays ==
    ASSUME UNCHANGED <<chain, slots>>,
           \A u \in Worker : AtRun(u)' => AtRun(u) /\ workers'[u].slot = workers[u].slot,
           \A u \in Worker : Passed(u)' => Passed(u)
    PROVE  Coming => Coming'
<1> SUFFICES ASSUME NEW s \in Slot, IsAhead(s) PROVE IsAhead(s)'
    BY DEF Coming
<1>1. \A u \in Worker : Runs(u, s)' => Runs(u, s)
    BY DEF Runs, AtRun
<1> QED
    BY <1>1 DEF IsAhead

Kept == (RowTypes /\ GoesOn /\ FilledIsBackfill /\ Threaded)'

\* A runner goes on and no row changes.
LEMMA GoesKept ==
    ASSUME ChainInv, NEW w \in Worker, RunnerStep(w), AtRun(w),
           UNCHANGED <<rowsVars, fillVars>>,
           workers' \in [Worker -> {Resting} \cup Running],
           workers'[w].slot = workers[w].slot, workers'[w].at # "rest", workers[w].at # "end",
           \A u \in Worker : u # w => workers'[u] = workers[u],
           workers'[w].at = "work" => workers'[w].cursor = cursor \/ chain \notin Backfills,
           install = "here" /\ ((chain = ThePurge /\ talks') \/ chain \in QueuedAtInstall \ Backfills)
               => (Passed(w)' => Passed(w))
    PROVE  Kept
<1>1. ChainTypes /\ RowTypes /\ slots' = slots /\ tries' = tries
    BY DEF ChainInv, ChainTypes, rowsVars
<1>2. \A u \in Worker : AtRun(u)' => AtRun(u) /\ workers'[u].slot = workers[u].slot
    BY DEF AtRun
<1>3. RowTypes'
    BY <1>1, <1>2, AppsStay DEF RowTypes
<1>4. /\ UNCHANGED <<chain, odds, install, view, left>> /\ install # "none"
      /\ talks' => talks
    BY RunnerFrame
<1>5. GoesOn'
    <2>1. \A u \in Worker : u # w => (Passed(u)' => Passed(u))
        BY <1>4 DEF Passed
    <2>2. ASSUME install = "here",
                 (chain = ThePurge /\ talks') \/ chain \in QueuedAtInstall \ Backfills
          PROVE  Coming => Coming'
        BY <1>1, <1>2, <1>4, <2>1, <2>2, AheadStays
    <2> QED
        BY <1>4, <2>2, StillGoesOn
<1>6. FilledIsBackfill'
    BY <1>4 DEF ChainInv, FilledIsBackfill, fillVars
<1>7. Threaded'
    <2> SUFFICES ASSUME chain \in Backfills, "killed" \notin odds PROVE (OneThread /\ PagesRead)'
        BY <1>4 DEF Threaded
    <2>1. OneThread /\ PagesRead
        BY DEF ChainInv, Threaded
    <2>2. \A u \in Worker, s \in Slot : Runs(u, s)' <=> Runs(u, s)
        BY DEF Runs, AtRun
    <2>3. \A s \in Slot : Live(s)' => Live(s)
        BY <1>1, <2>2 DEF Live
    <2>4. \A s \in Slot : slots'[s] = "RUNNING" => \E u \in Worker : Runs(u, s)'
        BY <1>1, <2>1, <2>2 DEF OneThread
    <2>5. \A u \in Worker : workers'[u].at = "work" => workers'[u].cursor = cursor
        BY <2>1 DEF PagesRead
    <2> QED
        BY <1>4, <2>1, <2>3, <2>4, <2>5, StillThreaded
<1> QED
    BY <1>3, <1>5, <1>6, <1>7 DEF Kept

LEMMA ReadsShopKept == ASSUME ChainInv, NEW w \in Worker, ReadsShop(w) PROVE Kept
<1>1. /\ RunnerStep(w) /\ AtRun(w) /\ workers[w].at = "read" /\ RowTypes
      /\ UNCHANGED <<chain, install, rowsVars, fillVars>>
    BY DEF RunnerStep, WorkerStep, ReadsShop, AtRun, ChainInv, ChainTypes
<1>2. workers \in [Worker -> {Resting} \cup Running] /\ workers[w] \in Running
    BY <1>1, RunParts DEF RowTypes
<1>3. CASE install # "here" /\ chain \notin KeptWhileGone
    <2>1. WorkerGoes(w, "end")
        BY <1>3 DEF ReadsShop
    <2> QED
        BY <1>1, <1>3, <2>1, RunnerWent, GoesKept
<1>4. CASE ~(install # "here" /\ chain \notin KeptWhileGone)
    <2> DEFINE to == IF chain \in Recurring THEN "cancel" ELSE "work"
    <2>1. workers' = [workers EXCEPT ![w] = [workers[w] EXCEPT !.cursor = cursor, !.at = to]]
        BY <1>2, <1>4 DEF ReadsShop
    <2>2. [workers[w] EXCEPT !.cursor = cursor, !.at = to] \in Running
        BY <1>2 DEF Running, ChainInv, ChainTypes, ShopTypes
    <2>3. /\ workers' \in [Worker -> {Resting} \cup Running]
          /\ \A u \in Worker : u # w => workers'[u] = workers[u]
          /\ workers'[w] = [workers[w] EXCEPT !.cursor = cursor, !.at = to]
        BY <1>2, <2>1, <2>2
    <2>4. workers'[w].at = to /\ workers'[w].cursor = cursor /\ workers'[w].slot = workers[w].slot
        BY <1>2, <2>3 DEF Running
    <2>5. (chain = ThePurge /\ talks') \/ chain \in QueuedAtInstall \ Backfills => ~Passed(w)'
        BY <1>1, <2>4, KindsOfChains DEF Passed
    <2> QED
        BY <1>1, <2>3, <2>4, <2>5, GoesKept
<1> QED
    BY <1>3, <1>4

LEMMA WorksKept == ASSUME ChainInv, NEW w \in Worker, Works(w) PROVE Kept
<1>1. /\ RunnerStep(w) /\ AtRun(w) /\ workers[w].at = "work" /\ RowTypes
      /\ UNCHANGED <<chain, rowsVars, fillVars>> /\ chain \in Recurring /\ WorkerGoes(w, "end")
    BY DEF RunnerStep, WorkerStep, Works, AtRun, ChainInv, ChainTypes
<1>2. Passed(w)
    BY <1>1, KindsOfChains DEF Passed
<1> QED
    BY <1>1, <1>2, RunnerWent, GoesKept

LEMMA PurgesKept == ASSUME ChainInv, NEW w \in Worker, PurgesConversations(w) PROVE Kept
<1>1. /\ RunnerStep(w) /\ AtRun(w) /\ workers[w].at = "work" /\ RowTypes
      /\ UNCHANGED <<chain, rowsVars, fillVars>> /\ chain = ThePurge /\ WorkerGoes(w, "count")
    BY DEF RunnerStep, WorkerStep, PurgesConversations, AtRun, ChainInv, ChainTypes, ThePurge
<1>2. workers'[w].at = "count"
    BY <1>1, RunnerWent
<1>3. ~Passed(w)'
    BY <1>1, <1>2 DEF Passed
<1> QED
    BY <1>1, <1>2, <1>3, RunnerWent, GoesKept

LEMMA CountsKept == ASSUME ChainInv, NEW w \in Worker, CountsConversations(w) PROVE Kept
<1>1. /\ RunnerStep(w) /\ AtRun(w) /\ workers[w].at = "count" /\ RowTypes
      /\ UNCHANGED <<chain, rowsVars, fillVars>> /\ talks' = talks
      /\ WorkerGoes(w, IF talks THEN "cancel" ELSE "end")
    BY DEF RunnerStep, WorkerStep, CountsConversations, AtRun, ChainInv, ChainTypes
<1>2. CASE talks
    <2>1. WorkerGoes(w, "cancel")
        BY <1>1, <1>2
    <2>2. workers'[w].at = "cancel" /\ chain' = chain
        BY <1>1, <2>1, RunnerWent
    <2>3. ~Passed(w)'
        BY <2>2 DEF Passed
    <2> QED
        BY <1>1, <2>1, <2>2, <2>3, RunnerWent, GoesKept
<1>3. CASE ~talks
    <2>1. WorkerGoes(w, "end")
        BY <1>1, <1>3
    <2>2. chain \in QueuedAtInstall \ Backfills => Passed(w)
        BY <1>1, KindsOfChains DEF Passed
    <2> QED
        BY <1>1, <1>3, <2>1, <2>2, RunnerWent, GoesKept
<1> QED
    BY <1>2, <1>3

\* What every runner's step leaves to show.
LEMMA RunnerKept ==
    ASSUME ChainInv, NEW w \in Worker, RunnerStep(w), RowTypes',
           install = "here" /\ Coming /\ chain \in QueuedAtInstall \ Backfills => Coming',
           install = "here" /\ Coming /\ chain = ThePurge /\ talks' => Coming',
           chain \in Backfills /\ "killed" \notin odds /\ OneThread /\ PagesRead
               => (OneThread /\ PagesRead)'
    PROVE  Kept
<1>1. /\ UNCHANGED <<chain, odds, install, view, left>> /\ install # "none"
      /\ talks' => talks
      /\ UNCHANGED fillVars \/ WritesPage(w)
    BY RunnerFrame
<1>2. GoesOn'
    BY <1>1, StillGoesOn
<1>3. FilledIsBackfill'
    <2>1. CASE UNCHANGED fillVars
        BY <1>1, <2>1 DEF ChainInv, FilledIsBackfill, fillVars
    <2>2. CASE WritesPage(w)
        BY <1>1, <2>2 DEF WritesPage, FilledIsBackfill
    <2> QED
        BY <1>1, <2>1, <2>2
<1>4. Threaded'
    BY <1>1 DEF ChainInv, Threaded
<1> QED
    BY <1>2, <1>3, <1>4 DEF Kept

\* No row is live but the one that the live runner has.
LEMMA OnlyLive ==
    ASSUME RowTypes, OneThread, PagesRead, NEW w \in Worker, AtRun(w), workers[w].at # "end"
    PROVE  /\ Live(workers[w].slot) /\ ~Replacing /\ ~filled
           /\ \A s \in Slot : Live(s) => s = workers[w].slot
           /\ \A u \in Worker : AtRun(u) /\ workers[u].at # "end" => u = w
<1>1. workers[w].slot \in Slot /\ Live(workers[w].slot)
    BY RunParts DEF Live, Runs
<1>2. ~Replacing /\ ~filled /\ \A s \in Slot : Live(s) => s = workers[w].slot
    BY <1>1 DEF OneThread, PagesRead
<1>3. ASSUME NEW u \in Worker, AtRun(u), workers[u].at # "end" PROVE u = w
    <2>1. workers[u].slot \in Slot /\ Live(workers[u].slot)
        BY <1>3, RunParts DEF Live, Runs
    <2> QED
        BY <1>2, <1>3, <2>1 DEF RowTypes
<1> QED
    BY <1>1, <1>2, <1>3

LEMMA WritesPageKept == ASSUME ChainInv, NEW w \in Worker, WritesPage(w) PROVE Kept
<1> DEFINE page == workers[w].cursor + 1
<1>1. /\ RunnerStep(w) /\ AtRun(w) /\ workers[w].at = "work" /\ RowTypes /\ chain \in Backfills
      /\ UNCHANGED <<odds, chain, view, rowsVars>>
      /\ pages' = pages \cup {page}
      /\ \/ /\ page < LastPage /\ cursor' = page /\ WorkerGoes(w, "create") /\ filled' = filled
         \/ /\ ~(page < LastPage) /\ cursor' = 0 /\ filled' = TRUE /\ WorkerGoes(w, "end")
    BY DEF RunnerStep, WorkerStep, WritesPage, AtRun, ChainInv, ChainTypes
<1> HIDE DEF page
<1>2. PICK to \in {"create", "end"} : WorkerGoes(w, to)
    BY <1>1
<1>3. /\ workers' \in [Worker -> {Resting} \cup Running]
      /\ workers'[w].at = to /\ workers'[w].cursor = workers[w].cursor
      /\ \A u \in Worker : u # w => workers'[u] = workers[u]
      /\ \A u \in Worker : (AtRun(u)' <=> AtRun(u)) /\ workers'[u].slot = workers[u].slot
    BY <1>1, <1>2, RunnerWent
<1>4. RowTypes'
    BY <1>1, <1>3, AppsStay DEF RowTypes, rowsVars
<1>5. ASSUME "killed" \notin odds, OneThread, PagesRead PROVE (OneThread /\ PagesRead)'
    <2>1. /\ Live(workers[w].slot) /\ ~Replacing /\ ~filled
          /\ \A s \in Slot : Live(s) => s = workers[w].slot
          /\ \A u \in Worker : AtRun(u) /\ workers[u].at # "end" => u = w
        BY <1>1, <1>5, OnlyLive
    <2>2. \A u \in Worker, s \in Slot : Runs(u, s)' <=> Runs(u, s)
        BY <1>3 DEF Runs
    <2>3. \A s \in Slot : Live(s)' => Live(s)
        BY <1>1, <1>3, <2>2 DEF Live, Runs, AtRun, rowsVars
    <2>4. OneThread'
        BY <1>1, <1>5, <2>1, <2>2, <2>3 DEF OneThread, Replacing, rowsVars
    <2>5. page = cursor + 1 /\ pages = 1 .. cursor /\ cursor \in 0 .. LastPage - 1
        BY <1>1, <1>5, <2>1 DEF PagesRead, ChainInv, ChainTypes, ShopTypes, page
    <2>6. \A u \in Worker : workers'[u].at # "work"
        BY <1>1, <1>3, <2>1 DEF AtRun
    <2>7. CASE page < LastPage
        <3>1. cursor' = page /\ filled' = FALSE
            BY <1>1, <2>1, <2>7 DEF ChainInv, ChainTypes, ShopTypes
        <3>2. pages' = 1 .. page
            BY <1>1, <2>5, ChainBounds
        <3>3. view'.at \notin {"restart", "cancel", "create"}
            BY <1>1, <2>1 DEF Replacing
        <3> QED
            BY <2>4, <2>6, <3>1, <3>2, <3>3 DEF PagesRead
    <2>8. CASE ~(page < LastPage)
        <3>1. cursor' = 0 /\ filled' = TRUE /\ WorkerGoes(w, "end") /\ page = LastPage
            BY <1>1, <2>5, <2>8, ChainBounds
        <3>2. pages' = 1 .. LastPage
            BY <1>1, <2>5, <3>1, ChainBounds
        <3>3. workers'[w].at = "end"
            BY <1>1, <3>1, RunnerWent
        <3>4. ASSUME NEW s \in Slot, Live(s)' PROVE FALSE
            <4>1. s = workers[w].slot /\ slots'[s] = "RUNNING"
                BY <1>1, <2>1, <2>3, <3>4, RunParts DEF rowsVars
            <4>2. PICK u \in Worker : Runs(u, s)' /\ workers'[u].at # "end"
                BY <3>4, <4>1 DEF Live
            <4> QED
                BY <1>1, <1>3, <2>2, <3>3, <4>1, <4>2 DEF Runs, RowTypes
        <3>5. view'.at \notin {"restart", "cancel", "create"}
            BY <1>1, <2>1 DEF Replacing
        <3> QED
            BY <2>4, <2>6, <3>1, <3>2, <3>4, <3>5 DEF PagesRead
    <2> QED
        BY <2>4, <2>7, <2>8
<1>6. chain # ThePurge
    BY <1>1, KindsOfChains
<1> QED
    BY <1>1, <1>4, <1>5, <1>6, RunnerKept

LEMMA CancelsKept == ASSUME ChainInv, NEW w \in Worker, Cancels(w) PROVE Kept
<1>1. /\ RunnerStep(w) /\ AtRun(w) /\ workers[w].at = "cancel" /\ RowTypes
      /\ UNCHANGED <<odds, chain, view, fillVars>> /\ CancelPending /\ WorkerGoes(w, "create")
    BY DEF RunnerStep, WorkerStep, Cancels, AtRun, ChainInv, ChainTypes
<1>2. /\ workers' \in [Worker -> {Resting} \cup Running]
      /\ workers'[w].at = "create" /\ workers'[w].cursor = workers[w].cursor
      /\ \A u \in Worker : u # w => workers'[u] = workers[u]
      /\ \A u \in Worker : (AtRun(u)' <=> AtRun(u)) /\ workers'[u].slot = workers[u].slot
    BY <1>1, RunnerWent
<1>3. /\ slots' \in [Slot -> {"FREE", "PENDING", "RUNNING"}] /\ tries' \in [Slot -> Nat]
      /\ \A s \in Slot : slots'[s] # "PENDING"
      /\ \A s \in Slot : slots'[s] = "RUNNING" <=> slots[s] = "RUNNING"
    BY <1>1, Cancelled
<1>4. RowTypes'
    <2>1. \A u \in Worker : AtRun(u) => workers[u].slot \in Slot /\ slots[workers[u].slot] = "RUNNING"
        BY <1>1, RunParts
    <2> QED
        BY <1>1, <1>2, <1>3, <2>1, AppsStay
<1>5. Coming'
    <2>1. PICK s \in Slot : s = workers[w].slot
        BY <1>1, RunParts
    <2>2. slots'[s] = "RUNNING"
        BY <1>1, <1>3, <2>1, RunParts
    <2>3. ~Passed(w)'
        BY <1>2 DEF Passed
    <2>4. \A u \in Worker : Runs(u, s)' => u = w
        BY <1>1, <1>2, <2>1 DEF Runs, RowTypes
    <2> QED
        BY <2>2, <2>3, <2>4 DEF Coming, IsAhead
<1>6. ASSUME OneThread, PagesRead PROVE (OneThread /\ PagesRead)'
    <2>1. \A u \in Worker, s \in Slot : Runs(u, s)' <=> Runs(u, s)
        BY <1>2 DEF Runs
    <2>2. \A s \in Slot : Live(s)' => Live(s)
        BY <1>1, <1>2, <1>3, <2>1 DEF Live, Runs, AtRun
    <2>3. \A s \in Slot : slots'[s] = "RUNNING" => \E u \in Worker : Runs(u, s)'
        BY <1>3, <1>6, <2>1 DEF OneThread
    <2>4. \A u \in Worker : workers'[u].at = "work" => workers'[u].cursor = cursor
        BY <1>2, <1>6 DEF PagesRead
    <2> QED
        BY <1>1, <1>6, <2>2, <2>3, <2>4, StillThreaded
<1> QED
    BY <1>1, <1>4, <1>5, <1>6, RunnerKept

LEMMA CreatesKept == ASSUME ChainInv, NEW w \in Worker, Creates(w) PROVE Kept
<1>1. /\ RunnerStep(w) /\ AtRun(w) /\ workers[w].at = "create" /\ RowTypes
      /\ UNCHANGED <<odds, chain, view, fillVars>> /\ CreateRow
      /\ WorkerGoes(w, IF chain \in Recurring THEN "work" ELSE "end")
    BY DEF RunnerStep, WorkerStep, Creates, AtRun, ChainInv, ChainTypes
<1>2. PICK to \in {"work", "end"} :
          WorkerGoes(w, to) /\ (chain \in Backfills => to = "end")
    BY <1>1, KindsOfChains
<1>3. /\ workers' \in [Worker -> {Resting} \cup Running]
      /\ workers'[w].at = to /\ workers'[w].cursor = workers[w].cursor
      /\ \A u \in Worker : u # w => workers'[u] = workers[u]
      /\ \A u \in Worker : (AtRun(u)' <=> AtRun(u)) /\ workers'[u].slot = workers[u].slot
    BY <1>1, <1>2, RunnerWent
<1>4. slots' \in [Slot -> {"FREE", "PENDING", "RUNNING"}] /\ tries' \in [Slot -> Nat]
    BY <1>1, Created
<1>5. PICK s \in Slot : /\ slots[s] = "FREE" /\ slots'[s] = "PENDING"
                        /\ \A q \in Slot : q # s => slots'[q] = slots[q]
    BY <1>1, Created
<1>6. RowTypes'
    <2>1. \A u \in Worker : AtRun(u) =>
              workers[u].slot \in Slot /\ slots[workers[u].slot] = "RUNNING"
        BY <1>1, RunParts
    <2> QED
        BY <1>1, <1>3, <1>4, <1>5, <2>1, AppsStay
<1>7. Coming'
    BY <1>5 DEF Coming, IsAhead
<1>8. ASSUME chain \in Backfills, OneThread, PagesRead PROVE (OneThread /\ PagesRead)'
    <2>1. /\ ~Replacing /\ ~filled
          /\ \A u \in Worker : AtRun(u) /\ workers[u].at # "end" => u = w
          /\ \A q \in Slot : Live(q) => q = workers[w].slot
        BY <1>1, <1>8, OnlyLive
    <2>2. \A u \in Worker, q \in Slot : Runs(u, q)' <=> Runs(u, q)
        BY <1>3 DEF Runs
    <2>3. \A u \in Worker : AtRun(u)' => workers'[u].at = "end"
        BY <1>2, <1>3, <1>8, <2>1
    <2>4. ASSUME NEW q \in Slot, Live(q)' PROVE q = s
        <3>1. slots'[q] = "PENDING"
            BY <2>3, <2>4 DEF Live, Runs
        <3>2. CASE q # s
            <4>1. Live(q) /\ slots[q] = "PENDING"
                BY <1>5, <3>1, <3>2 DEF Live
            <4> QED
                BY <1>1, <2>1, <4>1, RunParts
        <3> QED
            BY <3>2
    <2>5. view'.at \notin {"restart", "cancel", "create"}
        BY <1>1, <2>1 DEF Replacing
    <2>6. \A q \in Slot : slots'[q] = "RUNNING" => \E u \in Worker : Runs(u, q)'
        BY <1>5, <1>8, <2>2 DEF OneThread
    <2>7. OneThread'
        BY <2>4, <2>5, <2>6 DEF OneThread, Replacing
    <2>8. \A u \in Worker : workers'[u].at # "work"
        BY <2>3 DEF AtRun
    <2>9. PagesRead'
        BY <1>1, <1>8, <2>1, <2>5, <2>8 DEF PagesRead, fillVars
    <2> QED
        BY <2>7, <2>9
<1> QED
    BY <1>1, <1>6, <1>7, <1>8, RunnerKept

\* A runner lets go of its row, which may wait again.
LEMMA RowLetGo ==
    ASSUME RowTypes, NEW w \in Worker, AtRun(w), UNCHANGED <<chain, view, fillVars>>,
           NEW to \in {"FREE", "PENDING"},
           slots' = [slots EXCEPT ![workers[w].slot] = to], tries' \in [Slot -> Nat],
           workers' = [workers EXCEPT ![w] = Resting]
    PROVE  /\ RowTypes'
           /\ Coming /\ Passed(w) => Coming'
           /\ OneThread /\ PagesRead /\ (to = "FREE" \/ workers[w].at # "end")
                  => (OneThread /\ PagesRead)'
<1>1. PICK s \in Slot : s = workers[w].slot /\ slots[s] = "RUNNING"
    BY RunParts
<1>2. /\ slots'[s] = to /\ \A q \in Slot : q # s => slots'[q] = slots[q]
      /\ slots' \in [Slot -> {"FREE", "PENDING", "RUNNING"}]
    BY <1>1 DEF RowTypes
<1>3. /\ workers' \in [Worker -> {Resting} \cup Running]
      /\ workers'[w] = Resting /\ \A u \in Worker : u # w => workers'[u] = workers[u]
    BY DEF RowTypes
<1>4. ~AtRun(w)'
    BY <1>3 DEF AtRun, Resting
<1>5. \A u \in Worker : AtRun(u)' => u # w /\ AtRun(u) /\ workers'[u].slot = workers[u].slot
    BY <1>3, <1>4 DEF AtRun
<1>6. \A u \in Worker : AtRun(u) =>
          workers[u].slot \in Slot /\ slots[workers[u].slot] = "RUNNING"
    BY RunParts
<1>7. \A u \in Worker : AtRun(u)' => workers[u].slot # s
    BY <1>1, <1>5 DEF RowTypes
<1>8. RowTypes'
    BY <1>2, <1>3, <1>5, <1>6, <1>7, AppsStay
<1>9. \A u \in Worker, q \in Slot : q # s => (Runs(u, q)' <=> Runs(u, q))
    BY <1>1, <1>3, <1>5 DEF Runs, AtRun
<1>10. \A u \in Worker : ~Runs(u, s)'
    BY <1>5, <1>7 DEF Runs
<1>11. ASSUME Coming, Passed(w) PROVE Coming'
    <2>1. PICK q \in Slot : IsAhead(q)
        BY <1>11 DEF Coming
    <2>2. q # s
        BY <1>1, <1>11, <2>1 DEF IsAhead, Runs
    <2>3. \A u \in Worker : Passed(u)' => Passed(u)
        BY <1>3, <1>11 DEF Passed
    <2>4. IsAhead(q)'
        BY <1>2, <1>9, <2>1, <2>2, <2>3 DEF IsAhead
    <2> QED
        BY <2>4 DEF Coming
<1>12. ASSUME OneThread, PagesRead, to = "FREE" \/ workers[w].at # "end"
       PROVE  (OneThread /\ PagesRead)'
    <2>1. ASSUME NEW q \in Slot, Live(q)' PROVE Live(q)
        <3>1. CASE q = s
            <4>1. to = "PENDING"
                BY <1>2, <1>10, <2>1, <3>1 DEF Live
            <4> QED
                BY <1>1, <1>12, <3>1, <4>1 DEF Live, Runs
        <3>2. CASE q # s
            BY <1>2, <1>3, <1>5, <1>9, <2>1, <3>2 DEF Live, Runs
        <3> QED
            BY <3>1, <3>2
    <2>2. \A q \in Slot : slots'[q] = "RUNNING" => \E u \in Worker : Runs(u, q)'
        BY <1>2, <1>9, <1>12 DEF OneThread
    <2>3. \A u \in Worker : workers'[u].at = "work" => workers'[u].cursor = cursor
        BY <1>3, <1>12 DEF PagesRead, Resting
    <2> QED
        BY <1>12, <2>1, <2>2, <2>3, StillThreaded
<1> QED
    BY <1>8, <1>11, <1>12

LEMMA EndsKept == ASSUME ChainInv, NEW w \in Worker, Ends(w) PROVE Kept
<1>1. /\ RunnerStep(w) /\ AtRun(w) /\ workers[w].at = "end" /\ RowTypes
      /\ UNCHANGED <<chain, view, fillVars>>
      /\ slots' = [slots EXCEPT ![workers[w].slot] = "FREE"]
      /\ tries' = [tries EXCEPT ![workers[w].slot] = 0]
      /\ workers' = [workers EXCEPT ![w] = Resting]
    BY DEF RunnerStep, WorkerStep, Ends, AtRun, ChainInv, ChainTypes
<1>2. tries' \in [Slot -> Nat]
    BY <1>1 DEF RowTypes
<1>3. Passed(w)
    BY <1>1 DEF Passed
<1> QED
    BY <1>1, <1>2, <1>3, RowLetGo, RunnerKept

LEMMA FailsKept == ASSUME ChainInv, NEW w \in Worker, Fails(w) PROVE Kept
<1>1. /\ RunnerStep(w) /\ AtRun(w) /\ workers[w].at = "work" /\ RowTypes
      /\ UNCHANGED <<chain, view, fillVars, tries>> /\ chain # ThePurge
      /\ workers' = [workers EXCEPT ![w] = Resting]
    BY DEF RunnerStep, WorkerStep, Fails, AtRun, ChainInv, ChainTypes, ThePurge
<1>2. PICK to \in {"FREE", "PENDING"} : slots' = [slots EXCEPT ![workers[w].slot] = to]
    <2>1. CASE tries[workers[w].slot] >= MaxTries
        BY <2>1 DEF Fails
    <2>2. CASE ~(tries[workers[w].slot] >= MaxTries)
        BY <2>2 DEF Fails
    <2> QED
        BY <2>1, <2>2
<1>3. tries' \in [Slot -> Nat]
    BY <1>1 DEF RowTypes
<1>4. Passed(w)
    BY <1>1 DEF Passed
<1> QED
    BY <1>1, <1>2, <1>3, <1>4, RowLetGo, RunnerKept

LEMMA WorkerKilledKept == ASSUME ChainInv, NEW w \in Worker, WorkerKilled(w) PROVE Kept
<1>1. /\ RunnerStep(w) /\ AtRun(w) /\ RowTypes /\ "killed" \in odds
      /\ UNCHANGED <<chain, odds, slots, tries>>
      /\ workers' = [workers EXCEPT ![w] = Resting]
    BY DEF RunnerStep, WorkerKilled, AtRun, ChainInv, ChainTypes, rowsVars
<1>2. /\ workers' \in [Worker -> {Resting} \cup Running]
      /\ workers'[w] = Resting /\ \A u \in Worker : u # w => workers'[u] = workers[u]
    BY <1>1 DEF RowTypes
<1>3. \A u \in Worker : AtRun(u)' => u # w /\ AtRun(u) /\ workers'[u].slot = workers[u].slot
    BY <1>2 DEF AtRun, Resting
<1>4. RowTypes'
    BY <1>1, <1>2, <1>3, AppsStay DEF RowTypes
<1>5. PICK s \in Slot : s = workers[w].slot /\ slots[s] = "RUNNING"
    BY <1>1, RunParts
<1>6. \A u \in Worker : ~Runs(u, s)'
    BY <1>1, <1>3, <1>5 DEF Runs, RowTypes
<1>7. Coming'
    BY <1>1, <1>5, <1>6 DEF Coming, IsAhead
<1> QED
    BY <1>1, <1>4, <1>7, RunnerKept

LEMMA ClaimKept ==
    ASSUME ChainInv, NEW w \in Worker, NEW s \in Slot, Claim(w, s) PROVE Kept
<1>1. /\ RunnerStep(w) /\ ~AtRun(w) /\ slots[s] = "PENDING" /\ RowTypes
      /\ UNCHANGED <<chain, view, fillVars>>
      /\ slots' = [slots EXCEPT ![s] = "RUNNING"] /\ tries' = [tries EXCEPT ![s] = @ + 1]
      /\ workers' = [workers EXCEPT ![w] = [at |-> "read", slot |-> s, cursor |-> 0]]
    BY DEF RunnerStep, Claim, AtRun, ChainInv, ChainTypes, IsPending
<1>2. [at |-> "read", slot |-> s, cursor |-> 0] \in Running
    BY ChainBounds DEF Running
<1>3. /\ workers' \in [Worker -> {Resting} \cup Running]
      /\ workers'[w] = [at |-> "read", slot |-> s, cursor |-> 0]
      /\ \A u \in Worker : u # w => workers'[u] = workers[u]
    BY <1>1, <1>2 DEF RowTypes
<1>4. /\ slots' \in [Slot -> {"FREE", "PENDING", "RUNNING"}] /\ slots'[s] = "RUNNING"
      /\ \A q \in Slot : q # s => slots'[q] = slots[q]
    BY <1>1 DEF RowTypes
<1>5. tries' \in [Slot -> Nat]
    BY <1>1 DEF RowTypes
<1>6. workers'[w].at = "read" /\ workers'[w].slot = s
    BY <1>3
<1>7. \A u \in Worker : AtRun(u) =>
          workers[u].slot \in Slot /\ slots[workers[u].slot] = "RUNNING" /\ workers[u].slot # s
    BY <1>1, RunParts
<1>8. \A u \in Worker : u # w => (AtRun(u)' <=> AtRun(u)) /\ workers'[u].slot = workers[u].slot
    BY <1>3 DEF AtRun
<1>9. \A u \in Worker : Runs(u, s)' <=> u = w
    BY <1>6, <1>7, <1>8 DEF Runs, AtRun
<1>10. \A u \in Worker, q \in Slot : q # s => (Runs(u, q)' <=> Runs(u, q))
    BY <1>1, <1>6, <1>8 DEF Runs
<1>11. RowTypes'
    <2>1. \A u, v \in Worker :
              AtRun(u)' /\ AtRun(v)' /\ workers'[u].slot = workers'[v].slot => u = v
        BY <1>1, <1>6, <1>7, <1>8 DEF RowTypes
    <2>2. \A u \in Worker : AtRun(u)' => slots'[workers'[u].slot] = "RUNNING"
        BY <1>4, <1>6, <1>7, <1>8
    <2> QED
        BY <1>3, <1>4, <1>5, <2>1, <2>2 DEF RowTypes
<1>12. Coming'
    <2>1. ~Passed(w)'
        BY <1>6 DEF Passed
    <2> QED
        BY <1>4, <1>9, <2>1 DEF Coming, IsAhead
<1>13. ASSUME OneThread, PagesRead PROVE (OneThread /\ PagesRead)'
    <2>1. ASSUME NEW q \in Slot, Live(q)' PROVE Live(q)
        <3>1. CASE q = s
            BY <1>1, <3>1 DEF Live
        <3>2. CASE q # s
            BY <1>1, <1>3, <1>4, <1>10, <2>1, <3>2 DEF Live, Runs
        <3> QED
            BY <3>1, <3>2
    <2>2. \A q \in Slot : slots'[q] = "RUNNING" => \E u \in Worker : Runs(u, q)'
        BY <1>4, <1>9, <1>10, <1>13 DEF OneThread
    <2>3. \A u \in Worker : workers'[u].at = "work" => workers'[u].cursor = cursor
        BY <1>3, <1>6, <1>13 DEF PagesRead
    <2> QED
        BY <1>1, <1>13, <2>1, <2>2, <2>3, StillThreaded
<1> QED
    BY <1>1, <1>11, <1>12, <1>13, RunnerKept

-----------------------------------------------------------------------------
(* The rows that were left, the page views, the uninstall                  *)

LEMMA RequeueKept == ASSUME ChainInv, NEW s \in Slot, requeueStuck(s) PROVE ChainInv'
<1>1. /\ RowTypes /\ ShopTypes /\ slots[s] = "RUNNING" /\ \A w \in Worker : ~Runs(w, s)
      /\ slots' = [slots EXCEPT ![s] = "PENDING"]
      /\ UNCHANGED <<chain, odds, install, tries, workers, view, fillVars, talks, countVars, left>>
    BY DEF requeueStuck, ChainInv, ChainTypes, Runs, AtRun
<1>2. /\ slots' \in [Slot -> {"FREE", "PENDING", "RUNNING"}] /\ slots'[s] = "PENDING"
      /\ \A q \in Slot : q # s => slots'[q] = slots[q]
    BY <1>1 DEF RowTypes
<1>3. RowTypes'
    <2>1. \A u \in Worker : AtRun(u) =>
              workers[u].slot \in Slot /\ slots[workers[u].slot] = "RUNNING" /\ workers[u].slot # s
        BY <1>1, RunParts DEF Runs
    <2>2. \A u \in Worker : AtRun(u)' => slots'[workers[u].slot] = "RUNNING"
        BY <1>1, <1>2, <2>1 DEF AtRun
    <2>3. workers' \in [Worker -> {Resting} \cup Running] /\ tries' \in [Slot -> Nat]
        BY <1>1 DEF RowTypes
    <2>4. \A u \in Worker : AtRun(u)' => AtRun(u) /\ workers'[u].slot = workers[u].slot
        BY <1>1 DEF AtRun
    <2> QED
        BY <1>1, <1>2, <2>2, <2>3, <2>4, AppsStay
<1>4. ShopTypes'
    BY <1>1 DEF ShopTypes, fillVars, countVars
<1>5. Coming'
    BY <1>2 DEF Coming, IsAhead
<1>6. GoesOn'
    BY <1>1, <1>5 DEF ChainInv, GoesOn
<1>7. Threaded' /\ FilledIsBackfill'
    BY <1>1 DEF ChainInv, Threaded, OneThread, FilledIsBackfill, fillVars
<1> QED
    BY <1>3, <1>4, <1>6, <1>7 DEF ChainInv, ChainTypes

\* A page view that leaves the rows alone.
LEMMA RowsSame ==
    ASSUME RowTypes, UNCHANGED <<chain, rowsVars, workers>>
    PROVE  /\ RowTypes' /\ (Coming' <=> Coming)
           /\ \A s \in Slot : Live(s)' <=> Live(s)
           /\ \A s \in Slot : (\E w \in Worker : Runs(w, s)') <=> (\E w \in Worker : Runs(w, s))
BY DEF RowTypes, Coming, IsAhead, Passed, Live, Runs, AtRun, rowsVars

LEMMA ViewBeginsKept == ASSUME ChainInv, ViewBegins PROVE ChainInv'
<1>1. /\ RowTypes /\ ShopTypes /\ view.at = "rest" /\ Move
      /\ UNCHANGED <<chain, odds, rowsVars, workers, fillVars, left>>
    BY DEF ViewBegins, createsShop, restoresShop, opensPage, startsConversation,
        ChainInv, ChainTypes
<1>2. /\ RowTypes' /\ (Coming' <=> Coming)
      /\ \A s \in Slot : Live(s)' <=> Live(s)
      /\ \A s \in Slot : (\E w \in Worker : Runs(w, s)') <=> (\E w \in Worker : Runs(w, s))
    BY <1>1, RowsSame
<1>3. moves' \in 0 .. MaxMoves /\ losses' \in 0 .. MaxLosses
    BY <1>1, ChainBounds DEF Move, ShopTypes
<1>4. FilledIsBackfill'
    BY <1>1 DEF ChainInv, FilledIsBackfill, fillVars
<1>5. CASE createsShop
    <2>1. /\ install = "none" /\ install' = "here" /\ talks' = talks
          /\ \/ chain \in QueuedAtInstall /\ view' = [at |-> "cancel"]
             \/ chain \notin QueuedAtInstall /\ view' = [at |-> "ensure"]
        BY <1>5 DEF createsShop, ViewGoes
    <2>2. /\ \A s \in Slot : slots[s] = "FREE"
          /\ ~filled /\ cursor = 0 /\ pages = {} /\ ~talks
        BY <2>1 DEF ChainInv, GoesOn
    <2>3. \A w \in Worker : ~AtRun(w)
        BY <1>1, <2>2, RunParts
    <2>4. GoesOn'
        BY <1>1, <2>1, <2>2 DEF ChainInv, GoesOn, Replacing
    <2>5. ASSUME chain \in Backfills PROVE (OneThread /\ PagesRead)'
        <3>1. view' = [at |-> "cancel"]
            BY <2>1, <2>5, KindsOfChains
        <3>2. \A s \in Slot : ~Live(s)'
            BY <1>2, <2>2, <2>3 DEF Live, Runs
        <3>3. OneThread'
            BY <1>1, <2>2, <3>2 DEF OneThread, rowsVars
        <3>4. PagesRead'
            BY <1>1, <2>2, <2>3, <3>1, <3>2 DEF PagesRead, fillVars, AtRun
        <3> QED
            BY <3>3, <3>4
    <2>6. Threaded'
        BY <1>1, <2>5 DEF Threaded
    <2>7. ShopTypes'
        BY <1>1, <1>3, <2>1 DEF ShopTypes, fillVars
    <2> QED
        BY <1>2, <1>4, <2>4, <2>6, <2>7 DEF ChainInv, ChainTypes
<1>6. CASE restoresShop
    <2>1. /\ install = "gone" /\ install' = "here" /\ talks' = talks /\ left
          /\ \/ filled /\ view' = [at |-> "restart"]
             \/ view' = [at |-> "ensure"]
        BY <1>6 DEF restoresShop, ViewGoes, ChainInv, GoesOn
    <2>2. GoesOn'
        BY <1>1, <2>1 DEF GoesOn
    <2>3. ASSUME OneThread, PagesRead PROVE (OneThread /\ PagesRead)'
        <3>1. OneThread'
            BY <1>1, <1>2, <2>1, <2>3 DEF OneThread, PagesRead, Replacing, rowsVars
        <3>2. PagesRead'
            BY <1>1, <1>2, <2>1, <2>3 DEF PagesRead, fillVars
        <3> QED
            BY <3>1, <3>2
    <2>4. Threaded'
        BY <1>1, <2>3 DEF ChainInv, Threaded
    <2>5. ShopTypes'
        BY <1>1, <1>3, <2>1 DEF ShopTypes, fillVars
    <2> QED
        BY <1>2, <1>4, <2>2, <2>4, <2>5 DEF ChainInv, ChainTypes
<1>7. CASE opensPage
    <2>1. /\ install = "here" /\ install' = "here" /\ talks' = talks
          /\ chain \in EnsuredByPages /\ view' = [at |-> "ensure"]
        BY <1>7 DEF opensPage, ViewGoes
    <2>2. GoesOn'
        BY <1>1, <1>2, <2>1 DEF ChainInv, GoesOn, Replacing
    <2>3. Threaded'
        BY <1>1, <2>1, KindsOfChains DEF Threaded
    <2>4. ShopTypes'
        BY <1>1, <1>3, <2>1 DEF ShopTypes, fillVars
    <2> QED
        BY <1>2, <1>4, <2>2, <2>3, <2>4 DEF ChainInv, ChainTypes
<1>8. CASE startsConversation
    <2>1. /\ install = "here" /\ install' = "here" /\ talks' = TRUE
          /\ chain = ThePurge /\ view' = [at |-> "cancel"]
        BY <1>8 DEF startsConversation, ViewGoes, ThePurge
    <2>2. GoesOn'
        BY <2>1 DEF GoesOn, Replacing
    <2>3. Threaded'
        BY <1>1, <2>1, KindsOfChains DEF Threaded
    <2>4. ShopTypes'
        BY <1>1, <1>3, <2>1 DEF ShopTypes, fillVars
    <2> QED
        BY <1>2, <1>4, <2>2, <2>3, <2>4 DEF ChainInv, ChainTypes
<1> QED
    BY <1>5, <1>6, <1>7, <1>8 DEF ViewBegins

LEMMA RestartKept == ASSUME ChainInv, restartsBackfill PROVE ChainInv'
<1>1. /\ RowTypes /\ ShopTypes /\ view.at = "restart" /\ view' = [at |-> "cancel"]
      /\ cursor' = 0 /\ filled' = FALSE /\ pages' = {}
      /\ UNCHANGED <<chain, odds, install, rowsVars, workers, talks, countVars, left>>
    BY DEF restartsBackfill, ViewGoes, ChainInv, ChainTypes
<1>2. /\ RowTypes'
      /\ \A s \in Slot : Live(s)' <=> Live(s)
      /\ \A s \in Slot : (\E w \in Worker : Runs(w, s)') <=> (\E w \in Worker : Runs(w, s))
    BY <1>1, RowsSame
<1>3. GoesOn'
    BY <1>1 DEF ChainInv, GoesOn, Replacing
<1>4. ASSUME OneThread, PagesRead PROVE (OneThread /\ PagesRead)'
    <2>1. \A s \in Slot : ~Live(s)
        BY <1>1, <1>4 DEF OneThread, Replacing
    <2>2. OneThread'
        BY <1>1, <1>2, <1>4, <2>1 DEF OneThread, rowsVars
    <2>3. \A w \in Worker : workers[w].at # "work"
        BY <1>1, <2>1, RunParts DEF Live, Runs, AtRun
    <2>4. PagesRead'
        BY <1>1, <1>2, <2>1, <2>3 DEF PagesRead
    <2> QED
        BY <2>2, <2>4
<1>5. Threaded' /\ FilledIsBackfill'
    BY <1>1, <1>4 DEF ChainInv, Threaded, FilledIsBackfill
<1>6. ShopTypes'
    <2>1. cursor' \in 0 .. LastPage - 1
        BY <1>1, ChainBounds
    <2>2. filled' \in BOOLEAN
        BY <1>1
    <2> QED
        BY <1>1, <2>1, <2>2 DEF ShopTypes, countVars
<1> QED
    BY <1>2, <1>3, <1>5, <1>6 DEF ChainInv, ChainTypes

LEMMA EnsureKept == ASSUME ChainInv, ensureScheduled PROVE ChainInv'
<1>1. /\ RowTypes /\ ShopTypes /\ view.at = "ensure"
      /\ \/ view' = [at |-> "rest"]
         \/ chain \in EnsuredByPages /\ view' = [at |-> "cancel"]
      /\ UNCHANGED <<chain, odds, install, rowsVars, workers, fillVars, talks, countVars, left>>
    BY DEF ensureScheduled, ViewGoes, ChainInv, ChainTypes
<1>2. /\ RowTypes' /\ (Coming' <=> Coming)
      /\ \A s \in Slot : Live(s)' <=> Live(s)
      /\ \A s \in Slot : (\E w \in Worker : Runs(w, s)') <=> (\E w \in Worker : Runs(w, s))
    BY <1>1, RowsSame
<1>3. GoesOn'
    <2>1. install # "none" /\ ~Replacing
        BY <1>1 DEF ChainInv, GoesOn, Replacing
    <2>2. CASE view' = [at |-> "rest"]
        BY <1>1, <1>2, <2>1, <2>2 DEF ChainInv, GoesOn
    <2>3. CASE view' = [at |-> "cancel"]
        BY <1>1, <2>1, <2>3 DEF ChainInv, GoesOn, Replacing
    <2> QED
        BY <1>1, <2>2, <2>3
<1>4. ASSUME chain \in Backfills, OneThread, PagesRead PROVE (OneThread /\ PagesRead)'
    <2>1. view' = [at |-> "rest"]
        BY <1>1, <1>4, KindsOfChains
    <2>2. OneThread'
        BY <1>1, <1>2, <1>4, <2>1 DEF OneThread, Replacing, rowsVars
    <2>3. PagesRead'
        BY <1>1, <1>2, <1>4, <2>1 DEF PagesRead, fillVars
    <2> QED
        BY <2>2, <2>3
<1>5. Threaded' /\ FilledIsBackfill'
    BY <1>1, <1>4 DEF ChainInv, Threaded, FilledIsBackfill, fillVars
<1>6. ShopTypes'
    BY <1>1 DEF ShopTypes, countVars, fillVars
<1> QED
    BY <1>2, <1>3, <1>5, <1>6 DEF ChainInv, ChainTypes

LEMMA EnsureCancelsKept == ASSUME ChainInv, EnsureCancels PROVE ChainInv'
<1>1. /\ RowTypes /\ ShopTypes /\ view.at = "cancel" /\ view' = [at |-> "create"]
      /\ CancelPending
      /\ UNCHANGED <<chain, odds, install, workers, fillVars, talks, countVars, left>>
    BY DEF EnsureCancels, ViewGoes, ChainInv, ChainTypes
<1>2. /\ slots' \in [Slot -> {"FREE", "PENDING", "RUNNING"}] /\ tries' \in [Slot -> Nat]
      /\ \A s \in Slot : slots'[s] # "PENDING"
      /\ \A s \in Slot : slots'[s] = "RUNNING" <=> slots[s] = "RUNNING"
    BY <1>1, Cancelled
<1>3. RowTypes'
    <2>1. \A u \in Worker : AtRun(u) =>
              workers[u].slot \in Slot /\ slots[workers[u].slot] = "RUNNING"
        BY <1>1, RunParts
    <2>2. \A u \in Worker : AtRun(u)' => slots'[workers[u].slot] = "RUNNING"
        BY <1>1, <1>2, <2>1 DEF AtRun
    <2> QED
        BY <1>1, <1>2, <2>2, AppsStay DEF RowTypes, AtRun
<1>4. GoesOn'
    BY <1>1 DEF ChainInv, GoesOn, Replacing
<1>5. ASSUME OneThread, PagesRead PROVE (OneThread /\ PagesRead)'
    <2>1. \A s \in Slot : ~Live(s)
        BY <1>1, <1>5 DEF OneThread, Replacing
    <2>2. \A w \in Worker, s \in Slot : Runs(w, s)' <=> Runs(w, s)
        BY <1>1 DEF Runs, AtRun
    <2>3. \A s \in Slot : ~Live(s)'
        BY <1>1, <1>2, <2>1, <2>2 DEF Live
    <2>4. OneThread'
        BY <1>2, <1>5, <2>2, <2>3 DEF OneThread
    <2>5. PagesRead'
        BY <1>1, <1>5, <2>3 DEF PagesRead, fillVars
    <2> QED
        BY <2>4, <2>5
<1>6. Threaded' /\ FilledIsBackfill'
    BY <1>1, <1>5 DEF ChainInv, Threaded, FilledIsBackfill, fillVars
<1>7. ShopTypes'
    BY <1>1 DEF ShopTypes, countVars, fillVars
<1> QED
    BY <1>3, <1>4, <1>6, <1>7 DEF ChainInv, ChainTypes

LEMMA EnsureCreatesKept == ASSUME ChainInv, EnsureCreates PROVE ChainInv'
<1>1. /\ RowTypes /\ ShopTypes /\ view.at = "create" /\ view' = [at |-> "rest"]
      /\ CreateRow
      /\ UNCHANGED <<chain, odds, install, workers, fillVars, talks, countVars, left>>
    BY DEF EnsureCreates, ViewGoes, ChainInv, ChainTypes
<1>2. slots' \in [Slot -> {"FREE", "PENDING", "RUNNING"}] /\ tries' \in [Slot -> Nat]
    BY <1>1, Created
<1>3. PICK s \in Slot : /\ slots[s] = "FREE" /\ slots'[s] = "PENDING"
                        /\ \A q \in Slot : q # s => slots'[q] = slots[q]
    BY <1>1, Created
<1>4. RowTypes'
    <2>1. \A u \in Worker : AtRun(u) =>
              workers[u].slot \in Slot /\ slots[workers[u].slot] = "RUNNING"
        BY <1>1, RunParts
    <2>2. \A u \in Worker : AtRun(u)' => slots'[workers[u].slot] = "RUNNING"
        BY <1>1, <1>3, <2>1 DEF AtRun
    <2> QED
        BY <1>1, <1>2, <2>2, AppsStay DEF RowTypes, AtRun
<1>5. Coming' /\ install # "none"
    BY <1>1, <1>3 DEF Coming, IsAhead, ChainInv, GoesOn
<1>6. GoesOn'
    BY <1>1, <1>5 DEF ChainInv, GoesOn
<1>7. ASSUME OneThread, PagesRead PROVE (OneThread /\ PagesRead)'
    <2>1. \A q \in Slot : ~Live(q)
        BY <1>1, <1>7 DEF OneThread, Replacing
    <2>2. \A w \in Worker, q \in Slot : Runs(w, q)' <=> Runs(w, q)
        BY <1>1 DEF Runs, AtRun
    <2>3. \A q \in Slot : Live(q)' => q = s
        BY <1>1, <1>3, <2>1, <2>2 DEF Live
    <2>4. OneThread'
        BY <1>1, <1>3, <1>7, <2>2, <2>3 DEF OneThread, Replacing
    <2>5. PagesRead'
        BY <1>1, <1>7 DEF PagesRead, fillVars
    <2> QED
        BY <2>4, <2>5
<1>8. Threaded' /\ FilledIsBackfill'
    BY <1>1, <1>7 DEF ChainInv, Threaded, FilledIsBackfill, fillVars
<1>9. ShopTypes'
    BY <1>1 DEF ShopTypes, countVars, fillVars
<1> QED
    BY <1>4, <1>6, <1>8, <1>9 DEF ChainInv, ChainTypes

LEMMA ViewDiesKept == ASSUME ChainInv, ViewDies PROVE ChainInv'
<1>1. /\ RowTypes /\ ShopTypes /\ view.at # "rest" /\ view' = [at |-> "rest"] /\ Loss
      /\ left' = TRUE
      /\ UNCHANGED <<chain, odds, install, rowsVars, workers, fillVars, talks>>
    BY DEF ViewDies, ViewGoes, ChainInv, ChainTypes
<1>2. /\ RowTypes'
      /\ \A s \in Slot : Live(s)' <=> Live(s)
      /\ \A s \in Slot : (\E w \in Worker : Runs(w, s)') <=> (\E w \in Worker : Runs(w, s))
    BY <1>1, RowsSame
<1>3. GoesOn'
    BY <1>1 DEF ChainInv, GoesOn
<1>4. ASSUME OneThread, PagesRead PROVE (OneThread /\ PagesRead)'
    <2>1. OneThread'
        BY <1>1, <1>2, <1>4 DEF OneThread, Replacing, rowsVars
    <2>2. PagesRead'
        BY <1>1, <1>2, <1>4 DEF PagesRead, fillVars
    <2> QED
        BY <2>1, <2>2
<1>5. Threaded' /\ FilledIsBackfill'
    BY <1>1, <1>4 DEF ChainInv, Threaded, FilledIsBackfill, fillVars
<1>6. ShopTypes'
    BY <1>1, ChainBounds DEF ShopTypes, Loss, fillVars
<1> QED
    BY <1>2, <1>3, <1>5, <1>6 DEF ChainInv, ChainTypes

LEMMA UninstallsKept == ASSUME ChainInv, Uninstalls PROVE ChainInv'
<1>1. /\ RowTypes /\ ShopTypes /\ install' = "gone" /\ left' = TRUE /\ Move
      /\ UNCHANGED <<chain, odds, rowsVars, workers, view, fillVars, talks>>
    BY DEF Uninstalls, ChainInv, ChainTypes
<1>2. /\ RowTypes'
      /\ \A s \in Slot : Live(s)' <=> Live(s)
      /\ \A s \in Slot : (\E w \in Worker : Runs(w, s)') <=> (\E w \in Worker : Runs(w, s))
    BY <1>1, RowsSame
<1>3. GoesOn'
    BY <1>1 DEF GoesOn
<1>4. ASSUME OneThread, PagesRead PROVE (OneThread /\ PagesRead)'
    <2>1. OneThread'
        BY <1>1, <1>2, <1>4 DEF OneThread, Replacing, rowsVars
    <2>2. PagesRead'
        BY <1>1, <1>2, <1>4 DEF PagesRead, fillVars
    <2> QED
        BY <2>1, <2>2
<1>5. Threaded' /\ FilledIsBackfill'
    BY <1>1, <1>4 DEF ChainInv, Threaded, FilledIsBackfill, fillVars
<1>6. ShopTypes'
    BY <1>1, ChainBounds DEF ShopTypes, Move, fillVars
<1> QED
    BY <1>2, <1>3, <1>5, <1>6 DEF ChainInv, ChainTypes

-----------------------------------------------------------------------------
LEMMA ChainInitially == JobChainsInit => ChainInv
<1> SUFFICES ASSUME JobChainsInit PROVE ChainInv
    OBVIOUS
<1> USE DEF JobChainsInit
<1>1. RowTypes
    BY DEF RowTypes, Resting, AtRun
<1>2. ShopTypes
    <2>1. 0 \in 0 .. LastPage - 1 /\ 0 \in 0 .. MaxMoves /\ 0 \in 0 .. MaxLosses
        BY ChainBounds
    <2>2. view.at = "rest"
        BY DEF Resting
    <2>3. cursor \in 0 .. LastPage - 1 /\ moves \in 0 .. MaxMoves /\ losses \in 0 .. MaxLosses
        BY <2>1
    <2>4. filled \in BOOLEAN /\ talks \in BOOLEAN /\ left \in BOOLEAN
        OBVIOUS
    <2> QED
        BY <2>2, <2>3, <2>4 DEF ShopTypes
<1>3. GoesOn /\ FilledIsBackfill
    BY DEF GoesOn, FilledIsBackfill, Resting
<1>4. \A s \in Slot : ~Live(s)
    BY DEF Live, Runs, AtRun, Resting
<1>5. OneThread
    BY <1>4 DEF OneThread, Replacing, Resting
<1>6. PagesRead
    BY <1>4 DEF PagesRead, Resting
<1> QED
    BY <1>1, <1>2, <1>3, <1>5, <1>6 DEF ChainInv, ChainTypes, Threaded

LEMMA ChainStep == ChainInv /\ [JobChainsNext]_jobChainVars => ChainInv'
<1> SUFFICES ASSUME ChainInv, [JobChainsNext]_jobChainVars PROVE ChainInv'
    OBVIOUS
<1>1. ASSUME NEW w \in Worker, RunnerStep(w) PROVE ChainInv'
    <2>1. Kept
        BY <1>1, ReadsShopKept, CancelsKept, CreatesKept, EndsKept, WorksKept, WritesPageKept,
            PurgesKept, CountsKept, FailsKept, WorkerKilledKept, ClaimKept
            DEF RunnerStep, WorkerStep
    <2>2. ShopTypes'
        BY <1>1, RunnerFrame
    <2> QED
        BY <2>1, <2>2 DEF Kept, ChainInv, ChainTypes
<1>2. CASE ViewStep
    BY <1>2, RestartKept, EnsureKept, EnsureCancelsKept, EnsureCreatesKept DEF ViewStep
<1>3. CASE UNCHANGED jobChainVars
    <2>1. RowTypes' /\ (Coming' <=> Coming) /\ (\A s \in Slot : Live(s)' <=> Live(s))
          /\ \A s \in Slot : (\E w \in Worker : Runs(w, s)') <=> (\E w \in Worker : Runs(w, s))
        BY <1>3, RowsSame DEF jobChainVars, ChainInv, ChainTypes
    <2>2. ShopTypes' /\ FilledIsBackfill'
        BY <1>3 DEF jobChainVars, fillVars, countVars, ShopTypes, ChainInv, ChainTypes,
            FilledIsBackfill
    <2>3. GoesOn'
        BY <1>3, <2>1 DEF jobChainVars, fillVars, rowsVars, ChainInv, GoesOn, Replacing
    <2>4. OneThread => OneThread'
        BY <1>3, <2>1 DEF jobChainVars, rowsVars, OneThread, Replacing
    <2>5. PagesRead => PagesRead'
        BY <1>3, <2>1 DEF jobChainVars, fillVars, PagesRead
    <2>6. Threaded'
        BY <1>3, <2>4, <2>5 DEF jobChainVars, ChainInv, Threaded
    <2> QED
        BY <2>1, <2>2, <2>3, <2>6 DEF ChainInv, ChainTypes
<1> QED
    BY <1>1, <1>2, <1>3, RequeueKept, ViewBeginsKept, ViewDiesKept, UninstallsKept
        DEF JobChainsNext, RunnerStep

LEMMA ChainInvariant == JobChainsSpec => []ChainInv
BY ChainInitially, ChainStep, PTL DEF JobChainsSpec

\* The state of a shop's chains keeps its types (JobChains).
THEOREM ChainTypesHold == JobChainsSpec => []JobChainsTypeOK
<1>1. ChainInv => JobChainsTypeOK
    <2> SUFFICES ASSUME ChainInv PROVE JobChainsTypeOK
        OBVIOUS
    <2>1. \A w \in Worker :
              workers[w].at \in {"rest", "read", "cancel", "create", "work", "count", "end"}
        BY DEF ChainInv, ChainTypes, RowTypes, Running, Resting
    <2> QED
        BY <2>1 DEF ChainInv, ChainTypes, RowTypes, ShopTypes, JobChainsTypeOK
<1> QED
    BY <1>1, ChainInvariant, PTL

\* Of a shop that was started, that was never uninstalled and whose page views
\* never died half way: a chain that was queued at install and is no backfill,
\* and the purge of kept conversations, always have a run queued or under way,
\* whatever runs fail or runners die.  And where no runner dies, a backfill that
\* says it is done has read every page (app/lib/jobs/handlers).
THEOREM WorkKeptUp == JobChainsSpec => []WorkIsKept
<1>1. ChainInv => ChainsLive
    <2> SUFFICES ASSUME ChainInv, install = "here", view.at = "rest", ~left
                 PROVE  /\ chain \in QueuedAtInstall \ Backfills => IsComing
                        /\ chain = ThePurge /\ talks => IsComing
        BY DEF ChainsLive, Started, ThePurge
    <2>1. Coming => IsComing
        BY DEF Coming, IsAhead, IsComing
    <2> QED
        BY <2>1 DEF ChainInv, GoesOn, Replacing
<1>2. ChainInv => BackfillIsWhole
    BY DEF ChainInv, FilledIsBackfill, Threaded, PagesRead, BackfillIsWhole
<1> QED
    BY <1>1, <1>2, ChainInvariant, PTL DEF WorkIsKept
=============================================================================
