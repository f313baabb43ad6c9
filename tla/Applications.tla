----------------------------- MODULE Applications -----------------------------
(***************************************************************************)
(* The wholesale applications of one buyer: submitted through a form       *)
(* (app/lib/forms/submissions.server.ts), screened and decided by two jobs *)
(* (jobs/handlers/screen-applications, decide-applications), decided on,   *)
(* or a decision taken back, by the merchant (forms/decisions.server.ts).  *)
(*                                                                         *)
(* An approval writes in four places, one after the other: the customer in *)
(* Shopify, the mirror, the buyer's metafield, and the application itself, *)
(* by id and last.  `gusts` fixes what can go wrong in a behaviour.        *)
(* Answers, criteria and what the model makes of them are choices; a note, *)
(* an email or an audit entry changes nothing that is read again.          *)
(***************************************************************************)
EXTENDS Naturals, FiniteSets, Sequences

CONSTANTS
    App,            \* rows of FormSubmission; a row is taken when it is made
    Form,
    Visitor,        \* requests of the buyer
    Reviewer,       \* requests of the merchant
    Evaluator,      \* the evaluator's run
    Batch,          \* DECIDE_BATCH and SCREEN_BATCH
    Kinds,          \* the jobs that are run: "decide", "screen"
    Gusts,
    MaxAsks         \* bound: requests of the merchant

Perils == {"overlapped",    \* decisions on the buyer's applications overlap
           "doubled",       \* and so do the buyer's submissions
           "killed",        \* a request or run is killed between two steps
           "refused"}       \* Shopify refuses a call, which throws

ASSUME ApplicationsAssumption ==
    /\ Gusts \subseteq SUBSET Perils /\ Evaluator \notin Reviewer
    /\ Batch \in Nat \ {0} /\ MaxAsks \in Nat
    /\ Kinds \subseteq {"decide", "screen"}

VARIABLES
    gusts,
    apps,       \* the rows
    shopper,    \* Shopify: is there a customer, and are they tagged
    record,     \* our mirror of them: tag, group and approval
    told,       \* does the metafield say that they are in the group
    blocked,    \* is the buyer's domain blocked
    visits, desks, lists,   \* where each request, decision and run is
    queue,      \* the jobs that are pending
    asked,
    autos,      \* history: automatic approvals of each application
    undone      \* history: an approval was taken back

grantVars == <<shopper, record, told>>
caseVars  == <<gusts, visits, lists, queue, asked>>
historyVars == <<autos, undone>>
applicationsVars == <<caseVars, apps, grantVars, blocked, desks, historyVars>>

Decider == Reviewer \cup {Evaluator}

NoApp == [status |-> "NONE", form |-> 0, evaluated |-> FALSE,
          screening |-> "WAITING", undoable |-> FALSE]

OffDesk == [at |-> "idle"]

WaitingFor(kind) ==
    {a \in App : apps[a].status = "PENDING" /\
        IF kind = "decide" THEN ~apps[a].evaluated ELSE apps[a].screening = "WAITING"}

-----------------------------------------------------------------------------
(* submitForm: one application a form; spam and blocked domains are stored *)

NewCase(f, status) ==
    [NoApp EXCEPT !.status = status, !.form = f, !.evaluated = status = "REJECTED"]

RowMade(a, row) == apps[a].status = "NONE" /\ apps' = [apps EXCEPT ![a] = row]

submitForm(v, f) ==
    /\ visits[v].at = "idle" /\ \E a \in App : apps[a].status = "NONE"
    /\ "doubled" \notin gusts => \A u \in Visitor : visits[u].at = "idle"
    /\ \/ /\ \E a \in App : RowMade(a, NewCase(f, IF blocked THEN "REJECTED" ELSE "SPAM"))
          /\ UNCHANGED visits
       \/ /\ ~blocked
          /\ \A a \in App : apps[a].form = f => apps[a].status = "SPAM"
          /\ visits' = [visits EXCEPT ![v] = [at |-> "create", form |-> f]]
          /\ UNCHANGED apps
    /\ UNCHANGED <<gusts, grantVars, blocked, desks, lists, queue, asked, historyVars>>

SubmissionStored(v) ==
    /\ visits[v].at = "create"
    /\ \E a \in App : RowMade(a, NewCase(visits[v].form, "PENDING"))
    /\ visits' = [visits EXCEPT ![v].at = "decide"]
    /\ UNCHANGED <<gusts, grantVars, blocked, desks, lists, queue, asked, historyVars>>

SubmissionHalfQueued(v, kind) ==     \* mutant: a submission queues no screening
    /\ visits[v].at = kind
    /\ queue' = queue \cup ({kind} \cap Kinds \cap {"decide"})
    /\ visits' = [visits EXCEPT ![v] =
                    IF kind = "decide" THEN [@ EXCEPT !.at = "screen"] ELSE OffDesk]
    /\ UNCHANGED <<gusts, apps, grantVars, blocked, desks, lists, asked, historyVars>>

SubmissionQueued(v, kind) ==
    /\ visits[v].at = kind
    /\ queue' = queue \cup ({kind} \cap Kinds)
    /\ visits' = [visits EXCEPT ![v] =
                    IF kind = "decide" THEN [@ EXCEPT !.at = "screen"] ELSE OffDesk]
    /\ UNCHANGED <<gusts, apps, grantVars, blocked, desks, lists, asked, historyVars>>

-----------------------------------------------------------------------------
(* The two jobs read the oldest applications and go through them           *)

ListRead(kind, list) ==
    /\ lists[kind].at = "idle" /\ kind \in queue
    /\ queue' = queue \ {kind}
    /\ list \subseteq WaitingFor(kind)
    /\ Cardinality(list) = IF Cardinality(WaitingFor(kind)) < Batch
                             THEN Cardinality(WaitingFor(kind)) ELSE Batch
    /\ lists' = [lists EXCEPT ![kind] =
                    IF list = {} THEN OffDesk ELSE [at |-> "run", list |-> list]]

JobReads(kind) ==
    /\ \E list \in SUBSET App : ListRead(kind, list)
    /\ UNCHANGED <<gusts, apps, grantVars, blocked, visits, desks, asked, historyVars>>

ListPassed(kind, a) ==
    LET rest == lists[kind].list \ {a}
    IN  lists' = [lists EXCEPT ![kind] =
                    IF rest = {} THEN OffDesk ELSE [@ EXCEPT !.list = rest]]

(* Without a key, a plan or the merchant's leave all of them are OFF       *)
screenApplications ==
    /\ "screen" \in Kinds /\ lists["screen"].at = "run"
    /\ \/ \E a \in lists["screen"].list, verdict \in {"SCREENED", "UNAVAILABLE"} :
            /\ apps' = [apps EXCEPT ![a].screening = verdict]
            /\ ListPassed("screen", a)
       \/ /\ apps' = [a \in App |-> IF a \in lists["screen"].list
                        THEN [apps[a] EXCEPT !.screening = "OFF"] ELSE apps[a]]
          /\ lists' = [lists EXCEPT !["screen"] = OffDesk]
    /\ UNCHANGED <<gusts, grantVars, blocked, visits, desks, queue, asked, historyVars>>

MayDecide(d) ==
    /\ desks[d].at = "idle"
    /\ "overlapped" \notin gusts => \A e \in Decider : desks[e].at = "idle"

(* Stamped before the decision, whatever becomes of it                     *)
decideApplications(a) ==
    /\ "decide" \in Kinds /\ lists["decide"].at = "run" /\ a \in lists["decide"].list
    /\ MayDecide(Evaluator)
    /\ apps' = [apps EXCEPT ![a].evaluated = TRUE]
    /\ ListPassed("decide", a)
    /\ desks' = [desks EXCEPT ![Evaluator] = [at |-> "evaluate", app |-> a]]
    /\ UNCHANGED <<gusts, grantVars, blocked, visits, queue, asked, historyVars>>

-----------------------------------------------------------------------------
(* Decisions.  Each is read first, and written by id                       *)

DeskGoes(d, to)  == desks' = [desks EXCEPT ![d].at = to]
DeskBegins(d, a, to) == desks' = [desks EXCEPT ![d] = [at |-> to, app |-> a]]
DeskEnds(d)      == desks' = [desks EXCEPT ![d] = OffDesk]

(* criteria met or not, or left for a person; AlreadyDecided otherwise     *)
decideOnArrival ==
    /\ desks[Evaluator].at = "evaluate"
    /\ \/ /\ apps[desks[Evaluator].app].status = "PENDING"
          /\ \E to \in {"find", "reject"} : DeskGoes(Evaluator, to)
       \/ DeskEnds(Evaluator)
    /\ UNCHANGED <<caseVars, apps, grantVars, blocked, historyVars>>

Asks(d, a) ==
    /\ MayDecide(d) /\ asked < MaxAsks /\ asked' = asked + 1
    /\ \/ /\ apps[a].status = "PENDING"
          /\ \E to \in {"find", "reject"} : DeskBegins(d, a, to)
       \/ apps[a].status = "APPROVED" /\ apps[a].undoable /\ DeskBegins(d, a, "undo")
    /\ UNCHANGED <<gusts, apps, grantVars, blocked, visits, lists, queue, historyVars>>

(* approveSubmission: find the customer by email, tag them or create them  *)
findCustomerByEmail(d) ==
    /\ desks[d].at = "find"
    /\ DeskGoes(d, IF shopper.exists THEN "tag" ELSE "make")
    /\ UNCHANGED <<caseVars, apps, grantVars, blocked, historyVars>>

applyTags(d) ==
    /\ desks[d].at \in {"tag", "make"}
    /\ shopper' = [exists |-> TRUE, tagged |-> TRUE]
    /\ DeskGoes(d, "mirror")
    /\ UNCHANGED <<caseVars, apps, record, told, blocked, historyVars>>

MirrorCustomer(d) ==
    /\ desks[d].at = "mirror"
    /\ record' = [record EXCEPT !.tagged = TRUE]
    /\ DeskGoes(d, "join")
    /\ UNCHANGED <<caseVars, apps, shopper, told, blocked, historyVars>>

JoinsGroupUntold(d) ==     \* mutant: an approval is not published
    /\ desks[d].at = "join"
    /\ record' = [record EXCEPT !.member = TRUE, !.approved = TRUE]
    /\ DeskGoes(d, "approve")
    /\ UNCHANGED <<caseVars, apps, shopper, told, blocked, historyVars>>

JoinsGroup(d) ==
    /\ desks[d].at = "join"
    /\ record' = [record EXCEPT !.member = TRUE, !.approved = TRUE]
    /\ DeskGoes(d, "tell")
    /\ UNCHANGED <<caseVars, apps, shopper, told, blocked, historyVars>>

publishBuyerTerms(d) ==
    /\ desks[d].at \in {"tell", "untell"}
    /\ told' = (desks[d].at = "tell")
    /\ DeskGoes(d, IF desks[d].at = "tell" THEN "approve" ELSE "restore")
    /\ UNCHANGED <<caseVars, apps, shopper, record, blocked, historyVars>>

approveSubmission(d) ==
    /\ desks[d].at = "approve"
    /\ LET a == desks[d].app IN
         /\ apps' = [apps EXCEPT ![a].status = "APPROVED", ![a].undoable = TRUE]
         /\ autos' = IF d = Evaluator THEN [autos EXCEPT ![a] = @ + 1] ELSE autos
    /\ DeskEnds(d)
    /\ UNCHANGED <<caseVars, grantVars, blocked, undone>>

(* undoApproval: what this form and the buyer's group would have added     *)
TakeBackTags(d) ==
    /\ desks[d].at = "undo"
    /\ shopper' = [shopper EXCEPT !.tagged = FALSE]
    /\ undone' = TRUE
    /\ DeskGoes(d, "revert")
    /\ UNCHANGED <<caseVars, apps, record, told, blocked, autos>>

Reverted(d) ==
    /\ desks[d].at = "revert"
    /\ record' = [tagged |-> FALSE, member |-> FALSE, approved |-> FALSE]
    /\ DeskGoes(d, "untell")
    /\ UNCHANGED <<caseVars, apps, shopper, told, blocked, historyVars>>

undoApproval(d) ==
    /\ desks[d].at = "restore"
    /\ apps' = [apps EXCEPT ![desks[d].app].status = "PENDING",
                            ![desks[d].app].undoable = FALSE]
    /\ DeskEnds(d)
    /\ UNCHANGED <<caseVars, grantVars, blocked, historyVars>>

UndoWindowCloses(a) ==
    /\ apps[a].undoable
    /\ apps' = [apps EXCEPT ![a].undoable = FALSE]
    /\ UNCHANGED <<caseVars, grantVars, blocked, desks, historyVars>>

rejectSubmission(d) ==
    /\ desks[d].at = "reject"
    /\ apps' = [apps EXCEPT ![desks[d].app].status = "REJECTED"]
    /\ \/ d # Evaluator /\ ~blocked /\ DeskGoes(d, "block")
       \/ DeskEnds(d)
    /\ UNCHANGED <<caseVars, grantVars, blocked, historyVars>>

blockDomain(d) ==
    /\ desks[d].at = "block"
    /\ blocked' = TRUE
    /\ DeskEnds(d)
    /\ UNCHANGED <<caseVars, apps, grantVars, historyVars>>

unblockDomain ==
    /\ blocked /\ asked < MaxAsks /\ asked' = asked + 1
    /\ blocked' = FALSE
    /\ UNCHANGED <<gusts, apps, grantVars, visits, desks, lists, queue, historyVars>>

-----------------------------------------------------------------------------
(* What goes wrong.  A killed run is queued again; a refusal while the     *)
(* evaluator decides is caught, and the run goes on                        *)

DecisionRefused(d) ==
    /\ "refused" \in gusts /\ desks[d].at \in {"find", "tag", "make", "tell", "undo", "untell"}
    /\ DeskEnds(d)
    /\ UNCHANGED <<caseVars, apps, grantVars, blocked, historyVars>>

DeskKilled(d) ==
    /\ "killed" \in gusts /\ desks[d].at # "idle"
    /\ DeskEnds(d)
    /\ IF d = Evaluator THEN /\ lists' = [lists EXCEPT !["decide"] = OffDesk]
                        /\ queue' = queue \cup {"decide"}
                   ELSE UNCHANGED <<lists, queue>>
    /\ UNCHANGED <<gusts, apps, grantVars, blocked, visits, asked, historyVars>>

VisitorKilled(v) ==
    /\ "killed" \in gusts /\ visits[v].at # "idle"
    /\ visits' = [visits EXCEPT ![v] = OffDesk]
    /\ UNCHANGED <<gusts, apps, grantVars, blocked, desks, lists, queue, asked, historyVars>>

-----------------------------------------------------------------------------
ApplicationsInit ==
    /\ gusts \in Gusts
    /\ apps = [a \in App |-> NoApp]
    /\ \E exists \in BOOLEAN : shopper = [exists |-> exists, tagged |-> FALSE]
    /\ record = [tagged |-> FALSE, member |-> FALSE, approved |-> FALSE]
    /\ told = FALSE /\ blocked = FALSE
    /\ visits = [v \in Visitor |-> OffDesk]
    /\ desks = [d \in Decider |-> OffDesk]
    /\ lists = [kind \in Kinds |-> OffDesk]
    /\ queue = {}
    /\ asked = 0
    /\ autos = [a \in App |-> 0]
    /\ undone = FALSE

Submits(v) ==
    \/ SubmissionStored(v)
    \/ \E kind \in {"decide", "screen"} : SubmissionQueued(v, kind)

Decides(d) ==
    \/ findCustomerByEmail(d) \/ applyTags(d) \/ MirrorCustomer(d) \/ JoinsGroup(d)
    \/ publishBuyerTerms(d) \/ approveSubmission(d) \/ rejectSubmission(d) \/ blockDomain(d)
    \/ TakeBackTags(d) \/ Reverted(d) \/ undoApproval(d)

JobSteps ==
    \/ \E kind \in Kinds : JobReads(kind)
    \/ screenApplications
    \/ \E a \in App : decideApplications(a)
    \/ decideOnArrival

ApplicationsNext ==
    \/ \E v \in Visitor :
          (\E f \in Form : submitForm(v, f)) \/ Submits(v) \/ VisitorKilled(v)
    \/ \E d \in Decider : Decides(d) \/ DecisionRefused(d) \/ DeskKilled(d)
    \/ \E d \in Reviewer, a \in App : Asks(d, a)
    \/ JobSteps \/ unblockDomain
    \/ \E a \in App : UndoWindowCloses(a)

ApplicationsSpec == ApplicationsInit /\ [][ApplicationsNext]_applicationsVars

(* A submission that got through goes on, and the runner runs what is due: *)
(* nobody needs to submit or decide anything.                              *)
ApplicationsFairness ==
    /\ \A v \in Visitor : WF_applicationsVars(Submits(v))
    /\ WF_applicationsVars("screen" \in Kinds /\ JobReads("screen"))
    /\ WF_applicationsVars(screenApplications)

ApplicationsFairSpec == ApplicationsSpec /\ ApplicationsFairness

-----------------------------------------------------------------------------
(* The types of the state.                                                 *)
ApplicationsTypeOK ==
    /\ gusts \in Gusts
    /\ apps \in [App -> [status: {"NONE", "PENDING", "APPROVED", "REJECTED", "SPAM"},
                         form: Form \cup {0}, evaluated: BOOLEAN, undoable: BOOLEAN,
                         screening: {"WAITING", "SCREENED", "UNAVAILABLE", "OFF"}]]
    /\ shopper \in [exists: BOOLEAN, tagged: BOOLEAN]
    /\ record \in [tagged: BOOLEAN, member: BOOLEAN, approved: BOOLEAN]
    /\ {told, blocked, undone} \subseteq BOOLEAN
    /\ queue \subseteq Kinds /\ asked \in 0 .. MaxAsks /\ autos \in [App -> Nat]
    /\ \A kind \in Kinds : lists[kind].at \in {"idle", "run"}

StillOf(some) == gusts \cap some = {}

NobodyDecides == \A d \in Decider : desks[d].at = "idle"

ApprovedApps == {a \in App : apps[a].status = "APPROVED"}

Granted ==
    shopper.tagged /\ told /\ record = [tagged |-> TRUE, member |-> TRUE, approved |-> TRUE]

NotGranted == ~shopper.tagged /\ ~record.member /\ ~record.approved /\ ~told

(* An approved application is backed by what it promises, in Shopify, in   *)
(* the mirror and at checkout, whatever died or was refused half way, as   *)
(* long as decisions do not overlap and none was taken back; nobody buys   *)
(* wholesale without one, if nothing died or was refused; and the evaluator*)
(* approves an application once, not again when its run is repeated nor    *)
(* when the merchant took the approval back.                               *)
AccessMatches ==
    StillOf({"overlapped"}) =>
        /\ NobodyDecides /\ ~undone /\ ApprovedApps # {} => Granted
        /\ NobodyDecides /\ StillOf({"killed", "refused"}) /\ ApprovedApps = {} =>
              NotGranted
        /\ \A a \in App : autos[a] <= 1

(* screen-applications.server.ts:41: no application says "checking" for    *)
(* ever, unless the request that stored it was killed, more came at once   *)
(* than a run takes, or an approval made before the run was taken back.    *)
NoneChecksForever ==
    \A a \in App :
        []<>(\/ apps[a].status # "PENDING" \/ apps[a].screening # "WAITING"
             \/ undone \/ ~StillOf({"killed"}))

=============================================================================
