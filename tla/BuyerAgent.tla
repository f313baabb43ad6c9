---------------------------- MODULE BuyerAgent ----------------------------
(***************************************************************************)
(* The buyer agent (app/lib/agent/buyer): one buyer's conversations with   *)
(* it on the storefront, the merchant's rehearsals as that buyer, and the  *)
(* person who joins in.  A turn is one request of answerBuyerTurn: it asks *)
(* whether the buyer has had too many, reads the guardrails, finds or opens*)
(* a conversation, keeps the buyer's words, has the model choose a tool,   *)
(* runs it, keeps the reply and ranks the outcome.  Each statement that    *)
(* writes is a step, so turns, staff and the switches cross anywhere.      *)
(*                                                                         *)
(* What is said is a row of who and of what kind; its words, the prices in *)
(* it and the prompts are left out.  Which tool the model picks, and that  *)
(* a call of it fails, are choices.  The buyer is approved; the log purge  *)
(* and the job that is queued for it are in JobChains.                     *)
(***************************************************************************)
EXTENDS Integers, Sequences, FiniteSets

CONSTANTS
    Turn,          \* requests, each of which runs once
    First,         \* of them, the rehearsal a live shop had
    Staff,         \* the person who reads the log
    TurnLimit,     \* buyer messages in the window, ten minutes
    Verdicts,      \* outcomes of the tools that only read
    Scenes,        \* the sets of circumstances to consider
    MaxSwitches,   \* bound: changes of the guardrails
    MaxTyped       \* bound: replies a person types

Circumstances == {"live",        \* the agent was published before
                  "tuned",       \* the merchant changes the guardrails
                  "overlapped",  \* turns run side by side
                  "person",      \* staff joins the conversations
                  "paused",      \* an hour passes without a message
                  "lost"}        \* a turn ends in an exception

ASSUME BuyerAgentAssumption ==
    /\ Staff \notin Turn /\ First \in Turn
    /\ Verdicts \subseteq {"ANSWERED", "CART", "ESCALATED", "DECLINED"}
    /\ Scenes \subseteq SUBSET Circumstances
    /\ TurnLimit \in Nat /\ MaxSwitches \in Nat /\ MaxTyped \in Nat

VARIABLES
    scene,
    guardrails,   \* [live, reviewed, mayQuote], the agent's switches
    switches,
    threads,      \* AgentConversation, by age
    said,         \* AgentMessage, in insertion order (seq)
    filed,        \* the turns whose quote request was created
    lost,         \* the turns that ended in an exception
    at,           \* where each turn and the person are
    turn          \* what each of them has read and chosen

agentVars == <<scene, guardrails, switches, threads, said, filed, lost, at, turn>>

RANK == [FAILED |-> 0, DECLINED |-> 1, ANSWERED |-> 2, ESCALATED |-> 3,
         QUOTE |-> 4, CART |-> 5]

Outcomes == DOMAIN RANK

Utterance(i, who, kind, author) ==
    [thread |-> i, role |-> who, kind |-> kind, by |-> author]

Fresh(test) == [test |-> test, open |-> TRUE, fresh |-> TRUE,
                taken |-> FALSE, outcome |-> "FAILED"]

Unread == [test |-> FALSE, mayQuote |-> FALSE, thread |-> 0, taken |-> FALSE,
           from |-> 0, outcome |-> "FAILED"]

BuyerAgentInit ==
    /\ scene \in Scenes
    /\ switches = 0 /\ filed = {} /\ lost = {}
    /\ LET live == "live" \in scene
           before == IF live THEN {First} ELSE {}
       IN  /\ guardrails = [live |-> live, reviewed |-> live, mayQuote |-> TRUE]
           /\ threads = IF ~live THEN << >>
                        ELSE <<[Fresh(TRUE) EXCEPT !.outcome = "ANSWERED"]>>
           /\ said = IF live THEN <<Utterance(1, "BUYER", "asked", First),
                                    Utterance(1, "AGENT", "answered", First)>>
                     ELSE << >>
           /\ at = [a \in Turn \cup {Staff} |->
                      IF a \in before THEN "done" ELSE "idle"]
           /\ turn = [a \in Turn \cup {Staff} |->
                        IF a \in before
                        THEN [Unread EXCEPT !.test = TRUE, !.thread = 1]
                        ELSE Unread]

To(a, place) == at' = [at EXCEPT ![a] = place]

Learns(a, field, value) == turn' = [turn EXCEPT ![a][field] = value]

(***************************************************************************)
(* The switches (guardrails.server.ts, publish.server.ts)                  *)
(***************************************************************************)

(* A rehearsal that reached the model: the row carries aiModel.            *)
rehearsalCompleted ==
    \E m \in DOMAIN said : /\ threads[said[m].thread].test
                           /\ said[m].role = "AGENT"
                           /\ said[m].kind \in {"answered", "quoted"}

Switches(to) ==
    /\ "tuned" \in scene /\ switches < MaxSwitches
    /\ guardrails' = to /\ to # guardrails
    /\ switches' = switches + 1
    /\ UNCHANGED <<scene, threads, said, filed, lost, at, turn>>

(* That the shop has a rule and an approved buyer are facts of other parts.*)
PublishAgent ==
    /\ guardrails.reviewed /\ rehearsalCompleted
    /\ Switches([guardrails EXCEPT !.live = TRUE])

UnpublishAgent == Switches([guardrails EXCEPT !.live = FALSE])

MarkGuardrailsReviewed == Switches([guardrails EXCEPT !.reviewed = TRUE])

SaveGuardrails == Switches([guardrails EXCEPT !.mayQuote = ~@])

(***************************************************************************)
(* A turn, up to the buyer's words                                         *)
(***************************************************************************)
BuyerTurns ==
    {m \in DOMAIN said : /\ said[m].role = "BUYER"
                         /\ ~threads[said[m].thread].test}

(* Which of them are of the last ten minutes is a choice.                  *)
overTurnLimit(recent) == Cardinality(recent) >= TurnLimit

Ended == {"idle", "refused", "done"}

Begins(t) ==
    /\ at[t] = "idle"
    /\ "overlapped" \notin scene => \A u \in Turn : at[u] \in Ended

(* From the storefront (proxy.agent.tsx), which asks for the ceiling, ...  *)
BuyerAsks(t) ==
    /\ Begins(t)
    /\ \E recent \in SUBSET BuyerTurns :
         To(t, IF overTurnLimit(recent) THEN "refused" ELSE "asked")
    /\ UNCHANGED <<scene, guardrails, switches, threads, said, filed, lost, turn>>

(* ... or from the test page, which does not.                              *)
MerchantRehearses(t) ==
    /\ Begins(t)
    /\ To(t, "asked")
    /\ Learns(t, "test", TRUE)
    /\ UNCHANGED <<scene, guardrails, switches, threads, said, filed, lost>>

LoadsGuardrails(t) ==
    /\ at[t] = "asked"
    /\ To(t, IF guardrails.live \/ turn[t].test THEN "gated" ELSE "done")
    /\ Learns(t, "mayQuote", guardrails.mayQuote)
    /\ UNCHANGED <<scene, guardrails, switches, threads, said, filed, lost>>

(* openConversation joins one that is open and not idle.  Where there are  *)
(* several, which had the last message is left open.                       *)
Joinable(t) == {i \in DOMAIN threads : /\ threads[i].open /\ threads[i].fresh
                                       /\ threads[i].test = turn[t].test}

Joins(t, i, taken) ==
    turn' = [turn EXCEPT ![t].thread = i, ![t].taken = taken,
                         ![t].from = Len(said)]

FindsThread(t) ==
    /\ at[t] = "gated"
    /\ IF Joinable(t) = {}
       THEN To(t, "alone") /\ UNCHANGED turn
       ELSE /\ To(t, "joined")
            /\ \E i \in Joinable(t) : Joins(t, i, threads[i].taken)
    /\ UNCHANGED <<scene, guardrails, switches, threads, said, filed, lost>>

OpensThread(t) ==
    /\ at[t] = "alone"
    /\ threads' = Append(threads, Fresh(turn[t].test))
    /\ Joins(t, Len(threads) + 1, FALSE)
    /\ To(t, "joined")
    /\ UNCHANGED <<scene, guardrails, switches, said, filed, lost>>

(* appendTurn: the row and lastMessageAt, in one transaction.              *)
appendTurn(i, who, kind, author) ==
    /\ said' = Append(said, Utterance(i, who, kind, author))
    /\ threads' = [threads EXCEPT ![i].fresh = TRUE]

Recording(t, outcome) ==
    /\ Learns(t, "outcome", outcome)
    /\ To(t, "ranking")

(* The buyer's words are kept, and a turn that found a person there stops. *)
KeepsWordsOnly(t) ==
    /\ at[t] = "joined"
    /\ appendTurn(turn[t].thread, "BUYER", "asked", t)
    /\ To(t, "routing") /\ UNCHANGED turn
    /\ UNCHANGED <<scene, guardrails, switches, filed, lost>>
KeepsWords(t) ==
    /\ at[t] = "joined"
    /\ appendTurn(turn[t].thread, "BUYER", "asked", t)
    /\ IF turn[t].taken THEN Recording(t, "ESCALATED")
       ELSE To(t, "routing") /\ UNCHANGED turn
    /\ UNCHANGED <<scene, guardrails, switches, filed, lost>>

(***************************************************************************)
(* The tool, the reply and the outcome                                     *)
(***************************************************************************)
Says(t, kind, outcome) ==
    /\ appendTurn(turn[t].thread, "AGENT", kind, t)
    /\ Recording(t, outcome)
    /\ UNCHANGED <<scene, guardrails, switches, filed, lost>>

(* An off-limits subject, or a decline the model chose: from a script.     *)
Declines(t) == at[t] = "routing" /\ Says(t, "declined", "DECLINED")

FailsToRoute(t) == at[t] = "routing" /\ Says(t, "failed", "FAILED")

Writes(t, outcome) ==
    /\ at[t] = "routing"
    /\ To(t, "writing")
    /\ Learns(t, "outcome", outcome)
    /\ UNCHANGED <<scene, guardrails, switches, threads, said, lost>>

(* The tools that only read, with outcomeFor's answer: a refusal declines, *)
(* as escalating does in a rehearsal.                                      *)
RunsTool(t) ==
    /\ \E outcome \in Verdicts :
         /\ outcome = "ESCALATED" => ~turn[t].test
         /\ Writes(t, outcome)
    /\ UNCHANGED filed

(* request_quote, by the ability the turn read when it began.  What cannot *)
(* be priced afterwards is left to the merchant; the quote stands.         *)
requestQuote(t) ==
    /\ turn[t].mayQuote /\ ~turn[t].test
    /\ Writes(t, "QUOTE")
    /\ filed' = filed \cup {t}

(* A row of the transcript names what the tool created, whether the reply  *)
(* could be written or not (toolRecord).                                   *)
WritesReply(t) ==
    /\ at[t] = "writing"
    /\ Says(t, IF t \in filed THEN "quoted" ELSE "answered", turn[t].outcome)

CannotWrite(t) ==
    /\ at[t] = "writing"
    /\ Says(t, IF t \in filed THEN "failed_quoted" ELSE "failed", "FAILED")

(* recordOutcome: the read that ranks, and the write by id.                *)
Outranked(a) == RANK[threads[turn[a].thread].outcome] >= RANK[turn[a].outcome]

(* What it had read is forgotten; the properties ask for the rest.         *)
LetsGo(a) ==
    /\ To(a, IF a = Staff THEN "idle" ELSE "done")
    /\ turn' = [turn EXCEPT ![a].mayQuote = FALSE, ![a].taken = FALSE,
                            ![a].outcome = "FAILED"]

RanksOutcome(a) ==
    /\ at[a] = "ranking"
    /\ IF Outranked(a) THEN LetsGo(a) ELSE To(a, "marking") /\ UNCHANGED turn
    /\ UNCHANGED <<scene, guardrails, switches, threads, said, filed, lost>>

MarksOutcome(a) ==
    /\ at[a] = "marking"
    /\ threads' = [threads EXCEPT ![turn[a].thread].outcome = turn[a].outcome]
    /\ LetsGo(a)
    /\ UNCHANGED <<scene, guardrails, switches, said, filed, lost>>

(* An exception of Shopify or the database, or a process that dies.        *)
TurnIsLost(t) ==
    /\ "lost" \in scene /\ at[t] \notin Ended
    /\ lost' = lost \cup {t}
    /\ LetsGo(t)
    /\ UNCHANGED <<scene, guardrails, switches, threads, said, filed>>

(***************************************************************************)
(* The person (log.server.ts) and time                                     *)
(***************************************************************************)
Reads(i, next) ==
    /\ "person" \in scene /\ at[Staff] = "idle"
    /\ ~threads[i].test
    /\ turn' = [turn EXCEPT ![Staff] =
                  [Unread EXCEPT !.thread = i, !.taken = threads[i].taken,
                                 !.outcome = "ESCALATED"]]
    /\ To(Staff, next)
    /\ UNCHANGED <<scene, guardrails, switches, threads, said, filed, lost>>

BeginsTakeOver(i) == ~threads[i].taken /\ Reads(i, "claiming")

BeginsReply(i) == Reads(i, "typing")

TypedReplies == {m \in DOMAIN said : said[m].role = "MERCHANT"}

(* Conditional on nobody having joined since, and announced once.          *)
TakesOver ==
    LET i == turn[Staff].thread IN
    /\ at[Staff] = "claiming"
    /\ IF threads[i].taken THEN UNCHANGED <<threads, said>>
       ELSE /\ threads' = [threads EXCEPT ![i].taken = TRUE]
            /\ said' = Append(said, Utterance(i, "AGENT", "joined", Staff))
    /\ To(Staff, "ranking")
    /\ UNCHANGED <<scene, guardrails, switches, filed, lost, turn>>

RepliesAsMerchant ==
    LET i == turn[Staff].thread IN
    /\ at[Staff] = "typing"
    /\ Cardinality(TypedReplies) < MaxTyped
    /\ said' = Append(said, Utterance(i, "MERCHANT", "typed", Staff))
    /\ threads' = [threads EXCEPT ![i].taken = TRUE, ![i].fresh = TRUE]
    /\ IF turn[Staff].taken THEN LetsGo(Staff)
       ELSE To(Staff, "ranking") /\ UNCHANGED turn
    /\ UNCHANGED <<scene, guardrails, switches, filed, lost>>

(* An hour without a message.                                              *)
GoesIdle(i) ==
    /\ "paused" \in scene /\ threads[i].fresh
    /\ threads' = [threads EXCEPT ![i].fresh = FALSE]
    /\ UNCHANGED <<scene, guardrails, switches, said, filed, lost, at, turn>>

(* A fresh start was asked for on the test page.                           *)
closeRehearsal ==
    /\ \E i \in DOMAIN threads : threads[i].test /\ threads[i].open
    /\ threads' = [i \in DOMAIN threads |->
                     [threads[i] EXCEPT !.open = @ /\ ~threads[i].test]]
    /\ UNCHANGED <<scene, guardrails, switches, said, filed, lost, at, turn>>

TurnMoves(t) ==
    \/ BuyerAsks(t) \/ MerchantRehearses(t) \/ LoadsGuardrails(t)
    \/ FindsThread(t) \/ OpensThread(t) \/ KeepsWords(t)
    \/ Declines(t) \/ FailsToRoute(t) \/ RunsTool(t) \/ requestQuote(t)
    \/ WritesReply(t) \/ CannotWrite(t) \/ TurnIsLost(t)

BuyerAgentNext ==
    \/ \E t \in Turn : TurnMoves(t)
    \/ \E a \in Turn \cup {Staff} : RanksOutcome(a) \/ MarksOutcome(a)
    \/ \E i \in DOMAIN threads :
         BeginsTakeOver(i) \/ BeginsReply(i) \/ GoesIdle(i)
    \/ TakesOver \/ RepliesAsMerchant \/ closeRehearsal
    \/ PublishAgent \/ UnpublishAgent \/ MarkGuardrailsReviewed \/ SaveGuardrails

BuyerAgentSpec == BuyerAgentInit /\ [][BuyerAgentNext]_agentVars

(***************************************************************************)
(* Properties                                                              *)
(***************************************************************************)
BuyerAgentTypeOK ==
    /\ guardrails \in [live: BOOLEAN, reviewed: BOOLEAN, mayQuote: BOOLEAN]
    /\ switches \in 0 .. MaxSwitches
    /\ \A i \in DOMAIN threads :
         threads[i] \in [test: BOOLEAN, open: BOOLEAN, fresh: BOOLEAN,
                         taken: BOOLEAN, outcome: Outcomes]
    /\ \A m \in DOMAIN said : said[m].thread \in DOMAIN threads
    /\ filed \subseteq Turn /\ lost \subseteq Turn
    /\ \A t \in Turn : turn[t].thread \in 0 .. Len(threads)

Replied(m) ==
    said[m].role = "AGENT" /\ said[m].kind \in {"answered", "quoted", "declined"}

(* A turn that read the conversation after a person joined it says nothing *)
(* in it.  One that had read it before still may.                          *)
PersonIsHeard ==
    \A m, n \in DOMAIN said :
        /\ Replied(m)
        /\ said[n].kind \in {"joined", "typed"}
        /\ said[n].thread = said[m].thread
        => turn[said[m].by].from < n

(* Every quote the agent filed is named in the transcript of the turn that *)
(* filed it, also where the reply failed, once the turn has ended.         *)
FiledIsTold ==
    \A t \in filed :
        at[t] \in {"ranking", "marking", "done"} /\ t \notin lost =>
            \E m \in DOMAIN said : /\ said[m].by = t
                                   /\ said[m].thread = turn[t].thread
                                   /\ said[m].kind \in {"quoted", "failed_quoted"}

(* A rehearsal files nothing, says nothing in a buyer's conversation, lets *)
(* nobody join it, and does not use up the buyer's turns.                  *)
RehearsalsApart ==
    /\ \A t \in filed : ~turn[t].test
    /\ \A m \in DOMAIN said : threads[said[m].thread].test
         => said[m].by # Staff /\ turn[said[m].by].test
    /\ \A m \in DOMAIN said : ~threads[said[m].thread].test /\ said[m].by # Staff
         => ~turn[said[m].by].test
    /\ (\E t \in Turn : at[t] = "refused")
         => Cardinality(BuyerTurns) >= TurnLimit

(* The model answers a buyer only in a shop where it answered a rehearsal  *)
(* before and somebody read the guardrails.                                *)
RehearsedFirst ==
    guardrails.live \/ BuyerTurns # {} =>
        rehearsalCompleted /\ guardrails.reviewed

(* The outcome shown is one that happened there.                           *)
ChipIsEarned ==
    \A i \in DOMAIN threads :
        /\ threads[i].outcome = "QUOTE" =>
             \E m \in DOMAIN said : said[m].thread = i /\ said[m].kind = "quoted"
        /\ threads[i].outcome \in {"ANSWERED", "CART"} =>
             \E m \in DOMAIN said : said[m].thread = i /\ said[m].kind = "answered"

(* The agent never talks over a person it could have seen, tells what it   *)
(* filed, keeps rehearsals apart, and meets nobody before one: turn.server,*)
(* conversation.server, tools.server and publish.server.                   *)
AgentHonest ==
    /\ PersonIsHeard /\ FiledIsTold /\ RehearsalsApart
    /\ RehearsedFirst /\ ChipIsEarned
=============================================================================
