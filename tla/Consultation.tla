---------------------------- MODULE Consultation ----------------------------
(***************************************************************************)
(* Chat turns of one session, from the Java gateway through the agent's    *)
(* policy consultation and back (AgentGatewayServiceImpl, interface/       *)
(* http_server.py, agent/workflows/consultation.py, the session endpoints  *)
(* of InternalAgentToolsController).                                       *)
(*                                                                         *)
(* A turn has two ends that run on their own: the gateway, which waits for *)
(* the agent until its time limit and answers the user, and the agent      *)
(* thread, which goes on after the gateway gave up.  Both ends write the   *)
(* session row; a write is the whole row as it was read.                   *)
(***************************************************************************)
EXTENDS KnowledgeSearch

CONSTANT Turns      \* user messages sent in the session

VARIABLES
    corpus, asks,   \* the knowledge base, and the fields a search asks for
    configured,     \* whether a reranker is configured
    endpoint,       \* of each turn: "chat" or "stream"
    stage,          \* where the turn is
    row,            \* the session mode a turn read and will write back
    result,         \* the search result the answer of the turn rests on
    reply,          \* what the user of the turn got
    session,        \* mode of the session row
    undone          \* history: a write-back took the session from HUMAN to AI

inputs == <<corpus, asks, configured, endpoint>>
vars == <<corpus, asks, configured, endpoint, stage, row, result, reply, session, undone>>

\* The agent thread of the turn runs.
Running == {"search", "rewriting", "multi", "answering", "appending", "writing", "handing"}

Stages == {"new", "arriving", "sent", "over"} \cup Running

\* answer, handover: the agent's.  retry: a hand-over it could not confirm.
\* fallback: the gateway's promise of a human.  error: an exception or HTTP error.
Replies == {"none", "answer", "handover", "retry", "fallback", "error"}

Promises == {"handover", "fallback"}

NoResult == Untrusted("pgvector_relaxed_filters", Strict, {})

\* A chat asks for the category of the selected order, if there is one.
ChatFields == {"category"}

Init ==
    /\ corpus \in SUBSET {c \in Chunks : c.misses \subseteq ChatFields}
    /\ asks \in SUBSET ChatFields
    /\ configured \in BOOLEAN
    /\ endpoint \in [Turns -> {"chat", "stream"}]
    /\ stage = [t \in Turns |-> "new"]
    /\ row = [t \in Turns |-> "AI"]
    /\ result = [t \in Turns |-> NoResult]
    /\ reply = [t \in Turns |-> "none"]
    /\ session = "AI"
    /\ undone = FALSE

Goto(t, s) == stage' = [stage EXCEPT ![t] = s]

\* The user hears something only as long as the gateway waits.
Tell(t, what) == reply' = [reply EXCEPT ![t] = IF @ = "none" THEN what ELSE @]

\* What was read is of no use any more once it is written.
WriteBack(t) ==
    /\ session' = row[t]
    /\ row' = [row EXCEPT ![t] = "AI"]
    /\ undone' = (undone \/ (session = "HUMAN" /\ row[t] = "AI"))

-----------------------------------------------------------------------------
\* persistCurrentUserMessage reads the session and updates the whole row.
PersistReads(t) ==
    /\ stage[t] = "new"
    /\ row' = [row EXCEPT ![t] = session]
    /\ Goto(t, "arriving")
    /\ UNCHANGED <<inputs, result, reply, session, undone>>

PersistWrites(t) ==
    /\ stage[t] = "arriving"
    /\ WriteBack(t)
    /\ Goto(t, "sent")
    /\ UNCHANGED <<inputs, result, reply>>

\* markSessionWaitingForHuman, and the answer that says so.
Fallback(t) ==
    /\ session' = "HUMAN"
    /\ Tell(t, "fallback")
    /\ UNCHANGED undone

\* Mutant of GiveUp: a busy service is not a reason to fall back.
GiveUpOnServerErrors(t, code) ==
    IF endpoint[t] = "chat" /\ code # "429"
    THEN Fallback(t)
    ELSE Tell(t, "error") /\ UNCHANGED <<session, undone>>

\* Mutant of GiveUp: the exception's code is what the user gets.
GiveUpWithCode(t, code) == Tell(t, code) /\ UNCHANGED <<session, undone>>

\* The gateway gives up on the agent: a chat request falls back to a human, a
\* stream ends with an error.
GiveUp(t, code) ==
    IF endpoint[t] = "chat" /\ code \in {"429", "502", "503", "504"}
    THEN Fallback(t)
    ELSE Tell(t, "error") /\ UNCHANGED <<session, undone>>

\* A permit of the gateway and a place in the agent's server, both shared with
\* all other users, may be missing; so may the agent.
Rejected(t) ==
    /\ stage[t] = "sent"
    /\ \E code \in {"429", "502"} : GiveUp(t, code)
    /\ Goto(t, "over")
    /\ UNCHANGED <<inputs, row, result>>

\* The message may ask for a human in so many words.
Accepted(t) ==
    /\ stage[t] = "sent"
    /\ \E explicit \in BOOLEAN : Goto(t, IF explicit THEN "handing" ELSE "search")
    /\ UNCHANGED <<inputs, row, result, reply, session, undone>>

\* The time limit of the gateway: the agent thread goes on regardless.
GatewayTimesOut(t) ==
    /\ stage[t] \in Running
    /\ reply[t] = "none"
    /\ GiveUp(t, "502")
    /\ UNCHANGED <<inputs, stage, row, result>>

-----------------------------------------------------------------------------
AfterFirstSearch(r) ==
    CASE TrustedHits(r) # {} -> "answering"
      [] TrustedHits(r) = {} /\ ~IsInfrastructureFailure(r) -> "rewriting"
      [] OTHER -> "handing"

\* A result without trusted hits is only looked at to choose the next step.
Keep(t, r) ==
    result' = [result EXCEPT ![t] = IF TrustedHits(r) # {} THEN r ELSE NoResult]

\* The call of the search tool itself may fail, too.
Retrieve(t) ==
    /\ stage[t] = "search"
    /\ \/ \E r \in Searches(corpus, asks, configured) :
              Keep(t, r) /\ Goto(t, AfterFirstSearch(r))
       \/ Goto(t, "handing") /\ UNCHANGED result
    /\ UNCHANGED <<inputs, row, reply, session, undone>>

\* The model proposes queries, or it fails or proposes none.
Rewrite(t) ==
    /\ stage[t] = "rewriting"
    /\ \E proposed \in BOOLEAN : Goto(t, IF proposed THEN "multi" ELSE "handing")
    /\ UNCHANGED <<inputs, row, result, reply, session, undone>>

RetrieveMulti(t) ==
    /\ stage[t] = "multi"
    /\ \/ \E r \in MultiSearches(corpus, asks, configured) :
              Keep(t, r) /\ Goto(t, IF TrustedHits(r) # {} THEN "answering" ELSE "handing")
       \/ Goto(t, "handing") /\ UNCHANGED result
    /\ UNCHANGED <<inputs, row, reply, session, undone>>

GenerateAnswer(t) ==
    /\ stage[t] = "answering"
    /\ Goto(t, "appending")
    /\ UNCHANGED <<inputs, row, result, reply, session, undone>>

\* Mutant of AnswerRaises: the exception ends the thread and nobody is told.
AnswerRaisesSilently(t) ==
    /\ stage[t] = "answering"
    /\ Goto(t, "over")
    /\ UNCHANGED <<inputs, row, result, reply, session, undone>>

\* The model is out of reach or out of repairs: the exception leaves the
\* workflow, as HTTP 503 or as an error event of the stream.
AnswerRaises(t) ==
    /\ stage[t] = "answering"
    /\ IF reply[t] = "none" THEN GiveUp(t, "502") ELSE UNCHANGED <<reply, session, undone>>
    /\ Goto(t, "over")
    /\ UNCHANGED <<inputs, row, result>>

\* appendMessage reads the session, inserts the answer, updates the whole row.
AppendReads(t) ==
    /\ stage[t] = "appending"
    /\ row' = [row EXCEPT ![t] = session]
    /\ Goto(t, "writing")
    /\ UNCHANGED <<inputs, result, reply, session, undone>>

AppendFails(t) ==
    /\ stage[t] \in {"appending", "writing"}
    /\ row' = [row EXCEPT ![t] = "AI"]
    /\ Goto(t, "handing")
    /\ UNCHANGED <<inputs, result, reply, session, undone>>

\* The row is written; the agent may miss the response and take it for a failure.
AppendWrites(t) ==
    /\ stage[t] = "writing"
    /\ WriteBack(t)
    /\ \/ Goto(t, "over") /\ Tell(t, "answer")
       \/ Goto(t, "handing") /\ UNCHANGED reply
    /\ UNCHANGED <<inputs, result>>

\* Mutant of Confirmed: what counts is that the tool was called.
ConfirmedByCall(applied, answered) == TRUE

\* The agent has Java's answer that the session is in HUMAN mode.
Confirmed(applied, answered) == applied /\ answered

Handoff(t) ==
    /\ stage[t] = "handing"
    /\ \E applied, answered \in BOOLEAN :
           /\ session' = IF applied THEN "HUMAN" ELSE session
           /\ Tell(t, IF Confirmed(applied, answered) THEN "handover" ELSE "retry")
    /\ Goto(t, "over")
    /\ UNCHANGED <<inputs, row, result, undone>>

-----------------------------------------------------------------------------
AgentStep(t) ==
    Retrieve(t) \/ Rewrite(t) \/ RetrieveMulti(t) \/ GenerateAnswer(t) \/ AnswerRaises(t)
        \/ AppendReads(t) \/ AppendFails(t) \/ AppendWrites(t) \/ Handoff(t)

GatewayStep(t) == PersistReads(t) \/ PersistWrites(t) \/ Rejected(t) \/ Accepted(t)

Next == \E t \in Turns : GatewayStep(t) \/ GatewayTimesOut(t) \/ AgentStep(t)

\* Both threads of a turn go on: their calls have time limits.  That the gateway's
\* own limit strikes needs no fairness.
Fairness == \A t \in Turns : WF_vars(GatewayStep(t)) /\ WF_vars(AgentStep(t))

Spec == Init /\ [][Next]_vars /\ Fairness

-----------------------------------------------------------------------------
TypeOK ==
    /\ corpus \subseteq Chunks
    /\ asks \subseteq Fields
    /\ configured \in BOOLEAN
    /\ endpoint \in [Turns -> {"chat", "stream"}]
    /\ stage \in [Turns -> Stages]
    /\ row \in [Turns -> {"AI", "HUMAN"}]
    /\ result \in [Turns -> Results]
    /\ reply \in [Turns -> Replies]
    /\ session \in {"AI", "HUMAN"}
    /\ undone \in BOOLEAN

Answering(t) == stage[t] \in {"appending", "writing"} \/ reply[t] = "answer"

(***************************************************************************)
(* An answer of the assistant rests on knowledge: it cites something, only *)
(* chunks that passed the hard filters, and only chunks a working reranker *)
(* rated above the threshold - unless none is configured.  A chunk that    *)
(* the strict filters exclude is cited in one case only, after a multi-    *)
(* query search, which labels relaxed hits as strict.  (The documents      *)
(* exclude that case, too: see OnlyStrictPolicyApproves in ReviewDecision, *)
(* where the same search backs an approval.)                               *)
(***************************************************************************)
AnswerIsGrounded ==
    \A t \in Turns : Answering(t) =>
        LET cited == TrustedHits(result[t]) IN
        /\ cited # {}
        /\ \A c \in cited :
               /\ c.valid
               /\ configured => c \in result[t].rated
               /\ c.misses \cap asks # {} => result[t].mode \in MultiQueryModes

(***************************************************************************)
(* A user who was promised a human has one: the session waits in HUMAN     *)
(* mode, unless a write-back of a session row read before took it back -   *)
(* of the user's next message or of an answer persisted meanwhile.         *)
(***************************************************************************)
PromiseIsRecorded ==
    (\E t \in Turns : reply[t] \in Promises) => session = "HUMAN" \/ undone

(***************************************************************************)
(* A user of the chat endpoint never gets an error: busy, failing, raising *)
(* or late, whatever the agent does ends in an answer, a hand-over, or the *)
(* request to try again.  (A stream may end in an error.)                  *)
(***************************************************************************)
ChatFailsSoftly == \A t \in Turns : reply[t] = "error" => endpoint[t] = "stream"

(***************************************************************************)
(* Every turn ends with the user being told something.                     *)
(***************************************************************************)
EveryUserIsTold == \A t \in Turns : <>(reply[t] # "none")
=============================================================================
