---------------------------- MODULE ModelClients ----------------------------
(***************************************************************************)
(* The clients of the model services that every request of the agent       *)
(* process shares: the remote chat model, the local Ollama model that      *)
(* stands in for it (FallbackLLMClient), and the reranker.  Each has a     *)
(* semaphore of Permits permits, a circuit breaker and a bounded number of *)
(* retries (infrastructure/resilience.py, providers/                       *)
(* resilient_llm_runtime.py, providers/llm_client.py, providers/           *)
(* reranker_client.py).                                                    *)
(*                                                                         *)
(* A caller is a thread of the process inside one call.  Each step below   *)
(* is one section of the code that holds a lock, or one exchange with a    *)
(* provider.                                                               *)
(***************************************************************************)
EXTENDS Naturals, FiniteSets

CONSTANTS
    Callers,        \* threads that call models
    Permits,        \* *_MAX_CONCURRENT_REQUESTS, RERANK_MAX_CONCURRENCY
    Threshold,      \* *_CIRCUIT_FAILURE_THRESHOLD
    Retries,        \* LLM_MAX_RETRIES, RERANK_MAX_RETRIES
    Repairs         \* repair rounds of a structured answer, at most 2

ASSUME ClientsAssumption ==
    /\ IsFiniteSet(Callers)
    /\ Permits \in Nat \ {0}
    /\ Threshold \in Nat \ {0}
    /\ Retries \in Nat
    /\ Repairs \in Nat

VARIABLES
    breaker,    \* the circuit breaker of each client
    free,       \* permits left in the semaphore of each client
    lifecycle,  \* of the reranker client: open, closing, closed
    call        \* what each caller is doing

clientVars == <<breaker, free, lifecycle, call>>

Chats == {"remote", "ollama"}
Clients == Chats \cup {"reranker"}

\* busy: no permit in time.  unavailable: time-out, rate limit, provider or
\* network error.  rejected: authentication, invalid request, an answer that is
\* no JSON.  open: circuit.  unparseable: repairs exhausted.  closed: shut down.
Errors == {"none", "busy", "unavailable", "rejected", "open", "unparseable", "closed"}

Breakers == [failures : 0..Threshold, state : {"closed", "waiting", "due"}, probe : BOOLEAN]

\* An open circuit is "waiting" until its recovery time has passed, then "due".
Closed == [failures |-> 0, state |-> "closed", probe |-> FALSE]

\* "attempt" counts the requests repeated, "repairs" the repair rounds left.
Calls == [client : Clients, attempt : 0..Retries, repairs : 0..Repairs, error : Errors,
          stage : {"idle", "queued", "admitted", "asking", "ok", "failed"}]

Idle == [client |-> "remote", attempt |-> 0, repairs |-> 0, error |-> "none", stage |-> "idle"]

-----------------------------------------------------------------------------
Admits(b) == b.state = "closed" \/ (b.state = "due" /\ ~b.probe)

AfterAdmission(b) == [b EXCEPT !.probe = @ \/ b.state = "due"]

\* The counter is read only against the threshold: counting stops there.
AfterFailure(b) ==
    LET failures == IF b.failures < Threshold THEN b.failures + 1 ELSE Threshold
    IN  [failures |-> failures,
         state |-> IF failures = Threshold THEN "waiting" ELSE b.state,
         probe |-> FALSE]

\* Mutant of AfterRefusal: the reranker treats its breaker as a chat client does.
RefusalIgnored(c, b) == b

AfterRefusal(c, b) == IF c = "reranker" THEN AfterFailure(b) ELSE b

\* Mutant of Eligible: the local model is asked after a rejection, too.
EligibleRejection == {"busy", "unavailable", "rejected"}

\* Errors of the remote model after which the local one is asked.
Eligible == {"busy", "unavailable"}

\* The call ends in an error, or starts over at the fallback client.
Failed(k, error) ==
    IF k.client = "remote" /\ error \in Eligible
    THEN [k EXCEPT !.client = "ollama", !.stage = "queued", !.attempt = 0]
    ELSE [k EXCEPT !.stage = "failed", !.error = error]

\* Mutant of Misfit: one repair round too many.
MisfitOnceMore(k) ==
    IF k.repairs >= 0
    THEN [k EXCEPT !.client = "remote", !.stage = "queued", !.attempt = 0, !.repairs = @ - 1]
    ELSE [k EXCEPT !.stage = "failed", !.error = "unparseable"]

\* Mutant of Misfit: repair rounds are not counted.
MisfitForever(k) ==
    IF k.repairs > 0
    THEN [k EXCEPT !.client = "remote", !.stage = "queued", !.attempt = 0]
    ELSE [k EXCEPT !.stage = "failed", !.error = "unparseable"]

\* The provider's answer does not fit the schema: it is asked again, from the
\* remote model on, as long as repair rounds are left.
Misfit(k) ==
    IF k.repairs > 0
    THEN [k EXCEPT !.client = "remote", !.stage = "queued", !.attempt = 0, !.repairs = @ - 1]
    ELSE [k EXCEPT !.stage = "failed", !.error = "unparseable"]

Stage(p) == call[p].stage

Holders(c) == {p \in Callers : call[p].client = c /\ Stage(p) \in {"admitted", "asking"}}

Active == {p \in Callers : call[p].client = "reranker" /\ Stage(p) \in {"queued", "admitted", "asking"}}

Release(c) == free' = [free EXCEPT ![c] = @ + 1]

-----------------------------------------------------------------------------
Init ==
    /\ breaker = [c \in Clients |-> Closed]
    /\ free = [c \in Clients |-> Permits]
    /\ lifecycle = "open"
    /\ call = [p \in Callers |-> Idle]

\* chat_json has no repair round, the vision call one, generate_structured two.
BeginChat(p) ==
    /\ Stage(p) = "idle"
    /\ \E n \in 0..Repairs :
           call' = [call EXCEPT ![p] = [Idle EXCEPT !.stage = "queued", !.repairs = n]]
    /\ UNCHANGED <<breaker, free, lifecycle>>

BeginRerank(p) ==
    /\ Stage(p) = "idle"
    /\ call' = [call EXCEPT ![p] =
           IF lifecycle = "open"
           THEN [Idle EXCEPT !.client = "reranker", !.stage = "queued"]
           ELSE [Idle EXCEPT !.client = "reranker", !.stage = "failed", !.error = "closed"]]
    /\ UNCHANGED <<breaker, free, lifecycle>>

Acquire(p) ==
    LET c == call[p].client IN
    /\ Stage(p) = "queued"
    /\ free[c] > 0
    /\ free' = [free EXCEPT ![c] = @ - 1]
    /\ call' = [call EXCEPT ![p].stage = "admitted"]
    /\ UNCHANGED <<breaker, lifecycle>>

\* Mutant of QueueTimesOut: the permit is released although none was acquired.
QueueTimesOutInTry(p) ==
    /\ Stage(p) = "queued"
    /\ free[call[p].client] = 0
    /\ Release(call[p].client)
    /\ call' = [call EXCEPT ![p] = Failed(@, "busy")]
    /\ UNCHANGED <<breaker, lifecycle>>

QueueTimesOut(p) ==
    /\ Stage(p) = "queued"
    /\ free[call[p].client] = 0
    /\ call' = [call EXCEPT ![p] = Failed(@, "busy")]
    /\ UNCHANGED <<breaker, free, lifecycle>>

ShutBeforeEntry(p) == call[p].client = "reranker" /\ lifecycle # "open"

Enter(p) ==
    LET c == call[p].client IN
    /\ Stage(p) = "admitted"
    /\ ~ShutBeforeEntry(p)
    /\ Admits(breaker[c])
    /\ breaker' = [breaker EXCEPT ![c] = AfterAdmission(@)]
    /\ call' = [call EXCEPT ![p].stage = "asking"]
    /\ UNCHANGED <<free, lifecycle>>

TurnedAway(p) ==
    /\ Stage(p) = "admitted"
    /\ ShutBeforeEntry(p) \/ ~Admits(breaker[call[p].client])
    /\ Release(call[p].client)
    /\ call' = [call EXCEPT ![p] = Failed(@, IF ShutBeforeEntry(p) THEN "closed" ELSE "open")]
    /\ UNCHANGED <<breaker, lifecycle>>

\* The provider answered: the breaker is reset whatever the content is worth.
\* Only the reranker's answer is validated before that (see Refuse).
Answer(p) ==
    LET c == call[p].client IN
    /\ Stage(p) = "asking"
    /\ breaker' = [breaker EXCEPT ![c] = Closed]
    /\ Release(c)
    /\ \/ call' = [call EXCEPT ![p].stage = "ok"]
       \/ c \in Chats /\ call' = [call EXCEPT ![p] = Misfit(@)]
    /\ UNCHANGED lifecycle

\* An error that is not worth a retry.  A chat client leaves its breaker as it
\* is, a probe flag set at Enter included; the reranker counts a failure.  (A
\* chat client that fell back to urllib takes every HTTP error for an unavailable
\* provider: there the same answer of the provider is a Drop.)
Refuse(p) ==
    LET c == call[p].client IN
    /\ Stage(p) = "asking"
    /\ breaker' = [breaker EXCEPT ![c] = AfterRefusal(c, @)]
    /\ Release(c)
    /\ call' = [call EXCEPT ![p] = Failed(@, "rejected")]
    /\ UNCHANGED lifecycle

\* A retryable error: the request is repeated, or it was the last attempt.
Drop(p) ==
    LET c == call[p].client IN
    /\ Stage(p) = "asking"
    /\ IF call[p].attempt < Retries
       THEN /\ call' = [call EXCEPT ![p].attempt = @ + 1]
            /\ UNCHANGED <<breaker, free>>
       ELSE /\ breaker' = [breaker EXCEPT ![c] = AfterFailure(@)]
            /\ Release(c)
            /\ call' = [call EXCEPT ![p] = Failed(@, "unavailable")]
    /\ UNCHANGED lifecycle

\* The reranker was closed between the admission and the use of its transport.
Shut(p) ==
    /\ Stage(p) = "asking"
    /\ call[p].client = "reranker"
    /\ lifecycle # "open"
    /\ Release("reranker")
    /\ call' = [call EXCEPT ![p] = Failed(@, "closed")]
    /\ UNCHANGED <<breaker, lifecycle>>

\* The caller takes the result or the exception and may call again.
Collect(p) ==
    /\ Stage(p) \in {"ok", "failed"}
    /\ call' = [call EXCEPT ![p] = Idle]
    /\ UNCHANGED <<breaker, free, lifecycle>>

\* recovery_seconds have passed since the circuit opened.
Elapse(c) ==
    /\ breaker[c].state = "waiting"
    /\ breaker' = [breaker EXCEPT ![c].state = "due"]
    /\ UNCHANGED <<free, lifecycle, call>>

\* The process shuts down: no rerank call begins, those under way are awaited.
Close ==
    /\ lifecycle = "open"
    /\ lifecycle' = "closing"
    /\ UNCHANGED <<breaker, free, call>>

\* Mutant of CloseTransport: calls under way are not awaited.
CloseTransportAtOnce ==
    /\ lifecycle = "closing"
    /\ lifecycle' = "closed"
    /\ UNCHANGED <<breaker, free, call>>

\* Mutant of CloseTransport: calls of the chat clients, which go on, are awaited too.
CloseTransportWhenIdle ==
    /\ lifecycle = "closing"
    /\ \A p \in Callers : Stage(p) = "idle"
    /\ lifecycle' = "closed"
    /\ UNCHANGED <<breaker, free, call>>

CloseTransport ==
    /\ lifecycle = "closing"
    /\ Active = {}
    /\ lifecycle' = "closed"
    /\ UNCHANGED <<breaker, free, call>>

-----------------------------------------------------------------------------
CallStep(p) ==
    Acquire(p) \/ QueueTimesOut(p) \/ Enter(p) \/ TurnedAway(p)
        \/ Answer(p) \/ Refuse(p) \/ Drop(p) \/ Shut(p)

Next ==
    \/ \E p \in Callers : BeginChat(p) \/ BeginRerank(p) \/ CallStep(p) \/ Collect(p)
    \/ \E c \in Clients : Elapse(c)
    \/ Close
    \/ CloseTransport

Spec == Init /\ [][Next]_clientVars

\* A queue wait and an exchange with a provider have time limits, and the steps
\* between them are the thread's own: a call under way goes on, whoever else
\* calls.  Nobody has to call, and a circuit needs no fairness to let time pass.
FairSpec ==
    /\ Spec
    /\ \A p \in Callers : WF_clientVars(CallStep(p))
    /\ WF_clientVars(CloseTransport)

-----------------------------------------------------------------------------
TypeOK ==
    /\ breaker \in [Clients -> Breakers]
    /\ free \in [Clients -> 0..Permits]
    /\ lifecycle \in {"open", "closing", "closed"}
    /\ call \in [Callers -> Calls]

(***************************************************************************)
(* Whatever way a call ends - answer, rejection, last retry, open circuit, *)
(* shutdown - its permit is back: a permit is missing only while a caller  *)
(* holds it.  A leaked permit would shrink the process's capacity for good.*)
(***************************************************************************)
PermitsReturned ==
    \A c \in Clients : free[c] + Cardinality(Holders(c)) = Permits

(***************************************************************************)
(* The half-open reranker circuit is never stuck: as long as a probe is    *)
(* marked as running and the client is open, some caller is at the         *)
(* provider, so that its end clears the mark.  (The chat clients do not    *)
(* have this property: Refuse leaves the mark.)                            *)
(***************************************************************************)
ProbeIsAnswered ==
    breaker["reranker"].probe /\ lifecycle = "open" =>
        \E p \in Callers : call[p].client = "reranker" /\ Stage(p) = "asking"

(***************************************************************************)
(* The local model takes a call over only from an outage: a queue still    *)
(* full at the end of the wait, or the last of the allowed requests gone   *)
(* unanswered and counted by the remote breaker.  Neither a rejection nor  *)
(* an answer that does not fit the schema moves a call to it, whatever     *)
(* retries and repair rounds came before.                                  *)
(***************************************************************************)
LocalStandsInForOutage ==
    [][\A p \in Callers : call[p].client = "remote" /\ call'[p].client = "ollama" =>
           \/ Stage(p) = "queued" /\ free["remote"] = 0
           \/ /\ Stage(p) = "asking" /\ call[p].attempt = Retries
              /\ breaker'["remote"] = AfterFailure(breaker["remote"])]_clientVars

(***************************************************************************)
(* python_agent/README.md: "Timeouts, 429, transient 5xx, network failures *)
(* and an open circuit are eligible" for the local model, so no chat call  *)
(* ends in one of these before the local model was asked.  The open        *)
(* circuit of the remote model does end one: FallbackLLMClient does not    *)
(* catch CircuitOpenError.                                                 *)
(***************************************************************************)
FallbackIsTried ==
    \A p \in Callers :
        Stage(p) = "failed" /\ call[p].error \in {"busy", "unavailable", "open"} =>
            call[p].client # "remote"

(***************************************************************************)
(* close() pulls the transport from under no rerank call: once it is       *)
(* closed, no caller is anywhere between the start and the end of a call.  *)
(***************************************************************************)
CloseIsQuiet == lifecycle = "closed" => Active = {}

(***************************************************************************)
(* Every call comes to its end, with an answer or an error: retries,       *)
(* repair rounds, the fallback and the queue are all bounded.              *)
(***************************************************************************)
EveryCallEnds ==
    \A p \in Callers :
        Stage(p) \in {"queued", "admitted", "asking"} ~> Stage(p) \in {"ok", "failed"}

(***************************************************************************)
(* close() returns: the rerank calls it waits for all end, and no new one  *)
(* can begin and keep it waiting.                                          *)
(***************************************************************************)
CloseReturns == lifecycle = "closing" ~> lifecycle = "closed"
=============================================================================
