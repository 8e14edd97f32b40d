# TLA+ models of the after-sales system

The repository is an e-commerce after-sales service: users open a ticket for an
order and attach evidence, a Python agent reviews it, merchants decide what the
agent does not. Java and MySQL own the facts; the agent proposes. The modules in
this directory model the part of it that has to be right: the life of a review, from the
ticket row over the outbox and Kafka to the agent's verdict and back; how that verdict
is worked out; the agent's turns of conversation; and the model services and the
knowledge search they share.

## 1. Inventory

| Component | State | Operations | Correct when |
| --- | --- | --- | --- |
| Ticket transactions (`InternalAgentToolsController`, `AiReviewManualHandoffServiceImpl`, `AfterSalesSupplementServiceImpl`, `AfterSalesTicketMapper`) | `after_sales_ticket` row: status, review status, verdict, evidence revision; result messages; RESUME outbox rows | load context, submit verdict, hand off to manual review, request evidence, supplement | one verdict, told once; a verdict is on all the accepted evidence; a decided ticket stays decided |
| Merchant console (`MerchantCsServiceImpl`) | the same row, chat sessions | approve, reject, complete; claim, transfer, close a session | does not undo what the review recorded |
| Chat gateway (`AgentGatewayServiceImpl`) | the same row, chat sessions | answer a chat turn, fall back to a human | the fallback does not undo what the review recorded |
| Outbox (`AfterSalesReviewEventServiceImpl`) | `after_sales_event_outbox` rows NEW/FAILED/PUBLISHED/DEAD | enqueue, publish with back-off, give up | every accepted event is published or its ticket goes to a human |
| Kafka consumer (`kafka_adapter.py`) | partition offset, Redis marker per event | claim, process, fall back to manual, dead-letter, commit | an offset is committed only after an outcome is recorded |
| DLQ consumer (`AfterSalesReviewDlqConsumer`) | offset | hand the ticket off | no dead event is lost before Spring gives it up |
| Formal-review graph (`graph.py`, `workflows.py`, `sop.py`, `confidence.py`) | checkpoint per review request; assessments and proposal of a run | start, resume, both branches, synthesis, gate, submit, wait for evidence | a supplement is reviewed; an approval is earned by the ticket it is given to |
| Image review (`vision_review_service.py`, `evaluators.py`) | none but a cache | read a picture, aggregate, assess | doubtful pictures never look verifiable |
| Knowledge retrieval (`pgvector_retriever.py`, `reranker_client.py`, `search/`, `ranking/`) | none | filter plans, two channels, fusion, reranking, trust marks | what is marked as trusted policy is |
| Policy consultation (`consultation.py`, `http_server.py`) | `chat_session` mode, messages | search, rewrite, answer, append, hand off | an answer rests on knowledge; who is promised a human has one |
| Conversation agent (`after_sales_workflow.py`, `function_calling.py`, `tools/registry.py`) | state of one turn | plan, call tools, observe, decide, hand off, reply | it stops; it approves on evidence; it says only what Java confirmed |
| Model clients (`resilience.py`, `resilient_llm_runtime.py`, `llm_client.py`, `reranker_client.py`) | breaker, semaphore, life cycle | call, retry, open, probe, fall back, close | permits come back; an open circuit is probed again; close waits |
| Status cache (`AiReviewStatusCacheServiceImpl`) | Redis copy of the review status | write after commit, read first | the user does not see a status the row left behind for good |
| Ticket creation (`AfterSalesServiceImpl`) | ticket and START event | create, reuse an open ticket | one open ticket per order |
| Chat sessions (`UserChatController`, merchant console, gateway, notifications) | `chat_session` row | open, wait, claim, close, reopen | a session is served by one person and its close is final |
| Knowledge publishing (`KnowledgePublishService`) | document revision, drafts, chunks | edit, publish, embed, fail, retry | readers see one complete published revision |
| Smaller services | addresses, rate limits, verification codes | set default, count, send, verify | one default address; a limit that resets |
| Admin console, metrics, process manager, evaluation, user interfaces | reads, counters, presentation | | not modelled |

How they interact: creating a ticket, or supplementing one, writes the row and an
outbox row in one transaction; the outbox publisher sends the event to Kafka, keyed
by review request; the Python consumer claims it in Redis, runs the graph, and the
graph calls back into Java's internal tools (load context, submit verdict, request
evidence). An event nobody could finish goes to the DLQ, whose Java consumer hands
the ticket to a human. Merchants and the chat gateway write the same row at any
time, through MyBatis `updateById` on an entity they read earlier.

Hard behaviour, in the order of what can go wrong worst:

1. transactions that read a snapshot and write later (REPEATABLE READ), where only
   the WHERE clause of the UPDATE protects the row, or nothing does;
2. delivery: duplicates, crashes between two steps, two consumers after a
   rebalance, a timeout that leaves a thread running;
3. something that must eventually happen: every accepted supplement is reviewed or
   a human gets the ticket;
4. two ends of one request: a gateway that gives up while the agent goes on, both
   writing the same session row;
5. gates in two languages that decide on the same numbers, and pictures and policies
   that change between being read and being decided on;
6. shared capacity: permits, circuits and a shutdown while calls are under way;
7. copies: the status cache, chat sessions, checkpoints.

`PROJECT.json` lists each hazard at its line.

## 2. Plan

| Module | Models | Promise it is held to | Status |
| --- | --- | --- | --- |
| `TicketReview` | transactions on one ticket | `ReviewPromise` | checked and proved |
| `ReviewRuns`, `ReviewConsumer` | runs of the graph; Kafka loop, Redis markers, time limit, manual fallback, DLQ | a committed event has an outcome; every event gets one | checked; safety proved |
| `ReviewDelivery` | outbox rows, publisher with retries and give-up, DLQ consumer, on top of `ReviewConsumer` | every enqueued event is handled, whether it is ever published or not | checked; safety proved |
| `KnowledgeSearch` | what a search may return, as operators | trust marks mean what they say | checked in its users, lemmas proved |
| `ImageReview` | readings, aggregation and assessment of pictures, as operators | verifiable pictures are good ones | checked in `ReviewDecision`, lemmas proved |
| `ReviewDecision` | the verdict of one run, with both modules above, and Java's guard | an approval is earned; the model has no vote | checked and proved |
| `Consultation` | chat turns from the gateway through the agent, with `KnowledgeSearch` | grounded answers, recorded promises | checked; safety proved |
| `AgentTurn` | one turn of the LangGraph conversation agent | it ends; what it submits is backed | checked; safety proved |
| `ModelClients` | semaphores, breakers, retries, fallback, close | capacity and circuits recover | checked; safety proved |

Every safety property a passing run checks is also a theorem; liveness is checked only
(section 6). What is not modelled, and why, is in section 7.

`ReviewDelivery` EXTENDS `ReviewConsumer`, which EXTENDS `ReviewRuns`, whose ticket is
the ticket of `TicketReview` reduced to what a run can tell apart. `ReviewRuns` leaves
the verdict of a run open; `ReviewDecision` works it out for one run at a time, on
`KnowledgeSearch` and `ImageReview`. `Consultation` and `ReviewDecision` search the
same knowledge base by the same operators.

## 3. The modules and the code

### `TicketReview` and `ReviewPromise`: the ticket's transactions

`ticket` is the committed row of `after_sales_ticket`; `resume` the RESUME rows of
the outbox, by the user's `requestId`; `notices` and `prompts` the chat messages,
which a unique business key makes one per verdict and one per revision; `context`
what a review call was decided on. `stage` and `snapshot` are the open transaction
of an actor: a plain SELECT fixes what it sees (REPEATABLE READ), the UPDATE that
follows tests the row as it is then. So an operation that begins with a plain SELECT
is two actions, one with `SELECT ... FOR UPDATE` is one.

| Action | Code |
| --- | --- |
| `LoadTicket`, `LoadAttachments` | the internal tool that returns the case: row, then attachments, no transaction |
| `SubmitAiReview`, `ApplyAiApproval`, `ApplyManualReview` | `submitAiReview`: early answers on the row read, then the conditional UPDATE of the mapper and the answer to an UPDATE that matched nothing |
| `HandOff` | `markManualRequired` without a revision, from the outbox publisher and the DLQ consumer |
| `RequestMissingEvidence` | `persistMissingEvidence` |
| `Supplement` | `supplement`: revision and RESUME row in one transaction |
| `ReadAsStaff`, `WriteAsStaff` | `approveTicket`, `rejectTicket`, `completeTicket`: read, then `updateById` of the entity |
| `ReadAsGateway`, `WriteAsGateway` | `markTicketManualReview`: read, then `updateById`, without a transaction |
| `RollBack` | any transaction that ends without a commit |

`UpdateById` keeps the column a null property would have written (MyBatis-Plus leaves
nulls out), everything else goes back as it was read. Entities are small records;
texts, priorities, audit JSON and log rows are left out because nothing reads them
back. The history variable `decidedOn` holds the supplements an applied approval had
loaded; no action reads it.

`ReviewPromise` is the promise to user and agent: one verdict, told once, no evidence
asked for or accepted after it.

### `ReviewRuns` and `ReviewConsumer`: from the event to the commit

`ReviewRuns` has a ticket per review request (verdict or merchant decision, revision,
prompts), the graph's `checkpoint` per review request, and the `run`s: one call that
decides a review, the agent's thread walking the graph or the consumer's own
fallback. Each node that is over leaves in the checkpoint the node to come and the
revision of the trusted context (`Save`). Which branch the evaluators and the gate take
is a free choice: request evidence, approve, or hand off. A submission is two steps,
early answer and UPDATE, as in `TicketReview`. The merchant's and the gateway's blind
write-backs are not repeated here; `TicketReview` has them.

| Action | Code |
| --- | --- |
| `LoadContext`, `LoadFails` | `load_trusted_context` and the route after it |
| `RequestEvidence`, `RequestFails` | `request_missing_evidence`, `await_evidence`, `prepare_resumed_attempt` |
| `Submit`, `Update`, `CallFails` | `_submit_verdict`, `submitAiReview`, `markManualRequired` |
| `RunRaises` | an exception in a node |

`ReviewConsumer` is `run_forever` on one partition. `log` is the partition, `committed`
the group's offset, `assigned` its owner, `marker` the Redis key of an event. `step`
is where a consumer's loop is, `thread` the run it waits for, `beat` what its
heartbeat thread has read and not yet written back.

| Action | Code |
| --- | --- |
| `Publish`, `PublishAgain` | the outbox publisher, reduced to what the consumer sees of it; again when it died between send and update |
| `Assign`, `Rebalance`, `Poll` | group membership and the message iterator |
| `Claim`, `ReadMarker`, `Defer`, `TakeOver` | `claim`: SET NX; GET; WATCH/MULTI on a stale marker; `_defer_processing_message` |
| `HeartbeatReads`, `HeartbeatWrites` | `refresh_processing`: GET and SET are not one step |
| `StartAgent` | `_run_agent_with_timeout`, `start`, `resume`: START enters the graph anew; RESUME goes on from an interrupt with a fresh context, inside a broken run at the node it had come to with the context of that time, and at END returns what was returned |
| `AgentTimesOut` | the time limit; the thread is not stopped |
| `Finalize`, `FallbackReturns` | `_finalize_review_result` and the handler of `run_forever`, which hand off and require an applied answer |
| `SendToDlq`, `MarkFailed` | the inner exception handler |
| `Commit`, `CommitFails` | the four calls of `commit`, each with what catches its exception |
| `Crash`, `Restart` | the process; daemon heartbeats die, executor threads that are running are joined at exit |

Not under `src/`, modelled from their use: Kafka's group protocol and offsets, process
death, and LangGraph's resume (continue at an interrupt or after the last finished
node, raise without a checkpoint, return the final state of a graph that is at END).

### `ReviewDelivery`: outbox and dead letters

`outbox` has a row per event: status, retry count and whether its `next_retry_time`
has passed. A row counts from the moment its ticket has reached the event's revision,
because both are inserted in one transaction (`Enqueued`). `batch` is what the
scheduled job read and has not done yet; it works row by row, with no transaction
around them. These actions take the place of `Publish` and `PublishAgain`.

| Action | Code |
| --- | --- |
| `SelectPending` | the job's SELECT: NEW and FAILED rows that are due and have retries left, in the order of their creation |
| `Send`, `RecordPublished` | `publishOne`: the Kafka send, then the row's update, in one `try` |
| `PublishedUnknown` | the event is in the partition, but the acknowledgement or the PUBLISHED update fails: the handler takes it for a failed send |
| `RecordFailed` | one more retry, back-off |
| `HandOffExhausted`, `RecordDead` | the last retry: `markManualRequired` in its own transaction, then DEAD |
| `JobStops` | an exception out of that handler, or a crash: the rest of the batch waits for the next run |
| `Elapse` | the back-off passes |
| `RecoverManualHandoff`, `RecoveryFails` | `AfterSalesReviewDlqConsumer`: hand off, or raise and be given the event again, at most `MaxDeliveries` times: then Spring's error handler skips it (`GivenUp`) |

### `KnowledgeSearch`: what a search may return

Operators only. A chunk is what filters can tell apart about it; a search gives the
set of its possible results, whatever embeddings, tokens and scores are. `Searches` is
`retrieve` (plans from strict to relaxed, each with a dense and a keyword channel,
fusion, reranker, `_finalize_reranked_result`), `MultiSearches` is `retrieve_multi`.
`TrustedHits` and `IsInfrastructureFailure` are what its callers ask of a result.

### `ImageReview`: what pictures are worth

Operators only. A picture is what the vision model says of it (readings are cached, so
the same picture is read the same way again): `_parse_single_pass_item`,
`_aggregate_generic_evidence`, `_collect_missing`, `EvidenceEvaluator.assess`.

### `ReviewDecision`: the verdict of one run

`context` is what the run read of the `ticket`, `search` and `look` are the two
branches, which the graph runs side by side, `proposal` what synthesis made of them.

| Action | Code |
| --- | --- |
| `LoadTrustedContext`, `LoadFails`, `ValidateReviewInputs` | the nodes up to `sop_plan` |
| `RetrievePolicy`, `RewritePolicyQuery`, `RetrievePolicyMulti` | `PolicyWorkflow`, with `PolicyEvaluator.assess` |
| `ReviewEvidence` | `EvidenceWorkflow`, with `EvidenceEvaluator.assess` |
| `ReviewSynthesis` | escalation, routine proposal or the model's, `apply_deterministic_confidence` |
| `DeterministicGate` | `deterministic_gate` |
| `Submit`, `SubmitFails` | `_submit_verdict`, `submitAiReview` with `approvalGuardFailure` |
| `RequestMissingEvidence`, `Resume` | the interrupt and what continues it |
| `Supplement`, `MerchantDecides` | user and merchant, at any time |

Confidences are integers (percent, and hundredths of a percent for weighted sums), so
that the weights of `confidence.py` are exact. What the transactions of a submission
may do to each other is in `TicketReview`; here each is one step. That a run is killed,
repeated or resumed at its end is in `ReviewRuns`.

### `Consultation`: chat turns of one session

A turn has two ends that run on their own, the gateway (`AgentGatewayServiceImpl`,
`AgentConversationContextService`) and the agent's thread (`http_server.py`,
`consultation.py`). `session` is the mode in the session row; a write-back is the whole
row as it was `row`, read before, and the history variable `undone` records that one
took a session from HUMAN back to AI.

| Action | Code |
| --- | --- |
| `PersistReads`, `PersistWrites` | `persistCurrentUserMessage` |
| `Rejected`, `Accepted` | the gateway's permit, the agent's bounded server, an explicit wish for a human |
| `GatewayTimesOut` | the gateway gives up (`GiveUp`, `Fallback`: `markSessionWaitingForHuman`); the thread goes on |
| `Retrieve`, `Rewrite`, `RetrieveMulti` | `KnowledgeSearch` and the routes after it |
| `GenerateAnswer`, `AnswerRaises` | the model's answer, or an exception as HTTP 503 or error event |
| `AppendReads`, `AppendWrites`, `AppendFails` | `appendMessage` |
| `Handoff` | the hand-off tool, which counts only when Java's answer arrives |

### `AgentTurn`: one turn of the conversation agent

`LangGraphAfterSalesAgent` compiles a graph of nodes over one state; `node` is the next
node, `next` the decision (`next_action`, `tool_name`, `tool_arguments`), `toolResults`
the calls of the turn in order, with the class of what they returned. Tool arguments
are reduced to what the duplicate guard and the decisions look at, texts to classes of
words. `visited` counts the nodes the graph has run. Every node is an action or, where it has several ends, several:

| Action | Code |
| --- | --- |
| `ReceiveMessage` | `receive_message` |
| `SkipPlan`, `ClassifyOrPlan` | `classify_or_plan`: nothing to plan after a failed start, or the plan |
| `ToolCall`, `RefuseToolCall` | `tool_call`, `ToolRegistry`: guard limits and duplicates, then the call with its retries |
| `ObserveToolResult` | `observe_tool_result` |
| `StopAtMaxSteps`, `DecideAfterFailure`, `DecideWithoutOrder`, `DecideNext` | `decide_next`, in the order of its returns |
| `HumanHandoff`, `FinalReply` | the nodes of that name |
| `RecursionError` | `graph.invoke` without a `recursion_limit`: LangGraph raises after 25 nodes, whatever is still to do |

### `ModelClients`: the model services of the process

`call` is what each thread is doing in a call (idle, queued, admitted, asking, ok,
failed), `free` the permits, `breaker` the circuits of the remote model, the local
Ollama model and the reranker, `lifecycle` the reranker client's.

| Action | Code |
| --- | --- |
| `BeginChat`, `BeginRerank`, `Collect` | entry and return of a call |
| `Acquire`, `QueueTimesOut` | the semaphore with its time limit |
| `Enter`, `TurnedAway` | `before_call` of the circuit |
| `Answer`, `Refuse`, `Drop` | the provider's answer (fitting, or to be repaired), a rejection, an outage with retry and then fallback |
| `Shut` | a call that meets a client being closed |
| `Elapse` | the recovery time of a circuit passes |
| `Close`, `CloseTransport` | `close` of the reranker client: no new calls, wait, then close the transport |

## 4. Runs

| Run | Instance | Question | Result |
| --- | --- | --- | --- |
| `ticket_review` | 2 review callers, chat gateway, 1 supplement | types, `AppliedIsOnRecord`, refinement of `ReviewPromise`, blind writes included | holds |
| `ticket_review_evidence` | 1 review caller, 2 merchants, 2 supplements | `ApprovalCoversEvidence`, `RevisionNamesEvidence`, `NoReturnToPending`, without the chat gateway | holds |
| `stale_approval` | as above with the gateway | `ApprovalCoversEvidence` | violated, finding 1 |
| `consumer` | START of one review, 2 consumers, 2 runs, 1 fault of 8 kinds | types, `CommittedIsSettled`, `MarkersAreTrue`, `EveryEventIsSettled` | holds |
| `delivery` | START and RESUME of one review, 1 consumer, 1 run, 1 retry, 2 deliveries of a dead letter, 1 fault of 4 kinds, sends that fail | types, `OutboxIsTrue`, `CommittedIsSettled`, `MarkersAreTrue`, `EveryEventIsHandled` | holds |
| `resumed_run` | START and RESUME of one review, 1 consumer, a node that raises | `CommittedIsSettled` | violated, finding 2 |
| `review_decision` | up to 2 pictures out of 7, every small knowledge base, 1 supplement | types, `ApprovalIsEarned`, `ModelHasNoVote`, `GatesAgree` | holds |
| `relaxed_policy` | as above without a supplement | `OnlyStrictPolicyApproves` | violated, finding 4 |
| `consultations` | 2 turns of one session, every small knowledge base | types, `AnswerIsGrounded`, `PromiseIsRecorded`, `ChatFailsSoftly`, `EveryUserIsTold` | holds |
| `agent_turn` | the code's limits, up to 3 failing calls | types, `ApprovalIsBacked`, `ReviewedOnce`, `HumanIsCalled`, `ReviewIsNotDropped`, `TransferIsConfirmed`, `RewrittenOnce`, `TurnEnds` | holds |
| `model_clients` | 2 threads, 1 permit per client, 1 retry, 1 repair | types, `PermitsReturned`, `ProbeIsAnswered`, `CloseIsQuiet`, `LocalStandsInForOutage`, `EveryCallEnds`, `CloseReturns` | holds |
| `open_circuit` | 1 thread, threshold 1, no retries | `FallbackIsTried` | violated, finding 3 |

### Bounds

*Ticket.* A race on one ticket needs two transactions with an open snapshot and
something that changes the row between them; the third party of `ticket_review` is the
supplement. Two supplements are needed for revisions to be confused.

*Consumer.* One review suffices because events of different reviews share nothing but
the order of the partition. Two consumers make a duplicate, a deferral, a take-over
and a rebalance; two runs an overrun agent and its fallback. `MaxRevision` bounds
supplements: 0 leaves the START event, 1 adds the first RESUME. A fault (`Fault` counts
them, `MaxFaults` bounds them) is one that nothing provokes; what it leads to, such as
the manual fallback and its calls, comes on top. For more faults there is the proof.

*Delivery.* This is the run with supplements. `MaxRetries` 1 gives each row a first
send, one retry and exhaustion; `MaxDeliveries` is 10 in Spring and 2 here, a delivery
that fails and one that may be the last. One consumer suffices, since what several do to
each other is the question of `consumer`; one run at a time, and no rebalance, keep the
instance small. It has a RESUME that overtakes its START, a RESUME that finds each kind
of checkpoint, a dead letter of a ticket that is still open, and a DEAD row whose event
is in the partition all the same.

*Decision.* The pool has two pictures that prove a problem and, for each way a picture
can fail to, one that fails in this way only; a supplement adds a second picture, which
is what aggregation needs to go wrong. The minima are the defaults (0.75, 0.75), and a
policy's best score is the threshold or 1.

*Consultation.* Two turns are two writers of the session row; a third would repeat one
of them. A chat search asks for at most a category, so the knowledge bases are the sets
of chunks that differ in it and in whether they pass the hard filters.

*Agent turn.* The step, call, duplicate and retry limits are the code's, and the
recursion limit is LangGraph's default. `MaxFailures` bounds the calls that fail in one
turn: with three, a call, its retry and the fallback of it can all fail, and the
recursion limit is reached.

*Clients.* One permit makes two threads compete; the threshold 2 tells a circuit that
counts from one that opens at once. Chat and reranking threads share nothing, so two
threads cover both kinds of pairs.

Symmetry is used over review callers, merchants and supplements in the safety runs of
`TicketReview` only: the model treats them alike.

### Faults the passing runs are without

Five kinds of faults each violate `CommittedIsSettled` by themselves once a ticket is
supplemented; TLC finds each with `MaxRevision` and `MaxFaults` 1. The first four end
alike: a graph goes on with the evidence of before the supplement, is answered
STALE_EVIDENCE and pauses for newer evidence, and the supplement's event is marked
COMPLETED and committed.

- `raises`: finding 2, the run `resumed_run`.
- `timeout`: the overrun thread of START goes on, and RESUME continues from its
  checkpoint.
- `rebalance`: two consumers run START; one asks for evidence and commits, the other's
  late run overwrites the interrupted checkpoint with one of revision 0.
- `loadFails`: the graph hands off with `context.evidence_revision if context else 0`
  (`graph.py:942`), which on a supplemented ticket is stale.
  `docs/sop/formal-review-sop.md:17` says a failed query goes to a human.
- `supplementRace`: a supplement commits between a submission's read and its UPDATE. The
  UPDATE matches no row, the ticket is read again in the old snapshot, the hand-off is
  answered as recorded (`AiReviewManualHandoffServiceImpl.java:74`; an approval as
  `STALE_REVIEW`), the graph ends, and RESUME returns the result of a graph at its end.

`consumer` therefore has these faults (`supplementRace` is none without supplements) on a
ticket that is not supplemented, `delivery` a supplemented ticket with the others:
crashes, failed commits, repeated events, a job that stops. The theorems make the same
division (`EvidenceIsKept`).

`CHECK_DEADLOCK FALSE` stands where everything may be over: the partition read and all
runs done, the ticket decided, the turn or all turns ended. `model_clients` and
`ticket_review` never stop.

### Findings

1. **A stale write-back revives an outdated review** (`stale_approval`).
   `AgentGatewayServiceImpl.markTicketManualReview` writes the entity it read back with
   `updateById`, without a version check. If a supplement committed in between, the
   evidence revision goes back, and the approval decided without the supplement
   matches again. `docs/KAFKA_DESIGN.md` promises that outdated results are refused.
2. **A resumed run submits old evidence** (`resumed_run`). START loads revision 0, the
   user supplements, a node raises; the fallback for revision 0 is refused as stale and
   START is dead-lettered. RESUME goes on after the last finished node with the context
   of revision 0 (`graph.py:251-294`), its submission is refused as stale, the graph
   waits for newer evidence, and the event is committed: nobody reviews revision 1.
   `docs/KAFKA_DESIGN.md:72` commits only after a result, a prompt or a hand-off.
3. **An open circuit skips the local model** (`open_circuit`).
   `FallbackLLMClient` catches the provider errors (`resilient_llm_runtime.py:541`); an
   open circuit raises `CircuitOpenError`, a plain `RuntimeError`.
   `LLMCircuitOpenError` is never raised. `python_agent/README.md:21-24` lists an open
   circuit among the reasons to fall back.
4. **Relaxed policy is relabelled as strict** (`relaxed_policy`). `retrieve_multi`
   annotates whatever its queries found with the strict plan
   (`pgvector_retriever.py:631`). The policy of another category, which the first search
   rightly distrusts, then backs a routine approval. `docs/AI_RAG_ARCHITECTURE.md:57-64`
   and `:92` rule that out.

## 5. Fairness

`TicketReview` states no fairness: nobody owes the ticket a transaction.
`ReviewDecision` states none either; that a run goes on is the question of the
consumer's runs.

`FairSpec` of `ReviewConsumer` assumes weak fairness of each consumer's process
(`ProcessStep`: its loop never blocks for good, since calls have time limits; a free
partition is given to it; it is restarted by its operator, without which a crashed group
consumes nothing; at most one of the three is possible at a time), of a run's steps, of
`Publish` (a scheduled job) and of `Age` (time passes). Fair are neither users nor
merchants, and faults are finitely many by `MaxFaults`: a property that needs the agent
to answer in time, or a commit to succeed for ever, would assume too much. Heartbeats are
not fair either, as a heartbeat is nothing anybody waits for.

`DeliveryFairness` replaces `Publish` by the job's steps (it is scheduled again and
again and its calls return), `Elapse` (the back-off passes) and `ConsumeDeadLetter`: a
dead letter is delivered. Neither a send nor the hand-off of a dead letter is assumed
ever to succeed; `EveryEventIsHandled` says what remains when the latter never does.

`AgentTurn` has `WF_vars(Next)`: the graph runs in the thread of its caller, and every
call it makes has a timeout. `ModelClients` has weak fairness of each call's own steps
(queue waits and exchanges with providers have time limits) and of `CloseTransport`;
nobody has to call, and no circuit has to recover. `Consultation` has weak fairness of
the gateway's and of the agent's steps of each turn; that the gateway's time limit
strikes is not assumed, so the agent's own end has to tell the user.

## 6. Proofs

### The ticket

`TicketReviewProofs` proves, for any sets of callers, merchants, gateways and
supplements (assumption: the three kinds of actors are disjoint):

| Theorem | Assumes | Says |
| --- | --- | --- |
| `TypeCorrect` | | `Spec => []TypeOK` |
| `AppliedMeansRecorded` | | `Spec => []AppliedIsOnRecord` |
| `TransactionsImplementPromise` | | `Spec` implies `ReviewPromise` under the mapping of `Promise` |
| `ApprovalIsOnAllEvidence` | `Gateways = {}` | `Spec => []ApprovalCoversEvidence` |
| `RevisionsNameEvidence` | `Gateways = {}` | `Spec => []RevisionNamesEvidence` |
| `DecidedStaysDecided` | `Gateways = {}` | `Spec => NoReturnToPending` |

The first three rest on `RecordInv`: besides types and `AppliedIsOnRecord`, every open
snapshot has no verdict or the row's (`SnapshotsAgree`). So a blind write-back cannot
replace a verdict: it writes the same one, or leaves the null out. The property alone
is not inductive, because what a write-back does was fixed when its snapshot was taken.

The last three rest on `EvidenceInv`, which adds, while the ticket is pending, that no
reviewer has read a revision beyond the row's and that a context holds at least the
supplements up to its revision (`ContextsAreCurrent`; it may hold more, since
attachments are read after the row). With a gateway it is no invariant (finding 1),
hence the assumption.

### The consumer

`ReviewConsumerProofs` and `ReviewSettledProofs` prove, for any consumers, threads,
tickets, revisions and bounds (assumptions: the bounds are natural numbers, "none" is
nobody's name):

| Theorem | Module | Assumes | Says |
| --- | --- | --- | --- |
| `ConsumerTypeCorrect` | `ReviewConsumerProofs` | | `Spec => []TypeOK` |
| `ShapeIsKept` | `ReviewConsumerProofs` | | `Spec => []ShapeInv` |
| `CommittedSettled` | `ReviewSettledProofs` | `EvidenceIsKept` | `Spec => []CommittedIsSettled` |
| `MarkersTrue` | `ReviewSettledProofs` | `EvidenceIsKept` | `Spec => []MarkersAreTrue` |

`ShapeInv` holds whatever fails: no two consumers hold the same run, a held run is
never taken for a free one, no position is past the end of the partition, and no run
or event has a revision its ticket has not reached.

`EvidenceIsKept` says that no ticket can be supplemented (`MaxRevision = 0`), or that
none of the five faults of `StaleFaults` occurs (section 4, "Faults the passing runs are
without"; each is needed, as TLC's traces show). Every other fault stays, in any number:
crashes, failed calls and commits, repeated events, and without supplements all of them.
The invariant, `SettledInv`, is what `CommittedIsSettled` rests on, read backwards:

- a consumer past a message, or about to commit it, has it settled, and a dead letter
  precedes a FAILED marker (`PassedIsSettled`);
- it got there on a terminal marker, so those must be true (`MarkersAreTrue`), or on
  the result of a run it awaited, which works on its review and on its revision or a
  newer one, and whose reply settles the message or is a failure (`AwaitedIsTrue`);
- a RESUME may be answered by the checkpoint of an older run, so what a graph at END
  keeps must be on record too (`CheckpointsAreTrue`);
- a RESUME may go on inside a broken run, so the evidence a broken-off graph keeps must
  be new enough for the event that takes it up. With supplements that needs `Aligned`: one
  consumer at work, a graph's run always awaited, and a graph that is broken off is of the
  next event to be committed, so that the same event takes it up (`BrokenIsNext`; this is
  where a raised node, an overrun or a second consumer's run would break it);
- an UPDATE that matches no row is answered as final, so a row it does not match must
  have left "open" (`UpdatesAreCurrent`: this is where a supplement in the transaction
  would break it).

What is settled stays settled (`SettledIsKept`), so steps of others can break only the
last three. TLC checked `SettledInv` on the instances of `consumer` and `delivery` before
it was proved.

### The delivery

`ReviewSettledProofs` goes on to `ReviewDelivery`, for any number of retries as well
(assumptions: it is a natural number, and the reviews are finitely many, as rows of a
table are):

| Theorem | Assumes | Says |
| --- | --- | --- |
| `DeliveryTyped` | | `DeliverySpec => []DeliveryTypeOK` |
| `OutboxTrue` | | `DeliverySpec => []OutboxIsTrue` |
| `DeliverySettles` | `EvidenceIsKept` | `DeliverySpec => [](CommittedIsSettled /\ MarkersAreTrue)` |

A row is written a step after what it speaks of, the send or the hand-off, and the job
may stop in between, so `DeliveryInv` says where the job is: after a send the event of
its first row is in the partition, after a hand-off that row's ticket has left "open"
(`PublisherIsTrue`); and the rows of a batch are different, NEW or FAILED, of events
that exist (`BatchIsOpen`). Without the last a batch could hold a row twice, and a DEAD
row would be published.

`DeliverySettles` uses the consumer's proof as it is: a step of `DeliveryNext` is one
of `Next`, or it adds (`Outer`): an event, again perhaps and without a fault of the
consumer's, or a verdict on an open ticket. `OuterSettled` shows that what only adds
keeps `SettledInv`, although a hand-off strikes between a run's read and its UPDATE.

### The decision

`ReviewDecisionProofs`, with lemmas about `ImageReview` and those of
`KnowledgeSearchProofs`, proves for any pictures, knowledge base, threshold and number
of supplements (`DecisionAssumption`: percentages, and Java's minimum not above the
agent's):

| Theorem | Says |
| --- | --- |
| `DecisionTyped` | `Spec => []TypeOK`; weighted confidences stay between 0 and 1 |
| `ApprovalsAreEarned` | `Spec => []ApprovalIsEarned` |
| `ModelNeverVotes` | `Spec => []ModelHasNoVote` |
| `GatesAlwaysAgree` | `Spec => []GatesAgree` |
| `OnlyFusionRelaxes` | a cited policy that the strict filters exclude came from a multi-query search: what finding 4 shows is the only way |

`ApprovalIsEarned` speaks of the ticket now, the code decided on what it read earlier.
Between them are, in `IInv`: the context is the ticket as it was at the context's
revision (`ContextInv`: a supplement raises the revision, and Java compares it); the
evidence assessment is one of the context's pictures; what the policy branch cites is
valid and the merchant's own (`PolicyInv`, from the lemmas that trusted hits passed the
hard filters, and the strict ones unless their search was a multi-query search); the branches are not read before they are done (`BranchesInv`); an
escalated case never gets a passing gate (`ProposalInv`: each reason of escalation
fails a condition of the gate, which is why the model has no vote); and an approval
closes the ticket (`ApprovedInv`), after which no picture can be added. The lemmas
about `ImageReview` say that a verifiable assessment has only clear, unaltered,
consistent pictures and no more confidence than any of them.

### Consultation

`ConsultationProofs` proves, for any number of turns: `ConsultationTyped`,
`AnswersAreGrounded`, `PromisesAreRecorded`, `ChatsFailSoftly` (each `Spec => []` the
property of that name). The first invariant of them that is not inductive as it stands
is `AnswerIsGrounded`: an answer told was grounded when its search returned, so
`AnswerInv` carries the result from the search to the reply. What a search may return
comes from the lemmas of `KnowledgeSearchProofs`.

### Model clients

`ModelClientsProofs` proves, for any callers, permits, thresholds, retries and repairs
(`ClientsAssumption`: finitely many callers, at least one permit): `ClientsTyped`,
`PermitsComeBack`, `ProbeIsAlwaysAnswered`, `CloseIsAlwaysQuiet`, `LocalOnlyForOutage`
(`Spec => LocalStandsInForOutage`) and `OnlyOpenCircuitEscapes`: a full queue and an
unanswered request never end a chat call before the local model was asked, so the open
circuit of finding 3 is the only outage that escapes it. `PermitInv` is types and
`PermitsReturned` together: a step moves one caller, and how that changes the set of
permit holders and its cardinality are lemmas of their own (`HoldersMove`, `PermitsTaken`, `PermitsBack`, `PermitsStay`). The
other properties speak of one caller each and follow from what a step does to it.

### The conversation agent

`AgentTurnProofs` proves, for any limits of a turn and any number of failing calls
(`LimitsAreCounts`: natural numbers):

| Theorem | Assumes | Says |
| --- | --- | --- |
| `TurnTyped` | | `Spec => []TypeOK` |
| `TurnCallsHuman` | `LimitSuffices` | `Spec => []HumanIsCalled` |
| `TurnIsWhole` | `WholeTurnFits` | no turn is cut off by the recursion limit |
| `TurnConfirmsTransfer` | | `Spec => []TransferIsConfirmed` |
| `TurnRewritesOnce` | | `Spec => []RewrittenOnce` |
| `TurnApprovesBacked` | | `Spec => []ApprovalIsBacked` |
| `TurnDepartsOnlyThen` | | an approval on knowledge assessed as insufficient follows a second search that raised |
| `TurnReviewsOnce` | | `Spec => []ReviewedOnce` |
| `TurnKeepsReview` | `StepsSuffice`, `LimitSuffices` | `Spec => []ReviewIsNotDropped` |

`LimitSuffices` is `RecursionLimit >= 3 * MaxSteps + 1`, which LangGraph's 25 just is for
8 steps: then only a turn of `MaxSteps` calls can be cut off (`CutOff`, an exception that
`HumanIsCalled`, `ReviewIsNotDropped` and `TurnEnds` state). `WholeTurnFits` is
`RecursionLimit >= 3 * MaxSteps + 4` with at least one step: then none is; for 8 steps
that is 28. Both rest on `PaceInv`, which counts the nodes run by the calls made.

The state of a turn is its history of calls, and the properties relate calls of it. The
invariants are three more, each on top of the one before:

- `ShapeInv`, of every turn, gives types, the called human (with `PaceInv`), the
  confirmed transfer and the single rewrite. A human is called by `HumanHandoff` alone
  and closes the turn (`NodeInv`, `ClosingInv`); what a call recorded is what its
  tool may answer (`ResultsInv`); a second search is asked for only while none is on
  record (`RewriteInv`).
- `TicketInv`, of a turn about a ticket, gives the backed approval, its departure and
  the single review. An approval is decided in one node, made in another, and perhaps
  made again after a failure, which is decided by rules that do not look at the evidence
  again. So the invariant says that each
  submission, made or about to be, carries the verdict that is due (`DueInv`), and that
  what this verdict is computed from does not change from the first submission on
  (`OrderInv`: then only submissions and readings of the ticket follow; `FreshInv`: the
  ticket is not read again unless the submission was given up; `FailedInv`: after that
  nothing is submitted). `InsufficientInv` carries an unfavourable verdict on the
  sources to the second search.
- `KeptInv` gives the last. A turn drops a review if it runs out of steps while a rule
  still wants to call something. Until a call is refused every call is a step
  (`CountInv`); pictures, first and second search are looked up once, and every
  submission has the same arguments (`SingleInv`), so the limit on equal calls bounds a
  turn to two times that limit and three calls (`CallsBounded`, a lemma about
  cardinalities). `StepsSuffice` says that the step limit is greater. A refused call
  needs a human and gets one (`DropInv`).

`StepsSuffice`, `MaxSteps > 2 * MaxDuplicates + 3`, is not a convenience: with
`MaxDuplicates = 3`, `MaxSteps = 8` and `RecursionLimit = 40` TLC finds
`ReviewIsNotDropped` violated. See section 7.

A decision is classified before it is applied: `Sane` for all (the rules, the model's
answer after its guards, the replacements after a failure), `ReviewChoice` for those of
a turn about a ticket. The four actions that decide then share one proof
(`DecisionShape`, `TicketDecision`, `KeptDecision`). TLC checked the three invariants on
the instance of `agent_turn` before they were proved, `DeliveryInv` and `SettledInv` on
that of `delivery`.

### Model-checked only

Liveness (`EveryEventIsSettled`, `EveryEventIsHandled`, `TurnEnds`, `EveryCallEnds`,
`CloseReturns`, `EveryUserIsTold`), since proofs under fairness need ENABLED, which the
proof system does not handle. No module declares a RECURSIVE operator.

## 7. Not modelled

- Texts, prompts, citations and scores are classes; the SQL of recall, tokens and
  embeddings are "any subset".
- In the consumer: undecodable messages (dead-lettered and committed without touching a
  ticket), failures of Redis itself and the local file store used without Redis, the
  24 h expiry of markers, several partitions.
- In the delivery: the largest batch, the check for a missing table, several Java
  instances running the job, and undecodable dead letters (which are logged).
- In the clients: `stream_chat`, which nothing calls. In the conversation agent: the
  second native decision and the branch for `guard_limit`, which no state reaches.
- Chat sessions beyond their mode (claim, transfer, close, reopen, a merchant's own
  messages), ticket creation beyond its row (what its re-lookup after a duplicate key
  sees depends on the storage engine), knowledge publishing (searches run over any set
  of chunks, valid or not), the status cache (display only), addresses, rate limits,
  emotion tables, read-only assembly, presentation, evaluation: see the component list
  in `PROJECT.json`.

### Behaviour of the models worth a reader's attention

The models do the following because the code does, and no violation run is about it.
Where a document says otherwise the item quotes it; the property that is concerned then
states the case as its exception, or a theorem says how far the departure goes.

*Ticket and delivery.*
- `markWaitingEvidenceIfCurrent` has no status condition: a decided ticket can become
  WAITING_EVIDENCE again.
- An exhausted row and a dead letter hand the ticket off without a revision check, also
  when a newer supplement is queued.
- A dead letter whose hand-off fails ten times is skipped: the listener rethrows into
  Spring's default error handler, and the repository configures no other. The comment of
  `AfterSalesReviewDlqConsumer` (lines 17-20) says "Kafka retains the message until Java
  can persist the manual-review fact in MySQL". `EveryEventIsHandled` excepts exactly
  these events (`GivenUp`).

*Conversation agent* (used by the evaluator and the end-to-end tests,
`docs/AI_RAG_ARCHITECTURE.md:115`; the live chat goes through the consultation).
- `human_handoff` words its reply by the ticket's presence (`after_sales_workflow.py:898`):
  it says the first review is completed also when the submission failed.
- When the second search raises, `decide_next` goes on with the first assessment, and an
  approval may go out on knowledge that was assessed as incomplete;
  `src/python_agent/README.md:118-124` has a remaining gap reviewed by a human.
  `ApprovalIsBacked` therefore claims nothing of the assessment; `TurnDepartsOnlyThen`
  proves that a second search that raised is the only way to such an approval.
- `MAX_AGENT_STEPS` and `MAX_DUPLICATE_TOOL_CALLS` are configured apart
  (`after_sales_workflow.py:102`). With the defaults, 8 and 2, `StepsSuffice` holds; with
  three equal calls allowed and 8 steps a turn can stop at its limit on a pending ticket
  without a review, a human or a question (or, at 25 nodes, is cut off before that).
- The deepest turn visits 28 nodes; `graph.invoke` (line 212) keeps LangGraph's default
  limit of 25. With three failing calls and a refused submission a turn of 8 calls raises
  GraphRecursionError where it would have called a human: no reply, no hand-off.
  `HumanIsCalled` and `ReviewIsNotDropped` except exactly these turns (`CutOff`);
  `TurnIsWhole` proves that 28 would do. Whether the limit counts the last node in or out
  is LangGraph's.

*Model clients.*
- A call refused by the remote model's open circuit is not handed to the local model
  (finding 3).
- A half-open probe of a chat client that ends with a non-retryable error or garbled
  JSON leaves its mark set (lines 384-390). `ProbeIsAnswered` is stated of the reranker.
- A call from before the circuit opened clears the mark of another's probe when it
  fails (`resilience.py:65`).

*Consultation.*
- A stream that ends in an error leaves no hand-off (`http_server.py:412`).
- A session row written back after a hand-off takes the session from the human
  (`undone`), and an answer may be appended after the gateway promised one.
- An answer, too, may cite a relaxed hit that `retrieve_multi` labelled strict (finding
  4). `AnswerIsGrounded` holds every cited chunk to the strict filters unless its result is
  one of a multi-query search, and `ApprovalIsEarned` asks for the hard filters only.
- Without a reranker every first search with hits is degraded and goes to a human.

*Decision.*
- The two minima are configured apart with the same default; `GatesAgree` needs Java's
  not to be the greater one.
- Java compares the context version only for the mode `controlled_multi_agent`, which
  the graph does not send; the evidence revision is what protects a submission.
- With the weights as they are and a threshold of 0.55, the gate's test of the
  confidence refuses no routine case.
- A chunk of the GLOBAL merchant passes the hard filter but is never cited.
