--------------------------- MODULE ReviewConsumer ---------------------------
(***************************************************************************)
(* The Kafka consumers of review events: run_forever and its idempotency   *)
(* markers in Redis, over one partition, with the runs of ReviewRuns.      *)
(*                                                                         *)
(* Java publishes an event per revision of a ticket (START for 0, RESUME   *)
(* for the others).  A consumer claims the event's marker, awaits a run of *)
(* the agent for at most its time limit, marks the outcome and commits;    *)
(* what fails goes to a manual fallback and from there to the dead-letter  *)
(* queue.  Consumers may crash, lose the partition while they work, and    *)
(* meet an event twice.                                                    *)
(***************************************************************************)
EXTENDS ReviewRuns, Sequences

CONSTANTS Consumers

Event == [review : Reviews, revision : Revisions]

NoConsumer == "none"
NoThread == "none"

ASSUME NoneIsFree ==
    NoReview \notin Reviews /\ NoConsumer \notin Consumers /\ NoThread \notin Threads

TerminalStatuses == {"COMPLETED", "EVIDENCE_REQUIRED", "MANUAL_REQUIRED", "FAILED"}

\* A marker in Redis; owner NoConsumer: a process that is gone.  fresh: it was
\* written less than processing_stale_seconds ago.
Marker == [status : TerminalStatuses \cup {"PROCESSING", "absent"},
           owner : Consumers \cup {NoConsumer},
           fresh : BOOLEAN]

Absent == [status |-> "absent", owner |-> NoConsumer, fresh |-> FALSE]
Processing(c) == [status |-> "PROCESSING", owner |-> c, fresh |-> TRUE]
Marked(s) == [status |-> s, owner |-> NoConsumer, fresh |-> FALSE]

\* Where run_forever is with its message.  "handOff": the fallback of
\* _finalize_review_result; "fallback": that of the exception handler.
Holding == {"start", "await", "commit", "handOff", "fallback", "commitManual",
            "dlq", "markFailed", "commitDlq"}
ConsumerSteps == Holding \cup {"poll", "claim", "read", "ack", "down"}

VARIABLES
    log,        \* the partition
    dlq,        \* events in the dead-letter topic
    marker,     \* Event -> its marker
    committed,  \* the group's committed offset
    assigned,   \* the consumer the partition is assigned to
    step,       \* Consumer -> where its loop is
    position,   \* Consumer -> offset after the message it holds
    thread,     \* Consumer -> the run it awaits or has awaited
    beat        \* Consumer -> {the event whose marker its heartbeat has read}

consumerVars == <<log, dlq, marker, committed, assigned, step, position, thread, beat>>
vars == <<runVars, consumerVars>>

TypeOK ==
    /\ ticket \in [Reviews -> Ticket]
    /\ checkpoint \in [Reviews -> Checkpoint]
    /\ run \in [Threads -> Run]
    /\ faults \in Nat
    /\ log \in Seq(Event)
    /\ dlq \subseteq Event
    /\ marker \in [Event -> Marker]
    /\ committed \in Nat
    /\ assigned \in Consumers \cup {NoConsumer}
    /\ step \in [Consumers -> ConsumerSteps]
    /\ position \in [Consumers -> Nat]
    /\ thread \in [Consumers -> Threads \cup {NoThread}]
    /\ beat \in [Consumers -> SUBSET Event]

Init ==
    /\ RunsInit
    /\ log = <<>>
    /\ dlq = {}
    /\ marker = [ev \in Event |-> Absent]
    /\ committed = 0
    /\ assigned = NoConsumer
    /\ step = [c \in Consumers |-> "poll"]
    /\ position = [c \in Consumers |-> 0]
    /\ thread = [c \in Consumers |-> NoThread]
    /\ beat = [c \in Consumers |-> {}]

Published == {log[i] : i \in 1 .. Len(log)}

\* The message in the hands of c.
Message(c) == log[position[c]]

To(c, s) == step' = [step EXCEPT ![c] = s]

Mark(c, m) == marker' = [marker EXCEPT ![Message(c)] = m]

----------------------------------------------------------------------------
(* The partition and its assignment.                                        *)

Publish(ev) ==
    /\ ev.revision <= ticket[ev.review].revision
    /\ ev \notin Published
    /\ log' = Append(log, ev)
    /\ UNCHANGED <<runVars, dlq, marker, committed, assigned, step, position, thread, beat>>

\* The publisher crashed between the send and its PUBLISHED update.
PublishAgain(ev) ==
    /\ ev \in Published
    /\ Fault("publishAgain")
    /\ log' = Append(log, ev)
    /\ UNCHANGED <<ticket, checkpoint, run, dlq, marker, committed, assigned,
                   step, position, thread, beat>>

AssignTo(c) ==
    /\ step[c] = "poll"
    /\ assigned' = c
    /\ position' = [position EXCEPT ![c] = committed]
    /\ UNCHANGED <<ticket, checkpoint, run, log, dlq, marker, committed, step,
                   thread, beat>>

Assign(c) == assigned = NoConsumer /\ AssignTo(c) /\ UNCHANGED faults

\* The group takes the partition from a live consumer, who may be at work.
Rebalance(c) == assigned \notin {c, NoConsumer} /\ AssignTo(c) /\ Fault("rebalance")

----------------------------------------------------------------------------
(* Claiming a message.                                                      *)

Poll(c) ==
    /\ step[c] = "poll"
    /\ assigned = c
    /\ position[c] < Len(log)
    /\ position' = [position EXCEPT ![c] = @ + 1]
    /\ To(c, "claim")
    /\ UNCHANGED <<runVars, log, dlq, marker, committed, assigned, thread, beat>>

\* SET NX
Claim(c) ==
    /\ step[c] = "claim"
    /\ \/ marker[Message(c)] = Absent /\ Mark(c, Processing(c)) /\ To(c, "start")
       \/ marker[Message(c)] # Absent /\ To(c, "read") /\ UNCHANGED marker
    /\ UNCHANGED <<runVars, log, dlq, committed, assigned, position, thread, beat>>

\* Slip of ReadMarker: any duplicate is acknowledged, also of an event that is
\* still being processed.
AcknowledgeDuplicates(c) ==
    /\ step[c] = "read"
    /\ marker[Message(c)].status # "absent"
    /\ To(c, "ack")
    /\ UNCHANGED <<runVars, log, dlq, marker, committed, assigned, position, thread, beat>>

\* GET: a terminal marker is acknowledged, one that has just been released is
\* neither claimed nor deferred.
ReadMarker(c) ==
    LET status == marker[Message(c)].status IN
    /\ step[c] = "read"
    /\ \/ status \in TerminalStatuses /\ To(c, "ack")
       \/ status = "absent" /\ To(c, "poll")
    /\ UNCHANGED <<runVars, log, dlq, marker, committed, assigned, position, thread, beat>>

\* Seek back, to poll the message again.
Defer(c) ==
    /\ step[c] = "read"
    /\ marker[Message(c)].status = "PROCESSING"
    /\ marker[Message(c)].fresh
    /\ position' = [position EXCEPT ![c] = @ - 1]
    /\ To(c, "poll")
    /\ UNCHANGED <<runVars, log, dlq, marker, committed, assigned, thread, beat>>

\* Slip of TakeOver: a consumer takes its own markers over only.
TakeOverOwn(c) ==
    /\ step[c] = "read"
    /\ marker[Message(c)].status = "PROCESSING"
    /\ ~marker[Message(c)].fresh
    /\ marker[Message(c)].owner = c
    /\ Mark(c, Processing(c))
    /\ To(c, "start")
    /\ UNCHANGED <<runVars, log, dlq, committed, assigned, position, thread, beat>>

\* WATCH, GET, MULTI: the marker is still the stale one that was read.
TakeOver(c) ==
    /\ step[c] = "read"
    /\ marker[Message(c)].status = "PROCESSING"
    /\ ~marker[Message(c)].fresh
    /\ Mark(c, Processing(c))
    /\ To(c, "start")
    /\ UNCHANGED <<runVars, log, dlq, committed, assigned, position, thread, beat>>

\* processing_stale_seconds pass without a heartbeat.
Age(ev) ==
    /\ marker[ev].status = "PROCESSING"
    /\ marker[ev].fresh
    /\ marker' = [marker EXCEPT ![ev].fresh = FALSE]
    /\ UNCHANGED <<runVars, log, dlq, committed, assigned, step, position, thread, beat>>

\* refresh_processing reads the marker, and writes it back if it was its own.
HeartbeatReads(c) ==
    /\ step[c] \in Holding
    /\ beat[c] = {}
    /\ marker[Message(c)].status = "PROCESSING"
    /\ marker[Message(c)].owner = c
    /\ beat' = [beat EXCEPT ![c] = {Message(c)}]
    /\ UNCHANGED <<runVars, log, dlq, marker, committed, assigned, step, position, thread>>

HeartbeatWrites(c) ==
    /\ \E ev \in beat[c] : marker' = [marker EXCEPT ![ev] = Processing(c)]
    /\ beat' = [beat EXCEPT ![c] = {}]
    /\ UNCHANGED <<runVars, log, dlq, committed, assigned, step, position, thread>>

----------------------------------------------------------------------------
(* Working on a claimed message.                                            *)

NewRun(kind, s, revision, ev) ==
    [step |-> s, kind |-> kind, awaited |-> TRUE, review |-> ev.review,
     revision |-> revision, reply |-> NoReply]

\* Slip of StartAgent: a RESUME returns what the review's last run returned,
\* whether that run is at END or waits for evidence.
ResumeReturnsCheckpoint(c) ==
    LET ev == Message(c)
        last == [NewRun("agent", "done", 0, ev) EXCEPT !.reply = checkpoint[ev.review].reply]
    IN
    /\ step[c] = "start"
    /\ \E t \in Threads :
          /\ run[t] = NoRun
          /\ thread' = [thread EXCEPT ![c] = t]
          /\ run' = [run EXCEPT ![t] = IF ev.revision = 0 THEN NewRun("agent", "load", 0, ev)
                                       ELSE last]
    /\ To(c, "await")
    /\ UNCHANGED <<ticket, checkpoint, faults, log, dlq, marker, committed, assigned,
                   position, beat>>

\* The graph's checkpoint is per review.  START enters the graph anew, with the
\* context the checkpoint still keeps.  RESUME goes on where the checkpoint is: from
\* an interruption with a fresh context, inside a broken run at the node it had come
\* to, with the context of that time; at END it returns what was returned, and where
\* nothing ever ran it raises.
StartAgent(c) ==
    LET ev == Message(c)
        last == checkpoint[ev.review]
        Enter(t, node, revision) ==
            /\ run' = [run EXCEPT ![t] = NewRun("agent", node, revision, ev)]
            /\ checkpoint' = [checkpoint EXCEPT ![ev.review] = Reached(node, revision)]
        AtOnce(t, reply) ==
            /\ run' = [run EXCEPT ![t] = [NewRun("agent", "done", 0, ev) EXCEPT !.reply = reply]]
            /\ UNCHANGED checkpoint
    IN
    /\ step[c] = "start"
    /\ \E t \in Threads :
          /\ run[t] = NoRun
          /\ thread' = [thread EXCEPT ![c] = t]
          /\ \/ ev.revision = 0 /\ Enter(t, "load", last.revision)
             \/ ev.revision # 0 /\ last.at = "interrupted" /\ Enter(t, "load", 0)
             \/ /\ ev.revision # 0 /\ last.at \in {"load", "review", "manual"}
                /\ Enter(t, last.at, last.revision)
             \/ ev.revision # 0 /\ last.at = "ended" /\ AtOnce(t, last.reply)
             \/ ev.revision # 0 /\ last.at = "none" /\ AtOnce(t, "RAISED")
    /\ To(c, "await")
    /\ UNCHANGED <<ticket, faults, log, dlq, marker, committed, assigned, position, beat>>

Awaits(c, s) ==
    /\ step[c] = s
    /\ thread[c] # NoThread
    /\ run[thread[c]].step = "done"

ReplyTo(c) == run[thread[c]].reply

\* The fallback hands the event's revision off.
FallBack(c, t, s) ==
    /\ run' = [run EXCEPT ![t] = NewRun("fallback", "manual", Message(c).revision, Message(c))]
    /\ thread' = [thread EXCEPT ![c] = t]
    /\ To(c, s)

\* Slip of OutcomeMark: the marker is given the submission's outcome.
MarkOfReply(reply) == Marked(reply)

OutcomeMark(reply) == Marked(IF reply = "PROMPTED" THEN "EVIDENCE_REQUIRED" ELSE "COMPLETED")

\* Slip of Finalize: a submission that failed counts like any other.
AnySubmissionCounts(c) ==
    LET reply == ReplyTo(c) IN
    /\ Awaits(c, "await")
    /\ \/ /\ reply # "RAISED"
          /\ Mark(c, OutcomeMark(reply))
          /\ To(c, "commit")
          /\ UNCHANGED <<run, thread>>
       \/ /\ reply = "RAISED" /\ FallBack(c, thread[c], "fallback")
          /\ UNCHANGED marker
    /\ UNCHANGED <<ticket, checkpoint, faults, log, dlq, committed, assigned, position, beat>>

\* _finalize_review_result.  A result without a reliable submission goes to the
\* fallback, what the agent raised goes to the exception handler's fallback.
Finalize(c) ==
    LET reply == ReplyTo(c) IN
    /\ Awaits(c, "await")
    /\ \/ /\ reply \in Paused \cup {"APPLIED"}
          /\ Mark(c, OutcomeMark(reply))
          /\ To(c, "commit")
          /\ UNCHANGED <<run, thread>>
       \/ /\ reply \in {"STALE_REVIEW", "STATUS_CHANGED"}
          /\ IF marker[Message(c)].status = "PROCESSING" /\ marker[Message(c)].owner = c
             THEN Mark(c, Absent) ELSE UNCHANGED marker
          /\ To(c, "commit")
          /\ UNCHANGED <<run, thread>>
       \/ /\ reply = "ERROR" /\ FallBack(c, thread[c], "handOff")
          /\ UNCHANGED marker
       \/ /\ reply = "RAISED" /\ FallBack(c, thread[c], "fallback")
          /\ UNCHANGED marker
    /\ UNCHANGED <<ticket, checkpoint, faults, log, dlq, committed, assigned, position, beat>>

\* The agent's time limit passes; its run goes on with nobody waiting.
AgentTimesOut(c) ==
    /\ step[c] = "await"
    /\ run[thread[c]].step # "done"
    /\ Fault("timeout")
    /\ \E t \in Threads :
          /\ run[t] = NoRun
          /\ run' = [run EXCEPT ![thread[c]].awaited = FALSE,
                                ![t] = NewRun("fallback", "manual", Message(c).revision, Message(c))]
          /\ thread' = [thread EXCEPT ![c] = t]
    /\ To(c, "fallback")
    /\ UNCHANGED <<ticket, checkpoint, log, dlq, marker, committed, assigned, position, beat>>

\* Only an applied hand-off counts.
FallbackReturns(c) ==
    /\ Awaits(c, "handOff") \/ Awaits(c, "fallback")
    /\ \/ /\ ReplyTo(c) = "APPLIED"
          /\ Mark(c, Marked("MANUAL_REQUIRED"))
          /\ To(c, IF step[c] = "handOff" THEN "commit" ELSE "commitManual")
          /\ UNCHANGED <<run, thread>>
       \/ /\ ReplyTo(c) # "APPLIED" /\ step[c] = "handOff"
          /\ FallBack(c, thread[c], "fallback")
          /\ UNCHANGED marker
       \/ /\ ReplyTo(c) # "APPLIED" /\ step[c] = "fallback"
          /\ To(c, "dlq")
          /\ UNCHANGED <<marker, run, thread>>
    /\ UNCHANGED <<ticket, checkpoint, faults, log, dlq, committed, assigned, position, beat>>

SendToDlq(c) ==
    /\ step[c] = "dlq"
    /\ dlq' = dlq \cup {Message(c)}
    /\ To(c, "markFailed")
    /\ UNCHANGED <<runVars, log, marker, committed, assigned, position, thread, beat>>

MarkFailed(c) ==
    /\ step[c] = "markFailed"
    /\ Mark(c, Marked("FAILED"))
    /\ To(c, "commitDlq")
    /\ UNCHANGED <<runVars, log, dlq, committed, assigned, position, thread, beat>>

----------------------------------------------------------------------------
(* Committing, and the end of a process.                                    *)

CommitSteps == {"ack", "commit", "commitManual", "commitDlq"}

\* The iteration is over: the run of c, if any, is given back.
EndIteration(c) ==
    /\ thread' = [thread EXCEPT ![c] = NoThread]
    /\ run' = [t \in Threads |-> IF t = thread[c] THEN NoRun ELSE run[t]]

Commit(c) ==
    /\ step[c] \in CommitSteps
    /\ assigned = c
    /\ committed' = position[c]
    /\ To(c, "poll")
    /\ EndIteration(c)
    /\ UNCHANGED <<ticket, checkpoint, faults, log, dlq, marker, assigned, position, beat>>

\* The run a process awaits ends with it, but a transaction begun in Java goes on.
\* A run it no longer awaits is joined when the interpreter exits, and goes on too.
EndProcess(c) ==
    /\ To(c, "down")
    /\ assigned' = IF assigned = c THEN NoConsumer ELSE assigned
    /\ marker' = [ev \in Event |-> IF marker[ev].owner = c
                                   THEN [marker[ev] EXCEPT !.owner = NoConsumer]
                                   ELSE marker[ev]]
    /\ beat' = [beat EXCEPT ![c] = {}]
    /\ thread' = [thread EXCEPT ![c] = NoThread]
    /\ run' = [t \in Threads |->
                  IF t # thread[c] THEN run[t]
                  ELSE IF run[t].step \in Updates
                       THEN [run[t] EXCEPT !.kind = "fallback", !.awaited = FALSE]
                       ELSE NoRun]

\* commit() raises: the partition has been taken away, or the broker failed with
\* or without having moved the offset.
CommitRaises(c) ==
    \/ assigned # c /\ UNCHANGED <<committed, faults>>
    \/ assigned = c /\ committed' \in {committed, position[c]} /\ Fault("commitFails")

CommitFails(c) ==
    /\ CommitRaises(c)
    /\ \/ /\ step[c] = "commit"
          /\ FallBack(c, thread[c], "fallback")
          /\ UNCHANGED <<assigned, marker, beat>>
       \/ /\ step[c] = "commitManual"
          /\ To(c, "dlq")
          /\ UNCHANGED <<assigned, marker, beat, run, thread>>
       \/ /\ step[c] \in {"ack", "commitDlq"}
          /\ EndProcess(c)
    /\ UNCHANGED <<ticket, checkpoint, log, dlq, position>>

Crash(c) ==
    /\ step[c] # "down"
    /\ Fault("crash")
    /\ EndProcess(c)
    /\ UNCHANGED <<ticket, checkpoint, log, dlq, committed, position>>

Restart(c) ==
    /\ step[c] = "down"
    /\ To(c, "poll")
    /\ UNCHANGED <<runVars, log, dlq, marker, committed, assigned, position, thread, beat>>

----------------------------------------------------------------------------
KeepConsumers == UNCHANGED consumerVars

ConsumerStep(c) ==
    \/ Poll(c) \/ Claim(c) \/ ReadMarker(c) \/ Defer(c) \/ TakeOver(c)
    \/ StartAgent(c) \/ Finalize(c) \/ FallbackReturns(c)
    \/ SendToDlq(c) \/ MarkFailed(c) \/ Commit(c) \/ CommitFails(c)

ConsumerNext(c) ==
    \/ ConsumerStep(c) \/ AgentTimesOut(c) \/ Crash(c) \/ Restart(c)
    \/ Assign(c) \/ Rebalance(c) \/ HeartbeatReads(c) \/ HeartbeatWrites(c)

TicketNext(rv) == (AcceptSupplement(rv) \/ StaffDecides(rv)) /\ KeepConsumers

RunNext(t) == (RunStep(t) \/ RunFault(t)) /\ KeepConsumers

EventNext(ev) == Publish(ev) \/ PublishAgain(ev) \/ Age(ev)

Next ==
    \/ \E c \in Consumers : ConsumerNext(c)
    \/ \E rv \in Reviews : TicketNext(rv)
    \/ \E t \in Threads : RunNext(t)
    \/ \E ev \in Event : EventNext(ev)

Spec == Init /\ [][Next]_vars

\* What a consumer's process owes: to be restarted, to join the group, to work.  No
\* two of these are possible at a time.
ProcessStep(c) == ConsumerStep(c) \/ Restart(c) \/ Assign(c)

\* Processes run and are restarted, events are published, calls return, time
\* passes.  Users and merchants owe nothing; faults are never owed.
Fairness ==
    /\ \A c \in Consumers : WF_vars(ProcessStep(c))
    /\ \A t \in Threads : WF_vars(RunStep(t) /\ KeepConsumers)
    /\ \A ev \in Event : WF_vars(Publish(ev)) /\ WF_vars(Age(ev))

FairSpec == Spec /\ Fairness

----------------------------------------------------------------------------
(* Properties.                                                              *)

\* An event is settled when the review it asks for has an outcome on record: a
\* verdict or the merchant's decision, the user's prompt for its revision, or
\* the dead-letter topic; or when a newer revision has an event of its own.
Settled(ev) ==
    \/ ticket[ev.review].state # "open"
    \/ ev.revision \in ticket[ev.review].prompts
    \/ ev.revision < ticket[ev.review].revision
    \/ ev \in dlq

\* "Commits the offset only after the business result, the evidence request or
\* the manual fallback is persisted" (and what cannot be, is in the DLQ).
CommittedIsSettled ==
    \A i \in 1 .. committed : Settled(log[i])

\* A terminal marker, on which duplicates are acknowledged unseen, is true; one
\* that says FAILED is backed by the dead-letter topic.
MarkersAreTrue ==
    \A ev \in Event :
        /\ marker[ev].status \in TerminalStatuses => Settled(ev)
        /\ marker[ev].status = "FAILED" => ev \in dlq

\* Every revision the user created is eventually settled.
EveryEventIsSettled ==
    \A ev \in Event :
        (ev.revision <= ticket[ev.review].revision) ~> Settled(ev)
=============================================================================
