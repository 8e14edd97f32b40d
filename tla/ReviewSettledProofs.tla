------------------------- MODULE ReviewSettledProofs -------------------------
(***************************************************************************)
(* Proofs about ReviewConsumer, for any consumers, threads and tickets:    *)
(* what is committed or marked is settled, as long as the faults that      *)
(* refute it (see the README's findings) do not occur on a ticket that can *)
(* be supplemented.  Then about ReviewDelivery: the same holds in company  *)
(* of the outbox and the dead-letter consumer, and the outbox says of an   *)
(* event only what is so, whatever faults occur.                           *)
(***************************************************************************)
EXTENDS ReviewConsumerProofs, ReviewDelivery, FiniteSetTheorems

\* Faults after which a graph may go on, unnoticed, with evidence that has been
\* supplemented.  Without supplements they are harmless.
StaleFaults == {"loadFails", "supplementRace", "raises", "timeout", "rebalance"}

EvidenceIsKept == MaxRevision = 0 \/ StaleFaults \cap FaultKinds = {}

\* An UPDATE that is still to come meets the revision it was decided on, or a
\* ticket that somebody decided first.
UpdatesAreCurrent ==
    \A t \in Threads : run[t].step \in Updates =>
        \/ ticket[run[t].review].state # "open"
        \/ ticket[run[t].review].revision = run[t].revision

\* What a graph at END returned as final is on record.
CheckpointsAreTrue ==
    \A rv \in Reviews :
        checkpoint[rv].at = "ended" =>
            checkpoint[rv].reply = "ERROR" \/ ticket[rv].state # "open"

\* The run a consumer waits for works on its message, on its revision or a newer
\* one, and returns only what settles it or what the consumer treats as a failure.
AwaitedIsTrue ==
    \A c \in Consumers : step[c] \in {"await", "handOff", "fallback"} =>
        LET r == run[thread[c]] IN
        /\ r.step # "idle"
        /\ r.review = Message(c).review
        /\ r.step \in Working => Message(c).revision <= r.revision
        /\ r.step = "done" => r.reply \in {"ERROR", "RAISED"} \/ Settled(Message(c))

\* An absent marker is absent in full.
AbsentIsBare == \A ev \in Event : marker[ev].status = "absent" => marker[ev] = Absent

\* What a consumer is past is settled, what it is about to commit as well, and a
\* marker it finds released.
PassedIsSettled ==
    \A c \in Consumers :
        /\ step[c] \in {"poll", "down"} /\ assigned = c =>
              \A i \in 1 .. position[c] : Settled(log[i])
        /\ step[c] \notin {"poll", "down"} =>
              \A i \in 1 .. position[c] : i # position[c] => Settled(log[i])
        /\ step[c] \in CommitSteps => Settled(Message(c))
        /\ step[c] \in {"markFailed", "commitDlq"} => Message(c) \in dlq
        /\ step[c] = "read" /\ marker[Message(c)].status = "absent" => Settled(Message(c))

\* A run of the graph was broken off, or is under way.
Broken(rv) == checkpoint[rv].at \in {"load", "review", "manual"}

\* Only the assignee has a message in its hands, and it is the one after the
\* committed offset.
OneAtWork ==
    \A c \in Consumers :
        /\ step[c] \notin {"poll", "down"} => assigned = c
        /\ step[c] \in {"poll", "down"} /\ assigned = c => position[c] = committed
        /\ step[c] \in {"claim", "read", "start", "await"} => position[c] = committed + 1

\* Its marker is not lost before the run is over.
ClaimedIsMarked ==
    \A c \in Consumers :
        /\ step[c] \in {"start", "await"} => marker[Message(c)].status = "PROCESSING"
        /\ step[c] = "read" => marker[Message(c)].status # "absent"

\* A run of the graph has a consumer that waits for it, and waits for no other.
GraphsAreAwaited ==
    /\ \A t \in Threads :
          run[t].kind = "agent" /\ run[t].step \notin {"idle", "done"} =>
              \E c \in Consumers : thread[c] = t /\ step[c] = "await"
    /\ \A c \in Consumers : step[c] = "await" => run[thread[c]].kind = "agent"

\* A graph that is broken off is next in the partition, and its context is new
\* enough for the event: the run that takes it up again is of the same event.
BrokenIsNext ==
    \A rv \in Reviews : Broken(rv) =>
        /\ committed < Len(log)
        /\ log[committed + 1].review = rv
        /\ marker[log[committed + 1]].status = "PROCESSING"
        /\ checkpoint[rv].at # "load" => log[committed + 1].revision <= checkpoint[rv].revision

\* A consumer that has its result leaves no graph broken off.
Over(c) == \/ step[c] = "await" /\ run[thread[c]].step = "done"
           \/ step[c] \in CommitSteps \cup {"handOff", "fallback", "dlq", "markFailed"}

OverIsWhole == \A c \in Consumers : Over(c) => \A rv \in Reviews : ~Broken(rv)

\* Where no run outlives its consumer's patience, a graph is taken up again with the
\* message it was left with.
Aligned == OneAtWork /\ ClaimedIsMarked /\ GraphsAreAwaited /\ BrokenIsNext /\ OverIsWhole

SettledInv ==
    /\ ShapeInv
    /\ MaxRevision = 0 \/ Aligned
    /\ UpdatesAreCurrent
    /\ CheckpointsAreTrue
    /\ AwaitedIsTrue
    /\ AbsentIsBare
    /\ MarkersAreTrue
    /\ PassedIsSettled
    /\ CommittedIsSettled

----------------------------------------------------------------------------
(* What is settled stays settled.                                           *)

\* Tickets, the dead-letter topic and the partition only grow.
LEMMA StepGrows == ShapeInv /\ [Next]_vars =>
    /\ TicketsGrow /\ ticket' \in [Reviews -> Ticket]
    /\ dlq \subseteq dlq'
    /\ Len(log) <= Len(log') /\ \A i \in 1 .. Len(log) : log'[i] = log[i]
<1> SUFFICES ASSUME ShapeInv, [Next]_vars
             PROVE /\ TicketsGrow /\ ticket' \in [Reviews -> Ticket]
                   /\ dlq \subseteq dlq'
                   /\ Len(log) <= Len(log') /\ \A i \in 1 .. Len(log) : log'[i] = log[i]
  OBVIOUS
<1> USE DEF ShapeInv
<1>1. ASSUME ticket' = ticket PROVE TicketsGrow /\ ticket' \in [Reviews -> Ticket]
  <2>1. \A x \in Reviews : ticket[x].revision \in Nat
    BY BoundsAreNat DEF TypeOK, Ticket, Revisions
  <2>2. QED
    BY <1>1, <2>1 DEF TypeOK, TicketsGrow
<1>2. Len(log) \in Nat /\ log \in Seq(Event)
  BY DEF TypeOK
<1>3. CASE QuietStep
  <2>1. ticket' = ticket /\ dlq \subseteq dlq'
    BY <1>3 DEF QuietStep, EventNext, Publish, PublishAgain, Age, Assign, Rebalance, AssignTo,
         Poll, Claim, ReadMarker, Defer, TakeOver, HeartbeatReads, HeartbeatWrites,
         SendToDlq, MarkFailed, Restart, runVars
  <2>2. log' = log \/ \E ev \in Event : log' = Append(log, ev)
    BY <1>3 DEF QuietStep, EventNext, Publish, PublishAgain, Age, Assign, Rebalance, AssignTo,
         Poll, Claim, ReadMarker, Defer, TakeOver, HeartbeatReads, HeartbeatWrites,
         SendToDlq, MarkFailed, Restart
  <2>3. Len(log) <= Len(log') /\ \A i \in 1 .. Len(log) : log'[i] = log[i]
    BY <1>2, <2>2
  <2>4. QED
    BY <1>1, <2>1, <2>3
<1>4. CASE BusyStep
  <2>1. UNCHANGED <<ticket, log, dlq>>
    BY <1>4, BusyFrame DEF BusyStep
  <2>2. QED
    BY <1>1, <1>2, <2>1
<1>5. ASSUME NEW rv \in Reviews, TicketNext(rv)
      PROVE  TicketsGrow /\ ticket' \in [Reviews -> Ticket] /\ UNCHANGED <<log, dlq>>
  BY <1>5, TicketEffect DEF TicketNext, KeepConsumers, consumerVars
<1>6. ASSUME NEW t \in Threads, RunNext(t)
      PROVE  TicketsGrow /\ ticket' \in [Reviews -> Ticket] /\ UNCHANGED <<log, dlq>>
  BY <1>6, RunEffect DEF RunNext, KeepConsumers, consumerVars
<1>7. CASE UNCHANGED vars
  BY <1>1, <1>2, <1>7 DEF vars, runVars, consumerVars
<1>8. QED
  BY <1>2, <1>3, <1>4, <1>5, <1>6, <1>7
     DEF Next, ConsumerNext, ConsumerStep, QuietStep, BusyStep

\* A settled event stays settled.
LEMMA SettledIsKept ==
    ASSUME ShapeInv, [Next]_vars, NEW ev \in Event, Settled(ev)
    PROVE  Settled(ev)'
<1>1. TicketsGrow /\ ticket' \in [Reviews -> Ticket] /\ dlq \subseteq dlq'
  BY StepGrows
<1>2. ev.review \in Reviews /\ ev.revision \in Nat
  BY BoundsAreNat DEF Event, Revisions
<1>3. ticket[ev.review].revision \in Nat /\ ticket'[ev.review].revision \in Nat
  BY <1>1, <1>2, BoundsAreNat DEF ShapeInv, TypeOK, Ticket, Revisions
<1>4. QED
  BY <1>1, <1>2, <1>3 DEF TicketsGrow, Settled

\* A consumer that keeps its position keeps its message.
LEMMA MessageIsKept ==
    ASSUME ShapeInv, [Next]_vars, NEW c \in Consumers, step[c] \notin {"poll", "down"},
           position'[c] = position[c]
    PROVE  /\ Message(c) \in Event /\ position[c] \in 1 .. Len(log)
           /\ Message(c)' = Message(c)
           /\ Settled(Message(c)) => Settled(Message(c))'
<1>1. Message(c) \in Event /\ position[c] \in 1 .. Len(log)
  BY MessageIsEvent DEF ShapeInv
<1>2. Message(c)' = Message(c)
  BY <1>1, StepGrows DEF Message
<1>3. ASSUME Settled(Message(c)) PROVE Settled(Message(c))'
  <2>1. PICK ev \in Event : ev = Message(c)
    BY <1>1
  <2>2. Settled(ev)'
    BY <1>3, <2>1, SettledIsKept
  <2>3. QED
    BY <1>2, <2>1, <2>2 DEF Settled
<1>4. QED
  BY <1>1, <1>2, <1>3

\* Where a step goes on in the middle of a message, its position stays.
LEMMA PassedIsKept ==
    ASSUME ShapeInv, [Next]_vars, NEW i \in 1 .. Len(log), Settled(log[i])
    PROVE  i \in 1 .. Len(log') /\ Settled(log[i])'
<1>1. Len(log) \in Nat /\ log[i] \in Event
  BY DEF ShapeInv, TypeOK
<1>2. log'[i] = log[i] /\ Len(log) <= Len(log')
  BY StepGrows
<1>3. log' \in Seq(Event)
  BY StepShape DEF ShapeInv, TypeOK
<1>4. PICK ev \in Event : ev = log[i]
  BY <1>1
<1>5. Settled(ev)'
  BY <1>4, SettledIsKept
<1>6. QED
  BY <1>1, <1>2, <1>3, <1>4, <1>5 DEF Settled

----------------------------------------------------------------------------
(* What a run answers is true.                                              *)

\* A reply on revision, judged by the ticket's row.
TrueReply(row, revision, reply) ==
    \/ reply = "ERROR"
    \/ row.state # "open"
    \/ reply \in Paused /\ (revision \in row.prompts \/ revision < row.revision)

\* The run ends with a true answer, or, of a ticket without supplements, raises.
RunEnds(t) ==
    \/ Return(t, "RAISED") /\ checkpoint' = checkpoint /\ MaxRevision = 0
    \/ /\ run[t].step \in Working
       /\ \E reply \in Replies \ {"RAISED"} :
             /\ Finish(t, reply)
             /\ TrueReply(ticket'[run[t].review], run[t].revision, reply)

\* The graph of a run comes to a node with the run, or is where it was.
GraphGoesOn(t) ==
    \/ checkpoint' = checkpoint
    \/ /\ run[t].kind # "fallback"
       /\ run'[t].step \in {"load", "review", "manual"}
       /\ checkpoint' = [checkpoint EXCEPT ![run[t].review] =
                            Reached(run'[t].step, run'[t].revision)]

\* The run goes on, with the revision it had or the ticket's.
RunGoesOn(t) ==
    /\ GraphGoesOn(t)
    /\ run'[t].step \notin {"idle", "done"}
    /\ run'[t].review = run[t].review /\ run'[t].kind = run[t].kind
    /\ run'[t].step \in Working =>
          \/ run[t].step \in Working /\ run'[t].revision = run[t].revision
          \/ run'[t].revision = ticket[run[t].review].revision
          \/ MaxRevision = 0
    /\ run'[t].step \in Updates => /\ ticket[run[t].review].state = "open"
                                   /\ ticket[run[t].review].revision = run'[t].revision

\* Every step of a run, also one that fails, ends it with a true answer or goes on.
LEMMA RunAnswers ==
    ASSUME ShapeInv, UpdatesAreCurrent, EvidenceIsKept,
           NEW t \in Threads, RunStep(t) \/ RunFault(t)
    PROVE  RunEnds(t) \/ RunGoesOn(t)
<1> USE DEF ShapeInv
<1> DEFINE rv == run[t].review
<1>1. rv \in Reviews /\ run[t] \in Run
  BY RunEffect DEF TypeOK
<1>2. /\ ticket[rv] \in Ticket /\ ticket[rv].revision \in Nat /\ run[t].revision \in Nat
      /\ ticket[rv].revision \in Revisions /\ run[t].revision \in Revisions /\ 0 \in Revisions
  BY <1>1, BoundsAreNat DEF TypeOK, Ticket, Run, Revisions
<1>3. ASSUME NEW s \in RunSteps, Goto(t, s), checkpoint' = checkpoint, s \notin {"idle", "done"},
             s \in Working => run[t].step \in Working,
             s \in Updates => ticket[rv].state = "open" /\ ticket[rv].revision = run[t].revision
      PROVE  RunGoesOn(t)
  BY <1>3, GotoMoves DEF RunGoesOn, GraphGoesOn
<1>4. ASSUME NEW reply \in Replies \ {"RAISED"}, run[t].step \in Working, Finish(t, reply),
             TrueReply(ticket'[rv], run[t].revision, reply)
      PROVE  RunEnds(t)
  BY <1>4 DEF RunEnds
<1>5. ASSUME NEW node \in {"load", "review", "manual"}, NEW revision \in Revisions,
             GoOn(t, node, revision),
             \/ node = "load"
             \/ run[t].step \in Working /\ revision = run[t].revision
             \/ revision = ticket[rv].revision
             \/ MaxRevision = 0
      PROVE  RunGoesOn(t)
  <2>1. /\ run'[t].step = node /\ run'[t].revision = revision
        /\ run'[t].review = run[t].review /\ run'[t].kind = run[t].kind
        /\ Save(t, Reached(node, revision))
    BY <1>1, <1>5, GoOnMoves
  <2>2. GraphGoesOn(t)
    BY <2>1 DEF Save, GraphGoesOn
  <2>3. QED
    BY <1>5, <2>1, <2>2 DEF RunGoesOn, Working, Updates
<1>6. /\ "manual" \in RunSteps /\ "manual" \in Working /\ "manual" \notin Updates
      /\ "PROMPTED" \in Replies /\ "ERROR" \in Replies /\ "PROMPTED" \in Paused
  BY DEF RunSteps, Working, Updates, Replies, Paused, Ended
<1>7. CASE LoadContext(t) \/ LoadFails(t)
  <2>1. PICK node \in {"review", "manual"}, revision \in Revisions :
            GoOn(t, node, revision) /\ (revision = ticket[rv].revision \/ MaxRevision = 0)
    <3>1. CASE LoadContext(t)
      BY <1>2, <3>1 DEF LoadContext
    <3>2. CASE LoadFails(t)
      <4>1. GoOn(t, "manual", run[t].revision) /\ "loadFails" \in FaultKinds
        BY <3>2 DEF LoadFails, Fault
      <4>2. MaxRevision = 0
        BY <4>1 DEF EvidenceIsKept, StaleFaults
      <4>3. QED
        BY <1>2, <4>1, <4>2
    <3>3. QED
      BY <1>7, <3>1, <3>2
  <2>2. QED
    BY <1>5, <2>1
<1>8. CASE RequestEvidence(t)
  <2>1. run[t].step \in Working
    BY <1>8 DEF RequestEvidence, Working
  <2>2. \/ GoOn(t, "load", 0) \/ GoOn(t, "manual", run[t].revision)
        \/ /\ Finish(t, "PROMPTED")
           /\ ticket' = [ticket EXCEPT ![run[t].review].prompts = @ \cup {run[t].revision}]
    BY <1>8 DEF RequestEvidence
  <2>3. CASE GoOn(t, "load", 0) \/ GoOn(t, "manual", run[t].revision)
    BY <1>2, <1>5, <2>1, <2>3
  <2>4. ASSUME Finish(t, "PROMPTED"),
               ticket' = [ticket EXCEPT ![run[t].review].prompts = @ \cup {run[t].revision}]
        PROVE  RunEnds(t)
    <3>1. run[t].revision \in ticket'[rv].prompts
      BY <1>1, <2>4, PromptedGrows
    <3>2. QED
      BY <1>4, <1>6, <2>1, <2>4, <3>1 DEF TrueReply
  <2>5. QED
    BY <2>2, <2>3, <2>4
<1>9. CASE RequestFails(t)
  <2>1. run[t].step \in Working /\ GoOn(t, "manual", run[t].revision)
    BY <1>9 DEF RequestFails, Working
  <2>2. QED
    BY <1>2, <1>5, <2>1
<1>10. ASSUME NEW update \in Updates, Submit(t, update) PROVE RunEnds(t) \/ RunGoesOn(t)
  <2> DEFINE reply == EarlyReply(ticket[rv], run[t].revision)
  <2>1. run[t].step \in Working /\ ticket' = ticket
    BY <1>10 DEF Submit, Working
  <2>2. run[t].revision <= ticket[rv].revision
    BY <2>1 DEF RunsHaveReviews, Working, Updates
  <2>3. /\ reply \in Replies \ {"RAISED"}
        /\ reply # NoReply => TrueReply(ticket[rv], run[t].revision, reply)
    BY <1>2, <2>2 DEF EarlyReply, Replies, Paused, Ended, TrueReply, NoReply
  <2>4. reply = NoReply => ticket[rv].state = "open" /\ ticket[rv].revision = run[t].revision
    BY <1>2 DEF EarlyReply, NoReply, Ticket
  <2>5. \/ reply # NoReply /\ Finish(t, reply)
        \/ reply = NoReply /\ Goto(t, update) /\ checkpoint' = checkpoint
    BY <1>10 DEF Submit
  <2>6. update \in RunSteps /\ update \notin {"idle", "done"}
    BY DEF Updates, RunSteps
  <2> HIDE DEF reply
  <2>7. QED
    BY <1>3, <1>4, <2>1, <2>3, <2>4, <2>5, <2>6
<1>11. CASE Update(t)
  <2>1. run[t].step \in Updates
    BY <1>11 DEF Update
  <2>2. PICK reply \in {"APPLIED", "STALE_REVIEW"} : Finish(t, reply)
    BY <1>11 DEF Update
  <2>3. ticket'[rv].state # "open"
    <3>1. CASE Matches(t) /\ ticket' = Reviewed(t)
      BY <1>1, <3>1, ReviewedGrows
    <3>2. CASE ~Matches(t) /\ ticket' = ticket
      BY <2>1, <3>2 DEF Matches, UpdatesAreCurrent
    <3>3. QED
      BY <1>11, <3>1, <3>2 DEF Update
  <2>4. reply \in Replies \ {"RAISED"} /\ run[t].step \in Working
    BY <2>1 DEF Replies, Ended, Working
  <2>5. QED
    BY <1>4, <2>2, <2>3, <2>4 DEF TrueReply
<1>12. CASE CallFails(t)
  <2>1. Finish(t, "ERROR") \/ (Goto(t, "manual") /\ checkpoint' = checkpoint)
    BY <1>12 DEF CallFails
  <2>2. run[t].step \in Working
    BY <1>12 DEF CallFails, Working
  <2>3. QED
    BY <1>3, <1>4, <1>6, <2>1, <2>2 DEF TrueReply
<1>13. CASE RunRaises(t)
  <2>1. Return(t, "RAISED") /\ checkpoint' = checkpoint /\ "raises" \in FaultKinds
    BY <1>13 DEF RunRaises, Fault
  <2>2. QED
    BY <2>1 DEF RunEnds, EvidenceIsKept, StaleFaults
<1>14. QED
  BY <1>7, <1>8, <1>9, <1>10, <1>11, <1>12, <1>13 DEF RunStep, RunFault

----------------------------------------------------------------------------
(* What a consumer does to the runs of the others, and to its own.          *)

\* One consumer takes run t, or keeps or gives back the one it has; no run comes
\* to an UPDATE by that.
LEMMA BusyRuns ==
    ASSUME ShapeInv, NEW c \in Consumers,
           \/ StartAgent(c) \/ Finalize(c) \/ AgentTimesOut(c) \/ FallbackReturns(c)
           \/ Commit(c) \/ CommitFails(c) \/ Crash(c)
    PROVE  /\ \A d \in Consumers : d # c => thread'[d] = thread[d] /\ step'[d] = step[d]
           /\ \A u \in Threads :
                 \/ run'[u] = run[u]
                 \/ run[u] = NoRun /\ run'[u].step \in {"load", "review", "manual", "done"}
                 \/ /\ u = thread[c]
                    /\ \/ run'[u].step \in {"idle", "manual"}
                       \/ /\ run'[u].step = run[u].step /\ run'[u].review = run[u].review
                          /\ run'[u].revision = run[u].revision
<1> USE DEF ShapeInv
<1> DEFINE TheRest == \A d \in Consumers : d # c => thread'[d] = thread[d] /\ step'[d] = step[d]
           Runs == \A u \in Threads :
                 \/ run'[u] = run[u]
                 \/ run[u] = NoRun /\ run'[u].step \in {"load", "review", "manual", "done"}
                 \/ /\ u = thread[c]
                    /\ \/ run'[u].step \in {"idle", "manual"}
                       \/ /\ run'[u].step = run[u].step /\ run'[u].review = run[u].review
                          /\ run'[u].revision = run[u].revision
<1>1. \A u \in Threads : run[u] \in Run
  BY DEF TypeOK
<1>2. ASSUME NEW s, To(c, s), NEW t, thread' = thread \/ thread' = [thread EXCEPT ![c] = t]
      PROVE  TheRest
  BY <1>2 DEF To, TypeOK
<1>3. ASSUME NEW s, FallBack(c, thread[c], s) PROVE TheRest /\ Runs
  <2> DEFINE r == NewRun("fallback", "manual", Message(c).revision, Message(c))
  <2>1. run' = [run EXCEPT ![thread[c]] = r] /\ r.step = "manual"
    BY <1>3 DEF FallBack, NewRun
  <2> HIDE DEF r
  <2>2. Runs
    BY <2>1 DEF TypeOK
  <2>3. QED
    BY <1>2, <1>3, <2>2 DEF FallBack
<1>4. CASE StartAgent(c)
  <2>1. PICK t \in Threads, r \in Run :
            /\ run[t] = NoRun
            /\ thread' = [thread EXCEPT ![c] = t]
            /\ run' = [run EXCEPT ![t] = r]
            /\ StartsWith(c, r)
    BY <1>4, StartMoves
  <2>2. r.step \in {"load", "review", "manual", "done"}
    BY <2>1 DEF StartsWith
  <2>3. Runs
    BY <2>1, <2>2 DEF TypeOK
  <2>4. To(c, "await")
    BY <1>4 DEF StartAgent
  <2>5. QED
    BY <1>2, <2>1, <2>3, <2>4
<1>5. CASE Finalize(c)
  <2>1. \/ To(c, "commit") /\ UNCHANGED <<run, thread>>
        \/ FallBack(c, thread[c], "handOff")
        \/ FallBack(c, thread[c], "fallback")
    BY <1>5 DEF Finalize
  <2>2. QED
    BY <1>2, <1>3, <2>1
<1>6. CASE AgentTimesOut(c)
  <2> DEFINE r == NewRun("fallback", "manual", Message(c).revision, Message(c))
             left == [run[thread[c]] EXCEPT !.awaited = FALSE]
  <2>1. PICK t \in Threads :
            /\ run[t] = NoRun /\ thread' = [thread EXCEPT ![c] = t]
            /\ run' = [run EXCEPT ![thread[c]] = left, ![t] = r]
    BY <1>6 DEF AgentTimesOut
  <2>2. r.step = "manual"
    BY DEF NewRun
  <2>3. thread[c] \in Threads
    BY <1>6 DEF AgentTimesOut, TypeOK, ThreadsAreHeld
  <2>4. left.step = run[thread[c]].step /\ left.review = run[thread[c]].review
        /\ left.revision = run[thread[c]].revision
    BY <1>1, <2>3 DEF Run
  <2> HIDE DEF r, left
  <2>5. Runs
    BY <2>1, <2>2, <2>3, <2>4 DEF TypeOK
  <2>6. To(c, "fallback")
    BY <1>6 DEF AgentTimesOut
  <2>7. QED
    BY <1>2, <2>1, <2>5, <2>6
<1>7. CASE FallbackReturns(c)
  <2>1. \/ \E s : To(c, s) /\ UNCHANGED <<run, thread>>
        \/ FallBack(c, thread[c], "fallback")
    BY <1>7 DEF FallbackReturns
  <2>2. QED
    BY <1>2, <1>3, <2>1
<1>8. ASSUME EndIteration(c), To(c, "poll") PROVE TheRest /\ Runs
  <2>1. Runs
    BY <1>8, NoRunTyped DEF EndIteration
  <2>2. QED
    BY <1>2, <1>8, <2>1 DEF EndIteration
<1>9. ASSUME EndProcess(c) PROVE TheRest /\ Runs
  <2>1. ASSUME NEW u \in Threads
        PROVE  \/ run'[u] = run[u]
               \/ /\ u = thread[c]
                  /\ \/ run'[u].step = "idle"
                     \/ /\ run'[u].step = run[u].step /\ run'[u].review = run[u].review
                        /\ run'[u].revision = run[u].revision
    <3> DEFINE left == [run[u] EXCEPT !.kind = "fallback", !.awaited = FALSE]
    <3>1. left.step = run[u].step /\ left.review = run[u].review
          /\ left.revision = run[u].revision
      BY <1>1 DEF Run
    <3>2. run'[u] = run[u] \/ (u = thread[c] /\ run'[u] \in {left, NoRun})
      BY <1>9 DEF EndProcess
    <3> HIDE DEF left
    <3>3. QED
      BY <3>1, <3>2, NoRunTyped
  <2>2. QED
    BY <1>2, <1>9, <2>1 DEF EndProcess
<1>10. CASE Commit(c)
  BY <1>8, <1>10 DEF Commit
<1>11. CASE CommitFails(c)
  <2>1. \/ FallBack(c, thread[c], "fallback")
        \/ To(c, "dlq") /\ UNCHANGED <<run, thread>>
        \/ EndProcess(c)
    BY <1>11 DEF CommitFails
  <2>2. QED
    BY <1>2, <1>3, <1>9, <2>1
<1>12. CASE Crash(c)
  BY <1>9, <1>12 DEF Crash
<1>13. QED
  BY <1>4, <1>5, <1>6, <1>7, <1>10, <1>11, <1>12

\* A quiet step moves no ticket and no run.
LEMMA QuietFrame == QuietStep => UNCHANGED <<ticket, checkpoint, run, thread>>
BY DEF QuietStep, EventNext, Publish, PublishAgain, Age, Assign, Rebalance, AssignTo,
       Poll, Claim, ReadMarker, Defer, TakeOver, HeartbeatReads, HeartbeatWrites,
       SendToDlq, MarkFailed, Restart, runVars

\* Every step is a quiet one, a busy one, one of a ticket, one of a run, or none.
LEMMA NextKinds ==
    ASSUME [Next]_vars
    PROVE  \/ UNCHANGED vars
           \/ QuietStep
           \/ BusyStep
           \/ \E rv \in Reviews : TicketNext(rv)
           \/ \E t \in Threads : RunNext(t)
BY DEF Next, ConsumerNext, ConsumerStep, QuietStep, BusyStep

----------------------------------------------------------------------------
(* The invariant, one conjunct at a time.                                   *)

\* No supplement slips between the read and the UPDATE of a submission.
LEMMA UpdatesStayCurrent ==
    ASSUME EvidenceIsKept, SettledInv, [Next]_vars
    PROVE  UpdatesAreCurrent'
<1> USE DEF SettledInv
<1> SUFFICES ASSUME NEW u \in Threads, run'[u].step \in Updates
             PROVE  \/ ticket'[run'[u].review].state # "open"
                    \/ ticket'[run'[u].review].revision = run'[u].revision
  BY DEF UpdatesAreCurrent
<1>1. /\ TicketsGrow
      /\ \A rv \in Reviews : ticket[rv].revision \in Nat
      /\ \A t \in Threads : run[t].step \in Updates => run[t].review \in Reviews
  BY StepGrows, BoundsAreNat DEF ShapeInv, TypeOK, Ticket, Revisions, RunsHaveReviews, Updates
<1>2. ASSUME run'[u].step = run[u].step, run'[u].review = run[u].review,
             run'[u].revision = run[u].revision,
             ticket'[run[u].review].revision = ticket[run[u].review].revision
      PROVE  \/ ticket'[run'[u].review].state # "open"
             \/ ticket'[run'[u].review].revision = run'[u].revision
  BY <1>1, <1>2 DEF UpdatesAreCurrent, TicketsGrow
<1>3. CASE UNCHANGED vars \/ QuietStep
  <2>1. UNCHANGED <<ticket, run>>
    BY <1>3, QuietFrame DEF vars, runVars
  <2>2. QED
    BY <1>2, <2>1
<1>4. CASE BusyStep
  <2>1. PICK c \in Consumers :
            \/ StartAgent(c) \/ Finalize(c) \/ AgentTimesOut(c) \/ FallbackReturns(c)
            \/ Commit(c) \/ CommitFails(c) \/ Crash(c)
    BY <1>4 DEF BusyStep
  <2>2. ticket' = ticket
    BY <2>1, BusyFrame
  <2>3. \/ run'[u] = run[u]
        \/ /\ run'[u].step = run[u].step /\ run'[u].review = run[u].review
           /\ run'[u].revision = run[u].revision
    BY <2>1, BusyRuns DEF Updates
  <2>4. QED
    BY <1>2, <2>2, <2>3
<1>5. ASSUME NEW rv \in Reviews, TicketNext(rv)
      PROVE  \/ ticket'[run'[u].review].state # "open"
             \/ ticket'[run'[u].review].revision = run'[u].revision
  <2>1. /\ run' = run
        /\ \A x \in Reviews : x # rv => ticket'[x] = ticket[x]
        /\ StaffDecides(rv) => ticket'[rv].state # "open"
    BY <1>5, TicketEffect DEF TicketNext, ShapeInv
  <2>2. CASE run[u].review # rv
    BY <1>1, <1>2, <2>1, <2>2
  <2>3. CASE run[u].review = rv
    <3>1. ~AcceptSupplement(rv)
      <4>1. UpdatesOf(rv) # {}
        BY <2>1, <2>3 DEF UpdatesOf
      <4>2. CASE MaxRevision = 0
        BY <1>1, <4>2 DEF AcceptSupplement
      <4>3. CASE "supplementRace" \notin FaultKinds
        BY <4>1, <4>3 DEF AcceptSupplement
      <4>4. QED
        BY <4>2, <4>3 DEF EvidenceIsKept, StaleFaults
    <3>2. QED
      BY <1>5, <2>1, <2>3, <3>1 DEF TicketNext
  <2>4. QED
    BY <2>2, <2>3
<1>6. ASSUME NEW t \in Threads, RunNext(t)
      PROVE  \/ ticket'[run'[u].review].state # "open"
             \/ ticket'[run'[u].review].revision = run'[u].revision
  <2>1. /\ RunStep(t) \/ RunFault(t)
        /\ run[t].review \in Reviews
        /\ \A rv \in Reviews : ticket'[rv].revision = ticket[rv].revision
        /\ \A v \in Threads : v # t => run'[v] = run[v]
    BY <1>6, RunEffect DEF RunNext, RunMoved
  <2>2. CASE u # t
    BY <1>1, <1>2, <2>1, <2>2
  <2>3. CASE u = t
    <3>1. ~RunEnds(t)
      <4>1. ASSUME NEW reply \in Replies, Return(t, reply) PROVE FALSE
        BY <2>3, <4>1, ReturnMoves DEF ShapeInv, Updates
      <4>2. "RAISED" \in Replies
        BY DEF Replies
      <4>3. QED
        BY <4>1, <4>2 DEF RunEnds, Finish
    <3>2. RunGoesOn(t)
      BY <2>1, <3>1, RunAnswers
    <3>3. QED
      BY <2>1, <2>3, <3>2 DEF RunGoesOn
  <2>4. QED
    BY <2>2, <2>3
<1>7. QED
  BY <1>3, <1>4, <1>5, <1>6, NextKinds

\* What a graph at END keeps as its last submission is on record, or an error.
LEMMA CheckpointsStayTrue ==
    ASSUME EvidenceIsKept, SettledInv, [Next]_vars
    PROVE  CheckpointsAreTrue'
<1> USE DEF SettledInv
<1> SUFFICES ASSUME NEW rv \in Reviews, checkpoint'[rv].at = "ended"
             PROVE  checkpoint'[rv].reply = "ERROR" \/ ticket'[rv].state # "open"
  BY DEF CheckpointsAreTrue
<1>1. checkpoint'[rv] = checkpoint[rv] =>
          checkpoint'[rv].reply = "ERROR" \/ ticket'[rv].state # "open"
  BY StepGrows DEF CheckpointsAreTrue, TicketsGrow
<1>2. CASE UNCHANGED vars \/ QuietStep
  BY <1>1, <1>2, QuietFrame DEF vars, runVars
<1>3. CASE BusyStep
  <2>1. PICK c \in Consumers :
            \/ StartAgent(c) \/ Finalize(c) \/ AgentTimesOut(c) \/ FallbackReturns(c)
            \/ Commit(c) \/ CommitFails(c) \/ Crash(c)
    BY <1>3 DEF BusyStep
  <2>2. CASE StartAgent(c)
    <3>1. PICK r \in Run : StartsWith(c, r)
      BY <2>2, StartMoves
    <3>2. \/ checkpoint' = checkpoint
          \/ /\ r.step \in {"load", "review", "manual"}
             /\ checkpoint' = [checkpoint EXCEPT ![Message(c).review] = Reached(r.step, r.revision)]
      BY <3>1 DEF StartsWith
    <3>3. checkpoint'[rv] = checkpoint[rv] \/ checkpoint'[rv].at # "ended"
      BY <3>2 DEF ShapeInv, TypeOK, Reached
    <3>4. QED
      BY <1>1, <3>3
  <2>3. CASE ~StartAgent(c)
    BY <1>1, <2>1, <2>3 DEF Finalize, AgentTimesOut, FallbackReturns, Commit, CommitFails, Crash
  <2>4. QED
    BY <2>2, <2>3
<1>4. ASSUME NEW x \in Reviews, TicketNext(x) PROVE checkpoint'[rv] = checkpoint[rv]
  BY <1>4, TicketEffect DEF TicketNext, ShapeInv
<1>5. ASSUME NEW t \in Threads, RunNext(t)
      PROVE  checkpoint'[rv].reply = "ERROR" \/ ticket'[rv].state # "open"
  <2>1. RunStep(t) \/ RunFault(t)
    BY <1>5 DEF RunNext
  <2>2. CASE checkpoint'[rv] # checkpoint[rv]
    <3>1. ~RunGoesOn(t)
      BY <2>2 DEF RunGoesOn, GraphGoesOn, Reached, ShapeInv, TypeOK
    <3>2. PICK reply \in Replies : Finish(t, reply)
                                   /\ TrueReply(ticket'[run[t].review], run[t].revision, reply)
      BY <2>1, <2>2, <3>1, RunAnswers DEF RunEnds
    <3>3. run[t].review \in Reviews
      BY <2>1, RunEffect DEF ShapeInv
    <3>4. PICK saved \in Checkpoint :
              /\ Save(t, saved)
              /\ saved.at = "ended" => saved.reply = reply /\ reply \notin Paused
      BY <3>2, <3>3, FinishMoves DEF ShapeInv
    <3>5. rv = run[t].review /\ checkpoint'[rv] = saved
      BY <2>2, <3>3, <3>4, SaveMoves DEF ShapeInv
    <3>6. QED
      BY <3>2, <3>4, <3>5 DEF TrueReply
  <2>3. QED
    BY <1>1, <2>2
<1>6. QED
  BY <1>1, <1>2, <1>3, <1>4, <1>5, NextKinds

\* Only polling moves a position forward; only polling, claiming and acknowledging
\* happen between two runs.
LEMMA QuietSteps ==
    ASSUME ShapeInv, QuietStep, NEW d \in Consumers
    PROVE  /\ step'[d] \in {"await", "handOff", "fallback", "commit", "commitManual"} =>
                  step[d] = step'[d] /\ position'[d] = position[d]
           /\ step'[d] \notin {"poll", "down"} =>
                  \/ step[d] \notin {"poll", "down"} /\ position'[d] = position[d]
                  \/ Poll(d)
<1> USE DEF ShapeInv, TypeOK
<1>1. CASE \E ev \in Event : EventNext(ev)
  BY <1>1 DEF EventNext, Publish, PublishAgain, Age
<1>2. ASSUME NEW c \in Consumers,
             Assign(c) \/ Rebalance(c) \/ Poll(c) \/ Claim(c) \/ ReadMarker(c) \/ Defer(c)
             \/ TakeOver(c) \/ HeartbeatReads(c) \/ HeartbeatWrites(c) \/ SendToDlq(c)
             \/ MarkFailed(c) \/ Restart(c)
      PROVE  /\ step'[d] \in {"await", "handOff", "fallback", "commit", "commitManual"} =>
                    step[d] = step'[d] /\ position'[d] = position[d]
             /\ step'[d] \notin {"poll", "down"} =>
                    \/ step[d] \notin {"poll", "down"} /\ position'[d] = position[d]
                    \/ Poll(d)
  <2>1. CASE Assign(c) \/ Rebalance(c)
    BY <2>1 DEF Assign, Rebalance, AssignTo
  <2>2. CASE Poll(c)
    BY <2>2 DEF Poll, To
  <2>3. CASE Claim(c) \/ ReadMarker(c) \/ Defer(c) \/ TakeOver(c)
    BY <2>3 DEF Claim, ReadMarker, Defer, TakeOver, To
  <2>4. CASE HeartbeatReads(c) \/ HeartbeatWrites(c)
    BY <2>4 DEF HeartbeatReads, HeartbeatWrites
  <2>5. CASE SendToDlq(c) \/ MarkFailed(c) \/ Restart(c)
    BY <2>5 DEF SendToDlq, MarkFailed, Restart, To
  <2>6. QED
    BY <1>2, <2>1, <2>2, <2>3, <2>4, <2>5
<1>3. QED
  BY <1>1, <1>2 DEF QuietStep

\* A consumer waits only for runs that settle its message or fail: also while
\* other consumers start, lose and abandon theirs.
LEMMA AwaitedStaysTrue ==
    ASSUME EvidenceIsKept, SettledInv, [Next]_vars
    PROVE  AwaitedIsTrue'
<1> USE DEF SettledInv
<1> SUFFICES ASSUME NEW d \in Consumers, step'[d] \in {"await", "handOff", "fallback"}
             PROVE  /\ run'[thread'[d]].step # "idle"
                    /\ run'[thread'[d]].review = Message(d)'.review
                    /\ run'[thread'[d]].step \in Working =>
                           Message(d)'.revision <= run'[thread'[d]].revision
                    /\ run'[thread'[d]].step = "done" =>
                           run'[thread'[d]].reply \in {"ERROR", "RAISED"} \/ Settled(Message(d))'
  BY DEF AwaitedIsTrue
<1> DEFINE Goal == /\ run'[thread'[d]].step # "idle"
                   /\ run'[thread'[d]].review = Message(d)'.review
                   /\ run'[thread'[d]].step \in Working =>
                          Message(d)'.revision <= run'[thread'[d]].revision
                   /\ run'[thread'[d]].step = "done" =>
                          run'[thread'[d]].reply \in {"ERROR", "RAISED"} \/ Settled(Message(d))'
<1>1. ASSUME step'[d] = step[d], thread'[d] = thread[d], position'[d] = position[d],
             run'[thread[d]] = run[thread[d]]
      PROVE  Goal
  <2>1. Message(d)' = Message(d) /\ (Settled(Message(d)) => Settled(Message(d))')
    BY <1>1, MessageIsKept
  <2>2. QED
    BY <1>1, <2>1 DEF AwaitedIsTrue
<1>2. CASE UNCHANGED vars
  BY <1>1, <1>2 DEF vars, runVars, consumerVars
<1>3. CASE QuietStep
  BY <1>1, <1>3, QuietFrame, QuietSteps
<1>4. ASSUME NEW rv \in Reviews, TicketNext(rv) PROVE Goal
  BY <1>1, <1>4, TicketEffect DEF TicketNext, ShapeInv, KeepConsumers, consumerVars
<1>5. ASSUME NEW t \in Threads, RunNext(t) PROVE Goal
  <2>1. /\ RunStep(t) \/ RunFault(t)
        /\ UNCHANGED <<log, step, thread, position>>
        /\ \A u \in Threads : u # t => run'[u] = run[u]
    BY <1>5, RunEffect DEF RunNext, RunMoved, KeepConsumers, consumerVars
  <2>2. thread[d] \in Threads /\ run[thread[d]].awaited
    BY <2>1 DEF ShapeInv, ThreadsAreHeld, TypeOK
  <2>3. CASE thread[d] # t
    BY <1>1, <2>1, <2>2, <2>3
  <2>4. CASE thread[d] = t
    <3>1. /\ Message(d) \in Event /\ Message(d).revision <= ticket[Message(d).review].revision
          /\ Message(d)' = Message(d)
      BY <2>1, MessageIsEvent, MessageIsKept DEF ShapeInv
    <3>2. /\ run[t].review = Message(d).review
          /\ run[t].step \in Working => Message(d).revision <= run[t].revision
      BY <2>1, <2>4 DEF AwaitedIsTrue
    <3>3. /\ run[t].review \in Reviews
          /\ \A rv \in Reviews : ticket'[rv].revision = ticket[rv].revision
          /\ run[t].step \in Working => run[t].revision <= ticket[run[t].review].revision
      BY <2>1, RunEffect DEF ShapeInv, RunsHaveReviews
    <3>4. Message(d).revision \in Nat /\ run[t].revision \in Nat
          /\ ticket[run[t].review].revision \in Nat
          /\ (MaxRevision = 0 => Message(d).revision = 0)
      BY <3>1, <3>3, BoundsAreNat DEF ShapeInv, TypeOK, Event, Run, Ticket, Revisions
    <3>5. CASE Return(t, "RAISED")
      <4>1. "RAISED" \in Replies
        BY DEF Replies
      <4>2. run'[t].step = "done" /\ run'[t].review = run[t].review /\ run'[t].reply = "RAISED"
        BY <2>2, <2>4, <3>5, <4>1, ReturnMoves DEF ShapeInv
      <4>3. QED
        BY <2>1, <2>4, <3>1, <3>2, <4>2 DEF Working, Updates
    <3>6. ASSUME run[t].step \in Working, NEW reply \in Replies, Finish(t, reply),
                 TrueReply(ticket'[run[t].review], run[t].revision, reply)
          PROVE  Goal
      <4>1. run'[t].step = "done" /\ run'[t].review = run[t].review /\ run'[t].reply = reply
        BY <2>2, <2>4, <3>6, ReturnMoves DEF ShapeInv, Finish
      <4>2. reply = "ERROR" \/ Settled(Message(d))'
        BY <3>1, <3>2, <3>3, <3>4, <3>6 DEF TrueReply, Settled
      <4>3. QED
        BY <2>1, <2>4, <3>1, <3>2, <4>1, <4>2 DEF Working, Updates
    <3>7. CASE RunGoesOn(t)
      <4>1. run'[t].step \in Working => Message(d).revision <= run'[t].revision
        <5>1. ASSUME run'[t].step \in Working, MaxRevision = 0
              PROVE  Message(d).revision <= run'[t].revision
          <6>1. run'[t].revision \in Nat
            BY <2>1, RunEffect, BoundsAreNat DEF RunMoved, Run, Revisions
          <6>2. QED
            BY <3>4, <5>1, <6>1
        <5>2. QED
          BY <3>1, <3>2, <3>7, <5>1 DEF RunGoesOn
      <4>2. QED
        BY <2>1, <2>4, <3>1, <3>2, <3>7, <4>1 DEF RunGoesOn
    <3>8. QED
      BY <2>1, <3>5, <3>6, <3>7, RunAnswers DEF RunEnds
  <2>5. QED
    BY <2>3, <2>4
<1>6. ASSUME NEW c \in Consumers,
             \/ StartAgent(c) \/ Finalize(c) \/ AgentTimesOut(c) \/ FallbackReturns(c)
             \/ Commit(c) \/ CommitFails(c) \/ Crash(c)
      PROVE  Goal
  <2>1. UNCHANGED <<ticket, log, dlq, position>>
    BY <1>6, BusyFrame
  <2>2. CASE d # c
    <3>1. thread'[d] = thread[d] /\ step'[d] = step[d]
      BY <1>6, <2>2, BusyRuns DEF ShapeInv
    <3>2. thread[d] \in Threads /\ thread[d] # thread[c] /\ run[thread[d]] # NoRun
      BY <2>2, <3>1, NoRunTyped DEF ShapeInv, ThreadsAreHeld, TypeOK
    <3>3. run'[thread[d]] = run[thread[d]]
      BY <1>6, <3>2, BusyRuns DEF ShapeInv
    <3>4. QED
      BY <1>1, <2>1, <3>1, <3>3
  <2>3. CASE d = c
    <3>1. ASSUME step[c] \notin {"poll", "down"}
          PROVE  /\ Message(c) \in Event /\ Message(c)' = Message(c)
                 /\ Settled(Message(c)) => Settled(Message(c))'
      BY <2>1, <3>1, MessageIsKept
    <3>2. ASSUME step[c] \notin {"poll", "down"}, NEW t \in Threads, thread'[c] = t,
                 run'[t] = NewRun("fallback", "manual", Message(c).revision, Message(c))
          PROVE  Goal
      <4>1. Message(c).revision \in Nat
        BY <3>1, <3>2, BoundsAreNat DEF Event, Revisions
      <4>2. QED
        BY <2>3, <3>1, <3>2, <4>1 DEF NewRun
    <3>3. ASSUME NEW s, step[c] \in {"await", "handOff", "fallback", "commit"},
                 FallBack(c, thread[c], s)
          PROVE  Goal
      <4>1. thread[c] \in Threads
        BY <3>3 DEF ShapeInv, ThreadsAreHeld, TypeOK
      <4>2. thread'[c] = thread[c]
            /\ run'[thread[c]] = NewRun("fallback", "manual", Message(c).revision, Message(c))
        BY <3>3, <4>1 DEF FallBack, ShapeInv, TypeOK
      <4>3. QED
        BY <3>2, <3>3, <4>1, <4>2
    <3>4. CASE StartAgent(c)
      <4> DEFINE last == checkpoint[Message(c).review]
      <4>1. step[c] = "start"
        BY <3>4 DEF StartAgent
      <4>2. PICK t \in Threads, r \in Run :
                /\ run' = [run EXCEPT ![t] = r] /\ thread' = [thread EXCEPT ![c] = t]
                /\ StartsWith(c, r)
        BY <3>4, StartMoves DEF ShapeInv
      <4>3. r.review = Message(c).review /\ r.step \in {"load", "review", "manual", "done"}
        BY <4>2 DEF StartsWith, NewRun
      <4>4. r.step = "done" => r.reply \in {"ERROR", "RAISED"} \/ Settled(Message(c))
        BY <3>1, <4>1, <4>2 DEF StartsWith, CheckpointsAreTrue, Settled, Event
      <4>5. r.step \in Working => Message(c).revision <= r.revision
        <5>1. SUFFICES ASSUME r.step \in Working PROVE Message(c).revision <= r.revision
          OBVIOUS
        <5>2. last.at \in {"review", "manual"} /\ r.revision = last.revision
          BY <5>1, <4>2 DEF StartsWith, Working, Updates
        <5>3. CASE MaxRevision = 0
          BY <3>1, <4>1, <5>3 DEF Event, Revisions, Run
        <5>4. CASE Aligned
          <6>1. Message(c) = log[committed + 1] /\ Message(c).review \in Reviews
            BY <3>1, <4>1, <5>4 DEF Aligned, OneAtWork, Message, Event
          <6>2. QED
            BY <5>2, <5>4, <6>1 DEF Aligned, BrokenIsNext, Broken
        <5>5. QED
          BY <5>3, <5>4
      <4>6. thread'[c] = t /\ run'[t] = r
        BY <4>2 DEF ShapeInv, TypeOK
      <4>7. QED
        BY <2>3, <3>1, <4>1, <4>3, <4>4, <4>5, <4>6
    <3>5. CASE AgentTimesOut(c)
      <4> DEFINE r == NewRun("fallback", "manual", Message(c).revision, Message(c))
      <4>1. PICK t \in Threads :
                /\ run' = [run EXCEPT ![thread[c]].awaited = FALSE, ![t] = r]
                /\ thread' = [thread EXCEPT ![c] = t]
        BY <3>5 DEF AgentTimesOut
      <4>2. step[c] = "await"
        BY <3>5 DEF AgentTimesOut
      <4>3. thread'[c] = t /\ run'[t] = r
        BY <4>1 DEF ShapeInv, TypeOK
      <4>4. QED
        BY <3>2, <4>2, <4>3
    <3>6. CASE Finalize(c)
      <4>1. step[c] = "await" /\ (\/ To(c, "commit")
                                  \/ FallBack(c, thread[c], "handOff")
                                  \/ FallBack(c, thread[c], "fallback"))
        BY <3>6 DEF Finalize, Awaits
      <4>2. ~To(c, "commit")
        BY <2>3 DEF To, ShapeInv, TypeOK
      <4>3. QED
        BY <3>3, <4>1, <4>2
    <3>7. CASE FallbackReturns(c)
      <4>1. /\ step[c] \in {"handOff", "fallback"}
            /\ \/ \E s \in {"commit", "commitManual", "dlq"} : To(c, s)
               \/ FallBack(c, thread[c], "fallback")
        BY <3>7 DEF FallbackReturns, Awaits
      <4>2. \A s \in {"commit", "commitManual", "dlq"} : ~To(c, s)
        BY <2>3 DEF To, ShapeInv, TypeOK
      <4>3. QED
        BY <3>3, <4>1, <4>2
    <3>8. CASE Commit(c) \/ Crash(c) \/ CommitFails(c)
      <4>1. \/ \E s \in {"poll", "down", "dlq"} : To(c, s)
            \/ step[c] = "commit" /\ FallBack(c, thread[c], "fallback")
        BY <3>8 DEF Commit, Crash, CommitFails, EndProcess
      <4>2. \A s \in {"poll", "down", "dlq"} : ~To(c, s)
        BY <2>3 DEF To, ShapeInv, TypeOK
      <4>3. QED
        BY <3>3, <4>1, <4>2
    <3>9. QED
      BY <1>6, <3>4, <3>5, <3>6, <3>7, <3>8
  <2>4. QED
    BY <2>2, <2>3
<1>7. QED
  BY <1>2, <1>3, <1>4, <1>5, <1>6, NextKinds DEF BusyStep

\* A marker becomes terminal only for a settled event, FAILED only behind the
\* dead-letter topic, and is released only by a consumer that settled its event.
LEMMA MarkersStay ==
    ASSUME SettledInv, [Next]_vars, NEW ev \in Event
    PROVE  /\ marker'[ev].status \in TerminalStatuses => Settled(ev)'
           /\ marker'[ev].status = "FAILED" => ev \in dlq'
           /\ marker'[ev].status = "absent" =>
                  /\ marker'[ev] = Absent
                  /\ marker[ev].status = "absent" \/ Settled(ev)'
<1> USE DEF SettledInv
<1> DEFINE Goal == /\ marker'[ev].status \in TerminalStatuses => Settled(ev)'
                   /\ marker'[ev].status = "FAILED" => ev \in dlq'
                   /\ marker'[ev].status = "absent" =>
                          /\ marker'[ev] = Absent
                          /\ marker[ev].status = "absent" \/ Settled(ev)'
<1>1. (Settled(ev) => Settled(ev)') /\ dlq \subseteq dlq' /\ marker[ev] \in Marker
  BY SettledIsKept, StepGrows DEF ShapeInv, TypeOK
<1>2. ASSUME marker'[ev].status = marker[ev].status,
             marker[ev].status = "absent" => marker'[ev] = marker[ev]
      PROVE  Goal
  BY <1>1, <1>2 DEF MarkersAreTrue, AbsentIsBare
<1>3. ASSUME marker'[ev].status = "PROCESSING" PROVE Goal
  BY <1>3 DEF TerminalStatuses
<1>4. ASSUME NEW s \in TerminalStatuses, marker'[ev] = Marked(s), Settled(ev),
             s = "FAILED" => ev \in dlq
      PROVE  Goal
  BY <1>1, <1>4 DEF Marked, TerminalStatuses
<1>5. ASSUME marker'[ev] = Absent, Settled(ev) PROVE Goal
  BY <1>1, <1>5 DEF Absent, TerminalStatuses
<1>6. ASSUME NEW c \in Consumers, NEW m, Mark(c, m)
      PROVE  \/ marker'[ev] = marker[ev]
             \/ ev = Message(c) /\ marker'[ev] = m
  BY <1>6 DEF Mark, ShapeInv, TypeOK
<1>7. ASSUME marker' = marker PROVE Goal
  BY <1>2, <1>7
<1> HIDE DEF Goal
<1>8. ASSUME NEW x \in Event, EventNext(x) PROVE Goal
  <2>1. CASE Age(x)
    <3>1. marker'[ev] = marker[ev] \/ marker'[ev].status = "PROCESSING"
      BY <1>1, <2>1 DEF Age, ShapeInv, TypeOK, Marker
    <3>2. QED
      BY <1>2, <1>3, <3>1
  <2>2. CASE Publish(x) \/ PublishAgain(x)
    BY <1>7, <2>2 DEF Publish, PublishAgain
  <2>3. QED
    BY <1>8, <2>1, <2>2 DEF EventNext
<1>9. ASSUME NEW c \in Consumers, Claim(c) \/ TakeOver(c) \/ HeartbeatWrites(c) PROVE Goal
  <2>1. Processing(c).status = "PROCESSING"
    BY DEF Processing
  <2>2. \/ marker' = marker
        \/ Mark(c, Processing(c))
        \/ \E x \in Event : marker' = [marker EXCEPT ![x] = Processing(c)]
    BY <1>9 DEF Claim, TakeOver, HeartbeatWrites, ShapeInv, TypeOK
  <2>3. marker'[ev] = marker[ev] \/ marker'[ev] = Processing(c)
    BY <1>6, <2>2 DEF ShapeInv, TypeOK
  <2>4. QED
    BY <1>2, <1>3, <2>1, <2>3
<1>10. ASSUME NEW c \in Consumers, MarkFailed(c) PROVE Goal
  <2>1. step[c] = "markFailed" /\ Mark(c, Marked("FAILED"))
    BY <1>10 DEF MarkFailed
  <2>2. Message(c) \in dlq
    BY <2>1 DEF PassedIsSettled
  <2>3. ev = Message(c) => Settled(ev)
    BY <2>2 DEF Settled
  <2>4. QED
    BY <1>2, <1>4, <1>6, <2>1, <2>2, <2>3 DEF TerminalStatuses
<1>11. ASSUME NEW c \in Consumers, Finalize(c) PROVE Goal
  <2>1. step[c] = "await" /\ run[thread[c]].step = "done"
    BY <1>11 DEF Finalize, Awaits
  <2>2. ReplyTo(c) \in {"ERROR", "RAISED"} \/ Settled(Message(c))
    BY <2>1 DEF AwaitedIsTrue, ReplyTo
  <2>3. \/ marker' = marker
        \/ Mark(c, Absent) /\ ReplyTo(c) \in {"STALE_REVIEW", "STATUS_CHANGED"}
        \/ Mark(c, OutcomeMark(ReplyTo(c))) /\ ReplyTo(c) \in Paused \cup {"APPLIED"}
    BY <1>11 DEF Finalize
  <2>4. \E s \in TerminalStatuses \ {"FAILED"} : OutcomeMark(ReplyTo(c)) = Marked(s)
    BY DEF OutcomeMark, TerminalStatuses
  <2>5. marker' = marker \/ Settled(Message(c))
    BY <2>2, <2>3 DEF Paused
  <2>6. CASE marker' # marker /\ ev = Message(c) /\ marker'[ev] # marker[ev]
    <3>1. marker'[ev] = Absent \/ \E s \in TerminalStatuses \ {"FAILED"} : marker'[ev] = Marked(s)
      BY <1>6, <2>3, <2>4, <2>6
    <3>2. QED
      BY <1>4, <1>5, <2>5, <2>6, <3>1
  <2>7. CASE marker' = marker \/ ev # Message(c) \/ marker'[ev] = marker[ev]
    BY <1>2, <1>6, <2>3, <2>7
  <2>8. QED
    BY <2>6, <2>7
<1>12. ASSUME NEW c \in Consumers, FallbackReturns(c) PROVE Goal
  <2>1. step[c] \in {"handOff", "fallback"} /\ run[thread[c]].step = "done"
    BY <1>12 DEF FallbackReturns, Awaits
  <2>2. ReplyTo(c) \in {"ERROR", "RAISED"} \/ Settled(Message(c))
    BY <2>1 DEF AwaitedIsTrue, ReplyTo
  <2>3. \/ marker' = marker
        \/ Mark(c, Marked("MANUAL_REQUIRED")) /\ ReplyTo(c) = "APPLIED"
    BY <1>12 DEF FallbackReturns
  <2>4. "MANUAL_REQUIRED" \in TerminalStatuses
    BY DEF TerminalStatuses
  <2>5. CASE marker' = marker
    BY <1>7, <2>5
  <2>6. CASE Mark(c, Marked("MANUAL_REQUIRED")) /\ ReplyTo(c) = "APPLIED"
    <3>1. Settled(Message(c))
      BY <2>2, <2>6
    <3>2. QED
      BY <1>2, <1>4, <1>6, <2>4, <2>6, <3>1
  <2>7. QED
    BY <2>3, <2>5, <2>6
<1>13. ASSUME NEW c \in Consumers, EndProcess(c) PROVE Goal
  <2>1. Absent.owner # c
    BY NoneIsFree DEF Absent
  <2>2. marker'[ev] = IF marker[ev].owner = c
                      THEN [marker[ev] EXCEPT !.owner = NoConsumer] ELSE marker[ev]
    BY <1>13 DEF EndProcess
  <2>3. marker'[ev].status = marker[ev].status
    BY <1>1, <2>2 DEF Marker
  <2>4. marker[ev].status = "absent" => marker'[ev] = marker[ev]
    BY <2>1, <2>2 DEF AbsentIsBare
  <2>5. QED
    BY <1>2, <2>3, <2>4
<1>14. ASSUME NEW c \in Consumers, ConsumerNext(c) PROVE Goal
  <2>1. CASE \/ Poll(c) \/ ReadMarker(c) \/ Defer(c) \/ StartAgent(c) \/ SendToDlq(c)
             \/ Commit(c) \/ AgentTimesOut(c) \/ Restart(c) \/ Assign(c) \/ Rebalance(c)
             \/ HeartbeatReads(c)
    BY <1>7, <2>1 DEF Poll, ReadMarker, Defer, StartAgent, SendToDlq, Commit, AgentTimesOut,
                      Restart, Assign, Rebalance, AssignTo, HeartbeatReads
  <2>2. CASE CommitFails(c) \/ Crash(c)
    BY <1>7, <1>13, <2>2 DEF CommitFails, Crash
  <2>3. QED
    BY <1>9, <1>10, <1>11, <1>12, <1>14, <2>1, <2>2 DEF ConsumerNext, ConsumerStep
<1>15. ASSUME \/ UNCHANGED vars
              \/ \E rv \in Reviews : TicketNext(rv)
              \/ \E t \in Threads : RunNext(t)
       PROVE  Goal
  BY <1>7, <1>15 DEF vars, consumerVars, TicketNext, RunNext, KeepConsumers
<1>16. Goal
  BY <1>8, <1>14, <1>15 DEF Next
<1>17. QED
  BY <1>16 DEF Goal

----------------------------------------------------------------------------
(* A graph is taken up again with the message it was left with.             *)

\* A step that appends at most, and releases no marker, keeps that in place.
LEMMA AlignedFrame ==
    ASSUME ShapeInv, Aligned,
           UNCHANGED <<checkpoint, run, thread, step, assigned, position, committed>>,
           Len(log) <= Len(log'), \A i \in 1 .. Len(log) : log'[i] = log[i], Len(log') \in Nat,
           \A ev \in Event : \/ marker'[ev].status = marker[ev].status
                             \/ marker'[ev].status = "PROCESSING"
    PROVE  Aligned'
<1> USE DEF Aligned
<1>1. OneAtWork' /\ GraphsAreAwaited'
  BY DEF OneAtWork, GraphsAreAwaited
<1>2. OverIsWhole'
  BY DEF OverIsWhole, Over, Broken, CommitSteps
<1>3. ClaimedIsMarked'
  <2> SUFFICES ASSUME NEW c \in Consumers, step[c] \in {"start", "await", "read"}
               PROVE  /\ step[c] \in {"start", "await"} => marker'[Message(c)'].status = "PROCESSING"
                      /\ step[c] = "read" => marker'[Message(c)'].status # "absent"
    BY DEF ClaimedIsMarked
  <2>1. Message(c) \in Event /\ position[c] \in 1 .. Len(log)
    BY MessageIsEvent DEF ShapeInv
  <2>2. Message(c)' = Message(c)
    BY <2>1 DEF Message
  <2>3. QED
    BY <2>1, <2>2 DEF ClaimedIsMarked
<1>4. BrokenIsNext'
  <2> SUFFICES ASSUME NEW rv \in Reviews, Broken(rv)
               PROVE  /\ committed < Len(log') /\ log'[committed + 1].review = rv
                      /\ marker'[log'[committed + 1]].status = "PROCESSING"
                      /\ checkpoint[rv].at # "load" =>
                             log'[committed + 1].revision <= checkpoint[rv].revision
    BY DEF BrokenIsNext, Broken
  <2>1. /\ committed < Len(log) /\ log[committed + 1].review = rv
        /\ marker[log[committed + 1]].status = "PROCESSING"
        /\ checkpoint[rv].at # "load" => log[committed + 1].revision <= checkpoint[rv].revision
    BY DEF BrokenIsNext
  <2>2. committed \in Nat /\ Len(log) \in Nat /\ log \in Seq(Event)
    BY DEF ShapeInv, TypeOK
  <2>3. committed + 1 \in 1 .. Len(log)
    BY <2>1, <2>2
  <2>4. log[committed + 1] \in Event /\ log'[committed + 1] = log[committed + 1]
    BY <2>2, <2>3
  <2>5. QED
    BY <2>1, <2>2, <2>4
<1>5. QED
  BY <1>1, <1>2, <1>3, <1>4

\* While one consumer works the others have nothing in their hands.
LEMMA OthersRest ==
    ASSUME OneAtWork, NEW c \in Consumers, assigned = c \/ step[c] \notin {"poll", "down"}
    PROVE  assigned = c /\ \A d \in Consumers : d # c => step[d] \in {"poll", "down"}
BY DEF OneAtWork

\* The message in its hands is the next of the partition.
LEMMA NextIsHeld ==
    ASSUME ShapeInv, OneAtWork, NEW c \in Consumers,
           step[c] \in {"claim", "read", "start", "await"}
    PROVE  /\ Message(c) \in Event /\ Message(c) = log[committed + 1]
           /\ committed < Len(log) /\ committed + 1 \in 1 .. Len(log)
<1>1. Message(c) \in Event /\ position[c] \in 1 .. Len(log) /\ position[c] = committed + 1
  BY MessageIsEvent DEF ShapeInv, OneAtWork
<1>2. committed \in Nat /\ Len(log) \in Nat
  BY DEF ShapeInv, TypeOK
<1>3. QED
  BY <1>1, <1>2 DEF Message

\* A step of the assignee that touches no other consumer.
LEMMA WorkerMoves ==
    ASSUME Aligned, NEW c \in Consumers, assigned = c, assigned' = c,
           \A d \in Consumers : d # c => step'[d] = step[d],
           step'[c] \in {"poll", "down"} => position'[c] = committed',
           step'[c] \in {"claim", "read", "start", "await"} => position'[c] = committed' + 1,
           step'[c] \in {"start", "await"} => marker'[Message(c)'].status = "PROCESSING",
           step'[c] = "read" => marker'[Message(c)'].status # "absent",
           GraphsAreAwaited', BrokenIsNext',
           Over(c)' => \A rv \in Reviews : ~Broken(rv)'
    PROVE  Aligned'
<1>1. \A d \in Consumers : d # c => step'[d] \in {"poll", "down"}
  BY OthersRest DEF Aligned
<1>2. OneAtWork'
  BY <1>1 DEF OneAtWork
<1>3. ClaimedIsMarked'
  BY <1>1 DEF ClaimedIsMarked
<1>4. OverIsWhole'
  <2>1. \A d \in Consumers : d # c => ~Over(d)'
    BY <1>1 DEF Over, CommitSteps
  <2>2. QED
    BY <2>1 DEF OverIsWhole
<1>5. QED
  BY <1>2, <1>3, <1>4 DEF Aligned

\* Such a step between two runs.
LEMMA WorkerRests ==
    ASSUME ShapeInv, Aligned, NEW c \in Consumers, assigned = c, step[c] # "await",
           UNCHANGED <<checkpoint, run, thread, log, committed, assigned>>,
           \A d \in Consumers : d # c => step'[d] = step[d],
           step'[c] # "await",
           step'[c] \in {"poll", "down"} => position'[c] = committed,
           step'[c] \in {"claim", "read", "start"} => position'[c] = committed + 1,
           step'[c] = "start" => marker'[Message(c)'].status = "PROCESSING",
           step'[c] = "read" => marker'[Message(c)'].status # "absent",
           step'[c] \in CommitSteps \cup {"handOff", "fallback", "dlq", "markFailed"} =>
               \A rv \in Reviews : ~Broken(rv),
           \/ \A rv \in Reviews : ~Broken(rv)
           \/ \A ev \in Event : marker'[ev] = marker[ev] \/ marker'[ev].status = "PROCESSING"
    PROVE  Aligned'
<1>1. \A d \in Consumers : d # c => step'[d] # "await" /\ step[d] # "await"
  BY OthersRest DEF Aligned
<1>2. GraphsAreAwaited'
  BY <1>1 DEF GraphsAreAwaited, Aligned
<1>3. \A rv \in Reviews : Broken(rv)' = Broken(rv)
  BY DEF Broken
<1>4. BrokenIsNext'
  <2>1. CASE \A rv \in Reviews : ~Broken(rv)
    BY <1>3, <2>1 DEF BrokenIsNext
  <2>2. CASE \A ev \in Event : marker'[ev] = marker[ev] \/ marker'[ev].status = "PROCESSING"
    <3>1. committed \in Nat /\ Len(log) \in Nat /\ log \in Seq(Event)
      BY DEF ShapeInv, TypeOK
    <3>2. committed < Len(log) => log[committed + 1] \in Event
      BY <3>1
    <3>3. QED
      BY <1>3, <2>2, <3>2 DEF BrokenIsNext, Aligned
  <2>3. QED
    BY <2>1, <2>2
<1>5. Over(c)' => \A rv \in Reviews : ~Broken(rv)'
  BY <1>3 DEF Over, CommitSteps
<1>6. QED
  BY <1>2, <1>4, <1>5, WorkerMoves

\* Claims, takeovers, dead letters, assignments and heartbeats.
LEMMA QuietAligned ==
    ASSUME StaleFaults \cap FaultKinds = {}, SettledInv, Aligned, QuietStep
    PROVE  Aligned'
<1> USE DEF SettledInv
<1>1. /\ committed \in Nat /\ Len(log) \in Nat /\ log \in Seq(Event)
      /\ \A c \in Consumers : position[c] \in Nat /\ position[c] <= Len(log)
  BY DEF ShapeInv, TypeOK, LogIsSound
<1>2. ASSUME NEW ev \in Event, EventNext(ev) PROVE Aligned'
  <2>1. UNCHANGED <<checkpoint, run, thread, step, assigned, position, committed>>
    BY <1>2 DEF EventNext, Publish, PublishAgain, Age, runVars
  <2>2. /\ Len(log) <= Len(log') /\ Len(log') \in Nat
        /\ \A i \in 1 .. Len(log) : log'[i] = log[i]
    BY <1>1, <1>2 DEF EventNext, Publish, PublishAgain, Age
  <2>3. \A x \in Event : marker'[x].status = marker[x].status
    <3>1. CASE marker' = marker
      BY <3>1
    <3>2. CASE Age(ev)
      BY <3>2 DEF Age, ShapeInv, TypeOK, Marker
    <3>3. QED
      BY <1>2, <3>1, <3>2 DEF EventNext, Publish, PublishAgain
  <2>4. QED
    BY <2>1, <2>2, <2>3, AlignedFrame
<1>3. ASSUME NEW c \in Consumers, HeartbeatReads(c) \/ HeartbeatWrites(c) PROVE Aligned'
  <2>1. UNCHANGED <<checkpoint, run, thread, step, assigned, position, committed, log>>
    BY <1>3 DEF HeartbeatReads, HeartbeatWrites, runVars
  <2>2. \A x \in Event : marker'[x] = marker[x] \/ marker'[x] = Processing(c)
    BY <1>3 DEF HeartbeatReads, HeartbeatWrites, ShapeInv, TypeOK
  <2>3. Processing(c).status = "PROCESSING"
    BY DEF Processing
  <2>4. QED
    BY <1>1, <2>1, <2>2, <2>3, AlignedFrame
<1>4. ASSUME NEW c \in Consumers, Assign(c) PROVE Aligned'
  <2>1. /\ assigned = NoConsumer /\ assigned' = c /\ position'[c] = committed
        /\ step[c] = "poll"
        /\ UNCHANGED <<checkpoint, run, thread, step, committed, log, marker>>
    BY <1>4 DEF Assign, AssignTo, ShapeInv, TypeOK
  <2>2. \A d \in Consumers : step[d] \in {"poll", "down"}
    BY <2>1, NoneIsFree DEF Aligned, OneAtWork
  <2>3. OneAtWork' /\ ClaimedIsMarked' /\ GraphsAreAwaited' /\ BrokenIsNext'
    BY <2>1, <2>2 DEF Aligned, OneAtWork, ClaimedIsMarked, GraphsAreAwaited, BrokenIsNext, Broken
  <2>4. OverIsWhole'
    BY <2>1, <2>2 DEF OverIsWhole, Over, CommitSteps
  <2>5. QED
    BY <2>3, <2>4 DEF Aligned
<1>5. ASSUME NEW c \in Consumers, Rebalance(c) PROVE FALSE
  BY <1>5 DEF Rebalance, Fault, StaleFaults
<1>6. ASSUME NEW c \in Consumers, Restart(c) PROVE Aligned'
  <2>1. /\ step[c] = "down" /\ step'[c] = "poll"
        /\ \A d \in Consumers : d # c => step'[d] = step[d]
        /\ UNCHANGED <<checkpoint, run, thread, committed, log, marker, position, assigned>>
    BY <1>6 DEF Restart, To, runVars, ShapeInv, TypeOK
  <2>2. OneAtWork' /\ ClaimedIsMarked' /\ GraphsAreAwaited' /\ BrokenIsNext'
    <3>1. OneAtWork' /\ BrokenIsNext'
      BY <2>1 DEF Aligned, OneAtWork, BrokenIsNext, Broken
    <3>2. ClaimedIsMarked'
      BY <2>1 DEF Aligned, ClaimedIsMarked, Message
    <3>3. GraphsAreAwaited'
      BY <2>1 DEF Aligned, GraphsAreAwaited
    <3>4. QED
      BY <3>1, <3>2, <3>3
  <2>3. OverIsWhole'
    BY <2>1 DEF Aligned, OverIsWhole, Over, CommitSteps, Broken
  <2>4. QED
    BY <2>2, <2>3 DEF Aligned
<1>7. ASSUME NEW c \in Consumers,
             Poll(c) \/ Claim(c) \/ ReadMarker(c) \/ Defer(c) \/ TakeOver(c)
             \/ SendToDlq(c) \/ MarkFailed(c)
      PROVE  Aligned'
  <2>1. /\ UNCHANGED <<checkpoint, run, thread, log, committed, assigned>>
        /\ \A d \in Consumers : d # c => step'[d] = step[d]
    <3>1. CASE Poll(c) \/ Claim(c) \/ ReadMarker(c) \/ Defer(c)
      BY <3>1 DEF Poll, Claim, ReadMarker, Defer, To, runVars, ShapeInv, TypeOK
    <3>2. CASE TakeOver(c) \/ SendToDlq(c) \/ MarkFailed(c)
      BY <3>2 DEF TakeOver, SendToDlq, MarkFailed, To, runVars, ShapeInv, TypeOK
    <3>3. QED
      BY <1>7, <3>1, <3>2
  <2>2. assigned = c /\ step[c] # "await"
    <3>1. Poll(c) \/ step[c] \notin {"poll", "down"}
      BY <1>7 DEF Claim, ReadMarker, Defer, TakeOver, SendToDlq, MarkFailed
    <3>2. assigned = c
      BY <3>1, OthersRest DEF Poll, Aligned
    <3>3. QED
      BY <1>7, <3>2 DEF Poll, Claim, ReadMarker, Defer, TakeOver, SendToDlq, MarkFailed
  <2>3. ASSUME NEW s, To(c, s) PROVE step'[c] = s
    BY <2>3 DEF To, ShapeInv, TypeOK
  <2>4. ASSUME NEW m, m.status = "PROCESSING", Mark(c, m)
        PROVE  \A ev \in Event : marker'[ev] = marker[ev] \/ marker'[ev].status = "PROCESSING"
    BY <2>4 DEF Mark, ShapeInv, TypeOK
  <2>5. Processing(c).status = "PROCESSING"
    BY DEF Processing
  <2>6. CASE Poll(c)
    <3>1. step'[c] = "claim" /\ position'[c] = committed + 1 /\ marker' = marker
      BY <2>3, <2>6 DEF Poll, Aligned, OneAtWork, ShapeInv, TypeOK
    <3>2. QED
      BY <2>1, <2>2, <3>1, WorkerRests DEF CommitSteps
  <2>7. CASE Claim(c)
    <3>1. /\ step[c] = "claim" /\ position' = position
          /\ Message(c)' = Message(c) /\ Message(c) \in Event /\ position[c] = committed + 1
      BY <2>7, NextIsHeld DEF Claim, Aligned, OneAtWork, Message
    <3>2. CASE marker[Message(c)] = Absent /\ Mark(c, Processing(c)) /\ To(c, "start")
      <4>1. step'[c] = "start" /\ marker'[Message(c)] = Processing(c)
        BY <2>3, <3>1, <3>2 DEF Mark, ShapeInv, TypeOK
      <4>2. \A ev \in Event : marker'[ev] = marker[ev] \/ marker'[ev].status = "PROCESSING"
        BY <2>4, <2>5, <3>2
      <4>3. QED
        BY <2>1, <2>2, <2>5, <3>1, <4>1, <4>2, WorkerRests DEF CommitSteps
    <3>3. CASE marker[Message(c)] # Absent /\ To(c, "read") /\ marker' = marker
      <4>1. step'[c] = "read" /\ marker'[Message(c)'].status # "absent"
        BY <2>3, <3>1, <3>3 DEF AbsentIsBare
      <4>2. QED
        BY <2>1, <2>2, <3>1, <3>3, <4>1, WorkerRests DEF CommitSteps
    <3>4. QED
      BY <2>7, <3>2, <3>3 DEF Claim
  <2>8. CASE ReadMarker(c)
    <3>1. step[c] = "read" /\ marker' = marker /\ position' = position
      BY <2>8 DEF ReadMarker
    <3>2. marker[Message(c)].status # "absent"
      BY <3>1 DEF Aligned, ClaimedIsMarked
    <3>3. step'[c] = "ack" /\ marker[Message(c)].status \in TerminalStatuses
      BY <2>3, <2>8, <3>2 DEF ReadMarker
    <3>4. \A rv \in Reviews : ~Broken(rv)
      <4>1. Message(c) = log[committed + 1]
        BY <3>1, NextIsHeld DEF Aligned
      <4>2. QED
        BY <3>3, <4>1 DEF Aligned, BrokenIsNext, TerminalStatuses
    <3>5. QED
      BY <2>1, <2>2, <3>1, <3>3, <3>4, WorkerRests DEF CommitSteps
  <2>9. CASE Defer(c)
    <3>1. /\ step[c] = "read" /\ step'[c] = "poll" /\ marker' = marker
          /\ position'[c] = position[c] - 1
      BY <2>3, <2>9 DEF Defer, ShapeInv, TypeOK
    <3>2. position'[c] = committed
      BY <1>1, <3>1 DEF Aligned, OneAtWork
    <3>3. QED
      BY <2>1, <2>2, <3>1, <3>2, WorkerRests DEF CommitSteps
  <2>10. CASE TakeOver(c)
    <3>1. /\ step[c] = "read" /\ step'[c] = "start" /\ position' = position
          /\ Mark(c, Processing(c))
      BY <2>3, <2>10 DEF TakeOver
    <3>2. position[c] = committed + 1 /\ Message(c)' = Message(c) /\ Message(c) \in Event
      BY <2>1, <3>1, NextIsHeld DEF Aligned, OneAtWork, Message
    <3>3. marker'[Message(c)] = Processing(c)
      BY <3>1, <3>2 DEF Mark, ShapeInv, TypeOK
    <3>4. \A ev \in Event : marker'[ev] = marker[ev] \/ marker'[ev].status = "PROCESSING"
      BY <2>4, <2>5, <3>1
    <3>5. QED
      BY <2>1, <2>2, <2>5, <3>1, <3>2, <3>3, <3>4, WorkerRests DEF CommitSteps
  <2>11. CASE SendToDlq(c) \/ MarkFailed(c)
    <3>1. step[c] \in {"dlq", "markFailed"} /\ step'[c] \in {"markFailed", "commitDlq"}
      BY <2>3, <2>11 DEF SendToDlq, MarkFailed
    <3>2. \A rv \in Reviews : ~Broken(rv)
      BY <3>1 DEF Aligned, OverIsWhole, Over
    <3>3. QED
      BY <2>1, <2>2, <3>1, <3>2, WorkerRests DEF CommitSteps
  <2>12. QED
    BY <1>7, <2>6, <2>7, <2>8, <2>9, <2>10, <2>11
<1>8. QED
  BY <1>2, <1>3, <1>4, <1>5, <1>6, <1>7 DEF QuietStep

\* A process ends, its commit may have moved the offset past a whole run.
LEMMA EndAligned ==
    ASSUME SettledInv, Aligned, NEW c \in Consumers, EndProcess(c),
           UNCHANGED <<checkpoint, log, position>>,
           \/ committed' = committed
           \/ assigned = c /\ \A rv \in Reviews : ~Broken(rv)
    PROVE  Aligned'
<1> USE DEF SettledInv
<1>1. /\ step'[c] = "down"
      /\ \A d \in Consumers : d # c => step'[d] = step[d] /\ thread'[d] = thread[d]
      /\ assigned' = IF assigned = c THEN NoConsumer ELSE assigned
      /\ \A u \in Threads : /\ u # thread[c] => run'[u] = run[u]
                            /\ u = thread[c] => run'[u].kind = "fallback" \/ run'[u] = NoRun
  <2>1. \A u \in Threads : run[u] \in Run
    BY DEF ShapeInv, TypeOK
  <2>2. \A r \in Run : [r EXCEPT !.kind = "fallback", !.awaited = FALSE].kind = "fallback"
    BY DEF Run
  <2>3. /\ step'[c] = "down"
        /\ \A d \in Consumers : d # c => step'[d] = step[d] /\ thread'[d] = thread[d]
        /\ assigned' = IF assigned = c THEN NoConsumer ELSE assigned
    BY DEF EndProcess, To, ShapeInv, TypeOK
  <2>4. ASSUME NEW u \in Threads
        PROVE  /\ u # thread[c] => run'[u] = run[u]
               /\ u = thread[c] => run'[u].kind = "fallback" \/ run'[u] = NoRun
    <3> DEFINE left == [run[u] EXCEPT !.kind = "fallback", !.awaited = FALSE]
    <3>1. left.kind = "fallback"
      BY <2>1, <2>2
    <3>2. /\ u # thread[c] => run'[u] = run[u]
          /\ u = thread[c] => run'[u] \in {left, NoRun}
      BY DEF EndProcess
    <3> HIDE DEF left
    <3>3. QED
      BY <3>1, <3>2
  <2>5. QED
    BY <2>3, <2>4
<1>2. \A ev \in Event : marker'[ev].status = marker[ev].status
  BY DEF EndProcess, ShapeInv, TypeOK, Marker
<1>3. \A rv \in Reviews : Broken(rv)' = Broken(rv)
  BY DEF Broken
<1>4. OneAtWork'
  BY <1>1, NoneIsFree DEF OneAtWork, Aligned
<1>5. ClaimedIsMarked'
  <2> SUFFICES ASSUME NEW d \in Consumers, d # c, step[d] \in {"start", "await", "read"}
               PROVE  /\ step[d] \in {"start", "await"} => marker'[Message(d)].status = "PROCESSING"
                      /\ step[d] = "read" => marker'[Message(d)].status # "absent"
    BY <1>1 DEF ClaimedIsMarked, Message
  <2>1. Message(d) \in Event
    BY MessageIsEvent DEF ShapeInv
  <2>2. QED
    BY <1>2, <2>1 DEF ClaimedIsMarked, Aligned
<1>6. \A d \in Consumers : d # c /\ step[d] = "await" =>
          thread[d] \in Threads /\ thread[d] # thread[c]
  BY DEF ShapeInv, ThreadsAreHeld, TypeOK
<1>7. GraphsAreAwaited'
  <2>1. ASSUME NEW u \in Threads, run'[u].kind = "agent", run'[u].step \notin {"idle", "done"}
        PROVE  \E d \in Consumers : thread'[d] = u /\ step'[d] = "await"
    <3>1. u # thread[c] /\ run'[u] = run[u]
      BY <1>1, <2>1, NoRunTyped
    <3>2. PICK d \in Consumers : thread[d] = u /\ step[d] = "await"
      BY <2>1, <3>1 DEF GraphsAreAwaited, Aligned
    <3>3. QED
      BY <1>1, <3>1, <3>2
  <2>2. QED
    BY <1>1, <1>6, <2>1 DEF GraphsAreAwaited, Aligned
<1>8. BrokenIsNext'
  <2>1. CASE \A rv \in Reviews : ~Broken(rv)
    BY <1>3, <2>1 DEF BrokenIsNext
  <2>2. CASE committed' = committed
    <3>1. committed \in Nat /\ Len(log) \in Nat /\ log \in Seq(Event)
      BY DEF ShapeInv, TypeOK
    <3>2. committed < Len(log) => log[committed + 1] \in Event
      BY <3>1
    <3>3. QED
      BY <1>2, <1>3, <2>2, <3>2 DEF BrokenIsNext, Aligned
  <2>3. QED
    BY <2>1, <2>2
<1>9. OverIsWhole'
  <2>1. \A d \in Consumers : Over(d)' => Over(d)
    <3> SUFFICES ASSUME NEW d \in Consumers, Over(d)' PROVE Over(d)
      OBVIOUS
    <3>1. d # c /\ step'[d] = step[d] /\ thread'[d] = thread[d]
      BY <1>1 DEF Over, CommitSteps
    <3>2. step[d] = "await" => run'[thread[d]] = run[thread[d]]
      BY <1>1, <1>6, <3>1
    <3>3. QED
      BY <3>1, <3>2 DEF Over, CommitSteps
  <2>2. QED
    BY <1>3, <2>1 DEF OverIsWhole, Aligned
<1>10. QED
  BY <1>4, <1>5, <1>7, <1>8, <1>9 DEF Aligned

\* A consumer that takes a result, falls back or commits leaves no graph behind.
LEMMA BusyAligned ==
    ASSUME StaleFaults \cap FaultKinds = {}, SettledInv, Aligned, BusyStep
    PROVE  Aligned'
<1> USE DEF SettledInv
<1>1. PICK c \in Consumers :
          \/ StartAgent(c) \/ Finalize(c) \/ AgentTimesOut(c) \/ FallbackReturns(c)
          \/ Commit(c) \/ CommitFails(c) \/ Crash(c)
  BY DEF BusyStep
<1>2. /\ UNCHANGED <<ticket, log, dlq, position>> /\ Len(log) \in Nat /\ committed \in Nat
      /\ \A d \in Consumers : d # c => thread'[d] = thread[d] /\ step'[d] = step[d]
  BY <1>1, BusyFrame, BusyRuns DEF ShapeInv, TypeOK
<1>3. ~AgentTimesOut(c)
  BY DEF AgentTimesOut, Fault, StaleFaults
<1>4. CASE Crash(c)
  BY <1>2, <1>4, EndAligned DEF Crash
<1>5. ASSUME NEW s, To(c, s) PROVE step'[c] = s
  BY <1>5 DEF To, ShapeInv, TypeOK
<1>6. CASE StartAgent(c)
  <2>1. PICK t \in Threads, r \in Run :
            /\ run[t] = NoRun
            /\ thread' = [thread EXCEPT ![c] = t]
            /\ run' = [run EXCEPT ![t] = r]
            /\ StartsWith(c, r)
    BY <1>6, StartMoves
  <2>2. /\ step[c] = "start" /\ step'[c] = "await"
        /\ UNCHANGED <<marker, committed, assigned>>
    BY <1>5, <1>6 DEF StartAgent
  <2>3. /\ assigned = c /\ \A d \in Consumers : d # c => step[d] \in {"poll", "down"}
    BY <2>2, OthersRest DEF Aligned
  <2>4. /\ Message(c) \in Event /\ Message(c) = log[committed + 1] /\ Message(c)' = Message(c)
        /\ committed < Len(log) /\ position[c] = committed + 1
        /\ marker[Message(c)].status = "PROCESSING"
    BY <1>2, <2>2, NextIsHeld DEF Aligned, OneAtWork, ClaimedIsMarked, Message
  <2>5. thread'[c] = t /\ run'[t] = r /\ \A u \in Threads : u # t => run'[u] = run[u]
    BY <2>1 DEF ShapeInv, TypeOK
  <2>6. r.kind = "agent"
    BY <2>1 DEF StartsWith, NewRun
  <2>7. GraphsAreAwaited'
    BY <1>2, <2>2, <2>3, <2>5, <2>6 DEF GraphsAreAwaited, Aligned
  <2> PICK rv \in Reviews : rv = Message(c).review
    BY <2>4 DEF Event
  <2>8. \A x \in Reviews : x # rv => checkpoint'[x] = checkpoint[x]
    BY <2>1, <2>4 DEF StartsWith, Event, ShapeInv, TypeOK
  <2>9. \A x \in Reviews : x # rv => ~Broken(x)'
    BY <2>4, <2>8 DEF Broken, BrokenIsNext, Aligned
  <2>10. Broken(rv)' /\ checkpoint'[rv].at # "load" => Message(c).revision <= checkpoint'[rv].revision
    <3>1. \/ checkpoint'[rv] = checkpoint[rv]
          \/ checkpoint'[rv].at = "load"
          \/ /\ checkpoint[rv].at \in {"load", "review", "manual"}
             /\ checkpoint'[rv].at = checkpoint[rv].at
             /\ checkpoint'[rv].revision = checkpoint[rv].revision
      BY <2>1, <2>8 DEF StartsWith, Reached, ShapeInv, TypeOK
    <3>2. QED
      BY <2>4, <2>8, <3>1 DEF Broken, BrokenIsNext, Aligned
  <2>11. BrokenIsNext'
    BY <1>2, <2>2, <2>4, <2>9, <2>10 DEF BrokenIsNext
  <2>12. r.step = "done" => ~Broken(rv)'
    <3>1. r.step = "done" => /\ checkpoint' = checkpoint
                             /\ checkpoint[rv].at \in {"ended", "none"}
      BY <2>1 DEF StartsWith, NewRun
    <3>2. QED
      BY <3>1 DEF Broken
  <2>13. Over(c)' => \A x \in Reviews : ~Broken(x)'
    BY <2>2, <2>5, <2>9, <2>12 DEF Over, CommitSteps
  <2>14. QED
    BY <1>2, <2>2, <2>3, <2>4, <2>7, <2>11, <2>13, WorkerMoves
<1>7. ASSUME Over(c), checkpoint' = checkpoint, assigned' = c,
             committed' = committed \/ step'[c] # "await",
             step'[c] \in {"poll", "handOff", "fallback", "dlq"} \cup CommitSteps,
             step'[c] = "poll" => position[c] = committed',
             \A u \in Threads : run'[u] = run[u] \/ run'[u].kind = "fallback" \/ run'[u].step = "idle"
      PROVE  Aligned'
  <2>1. \A rv \in Reviews : ~Broken(rv) /\ ~Broken(rv)'
    BY <1>7 DEF Aligned, OverIsWhole, Broken
  <2>2. step[c] \notin {"poll", "down"} /\ (step[c] = "await" => run[thread[c]].step = "done")
    BY <1>7 DEF Over, CommitSteps
  <2>3. assigned = c /\ \A d \in Consumers : d # c => step[d] \in {"poll", "down"}
    BY <2>2, OthersRest DEF Aligned
  <2>4. GraphsAreAwaited'
    <3>1. \A u \in Threads : ~(run[u].kind = "agent" /\ run[u].step \notin {"idle", "done"})
      BY <2>2, <2>3 DEF GraphsAreAwaited, Aligned
    <3>2. \A d \in Consumers : step'[d] # "await"
      BY <1>2, <1>7, <2>3 DEF CommitSteps
    <3>3. QED
      BY <1>7, <3>1, <3>2 DEF GraphsAreAwaited
  <2>5. BrokenIsNext'
    BY <2>1 DEF BrokenIsNext
  <2>6. QED
    BY <1>2, <1>7, <2>1, <2>3, <2>4, <2>5, WorkerMoves DEF CommitSteps
<1>8. ASSUME NEW s, FallBack(c, thread[c], s)
      PROVE  /\ step'[c] = s
             /\ \A u \in Threads : run'[u] = run[u] \/ run'[u].kind = "fallback"
  <2> DEFINE r == NewRun("fallback", "manual", Message(c).revision, Message(c))
  <2>1. r.kind = "fallback" /\ run' = [run EXCEPT ![thread[c]] = r] /\ To(c, s)
    BY <1>8 DEF FallBack, NewRun
  <2> HIDE DEF r
  <2>2. QED
    BY <1>5, <2>1 DEF ShapeInv, TypeOK
<1>9. step[c] \notin {"poll", "down"} => assigned = c
  BY DEF Aligned, OneAtWork
<1>10. CASE Finalize(c) \/ FallbackReturns(c)
  <2>1. Over(c) /\ step[c] \notin {"poll", "down"}
    BY <1>10 DEF Finalize, FallbackReturns, Awaits, Over
  <2>2. UNCHANGED <<checkpoint, committed, assigned>>
    BY <1>10 DEF Finalize, FallbackReturns
  <2>3. \/ FallBack(c, thread[c], "handOff") \/ FallBack(c, thread[c], "fallback")
        \/ /\ To(c, "commit") \/ To(c, "commitManual") \/ To(c, "dlq")
           /\ run' = run
    BY <1>10 DEF Finalize, FallbackReturns
  <2>4. /\ step'[c] \in {"handOff", "fallback", "dlq"} \cup CommitSteps
        /\ \A u \in Threads : run'[u] = run[u] \/ run'[u].kind = "fallback"
    BY <1>5, <1>8, <2>3 DEF CommitSteps
  <2>5. step'[c] # "poll"
    BY <2>4 DEF CommitSteps
  <2>6. QED
    BY <1>7, <1>9, <2>1, <2>2, <2>4, <2>5
<1>11. CASE Commit(c)
  <2>1. /\ step[c] \in CommitSteps /\ assigned = c /\ committed' = position[c]
        /\ To(c, "poll") /\ EndIteration(c) /\ UNCHANGED <<checkpoint, assigned>>
    BY <1>11 DEF Commit
  <2>2. \A u \in Threads : run'[u] = run[u] \/ run'[u].step = "idle"
    BY <2>1, NoRunTyped DEF EndIteration
  <2>3. Over(c) /\ step'[c] = "poll"
    BY <1>5, <2>1 DEF Over
  <2>4. QED
    BY <1>2, <1>7, <2>1, <2>2, <2>3
<1>12. CASE CommitFails(c)
  <2>1. /\ step[c] \in CommitSteps /\ checkpoint' = checkpoint
    BY <1>12 DEF CommitFails, CommitSteps
  <2>2. Over(c) /\ assigned = c
    BY <1>9, <2>1 DEF Over, CommitSteps
  <2>3. CASE EndProcess(c)
    <3>1. \A rv \in Reviews : ~Broken(rv)
      BY <2>2 DEF Aligned, OverIsWhole
    <3>2. QED
      BY <1>2, <2>1, <2>2, <2>3, <3>1, EndAligned
  <2>4. CASE assigned' = assigned /\ FallBack(c, thread[c], "fallback")
    BY <1>7, <1>8, <2>1, <2>2, <2>4
  <2>5. CASE assigned' = assigned /\ To(c, "dlq") /\ run' = run
    BY <1>5, <1>7, <2>1, <2>2, <2>5
  <2>6. QED
    BY <1>12, <2>3, <2>4, <2>5 DEF CommitFails
<1>13. QED
  BY <1>1, <1>3, <1>4, <1>6, <1>10, <1>11, <1>12

\* A run of the agent that ends leaves its graph at an end.
LEMMA RunEndsGraph ==
    ASSUME SettledInv, EvidenceIsKept, MaxRevision # 0, NEW t \in Threads,
           RunStep(t) \/ RunFault(t), run[t].kind = "agent", ~RunGoesOn(t)
    PROVE  checkpoint'[run[t].review].at \in {"interrupted", "ended"}
<1>1. PICK reply \in Replies : Finish(t, reply)
  BY RunAnswers DEF RunEnds, SettledInv
<1>2. run[t].review \in Reviews
  BY RunEffect DEF SettledInv
<1>3. PICK saved \in Checkpoint : Save(t, saved) /\ saved.at \in {"interrupted", "ended"}
  BY <1>1, <1>2, FinishMoves DEF SettledInv, ShapeInv
<1>4. checkpoint'[run[t].review] = saved
  BY <1>2, <1>3, SaveMoves DEF SettledInv, ShapeInv
<1>5. QED
  BY <1>3, <1>4

\* A run leaves its graph at a node with a context that is new enough, or at an end.
LEMMA RunAligned ==
    ASSUME StaleFaults \cap FaultKinds = {}, EvidenceIsKept, MaxRevision # 0,
           SettledInv, Aligned, [Next]_vars, NEW t \in Threads, RunNext(t)
    PROVE  Aligned'
<1> USE DEF SettledInv
<1>1. /\ RunStep(t) \/ RunFault(t)
      /\ UNCHANGED <<log, dlq, marker, committed, assigned, step, position, thread, beat>>
  BY DEF RunNext, KeepConsumers, consumerVars
<1>2. /\ run[t].review \in Reviews /\ run[t].step \notin {"idle", "done"}
      /\ GraphMoved(t) /\ RunMoved(t)
  BY <1>1, RunEffect
<1>3. /\ \A u \in Threads : u # t => run'[u] = run[u]
      /\ run'[t].step # "idle" => run'[t].kind = run[t].kind /\ run'[t].review = run[t].review
      /\ run[t] \in Run /\ run'[t] \in Run
  BY <1>2 DEF RunMoved, ShapeInv, TypeOK
<1>4. run'[t].step \in {"idle", "done"} \/ RunGoesOn(t)
  <2>1. ASSUME NEW reply \in Replies, Return(t, reply) PROVE run'[t].step \in {"idle", "done"}
    BY <2>1, ReturnMoves DEF ShapeInv
  <2>2. "RAISED" \in Replies
    BY DEF Replies
  <2>3. QED
    BY <1>1, <2>1, <2>2, RunAnswers DEF RunEnds, Finish
<1>5. OneAtWork' /\ ClaimedIsMarked'
  BY <1>1 DEF OneAtWork, ClaimedIsMarked, Message, Aligned
<1>6. \A c \in Consumers : step[c] = "await" => thread[c] \in Threads /\ run[thread[c]].awaited
  BY DEF ShapeInv, ThreadsAreHeld, TypeOK
<1>7. GraphsAreAwaited'
  <2>1. ASSUME NEW u \in Threads, run'[u].kind = "agent", run'[u].step \notin {"idle", "done"}
        PROVE  run[u].kind = "agent" /\ run[u].step \notin {"idle", "done"}
    BY <1>2, <1>3, <2>1
  <2>2. \A c \in Consumers : step[c] = "await" => run'[thread[c]].kind = run[thread[c]].kind
    BY <1>2, <1>3, <1>6 DEF RunMoved
  <2>3. QED
    BY <1>1, <2>1, <2>2 DEF GraphsAreAwaited, Aligned
<1>8. CASE run[t].kind = "fallback"
  <2>1. checkpoint' = checkpoint
    BY <1>2, <1>8 DEF GraphMoved
  <2>2. \A c \in Consumers : step[c] = "await" => run'[thread[c]] = run[thread[c]]
    BY <1>3, <1>6, <1>8 DEF GraphsAreAwaited, Aligned
  <2>3. BrokenIsNext'
    BY <1>1, <2>1 DEF BrokenIsNext, Broken, Aligned
  <2>4. OverIsWhole'
    BY <1>1, <2>1, <2>2 DEF OverIsWhole, Over, Broken, CommitSteps, Aligned
  <2>5. QED
    BY <1>5, <1>7, <2>3, <2>4 DEF Aligned
<1>9. CASE run[t].kind = "agent"
  <2>1. PICK c \in Consumers : thread[c] = t /\ step[c] = "await"
    BY <1>2, <1>9 DEF GraphsAreAwaited, Aligned
  <2>2. /\ \A d \in Consumers : d # c => step[d] \in {"poll", "down"}
    BY <2>1, OthersRest DEF Aligned
  <2>3. /\ Message(c) \in Event /\ Message(c) = log[committed + 1] /\ committed < Len(log)
        /\ marker[Message(c)].status = "PROCESSING" /\ Message(c)' = Message(c)
    BY <1>1, <2>1, NextIsHeld DEF Aligned, ClaimedIsMarked, Message
  <2> PICK rv \in Reviews : rv = run[t].review
    BY <1>2
  <2>4. rv = Message(c).review
    BY <2>1 DEF AwaitedIsTrue
  <2>5. \A x \in Reviews : x # rv => checkpoint'[x] = checkpoint[x] /\ ~Broken(x)'
    <3>1. \A x \in Reviews : x # rv => checkpoint'[x] = checkpoint[x]
      BY <1>2 DEF GraphMoved
    <3>2. QED
      BY <2>3, <2>4, <3>1 DEF Broken, BrokenIsNext, Aligned
  <2>6. Broken(rv)' /\ checkpoint'[rv].at # "load" =>
            Message(c).revision <= checkpoint'[rv].revision
    <3>1. CASE checkpoint'[rv] = checkpoint[rv]
      BY <1>2, <2>3, <3>1 DEF Broken, BrokenIsNext, Aligned
    <3>2. CASE RunGoesOn(t) /\ checkpoint'[rv] # checkpoint[rv]
      <4>1. checkpoint'[rv] = Reached(run'[t].step, run'[t].revision)
        BY <1>2, <3>2 DEF RunGoesOn, GraphGoesOn, ShapeInv, TypeOK
      <4>2. checkpoint'[rv].at = run'[t].step /\ checkpoint'[rv].revision = run'[t].revision
        BY <4>1 DEF Reached
      <4>3. run'[t].step \in Working => Message(c)'.revision <= run'[t].revision
        <5>1. AwaitedIsTrue'
          BY AwaitedStaysTrue
        <5>2. step'[c] = "await" /\ thread'[c] = t
          BY <1>1, <2>1
        <5>3. QED
          BY <5>1, <5>2 DEF AwaitedIsTrue
      <4>4. QED
        BY <2>3, <4>2, <4>3 DEF Broken, Working
    <3>3. CASE run'[t].step \in {"idle", "done"} /\ ~RunGoesOn(t)
      BY <1>1, <1>9, <3>3, RunEndsGraph DEF Broken
    <3>4. QED
      BY <1>4, <3>1, <3>2, <3>3
  <2>7. run'[t].step \in {"idle", "done"} => ~Broken(rv)'
    <3>1. run'[t].step \in {"idle", "done"} => ~RunGoesOn(t)
      BY DEF RunGoesOn
    <3>2. QED
      BY <1>1, <1>9, <3>1, RunEndsGraph DEF Broken
  <2>8. BrokenIsNext'
    BY <1>1, <1>2, <2>3, <2>4, <2>5, <2>6 DEF BrokenIsNext
  <2>9. OverIsWhole'
    <3>1. \A d \in Consumers : Over(d)' => d = c /\ run'[t].step = "done"
      BY <1>1, <2>1, <2>2 DEF Over, CommitSteps
    <3>2. QED
      BY <2>5, <2>7, <3>1 DEF OverIsWhole
  <2>10. QED
    BY <1>5, <1>7, <2>8, <2>9 DEF Aligned
<1>10. QED
  BY <1>3, <1>8, <1>9 DEF Run

\* Aligned is kept where no fault lets a run outlive its consumer's patience.
LEMMA StepAligned ==
    ASSUME EvidenceIsKept, SettledInv, [Next]_vars
    PROVE  MaxRevision = 0 \/ Aligned'
<1> SUFFICES ASSUME MaxRevision # 0 PROVE Aligned'
  OBVIOUS
<1>1. ShapeInv /\ Aligned /\ StaleFaults \cap FaultKinds = {}
  BY DEF SettledInv, EvidenceIsKept
<1>2. CASE QuietStep
  BY <1>1, <1>2, QuietAligned
<1>3. CASE BusyStep
  BY <1>1, <1>3, BusyAligned
<1>4. ASSUME NEW t \in Threads, RunNext(t) PROVE Aligned'
  BY <1>1, <1>4, RunAligned
<1>5. CASE UNCHANGED vars \/ \E rv \in Reviews : TicketNext(rv)
  <2>1. UNCHANGED <<checkpoint, run, consumerVars>>
    BY <1>1, <1>5, TicketEffect
       DEF vars, runVars, TicketNext, KeepConsumers, ShapeInv
  <2>2. Len(log) \in Nat
    BY <1>1 DEF ShapeInv, TypeOK
  <2>3. QED
    BY <1>1, <2>1, <2>2, AlignedFrame DEF consumerVars
<1>6. QED
  BY <1>2, <1>3, <1>4, <1>5, NextKinds

\* Nobody else moves a consumer.
LEMMA OnlyItself ==
    ASSUME ShapeInv, [Next]_vars, NEW d \in Consumers
    PROVE  \/ step'[d] = step[d] /\ position'[d] = position[d]
           \/ ConsumerNext(d)
<1>1. ASSUME NEW c \in Consumers, c # d, ConsumerNext(c)
      PROVE  step'[d] = step[d] /\ position'[d] = position[d]
  <2>1. CASE \/ StartAgent(c) \/ Finalize(c) \/ AgentTimesOut(c) \/ FallbackReturns(c)
             \/ Commit(c) \/ CommitFails(c) \/ Crash(c)
    BY <1>1, <2>1, BusyRuns, BusyFrame
  <2>2. CASE Assign(c) \/ Rebalance(c) \/ Poll(c) \/ Claim(c) \/ ReadMarker(c) \/ Defer(c)
    BY <1>1, <2>2 DEF Assign, Rebalance, AssignTo, Poll, Claim, ReadMarker, Defer, To,
                      ShapeInv, TypeOK
  <2>3. CASE TakeOver(c) \/ HeartbeatReads(c) \/ HeartbeatWrites(c) \/ SendToDlq(c)
             \/ MarkFailed(c) \/ Restart(c)
    BY <1>1, <2>3 DEF TakeOver, HeartbeatReads, HeartbeatWrites, SendToDlq, MarkFailed,
                      Restart, To, ShapeInv, TypeOK
  <2>4. QED
    BY <1>1, <2>1, <2>2, <2>3 DEF ConsumerNext, ConsumerStep
<1>2. ASSUME NEW ev \in Event, EventNext(ev) PROVE step' = step /\ position' = position
  BY <1>2 DEF EventNext, Publish, PublishAgain, Age
<1>3. CASE UNCHANGED vars \/ (\E rv \in Reviews : TicketNext(rv)) \/ (\E t \in Threads : RunNext(t))
  BY <1>3 DEF vars, consumerVars, TicketNext, RunNext, KeepConsumers
<1>4. QED
  BY <1>1, <1>2, <1>3 DEF Next

\* A consumer in the middle of a message has been there before, or has just polled.
LEMMA MessageStays ==
    ASSUME ShapeInv, [Next]_vars, NEW d \in Consumers, step'[d] \notin {"poll", "down"}
    PROVE  \/ step[d] \notin {"poll", "down"} /\ position'[d] = position[d]
           \/ Poll(d)
<1>1. CASE step'[d] = step[d] /\ position'[d] = position[d]
  BY <1>1
<1>2. CASE QuietStep
  BY <1>2, QuietSteps
<1>3. CASE ConsumerNext(d) /\ ~QuietStep
  <2>1. \/ StartAgent(d) \/ Finalize(d) \/ AgentTimesOut(d) \/ FallbackReturns(d)
        \/ Commit(d) \/ CommitFails(d) \/ Crash(d)
    BY <1>3 DEF ConsumerNext, ConsumerStep, QuietStep
  <2>2. position' = position /\ step[d] # "down"
    BY <2>1, BusyFrame
  <2>3. CASE ~Crash(d)
    BY <2>1, <2>2, <2>3 DEF StartAgent, Finalize, AgentTimesOut, FallbackReturns, Commit,
                            CommitFails, Awaits, CommitSteps
  <2>4. CASE Crash(d)
    BY <2>4 DEF Crash, EndProcess, To, ShapeInv, TypeOK
  <2>5. QED
    BY <2>2, <2>3, <2>4
<1>4. QED
  BY <1>1, <1>2, <1>3, OnlyItself

\* Between two messages, the partition up to the position of its assignee is settled.
LEMMA PolledIsSettled ==
    ASSUME SettledInv, [Next]_vars, NEW d \in Consumers,
           step'[d] \in {"poll", "down"}, assigned' = d, NEW i \in 1 .. position'[d]
    PROVE  Settled(log[i])'
<1> USE DEF SettledInv
<1>1. ASSUME i \in 1 .. Len(log), Settled(log[i]) PROVE Settled(log[i])'
  BY <1>1, PassedIsKept
<1>2. /\ position[d] \in Nat /\ position[d] <= Len(log) /\ Len(log) \in Nat
      /\ committed \in Nat /\ committed <= Len(log) /\ position'[d] \in Nat
  <2>1. position' \in [Consumers -> Nat]
    BY StepShape DEF ShapeInv, TypeOK
  <2>2. QED
    BY <2>1 DEF ShapeInv, TypeOK, LogIsSound
<1>3. ASSUME step[d] \in {"poll", "down"}, assigned = d, position'[d] = position[d]
      PROVE  Settled(log[i])'
  BY <1>1, <1>2, <1>3 DEF PassedIsSettled
<1>4. ASSUME step[d] \notin {"poll", "down"}, position'[d] <= position[d],
             position'[d] = position[d] => Settled(Message(d))
      PROVE  Settled(log[i])'
  <2>1. i \in 1 .. Len(log) /\ (i # position[d] => Settled(log[i]))
    BY <1>2, <1>4 DEF PassedIsSettled
  <2>2. i = position[d] => Settled(log[i])
    BY <1>2, <1>4 DEF Message
  <2>3. QED
    BY <1>1, <2>1, <2>2
<1>5. ASSUME position'[d] = committed PROVE Settled(log[i])'
  BY <1>1, <1>2, <1>5 DEF CommittedIsSettled
<1>6. CASE ConsumerNext(d)
  <2>1. CASE Assign(d) \/ Rebalance(d)
    BY <1>5, <2>1 DEF Assign, Rebalance, AssignTo, ShapeInv, TypeOK
  <2>2. CASE ReadMarker(d)
    <3>1. step'[d] \in {"poll", "down"} => marker[Message(d)].status = "absent"
      BY <2>2 DEF ReadMarker, To, ShapeInv, TypeOK
    <3>2. step[d] = "read" /\ position'[d] = position[d]
      BY <2>2 DEF ReadMarker
    <3>3. QED
      BY <1>2, <1>4, <3>1, <3>2 DEF PassedIsSettled
  <2>3. CASE Defer(d)
    <3>1. step[d] = "read" /\ position'[d] = position[d] - 1
      BY <2>3 DEF Defer, ShapeInv, TypeOK
    <3>2. QED
      BY <1>2, <1>4, <3>1
  <2>4. CASE Commit(d)
    <3>1. step[d] \in CommitSteps /\ position' = position
      BY <2>4 DEF Commit
    <3>2. step[d] \notin {"poll", "down"}
      BY <3>1 DEF CommitSteps
    <3>3. QED
      BY <1>2, <1>4, <3>1, <3>2 DEF PassedIsSettled
  <2>5. CASE Restart(d)
    BY <1>3, <2>5 DEF Restart
  <2>6. CASE HeartbeatReads(d) \/ HeartbeatWrites(d)
    BY <1>3, <2>6 DEF HeartbeatReads, HeartbeatWrites
  <2>7. ~EndProcess(d)
    BY NoneIsFree DEF EndProcess
  <2>8. ASSUME NEW s, s \notin {"poll", "down"}, To(d, s) PROVE FALSE
    BY <2>8 DEF To, ShapeInv, TypeOK
  <2>9. ~(\/ Poll(d) \/ Claim(d) \/ TakeOver(d) \/ SendToDlq(d) \/ MarkFailed(d)
          \/ StartAgent(d) \/ AgentTimesOut(d))
    BY <2>8 DEF Poll, Claim, TakeOver, SendToDlq, MarkFailed, StartAgent, AgentTimesOut
  <2>10. ~(Finalize(d) \/ FallbackReturns(d))
    BY <2>8 DEF Finalize, FallbackReturns, FallBack
  <2>11. ~(CommitFails(d) \/ Crash(d))
    BY <2>7, <2>8 DEF CommitFails, Crash, FallBack
  <2>12. QED
    BY <1>6, <2>1, <2>2, <2>3, <2>4, <2>5, <2>6, <2>9, <2>10, <2>11 DEF ConsumerNext, ConsumerStep
<1>7. CASE ~ConsumerNext(d)
  <2>1. step'[d] = step[d] /\ position'[d] = position[d]
    BY <1>7, OnlyItself
  <2>2. assigned = d
    <3>1. ASSUME NEW c \in Consumers, ConsumerNext(c) PROVE assigned = d
      <4>1. c # d
        BY <1>7, <3>1
      <4>2. CASE Assign(c) \/ Rebalance(c)
        BY <4>1, <4>2 DEF Assign, Rebalance, AssignTo
      <4>3. ASSUME EndProcess(c) PROVE assigned = d
        BY <4>3, NoneIsFree DEF EndProcess
      <4>4. CASE CommitFails(c) \/ Crash(c)
        BY <4>3, <4>4 DEF CommitFails, Crash
      <4>5. CASE \/ Poll(c) \/ Claim(c) \/ ReadMarker(c) \/ Defer(c) \/ TakeOver(c)
                 \/ StartAgent(c) \/ Finalize(c) \/ FallbackReturns(c)
        BY <4>5 DEF Poll, Claim, ReadMarker, Defer, TakeOver, StartAgent, Finalize,
                    FallbackReturns
      <4>6. CASE \/ SendToDlq(c) \/ MarkFailed(c) \/ Commit(c) \/ AgentTimesOut(c)
                 \/ Restart(c) \/ HeartbeatReads(c) \/ HeartbeatWrites(c)
        BY <4>6 DEF SendToDlq, MarkFailed, Commit, AgentTimesOut, Restart, HeartbeatReads,
                    HeartbeatWrites
      <4>7. QED
        BY <3>1, <4>2, <4>4, <4>5, <4>6 DEF ConsumerNext, ConsumerStep
    <3>2. ASSUME NEW ev \in Event, EventNext(ev) PROVE assigned = d
      BY <3>2 DEF EventNext, Publish, PublishAgain, Age
    <3>3. CASE \/ UNCHANGED vars
               \/ \E rv \in Reviews : TicketNext(rv)
               \/ \E t \in Threads : RunNext(t)
      BY <3>3 DEF vars, consumerVars, TicketNext, RunNext, KeepConsumers
    <3>4. QED
      BY <3>1, <3>2, <3>3 DEF Next
  <2>3. QED
    BY <1>3, <2>1, <2>2
<1>8. QED
  BY <1>6, <1>7

\* A consumer comes to a commit, to the dead-letter steps and to a released marker
\* only with its event on record.
LEMMA HeldIsSettled ==
    ASSUME SettledInv, [Next]_vars, NEW d \in Consumers, step'[d] \notin {"poll", "down"}
    PROVE  /\ step'[d] \in CommitSteps => Settled(Message(d))'
           /\ step'[d] \in {"markFailed", "commitDlq"} => Message(d)' \in dlq'
           /\ step'[d] = "read" /\ marker'[Message(d)'].status = "absent" => Settled(Message(d))'
<1> USE DEF SettledInv
<1> DEFINE Goal == /\ step'[d] \in CommitSteps => Settled(Message(d))'
                   /\ step'[d] \in {"markFailed", "commitDlq"} => Message(d)' \in dlq'
                   /\ step'[d] = "read" /\ marker'[Message(d)'].status = "absent" =>
                          Settled(Message(d))'
<1>1. ASSUME NEW s, To(d, s) PROVE step'[d] = s
  BY <1>1 DEF To, ShapeInv, TypeOK
<1>2. CASE Poll(d)
  <2>1. step'[d] = "claim"
    BY <1>1, <1>2 DEF Poll
  <2>2. QED
    BY <2>1 DEF CommitSteps
<1>3. CASE step[d] \notin {"poll", "down"} /\ position'[d] = position[d]
  <2>1. /\ Message(d) \in Event /\ Message(d)' = Message(d)
        /\ Settled(Message(d)) => Settled(Message(d))'
    BY <1>3, MessageIsKept
  <2>2. dlq \subseteq dlq'
    BY StepGrows
  <2>3. \A ev \in Event : marker'[ev].status = "absent" =>
                              marker[ev].status = "absent" \/ Settled(ev)'
    BY MarkersStay
  <2>5. ASSUME step'[d] = step[d] PROVE Goal
    <3>1. ASSUME step'[d] = "read", marker'[Message(d)'].status = "absent"
          PROVE  Settled(Message(d))'
      <4>1. PICK ev \in Event : ev = Message(d)
        BY <2>1
      <4>2. marker[ev].status = "absent" \/ Settled(ev)'
        BY <2>1, <2>3, <3>1, <4>1
      <4>3. Settled(ev)' => Settled(Message(d))'
        BY <2>1, <4>1 DEF Settled
      <4>4. QED
        BY <2>1, <2>5, <3>1, <4>1, <4>2, <4>3 DEF PassedIsSettled
    <3>2. QED
      BY <2>1, <2>2, <2>5, <3>1 DEF PassedIsSettled
  <2>6. ASSUME step'[d] = "commitDlq" \/ step'[d] = "markFailed", Message(d) \in dlq' PROVE Goal
    <3>1. Settled(Message(d))'
      BY <2>1, <2>6 DEF Settled
    <3>2. QED
      BY <2>1, <2>6, <3>1
  <2>7. ASSUME step'[d] \in CommitSteps \ {"commitDlq"}, Settled(Message(d)) PROVE Goal
    BY <2>1, <2>7 DEF CommitSteps
  <2>8. ASSUME NEW s, s \notin CommitSteps \cup {"markFailed", "read"}, To(d, s) PROVE Goal
    BY <1>1, <2>8 DEF CommitSteps
  <2> HIDE DEF Goal
  <2>9. ASSUME ConsumerNext(d) PROVE Goal
    <3>1. CASE Claim(d)
      <4>1. CASE To(d, "start")
        BY <2>8, <4>1 DEF CommitSteps
      <4>2. CASE marker[Message(d)] # Absent /\ To(d, "read") /\ marker' = marker
        BY <1>1, <2>1, <4>2 DEF AbsentIsBare, CommitSteps, Goal
      <4>3. QED
        BY <3>1, <4>1, <4>2 DEF Claim
    <3>2. CASE ReadMarker(d)
      <4>1. To(d, "poll") \/ (To(d, "ack") /\ marker[Message(d)].status \in TerminalStatuses)
        BY <3>2 DEF ReadMarker
      <4>2. Settled(Message(d)) /\ step'[d] = "ack"
        BY <1>1, <2>1, <4>1 DEF MarkersAreTrue
      <4>3. QED
        BY <2>7, <4>2 DEF CommitSteps
    <3>3. CASE Finalize(d) \/ FallbackReturns(d)
      <4>1. step[d] \in {"await", "handOff", "fallback"} /\ run[thread[d]].step = "done"
        BY <3>3 DEF Finalize, FallbackReturns, Awaits
      <4>2. ReplyTo(d) \in {"ERROR", "RAISED"} \/ Settled(Message(d))
        BY <4>1 DEF AwaitedIsTrue, ReplyTo
      <4>3. \/ To(d, "handOff") \/ To(d, "fallback") \/ To(d, "dlq")
            \/ /\ ReplyTo(d) \in Paused \cup {"APPLIED", "STALE_REVIEW", "STATUS_CHANGED"}
               /\ \E s \in {"commit", "commitManual"} : To(d, s)
        BY <3>3 DEF Finalize, FallbackReturns, FallBack
      <4>4. CASE To(d, "handOff") \/ To(d, "fallback") \/ To(d, "dlq")
        BY <2>8, <4>4 DEF CommitSteps
      <4>5. ASSUME ReplyTo(d) \in Paused \cup {"APPLIED", "STALE_REVIEW", "STATUS_CHANGED"},
                   NEW s \in {"commit", "commitManual"}, To(d, s)
            PROVE  Goal
        BY <1>1, <2>7, <4>2, <4>5 DEF Paused, CommitSteps
      <4>6. QED
        BY <4>3, <4>4, <4>5
    <3>4. CASE SendToDlq(d)
      BY <1>1, <2>6, <3>4 DEF SendToDlq
    <3>5. CASE MarkFailed(d)
      <4>1. Message(d) \in dlq' /\ step'[d] = "commitDlq"
        BY <1>1, <2>2, <3>5 DEF MarkFailed, PassedIsSettled
      <4>2. QED
        BY <2>6, <4>1
    <3>6. CASE CommitFails(d)
      <4>1. To(d, "fallback") \/ To(d, "dlq") \/ To(d, "down")
        BY <3>6 DEF CommitFails, FallBack, EndProcess
      <4>2. QED
        BY <2>8, <4>1 DEF CommitSteps
    <3>7. CASE HeartbeatReads(d) \/ HeartbeatWrites(d) \/ Assign(d) \/ Rebalance(d)
      BY <2>5, <3>7 DEF HeartbeatReads, HeartbeatWrites, Assign, Rebalance, AssignTo
    <3>8. CASE \/ Poll(d) \/ Defer(d) \/ TakeOver(d) \/ StartAgent(d) \/ Commit(d)
               \/ AgentTimesOut(d) \/ Crash(d) \/ Restart(d)
      <4>1. \E s \in {"claim", "poll", "start", "await", "fallback", "down"} : To(d, s)
        BY <3>8 DEF Poll, Defer, TakeOver, StartAgent, Commit, AgentTimesOut, Crash, Restart,
                    EndProcess
      <4>2. QED
        BY <2>8, <4>1 DEF CommitSteps
    <3>9. QED
      BY <2>9, <3>1, <3>2, <3>3, <3>4, <3>5, <3>6, <3>7, <3>8 DEF ConsumerNext, ConsumerStep
  <2>10. Goal
    BY <2>5, <2>9, OnlyItself
  <2>11. QED
    BY <2>10 DEF Goal
<1>4. QED
  BY <1>2, <1>3, MessageStays

\* What a consumer is past stays settled, across polls, seeks and reassignments.
LEMMA PassedStaysSettled ==
    ASSUME SettledInv, [Next]_vars
    PROVE  PassedIsSettled'
<1> USE DEF SettledInv
<1>1. ASSUME NEW d \in Consumers, step'[d] \notin {"poll", "down"},
             NEW i \in 1 .. position'[d], i # position'[d]
      PROVE  Settled(log[i])'
  <2>1. i \in 1 .. Len(log) /\ Settled(log[i])
    <3>1. /\ position[d] \in Nat /\ position[d] <= Len(log) /\ Len(log) \in Nat
      BY DEF ShapeInv, TypeOK, LogIsSound
    <3>2. CASE step[d] \notin {"poll", "down"} /\ position'[d] = position[d]
      BY <1>1, <3>1, <3>2 DEF PassedIsSettled
    <3>3. CASE Poll(d)
      <4>1. /\ step[d] = "poll" /\ assigned = d /\ position'[d] = position[d] + 1
        BY <3>3 DEF Poll, ShapeInv, TypeOK
      <4>2. i \in 1 .. position[d]
        BY <1>1, <3>1, <4>1
      <4>3. QED
        BY <3>1, <4>1, <4>2 DEF PassedIsSettled
    <3>4. QED
      BY <1>1, <3>2, <3>3, MessageStays
  <2>2. QED
    BY <2>1, PassedIsKept
<1>2. ASSUME NEW d \in Consumers
      PROVE  /\ step'[d] \in CommitSteps => Settled(Message(d))'
             /\ step'[d] \in {"markFailed", "commitDlq"} => Message(d)' \in dlq'
             /\ step'[d] = "read" /\ marker'[Message(d)'].status = "absent" =>
                    Settled(Message(d))'
  <2>1. CASE step'[d] \in {"poll", "down"}
    BY <2>1 DEF CommitSteps
  <2>2. CASE step'[d] \notin {"poll", "down"}
    BY <2>2, HeldIsSettled
  <2>3. QED
    BY <2>1, <2>2
<1>3. CommitSteps' = CommitSteps
  BY DEF CommitSteps
<1>4. QED
  BY <1>1, <1>2, <1>3, PolledIsSettled DEF PassedIsSettled

\* The offset moves only to the position of a consumer whose message is settled.
LEMMA CommittedStaysSettled ==
    ASSUME SettledInv, [Next]_vars
    PROVE  CommittedIsSettled'
<1> USE DEF SettledInv
<1> SUFFICES ASSUME NEW i \in 1 .. committed' PROVE Settled(log[i])'
  BY DEF CommittedIsSettled
<1>1. /\ Len(log) \in Nat /\ committed \in Nat /\ committed <= Len(log)
      /\ \A c \in Consumers : position[c] \in Nat /\ position[c] <= Len(log)
  BY DEF ShapeInv, TypeOK, LogIsSound
<1>2. CASE committed' = committed
  BY <1>1, <1>2, PassedIsKept DEF CommittedIsSettled
<1>3. ASSUME NEW c \in Consumers, committed' = position[c], step[c] \in CommitSteps
      PROVE  Settled(log[i])'
  <2>1. step[c] \notin {"poll", "down"} /\ i \in 1 .. Len(log)
    BY <1>1, <1>3 DEF CommitSteps
  <2>2. Settled(log[i])
    <3>1. CASE i = position[c]
      BY <1>3, <3>1 DEF PassedIsSettled, Message
    <3>2. CASE i # position[c]
      BY <1>3, <2>1, <3>2 DEF PassedIsSettled
    <3>3. QED
      BY <3>1, <3>2
  <2>3. QED
    BY <2>1, <2>2, PassedIsKept
<1>4. \/ committed' = committed
      \/ \E c \in Consumers : committed' = position[c] /\ step[c] \in CommitSteps
  <2>1. ASSUME NEW c \in Consumers, ConsumerNext(c)
        PROVE  committed' = committed \/ (committed' = position[c] /\ step[c] \in CommitSteps)
    <3>1. CASE Commit(c)
      BY <3>1 DEF Commit
    <3>2. CASE CommitFails(c)
      BY <3>2 DEF CommitFails, CommitRaises, CommitSteps
    <3>3. CASE \/ Poll(c) \/ Claim(c) \/ ReadMarker(c) \/ Defer(c) \/ TakeOver(c)
               \/ StartAgent(c) \/ Finalize(c) \/ FallbackReturns(c)
      BY <3>3 DEF Poll, Claim, ReadMarker, Defer, TakeOver, StartAgent, Finalize,
                  FallbackReturns
    <3>4. CASE \/ SendToDlq(c) \/ MarkFailed(c) \/ AgentTimesOut(c) \/ Crash(c) \/ Restart(c)
               \/ Assign(c) \/ Rebalance(c) \/ HeartbeatReads(c) \/ HeartbeatWrites(c)
      BY <3>4 DEF SendToDlq, MarkFailed, AgentTimesOut, Crash, Restart, Assign, Rebalance,
                  AssignTo, HeartbeatReads, HeartbeatWrites
    <3>5. QED
      BY <2>1, <3>1, <3>2, <3>3, <3>4 DEF ConsumerNext, ConsumerStep
  <2>2. ASSUME NEW ev \in Event, EventNext(ev) PROVE committed' = committed
    BY <2>2 DEF EventNext, Publish, PublishAgain, Age
  <2>3. CASE \/ UNCHANGED vars
             \/ \E rv \in Reviews : TicketNext(rv)
             \/ \E t \in Threads : RunNext(t)
    BY <2>3 DEF vars, consumerVars, TicketNext, RunNext, KeepConsumers
  <2>4. QED
    BY <2>1, <2>2, <2>3 DEF Next
<1>5. QED
  BY <1>2, <1>3, <1>4

----------------------------------------------------------------------------
(* The theorems.                                                            *)

\* At the start nothing is in progress, marked or committed.
LEMMA InitSettled == Init => SettledInv
<1> SUFFICES ASSUME Init PROVE SettledInv
  OBVIOUS
<1>1. ShapeInv
  BY InitShape
<1> USE DEF Init, RunsInit
<1>2. UpdatesAreCurrent /\ CheckpointsAreTrue
  BY DEF UpdatesAreCurrent, CheckpointsAreTrue, NoRun, Updates, Reached
<1>3. AwaitedIsTrue /\ AbsentIsBare /\ MarkersAreTrue
  BY DEF AwaitedIsTrue, AbsentIsBare, MarkersAreTrue, Absent, TerminalStatuses
<1>4. PassedIsSettled
  <2>1. ASSUME NEW c \in Consumers
        PROVE  step[c] = "poll" /\ assigned # c /\ "poll" \notin CommitSteps
    BY NoneIsFree DEF CommitSteps
  <2>2. QED
    BY <2>1 DEF PassedIsSettled
<1>5. CommittedIsSettled
  BY DEF CommittedIsSettled
<1>6. Aligned
  <2>1. OneAtWork /\ ClaimedIsMarked /\ GraphsAreAwaited /\ BrokenIsNext
    BY NoneIsFree DEF OneAtWork, ClaimedIsMarked, GraphsAreAwaited, BrokenIsNext, Broken,
                      NoRun, Reached
  <2>2. OverIsWhole
    BY DEF OverIsWhole, Over, CommitSteps
  <2>3. QED
    BY <2>1, <2>2 DEF Aligned
<1>7. QED
  BY <1>1, <1>2, <1>3, <1>4, <1>5, <1>6 DEF SettledInv

\* Every step keeps the invariant.
LEMMA StepSettled ==
    ASSUME EvidenceIsKept
    PROVE  SettledInv /\ [Next]_vars => SettledInv'
<1> SUFFICES ASSUME SettledInv, [Next]_vars PROVE SettledInv'
  OBVIOUS
<1>1. ShapeInv'
  BY StepShape DEF SettledInv
<1>2. UpdatesAreCurrent' /\ CheckpointsAreTrue' /\ AwaitedIsTrue'
  BY UpdatesStayCurrent, CheckpointsStayTrue, AwaitedStaysTrue
<1>3. AbsentIsBare' /\ MarkersAreTrue'
  <2>1. \A ev \in Event :
            /\ marker'[ev].status \in TerminalStatuses => Settled(ev)'
            /\ marker'[ev].status = "FAILED" => ev \in dlq'
            /\ marker'[ev].status = "absent" => marker'[ev] = Absent
    BY MarkersStay
  <2>2. QED
    BY <2>1 DEF AbsentIsBare, MarkersAreTrue
<1>4. PassedIsSettled' /\ CommittedIsSettled'
  BY PassedStaysSettled, CommittedStaysSettled
<1>5. MaxRevision = 0 \/ Aligned'
  BY StepAligned
<1>6. QED
  BY <1>1, <1>2, <1>3, <1>4, <1>5 DEF SettledInv

\* No offset is committed before the business result, the evidence request, the
\* manual fallback or the dead letter of its event is on record, for any number of
\* consumers, threads and tickets.  Of a ticket nobody supplements, whatever fault
\* occurs; of one that is supplemented, whatever crashes, failed calls, failed commits
\* and repeated events occur, as long as no run outlives the patience of its consumer.
THEOREM CommittedSettled ==
    ASSUME EvidenceIsKept
    PROVE  Spec => []CommittedIsSettled
<1>1. SettledInv /\ [Next]_vars => SettledInv'
  BY StepSettled
<1>2. SettledInv => CommittedIsSettled
  BY DEF SettledInv
<1>3. QED
  BY <1>1, <1>2, InitSettled, PTL DEF Spec

\* A duplicate is acknowledged on a marker only if its event is settled, under the
\* same assumption.
THEOREM MarkersTrue ==
    ASSUME EvidenceIsKept
    PROVE  Spec => []MarkersAreTrue
<1>1. SettledInv /\ [Next]_vars => SettledInv'
  BY StepSettled
<1>2. SettledInv => MarkersAreTrue
  BY DEF SettledInv
<1>3. QED
  BY <1>1, <1>2, InitSettled, PTL DEF Spec
----------------------------------------------------------------------------
(* The publishing job and the dead-letter consumer.                         *)

\* Finitely many reviews have finitely many events.
LEMMA EventsAreFinite == IsFiniteSet(Event)
<1> DEFINE f == [p \in Reviews \X Revisions |-> [review |-> p[1], revision |-> p[2]]]
<1>1. IsFiniteSet(Revisions)
  <2>1. 0 \in Int /\ MaxRevision \in Int
    BY BoundsAreNat
  <2>2. QED
    BY <2>1, FS_Interval, Zenon DEF Revisions
<1>2. IsFiniteSet(Reviews \X Revisions)
  BY <1>1, ReviewsAreFinite, FS_Product, Zenon
<1>3. f \in [Reviews \X Revisions -> Event]
  BY DEF Event
<1>4. \A ev \in Event : \E p \in Reviews \X Revisions : f[p] = ev
  <2> SUFFICES ASSUME NEW ev \in Event PROVE \E p \in Reviews \X Revisions : f[p] = ev
    OBVIOUS
  <2>1. <<ev.review, ev.revision>> \in Reviews \X Revisions
    BY DEF Event
  <2>2. f[<<ev.review, ev.revision>>] = ev
    BY <2>1 DEF Event
  <2>3. QED
    BY <2>1, <2>2
<1>5. f \in Surjection(Reviews \X Revisions, Event)
  <2> HIDE DEF f
  <2> QED
    BY <1>3, <1>4 DEF Surjection
<1>6. QED
  <2> HIDE DEF f
  <2> QED
    BY <1>2, <1>5, FS_Surjection, Zenon

\* What the job selects: due rows, each once.
LEMMA BatchTyped ==
    ASSUME NEW rows \in SetToSeqs(Due)
    PROVE  /\ rows \in Seq(Event) /\ Len(rows) = Cardinality(Due)
           /\ \A i \in 1 .. Len(rows) : rows[i] \in Due
           /\ \A i, j \in 1 .. Len(rows) : i # j => rows[i] # rows[j]
<1>1. Due \in SUBSET Event
  BY DEF Due, Enqueued
<1>2. Cardinality(Due) \in Nat
  BY <1>1, EventsAreFinite, FS_Subset, FS_CardinalityType, Zenon
<1>3. rows \in [1 .. Cardinality(Due) -> Due]
      /\ \A i, j \in 1 .. Cardinality(Due) : i # j => rows[i] # rows[j]
  BY DEF SetToSeqs
<1>4. rows \in Seq(Due) /\ Len(rows) = Cardinality(Due)
  BY <1>2, <1>3
<1>5. QED
  BY <1>1, <1>3, <1>4

\* What the publishing job and the dead-letter consumer change of the consumers'
\* world: an event that is due to exist is appended, an open ticket gets a verdict,
\* a fault is counted.
Outer ==
    /\ UNCHANGED <<checkpoint, run, dlq, marker, committed, assigned, step, position, thread, beat>>
    /\ faults' \in {faults, faults + 1}
    /\ log' = log \/ \E ev \in Enqueued : log' = Append(log, ev)
    /\ ticket' = ticket \/ \E rv \in Reviews : ticket' = HandedOff(rv)

\* Such a step only adds: to a ticket a verdict, to the partition an event.
LEMMA OuterGrows ==
    ASSUME TypeOK, Outer
    PROVE  /\ TicketsGrow /\ ticket' \in [Reviews -> Ticket]
           /\ \A rv \in Reviews : ticket'[rv].revision = ticket[rv].revision
           /\ log' \in Seq(Event) /\ Len(log) <= Len(log') /\ Len(log) \in Nat
           /\ \A i \in 1 .. Len(log) : log'[i] = log[i]
           /\ \A i \in 1 .. Len(log') : i <= Len(log) \/ log'[i] \in Enqueued
<1>1. \A rv \in Reviews : ticket[rv] \in Ticket /\ ticket[rv].revision \in Nat
  BY BoundsAreNat DEF TypeOK, Ticket, Revisions
<1>2. ASSUME NEW rv \in Reviews, ticket' = HandedOff(rv)
      PROVE  /\ ticket' \in [Reviews -> Ticket]
             /\ \A other \in Reviews :
                   /\ ticket'[other].revision = ticket[other].revision
                   /\ ticket'[other].prompts = ticket[other].prompts
                   /\ ticket[other].state # "open" => ticket'[other].state # "open"
  <2>1. \A other \in Reviews : other # rv => ticket'[other] = ticket[other]
    BY <1>2 DEF HandedOff, TypeOK
  <2>2. /\ ticket'[rv] \in Ticket
        /\ ticket'[rv].revision = ticket[rv].revision /\ ticket'[rv].prompts = ticket[rv].prompts
        /\ ticket'[rv].state = IF ticket[rv].state = "open" THEN "reviewed" ELSE ticket[rv].state
    BY <1>1, <1>2 DEF HandedOff, Ticket, TypeOK
  <2>3. ticket' = [x \in Reviews |-> ticket'[x]]
    BY <1>2 DEF HandedOff, TypeOK
  <2>4. QED
    BY <1>1, <2>1, <2>2, <2>3
<1>3. /\ TicketsGrow /\ ticket' \in [Reviews -> Ticket]
      /\ \A rv \in Reviews : ticket'[rv].revision = ticket[rv].revision
  BY <1>1, <1>2 DEF Outer, TicketsGrow, TypeOK
<1>4. Enqueued \subseteq Event /\ log \in Seq(Event) /\ Len(log) \in Nat
  BY DEF Enqueued, TypeOK
<1>5. /\ log' \in Seq(Event) /\ Len(log) <= Len(log')
      /\ \A i \in 1 .. Len(log) : log'[i] = log[i]
      /\ \A i \in 1 .. Len(log') : i <= Len(log) \/ log'[i] \in Enqueued
  BY <1>4 DEF Outer
<1>6. QED
  BY <1>3, <1>4, <1>5

\* It keeps the shape of the consumers' world.
LEMMA OuterShape ==
    ASSUME ShapeInv, Outer
    PROVE  ShapeInv'
<1> USE DEF ShapeInv
<1>1. /\ ticket' \in [Reviews -> Ticket] /\ log' \in Seq(Event)
      /\ \A rv \in Reviews : ticket'[rv].revision = ticket[rv].revision
      /\ Len(log) <= Len(log') /\ Len(log) \in Nat /\ Len(log') \in Nat
      /\ \A i \in 1 .. Len(log) : log'[i] = log[i]
      /\ \A i \in 1 .. Len(log') : i <= Len(log) \/ log'[i] \in Enqueued
  BY OuterGrows
<1>2. UNCHANGED <<checkpoint, run, dlq, marker, committed, assigned, step, position, thread, beat>>
  BY DEF Outer
<1>3. TypeOK'
  BY <1>1, <1>2 DEF Outer, TypeOK
<1>4. RunsHaveReviews'
  BY <1>1, <1>2 DEF RunsHaveReviews, Working, Updates
<1>5. LogIsSound'
  <2>1. ASSUME NEW i \in 1 .. Len(log')
        PROVE  log'[i].revision <= ticket'[log'[i].review].revision
    <3>1. log'[i] \in Event /\ log'[i].revision <= ticket[log'[i].review].revision
      BY <1>1 DEF LogIsSound, Enqueued
    <3>2. log'[i].review \in Reviews
      BY <3>1 DEF Event
    <3>3. QED
      BY <1>1, <3>1, <3>2
  <2>2. committed <= Len(log') /\ \A c \in Consumers : position[c] <= Len(log')
    BY <1>1 DEF LogIsSound, TypeOK
  <2>3. QED
    BY <1>2, <2>1, <2>2 DEF LogIsSound
<1>6. ThreadsAreHeld'
  BY <1>2 DEF ThreadsAreHeld
<1>7. ContextsExist'
  BY <1>1, <1>2 DEF ContextsExist
<1>8. QED
  BY <1>3, <1>4, <1>5, <1>6, <1>7

\* And what consumers are past, have committed or have marked stays settled.
LEMMA OuterSettled ==
    ASSUME SettledInv, Outer
    PROVE  SettledInv'
<1> USE DEF SettledInv
<1>1. ShapeInv /\ ShapeInv' /\ TypeOK
  BY OuterShape DEF ShapeInv
<1>2. /\ TicketsGrow /\ \A rv \in Reviews : ticket'[rv].revision = ticket[rv].revision
      /\ Len(log) \in Nat /\ Len(log) <= Len(log') /\ Len(log') \in Nat
      /\ \A i \in 1 .. Len(log) : log'[i] = log[i]
  BY <1>1, OuterGrows
<1>3. UNCHANGED <<checkpoint, run, dlq, marker, committed, assigned, step, position, thread, beat>>
  BY DEF Outer
<1>4. ASSUME NEW ev \in Event, Settled(ev)
      PROVE  Settled(ev)'
  <2>1. ev.review \in Reviews
    BY DEF Event
  <2>2. QED
    BY <1>2, <1>3, <1>4, <2>1 DEF Settled, TicketsGrow
<1>5. ASSUME NEW i \in 1 .. Len(log), Settled(log[i])
      PROVE  Settled(log[i])'
  <2>1. PICK ev \in Event : ev = log[i]
    BY <1>1 DEF TypeOK
  <2>2. Settled(ev)' /\ log'[i] = ev
    BY <1>2, <1>4, <1>5, <2>1
  <2>3. QED
    BY <2>2 DEF Settled
<1>6. ASSUME NEW c \in Consumers, step[c] \notin {"poll", "down"}
      PROVE  /\ position[c] \in 1 .. Len(log) /\ Message(c) \in Event /\ Message(c)' = Message(c)
             /\ Settled(Message(c)) => Settled(Message(c))'
  <2>1. position[c] \in 1 .. Len(log) /\ Message(c) \in Event
    BY <1>1, <1>6, MessageIsEvent DEF ShapeInv
  <2>2. Message(c)' = Message(c)
    BY <1>2, <1>3, <2>1 DEF Message
  <2>3. ASSUME Settled(Message(c)) PROVE Settled(Message(c))'
    <3>1. PICK ev \in Event : ev = Message(c)
      BY <2>1
    <3>2. Settled(ev)'
      BY <1>4, <2>3, <3>1
    <3>3. QED
      BY <2>2, <3>1, <3>2 DEF Settled
  <2>4. QED
    BY <2>1, <2>2, <2>3
<1>7. UpdatesAreCurrent'
  <2>1. \A t \in Threads : run[t].step \in Updates => run[t].review \in Reviews
    BY <1>1 DEF ShapeInv, RunsHaveReviews, Updates
  <2>2. QED
    BY <1>2, <1>3, <2>1 DEF UpdatesAreCurrent, TicketsGrow
<1>8. CheckpointsAreTrue'
  BY <1>2, <1>3 DEF CheckpointsAreTrue, TicketsGrow
<1>9. AwaitedIsTrue'
  <2>1. ASSUME NEW c \in Consumers, step[c] \in {"await", "handOff", "fallback"}
        PROVE  LET r == run[thread[c]] IN
               /\ r.step # "idle" /\ r.review = Message(c)'.review
               /\ r.step \in Working => Message(c)'.revision <= r.revision
               /\ r.step = "done" => r.reply \in {"ERROR", "RAISED"} \/ Settled(Message(c))'
    BY <1>6, <2>1 DEF AwaitedIsTrue
  <2>2. QED
    BY <1>3, <2>1 DEF AwaitedIsTrue
<1>10. AbsentIsBare' /\ MarkersAreTrue'
  BY <1>3, <1>4 DEF AbsentIsBare, MarkersAreTrue
<1>11. PassedIsSettled'
  <2>1. ASSUME NEW c \in Consumers
        PROVE  /\ position[c] <= Len(log) /\ position[c] \in Nat
               /\ \A i \in 1 .. position[c] : Settled(log[i]) => Settled(log[i])'
    BY <1>1, <1>2, <1>5 DEF ShapeInv, LogIsSound, TypeOK
  <2>2. ASSUME NEW c \in Consumers
        PROVE  /\ step[c] \in CommitSteps => step[c] \notin {"poll", "down"}
               /\ step[c] \in {"markFailed", "commitDlq", "read"} => step[c] \notin {"poll", "down"}
    BY DEF CommitSteps
  <2>3. ASSUME NEW c \in Consumers
        PROVE  /\ step[c] \in {"poll", "down"} /\ assigned = c =>
                      \A i \in 1 .. position[c] : Settled(log[i])'
               /\ step[c] \notin {"poll", "down"} =>
                      \A i \in 1 .. position[c] : i # position[c] => Settled(log[i])'
    BY <2>1 DEF PassedIsSettled
  <2>4. ASSUME NEW c \in Consumers
        PROVE  /\ step[c] \in CommitSteps => Settled(Message(c))'
               /\ step[c] \in {"markFailed", "commitDlq"} => Message(c)' \in dlq
               /\ step[c] = "read" /\ marker[Message(c)'].status = "absent" => Settled(Message(c))'
    BY <1>6, <2>2 DEF PassedIsSettled
  <2>5. QED
    BY <1>3, <2>3, <2>4 DEF PassedIsSettled
<1>12. CommittedIsSettled'
  <2>1. committed <= Len(log) /\ committed \in Nat
    BY <1>1 DEF ShapeInv, LogIsSound, TypeOK
  <2>2. QED
    BY <1>2, <1>3, <1>5, <2>1 DEF CommittedIsSettled
<1>13. MaxRevision = 0 \/ Aligned'
  BY <1>1, <1>2, <1>3, AlignedFrame
<1>14. QED
  BY <1>1, <1>7, <1>8, <1>9, <1>10, <1>11, <1>12, <1>13

----------------------------------------------------------------------------
(* The outbox.                                                              *)

\* A batch holds different rows of events that exist, none of them published or
\* dead yet.
BatchIsOpen ==
    /\ \A i \in 1 .. Len(batch) : batch[i] \in Enqueued
    /\ \A i \in 1 .. Len(batch) : outbox[batch[i]].status \in {"NEW", "FAILED"}
    /\ \A i, j \in 1 .. Len(batch) : i # j => batch[i] # batch[j]

\* What the job is about to write of the first row of its batch is so.
PublisherIsTrue ==
    /\ publisher # "idle" => batch # <<>>
    /\ publisher = "sent" => Head(batch) \in Published
    /\ publisher = "handed" => ticket[Head(batch).review].state # "open"

\* The types of what ReviewDelivery adds.
RowsTyped ==
    /\ outbox \in [Event -> Row]
    /\ batch \in Seq(Event)
    /\ publisher \in {"idle", "sent", "failed", "handed"}
    /\ recovered \subseteq Event
    /\ failures \in [Event -> 0 .. MaxDeliveries]

\* OutboxIsTrue is not inductive alone: a row is written a step after the send or
\* the hand-off it speaks of.
DeliveryInv == ShapeInv /\ RowsTyped /\ BatchIsOpen /\ PublisherIsTrue /\ OutboxIsTrue

\* Seen from the consumers a step of DeliveryNext is one of theirs, or adds.
LEMMA DeliverySteps ==
    ASSUME DeliveryInv, [DeliveryNext]_allVars
    PROVE  ([Next]_vars /\ UNCHANGED deliveryVars) \/ Outer
<1>1. CASE Others
  BY <1>1 DEF Others, Next, EventNext
<1>2. CASE SelectPending \/ RecordPublished \/ RecordFailed \/ RecordDead
  BY <1>2 DEF SelectPending, RecordPublished, RecordFailed, RecordDead, Record, Outer, vars, runVars,
              consumerVars
<1>3. CASE Send
  <2>1. batch \in Seq(Event) /\ batch # <<>> /\ Head(batch) \in Enqueued
    BY <1>3 DEF Send, DeliveryInv, RowsTyped, BatchIsOpen
  <2>2. QED
    BY <1>3, <2>1 DEF Send, Outer, KeepPartition, runVars
<1>4. CASE HandOffExhausted
  <2>1. Head(batch).review \in Reviews
    <3>1. batch \in Seq(Event) /\ batch # <<>>
      BY <1>4 DEF HandOffExhausted, DeliveryInv, RowsTyped, PublisherIsTrue
    <3>2. Head(batch) \in Event
      BY <3>1
    <3>3. QED
      BY <3>2 DEF Event
  <2>2. QED
    BY <1>4, <2>1 DEF HandOffExhausted, Outer, KeepPartition
<1>5. CASE PublishedUnknown \/ JobStops
  BY <1>5 DEF PublishedUnknown, JobStops, Fault, Outer, KeepPartition
<1>6. ASSUME NEW ev \in Event, Elapse(ev) \/ ConsumeDeadLetter(ev)
      PROVE  Outer
  <2>1. ev.review \in Reviews
    BY DEF Event
  <2>2. QED
    BY <1>6, <2>1 DEF Elapse, ConsumeDeadLetter, RecoverManualHandoff, RecoveryFails, Outer, KeepPartition, vars, runVars, consumerVars
<1>7. CASE UNCHANGED allVars
  BY <1>7 DEF allVars
<1>8. QED
  BY <1>1, <1>2, <1>3, <1>4, <1>5, <1>6, <1>7 DEF DeliveryNext, JobStep

\* Neither takes anything back.
LEMMA DeliveryGrows ==
    ASSUME DeliveryInv, [DeliveryNext]_allVars
    PROVE  ShapeInv' /\ TicketsGrow /\ Published \subseteq Published' /\ Enqueued \subseteq Enqueued'
<1>1. /\ ShapeInv' /\ TicketsGrow /\ ticket' \in [Reviews -> Ticket]
      /\ Len(log) <= Len(log') /\ \A i \in 1 .. Len(log) : log'[i] = log[i]
  BY DeliverySteps, StepShape, StepGrows, OuterShape, OuterGrows DEF DeliveryInv, ShapeInv
<1>2. Len(log) \in Nat /\ Len(log') \in Nat
  BY <1>1 DEF DeliveryInv, ShapeInv, TypeOK
<1>3. Published \subseteq Published'
  <2>1. ASSUME NEW i \in 1 .. Len(log) PROVE i \in 1 .. Len(log') /\ log'[i] = log[i]
    BY <1>1, <1>2
  <2>2. QED
    BY <2>1 DEF Published
<1>4. Enqueued \subseteq Enqueued'
  <2>1. \A rv \in Reviews : ticket[rv].revision \in Nat /\ ticket'[rv].revision \in Nat
    BY <1>1, BoundsAreNat DEF DeliveryInv, ShapeInv, TypeOK, Ticket, Revisions
  <2>2. \A ev \in Event : ev.review \in Reviews /\ ev.revision \in Nat
    BY BoundsAreNat DEF Event, Revisions
  <2>3. QED
    BY <1>1, <2>1, <2>2 DEF Enqueued, TicketsGrow
<1>5. QED
  BY <1>1, <1>3, <1>4

\* A step that leaves the rows, the batch and the job alone keeps what they say.
LEMMA RowsStay ==
    ASSUME DeliveryInv, TicketsGrow, Published \subseteq Published', Enqueued \subseteq Enqueued',
           UNCHANGED <<outbox, batch, publisher>>
    PROVE  BatchIsOpen' /\ PublisherIsTrue' /\ OutboxIsTrue'
<1>1. /\ RowsTyped /\ BatchIsOpen /\ PublisherIsTrue /\ OutboxIsTrue
  BY DEF DeliveryInv
<1>2. BatchIsOpen'
  BY <1>1 DEF BatchIsOpen
<1>3. PublisherIsTrue'
  <2>1. batch # <<>> => Head(batch) \in Event
    BY <1>1 DEF RowsTyped
  <2>2. \A ev \in Event : ticket[ev.review].state # "open" => ticket'[ev.review].state # "open"
    BY DEF TicketsGrow, Event
  <2>3. QED
    BY <1>1, <2>1, <2>2 DEF PublisherIsTrue
<1>4. OutboxIsTrue'
  <2>1. \A ev \in Event : ticket[ev.review].state # "open" => ticket'[ev.review].state # "open"
    BY DEF TicketsGrow, Event
  <2>2. QED
    BY <1>1, <2>1 DEF OutboxIsTrue
<1>5. QED
  BY <1>2, <1>3, <1>4

\* The job records a row of its batch that says what is so, and goes on.
LEMMA RecordKeeps ==
    ASSUME DeliveryInv, NEW row \in Row, Record(row), batch # <<>>,
           row.status = "PUBLISHED" => Head(batch) \in Published,
           row.status = "DEAD" => ticket[Head(batch).review].state # "open"
    PROVE  RowsTyped' /\ BatchIsOpen' /\ PublisherIsTrue' /\ OutboxIsTrue'
<1>1. /\ RowsTyped /\ BatchIsOpen /\ OutboxIsTrue
      /\ Head(batch) \in Event /\ Head(batch) = batch[1]
      /\ batch \in Seq(Event) /\ Len(batch) \in Nat \ {0}
  BY DEF DeliveryInv, RowsTyped
<1>2. /\ outbox' = [outbox EXCEPT ![Head(batch)] = row] /\ batch' = Tail(batch)
      /\ publisher' = "idle" /\ UNCHANGED <<recovered, failures, ticket, log>>
  BY DEF Record, letters, vars, runVars, consumerVars
<1>3. /\ batch' \in Seq(Event) /\ Len(batch') = Len(batch) - 1
      /\ \A i \in 1 .. Len(batch') : batch'[i] = batch[i + 1] /\ i + 1 \in 1 .. Len(batch)
  BY <1>1, <1>2
<1>4. \A ev \in Event : outbox'[ev] = IF ev = Head(batch) THEN row ELSE outbox[ev]
  BY <1>1, <1>2 DEF RowsTyped
<1>5. RowsTyped'
  BY <1>1, <1>2, <1>3 DEF RowsTyped
<1>6. BatchIsOpen'
  <2>1. ASSUME NEW i \in 1 .. Len(batch')
        PROVE  batch'[i] \in Enqueued' /\ outbox'[batch'[i]].status \in {"NEW", "FAILED"}
    <3>1. batch'[i] = batch[i + 1] /\ i + 1 \in 1 .. Len(batch) /\ 1 \in 1 .. Len(batch)
          /\ i + 1 # 1
      BY <1>1, <1>3
    <3>2. batch[i + 1] # Head(batch) /\ batch[i + 1] \in Event
      BY <1>1, <3>1 DEF BatchIsOpen
    <3>3. Enqueued' = Enqueued
      BY <1>2 DEF Enqueued
    <3>4. QED
      BY <1>1, <1>4, <3>1, <3>2, <3>3 DEF BatchIsOpen
  <2>2. \A i, j \in 1 .. Len(batch') : i # j => batch'[i] # batch'[j]
    <3>1. \A i, j \in 1 .. Len(batch') : i # j => i + 1 # j + 1
      OBVIOUS
    <3>2. QED
      BY <1>1, <1>3, <3>1 DEF BatchIsOpen
  <2>3. QED
    BY <2>1, <2>2 DEF BatchIsOpen
<1>7. PublisherIsTrue'
  BY <1>2 DEF PublisherIsTrue
<1>8. OutboxIsTrue'
  BY <1>1, <1>2, <1>4 DEF OutboxIsTrue, Published
<1>9. QED
  BY <1>5, <1>6, <1>7, <1>8

\* Whatever the job, its faults, the consumers or the dead-letter consumer do, the
\* outbox keeps to the truth.
LEMMA DeliveryStep == DeliveryInv /\ [DeliveryNext]_allVars => DeliveryInv'
<1> SUFFICES ASSUME DeliveryInv, [DeliveryNext]_allVars PROVE DeliveryInv'
  OBVIOUS
<1>1. ShapeInv' /\ TicketsGrow /\ Published \subseteq Published' /\ Enqueued \subseteq Enqueued'
  BY DeliveryGrows
<1>2. /\ RowsTyped /\ BatchIsOpen /\ PublisherIsTrue /\ OutboxIsTrue
      /\ batch # <<>> => /\ Head(batch) \in Event /\ Head(batch) = batch[1]
                         /\ 1 \in 1 .. Len(batch)
      /\ outbox \in [Event -> Row] /\ batch \in Seq(Event)
  BY DEF DeliveryInv, RowsTyped
<1> DEFINE Kept == RowsTyped' /\ BatchIsOpen' /\ PublisherIsTrue' /\ OutboxIsTrue'
<1>3. CASE UNCHANGED deliveryVars
  <2>1. RowsTyped'
    BY <1>2, <1>3 DEF RowsTyped, deliveryVars
  <2>2. QED
    BY <1>1, <1>3, <2>1, RowsStay DEF deliveryVars, DeliveryInv
<1>4. CASE SelectPending
  <2>1. batch' \in SetToSeqs(Due) /\ UNCHANGED <<vars, outbox, publisher, letters>> /\ publisher = "idle"
    BY <1>4 DEF SelectPending
  <2>2. /\ batch' \in Seq(Event)
        /\ \A i \in 1 .. Len(batch') : batch'[i] \in Due
        /\ \A i, j \in 1 .. Len(batch') : i # j => batch'[i] # batch'[j]
    BY <2>1, BatchTyped
  <2>3. \A ev \in Due : ev \in Enqueued' /\ outbox'[ev].status \in {"NEW", "FAILED"}
    BY <1>1, <2>1 DEF Due
  <2>4. RowsTyped' /\ BatchIsOpen' /\ PublisherIsTrue'
    BY <1>2, <2>1, <2>2, <2>3 DEF RowsTyped, BatchIsOpen, PublisherIsTrue, letters
  <2>5. OutboxIsTrue'
    BY <1>2, <2>1 DEF OutboxIsTrue, Published, vars, runVars, consumerVars
  <2>6. QED
    BY <1>1, <2>4, <2>5 DEF DeliveryInv
<1>5. CASE Send \/ PublishedUnknown
  <2>1. /\ UNCHANGED <<outbox, batch, recovered, failures, ticket>> /\ batch # <<>>
        /\ publisher' = "failed" \/ (publisher' = "sent" /\ log' = Append(log, Head(batch)))
    BY <1>2, <1>5 DEF Send, PublishedUnknown, PublisherIsTrue, runVars, letters
  <2>2. publisher' = "sent" => Head(batch) \in Published'
    <3>1. SUFFICES ASSUME publisher' = "sent" PROVE Head(batch) \in Published'
      OBVIOUS
    <3>2. log \in Seq(Event) /\ log' = Append(log, Head(batch))
      BY <2>1, <3>1 DEF DeliveryInv, ShapeInv, TypeOK
    <3>3. Len(log) + 1 \in 1 .. Len(log') /\ log'[Len(log) + 1] = Head(batch)
      BY <1>2, <2>1, <3>2
    <3>4. QED
      BY <3>3 DEF Published
  <2>3. RowsTyped' /\ PublisherIsTrue'
    BY <1>2, <2>1, <2>2 DEF RowsTyped, PublisherIsTrue
  <2>4. BatchIsOpen' /\ OutboxIsTrue'
    BY <1>1, <1>2, <2>1 DEF BatchIsOpen, OutboxIsTrue
  <2>5. QED
    BY <1>1, <2>3, <2>4 DEF DeliveryInv
<1>6. CASE RecordPublished \/ RecordFailed \/ RecordDead
  <2>1. batch # <<>> /\ outbox[Head(batch)] \in Row /\ outbox[Head(batch)].status \in {"NEW", "FAILED"}
    BY <1>2, <1>6 DEF RecordPublished, RecordFailed, RecordDead, PublisherIsTrue, BatchIsOpen
  <2>2. outbox[Head(batch)].retries \in 0 .. MaxRetries /\ outbox[Head(batch)].due \in BOOLEAN
        /\ DOMAIN outbox[Head(batch)] = {"status", "retries", "due"}
    BY <2>1 DEF Row
  <2>3. CASE RecordPublished
    <3> DEFINE row == [outbox[Head(batch)] EXCEPT !.status = "PUBLISHED"]
    <3>1. row \in Row /\ row.status = "PUBLISHED"
      BY <2>1, <2>2 DEF Row
    <3>2. Record(row) /\ Head(batch) \in Published
      BY <1>2, <2>3 DEF RecordPublished, PublisherIsTrue
    <3> HIDE DEF row
    <3>3. Kept
      BY <2>1, <3>1, <3>2, RecordKeeps
    <3>4. QED
      BY <1>1, <3>3 DEF DeliveryInv
  <2>4. CASE RecordFailed
    <3> DEFINE row == [status |-> "FAILED", retries |-> outbox[Head(batch)].retries + 1, due |-> FALSE]
    <3>1. row \in Row /\ row.status = "FAILED"
      BY <2>2, <2>4, RetriesAreCounted DEF Row, RecordFailed, Exhausted
    <3>2. Record(row)
      BY <2>4 DEF RecordFailed
    <3> HIDE DEF row
    <3>3. Kept
      BY <2>1, <3>1, <3>2, RecordKeeps
    <3>4. QED
      BY <1>1, <3>3 DEF DeliveryInv
  <2>5. CASE RecordDead
    <3> DEFINE row == [outbox[Head(batch)] EXCEPT !.status = "DEAD", !.retries = MaxRetries + 1,
                                                  !.due = FALSE]
    <3>1. row \in Row /\ row.status = "DEAD"
      BY <2>1, <2>2 DEF Row
    <3>2. Record(row) /\ ticket[Head(batch).review].state # "open"
      BY <1>2, <2>5 DEF RecordDead, PublisherIsTrue
    <3> HIDE DEF row
    <3>3. Kept
      BY <2>1, <3>1, <3>2, RecordKeeps
    <3>4. QED
      BY <1>1, <3>3 DEF DeliveryInv
  <2>6. QED
    BY <1>6, <2>3, <2>4, <2>5
<1>7. CASE HandOffExhausted
  <2>1. /\ UNCHANGED <<outbox, batch, recovered, failures, log>> /\ publisher' = "handed"
        /\ batch # <<>>
        /\ ticket' = HandedOff(Head(batch).review)
    BY <1>2, <1>7 DEF HandOffExhausted, PublisherIsTrue, letters
  <2>2. ticket'[Head(batch).review].state # "open"
    <3>1. Head(batch).review \in Reviews /\ ticket \in [Reviews -> Ticket]
      BY <1>2, <2>1 DEF Event, DeliveryInv, ShapeInv, TypeOK
    <3>2. ticket[Head(batch).review] \in Ticket
      BY <3>1
    <3>3. ticket'[Head(batch).review].state =
              IF ticket[Head(batch).review].state = "open" THEN "reviewed"
              ELSE ticket[Head(batch).review].state
      BY <2>1, <3>1, <3>2 DEF HandedOff, Ticket
    <3>4. QED
      BY <3>3
  <2>3. RowsTyped' /\ BatchIsOpen' /\ PublisherIsTrue'
    BY <1>1, <1>2, <2>1, <2>2 DEF RowsTyped, BatchIsOpen, PublisherIsTrue
  <2>4. \A ev \in Event : ticket[ev.review].state # "open" => ticket'[ev.review].state # "open"
    BY <1>1 DEF TicketsGrow, Event
  <2>5. OutboxIsTrue'
    BY <1>1, <1>2, <2>1, <2>4 DEF OutboxIsTrue
  <2>6. QED
    BY <1>1, <2>3, <2>5 DEF DeliveryInv
<1>8. CASE JobStops
  <2>1. batch' = <<>> /\ publisher' = "idle" /\ UNCHANGED <<ticket, log, outbox, recovered, failures>>
    BY <1>8 DEF JobStops, letters
  <2>2. RowsTyped' /\ BatchIsOpen' /\ PublisherIsTrue' /\ OutboxIsTrue'
    BY <1>2, <2>1 DEF RowsTyped, BatchIsOpen, PublisherIsTrue, OutboxIsTrue, Published
  <2>3. QED
    BY <1>1, <2>2 DEF DeliveryInv
<1>9. ASSUME NEW ev \in Event, Elapse(ev)
      PROVE  DeliveryInv'
  <2>1. /\ outbox' = [outbox EXCEPT ![ev].due = TRUE] /\ outbox[ev].status = "FAILED"
        /\ UNCHANGED <<ticket, log, batch, publisher, recovered, failures>>
    BY <1>9 DEF Elapse, letters, vars, runVars, consumerVars
  <2>2. outbox[ev] \in Row
    BY <1>2
  <2>3. [outbox[ev] EXCEPT !.due = TRUE] \in Row
        /\ [outbox[ev] EXCEPT !.due = TRUE].status = outbox[ev].status
    BY <2>1, <2>2 DEF Row
  <2>4. outbox' \in [Event -> Row] /\ \A x \in Event : outbox'[x].status = outbox[x].status
    BY <1>2, <2>1, <2>3
  <2>5. RowsTyped' /\ PublisherIsTrue' /\ OutboxIsTrue'
    BY <1>1, <1>2, <2>1, <2>4 DEF RowsTyped, PublisherIsTrue, OutboxIsTrue, Published
  <2>6. BatchIsOpen'
    <3>1. \A i \in 1 .. Len(batch) : batch[i] \in Event
      BY <1>2 DEF BatchIsOpen, Enqueued
    <3>2. QED
      BY <1>1, <1>2, <2>1, <2>4, <3>1 DEF BatchIsOpen
  <2>7. QED
    BY <1>1, <2>5, <2>6 DEF DeliveryInv
<1>10. ASSUME NEW ev \in Event, ConsumeDeadLetter(ev)
       PROVE  DeliveryInv'
  <2>1. UNCHANGED <<outbox, batch, publisher>>
    BY <1>10 DEF ConsumeDeadLetter, RecoverManualHandoff, RecoveryFails
  <2>2. recovered' \subseteq Event /\ failures' \in [Event -> 0 .. MaxDeliveries]
    <3>1. CASE RecoverManualHandoff(ev)
      BY <1>2, <3>1 DEF RecoverManualHandoff, RowsTyped
    <3>2. CASE RecoveryFails(ev)
      <4>1. failures[ev] # MaxDeliveries /\ failures[ev] \in 0 .. MaxDeliveries
        BY <1>2, <3>2 DEF RecoveryFails, Delivered, GivenUp, RowsTyped
      <4>2. failures[ev] + 1 \in 0 .. MaxDeliveries
        BY <4>1, RetriesAreCounted
      <4>3. QED
        BY <1>2, <3>2, <4>2 DEF RecoveryFails, RowsTyped
    <3>3. QED
      BY <1>10, <3>1, <3>2 DEF ConsumeDeadLetter
  <2>3. RowsTyped'
    BY <1>2, <2>1, <2>2 DEF RowsTyped
  <2>4. QED
    BY <1>1, <2>1, <2>3, RowsStay DEF DeliveryInv
<1>11. QED
  BY <1>3, <1>4, <1>5, <1>6, <1>7, <1>8, <1>9, <1>10 DEF DeliveryNext, JobStep, Others, allVars

\* At first every row is new and the job has read none.
LEMMA DeliveryStarts == DeliveryInit => DeliveryInv
<1> SUFFICES ASSUME DeliveryInit PROVE DeliveryInv
  OBVIOUS
<1>1. ShapeInv
  BY InitShape DEF DeliveryInit
<1>2. outbox \in [Event -> Row] /\ \A ev \in Event : outbox[ev].status = "NEW"
  BY RetriesAreCounted DEF DeliveryInit, Row
<1>3. batch = <<>> /\ publisher = "idle" /\ recovered = {}
      /\ failures \in [Event -> 0 .. MaxDeliveries]
  BY RetriesAreCounted DEF DeliveryInit
<1>4. QED
  BY <1>1, <1>2, <1>3 DEF DeliveryInv, RowsTyped, BatchIsOpen, PublisherIsTrue, OutboxIsTrue

\* The rows of the outbox, the batch and the job hold what they are declared to.
THEOREM DeliveryTyped == DeliverySpec => []DeliveryTypeOK
<1>1. DeliveryInv => DeliveryTypeOK
  BY DEF DeliveryInv, ShapeInv, RowsTyped, DeliveryTypeOK
<1>2. QED
  BY <1>1, DeliveryStarts, DeliveryStep, PTL DEF DeliverySpec

\* A row that says PUBLISHED has its event in the partition, one that says DEAD has
\* its ticket handed off or decided (publishOne writes the row after the send, and
\* after the hand-off), whatever send, update, hand-off or process fails in between.
THEOREM OutboxTrue == DeliverySpec => []OutboxIsTrue
<1>1. DeliveryInv => OutboxIsTrue
  BY DEF DeliveryInv
<1>2. QED
  BY <1>1, DeliveryStarts, DeliveryStep, PTL DEF DeliverySpec

\* The promise of the consumers, with its assumption, survives the company of the
\* job, which sends what it has sent before, and of the dead-letter consumer, which
\* hands tickets off while runs are deciding them.
THEOREM DeliverySettles ==
    ASSUME EvidenceIsKept
    PROVE  DeliverySpec => [](CommittedIsSettled /\ MarkersAreTrue)
<1>1. DeliveryInv /\ SettledInv /\ [DeliveryNext]_allVars => SettledInv'
  BY DeliverySteps, StepSettled, OuterSettled
<1>2. SettledInv => CommittedIsSettled /\ MarkersAreTrue
  BY DEF SettledInv
<1>3. DeliveryInit => SettledInv
  BY InitSettled DEF DeliveryInit
<1>4. QED
  BY <1>1, <1>2, <1>3, DeliveryStarts, DeliveryStep, PTL DEF DeliverySpec
=============================================================================
