------------------------ MODULE ReviewConsumerProofs ------------------------
(***************************************************************************)
(* Proofs about ReviewConsumer, for any consumers, threads, tickets and    *)
(* faults: what every variable holds, and who holds what.                  *)
(***************************************************************************)
EXTENDS ReviewConsumer, TLAPS

Working == {"review", "manual"} \cup Updates

\* Every run has a review, and a revision its ticket has reached.
RunsHaveReviews ==
    \A t \in Threads :
        run[t].step # "idle" => /\ run[t].review \in Reviews
                                /\ run[t].revision <= ticket[run[t].review].revision

\* So has the context that a graph keeps.
ContextsExist == \A rv \in Reviews : checkpoint[rv].revision <= ticket[rv].revision

\* The partition holds events of revisions that exist; nobody is past its end.
LogIsSound ==
    /\ \A i \in 1 .. Len(log) : log[i].revision <= ticket[log[i].review].revision
    /\ committed <= Len(log)
    /\ \A c \in Consumers : position[c] <= Len(log)
    /\ \A c \in Consumers : step[c] \notin {"poll", "down"} => position[c] # 0

\* Consumers do not share runs, and a run one of them holds is not free.
ThreadsAreHeld ==
    /\ \A c \in Consumers : thread[c] # NoThread => run[thread[c]].awaited
    /\ \A c, d \in Consumers : thread[c] # NoThread /\ thread[c] = thread[d] => c = d
    /\ \A c \in Consumers : step[c] \in {"await", "handOff", "fallback", "commit"} =>
                                thread[c] # NoThread

\* What holds whatever faults occur.
ShapeInv == TypeOK /\ RunsHaveReviews /\ ContextsExist /\ LogIsSound /\ ThreadsAreHeld

----------------------------------------------------------------------------
(* Types, and who holds what.                                               *)

\* A consumer at work has a message in its hands.
LEMMA MessageIsEvent ==
    ASSUME TypeOK, LogIsSound, NEW c \in Consumers, step[c] \notin {"poll", "down"}
    PROVE  position[c] \in 1 .. Len(log) /\ Message(c) \in Event
           /\ Message(c).revision <= ticket[Message(c).review].revision
<1>1. position[c] \in 1 .. Len(log)
  BY DEF TypeOK, LogIsSound
<1>2. Message(c) \in Event
  BY <1>1 DEF TypeOK, Message
<1>3. QED
  BY <1>1, <1>2 DEF LogIsSound, Message

\* The runs that consumers start, for the agent or for a fallback, are runs.
LEMMA NewRunTyped ==
    ASSUME NEW ev \in Event, NEW kind \in {"agent", "fallback"}, NEW s \in RunSteps,
           NEW revision \in Revisions
    PROVE  NewRun(kind, s, revision, ev) \in Run
BY DEF NewRun, Run, Event, Replies

\* The empty partition and the idle threads have the shape.
LEMMA InitShape == Init => ShapeInv
<1> SUFFICES ASSUME Init PROVE ShapeInv
  OBVIOUS
<1> USE DEF Init, RunsInit
<1>1. 0 \in Revisions /\ NoRun \in Run
  BY BoundsAreNat DEF Revisions, NoRun, Run, RunSteps, Replies
<1>2. TypeOK
  <2>1. ticket \in [Reviews -> Ticket] /\ checkpoint \in [Reviews -> Checkpoint]
    BY <1>1 DEF Ticket, Checkpoint, Replies, Reached
  <2>2. marker \in [Event -> Marker]
    BY DEF Marker, Absent
  <2>3. QED
    BY <1>1, <2>1, <2>2 DEF TypeOK, ConsumerSteps
<1>3. RunsHaveReviews /\ ContextsExist
  BY DEF RunsHaveReviews, ContextsExist, NoRun, Reached
<1>4. LogIsSound
  BY DEF LogIsSound
<1>5. ThreadsAreHeld
  BY DEF ThreadsAreHeld
<1>6. QED
  BY <1>2, <1>3, <1>4, <1>5 DEF ShapeInv

\* A step of the partition, or of a consumer that starts and ends no run.
QuietStep ==
    \/ \E ev \in Event : EventNext(ev)
    \/ \E c \in Consumers : \/ Assign(c) \/ Rebalance(c) \/ Poll(c) \/ Claim(c)
                            \/ ReadMarker(c) \/ Defer(c) \/ TakeOver(c)
                            \/ HeartbeatReads(c) \/ HeartbeatWrites(c)
                            \/ SendToDlq(c) \/ MarkFailed(c) \/ Restart(c)

\* Claims, heartbeats, assignments and dead letters keep the shape.
LEMMA QuietShape == ShapeInv /\ QuietStep => ShapeInv'
<1> SUFFICES ASSUME ShapeInv, QuietStep PROVE ShapeInv'
  OBVIOUS
<1> USE DEF ShapeInv
<1>1. UNCHANGED <<ticket, checkpoint, run, thread>>
  BY DEF QuietStep, EventNext, Publish, PublishAgain, Age, Assign, Rebalance, AssignTo,
         Poll, Claim, ReadMarker, Defer, TakeOver, HeartbeatReads, HeartbeatWrites,
         SendToDlq, MarkFailed, Restart, runVars
<1>2. faults' \in Nat
  BY DEF QuietStep, EventNext, Publish, PublishAgain, Age, Assign, Rebalance, AssignTo,
         Poll, Claim, ReadMarker, Defer, TakeOver, HeartbeatReads, HeartbeatWrites,
         SendToDlq, MarkFailed, Restart, runVars, Fault, TypeOK
<1>3. RunsHaveReviews' /\ ContextsExist'
  BY <1>1 DEF RunsHaveReviews, ContextsExist
<1>4. ASSUME NEW ev \in Event, EventNext(ev) PROVE ShapeInv'
  <2> USE DEF TypeOK
  <2>1. /\ log' \in Seq(Event)
        /\ \/ log' = log
           \/ log' = Append(log, ev) /\ ev.revision <= ticket[ev.review].revision
    <3>1. CASE Publish(ev)
      BY <3>1 DEF Publish
    <3>2. CASE PublishAgain(ev)
      <4>1. PICK i \in 1 .. Len(log) : ev = log[i]
        BY <3>2 DEF PublishAgain, Published
      <4>2. log' = Append(log, ev) /\ log \in Seq(Event)
        BY <3>2 DEF PublishAgain
      <4>3. ev.revision <= ticket[ev.review].revision
        BY <4>1 DEF LogIsSound
      <4>4. log' \in Seq(Event)
        BY <4>2
      <4>5. QED
        BY <4>2, <4>3, <4>4
    <3>3. CASE Age(ev)
      BY <3>3 DEF Age, Marker
    <3>4. QED
      BY <1>4, <3>1, <3>2, <3>3 DEF EventNext
  <2>2. UNCHANGED <<dlq, committed, assigned, step, position, beat>>
    BY <1>4 DEF EventNext, Publish, PublishAgain, Age
  <2>3. marker' \in [Event -> Marker]
    <3>1. [marker[ev] EXCEPT !.fresh = FALSE] \in Marker
      <4>1. \A m \in Marker : [m EXCEPT !.fresh = FALSE] \in Marker
        BY DEF Marker
      <4>2. marker[ev] \in Marker
        OBVIOUS
      <4>3. QED
        BY <4>1, <4>2
    <3>2. CASE Age(ev)
      BY <3>1, <3>2 DEF Age
    <3>3. QED
      BY <1>4, <3>2 DEF EventNext, Publish, PublishAgain
  <2>4. LogIsSound'
    <3>1. CASE log' = log
      BY <1>1, <2>2, <3>1 DEF LogIsSound
    <3>2. CASE log' = Append(log, ev) /\ ev.revision <= ticket[ev.review].revision
      <4>1. Len(log') = Len(log) + 1 /\ Len(log) \in Nat
            /\ \A i \in 1 .. Len(log') : log'[i] = IF i <= Len(log) THEN log[i] ELSE ev
        BY <3>2
      <4>2. \A i \in 1 .. Len(log') : log'[i].revision <= ticket[log'[i].review].revision
        BY <3>2, <4>1 DEF LogIsSound
      <4>3. QED
        BY <1>1, <2>2, <4>1, <4>2 DEF LogIsSound
    <3>3. QED
      BY <2>1, <3>1, <3>2
  <2>5. ThreadsAreHeld'
    BY <1>1, <2>2 DEF ThreadsAreHeld
  <2>6. TypeOK'
    BY <1>1, <1>2, <2>1, <2>2, <2>3
  <2>7. QED
    BY <1>3, <2>4, <2>5, <2>6
<1>5. ASSUME NEW c \in Consumers,
             Assign(c) \/ Rebalance(c) \/ Poll(c) \/ Claim(c) \/ ReadMarker(c) \/ Defer(c)
             \/ TakeOver(c) \/ HeartbeatReads(c) \/ HeartbeatWrites(c) \/ SendToDlq(c)
             \/ MarkFailed(c) \/ Restart(c)
      PROVE ShapeInv'
  <2>1. log' = log /\ committed' = committed
    BY <1>5 DEF Assign, Rebalance, AssignTo, Poll, Claim, ReadMarker, Defer, TakeOver,
                HeartbeatReads, HeartbeatWrites, SendToDlq, MarkFailed, Restart
  <2>2. /\ position' \in [Consumers -> Nat]
        /\ \A d \in Consumers : position'[d] <= Len(log)
        /\ step' \in [Consumers -> ConsumerSteps]
        /\ \A d \in Consumers : step'[d] \notin {"poll", "down"} => position'[d] # 0
        /\ \A d \in Consumers : step'[d] \in {"await", "handOff", "fallback", "commit"} =>
                                    step[d] = step'[d]
    <3> USE DEF TypeOK, LogIsSound, ConsumerSteps, Holding
    <3>1. CASE Assign(c) \/ Rebalance(c)
      BY <3>1 DEF Assign, Rebalance, AssignTo
    <3>2. CASE Poll(c)
      BY <3>2 DEF Poll, To
    <3>3. CASE Defer(c)
      BY <3>3 DEF Defer, To
    <3>4. CASE Claim(c) \/ ReadMarker(c) \/ TakeOver(c)
      BY <3>4 DEF Claim, ReadMarker, TakeOver, To
    <3>5. CASE HeartbeatReads(c) \/ HeartbeatWrites(c)
      BY <3>5 DEF HeartbeatReads, HeartbeatWrites
    <3>6. CASE SendToDlq(c) \/ MarkFailed(c) \/ Restart(c)
      BY <3>6 DEF SendToDlq, MarkFailed, Restart, To
    <3>7. QED
      BY <1>5, <3>1, <3>2, <3>3, <3>4, <3>5, <3>6
  <2>3. dlq' \subseteq Event /\ marker' \in [Event -> Marker]
        /\ assigned' \in Consumers \cup {NoConsumer} /\ beat' \in [Consumers -> SUBSET Event]
    <3> USE DEF TypeOK
    <3>1. Processing(c) \in Marker /\ Marked("FAILED") \in Marker
      BY DEF Processing, Marked, Marker, TerminalStatuses
    <3>2. CASE Assign(c) \/ Rebalance(c)
      BY <3>2 DEF Assign, Rebalance, AssignTo
    <3>3. CASE Poll(c) \/ Defer(c) \/ ReadMarker(c) \/ Restart(c)
      BY <3>3 DEF Poll, Defer, ReadMarker, Restart
    <3>4. CASE Claim(c) \/ TakeOver(c) \/ MarkFailed(c)
      BY <3>1, <3>4 DEF Claim, TakeOver, MarkFailed, Mark
    <3>5. CASE HeartbeatReads(c) \/ SendToDlq(c)
      <4>1. step[c] \notin {"poll", "down"}
        BY <3>5 DEF HeartbeatReads, SendToDlq, Holding
      <4>2. Message(c) \in Event
        BY <4>1, MessageIsEvent DEF TypeOK
      <4>3. CASE HeartbeatReads(c)
        BY <4>2, <4>3 DEF HeartbeatReads
      <4>4. CASE SendToDlq(c)
        BY <4>2, <4>4 DEF SendToDlq
      <4>5. QED
        BY <3>5, <4>3, <4>4
    <3>6. CASE HeartbeatWrites(c)
      BY <3>1, <3>6 DEF HeartbeatWrites
    <3>7. QED
      BY <1>5, <3>2, <3>3, <3>4, <3>5, <3>6
  <2>4. LogIsSound' /\ ThreadsAreHeld'
    BY <1>1, <2>1, <2>2 DEF LogIsSound, ThreadsAreHeld
  <2>5. TypeOK'
    BY <1>1, <1>2, <2>1, <2>2, <2>3 DEF TypeOK
  <2>6. QED
    BY <1>3, <2>4, <2>5
<1>6. QED
  BY <1>4, <1>5 DEF QuietStep

\* A consumer takes run t, or none, and gives back the run it had.
LEMMA ThreadTaken ==
    ASSUME ShapeInv, NEW c \in Consumers, NEW t \in Threads \cup {NoThread},
           thread' = [thread EXCEPT ![c] = t],
           t # NoThread => run'[t].awaited /\ (run[t] = NoRun \/ thread[c] = t),
           \A u \in Threads : u # t /\ u # thread[c] => run'[u] = run[u],
           \A d \in Consumers : d # c => step'[d] = step[d],
           step'[c] \in {"await", "handOff", "fallback", "commit"} => t # NoThread
    PROVE  ThreadsAreHeld'
<1> USE DEF ShapeInv
<1>1. \A d \in Consumers : thread'[d] = IF d = c THEN t ELSE thread[d]
  BY DEF TypeOK
<1>2. \A d \in Consumers : d # c /\ thread[d] # NoThread =>
          thread[d] # thread[c] /\ thread[d] # t
  BY DEF ThreadsAreHeld, NoRun
<1>3. \A d \in Consumers : thread[d] # NoThread => thread[d] \in Threads
  BY DEF TypeOK
<1>4. \A d \in Consumers : thread'[d] # NoThread => run'[thread'[d]].awaited
  BY <1>1, <1>2, <1>3 DEF ThreadsAreHeld
<1>5. \A d, e \in Consumers : thread'[d] # NoThread /\ thread'[d] = thread'[e] => d = e
  BY <1>1, <1>2 DEF ThreadsAreHeld
<1>6. \A d \in Consumers : step'[d] \in {"await", "handOff", "fallback", "commit"} =>
                                thread'[d] # NoThread
  BY <1>1 DEF ThreadsAreHeld
<1>7. QED
  BY <1>4, <1>5, <1>6 DEF ThreadsAreHeld

\* The manual fallback takes the place of the run the consumer has awaited.
LEMMA FallBackShape ==
    ASSUME ShapeInv, NEW c \in Consumers, step[c] \in {"await", "handOff", "fallback", "commit"},
           NEW s \in {"handOff", "fallback"}, FallBack(c, thread[c], s), ticket' = ticket
    PROVE  /\ run' \in [Threads -> Run] /\ RunsHaveReviews' /\ ThreadsAreHeld'
           /\ thread' \in [Consumers -> Threads \cup {NoThread}]
           /\ step' \in [Consumers -> ConsumerSteps]
<1> USE DEF ShapeInv
<1>1. thread[c] \in Threads
  BY DEF TypeOK, ThreadsAreHeld
<1> DEFINE r == NewRun("fallback", "manual", Message(c).revision, Message(c))
<1>2. Message(c) \in Event /\ Message(c).revision <= ticket[Message(c).review].revision
  BY MessageIsEvent
<1>3. r \in Run
  BY <1>2, NewRunTyped DEF Event, RunSteps, Updates
<1>4. r.awaited /\ r.review = Message(c).review /\ r.revision = Message(c).revision
      /\ r.review \in Reviews
  BY <1>2 DEF NewRun, Event
<1>5. run' = [run EXCEPT ![thread[c]] = r] /\ thread' = [thread EXCEPT ![c] = thread[c]]
      /\ step' = [step EXCEPT ![c] = s]
  BY DEF FallBack, To
<1> HIDE DEF r
<1>6. run' \in [Threads -> Run]
  BY <1>3, <1>5 DEF TypeOK
<1>7. RunsHaveReviews'
  BY <1>2, <1>4, <1>5 DEF RunsHaveReviews, TypeOK
<1>8. thread' \in [Consumers -> Threads \cup {NoThread}]
  BY <1>1, <1>5 DEF TypeOK
<1>9. step' \in [Consumers -> ConsumerSteps] /\ \A d \in Consumers : d # c => step'[d] = step[d]
  BY <1>5 DEF TypeOK, ConsumerSteps, Holding
<1>10. run'[thread[c]].awaited /\ \A u \in Threads : u # thread[c] => run'[u] = run[u]
  BY <1>1, <1>4, <1>5 DEF TypeOK
<1>11. thread[c] # NoThread
  BY <1>1, NoneIsFree
<1>12. ThreadsAreHeld'
  BY <1>1, <1>5, <1>9, <1>10, <1>11, ThreadTaken
<1>13. QED
  BY <1>6, <1>7, <1>8, <1>9, <1>12

\* A free thread holds no run.
LEMMA NoRunTyped == NoRun \in Run /\ NoRun.step = "idle" /\ ~NoRun.awaited
BY BoundsAreNat DEF Revisions, NoRun, Run, RunSteps, Replies

\* A run is broken off, or goes on without a consumer.
LEMMA RunGivenUp ==
    ASSUME ShapeInv, NEW c \in Consumers, EndIteration(c) \/ EndProcess(c),
           ticket' = ticket,
           \A d \in Consumers : d # c => step'[d] = step[d], step'[c] \in {"poll", "down"}
    PROVE  /\ run' \in [Threads -> Run] /\ RunsHaveReviews' /\ ThreadsAreHeld'
           /\ thread' \in [Consumers -> Threads \cup {NoThread}]
<1> USE DEF ShapeInv
<1>1. thread' = [thread EXCEPT ![c] = NoThread]
  BY DEF EndIteration, EndProcess
<1>2. \A u \in Threads :
          /\ run'[u] \in Run
          /\ u # thread[c] => run'[u] = run[u]
          /\ run'[u].step = "idle" \/ /\ run'[u].step = run[u].step
                                      /\ run'[u].review = run[u].review
                                      /\ run'[u].revision = run[u].revision
  <2> TAKE u \in Threads
  <2>1. run[u] \in Run
    BY DEF TypeOK
  <2> DEFINE r == [run[u] EXCEPT !.kind = "fallback", !.awaited = FALSE]
  <2>2. r \in Run /\ r.step = run[u].step /\ r.review = run[u].review
        /\ r.revision = run[u].revision
    BY <2>1 DEF Run
  <2>3. /\ u # thread[c] => run'[u] = run[u]
        /\ u = thread[c] => run'[u] \in {r, NoRun}
    <3>1. CASE EndIteration(c)
      BY <3>1 DEF EndIteration
    <3>2. CASE EndProcess(c)
      BY <3>2 DEF EndProcess
    <3>3. QED
      BY <3>1, <3>2
  <2> HIDE DEF r
  <2>4. QED
    BY <2>1, <2>2, <2>3, NoRunTyped
<1>3. run' \in [Threads -> Run]
  <2>1. run' = [u \in Threads |-> run'[u]]
    BY DEF EndIteration, EndProcess
  <2>2. QED
    BY <1>2, <2>1
<1>4. RunsHaveReviews'
  BY <1>2 DEF RunsHaveReviews
<1>5. ThreadsAreHeld'
  BY <1>1, <1>2, ThreadTaken
<1>6. thread' \in [Consumers -> Threads \cup {NoThread}]
  BY <1>1 DEF TypeOK
<1>7. QED
  BY <1>3, <1>4, <1>5, <1>6

\* A step that starts or ends a run.
BusyStep == \E c \in Consumers :
    \/ StartAgent(c) \/ Finalize(c) \/ AgentTimesOut(c) \/ FallbackReturns(c)
    \/ Commit(c) \/ CommitFails(c) \/ Crash(c)

\* A consumer that starts or ends a run moves no ticket, event or position.
LEMMA BusyFrame ==
    ASSUME NEW c \in Consumers,
           StartAgent(c) \/ Finalize(c) \/ AgentTimesOut(c) \/ FallbackReturns(c)
           \/ Commit(c) \/ CommitFails(c) \/ Crash(c)
    PROVE  UNCHANGED <<ticket, log, dlq, position>> /\ step[c] # "down"
BY DEF StartAgent, Finalize, AgentTimesOut, FallbackReturns, Commit, CommitFails, Crash,
       Awaits, CommitSteps

\* It counts the faults it meets.
LEMMA BusyFaults == TypeOK /\ BusyStep => faults' \in Nat
BY DEF BusyStep, StartAgent, Finalize, AgentTimesOut, FallbackReturns, Commit, CommitFails,
       Crash, CommitRaises, Fault, TypeOK, runVars

\* What a run-starting step does to the marker, the group and the heartbeat.
LEMMA BusyMarker == TypeOK /\ BusyStep =>
    /\ marker' \in [Event -> Marker]
    /\ assigned' \in Consumers \cup {NoConsumer}
    /\ beat' \in [Consumers -> SUBSET Event]
    /\ committed' = committed \/ \E c \in Consumers : committed' = position[c]
<1> SUFFICES ASSUME TypeOK, BusyStep
             PROVE /\ marker' \in [Event -> Marker]
                   /\ assigned' \in Consumers \cup {NoConsumer}
                   /\ beat' \in [Consumers -> SUBSET Event]
                   /\ committed' = committed \/ \E c \in Consumers : committed' = position[c]
  OBVIOUS
<1> USE DEF TypeOK
<1>1. \A s \in TerminalStatuses : Marked(s) \in Marker
  BY DEF Marked, Marker
<1>2. Absent \in Marker /\ \A reply : OutcomeMark(reply) \in Marker
  BY <1>1 DEF Absent, Marker, OutcomeMark, TerminalStatuses
<1>3. PICK c \in Consumers :
          \/ StartAgent(c) \/ Finalize(c) \/ AgentTimesOut(c) \/ FallbackReturns(c)
          \/ Commit(c) \/ CommitFails(c) \/ Crash(c)
  BY DEF BusyStep
<1>4. CASE StartAgent(c) \/ AgentTimesOut(c) \/ Commit(c)
  <2>1. marker' = marker /\ beat' = beat /\ assigned' = assigned
        /\ committed' \in {committed, position[c]}
    BY <1>4, Zenon DEF StartAgent, AgentTimesOut, Commit
  <2>2. QED
    BY <2>1
<1>5. CASE Finalize(c)
  <2>1. marker' = marker \/ Mark(c, Absent) \/ Mark(c, OutcomeMark(ReplyTo(c)))
    BY <1>5, Zenon DEF Finalize
  <2>2. UNCHANGED <<beat, assigned, committed>>
    BY <1>5 DEF Finalize
  <2>3. Absent \in Marker /\ OutcomeMark(ReplyTo(c)) \in Marker
    BY <1>2
  <2>4. \A m \in Marker : Mark(c, m) => marker' \in [Event -> Marker]
    BY DEF Mark
  <2>5. QED
    BY <2>1, <2>2, <2>3, <2>4
<1>6. CASE FallbackReturns(c)
  <2>1. Marked("MANUAL_REQUIRED") \in Marker
    BY <1>1 DEF TerminalStatuses
  <2>2. QED
    BY <1>6, <2>1 DEF FallbackReturns, Mark
<1>7. ASSUME EndProcess(c)
      PROVE  /\ marker' \in [Event -> Marker]
             /\ assigned' \in Consumers \cup {NoConsumer}
             /\ beat' \in [Consumers -> SUBSET Event]
  <2>1. \A m \in Marker : [m EXCEPT !.owner = NoConsumer] \in Marker
    BY DEF Marker
  <2>2. marker' \in [Event -> Marker]
    BY <1>7, <2>1 DEF EndProcess
  <2>3. QED
    BY <1>7, <2>2 DEF EndProcess
<1>8. CASE CommitFails(c)
  BY <1>7, <1>8 DEF CommitFails, CommitRaises
<1>9. CASE Crash(c)
  BY <1>7, <1>9 DEF Crash
<1>10. QED
  BY <1>3, <1>4, <1>5, <1>6, <1>8, <1>9

\* Where StartAgent takes up a graph, and with which context, or what it takes from one
\* that is not to run.
StartsWith(c, r) ==
    LET ev == Message(c)
        last == checkpoint[ev.review]
    IN
    \/ /\ r = NewRun("agent", r.step, r.revision, ev)
       /\ checkpoint' = [checkpoint EXCEPT ![ev.review] = Reached(r.step, r.revision)]
       /\ \/ r.step = "load" /\ r.revision \in {0, last.revision}
          \/ /\ ev.revision # 0 /\ last.at \in {"load", "review", "manual"}
             /\ r.step = last.at /\ r.revision = last.revision
    \/ /\ r.step = "done" /\ r.kind = "agent" /\ r.awaited
       /\ r.review = ev.review /\ r.revision = 0
       /\ checkpoint' = checkpoint
       /\ \/ last.at = "ended" /\ r.reply = last.reply
          \/ last.at = "none" /\ r.reply = "RAISED"

\* A consumer that starts takes a free thread.
LEMMA StartMoves ==
    ASSUME ShapeInv, NEW c \in Consumers, StartAgent(c)
    PROVE  /\ step[c] = "start" /\ Message(c) \in Event
           /\ \E t \in Threads, r \in Run :
                 /\ run[t] = NoRun
                 /\ thread' = [thread EXCEPT ![c] = t]
                 /\ run' = [run EXCEPT ![t] = r]
                 /\ StartsWith(c, r)
<1> USE DEF ShapeInv
<1>1. step[c] = "start" /\ Message(c) \in Event
  BY MessageIsEvent DEF StartAgent
<1> DEFINE ev == Message(c)
           last == checkpoint[ev.review]
           goes(node, revision) == NewRun("agent", node, revision, ev)
           atOnce(reply) == [NewRun("agent", "done", 0, ev) EXCEPT !.reply = reply]
<1>2. last \in Checkpoint /\ last.revision \in Revisions /\ last.reply \in Replies
      /\ 0 \in Revisions
  BY <1>1, BoundsAreNat DEF Event, TypeOK, Checkpoint, Revisions
<1>3. ASSUME NEW node \in {"load", "review", "manual"}, NEW revision \in Revisions
      PROVE  /\ goes(node, revision) \in Run
             /\ goes(node, revision).step = node /\ goes(node, revision).revision = revision
  <2>1. node \in RunSteps
    BY DEF RunSteps
  <2>2. QED
    BY <1>1, <2>1, NewRunTyped DEF NewRun
<1>4. ASSUME NEW reply \in Replies
      PROVE  /\ atOnce(reply) \in Run
             /\ atOnce(reply).step = "done" /\ atOnce(reply).kind = "agent"
             /\ atOnce(reply).awaited /\ atOnce(reply).review = ev.review
             /\ atOnce(reply).revision = 0 /\ atOnce(reply).reply = reply
  BY <1>1, <1>2 DEF NewRun, Run, Event, RunSteps
<1> DEFINE Enter(t, node, revision) ==
               /\ run' = [run EXCEPT ![t] = goes(node, revision)]
               /\ checkpoint' = [checkpoint EXCEPT ![ev.review] = Reached(node, revision)]
           AtOnce(t, reply) ==
               /\ run' = [run EXCEPT ![t] = atOnce(reply)]
               /\ checkpoint' = checkpoint
<1>5. PICK t \in Threads :
          /\ run[t] = NoRun
          /\ thread' = [thread EXCEPT ![c] = t]
          /\ \/ Enter(t, "load", last.revision)
             \/ Enter(t, "load", 0)
             \/ /\ ev.revision # 0 /\ last.at \in {"load", "review", "manual"}
                /\ Enter(t, last.at, last.revision)
             \/ last.at = "ended" /\ AtOnce(t, last.reply)
             \/ last.at = "none" /\ AtOnce(t, "RAISED")
  BY DEF StartAgent
<1>6. ASSUME NEW node \in {"load", "review", "manual"}, NEW revision \in Revisions,
             Enter(t, node, revision),
             \/ node = "load" /\ revision \in {0, last.revision}
             \/ /\ ev.revision # 0 /\ last.at \in {"load", "review", "manual"}
                /\ node = last.at /\ revision = last.revision
      PROVE  run' = [run EXCEPT ![t] = goes(node, revision)] /\ goes(node, revision) \in Run
             /\ StartsWith(c, goes(node, revision))
  <2> DEFINE r == goes(node, revision)
  <2>1. r \in Run /\ r.step = node /\ r.revision = revision
    BY <1>3
  <2>2. r = NewRun("agent", node, revision, ev)
    OBVIOUS
  <2>3. /\ run' = [run EXCEPT ![t] = r]
        /\ checkpoint' = [checkpoint EXCEPT ![ev.review] = Reached(node, revision)]
    BY <1>6
  <2> HIDE DEF r
  <2>4. StartsWith(c, r)
    BY <1>6, <2>1, <2>2, <2>3 DEF StartsWith
  <2>5. QED
    BY <2>1, <2>3, <2>4 DEF r
<1>7. ASSUME NEW reply \in Replies, AtOnce(t, reply),
             \/ last.at = "ended" /\ reply = last.reply
             \/ last.at = "none" /\ reply = "RAISED"
      PROVE  run' = [run EXCEPT ![t] = atOnce(reply)] /\ atOnce(reply) \in Run
             /\ StartsWith(c, atOnce(reply))
  <2> DEFINE r == atOnce(reply)
  <2>1. /\ r \in Run /\ r.step = "done" /\ r.kind = "agent" /\ r.awaited
        /\ r.review = ev.review /\ r.revision = 0 /\ r.reply = reply
    BY <1>4
  <2>2. run' = [run EXCEPT ![t] = r] /\ checkpoint' = checkpoint
    BY <1>7
  <2> HIDE DEF r
  <2>3. StartsWith(c, r)
    BY <1>7, <2>1, <2>2 DEF StartsWith
  <2>4. QED
    BY <2>1, <2>2, <2>3 DEF r
<1> HIDE DEF Enter, AtOnce, goes, atOnce
<1>8. "RAISED" \in Replies
  BY DEF Replies
<1>9. \E r \in Run : run' = [run EXCEPT ![t] = r] /\ StartsWith(c, r)
  BY <1>2, <1>5, <1>6, <1>7, <1>8
<1>10. QED
  BY <1>1, <1>5, <1>9

\* process_message starts the graph, resumes it, or takes its last result.
LEMMA StartShape ==
    ASSUME ShapeInv, NEW c \in Consumers, StartAgent(c)
    PROVE  /\ run' \in [Threads -> Run] /\ RunsHaveReviews' /\ ThreadsAreHeld'
           /\ thread' \in [Consumers -> Threads \cup {NoThread}]
           /\ checkpoint' \in [Reviews -> Checkpoint] /\ ContextsExist'
           /\ step' \in [Consumers -> ConsumerSteps] /\ step'[c] = "await"
<1> USE DEF ShapeInv
<1>1. step[c] = "start" /\ step' = [step EXCEPT ![c] = "await"] /\ ticket' = ticket
  BY DEF StartAgent, To
<1>2. Message(c) \in Event
  BY <1>1, MessageIsEvent
<1> DEFINE rv == Message(c).review
<1>3. PICK t \in Threads, r \in Run :
          /\ run[t] = NoRun
          /\ thread' = [thread EXCEPT ![c] = t]
          /\ run' = [run EXCEPT ![t] = r]
          /\ StartsWith(c, r)
  BY StartMoves
<1>4. /\ rv \in Reviews /\ checkpoint[rv] \in Checkpoint
      /\ ticket[rv].revision \in Nat /\ checkpoint[rv].revision <= ticket[rv].revision
  BY <1>2, BoundsAreNat DEF Event, TypeOK, Ticket, Revisions, ContextsExist
<1>5. /\ r.awaited /\ r.review = rv /\ r.revision \in Revisions
      /\ r.revision <= ticket[rv].revision
      /\ \/ checkpoint' = checkpoint
         \/ /\ r.step \in {"load", "review", "manual"}
            /\ checkpoint' = [checkpoint EXCEPT ![rv] = Reached(r.step, r.revision)]
  <2>1. r.revision \in Revisions
    BY DEF Run
  <2>2. CASE r.step = "done" /\ r.awaited /\ r.review = rv /\ r.revision = 0
             /\ checkpoint' = checkpoint
    BY <1>4, <2>1, <2>2
  <2>3. CASE /\ r = NewRun("agent", r.step, r.revision, Message(c))
             /\ checkpoint' = [checkpoint EXCEPT ![rv] = Reached(r.step, r.revision)]
             /\ r.step \in {"load", "review", "manual"}
             /\ r.revision \in {0, checkpoint[rv].revision}
    <3>1. r.awaited /\ r.review = rv
      BY <2>3 DEF NewRun
    <3>2. QED
      BY <1>4, <2>1, <2>3, <3>1
  <2>4. QED
    BY <1>3, <2>2, <2>3 DEF StartsWith
<1>6. checkpoint' \in [Reviews -> Checkpoint] /\ ContextsExist'
  <2>1. CASE checkpoint' = checkpoint
    BY <1>1, <2>1 DEF TypeOK, ContextsExist
  <2>2. CASE /\ r.step \in {"load", "review", "manual"}
             /\ checkpoint' = [checkpoint EXCEPT ![rv] = Reached(r.step, r.revision)]
    <3>1. Reached(r.step, r.revision) \in Checkpoint
          /\ Reached(r.step, r.revision).revision = r.revision
      BY <1>5, <2>2 DEF Reached, Checkpoint, Replies
    <3>2. QED
      BY <1>1, <1>4, <1>5, <2>2, <3>1 DEF TypeOK, ContextsExist
  <2>3. QED
    BY <1>5, <2>1, <2>2
<1>7. run' \in [Threads -> Run]
  BY <1>3 DEF TypeOK
<1>8. RunsHaveReviews'
  BY <1>1, <1>3, <1>4, <1>5 DEF RunsHaveReviews, TypeOK
<1>9. ThreadsAreHeld'
  <2>1. \A u \in Threads : u # t => run'[u] = run[u]
    BY <1>3 DEF TypeOK
  <2>2. run'[t].awaited
    BY <1>3, <1>5 DEF TypeOK
  <2>3. \A d \in Consumers : d # c => step'[d] = step[d]
    BY <1>1 DEF TypeOK
  <2>4. run[t] = NoRun /\ thread' = [thread EXCEPT ![c] = t] /\ t # NoThread
    BY <1>3, NoneIsFree
  <2>5. QED
    <3>1. t # NoThread => run'[t].awaited /\ (run[t] = NoRun \/ thread[c] = t)
      BY <2>2, <2>4
    <3>2. \A u \in Threads : u # t /\ u # thread[c] => run'[u] = run[u]
      BY <2>1
    <3>3. QED
      BY <2>3, <2>4, <3>1, <3>2, ThreadTaken
<1>10. thread' \in [Consumers -> Threads \cup {NoThread}]
  BY <1>3 DEF TypeOK
<1>11. step' \in [Consumers -> ConsumerSteps] /\ step'[c] = "await"
  BY <1>1 DEF TypeOK, ConsumerSteps, Holding
<1>12. QED
  BY <1>6, <1>7, <1>8, <1>9, <1>10, <1>11

\* The agent's run goes on unawaited, the fallback starts in another.
LEMMA TimeOutShape ==
    ASSUME ShapeInv, NEW c \in Consumers, AgentTimesOut(c)
    PROVE  /\ run' \in [Threads -> Run] /\ RunsHaveReviews' /\ ThreadsAreHeld'
           /\ thread' \in [Consumers -> Threads \cup {NoThread}]
           /\ step' \in [Consumers -> ConsumerSteps]
<1> USE DEF ShapeInv
<1>1. step[c] = "await" /\ step' = [step EXCEPT ![c] = "fallback"] /\ ticket' = ticket
  BY DEF AgentTimesOut, To
<1>2. Message(c) \in Event /\ Message(c).revision <= ticket[Message(c).review].revision
  BY <1>1, MessageIsEvent
<1> DEFINE r == NewRun("fallback", "manual", Message(c).revision, Message(c))
           old == thread[c]
           left == [run[old] EXCEPT !.awaited = FALSE]
<1>3. PICK t \in Threads :
          /\ run[t] = NoRun
          /\ run' = [run EXCEPT ![old] = left, ![t] = r]
          /\ thread' = [thread EXCEPT ![c] = t]
  BY DEF AgentTimesOut
<1>4. r \in Run /\ r.awaited /\ r.review = Message(c).review
      /\ r.revision = Message(c).revision /\ r.review \in Reviews
  BY <1>2, NewRunTyped DEF NewRun, Event, RunSteps, Updates
<1>5. old \in Threads /\ run[old] \in Run
  BY <1>1 DEF TypeOK, ThreadsAreHeld
<1>6. left \in Run /\ left.step = run[old].step /\ left.review = run[old].review
      /\ left.revision = run[old].revision
  BY <1>5 DEF Run
<1> HIDE DEF r, left
<1>7. run' \in [Threads -> Run]
  BY <1>3, <1>4, <1>5, <1>6 DEF TypeOK
<1>8. \A u \in Threads : run'[u] = IF u = t THEN r ELSE IF u = old THEN left ELSE run[u]
  BY <1>3, <1>5 DEF TypeOK
<1>9. RunsHaveReviews'
  BY <1>1, <1>2, <1>4, <1>5, <1>6, <1>8 DEF RunsHaveReviews, TypeOK
<1>10. ThreadsAreHeld'
  <2>1. t # NoThread => run'[t].awaited /\ (run[t] = NoRun \/ thread[c] = t)
    BY <1>3, <1>4, <1>8
  <2>2. \A u \in Threads : u # t /\ u # thread[c] => run'[u] = run[u]
    BY <1>8
  <2>3. \A d \in Consumers : d # c => step'[d] = step[d]
    BY <1>1 DEF TypeOK
  <2>4. thread' = [thread EXCEPT ![c] = t] /\ t # NoThread
    BY <1>3, NoneIsFree
  <2>5. QED
    BY <2>1, <2>2, <2>3, <2>4, ThreadTaken
<1>11. thread' \in [Consumers -> Threads \cup {NoThread}]
  BY <1>3 DEF TypeOK
<1>12. step' \in [Consumers -> ConsumerSteps]
  BY <1>1 DEF TypeOK, ConsumerSteps, Holding
<1>13. QED
  BY <1>7, <1>9, <1>10, <1>11, <1>12

\* Steps of a consumer that leave runs and threads as they are.
LEMMA NoRunShape ==
    ASSUME ShapeInv, NEW c \in Consumers, UNCHANGED <<ticket, run, thread>>,
           NEW s \in ConsumerSteps, To(c, s),
           s \in {"await", "handOff", "fallback", "commit"} =>
               step[c] \in {"await", "handOff", "fallback", "commit"}
    PROVE  /\ run' \in [Threads -> Run] /\ RunsHaveReviews' /\ ThreadsAreHeld'
           /\ thread' \in [Consumers -> Threads \cup {NoThread}]
           /\ step' \in [Consumers -> ConsumerSteps]
BY DEF ShapeInv, TypeOK, RunsHaveReviews, ThreadsAreHeld, To

\* Starting, awaiting and ending runs keeps the shape.
LEMMA BusyShape == ShapeInv /\ BusyStep => ShapeInv'
<1> SUFFICES ASSUME ShapeInv, BusyStep PROVE ShapeInv'
  OBVIOUS
<1> USE DEF ShapeInv
<1>1. PICK c \in Consumers :
          \/ StartAgent(c) \/ Finalize(c) \/ AgentTimesOut(c) \/ FallbackReturns(c)
          \/ Commit(c) \/ CommitFails(c) \/ Crash(c)
  BY DEF BusyStep
<1>2. UNCHANGED <<ticket, log, dlq, position>> /\ step[c] # "down"
  BY <1>1, BusyFrame
<1> DEFINE Goal == /\ run' \in [Threads -> Run] /\ RunsHaveReviews' /\ ThreadsAreHeld'
                   /\ thread' \in [Consumers -> Threads \cup {NoThread}]
                   /\ step' \in [Consumers -> ConsumerSteps]
                   /\ checkpoint' \in [Reviews -> Checkpoint] /\ ContextsExist'
                   /\ \A d \in Consumers : step'[d] \notin {"poll", "down"} =>
                                               step[d] \notin {"poll", "down"}
<1> DEFINE Kept == checkpoint' \in [Reviews -> Checkpoint] /\ ContextsExist'
<1>16. ASSUME checkpoint' = checkpoint PROVE Kept
  BY <1>2, <1>16 DEF TypeOK, ContextsExist
<1>3. ASSUME NEW s \in ConsumerSteps, To(c, s),
             s \notin {"poll", "down"} => step[c] \notin {"poll", "down"}
      PROVE  /\ step' \in [Consumers -> ConsumerSteps]
             /\ \A d \in Consumers : d # c => step'[d] = step[d]
             /\ \A d \in Consumers : step'[d] \notin {"poll", "down"} =>
                                         step[d] \notin {"poll", "down"}
  BY <1>3 DEF To, TypeOK
<1>4. ASSUME StartAgent(c) PROVE Goal
  <2>1. To(c, "await") /\ step[c] = "start" /\ "await" \in ConsumerSteps
    BY <1>4 DEF StartAgent, ConsumerSteps, Holding
  <2>2. QED
    BY <1>3, <1>4, <2>1, StartShape
<1>5. ASSUME Finalize(c) PROVE Goal
  <2>1. step[c] = "await" /\ checkpoint' = checkpoint
    BY <1>5 DEF Finalize, Awaits
  <2>2. \/ To(c, "commit") /\ UNCHANGED <<run, thread>>
        \/ FallBack(c, thread[c], "handOff")
        \/ FallBack(c, thread[c], "fallback")
    BY <1>5 DEF Finalize
  <2>3. CASE To(c, "commit") /\ UNCHANGED <<run, thread>>
    BY <1>2, <1>3, <1>16, <2>1, <2>3, NoRunShape DEF TypeOK, ConsumerSteps, Holding
  <2>4. ASSUME NEW s \in {"handOff", "fallback"}, FallBack(c, thread[c], s) PROVE Goal
    <3>1. To(c, s) /\ s \in ConsumerSteps
      BY <2>4 DEF FallBack, ConsumerSteps, Holding
    <3>2. QED
      BY <1>2, <1>3, <1>16, <2>1, <2>4, <3>1, FallBackShape DEF TypeOK
  <2>5. QED
    BY <2>2, <2>3, <2>4
<1>6. ASSUME AgentTimesOut(c) PROVE Goal
  <2>1. To(c, "fallback") /\ step[c] = "await" /\ checkpoint' = checkpoint
        /\ "fallback" \in ConsumerSteps
    BY <1>6 DEF AgentTimesOut, ConsumerSteps, Holding
  <2>2. QED
    BY <1>3, <1>6, <1>16, <2>1, TimeOutShape DEF TypeOK
<1>7. ASSUME FallbackReturns(c) PROVE Goal
  <2>1. step[c] \in {"handOff", "fallback"} /\ checkpoint' = checkpoint
    BY <1>7 DEF FallbackReturns, Awaits
  <2>2. \/ /\ \E s \in {"commit", "commitManual", "dlq"} : To(c, s)
           /\ UNCHANGED <<run, thread>>
        \/ FallBack(c, thread[c], "fallback")
    BY <1>7 DEF FallbackReturns
  <2>3. ASSUME NEW s \in {"commit", "commitManual", "dlq"}, To(c, s), UNCHANGED <<run, thread>>
        PROVE  Goal
    <3>1. s \in ConsumerSteps
      BY DEF ConsumerSteps, Holding
    <3>2. QED
      BY <1>2, <1>3, <1>16, <2>1, <2>3, <3>1, NoRunShape DEF TypeOK
  <2>4. CASE FallBack(c, thread[c], "fallback")
    <3>1. To(c, "fallback") /\ "fallback" \in ConsumerSteps
      BY <2>4 DEF FallBack, ConsumerSteps, Holding
    <3>2. QED
      BY <1>2, <1>3, <1>16, <2>1, <2>4, <3>1, FallBackShape DEF TypeOK
  <2>5. QED
    BY <2>2, <2>3, <2>4
<1>8. ASSUME checkpoint' = checkpoint,
             (EndIteration(c) /\ To(c, "poll")) \/ EndProcess(c)
      PROVE  Goal
  <2>1. PICK s \in {"poll", "down"} : To(c, s)
    BY <1>8 DEF EndProcess
  <2>2. s \in ConsumerSteps /\ step'[c] = s
    BY <2>1 DEF ConsumerSteps, To, TypeOK
  <2>3. QED
    BY <1>2, <1>3, <1>8, <1>16, <2>1, <2>2, RunGivenUp DEF TypeOK
<1>9. ASSUME Commit(c) PROVE Goal
  BY <1>8, <1>9 DEF Commit
<1>10. ASSUME CommitFails(c) PROVE Goal
  <2>1. checkpoint' = checkpoint
    BY <1>10 DEF CommitFails
  <2>2. \/ step[c] = "commit" /\ FallBack(c, thread[c], "fallback")
        \/ step[c] = "commitManual" /\ To(c, "dlq") /\ UNCHANGED <<run, thread>>
        \/ EndProcess(c)
    BY <1>10 DEF CommitFails
  <2>3. CASE step[c] = "commit" /\ FallBack(c, thread[c], "fallback")
    <3>1. To(c, "fallback") /\ "fallback" \in ConsumerSteps
      BY <2>3 DEF FallBack, ConsumerSteps, Holding
    <3>2. QED
      BY <1>2, <1>3, <1>16, <2>1, <2>3, <3>1, FallBackShape DEF TypeOK
  <2>4. CASE step[c] = "commitManual" /\ To(c, "dlq") /\ UNCHANGED <<run, thread>>
    <3>1. "dlq" \in ConsumerSteps
      BY DEF ConsumerSteps, Holding
    <3>2. QED
      BY <1>2, <1>3, <1>16, <2>1, <2>4, <3>1, NoRunShape DEF TypeOK
  <2>5. CASE EndProcess(c)
    BY <1>8, <2>1, <2>5
  <2>6. QED
    BY <2>2, <2>3, <2>4, <2>5
<1>11. ASSUME Crash(c) PROVE Goal
  BY <1>8, <1>11 DEF Crash
<1>12. Goal
  BY <1>1, <1>4, <1>5, <1>6, <1>7, <1>9, <1>10, <1>11
<1>13. TypeOK'
  BY <1>2, <1>12, BusyFaults, BusyMarker DEF TypeOK
<1>14. LogIsSound'
  <2>1. committed' <= Len(log)
    BY BusyMarker DEF LogIsSound, TypeOK
  <2>2. QED
    BY <1>2, <1>12, <2>1 DEF LogIsSound
<1>15. QED
  BY <1>12, <1>13, <1>14

----------------------------------------------------------------------------
(* Steps of the runs and of the tickets.                                    *)

\* No step takes a verdict, a revision or a prompt back.
TicketsGrow ==
    \A rv \in Reviews :
        /\ ticket[rv].revision <= ticket'[rv].revision
        /\ ticket[rv].state # "open" => ticket'[rv].state # "open"
        /\ ticket[rv].prompts \subseteq ticket'[rv].prompts

\* A run that goes on to step s keeps its review and its revision.
LEMMA GotoMoves ==
    ASSUME TypeOK, NEW t \in Threads, NEW s \in RunSteps, Goto(t, s)
    PROVE  /\ run' \in [Threads -> Run]
           /\ \A u \in Threads : u # t => run'[u] = run[u]
           /\ run'[t].step = s /\ run'[t].awaited = run[t].awaited
           /\ run'[t].kind = run[t].kind
           /\ run'[t].review = run[t].review /\ run'[t].revision = run[t].revision
<1> DEFINE r == [run[t] EXCEPT !.step = s]
<1>1. run' = [run EXCEPT ![t] = r] /\ run[t] \in Run
  BY DEF Goto, TypeOK
<1>2. r \in Run /\ r.step = s /\ r.awaited = run[t].awaited /\ r.kind = run[t].kind
      /\ r.review = run[t].review /\ r.revision = run[t].revision
  BY <1>1 DEF Run
<1> HIDE DEF r
<1>3. QED
  BY <1>1, <1>2 DEF TypeOK

\* A run that ends hands its reply to the consumer that awaits it, if one does.
LEMMA ReturnMoves ==
    ASSUME TypeOK, NEW t \in Threads, NEW reply \in Replies, Return(t, reply)
    PROVE  /\ run' \in [Threads -> Run]
           /\ \A u \in Threads : u # t => run'[u] = run[u]
           /\ run[t].awaited => /\ run'[t].step = "done" /\ run'[t].awaited
                                /\ run'[t].kind = run[t].kind
                                /\ run'[t].review = run[t].review
                                /\ run'[t].revision = run[t].revision
                                /\ run'[t].reply = reply
           /\ ~run[t].awaited => run'[t].step = "idle"
<1> DEFINE r == [run[t] EXCEPT !.step = "done", !.reply = reply]
<1>1. run' = [run EXCEPT ![t] = IF run[t].awaited THEN r ELSE NoRun] /\ run[t] \in Run
  BY DEF Return, TypeOK
<1>2. r \in Run /\ r.step = "done" /\ r.awaited = run[t].awaited /\ r.kind = run[t].kind
      /\ r.review = run[t].review /\ r.revision = run[t].revision /\ r.reply = reply
  BY <1>1 DEF Run, RunSteps
<1> HIDE DEF r
<1>3. QED
  BY <1>1, <1>2, NoRunTyped DEF TypeOK

\* What a run saves goes to its own review, and only an agent's run saves.
LEMMA SaveMoves ==
    ASSUME TypeOK, NEW t \in Threads, NEW saved \in Checkpoint, Save(t, saved),
           run[t].review \in Reviews
    PROVE  /\ checkpoint' \in [Reviews -> Checkpoint]
           /\ \A rv \in Reviews : rv # run[t].review => checkpoint'[rv] = checkpoint[rv]
           /\ run[t].kind = "fallback" => checkpoint' = checkpoint
           /\ run[t].kind # "fallback" => checkpoint'[run[t].review] = saved
BY DEF Save, TypeOK

\* A run that has done a node comes to the next, and its graph with it.
LEMMA GoOnMoves ==
    ASSUME TypeOK, NEW t \in Threads, NEW node \in {"load", "review", "manual"},
           NEW revision \in Revisions, GoOn(t, node, revision), run[t].review \in Reviews
    PROVE  /\ run' \in [Threads -> Run]
           /\ \A u \in Threads : u # t => run'[u] = run[u]
           /\ run'[t].step = node /\ run'[t].awaited = run[t].awaited
           /\ run'[t].kind = run[t].kind
           /\ run'[t].review = run[t].review /\ run'[t].revision = revision
           /\ Reached(node, revision) \in Checkpoint
           /\ Save(t, Reached(node, revision))
<1> DEFINE r == [run[t] EXCEPT !.step = node, !.revision = revision]
<1>1. run[t] \in Run /\ Save(t, Reached(node, revision))
  BY DEF GoOn, TypeOK
<1>2. run' = [run EXCEPT ![t] = r]
  BY <1>1 DEF GoOn, TypeOK, Run
<1>3. r \in Run /\ r.step = node /\ r.awaited = run[t].awaited /\ r.kind = run[t].kind
      /\ r.review = run[t].review /\ r.revision = revision
  BY <1>1 DEF Run, RunSteps
<1> HIDE DEF r
<1>4. Reached(node, revision) \in Checkpoint
  BY DEF Reached, Checkpoint, Replies
<1>5. QED
  BY <1>1, <1>2, <1>3, <1>4 DEF TypeOK

\* A finished run leaves its reply in the checkpoint of its own review.
LEMMA FinishMoves ==
    ASSUME TypeOK, NEW t \in Threads, NEW reply \in Replies, Finish(t, reply),
           run[t].review \in Reviews
    PROVE  /\ Return(t, reply)
           /\ \E saved \in Checkpoint :
                 /\ Save(t, saved)
                 /\ saved.revision = run[t].revision
                 /\ saved.at \in {"interrupted", "ended"}
                 /\ saved.at = "ended" => saved.reply = reply /\ reply \notin Paused
<1> DEFINE saved == [at |-> IF reply \in Paused THEN "interrupted" ELSE "ended",
                     revision |-> run[t].revision, reply |-> reply]
<1>1. Return(t, reply) /\ Save(t, saved)
  BY DEF Finish
<1>2. run[t].revision \in Revisions
  BY DEF TypeOK, Run
<1>3. /\ saved \in Checkpoint /\ saved.revision = run[t].revision
      /\ saved.at \in {"interrupted", "ended"}
      /\ saved.at = "ended" => saved.reply = reply /\ reply \notin Paused
  BY <1>2 DEF Checkpoint
<1> HIDE DEF saved
<1>4. QED
  BY <1>1, <1>3

\* A verdict is put on an open ticket; it takes nothing back.
LEMMA ReviewedGrows ==
    ASSUME TypeOK, NEW t \in Threads, run[t].review \in Reviews, ticket' = Reviewed(t)
    PROVE  /\ ticket' \in [Reviews -> Ticket] /\ TicketsGrow
           /\ \A rv \in Reviews : ticket'[rv].revision = ticket[rv].revision
           /\ ticket'[run[t].review].state = "reviewed"
<1> DEFINE rv == run[t].review
           row == [ticket[rv] EXCEPT !.state = "reviewed"]
<1>1. ticket' = [ticket EXCEPT ![rv] = row] /\ ticket[rv] \in Ticket
  BY DEF Reviewed, TypeOK
<1>2. row \in Ticket /\ row.state = "reviewed" /\ row.revision = ticket[rv].revision
      /\ row.prompts = ticket[rv].prompts
  BY <1>1 DEF Ticket
<1> HIDE DEF row
<1>3. \A x \in Reviews : ticket[x].revision \in Nat
  BY BoundsAreNat DEF TypeOK, Ticket, Revisions
<1>4. QED
  BY <1>1, <1>2, <1>3 DEF TypeOK, TicketsGrow

\* A prompt for evidence is recorded for the revision of the run.
LEMMA PromptedGrows ==
    ASSUME TypeOK, NEW t \in Threads, run[t].review \in Reviews,
           ticket' = [ticket EXCEPT ![run[t].review].prompts = @ \cup {run[t].revision}]
    PROVE  /\ ticket' \in [Reviews -> Ticket] /\ TicketsGrow
           /\ \A rv \in Reviews : ticket'[rv].revision = ticket[rv].revision
           /\ \A rv \in Reviews : ticket'[rv].state = ticket[rv].state
           /\ run[t].revision \in ticket'[run[t].review].prompts
<1> DEFINE rv == run[t].review
           row == [ticket[rv] EXCEPT !.prompts = ticket[rv].prompts \cup {run[t].revision}]
<1>1. /\ ticket' = [ticket EXCEPT ![rv] = row]
      /\ ticket[rv] \in Ticket /\ run[t].revision \in Revisions
  BY DEF TypeOK, Run
<1>2. row \in Ticket /\ row.state = ticket[rv].state /\ row.revision = ticket[rv].revision
      /\ row.prompts = ticket[rv].prompts \cup {run[t].revision}
  BY <1>1 DEF Ticket
<1> HIDE DEF row
<1>3. \A x \in Reviews : ticket[x].revision \in Nat
  BY BoundsAreNat DEF TypeOK, Ticket, Revisions
<1>4. QED
  BY <1>1, <1>2, <1>3 DEF TypeOK, TicketsGrow

\* The run is over, or went on to step s of the same review.
RunMoved(t) ==
    /\ run' \in [Threads -> Run]
    /\ \A u \in Threads : u # t => run'[u] = run[u]
    /\ run[t].awaited => run'[t].awaited /\ run'[t].step # "idle"
    /\ run'[t].step # "idle" => /\ run'[t].kind = run[t].kind
                                /\ run'[t].review = run[t].review
                                /\ run'[t].revision <= ticket[run[t].review].revision

\* What a run does to its graph.
GraphMoved(t) ==
    /\ checkpoint' \in [Reviews -> Checkpoint]
    /\ \A rv \in Reviews : rv # run[t].review => checkpoint'[rv] = checkpoint[rv]
    /\ run[t].kind = "fallback" => checkpoint' = checkpoint
    /\ \/ checkpoint'[run[t].review] = checkpoint[run[t].review]
       \/ checkpoint'[run[t].review].revision <= ticket[run[t].review].revision

\* What a step of a run, or a fault in it, does to the tickets and the threads.
LEMMA RunEffect ==
    ASSUME ShapeInv, NEW t \in Threads, RunStep(t) \/ RunFault(t)
    PROVE  /\ run[t].review \in Reviews /\ run[t].step \notin {"idle", "done"}
           /\ ticket' \in [Reviews -> Ticket] /\ TicketsGrow
           /\ \A rv \in Reviews : ticket'[rv].revision = ticket[rv].revision
           /\ GraphMoved(t)
           /\ faults' \in Nat
           /\ RunMoved(t)
<1> USE DEF ShapeInv
<1> DEFINE rv == run[t].review
<1>1. run[t].step \in Working \cup {"load"}
  BY DEF RunStep, RunFault, LoadContext, RequestEvidence, Submit, Update, LoadFails,
         CallFails, RequestFails, RunRaises, Working
<1>2. rv \in Reviews /\ run[t].step \notin {"idle", "done"}
      /\ run[t].revision <= ticket[rv].revision /\ run[t].revision \in Revisions
  BY <1>1 DEF RunsHaveReviews, Working, Updates, TypeOK, Run
<1>3. faults' \in Nat
  BY DEF RunStep, RunFault, LoadContext, RequestEvidence, Submit, Update, LoadFails,
         CallFails, RequestFails, RunRaises, Fault, TypeOK
<1>4. \A x \in Reviews : /\ ticket[x] \in Ticket /\ ticket[x].revision \in Revisions
                         /\ ticket[x].revision \in Nat
  BY BoundsAreNat DEF TypeOK, Ticket, Revisions
<1> DEFINE Tickets == /\ ticket' \in [Reviews -> Ticket] /\ TicketsGrow
                      /\ \A x \in Reviews : ticket'[x].revision = ticket[x].revision
<1>5. ASSUME ticket' = ticket PROVE Tickets
  BY <1>4, <1>5 DEF TypeOK, TicketsGrow
<1>6. ASSUME checkpoint' = checkpoint PROVE GraphMoved(t)
  BY <1>6 DEF GraphMoved, TypeOK
<1>7. ASSUME NEW saved \in Checkpoint, Save(t, saved), saved.revision <= ticket[rv].revision
      PROVE  GraphMoved(t)
  BY <1>2, <1>7, SaveMoves DEF GraphMoved
<1>8. ASSUME NEW s \in RunSteps, Goto(t, s), s # "idle", checkpoint' = checkpoint
      PROVE  RunMoved(t) /\ GraphMoved(t)
  BY <1>2, <1>6, <1>8, GotoMoves DEF RunMoved
<1>9. ASSUME NEW node \in {"load", "review", "manual"}, NEW revision \in Revisions,
             revision <= ticket[rv].revision, GoOn(t, node, revision)
      PROVE  RunMoved(t) /\ GraphMoved(t)
  <2>1. Reached(node, revision).revision = revision
    BY DEF Reached
  <2>2. GraphMoved(t)
    BY <1>2, <1>7, <1>9, <2>1, GoOnMoves
  <2>3. RunMoved(t)
    BY <1>2, <1>9, GoOnMoves DEF RunMoved
  <2>4. QED
    BY <2>2, <2>3
<1>10. ASSUME NEW reply \in Replies, Return(t, reply) PROVE RunMoved(t)
  BY <1>2, <1>10, ReturnMoves DEF RunMoved
<1>11. ASSUME NEW reply \in Replies, Finish(t, reply)
       PROVE  RunMoved(t) /\ GraphMoved(t)
  <2>1. PICK saved \in Checkpoint : Save(t, saved) /\ saved.revision = run[t].revision
    BY <1>2, <1>11, FinishMoves
  <2>2. Return(t, reply)
    BY <1>2, <1>11, FinishMoves
  <2>3. QED
    BY <1>2, <1>7, <1>10, <2>1, <2>2
<1> DEFINE Goal == Tickets /\ GraphMoved(t) /\ RunMoved(t)
<1>12. 0 \in Revisions /\ 0 <= ticket[rv].revision
  BY <1>2, <1>4, BoundsAreNat DEF Revisions
<1> HIDE DEF Tickets, Goal, rv
<1>13. ASSUME LoadContext(t) \/ LoadFails(t) PROVE Goal
  <2>1. PICK node \in {"review", "manual"}, revision \in {run[t].revision, ticket[rv].revision} :
            GoOn(t, node, revision)
    BY <1>13 DEF LoadContext, LoadFails, rv
  <2>2. revision \in Revisions /\ revision <= ticket[rv].revision
    BY <1>2, <1>4
  <2>3. ticket' = ticket
    BY <1>13 DEF LoadContext, LoadFails
  <2>4. QED
    BY <1>5, <1>9, <2>1, <2>2, <2>3 DEF Goal
<1>14. ASSUME RequestEvidence(t) \/ RequestFails(t) PROVE Goal
  <2>1. \/ ticket' = ticket
        \/ ticket' = [ticket EXCEPT ![rv].prompts = @ \cup {run[t].revision}]
    BY <1>14 DEF RequestEvidence, RequestFails, rv
  <2>2. Tickets
    BY <1>2, <1>5, <2>1, PromptedGrows DEF Tickets, rv
  <2>3. \/ GoOn(t, "load", 0)
        \/ GoOn(t, "manual", run[t].revision)
        \/ Finish(t, "PROMPTED")
    BY <1>14 DEF RequestEvidence, RequestFails
  <2>4. "PROMPTED" \in Replies
    BY DEF Replies, Paused
  <2>5. QED
    BY <1>2, <1>9, <1>11, <1>12, <2>2, <2>3, <2>4 DEF Goal
<1>15. ASSUME NEW update \in Updates, Submit(t, update) PROVE Goal
  <2> DEFINE reply == EarlyReply(ticket[run[t].review], run[t].revision)
  <2>1. ticket' = ticket /\ update \in RunSteps /\ update # "idle"
    BY <1>15 DEF Submit, RunSteps, Updates
  <2>2. reply \in Replies
    BY <1>2 DEF EarlyReply, Replies, Paused, Ended, rv
  <2>3. Finish(t, reply) \/ (Goto(t, update) /\ checkpoint' = checkpoint)
    BY <1>15 DEF Submit
  <2> HIDE DEF reply
  <2>4. QED
    BY <1>5, <1>8, <1>11, <2>1, <2>2, <2>3 DEF Goal
<1>16. ASSUME Update(t) PROVE Goal
  <2>1. ticket' = ticket \/ ticket' = Reviewed(t)
    BY <1>16 DEF Update
  <2>2. Tickets
    BY <1>2, <1>5, <2>1, ReviewedGrows DEF Tickets, rv
  <2>3. PICK reply \in {"APPLIED", "STALE_REVIEW"} : Finish(t, reply)
    BY <1>16 DEF Update
  <2>4. reply \in Replies
    BY DEF Replies, Ended
  <2>5. QED
    BY <1>11, <2>2, <2>3, <2>4 DEF Goal
<1>17. ASSUME CallFails(t) PROVE Goal
  <2>1. ticket' = ticket \/ ticket' = Reviewed(t)
    BY <1>17 DEF CallFails
  <2>2. Tickets
    BY <1>2, <1>5, <2>1, ReviewedGrows DEF Tickets, rv
  <2>3. Finish(t, "ERROR") \/ (Goto(t, "manual") /\ checkpoint' = checkpoint)
    BY <1>17 DEF CallFails
  <2>4. "ERROR" \in Replies /\ "manual" \in RunSteps
    BY DEF Replies, Ended, RunSteps
  <2>5. QED
    BY <1>8, <1>11, <2>2, <2>3, <2>4 DEF Goal
<1>18. ASSUME RunRaises(t) PROVE Goal
  <2>1. Return(t, "RAISED") /\ ticket' = ticket /\ checkpoint' = checkpoint
    BY <1>18 DEF RunRaises
  <2>2. "RAISED" \in Replies
    BY DEF Replies
  <2>3. QED
    BY <1>5, <1>6, <1>10, <2>1, <2>2 DEF Goal
<1>19. Goal
  BY <1>13, <1>14, <1>15, <1>16, <1>17, <1>18 DEF RunStep, RunFault
<1>20. QED
  BY <1>2, <1>3, <1>19 DEF Goal, Tickets, rv

\* What the user and the merchant do to a ticket.
LEMMA TicketEffect ==
    ASSUME TypeOK, NEW rv \in Reviews, AcceptSupplement(rv) \/ StaffDecides(rv)
    PROVE  /\ ticket' \in [Reviews -> Ticket] /\ TicketsGrow
           /\ \A x \in Reviews : x # rv => ticket'[x] = ticket[x]
           /\ AcceptSupplement(rv) => ticket[rv].state = "open"
           /\ StaffDecides(rv) => /\ ticket'[rv].state # "open"
                                 /\ ticket'[rv].revision = ticket[rv].revision
           /\ UNCHANGED <<checkpoint, run, faults>>
<1> DEFINE next == [ticket[rv] EXCEPT !.revision = ticket[rv].revision + 1]
           staff == [ticket[rv] EXCEPT !.state = "staff"]
<1>1. \A x \in Reviews : ticket[x] \in Ticket /\ ticket[x].revision \in Nat
  BY BoundsAreNat DEF TypeOK, Ticket, Revisions
<1>2. UNCHANGED <<checkpoint, run, faults>> /\ ticket[rv].state = "open"
  BY DEF AcceptSupplement, StaffDecides
<1>3. CASE AcceptSupplement(rv)
  <2>1. ticket' = [ticket EXCEPT ![rv] = next] /\ ticket[rv].revision < MaxRevision
    BY <1>3 DEF AcceptSupplement
  <2>2. ticket[rv].revision + 1 \in Revisions
    BY <1>1, <2>1, BoundsAreNat DEF Revisions
  <2>3. next \in Ticket /\ next.state = "open" /\ next.prompts = ticket[rv].prompts
        /\ next.revision = ticket[rv].revision + 1
    BY <1>1, <1>2, <2>2 DEF Ticket
  <2> HIDE DEF next
  <2>4. ~StaffDecides(rv)
    <3>1. ticket'[rv].state = "open"
      BY <2>1, <2>3 DEF TypeOK
    <3>2. StaffDecides(rv) => ticket'[rv].state = "staff"
      <4>1. StaffDecides(rv) => ticket' = [ticket EXCEPT ![rv] = staff]
        BY DEF StaffDecides
      <4>2. staff.state = "staff"
        BY <1>1 DEF Ticket
      <4> HIDE DEF staff
      <4>3. QED
        BY <4>1, <4>2 DEF TypeOK
    <3>3. QED
      BY <3>1, <3>2
  <2>5. QED
    BY <1>1, <1>2, <2>1, <2>3, <2>4 DEF TypeOK, TicketsGrow
<1>4. CASE StaffDecides(rv)
  <2>1. ticket' = [ticket EXCEPT ![rv] = staff]
    BY <1>4 DEF StaffDecides
  <2>2. staff \in Ticket /\ staff.state = "staff" /\ staff.prompts = ticket[rv].prompts
        /\ staff.revision = ticket[rv].revision
    BY <1>1 DEF Ticket
  <2> HIDE DEF staff
  <2>3. QED
    BY <1>1, <1>2, <2>1, <2>2 DEF TypeOK, TicketsGrow
<1>5. QED
  BY <1>3, <1>4

\* Steps outside the consumers leave what they hold as it is.
LEMMA TicketOrRunShape ==
    ASSUME ShapeInv, KeepConsumers, TicketsGrow, ticket' \in [Reviews -> Ticket],
           checkpoint' \in [Reviews -> Checkpoint], run' \in [Threads -> Run], faults' \in Nat,
           RunsHaveReviews', ContextsExist',
           \A t \in Threads : run[t].awaited => run'[t].awaited
    PROVE  ShapeInv'
<1> USE DEF ShapeInv, KeepConsumers, consumerVars
<1>1. TypeOK'
  BY DEF TypeOK
<1>2. ThreadsAreHeld'
  BY DEF ThreadsAreHeld, TypeOK
<1>3. \A i \in 1 .. Len(log) : log[i].revision <= ticket'[log[i].review].revision
  <2> TAKE i \in 1 .. Len(log)
  <2>1. log[i] \in Event /\ log[i].review \in Reviews /\ log[i].revision \in Nat
    <3>1. log[i] \in Event
      BY DEF TypeOK
    <3>2. QED
      BY <3>1, BoundsAreNat DEF Event, Revisions
  <2>2. ticket[log[i].review].revision \in Nat /\ ticket'[log[i].review].revision \in Nat
    BY <2>1, BoundsAreNat DEF TypeOK, Ticket, Revisions
  <2>3. log[i].revision <= ticket[log[i].review].revision
    BY DEF LogIsSound
  <2>4. ticket[log[i].review].revision <= ticket'[log[i].review].revision
    BY <2>1 DEF TicketsGrow
  <2>5. QED
    BY <2>1, <2>2, <2>3, <2>4
<1>4. LogIsSound'
  BY <1>3 DEF LogIsSound
<1>5. QED
  BY <1>1, <1>2, <1>4

\* Every step keeps the shape.
LEMMA StepShape == ShapeInv /\ [Next]_vars => ShapeInv'
<1> SUFFICES ASSUME ShapeInv, [Next]_vars PROVE ShapeInv'
  OBVIOUS
<1>1. CASE QuietStep
  BY <1>1, QuietShape
<1>2. CASE BusyStep
  BY <1>2, BusyShape
<1>3. ASSUME NEW rv \in Reviews, TicketNext(rv) PROVE ShapeInv'
  <2>1. (AcceptSupplement(rv) \/ StaffDecides(rv)) /\ KeepConsumers
    BY <1>3 DEF TicketNext
  <2>2. /\ ticket' \in [Reviews -> Ticket] /\ TicketsGrow
        /\ UNCHANGED <<checkpoint, run, faults>>
    BY <2>1, TicketEffect DEF ShapeInv
  <2>3. \A x \in Reviews : ticket[x].revision \in Nat /\ ticket'[x].revision \in Nat
    BY <2>2, BoundsAreNat DEF ShapeInv, TypeOK, Ticket, Revisions
  <2>4. RunsHaveReviews'
    <3> SUFFICES ASSUME NEW t \in Threads, run[t].step # "idle"
                 PROVE  /\ run[t].review \in Reviews
                        /\ run[t].revision <= ticket'[run[t].review].revision
      BY <2>2 DEF RunsHaveReviews
    <3>1. run[t].revision \in Nat
      BY BoundsAreNat DEF ShapeInv, TypeOK, Run, Revisions
    <3>2. QED
      BY <2>2, <2>3, <3>1 DEF ShapeInv, RunsHaveReviews, TicketsGrow
  <2>5. ContextsExist'
    <3>1. \A x \in Reviews : checkpoint[x].revision \in Nat
      BY BoundsAreNat DEF ShapeInv, TypeOK, Checkpoint, Revisions
    <3>2. QED
      BY <2>2, <2>3, <3>1 DEF ShapeInv, ContextsExist, TicketsGrow
  <2>6. QED
    BY <2>1, <2>2, <2>4, <2>5, TicketOrRunShape DEF ShapeInv, TypeOK
<1>4. ASSUME NEW t \in Threads, RunNext(t) PROVE ShapeInv'
  <2>1. (RunStep(t) \/ RunFault(t)) /\ KeepConsumers
    BY <1>4 DEF RunNext
  <2>2. /\ run[t].review \in Reviews
        /\ ticket' \in [Reviews -> Ticket] /\ TicketsGrow
        /\ \A rv \in Reviews : ticket'[rv].revision = ticket[rv].revision
        /\ GraphMoved(t) /\ faults' \in Nat
        /\ RunMoved(t)
    BY <2>1, RunEffect
  <2>3. RunsHaveReviews'
    <3> SUFFICES ASSUME NEW u \in Threads, run'[u].step # "idle"
                 PROVE  /\ run'[u].review \in Reviews
                        /\ run'[u].revision <= ticket'[run'[u].review].revision
      BY DEF RunsHaveReviews
    <3>1. CASE u # t
      <4>1. run'[u] = run[u]
        BY <2>2, <3>1 DEF RunMoved
      <4>2. QED
        BY <2>2, <4>1 DEF ShapeInv, RunsHaveReviews
    <3>2. CASE u = t
      BY <2>2, <3>2 DEF RunMoved
    <3>3. QED
      BY <3>1, <3>2
  <2>4. run' \in [Threads -> Run] /\ \A u \in Threads : run[u].awaited => run'[u].awaited
    BY <2>2 DEF RunMoved
  <2>5. checkpoint' \in [Reviews -> Checkpoint] /\ ContextsExist'
    <3>1. \A rv \in Reviews : checkpoint'[rv].revision <= ticket[rv].revision
      BY <2>2 DEF GraphMoved, ShapeInv, ContextsExist
    <3>2. QED
      BY <2>2, <3>1 DEF GraphMoved, ContextsExist
  <2>6. QED
    BY <2>1, <2>2, <2>3, <2>4, <2>5, TicketOrRunShape
<1>5. CASE UNCHANGED vars
  BY <1>5 DEF vars, runVars, consumerVars, ShapeInv, TypeOK, RunsHaveReviews, ContextsExist,
              LogIsSound, ThreadsAreHeld
<1>6. QED
  BY <1>1, <1>2, <1>3, <1>4, <1>5 DEF Next, ConsumerNext, ConsumerStep, QuietStep, BusyStep

\* Threads are never shared, positions never pass the end of the partition, and
\* the revisions of runs and events exist, whatever fails.
THEOREM ShapeIsKept == Spec => []ShapeInv
BY InitShape, StepShape, PTL DEF Spec

\* Every variable keeps its vocabulary, for any consumers, threads, tickets and
\* faults.
THEOREM ConsumerTypeCorrect == Spec => []TypeOK
<1>1. ShapeInv => TypeOK
  BY DEF ShapeInv
<1>2. QED
  BY <1>1, ShapeIsKept, PTL

=============================================================================
