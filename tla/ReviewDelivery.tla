--------------------------- MODULE ReviewDelivery ---------------------------
(***************************************************************************)
(* Where the events of ReviewConsumer come from and where the dead ones    *)
(* go: the outbox rows of Java with the job that publishes them            *)
(* (AfterSalesReviewEventServiceImpl), and the Java consumer of the        *)
(* dead-letter topic (AfterSalesReviewDlqConsumer).                        *)
(*                                                                         *)
(* The row of an event is inserted in the transaction that creates the     *)
(* event's revision of the ticket, so that it exists from then on.  The    *)
(* job is a single scheduled thread: it reads the rows that are due and    *)
(* works through them one by one, without a transaction around them.  That *)
(* a batch has a largest size is left out.                                 *)
(***************************************************************************)
EXTENDS ReviewConsumer, SequencesExt

CONSTANTS MaxRetries,    \* app.after-sales.review-events.max-retries
          MaxDeliveries  \* of a dead letter: 10, the default of Spring's error handler

ASSUME RetriesAreCounted == MaxRetries \in Nat /\ MaxDeliveries \in Nat \ {0}

\* A table holds finitely many rows.
ASSUME ReviewsAreFinite == IsFiniteSet(Reviews)

VARIABLES
    outbox,     \* Event -> its row
    batch,      \* the rows the job has read and not yet done, oldest first
    publisher,  \* where the job is with the first row of its batch
    recovered,  \* dead-lettered events Java has consumed
    failures    \* Event -> failed deliveries of its dead letter

deliveryVars == <<outbox, batch, publisher, recovered, failures>>
letters == <<recovered, failures>>
allVars == <<vars, deliveryVars>>

\* due: next_retry_time has passed.  Only a dead row has more retries than allowed.
Row == [status : {"NEW", "FAILED", "PUBLISHED"}, retries : 0 .. MaxRetries, due : BOOLEAN]
           \cup [status : {"DEAD"}, retries : {MaxRetries + 1}, due : {FALSE}]

DeliveryInit ==
    /\ Init
    /\ outbox = [ev \in Event |-> [status |-> "NEW", retries |-> 0, due |-> TRUE]]
    /\ batch = <<>>
    /\ publisher = "idle"
    /\ recovered = {}
    /\ failures = [ev \in Event |-> 0]

Enqueued == {ev \in Event : ev.revision <= ticket[ev.review].revision}

KeepPartition ==
    UNCHANGED <<dlq, marker, committed, assigned, step, position, thread, beat>>

-----------------------------------------------------------------------------
(* The publishing job.                                                      *)

\* Slip of Due: rows that failed are not selected again.
DueNew == {ev \in Enqueued : outbox[ev].status = "NEW" /\ outbox[ev].due}

Due == {ev \in Enqueued : /\ outbox[ev].status \in {"NEW", "FAILED"}
                          /\ outbox[ev].retries <= MaxRetries
                          /\ outbox[ev].due}

\* Rows of one review were created in the order of their revisions.
InOrderOfCreation(rows) ==
    \A i, j \in 1 .. Len(rows) :
        i < j /\ rows[i].review = rows[j].review => rows[i].revision < rows[j].revision

SelectPending ==
    /\ publisher = "idle"
    /\ batch = <<>>
    /\ Due # {}
    /\ batch' \in {rows \in SetToSeqs(Due) : InOrderOfCreation(rows)}
    /\ UNCHANGED <<vars, outbox, publisher, letters>>

Send ==
    /\ publisher = "idle"
    /\ batch # <<>>
    /\ \/ log' = Append(log, Head(batch)) /\ publisher' = "sent"
       \/ UNCHANGED log /\ publisher' = "failed"
    /\ KeepPartition
    /\ UNCHANGED <<runVars, outbox, batch, letters>>

\* The event is in the partition, but its send fails all the same, or the update
\* does that records it: it stands in the same try block.
PublishedUnknown ==
    /\ publisher = "sent"
    /\ Fault("publishedUnknown")
    /\ publisher' = "failed"
    /\ KeepPartition
    /\ UNCHANGED <<ticket, checkpoint, run, log, outbox, batch, letters>>

Record(row) ==
    /\ outbox' = [outbox EXCEPT ![Head(batch)] = row]
    /\ batch' = Tail(batch)
    /\ publisher' = "idle"
    /\ UNCHANGED <<vars, letters>>

RecordPublished ==
    /\ publisher = "sent"
    /\ Record([outbox[Head(batch)] EXCEPT !.status = "PUBLISHED"])

\* Slip of Exhausted: >= for >.
ExhaustedLate == outbox[Head(batch)].retries > MaxRetries

Exhausted == outbox[Head(batch)].retries + 1 > MaxRetries

RecordFailed ==
    /\ publisher = "failed"
    /\ ~Exhausted
    /\ Record([status |-> "FAILED", retries |-> outbox[Head(batch)].retries + 1, due |-> FALSE])

\* markManualRequired without a revision: an open ticket gets a verdict.  One that
\* has a verdict or a decision, at the read or at the UPDATE, is answered with
\* idempotentReplay or STATUS_CHANGED, which both callers take for handed off; the
\* answers they do not take for it need a ticket of another review.
HandedOff(rv) ==
    [ticket EXCEPT ![rv].state = IF @ = "open" THEN "reviewed" ELSE @]

\* Slip of HandOffExhausted: the row dies, whatever becomes of its ticket.
DieUnhanded ==
    /\ publisher = "failed"
    /\ Exhausted
    /\ publisher' = "handed"
    /\ KeepPartition
    /\ UNCHANGED <<runVars, log, outbox, batch, letters>>

HandOffExhausted ==
    /\ publisher = "failed"
    /\ Exhausted
    /\ ticket' = HandedOff(Head(batch).review)
    /\ publisher' = "handed"
    /\ KeepPartition
    /\ UNCHANGED <<checkpoint, run, faults, log, outbox, batch, letters>>

RecordDead ==
    /\ publisher = "handed"
    /\ Record([outbox[Head(batch)] EXCEPT !.status = "DEAD", !.retries = MaxRetries + 1,
                                          !.due = FALSE])

\* What the exception handler itself raises, the hand-off or the update, ends the
\* loop for the rest of the batch, and so does a crash of the service.
JobStops ==
    /\ batch # <<>>
    /\ Fault("jobStops")
    /\ batch' = <<>>
    /\ publisher' = "idle"
    /\ KeepPartition
    /\ UNCHANGED <<ticket, checkpoint, run, log, outbox, letters>>

\* The back-off of a row passes.
Elapse(ev) ==
    /\ outbox[ev].status = "FAILED"
    /\ ~outbox[ev].due
    /\ outbox' = [outbox EXCEPT ![ev].due = TRUE]
    /\ UNCHANGED <<vars, batch, publisher, letters>>

-----------------------------------------------------------------------------
(* The dead-letter topic.                                                   *)

\* The error handler has skipped the dead letter.
GivenUp == {ev \in Event : failures[ev] = MaxDeliveries}

Delivered(ev) == ev \in dlq \ (recovered \cup GivenUp)

RecoverManualHandoff(ev) ==
    /\ Delivered(ev)
    /\ ticket' = HandedOff(ev.review)
    /\ recovered' = recovered \cup {ev}
    /\ KeepPartition
    /\ UNCHANGED <<checkpoint, run, faults, log, outbox, batch, publisher, failures>>

\* The hand-off raises, committed or not, and the letter is delivered again: at most
\* MaxDeliveries times in all.
RecoveryFails(ev) ==
    /\ Delivered(ev)
    /\ ticket' \in {ticket, HandedOff(ev.review)}
    /\ failures' = [failures EXCEPT ![ev] = @ + 1]
    /\ KeepPartition
    /\ UNCHANGED <<checkpoint, run, faults, log, outbox, batch, publisher, recovered>>

ConsumeDeadLetter(ev) == RecoverManualHandoff(ev) \/ RecoveryFails(ev)

-----------------------------------------------------------------------------
JobStep ==
    SelectPending \/ Send \/ RecordPublished \/ RecordFailed \/ HandOffExhausted \/ RecordDead

Others ==
    /\ \/ \E c \in Consumers : ConsumerNext(c)
       \/ \E rv \in Reviews : TicketNext(rv)
       \/ \E t \in Threads : RunNext(t)
       \/ \E ev \in Event : Age(ev)
    /\ UNCHANGED deliveryVars

DeliveryNext ==
    \/ JobStep \/ PublishedUnknown \/ JobStops
    \/ \E ev \in Event : Elapse(ev) \/ ConsumeDeadLetter(ev)
    \/ Others

\* Processes run and are restarted, the job is scheduled again and again, calls
\* return, time passes, dead letters are delivered.  Whether a send or the hand-off
\* of a dead letter succeeds is not assumed.  Users and merchants owe nothing; faults are never owed.
DeliveryFairness ==
    /\ \A c \in Consumers : WF_allVars(ProcessStep(c) /\ UNCHANGED deliveryVars)
    /\ \A t \in Threads : WF_allVars(RunStep(t) /\ KeepConsumers /\ UNCHANGED deliveryVars)
    /\ \A ev \in Event : /\ WF_allVars(Age(ev) /\ UNCHANGED deliveryVars)
                         /\ WF_allVars(Elapse(ev))
                         /\ WF_allVars(ConsumeDeadLetter(ev))
    /\ WF_allVars(JobStep)

DeliverySpec == DeliveryInit /\ [][DeliveryNext]_allVars /\ DeliveryFairness

-----------------------------------------------------------------------------
(* Properties.                                                              *)

DeliveryTypeOK ==
    /\ TypeOK
    /\ outbox \in [Event -> Row]
    /\ batch \in Seq(Event)
    /\ publisher \in {"idle", "sent", "failed", "handed"}
    /\ recovered \subseteq Event
    /\ failures \in [Event -> 0 .. MaxDeliveries]

\* What the outbox says of an event is so, whatever raised, crashed or was repeated
\* on the way: a published event is in the partition; the ticket of a dead one was
\* handed off or decided.  (publishOne: "Do not make a dead event look handled when
\* its business handoff did not persist.")
OutboxIsTrue ==
    \A ev \in Event :
        /\ outbox[ev].status = "PUBLISHED" => ev \in Published
        /\ outbox[ev].status = "DEAD" => ticket[ev.review].state # "open"

\* Every revision the user created is eventually dealt with: by a verdict, the
\* merchant's decision, a prompt for more, or because a newer revision took its
\* place.  A dead letter is not an outcome, nor is a row that exhausted its retries:
\* nobody looks at the ticket only if the hand-off of the dead letter failed in every
\* one of its MaxDeliveries deliveries.
Outcome(ev) ==
    \/ ticket[ev.review].state # "open"
    \/ ev.revision \in ticket[ev.review].prompts
    \/ ev.revision < ticket[ev.review].revision

EveryEventIsHandled ==
    \A ev \in Event : (ev \in Enqueued) ~> (Outcome(ev) \/ ev \in GivenUp)
=============================================================================
