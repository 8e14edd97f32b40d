----------------------------- MODULE ReviewRuns -----------------------------
(***************************************************************************)
(* Runs of the formal-review graph against the tickets they review.        *)
(*                                                                         *)
(* A run is one call that decides a review: a thread of the agent that     *)
(* walks the graph, or the consumer's own manual fallback.  Runs of one    *)
(* review may overlap, because a thread whose time limit has passed goes   *)
(* on.  The tickets are those of TicketReview with the columns that matter *)
(* to a run: an approval or a hand-off is read and early answer, then the  *)
(* UPDATE; everything else is one step.                                    *)
(***************************************************************************)
EXTENDS Naturals

CONSTANTS Reviews,      \* review requests: one per ticket
          Threads,      \* bound: runs at the same time
          MaxRevision,  \* bound: supplements of one ticket
          FaultKinds,   \* faults that may occur
          MaxFaults     \* bound: faults in one behaviour

ASSUME BoundsAreNat == MaxRevision \in Nat /\ MaxFaults \in Nat

Revisions == 0 .. MaxRevision

\* state: the verdict and status columns.  "open": no verdict, status pending;
\* "reviewed": the AI's verdict is on record; "staff": the merchant decided first.
Ticket == [state : {"open", "reviewed", "staff"},
           revision : Revisions,
           prompts : SUBSET Revisions]

Paused == {"PROMPTED", "STALE_EVIDENCE"}
Ended == {"APPLIED", "STALE_REVIEW", "STATUS_CHANGED", "ERROR"}
NoReply == "none"
Replies == Paused \cup Ended \cup {"RAISED", NoReply}
NoReview == "none"

\* The graph's checkpoint, by review request: never run, the node a run of it comes
\* to next, interrupted for evidence, or at END; the evidence revision of the
\* trusted context it keeps (0: none), and the outcome of the last submission.
Checkpoint == [at : {"none", "load", "review", "manual", "interrupted", "ended"},
               revision : Revisions,
               reply : Replies]

Reached(node, revision) == [at |-> node, revision |-> revision, reply |-> NoReply]

Updates == {"approving", "handingOff"}
RunSteps == {"idle", "load", "review", "manual", "done"} \cup Updates

\* awaited: the consumer still waits for the result.  revision: the context's.
Run == [step : RunSteps,
        kind : {"agent", "fallback"},
        awaited : BOOLEAN,
        review : Reviews \cup {NoReview},
        revision : Revisions,
        reply : Replies]

NoRun == [step |-> "idle", kind |-> "agent", awaited |-> FALSE,
          review |-> NoReview, revision |-> 0, reply |-> NoReply]

VARIABLES ticket, checkpoint, run,
          faults  \* faults so far

runVars == <<ticket, checkpoint, run, faults>>

RunsInit ==
    /\ ticket = [rv \in Reviews |-> [state |-> "open", revision |-> 0, prompts |-> {}]]
    /\ checkpoint = [rv \in Reviews |-> Reached("none", 0)]
    /\ run = [t \in Threads |-> NoRun]
    /\ faults = 0

Fault(kind) ==
    /\ kind \in FaultKinds
    /\ faults < MaxFaults
    /\ faults' = faults + 1

----------------------------------------------------------------------------
(* The user and the merchant.                                               *)

UpdatesOf(rv) == {t \in Threads : run[t].review = rv /\ run[t].step \in Updates}

\* Without the fault "supplementRace" no supplement commits between the read
\* and the UPDATE of a submission.
AcceptSupplement(rv) ==
    /\ ticket[rv].state = "open"
    /\ ticket[rv].revision < MaxRevision
    /\ UpdatesOf(rv) = {} \/ "supplementRace" \in FaultKinds
    /\ ticket' = [ticket EXCEPT ![rv].revision = @ + 1]
    /\ UNCHANGED <<checkpoint, run, faults>>

StaffDecides(rv) ==
    /\ ticket[rv].state = "open"
    /\ ticket' = [ticket EXCEPT ![rv].state = "staff"]
    /\ UNCHANGED <<checkpoint, run, faults>>

----------------------------------------------------------------------------
(* One run.                                                                 *)

Goto(t, step) == run' = [run EXCEPT ![t].step = step]

\* The run ends; nobody takes the result of a run that is not awaited.
Return(t, reply) ==
    run' = [run EXCEPT ![t] =
               IF @.awaited THEN [@ EXCEPT !.step = "done", !.reply = reply]
               ELSE NoRun]

\* What a node leaves in the graph's checkpoint when it is over; the consumer's own
\* fallback runs no graph.
Save(t, saved) ==
    checkpoint' = IF run[t].kind = "fallback" THEN checkpoint
                  ELSE [checkpoint EXCEPT ![run[t].review] = saved]

\* The run has done a node and comes to the next.
GoOn(t, node, revision) ==
    /\ run' = [run EXCEPT ![t].step = node, ![t].revision = revision]
    /\ Save(t, Reached(node, revision))

\* Slip of Finish: an attempt that waits for evidence ends the graph.
FinishAtEnd(t, reply) ==
    /\ Return(t, reply)
    /\ Save(t, [at |-> "ended", revision |-> run[t].revision, reply |-> reply])

Finish(t, reply) ==
    /\ Return(t, reply)
    /\ Save(t, [at |-> IF reply \in Paused THEN "interrupted" ELSE "ended",
                revision |-> run[t].revision,
                reply |-> reply])

\* A ticket the merchant has decided goes to manual review, and so may one with
\* a verdict, whose status may have moved on.
LoadContext(t) ==
    LET row == ticket[run[t].review] IN
    /\ run[t].step = "load"
    /\ \/ row.state # "staff" /\ GoOn(t, "review", row.revision)
       \/ row.state # "open" /\ GoOn(t, "manual", row.revision)
    /\ UNCHANGED <<ticket, faults>>

\* The graph hands off with the context it had: that of a run before, or none.
LoadFails(t) ==
    /\ run[t].step = "load"
    /\ Fault("loadFails")
    /\ GoOn(t, "manual", run[t].revision)
    /\ UNCHANGED ticket

\* Stale evidence starts the attempt over, without a context; a ticket that has a verdict but no
\* prompt for this revision is refused with 409, and handed off.
RequestEvidence(t) ==
    LET rv == run[t].review
        revision == run[t].revision
    IN
    /\ run[t].step = "review"
    /\ \/ /\ ticket[rv].revision # revision
          /\ GoOn(t, "load", 0)
          /\ UNCHANGED ticket
       \/ /\ ticket[rv].revision = revision
          /\ ticket[rv].state # "reviewed" \/ revision \in ticket[rv].prompts
          /\ ticket' = [ticket EXCEPT ![rv].prompts = @ \cup {revision}]
          /\ Finish(t, "PROMPTED")
       \/ /\ ticket[rv].revision = revision
          /\ ticket[rv].state = "reviewed" /\ revision \notin ticket[rv].prompts
          /\ GoOn(t, "manual", revision)
          /\ UNCHANGED ticket
    /\ UNCHANGED faults

EarlyReply(row, revision) ==
    CASE row.state = "reviewed" -> "APPLIED"
      [] row.state # "reviewed" /\ row.revision # revision -> "STALE_EVIDENCE"
      [] row.state = "staff" /\ row.revision = revision -> "STATUS_CHANGED"
      [] OTHER -> NoReply

Submit(t, update) ==
    LET reply == EarlyReply(ticket[run[t].review], run[t].revision) IN
    /\ \/ run[t].step = "review"
       \/ run[t].step = "manual" /\ update = "handingOff"
    /\ \/ reply # NoReply /\ Finish(t, reply)
       \/ reply = NoReply /\ Goto(t, update) /\ UNCHANGED checkpoint
    /\ UNCHANGED <<ticket, faults>>

Matches(t) ==
    /\ ticket[run[t].review].state = "open"
    /\ ticket[run[t].review].revision = run[t].revision

Reviewed(t) == [ticket EXCEPT ![run[t].review].state = "reviewed"]

\* An UPDATE that matches no row: the ticket, read again, is the transaction's
\* snapshot.  An approval is answered STALE_REVIEW, a hand-off is taken for a
\* replay and answered as applied.
Update(t) ==
    /\ run[t].step \in Updates
    /\ \/ Matches(t) /\ ticket' = Reviewed(t) /\ Finish(t, "APPLIED")
       \/ /\ ~Matches(t)
          /\ UNCHANGED ticket
          /\ Finish(t, IF run[t].step = "approving" THEN "STALE_REVIEW" ELSE "APPLIED")
    /\ UNCHANGED faults

\* A call to Java fails: before its transaction committed, or its answer is lost.
\* The consumer's fallback may try again.
CallFails(t) ==
    /\ run[t].step \in {"review", "manual"} \cup Updates
    /\ Fault("callFails")
    /\ \/ UNCHANGED ticket
       \/ run[t].step \in Updates /\ Matches(t) /\ ticket' = Reviewed(t)
    /\ \/ Finish(t, "ERROR")
       \/ run[t].kind = "fallback" /\ Goto(t, "manual") /\ UNCHANGED checkpoint

\* A request for evidence fails in the same ways, and the graph hands off.
RequestFails(t) ==
    LET rv == run[t].review IN
    /\ run[t].step = "review"
    /\ Fault("callFails")
    /\ \/ UNCHANGED ticket
       \/ /\ ticket[rv].revision = run[t].revision
          /\ ticket[rv].state # "reviewed"
          /\ ticket' = [ticket EXCEPT ![rv].prompts = @ \cup {run[t].revision}]
    /\ GoOn(t, "manual", run[t].revision)

\* A node of the graph raises; the checkpoint keeps the nodes before it.
RunRaises(t) ==
    /\ run[t].kind = "agent"
    /\ run[t].step \in {"load", "review", "manual"}
    /\ Fault("raises")
    /\ Return(t, "RAISED")
    /\ UNCHANGED <<ticket, checkpoint>>

RunStep(t) ==
    \/ LoadContext(t)
    \/ RequestEvidence(t)
    \/ \E update \in Updates : Submit(t, update)
    \/ Update(t)

RunFault(t) == LoadFails(t) \/ CallFails(t) \/ RequestFails(t) \/ RunRaises(t)
=============================================================================
