---------------------------- MODULE TicketReview ----------------------------
(***************************************************************************)
(* The AI-review life of one after-sales ticket: its row in MySQL, the     *)
(* outbox rows and chat messages written with it, and the transactions     *)
(* that run on it at the same time.                                        *)
(*                                                                         *)
(* A plain SELECT reads a snapshot (InnoDB, REPEATABLE READ): the row may  *)
(* change before the transaction writes.  An operation that begins with a  *)
(* plain SELECT is therefore two actions: one that takes the snapshot and  *)
(* decides, one that writes and commits.  Its UPDATE either carries its    *)
(* condition in SQL and tests the row as it then is, or is an updateById   *)
(* of the entity read earlier, and puts the snapshot back.  An operation   *)
(* that begins with SELECT ... FOR UPDATE is one action.                   *)
(***************************************************************************)
EXTENDS Naturals

CONSTANTS Reviewers,     \* calls that decide the review: agent, outbox, DLQ
          Staff,         \* merchant console requests
          Gateways,      \* chat requests that fall back to a human
          SupplementIds  \* requestIds of the user's supplement calls

Actors == Reviewers \cup Staff \cup Gateways

ASSUME ActorsAreDistinct ==
    /\ Reviewers \cap Staff = {}
    /\ Reviewers \cap Gateways = {}
    /\ Staff \cap Gateways = {}

Pending == {"PENDING", "PENDING_REVIEW"}
Statuses == Pending \cup {"PROCESSING", "REJECTED", "COMPLETED"}
AiReviewStatuses == {"RUNNING", "WAITING_EVIDENCE", "RESUME_PENDING",
                     "COMPLETED", "MANUAL_REQUIRED"}
Verdicts == {"APPROVE", "MANUAL_REVIEW_REQUIRED"}
NULL == "NULL"

AfterSalesTicket == [status : Statuses,
                     aiReviewStatus : AiReviewStatuses,
                     aiReviewResult : Verdicts \cup {NULL},
                     evidenceRevision : Nat,
                     manualReviewRequired : BOOLEAN]

\* The row create() inserts.  Rows from before PENDING_REVIEW was introduced
\* have the column default, PENDING.
NewTicket(s) == [status |-> s,
                 aiReviewStatus |-> "RUNNING",
                 aiReviewResult |-> NULL,
                 evidenceRevision |-> 0,
                 manualReviewRequired |-> FALSE]

\* A RESUME event carries a revision of at least 1.
NotEnqueued == 0

DecisionStages == {"applyAiApproval", "markManual", "markManualAnyRevision"}
StaffStages == {"approveTicket", "rejectTicket", "completeTicket"}
Stages == {"idle", "loadAttachments", "agentFallback"} \cup DecisionStages \cup StaffStages

Replies == {"none", "applied", "idempotentReplay", "waitingEvidence",
            "STALE_EVIDENCE", "STATUS_CHANGED", "STALE_REVIEW", "conflict"}

VARIABLES
    ticket,     \* the committed row
    resume,     \* requestId -> revision of the RESUME outbox row it enqueued
    notices,    \* verdicts with a "review:result:" chat message
    prompts,    \* revisions with a "review:evidence-required:" chat message
    context,    \* Reviewer -> the review context it decides on
    stage,      \* Actor -> where its open transaction is
    snapshot,   \* Actor -> the row its open transaction read
    reply,      \* Reviewer -> answer to its last call
    decidedOn   \* history: the supplements the approving reviewer had loaded

vars == <<ticket, resume, notices, prompts, context, stage, snapshot, reply,
          decidedOn>>

Accepted == {s \in SupplementIds : resume[s] # NotEnqueued}

TypeOK ==
    /\ ticket \in AfterSalesTicket
    /\ resume \in [SupplementIds -> Nat]
    /\ notices \subseteq Verdicts
    /\ prompts \subseteq Nat
    /\ context \in [Reviewers -> [revision : Nat, seen : SUBSET SupplementIds]]
    /\ stage \in [Actors -> Stages]
    /\ snapshot \in [Actors -> AfterSalesTicket]
    /\ reply \in [Reviewers -> Replies]
    /\ decidedOn \subseteq SupplementIds

Init ==
    /\ \E s \in Pending : ticket = NewTicket(s)
    /\ resume = [s \in SupplementIds |-> NotEnqueued]
    /\ notices = {}
    /\ prompts = {}
    /\ context = [x \in Reviewers |-> [revision |-> 0, seen |-> {}]]
    /\ stage = [x \in Actors |-> "idle"]
    /\ snapshot = [x \in Actors |-> NewTicket("PENDING_REVIEW")]
    /\ reply = [x \in Reviewers |-> "none"]
    /\ decidedOn = {}

----------------------------------------------------------------------------
(* UPDATE statements of AfterSalesTicketMapper: WHERE clause and SET list.  *)

\* Slips of applyAiApprovalIfPending: its AND ai_review_result IS NULL forgotten,
\* its AND evidence_revision = ? forgotten.
ApprovalOverwrites(row, revision) ==
    row.status \in Pending /\ row.evidenceRevision = revision

ApprovalOfAnyRevision(row, revision) ==
    row.status \in Pending /\ row.aiReviewResult = NULL

ApprovalMatches(row, revision) ==
    /\ row.status \in Pending
    /\ row.aiReviewResult = NULL
    /\ row.evidenceRevision = revision

AiApproved(row) ==
    [row EXCEPT !.aiReviewResult = "APPROVE",
                !.aiReviewStatus = "COMPLETED",
                !.status = "PROCESSING",
                !.manualReviewRequired = FALSE]

\* A slip of applyManualReviewIfPending: its status condition forgotten.
ManualOfAnyStatus(row, revision, anyRevision) ==
    /\ row.aiReviewResult = NULL
    /\ anyRevision \/ row.evidenceRevision = revision

\* anyRevision: the caller passed no evidence revision.
ManualMatches(row, revision, anyRevision) ==
    /\ row.status \in Pending
    /\ row.aiReviewResult = NULL
    /\ anyRevision \/ row.evidenceRevision = revision

ManualRequired(row) ==
    [row EXCEPT !.aiReviewResult = "MANUAL_REVIEW_REQUIRED",
                !.aiReviewStatus = "MANUAL_REQUIRED",
                !.status = "PENDING_REVIEW",
                !.manualReviewRequired = TRUE]

WaitingEvidenceMatches(row, revision) ==
    /\ row.aiReviewResult = NULL
    /\ row.evidenceRevision = revision

\* A slip: the gate's decision is written where the review's state belongs.
DecisionAsStatus(row) == [row EXCEPT !.aiReviewStatus = "REQUEST_EVIDENCE"]

WaitingEvidence(row) == [row EXCEPT !.aiReviewStatus = "WAITING_EVIDENCE"]

AdvanceMatches(row) == row.aiReviewResult = NULL

EvidenceAdvanced(row) ==
    [row EXCEPT !.evidenceRevision = @ + 1, !.aiReviewStatus = "RESUME_PENDING"]

\* A slip: updateById with null properties written back as well.
UpdateAllColumns(row, entity) == entity

\* updateById(entity): every non-null property of the entity goes back.  Only
\* the verdict can be null in it, and is then left as it is in the row.
UpdateById(row, entity) ==
    [entity EXCEPT !.aiReviewResult =
                       IF @ = NULL THEN row.aiReviewResult ELSE @]

----------------------------------------------------------------------------
(* Transactions.                                                            *)

\* The call opens a transaction, reads the row and goes on to stage g.
Begin(x, g) ==
    /\ stage' = [stage EXCEPT ![x] = g]
    /\ snapshot' = [snapshot EXCEPT ![x] = ticket]

\* The call ends; what its snapshot was no longer matters.
Close(x) ==
    /\ stage' = [stage EXCEPT ![x] = "idle"]
    /\ snapshot' = [snapshot EXCEPT ![x] = NewTicket("PENDING_REVIEW")]

Answer(x, r) == reply' = [reply EXCEPT ![x] = r]

\* The transaction ends with nothing written: a lost database session, a lock
\* wait timeout, a notification insert that fails, a crash of the service.  The
\* caller gets no answer.
RollBack(x) ==
    /\ stage[x] # "idle"
    /\ Close(x)
    /\ UNCHANGED <<ticket, resume, notices, prompts, context, reply, decidedOn>>

----------------------------------------------------------------------------
(* Calls that decide the review.                                            *)

\* The agent loads the trusted case context it will review.  The request has no
\* transaction: it reads the ticket row first and the attachments after it.
LoadTicket(x) ==
    /\ stage[x] = "idle"
    /\ Begin(x, "loadAttachments")
    /\ UNCHANGED <<ticket, resume, notices, prompts, context, reply, decidedOn>>

LoadAttachments(x) ==
    /\ stage[x] = "loadAttachments"
    /\ context' = [context EXCEPT ![x] =
                      [revision |-> snapshot[x].evidenceRevision, seen |-> Accepted]]
    /\ Close(x)
    /\ UNCHANGED <<ticket, resume, notices, prompts, reply, decidedOn>>

\* Why submitAiReview or markManualRequired turns the call down on reading row,
\* or "none".
EarlyAnswer(row, revision, anyRevision) ==
    IF row.aiReviewResult # NULL THEN "idempotentReplay"
    ELSE IF ~anyRevision /\ row.evidenceRevision # revision THEN "STALE_EVIDENCE"
    ELSE IF row.status \notin Pending THEN "STATUS_CHANGED"
    ELSE "none"

\* One call, up to its UPDATE.
ReadAndDecide(x, g, anyRevision) ==
    LET early == EarlyAnswer(ticket, context[x].revision, anyRevision) IN
    /\ stage[x] = "idle"
    /\ Answer(x, early)
    /\ IF early = "none" THEN Begin(x, g) ELSE UNCHANGED <<stage, snapshot>>
    /\ UNCHANGED <<ticket, resume, notices, prompts, context, decidedOn>>

\* submitAiReview.  An APPROVE the approval guard rejects continues as
\* MANUAL_REVIEW_REQUIRED, so either continuation may follow an APPROVE.
SubmitAiReview(x) ==
    \/ ReadAndDecide(x, "applyAiApproval", FALSE)
    \/ ReadAndDecide(x, "markManual", FALSE)

\* markManualRequired as the DLQ consumer and the outbox publisher call it.
HandOff(x) == ReadAndDecide(x, "markManualAnyRevision", TRUE)

\* staleReviewResult reads the ticket again, in the transaction's snapshot.
StaleReviewReply(row, revision) ==
    IF row.aiReviewResult # NULL THEN "idempotentReplay"
    ELSE IF row.evidenceRevision # revision THEN "STALE_EVIDENCE"
    ELSE "STALE_REVIEW"

ApplyAiApproval(x) ==
    LET revision == context[x].revision IN
    /\ stage[x] = "applyAiApproval"
    /\ Close(x)
    /\ \/ /\ ApprovalMatches(ticket, revision)
          /\ ticket' = AiApproved(ticket)
          /\ notices' = notices \cup {"APPROVE"}
          /\ decidedOn' = context[x].seen
          /\ Answer(x, "applied")
       \/ /\ ~ApprovalMatches(ticket, revision)
          /\ Answer(x, StaleReviewReply(snapshot[x], revision))
          /\ UNCHANGED <<ticket, notices, decidedOn>>
    /\ UNCHANGED <<resume, prompts, context>>

\* A markManualRequired whose UPDATE matched no row answers idempotentReplay
\* because the review request id, read again, is still its own.
ApplyManualReview(x) ==
    LET matches == ManualMatches(ticket, context[x].revision,
                                 stage[x] = "markManualAnyRevision") IN
    /\ stage[x] \in {"markManual", "markManualAnyRevision"}
    /\ Close(x)
    /\ \/ /\ matches
          /\ ticket' = ManualRequired(ticket)
          /\ notices' = notices \cup {"MANUAL_REVIEW_REQUIRED"}
          /\ Answer(x, "applied")
       \/ /\ ~matches
          /\ Answer(x, "idempotentReplay")
          /\ UNCHANGED <<ticket, notices>>
    /\ UNCHANGED <<resume, prompts, context, decidedOn>>

\* persistMissingEvidence: SELECT ... FOR UPDATE, one prompt per revision.
RequestMissingEvidence(x) ==
    LET revision == context[x].revision IN
    /\ stage[x] = "idle"
    /\ \/ /\ ticket.evidenceRevision # revision
          /\ Answer(x, "STALE_EVIDENCE")
          /\ UNCHANGED <<ticket, prompts>>
       \/ /\ ticket.evidenceRevision = revision
          /\ revision \in prompts
          /\ Answer(x, "idempotentReplay")
          /\ UNCHANGED <<ticket, prompts>>
       \/ /\ WaitingEvidenceMatches(ticket, revision)
          /\ revision \notin prompts
          /\ ticket' = WaitingEvidence(ticket)
          /\ prompts' = prompts \cup {revision}
          /\ Answer(x, "waitingEvidence")
       \/ /\ ticket.evidenceRevision = revision
          /\ revision \notin prompts
          /\ ~WaitingEvidenceMatches(ticket, revision)
          /\ Answer(x, "conflict")
          /\ UNCHANGED <<ticket, prompts>>
    /\ UNCHANGED <<resume, notices, context, stage, snapshot, decidedOn>>

----------------------------------------------------------------------------
(* The user, the merchant and the chat gateway.                             *)

IsReviewable(row) ==
    /\ ~row.manualReviewRequired
    /\ row.aiReviewResult = NULL
    /\ row.status \in Pending

\* A slip: the RESUME event is enqueued with the revision read before the update.
SupplementWithOldRevision(s) ==
    /\ IsReviewable(ticket)
    /\ s \notin Accepted
    /\ AdvanceMatches(ticket)
    /\ ticket' = EvidenceAdvanced(ticket)
    /\ resume' = [resume EXCEPT ![s] = ticket.evidenceRevision]
    /\ UNCHANGED <<notices, prompts, context, stage, snapshot, reply, decidedOn>>

\* The user supplements evidence: SELECT ... FOR UPDATE, then the revision and
\* the RESUME outbox row in the same transaction.  A known requestId is only
\* answered, a call on a ticket that is not reviewable is refused with 409.
Supplement(s) ==
    /\ IsReviewable(ticket)
    /\ s \notin Accepted
    /\ AdvanceMatches(ticket)
    /\ ticket' = EvidenceAdvanced(ticket)
    /\ resume' = [resume EXCEPT ![s] = ticket'.evidenceRevision]
    /\ UNCHANGED <<notices, prompts, context, stage, snapshot, reply, decidedOn>>

StaffMay(row, g) ==
    \/ g \in {"approveTicket", "rejectTicket"} /\ row.status \in Pending
    \/ g = "completeTicket" /\ row.status = "PROCESSING"

StaffTarget == [approveTicket |-> "PROCESSING",
                rejectTicket |-> "REJECTED",
                completeTicket |-> "COMPLETED"]

ReadAsStaff(x, g) ==
    /\ stage[x] = "idle"
    /\ StaffMay(ticket, g)
    /\ Begin(x, g)
    /\ UNCHANGED <<ticket, resume, notices, prompts, context, reply, decidedOn>>

WriteAsStaff(x) ==
    /\ stage[x] \in StaffStages
    /\ ticket' = UpdateById(ticket,
                     [snapshot[x] EXCEPT !.status = StaffTarget[stage[x]]])
    /\ Close(x)
    /\ UNCHANGED <<resume, notices, prompts, context, reply, decidedOn>>

\* The chat gateway's fallback runs without a transaction: it reads the session's
\* ticket, raises its priority and writes the entity back.
ReadAsGateway(x) ==
    /\ stage[x] = "idle"
    /\ Begin(x, "agentFallback")
    /\ UNCHANGED <<ticket, resume, notices, prompts, context, reply, decidedOn>>

WriteAsGateway(x) ==
    /\ stage[x] = "agentFallback"
    /\ ticket' = UpdateById(ticket, snapshot[x])
    /\ Close(x)
    /\ UNCHANGED <<resume, notices, prompts, context, reply, decidedOn>>

ReviewerNext(x) ==
    \/ LoadTicket(x)
    \/ LoadAttachments(x)
    \/ SubmitAiReview(x)
    \/ HandOff(x)
    \/ ApplyAiApproval(x)
    \/ ApplyManualReview(x)
    \/ RequestMissingEvidence(x)

StaffNext(x) == WriteAsStaff(x) \/ \E g \in StaffStages : ReadAsStaff(x, g)

GatewayNext(x) == ReadAsGateway(x) \/ WriteAsGateway(x)

Next ==
    \/ \E x \in Reviewers : ReviewerNext(x)
    \/ \E x \in Staff : StaffNext(x)
    \/ \E x \in Gateways : GatewayNext(x)
    \/ \E x \in Actors : RollBack(x)
    \/ \E s \in SupplementIds : Supplement(s)

Spec == Init /\ [][Next]_vars

----------------------------------------------------------------------------
(* Properties.                                                              *)

\* An agent told that its result was applied can rely on it: the ticket has a
\* verdict, and the user has the message for that verdict and for no other.
\* The user never has a result message while the ticket has no verdict.
AppliedIsOnRecord ==
    /\ \A x \in Reviewers : reply[x] = "applied" => ticket.aiReviewResult # NULL
    /\ notices = IF ticket.aiReviewResult = NULL THEN {}
                 ELSE {ticket.aiReviewResult}

\* The mapper's conditional updates keep the promises of ReviewPromise, whatever
\* the blind updates of merchants and of the chat gateway do in between.
Promise == INSTANCE ReviewPromise WITH
              verdict <- ticket.aiReviewResult,
              told <- notices,
              evidence <- Accepted,
              asked <- prompts
ImplementsPromise == Promise!PromiseSpec

\* The AI approves a ticket only on all the evidence the user was told it has:
\* "Java checks both ids on write-back and rejects outdated results".
ApprovalCoversEvidence ==
    ticket.aiReviewResult = "APPROVE" => decidedOn = Accepted

\* While a ticket is pending, its accepted supplements carry the revisions
\* 1 .. evidenceRevision, each once: a RESUME event names its evidence.
RevisionNamesEvidence ==
    ticket.status \in Pending =>
        /\ {resume[s] : s \in Accepted} = 1 .. ticket.evidenceRevision
        /\ \A s, t \in Accepted : resume[s] = resume[t] => s = t

\* A ticket that left the pending states does not come back to them, so nobody
\* can decide it again.
NoReturnToPending ==
    [][ticket.status \notin Pending => ticket'.status \notin Pending]_vars
=============================================================================
