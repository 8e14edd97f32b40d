------------------------- MODULE TicketReviewProofs -------------------------
(***************************************************************************)
(* Proofs about TicketReview, for any sets of reviewers, staff, gateways   *)
(* and supplements.                                                        *)
(***************************************************************************)
EXTENDS TicketReview, TLAPS

\* What a transaction read of the verdict still holds when it writes: a verdict
\* is never taken back, so a snapshot with one has the one on record.
SnapshotsAgree ==
    \A x \in Actors : snapshot[x].aiReviewResult # NULL =>
                          snapshot[x].aiReviewResult = ticket.aiReviewResult

RecordInv == TypeOK /\ SnapshotsAgree /\ AppliedIsOnRecord

\* While the ticket is pending, what reviewers have read is not ahead of it, and a
\* review context has at least the supplements up to its revision: attachments are
\* read after the row, so it may have more.
ContextsAreCurrent ==
    ticket.status \in Pending =>
        \A x \in Reviewers :
            /\ snapshot[x].evidenceRevision <= ticket.evidenceRevision
            /\ context[x].revision <= ticket.evidenceRevision
            /\ context[x].seen \subseteq Accepted
            /\ {s \in Accepted : resume[s] <= context[x].revision}
                  \subseteq context[x].seen

EvidenceInv ==
    RecordInv /\ RevisionNamesEvidence /\ ContextsAreCurrent /\ ApprovalCoversEvidence

----------------------------------------------------------------------------
\* Each UPDATE of the mapper, and the row create() inserts, give a ticket row.
LEMMA RowUpdatesTyped ==
    ASSUME NEW row \in AfterSalesTicket, NEW entity \in AfterSalesTicket,
           NEW st \in Statuses
    PROVE  /\ AiApproved(row) \in AfterSalesTicket
           /\ ManualRequired(row) \in AfterSalesTicket
           /\ WaitingEvidence(row) \in AfterSalesTicket
           /\ EvidenceAdvanced(row) \in AfterSalesTicket
           /\ UpdateById(row, entity) \in AfterSalesTicket
           /\ [row EXCEPT !.status = st] \in AfterSalesTicket
           /\ NewTicket("PENDING_REVIEW") \in AfterSalesTicket
<1>1. AiApproved(row) \in AfterSalesTicket
  BY DEF AfterSalesTicket, Statuses, AiReviewStatuses, Verdicts, AiApproved
<1>2. ManualRequired(row) \in AfterSalesTicket
  BY DEF AfterSalesTicket, Statuses, Pending, AiReviewStatuses, Verdicts, ManualRequired
<1>3. WaitingEvidence(row) \in AfterSalesTicket
  BY DEF AfterSalesTicket, AiReviewStatuses, WaitingEvidence
<1>4. EvidenceAdvanced(row) \in AfterSalesTicket
  <2>1. row.evidenceRevision + 1 \in Nat
    BY DEF AfterSalesTicket
  <2>2. [row EXCEPT !.evidenceRevision = row.evidenceRevision + 1] \in AfterSalesTicket
    BY <2>1 DEF AfterSalesTicket
  <2>3. "RESUME_PENDING" \in AiReviewStatuses
    BY DEF AiReviewStatuses
  <2>. QED
    BY <2>2, <2>3 DEF AfterSalesTicket, EvidenceAdvanced
<1>5. UpdateById(row, entity) \in AfterSalesTicket
  BY DEF AfterSalesTicket, UpdateById
<1>6. [row EXCEPT !.status = st] \in AfterSalesTicket
  BY DEF AfterSalesTicket
<1>7. NewTicket("PENDING_REVIEW") \in AfterSalesTicket
  BY DEF AfterSalesTicket, Statuses, Pending, AiReviewStatuses, NewTicket
<1>. QED
  BY <1>1, <1>2, <1>3, <1>4, <1>5, <1>6, <1>7

\* What each conditional or blind update does to the verdict of the row.
LEMMA RowUpdatesVerdict ==
    ASSUME NEW row \in AfterSalesTicket, NEW entity \in AfterSalesTicket
    PROVE  /\ AiApproved(row).aiReviewResult = "APPROVE"
           /\ ManualRequired(row).aiReviewResult = "MANUAL_REVIEW_REQUIRED"
           /\ WaitingEvidence(row).aiReviewResult = row.aiReviewResult
           /\ EvidenceAdvanced(row).aiReviewResult = row.aiReviewResult
           /\ UpdateById(row, entity).aiReviewResult =
                  IF entity.aiReviewResult = NULL THEN row.aiReviewResult
                                                  ELSE entity.aiReviewResult
           /\ NewTicket("PENDING_REVIEW").aiReviewResult = NULL
    BY DEF AfterSalesTicket, AiApproved, ManualRequired, WaitingEvidence,
           EvidenceAdvanced, UpdateById, NewTicket

\* A merchant's command moves the ticket to a status that is not pending.
LEMMA StaffTargetTyped ==
    ASSUME NEW g \in StaffStages
    PROVE  StaffTarget[g] \in Statuses \ Pending
    BY DEF StaffStages, StaffTarget, Statuses, Pending

\* The initial states are typed.
LEMMA InitTyped == Init => TypeOK
  BY DEF Init, TypeOK, NewTicket, AfterSalesTicket, Statuses, Pending,
         AiReviewStatuses, Verdicts, NULL, NotEnqueued, Stages, Replies

\* Type correctness: every column keeps its vocabulary, whatever interleaves.
THEOREM TypeCorrect == Spec => []TypeOK
<1>1. Init => TypeOK
  BY InitTyped
<1>2. TypeOK /\ [Next]_vars => TypeOK'
  <2> SUFFICES ASSUME TypeOK, [Next]_vars PROVE TypeOK'
    OBVIOUS
  <2> USE DEF TypeOK
  <2>a. \A x \in Actors : Close(x) => /\ stage' \in [Actors -> Stages]
                                      /\ snapshot' \in [Actors -> AfterSalesTicket]
    BY RowUpdatesTyped DEF Close, Stages, Statuses, Pending
  <2>b. \A x \in Actors, g \in Stages :
           Begin(x, g) => /\ stage' \in [Actors -> Stages]
                          /\ snapshot' \in [Actors -> AfterSalesTicket]
    BY DEF Begin
  <2>c. \A x \in Reviewers, r \in Replies : Answer(x, r) => reply' \in [Reviewers -> Replies]
    BY DEF Answer
  <2>d. \A row \in AfterSalesTicket : [row EXCEPT !.status = "PENDING"] \in AfterSalesTicket
    BY RowUpdatesTyped DEF Statuses, Pending
  <2>1. ASSUME NEW x \in Reviewers, LoadTicket(x) \/ LoadAttachments(x)
        PROVE  TypeOK'
    <3>1. x \in Actors /\ "loadAttachments" \in Stages
      BY DEF Actors, Stages
    <3>2. CASE LoadTicket(x)
      BY <2>b, <3>1, <3>2 DEF LoadTicket
    <3>3. CASE LoadAttachments(x)
      <4>1. snapshot[x].evidenceRevision \in Nat
        BY <3>1 DEF AfterSalesTicket
      <4>. QED
        BY <2>a, <3>1, <3>3, <4>1 DEF LoadAttachments, Accepted
    <3>. QED
      BY <2>1, <3>2, <3>3
  <2>2. ASSUME NEW x \in Reviewers, NEW g \in Stages, NEW any \in BOOLEAN,
               ReadAndDecide(x, g, any)
        PROVE TypeOK'
    <3>1. x \in Actors
      BY DEF Actors
    <3>2. EarlyAnswer(ticket, context[x].revision, any) \in Replies
      BY DEF EarlyAnswer, Replies
    <3>. QED
      BY <2>2, <2>b, <2>c, <3>1, <3>2 DEF ReadAndDecide
  <2>3. ASSUME NEW x \in Reviewers, ApplyAiApproval(x) PROVE TypeOK'
    <3>1. x \in Actors
      BY DEF Actors
    <3>2. StaleReviewReply(snapshot[x], context[x].revision) \in Replies
      BY DEF StaleReviewReply, Replies
    <3>3. "applied" \in Replies
      BY DEF Replies
    <3>4. "APPROVE" \in Verdicts /\ ticket' \in AfterSalesTicket
      BY <2>3, RowUpdatesTyped DEF ApplyAiApproval, Verdicts, Statuses, Pending
    <3>. QED
      BY <2>3, <2>a, <2>c, <3>1, <3>2, <3>3, <3>4 DEF ApplyAiApproval
  <2>4. ASSUME NEW x \in Reviewers, ApplyManualReview(x) PROVE TypeOK'
    <3>1. x \in Actors
      BY DEF Actors
    <3>2. "applied" \in Replies /\ "idempotentReplay" \in Replies
      BY DEF Replies
    <3>3. "MANUAL_REVIEW_REQUIRED" \in Verdicts /\ ticket' \in AfterSalesTicket
      BY <2>4, RowUpdatesTyped DEF ApplyManualReview, Verdicts, Statuses, Pending
    <3>. QED
      BY <2>4, <2>a, <2>c, <3>1, <3>2, <3>3 DEF ApplyManualReview
  <2>5. ASSUME NEW x \in Reviewers, RequestMissingEvidence(x) PROVE TypeOK'
    <3>1. {"STALE_EVIDENCE", "idempotentReplay", "waitingEvidence", "conflict"}
             \subseteq Replies
      BY DEF Replies
    <3>2. context[x].revision \in Nat /\ ticket' \in AfterSalesTicket
      BY <2>5, RowUpdatesTyped DEF RequestMissingEvidence, Statuses, Pending
    <3>3. reply' \in [Reviewers -> Replies]
      BY <2>5, <2>c, <3>1 DEF RequestMissingEvidence
    <3>. QED
      BY <2>5, <3>2, <3>3 DEF RequestMissingEvidence
  <2>6. ASSUME NEW s \in SupplementIds, Supplement(s) PROVE TypeOK'
    <3>1. ticket' \in AfterSalesTicket
      BY <2>6, RowUpdatesTyped DEF Supplement, Statuses, Pending
    <3>2. ticket'.evidenceRevision \in Nat
      BY <3>1 DEF AfterSalesTicket
    <3>. QED
      BY <2>6, <3>1, <3>2 DEF Supplement
  <2>7. ASSUME NEW x \in Staff, NEW g \in StaffStages, ReadAsStaff(x, g) PROVE TypeOK'
    BY <2>7, <2>b DEF ReadAsStaff, Actors, Stages
  <2>8. ASSUME NEW x \in Staff, WriteAsStaff(x) PROVE TypeOK'
    <3>1. x \in Actors /\ stage[x] \in StaffStages
      BY <2>8 DEF WriteAsStaff, Actors
    <3>2. [snapshot[x] EXCEPT !.status = StaffTarget[stage[x]]] \in AfterSalesTicket
      BY <3>1, RowUpdatesTyped, StaffTargetTyped
    <3>3. ticket' \in AfterSalesTicket
      BY <2>8, <3>2, RowUpdatesTyped DEF WriteAsStaff, Statuses, Pending
    <3>. QED
      BY <2>8, <2>a, <3>1, <3>3 DEF WriteAsStaff
  <2>9. ASSUME NEW x \in Gateways, GatewayNext(x) PROVE TypeOK'
    <3>1. x \in Actors
      BY DEF Actors
    <3>2. CASE ReadAsGateway(x)
      BY <3>1, <3>2, <2>b DEF ReadAsGateway, Stages
    <3>3. CASE WriteAsGateway(x)
      <4>1. ticket' \in AfterSalesTicket
        BY <3>1, <3>3, RowUpdatesTyped DEF WriteAsGateway, Statuses, Pending
      <4>. QED
        BY <3>1, <3>3, <2>a, <4>1 DEF WriteAsGateway
    <3>. QED
      BY <2>9, <3>2, <3>3 DEF GatewayNext
  <2>10. ASSUME NEW x \in Actors, RollBack(x) PROVE TypeOK'
    BY <2>10, <2>a DEF RollBack
  <2>11. CASE UNCHANGED vars
    BY <2>11 DEF vars
  <2>12. DecisionStages \subseteq Stages
    BY DEF Stages
  <2>. QED
    BY <2>1, <2>2, <2>3, <2>4, <2>5, <2>6, <2>7, <2>8, <2>9, <2>10, <2>11, <2>12
       DEF Next, ReviewerNext, SubmitAiReview, HandOff, StaffNext, DecisionStages
<1>. QED
  BY <1>1, <1>2, PTL DEF Spec

----------------------------------------------------------------------------
(* The record: verdict, result messages, prompts and accepted evidence.     *)

\* What a step may do to a reviewer's knowledge: a new snapshot is the row as it
\* is, and "applied" is answered only by a step that leaves a verdict on record.
ReadersStep ==
    /\ \A x \in Actors :
          snapshot'[x] \in {snapshot[x], ticket, NewTicket("PENDING_REVIEW")}
    /\ \A x \in Reviewers :
          reply'[x] = "applied" =>
              reply[x] = "applied" \/ ticket'.aiReviewResult # NULL

\* A blind update of a snapshot leaves the verdict as it is: a null property is
\* not written, and a verdict once read is still the one on record.
LEMMA BlindUpdateKeepsVerdict ==
    ASSUME RecordInv, NEW x \in Actors, NEW st \in Statuses
    PROVE  /\ UpdateById(ticket, snapshot[x]).aiReviewResult
                 = ticket.aiReviewResult
           /\ UpdateById(ticket, [snapshot[x] EXCEPT !.status = st]).aiReviewResult
                 = ticket.aiReviewResult
<1>1. ticket \in AfterSalesTicket /\ snapshot[x] \in AfterSalesTicket
  BY DEF RecordInv, TypeOK
<1>2. [snapshot[x] EXCEPT !.status = st] \in AfterSalesTicket
  BY <1>1, RowUpdatesTyped
<1>3. [snapshot[x] EXCEPT !.status = st].aiReviewResult = snapshot[x].aiReviewResult
  BY <1>1 DEF AfterSalesTicket
<1>4. snapshot[x].aiReviewResult # NULL =>
          snapshot[x].aiReviewResult = ticket.aiReviewResult
  BY DEF RecordInv, SnapshotsAgree
<1>5. ASSUME NEW entity \in AfterSalesTicket,
             entity.aiReviewResult = snapshot[x].aiReviewResult
      PROVE  UpdateById(ticket, entity).aiReviewResult = ticket.aiReviewResult
  <2>1. UpdateById(ticket, entity).aiReviewResult =
            IF entity.aiReviewResult = NULL THEN ticket.aiReviewResult
                                            ELSE entity.aiReviewResult
    BY <1>1, RowUpdatesVerdict
  <2>. QED
    BY <1>4, <1>5, <2>1
<1>. QED
  BY <1>1, <1>2, <1>3, <1>5

\* Every step of the detailed model is a step of the promise or leaves the
\* promised state alone, and treats the readers as ReadersStep says.
LEMMA StepsKeepThePromise ==
    ASSUME RecordInv, [Next]_vars
    PROVE  ReadersStep /\ [Promise!PromiseNext]_(Promise!promiseVars)
<1> DEFINE Quiet == /\ ticket'.aiReviewResult = ticket.aiReviewResult
                    /\ UNCHANGED <<notices, resume, prompts>>
<1> USE DEF Promise!NoVerdict, Promise!Verdicts
<1>a. Quiet => [Promise!PromiseNext]_(Promise!promiseVars)
  BY DEF Promise!promiseVars, Accepted
<1>b. TypeOK /\ ticket \in AfterSalesTicket
  BY DEF RecordInv, TypeOK
<1>c. \A x \in Actors : Close(x) => \A y \in Actors :
          snapshot'[y] \in {snapshot[y], ticket, NewTicket("PENDING_REVIEW")}
  BY <1>b DEF Close, TypeOK
<1>d. \A x \in Actors, g \in Stages : Begin(x, g) => \A y \in Actors :
          snapshot'[y] \in {snapshot[y], ticket, NewTicket("PENDING_REVIEW")}
  BY <1>b DEF Begin, TypeOK
<1>e. \A x \in Reviewers, r \in Replies \ {"applied"} : Answer(x, r) =>
          \A y \in Reviewers : reply'[y] = "applied" => reply[y] = "applied"
  BY <1>b DEF Answer, TypeOK
<1>f. Reviewers \subseteq Actors /\ Staff \subseteq Actors /\ Gateways \subseteq Actors
  BY DEF Actors
<1>g. ticket.aiReviewResult = NULL => notices = {}
  BY DEF RecordInv, AppliedIsOnRecord
<1>1. ASSUME NEW x \in Reviewers, LoadTicket(x) \/ LoadAttachments(x)
      PROVE  ReadersStep /\ Quiet
  BY <1>1, <1>c, <1>d, <1>f DEF LoadTicket, LoadAttachments, ReadersStep, Stages
<1>2. ASSUME NEW x \in Reviewers, NEW g \in Stages, NEW any \in BOOLEAN,
             ReadAndDecide(x, g, any)
      PROVE  ReadersStep /\ Quiet
  <2>1. EarlyAnswer(ticket, context[x].revision, any) \in Replies \ {"applied"}
    BY DEF EarlyAnswer, Replies
  <2>. QED
    BY <1>2, <1>d, <1>e, <1>f, <2>1 DEF ReadAndDecide, ReadersStep
<1>3. ASSUME NEW x \in Reviewers, ApplyAiApproval(x)
      PROVE  ReadersStep /\ [Promise!PromiseNext]_(Promise!promiseVars)
  <2>1. CASE ApprovalMatches(ticket, context[x].revision)
    <3>1. ticket.aiReviewResult = NULL /\ ticket'.aiReviewResult = "APPROVE"
      BY <1>3, <1>b, <2>1, RowUpdatesVerdict DEF ApplyAiApproval, ApprovalMatches
    <3>2. notices' = {"APPROVE"} /\ UNCHANGED <<resume, prompts>>
      BY <1>3, <1>g, <2>1, <3>1 DEF ApplyAiApproval
    <3>3. "APPROVE" \in Promise!Verdicts /\ Promise!Decide("APPROVE")
      BY <3>1, <3>2 DEF Promise!Decide, Accepted, NULL
    <3>4. ReadersStep
      BY <1>3, <1>c, <1>f, <3>1 DEF ApplyAiApproval, ReadersStep, NULL
    <3>. QED
      BY <3>3, <3>4 DEF Promise!PromiseNext
  <2>2. CASE ~ApprovalMatches(ticket, context[x].revision)
    <3>1. StaleReviewReply(snapshot[x], context[x].revision) \in Replies \ {"applied"}
      BY DEF StaleReviewReply, Replies
    <3>2. ReadersStep /\ Quiet
      BY <1>3, <1>c, <1>e, <1>f, <2>2, <3>1 DEF ApplyAiApproval, ReadersStep
    <3>. QED
      BY <3>2, <1>a
  <2>. QED
    BY <2>1, <2>2
<1>4. ASSUME NEW x \in Reviewers, ApplyManualReview(x)
      PROVE  ReadersStep /\ [Promise!PromiseNext]_(Promise!promiseVars)
  <2> DEFINE matches == ManualMatches(ticket, context[x].revision,
                                      stage[x] = "markManualAnyRevision")
  <2>1. CASE matches
    <3>1. /\ ticket.aiReviewResult = NULL
          /\ ticket'.aiReviewResult = "MANUAL_REVIEW_REQUIRED"
      BY <1>4, <1>b, <2>1, RowUpdatesVerdict DEF ApplyManualReview, ManualMatches
    <3>2. notices' = {"MANUAL_REVIEW_REQUIRED"} /\ UNCHANGED <<resume, prompts>>
      BY <1>4, <1>g, <2>1, <3>1 DEF ApplyManualReview
    <3>3. /\ "MANUAL_REVIEW_REQUIRED" \in Promise!Verdicts
          /\ Promise!Decide("MANUAL_REVIEW_REQUIRED")
      BY <3>1, <3>2 DEF Promise!Decide, Accepted, NULL
    <3>4. ReadersStep
      BY <1>4, <1>c, <1>f, <3>1 DEF ApplyManualReview, ReadersStep, NULL
    <3>. QED
      BY <3>3, <3>4 DEF Promise!PromiseNext
  <2>2. CASE ~matches
    <3>1. "idempotentReplay" \in Replies \ {"applied"}
      BY DEF Replies
    <3>2. ReadersStep /\ Quiet
      BY <1>4, <1>c, <1>e, <1>f, <2>2, <3>1 DEF ApplyManualReview, ReadersStep
    <3>. QED
      BY <3>2, <1>a
  <2>. QED
    BY <2>1, <2>2
<1>5. ASSUME NEW x \in Reviewers, RequestMissingEvidence(x)
      PROVE  ReadersStep /\ [Promise!PromiseNext]_(Promise!promiseVars)
  <2>1. {"STALE_EVIDENCE", "idempotentReplay", "waitingEvidence", "conflict"}
           \subseteq Replies \ {"applied"}
    BY DEF Replies
  <2>2. ReadersStep
    BY <1>5, <1>e, <2>1 DEF RequestMissingEvidence, ReadersStep
  <2>3. CASE prompts' = prompts /\ ticket' = ticket
    BY <1>5, <1>a, <2>2, <2>3 DEF RequestMissingEvidence
  <2>4. CASE ~(prompts' = prompts /\ ticket' = ticket)
    <3>1. /\ WaitingEvidenceMatches(ticket, context[x].revision)
          /\ context[x].revision \notin prompts
          /\ ticket' = WaitingEvidence(ticket)
          /\ prompts' = prompts \cup {context[x].revision}
          /\ UNCHANGED <<resume, notices>>
      BY <1>5, <2>4 DEF RequestMissingEvidence
    <3>2. ticket.aiReviewResult = NULL /\ ticket'.aiReviewResult = NULL
      BY <1>b, <3>1, RowUpdatesVerdict DEF WaitingEvidenceMatches
    <3>3. Promise!AskForEvidence
      BY <3>1, <3>2 DEF Promise!AskForEvidence, Accepted, NULL
    <3>. QED
      BY <2>2, <3>3 DEF Promise!PromiseNext
  <2>. QED
    BY <2>3, <2>4
<1>6. ASSUME NEW s \in SupplementIds, Supplement(s)
      PROVE  ReadersStep /\ [Promise!PromiseNext]_(Promise!promiseVars)
  <2>1. /\ ticket.aiReviewResult = NULL /\ ticket'.aiReviewResult = NULL
        /\ ticket' \in AfterSalesTicket
    BY <1>6, <1>b, RowUpdatesVerdict, RowUpdatesTyped
       DEF Supplement, AdvanceMatches, Statuses, Pending
  <2>2. ticket'.evidenceRevision # NotEnqueued
    BY <1>6, <1>b DEF Supplement, EvidenceAdvanced, AfterSalesTicket, NotEnqueued
  <2>3. s \notin Accepted /\ Accepted' = Accepted \cup {s}
    BY <1>6, <1>b, <2>2 DEF Supplement, Accepted, TypeOK
  <2>4. Promise!AcceptEvidence(s)
    BY <1>6, <2>1, <2>3 DEF Promise!AcceptEvidence, Supplement, NULL
  <2>5. ReadersStep
    BY <1>6 DEF Supplement, ReadersStep
  <2>. QED
    BY <2>4, <2>5 DEF Promise!PromiseNext
<1>7. ASSUME NEW x \in Staff, NEW g \in StaffStages, ReadAsStaff(x, g)
      PROVE  ReadersStep /\ Quiet
  BY <1>7, <1>d, <1>f DEF ReadAsStaff, ReadersStep, Stages
<1>8. ASSUME NEW x \in Staff, WriteAsStaff(x)
      PROVE  ReadersStep /\ Quiet
  <2>1. StaffTarget[stage[x]] \in Statuses
    BY <1>8, StaffTargetTyped DEF WriteAsStaff
  <2>. QED
    BY <1>8, <1>c, <1>f, <2>1, BlindUpdateKeepsVerdict DEF WriteAsStaff, ReadersStep
<1>9. ASSUME NEW x \in Gateways, GatewayNext(x)
      PROVE  ReadersStep /\ Quiet
  <2>1. CASE ReadAsGateway(x)
    BY <1>d, <1>f, <2>1 DEF ReadAsGateway, ReadersStep, Stages
  <2>2. CASE WriteAsGateway(x)
    <3>1. ticket'.aiReviewResult = ticket.aiReviewResult
      BY <1>f, <2>2, BlindUpdateKeepsVerdict DEF WriteAsGateway, Statuses, Pending
    <3>. QED
      BY <1>c, <1>f, <2>2, <3>1 DEF WriteAsGateway, ReadersStep
  <2>. QED
    BY <1>9, <2>1, <2>2 DEF GatewayNext
<1>10. ASSUME NEW x \in Actors, RollBack(x)
       PROVE  ReadersStep /\ Quiet
  BY <1>10, <1>c DEF RollBack, ReadersStep
<1>11. CASE UNCHANGED vars
  BY <1>11, <1>a DEF vars, ReadersStep
<1>12. DecisionStages \subseteq Stages
  BY DEF Stages
<1>. QED
  BY <1>1, <1>2, <1>3, <1>4, <1>5, <1>6, <1>7, <1>8, <1>9, <1>10, <1>11, <1>12, <1>a
     DEF Next, ReviewerNext, SubmitAiReview, HandOff, StaffNext, DecisionStages

\* A snapshot's verdict stays the one on record, by the write-once verdict.
LEMMA SnapshotsStayInAgreement ==
    ASSUME RecordInv, ReadersStep,
           ticket.aiReviewResult # NULL =>
               ticket'.aiReviewResult = ticket.aiReviewResult
    PROVE  SnapshotsAgree'
<1> SUFFICES ASSUME NEW x \in Actors, snapshot'[x].aiReviewResult # NULL
             PROVE  snapshot'[x].aiReviewResult = ticket'.aiReviewResult
  BY DEF SnapshotsAgree
<1>1. CASE snapshot'[x] = snapshot[x]
  BY <1>1 DEF RecordInv, SnapshotsAgree
<1>2. CASE snapshot'[x] = ticket
  BY <1>2
<1>3. CASE snapshot'[x] = NewTicket("PENDING_REVIEW")
  BY <1>3 DEF NewTicket
<1>. QED
  BY <1>1, <1>2, <1>3 DEF ReadersStep

\* RecordInv is inductive: type, snapshots and record.
LEMMA RecordInvIsInductive ==
    /\ Init => RecordInv
    /\ RecordInv /\ TypeOK' /\ [Next]_vars => RecordInv'
<1> USE DEF NULL, Promise!NoVerdict
<1>1. Init => RecordInv
  <2> SUFFICES ASSUME Init PROVE RecordInv
    OBVIOUS
  <2>1. TypeOK
    BY InitTyped
  <2>2. SnapshotsAgree /\ AppliedIsOnRecord
    BY DEF Init, NewTicket, SnapshotsAgree, AppliedIsOnRecord
  <2>. QED
    BY <2>1, <2>2 DEF RecordInv
<1>2. ASSUME RecordInv, TypeOK', [Next]_vars PROVE RecordInv'
  <2>1. ReadersStep /\ [Promise!PromiseNext]_(Promise!promiseVars)
    BY <1>2, StepsKeepThePromise
  <2>2. CASE \E v \in Promise!Verdicts : Promise!Decide(v)
    <3>1. PICK v \in Promise!Verdicts : Promise!Decide(v)
      BY <2>2
    <3>2. /\ ticket.aiReviewResult = NULL /\ v # NULL
          /\ ticket'.aiReviewResult = v /\ notices' = {v}
      BY <3>1 DEF Promise!Decide, Promise!Verdicts
    <3>3. AppliedIsOnRecord'
      BY <3>2 DEF AppliedIsOnRecord
    <3>4. SnapshotsAgree'
      BY <1>2, <2>1, <3>2, SnapshotsStayInAgreement
    <3>. QED
      BY <1>2, <3>3, <3>4 DEF RecordInv
  <2>3. CASE /\ ticket'.aiReviewResult = ticket.aiReviewResult
             /\ notices' = notices
    <3>1. AppliedIsOnRecord'
      BY <1>2, <2>1, <2>3 DEF AppliedIsOnRecord, RecordInv, ReadersStep
    <3>2. SnapshotsAgree'
      BY <1>2, <2>1, <2>3, SnapshotsStayInAgreement
    <3>. QED
      BY <1>2, <3>1, <3>2 DEF RecordInv
  <2>. QED
    BY <2>1, <2>2, <2>3 DEF Promise!PromiseNext, Promise!AcceptEvidence,
                            Promise!AskForEvidence, Promise!promiseVars
<1>. QED
  BY <1>1, <1>2

\* RecordInv holds always.
THEOREM RecordIsSound == Spec => []RecordInv
<1>1. Spec => []TypeOK
  BY TypeCorrect
<1>2. Init => RecordInv
  BY RecordInvIsInductive
<1>3. RecordInv /\ TypeOK' /\ [Next]_vars => RecordInv'
  BY RecordInvIsInductive
<1>. QED
  BY <1>1, <1>2, <1>3, PTL DEF Spec

\* "applied" is never answered for a verdict that is not on record, and the user
\* has the result message of the verdict on record and no other: submitAiReview
\* and markManualRequired against every other transaction on the ticket.
THEOREM AppliedMeansRecorded == Spec => []AppliedIsOnRecord
<1>1. RecordInv => AppliedIsOnRecord
  BY DEF RecordInv
<1>. QED
  BY <1>1, RecordIsSound, PTL

\* The transactions on a ticket implement ReviewPromise: one verdict, told once,
\* and no evidence asked for or accepted after it.
THEOREM TransactionsImplementPromise == Spec => ImplementsPromise
<1>1. Init => Promise!PromiseInit
  BY DEF Init, Promise!PromiseInit, NewTicket, Accepted, NULL, Promise!NoVerdict
<1>2. RecordInv /\ [Next]_vars => [Promise!PromiseNext]_(Promise!promiseVars)
  BY StepsKeepThePromise
<1>. QED
  BY <1>1, <1>2, RecordIsSound, PTL DEF Spec, ImplementsPromise, Promise!PromiseSpec

----------------------------------------------------------------------------
(* The evidence of a ticket no chat fallback runs on (Gateways = {}).       *)

\* What each update does to the status and to the revision of the row.
LEMMA RowUpdatesStatus ==
    ASSUME NEW row \in AfterSalesTicket, NEW entity \in AfterSalesTicket,
           NEW st \in Statuses
    PROVE  /\ AiApproved(row).status \notin Pending
           /\ ManualRequired(row).evidenceRevision = row.evidenceRevision
           /\ WaitingEvidence(row).status = row.status
           /\ WaitingEvidence(row).evidenceRevision = row.evidenceRevision
           /\ EvidenceAdvanced(row).status = row.status
           /\ EvidenceAdvanced(row).evidenceRevision = row.evidenceRevision + 1
           /\ UpdateById(row, [entity EXCEPT !.status = st]).status = st
    BY DEF AfterSalesTicket, Pending, AiApproved, ManualRequired, WaitingEvidence,
           EvidenceAdvanced, UpdateById

\* A snapshot is never ahead of a pending ticket's revision.
LEMMA SnapshotsNotAhead ==
    ASSUME EvidenceInv, ReadersStep, ticket.status \in Pending
    PROVE  \A x \in Reviewers : snapshot'[x].evidenceRevision <= ticket.evidenceRevision
<1> SUFFICES ASSUME NEW x \in Reviewers
             PROVE  snapshot'[x].evidenceRevision <= ticket.evidenceRevision
  OBVIOUS
<1>1. x \in Actors /\ ticket.evidenceRevision \in Nat
  BY DEF Actors, EvidenceInv, RecordInv, TypeOK, AfterSalesTicket
<1>2. CASE snapshot'[x] = snapshot[x]
  BY <1>2 DEF EvidenceInv, ContextsAreCurrent
<1>3. CASE snapshot'[x] = ticket
  BY <1>1, <1>3
<1>4. CASE snapshot'[x] = NewTicket("PENDING_REVIEW")
  BY <1>1, <1>4 DEF NewTicket
<1>. QED
  BY <1>1, <1>2, <1>3, <1>4 DEF ReadersStep

\* Only Supplement touches the accepted evidence and only approvals what they
\* were decided on; a step that moves neither the revision nor a context while
\* the ticket stays pending keeps the evidence in order.
LEMMA EvidenceUntouched ==
    ASSUME EvidenceInv, ReadersStep,
           UNCHANGED <<resume, context, decidedOn>>,
           ticket'.aiReviewResult # ticket.aiReviewResult =>
               ticket'.aiReviewResult # "APPROVE",
           ticket'.status \in Pending =>
               /\ ticket.status \in Pending
               /\ ticket'.evidenceRevision = ticket.evidenceRevision
    PROVE  /\ RevisionNamesEvidence'
           /\ ContextsAreCurrent'
           /\ ApprovalCoversEvidence'
<1>1. Accepted' = Accepted
  BY DEF Accepted
<1>2. RevisionNamesEvidence'
  BY <1>1 DEF EvidenceInv, RevisionNamesEvidence
<1>3. ContextsAreCurrent'
  BY <1>1, SnapshotsNotAhead DEF EvidenceInv, ContextsAreCurrent
<1>4. ApprovalCoversEvidence'
  BY <1>1 DEF EvidenceInv, ApprovalCoversEvidence
<1>. QED
  BY <1>2, <1>3, <1>4

\* A step that leaves the row and the evidence alone.
LEMMA EvidenceStutters ==
    ASSUME EvidenceInv, ReadersStep, UNCHANGED <<ticket, resume, context, decidedOn>>
    PROVE  /\ RevisionNamesEvidence'
           /\ ContextsAreCurrent'
           /\ ApprovalCoversEvidence'
           /\ ticket.status \notin Pending => ticket'.status \notin Pending
  BY EvidenceUntouched

\* EvidenceInv is inductive where no gateway writes back an old row, and under it
\* a ticket that left the pending states stays out of them.
LEMMA EvidenceInvStep ==
    ASSUME Gateways = {}, EvidenceInv, RecordInv', [Next]_vars
    PROVE  /\ EvidenceInv'
           /\ ticket.status \notin Pending => ticket'.status \notin Pending
<1> DEFINE Goal == /\ RevisionNamesEvidence'
                   /\ ContextsAreCurrent'
                   /\ ApprovalCoversEvidence'
                   /\ ticket.status \notin Pending => ticket'.status \notin Pending
<1>a. RecordInv /\ TypeOK /\ ticket \in AfterSalesTicket
  BY DEF EvidenceInv, RecordInv, TypeOK
<1>b. ReadersStep
  BY <1>a, StepsKeepThePromise
<1>1. ASSUME NEW x \in Reviewers, LoadTicket(x) \/ LoadAttachments(x) PROVE Goal
  <2>1. CASE LoadTicket(x)
    BY <1>b, <2>1, EvidenceStutters DEF LoadTicket
  <2>2. CASE LoadAttachments(x)
    <3>1. /\ Accepted' = Accepted
          /\ UNCHANGED <<ticket, resume, decidedOn>>
          /\ \A y \in Reviewers :
                \/ context'[y] = context[y]
                \/ context'[y] = [revision |-> snapshot[y].evidenceRevision,
                                  seen |-> Accepted]
      BY <1>a, <2>2 DEF LoadAttachments, Accepted, TypeOK
    <3>2. ContextsAreCurrent'
      <4> SUFFICES ASSUME ticket.status \in Pending, NEW y \in Reviewers
                   PROVE  /\ snapshot'[y].evidenceRevision <= ticket.evidenceRevision
                          /\ context'[y].revision <= ticket.evidenceRevision
                          /\ context'[y].seen \subseteq Accepted
                          /\ {s \in Accepted : resume[s] <= context'[y].revision}
                                \subseteq context'[y].seen
        BY <3>1 DEF ContextsAreCurrent
      <4>1. snapshot'[y].evidenceRevision <= ticket.evidenceRevision
        BY <1>b, SnapshotsNotAhead
      <4>2. CASE context'[y] = context[y]
        BY <4>1, <4>2 DEF EvidenceInv, ContextsAreCurrent
      <4>3. CASE context'[y] = [revision |-> snapshot[y].evidenceRevision,
                                seen |-> Accepted]
        BY <4>1, <4>3 DEF EvidenceInv, ContextsAreCurrent
      <4>. QED
        BY <3>1, <4>2, <4>3
    <3>3. RevisionNamesEvidence' /\ ApprovalCoversEvidence'
      BY <3>1 DEF EvidenceInv, RevisionNamesEvidence, ApprovalCoversEvidence
    <3>. QED
      BY <3>1, <3>2, <3>3
  <2>. QED
    BY <1>1, <2>1, <2>2
<1>2. ASSUME NEW x \in Reviewers, NEW g \in Stages, NEW any \in BOOLEAN,
             ReadAndDecide(x, g, any)
      PROVE  Goal
  BY <1>2, <1>b, EvidenceStutters DEF ReadAndDecide
<1>3. ASSUME NEW x \in Reviewers, ApplyAiApproval(x) PROVE Goal
  <2>1. CASE ~ApprovalMatches(ticket, context[x].revision)
    BY <1>3, <2>1, <1>b, EvidenceStutters DEF ApplyAiApproval
  <2>2. CASE ApprovalMatches(ticket, context[x].revision)
    <3>1. /\ ticket.status \in Pending
          /\ ticket.evidenceRevision = context[x].revision
          /\ ticket' = AiApproved(ticket)
          /\ decidedOn' = context[x].seen
          /\ UNCHANGED <<resume, context>>
      BY <1>3, <2>2 DEF ApplyAiApproval, ApprovalMatches
    <3>2. ticket'.status \notin Pending
      BY <1>a, <3>1, RowUpdatesStatus DEF Statuses, Pending
    <3>3. /\ context[x].seen \subseteq Accepted
          /\ {s \in Accepted : resume[s] <= ticket.evidenceRevision}
                \subseteq context[x].seen
      BY <3>1 DEF EvidenceInv, ContextsAreCurrent
    <3>4. \A s \in Accepted : resume[s] \in 1 .. ticket.evidenceRevision
      BY <3>1 DEF EvidenceInv, RevisionNamesEvidence
    <3>5. decidedOn' = Accepted'
      BY <3>1, <3>3, <3>4 DEF Accepted
    <3>. QED
      BY <3>2, <3>5 DEF RevisionNamesEvidence, ContextsAreCurrent, ApprovalCoversEvidence
  <2>. QED
    BY <2>1, <2>2
<1>4. ASSUME NEW x \in Reviewers, ApplyManualReview(x) PROVE Goal
  <2>1. CASE ticket' = ticket
    BY <1>4, <2>1, <1>b, EvidenceStutters DEF ApplyManualReview
  <2>2. CASE ticket' # ticket
    <3>1. ticket.status \in Pending /\ ticket' = ManualRequired(ticket)
      BY <1>4, <2>2 DEF ApplyManualReview, ManualMatches
    <3>2. /\ ticket'.evidenceRevision = ticket.evidenceRevision
          /\ ticket'.aiReviewResult = "MANUAL_REVIEW_REQUIRED"
      BY <1>a, <3>1, RowUpdatesStatus, RowUpdatesVerdict DEF Statuses, Pending
    <3>. QED
      BY <1>4, <3>1, <3>2, <1>b, EvidenceUntouched DEF ApplyManualReview
  <2>. QED
    BY <2>1, <2>2
<1>5. ASSUME NEW x \in Reviewers, RequestMissingEvidence(x) PROVE Goal
  <2>1. CASE ticket' = ticket
    BY <1>5, <2>1, <1>b, EvidenceStutters DEF RequestMissingEvidence
  <2>2. CASE ticket' # ticket
    <3>1. ticket' = WaitingEvidence(ticket)
      BY <1>5, <2>2 DEF RequestMissingEvidence
    <3>2. /\ ticket'.evidenceRevision = ticket.evidenceRevision
          /\ ticket'.status = ticket.status
          /\ ticket'.aiReviewResult = ticket.aiReviewResult
      BY <1>a, <3>1, RowUpdatesStatus, RowUpdatesVerdict DEF Statuses, Pending
    <3>. QED
      BY <1>5, <3>2, <1>b, EvidenceUntouched DEF RequestMissingEvidence
  <2>. QED
    BY <2>1, <2>2
<1>6. ASSUME NEW s \in SupplementIds, Supplement(s) PROVE Goal
  <2> DEFINE rev == ticket.evidenceRevision
  <2>1. /\ ticket.status \in Pending /\ ticket.aiReviewResult = NULL
        /\ s \notin Accepted
        /\ ticket' = EvidenceAdvanced(ticket)
        /\ resume' = [resume EXCEPT ![s] = ticket'.evidenceRevision]
        /\ UNCHANGED <<context, decidedOn>>
    BY <1>6 DEF Supplement, AdvanceMatches, IsReviewable
  <2>2. /\ rev \in Nat
        /\ ticket'.evidenceRevision = rev + 1
        /\ ticket'.status = ticket.status
        /\ ticket'.aiReviewResult = NULL
    BY <1>a, <2>1, RowUpdatesStatus, RowUpdatesVerdict DEF Statuses, Pending, AfterSalesTicket
  <2>3. /\ Accepted' = Accepted \cup {s}
        /\ resume'[s] = rev + 1
        /\ \A t \in Accepted : resume'[t] = resume[t]
    BY <1>a, <2>1, <2>2 DEF Accepted, TypeOK, NotEnqueued
  <2>4. /\ {resume[t] : t \in Accepted} = 1 .. rev
        /\ \A t, u \in Accepted : resume[t] = resume[u] => t = u
    BY <2>1 DEF EvidenceInv, RevisionNamesEvidence
  <2>5. {resume'[t] : t \in Accepted'} = {resume[t] : t \in Accepted} \cup {rev + 1}
    BY <2>3
  <2>6. 1 .. (rev + 1) = (1 .. rev) \cup {rev + 1}
    BY <2>2
  <2>7. \A t \in Accepted : resume[t] \in 1 .. rev
    BY <2>4
  <2>8. \A t, u \in Accepted' : resume'[t] = resume'[u] => t = u
    BY <2>2, <2>3, <2>4, <2>7
  <2>9. RevisionNamesEvidence'
    BY <2>2, <2>4, <2>5, <2>6, <2>8 DEF RevisionNamesEvidence
  <2>10. ContextsAreCurrent'
    <3> SUFFICES ASSUME NEW y \in Reviewers
                 PROVE  /\ snapshot'[y].evidenceRevision <= rev + 1
                        /\ context[y].revision <= rev + 1
                        /\ context[y].seen \subseteq Accepted'
                        /\ {t \in Accepted' : resume'[t] <= context[y].revision}
                              \subseteq context[y].seen
      BY <2>1, <2>2 DEF ContextsAreCurrent
    <3>1. /\ context[y].revision <= rev
          /\ context[y].seen \subseteq Accepted
          /\ {t \in Accepted : resume[t] <= context[y].revision}
                \subseteq context[y].seen
      BY <2>1 DEF EvidenceInv, ContextsAreCurrent
    <3>2. context[y].revision \in Nat
      BY <1>a DEF TypeOK
    <3>3. snapshot'[y].evidenceRevision \in Nat
      BY DEF RecordInv, TypeOK, AfterSalesTicket, Actors
    <3>4. snapshot'[y].evidenceRevision <= rev
      BY <1>b, <2>1, SnapshotsNotAhead
    <3>. QED
      BY <2>2, <2>3, <3>1, <3>2, <3>3, <3>4
  <2>11. ApprovalCoversEvidence'
    BY <2>2 DEF ApprovalCoversEvidence, NULL
  <2>. QED
    BY <2>1, <2>9, <2>10, <2>11
<1>7. ASSUME NEW x \in Staff, NEW g \in StaffStages, ReadAsStaff(x, g) PROVE Goal
  BY <1>7, <1>b, EvidenceStutters DEF ReadAsStaff
<1>8. ASSUME NEW x \in Staff, WriteAsStaff(x) PROVE Goal
  <2>1. x \in Actors /\ StaffTarget[stage[x]] \in Statuses \ Pending
    BY <1>8, StaffTargetTyped DEF WriteAsStaff, Actors
  <2>2. snapshot[x] \in AfterSalesTicket
    BY <1>a, <2>1 DEF TypeOK
  <2>3. ticket'.status \notin Pending
    BY <1>8, <1>a, <2>1, <2>2, RowUpdatesStatus DEF WriteAsStaff
  <2>4. ticket'.aiReviewResult = ticket.aiReviewResult
    BY <1>8, <1>a, <2>1, BlindUpdateKeepsVerdict DEF WriteAsStaff
  <2>. QED
    BY <1>8, <2>3, <2>4, <1>b, EvidenceUntouched DEF WriteAsStaff
<1>9. ASSUME NEW x \in Actors, RollBack(x) PROVE Goal
  BY <1>9, <1>b, EvidenceStutters DEF RollBack
<1>10. ASSUME UNCHANGED vars PROVE Goal
  BY <1>10, <1>b, EvidenceStutters DEF vars
<1>11. DecisionStages \subseteq Stages
  BY DEF Stages
<1>12. Goal
  BY <1>1, <1>2, <1>3, <1>4, <1>5, <1>6, <1>7, <1>8, <1>9, <1>10, <1>11
     DEF Next, ReviewerNext, SubmitAiReview, HandOff, StaffNext, DecisionStages
<1>. QED
  BY <1>12 DEF EvidenceInv

\* Without a chat fallback on the ticket, every reviewer, merchant and supplement
\* together keep the evidence in order.
THEOREM EvidenceIsSound ==
    ASSUME Gateways = {} PROVE Spec => []EvidenceInv
<1>1. Init /\ RecordInv => EvidenceInv
  <2> SUFFICES ASSUME Init, RecordInv PROVE EvidenceInv
    OBVIOUS
  <2>1. Accepted = {} /\ ticket.evidenceRevision = 0 /\ ticket.aiReviewResult = NULL
    BY DEF Init, Accepted, NewTicket, NotEnqueued
  <2>2. {resume[s] : s \in Accepted} = 1 .. 0
    BY <2>1
  <2>3. RevisionNamesEvidence
    BY <2>1, <2>2 DEF RevisionNamesEvidence
  <2>4. \A x \in Reviewers : /\ context[x].revision = 0 /\ context[x].seen = {}
                             /\ snapshot[x].evidenceRevision = 0
    BY DEF Init, NewTicket, Actors
  <2>5. ContextsAreCurrent
    <3>1. ASSUME NEW x \in Reviewers
          PROVE  {s \in Accepted : resume[s] <= context[x].revision} = {}
      BY <2>1
    <3>2. ASSUME NEW x \in Reviewers
          PROVE  /\ context[x].revision <= ticket.evidenceRevision
                 /\ snapshot[x].evidenceRevision <= ticket.evidenceRevision
      BY <2>1, <2>4
    <3>. QED
      BY <2>4, <3>1, <3>2 DEF ContextsAreCurrent
  <2>. QED
    BY <2>1, <2>3, <2>5 DEF EvidenceInv, ApprovalCoversEvidence, NULL
<1>2. EvidenceInv /\ RecordInv' /\ [Next]_vars => EvidenceInv'
  BY EvidenceInvStep
<1>. QED
  BY <1>1, <1>2, RecordIsSound, PTL DEF Spec

\* Without a chat fallback on the ticket, an AI approval covers every supplement
\* the user was told is accepted: the revision check of applyAiApprovalIfPending.
THEOREM ApprovalIsOnAllEvidence ==
    ASSUME Gateways = {} PROVE Spec => []ApprovalCoversEvidence
<1>1. EvidenceInv => ApprovalCoversEvidence
  BY DEF EvidenceInv
<1>. QED
  BY <1>1, EvidenceIsSound, PTL

\* Without a chat fallback on the ticket, the supplements of a pending ticket
\* carry the revisions 1 .. evidenceRevision, each once.
THEOREM RevisionsNameEvidence ==
    ASSUME Gateways = {} PROVE Spec => []RevisionNamesEvidence
<1>1. EvidenceInv => RevisionNamesEvidence
  BY DEF EvidenceInv
<1>. QED
  BY <1>1, EvidenceIsSound, PTL

\* Without a chat fallback on the ticket, a decided ticket is never pending again.
THEOREM DecidedStaysDecided ==
    ASSUME Gateways = {} PROVE Spec => NoReturnToPending
<1>1. EvidenceInv /\ RecordInv' /\ [Next]_vars =>
          [ticket.status \notin Pending => ticket'.status \notin Pending]_vars
  BY EvidenceInvStep
<1>. QED
  BY <1>1, EvidenceIsSound, RecordIsSound, PTL DEF Spec, NoReturnToPending
=============================================================================
