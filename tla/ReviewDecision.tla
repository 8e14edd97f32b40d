---------------------------- MODULE ReviewDecision ----------------------------
(***************************************************************************)
(* How the formal review of one ticket comes to its verdict: the graph of  *)
(* agent/workflows/formal_review, its policy branch (PolicyWorkflow, on    *)
(* KnowledgeSearch) and its evidence branch (EvidenceWorkflow, on          *)
(* ImageReview), the synthesis, the deterministic gate, and the guard      *)
(* Java puts before an approval (InternalAgentToolsController).  The user  *)
(* may send more evidence and the merchant may decide at any time.         *)
(*                                                                         *)
(* ReviewRuns leaves the verdict open and models how runs of one review    *)
(* are started, killed and repeated; here one run is followed and the      *)
(* verdict is worked out.                                                  *)
(***************************************************************************)
EXTENDS KnowledgeSearch, ImageReview

CONSTANTS
    Pictures,       \* pictures the user may have
    GateMinimum,    \* FORMAL_REVIEW_MIN_CONFIDENCE, in percent
    GuardMinimum,   \* app.agent.review.minimum-confidence, in percent
    Threshold,      \* least score of a trusted policy, in percent
    MaxRevision     \* bound on the supplements of the user

\* The two minima are set apart, with the same default.
ASSUME DecisionAssumption ==
    /\ Pictures \subseteq Images
    /\ GateMinimum \in 0..100
    /\ GuardMinimum \in 0..GateMinimum
    /\ Threshold \in 0..100
    /\ MaxRevision \in Nat

VARIABLES
    knowledge,  \* corpus, the chunks of it that are the merchant's own, filters, reranker
    ticket,     \* the ticket in Java's database
    stage,      \* node of the graph the run is at
    context,    \* the trusted context: what the run read of the ticket
    search,     \* the policy branch
    look,       \* the evidence branch
    proposal    \* the proposal, and whether the language model made it

vars == <<knowledge, ticket, stage, context, search, look, proposal>>

Tickets == [open : BOOLEAN, verdict : {"none", "APPROVE", "MANUAL"}, versioned : BOOLEAN,
            described : BOOLEAN, images : SUBSET Pictures, revision : 0..MaxRevision]

PolicyAssessments ==
    [success : BOOLEAN, eligible : BOOLEAN, strict : BOOLEAN, reranked : BOOLEAN,
     mode : Modes \cup {"none"}, cited : SUBSET Chunks, score : 0..100, required : BOOLEAN]

Proposals == [verdict : {"APPROVE", "MANUAL"}, synthesized : BOOLEAN, confidence : 0..10000]

Stages == {"loading", "validating", "reviewing", "gating", "submitting", "handingOff",
           "requesting", "waiting", "over", "raised"}

NoPolicy == [success |-> FALSE, eligible |-> FALSE, strict |-> FALSE, reranked |-> FALSE,
             mode |-> "none", cited |-> {}, score |-> 0, required |-> FALSE]

NoProposal == [verdict |-> "MANUAL", synthesized |-> FALSE, confidence |-> 0]

NoSearch == [at |-> "none", policy |-> NoPolicy]

NoLook == [at |-> "none", evidence |-> NoEvidence(FALSE)]

-----------------------------------------------------------------------------
\* PolicyEvaluator.assess: what is cited is trusted, of the ticket's merchant
\* and policy version, and valid at the time the ticket was opened.
Citable(r) ==
    {c \in r.trusted : ticket.versioned /\ c \in knowledge.own /\ c.valid}

Eligible(r) ==
    /\ Citable(r) # {}
    /\ r.eligible
    /\ r.plan = Strict
    /\ r.mode \in {"hybrid_reranked"} \cup MultiQueryModes

\* The best score of the cited chunks; a fusion without reranker has none and
\* counts in full.  "required": a cited policy asks for a picture of its own.
AssessPolicy(r, best, required) ==
    LET found == Citable(r) # {} IN
    [success |-> TRUE, eligible |-> Eligible(r), strict |-> r.plan = Strict,
     reranked |-> r.reranked, mode |-> r.mode, cited |-> Citable(r),
     score |-> CASE ~found -> 0
                 [] found /\ r.mode = "multi_query_rrf" -> 100
                 [] OTHER -> best,
     required |-> found /\ required]

\* Requirements of the policy are met by a verifiable picture.
Unresolved(p, e) ==
    [e EXCEPT !.missing = @ \cup {r \in {"required"} : p.required /\ ~e.verifiable}]

\* FormalReviewSop.assess_escalation: otherwise the case is routine.
Escalated(p, e) ==
    \/ ~p.success \/ ~p.eligible \/ ~p.strict \/ p.cited = {}
    \/ ~p.reranked /\ p.mode # "multi_query_rrf"
    \/ e.risk \/ e.consistent = "no"
    \/ ~e.success \/ ~e.verifiable \/ e.confidence < GateMinimum
    \/ e.missing # {}

\* FormalReviewSop.build_routine_proposal
RoutineVerdict(p, e) ==
    IF /\ p.success /\ p.eligible /\ p.cited # {}
       /\ e.success /\ e.verifiable /\ e.consistent = "yes" /\ ~e.risk
    THEN "APPROVE" ELSE "MANUAL"

Weight(holds, weight) == IF holds THEN weight ELSE 0

\* Mutant of Confidence: the weights do not add up to one.
ConfidenceOverweight(p, e) == 60 * p.score + 50 * e.confidence

\* apply_deterministic_confidence, in units of 0.0001; the model's own
\* confidence plays no part.
Confidence(p, e) ==
    35 * p.score + 30 * e.confidence
        + Weight(/\ p.success /\ p.eligible /\ p.cited # {} /\ p.strict
                 /\ p.reranked \/ p.mode = "multi_query_rrf", 2000)
        + Weight(/\ e.success /\ e.verifiable /\ e.consistent = "yes"
                 /\ e.missing = {} /\ ~e.risk, 1500)

\* Mutant of Gate: the proposal and its confidence decide.
GateByConfidence(p, e, pr) ==
    IF pr.confidence >= 100 * GateMinimum /\ pr.verdict = "APPROVE" THEN "submitting" ELSE "handingOff"

\* deterministic_gate.  Without pictures the run has not come here.
Gate(p, e, pr) ==
    IF /\ ~e.risk /\ e.success /\ e.verifiable /\ e.confidence >= GateMinimum
       /\ p.success /\ p.eligible /\ p.cited # {}
       /\ pr.confidence >= 100 * GateMinimum
       /\ pr.verdict = "APPROVE" /\ e.consistent = "yes"
    THEN "submitting" ELSE "handingOff"

\* Mutant of ApprovalGuardFailure: the fusion without reranker is not excepted.
GuardNeedsReranker(p, e, confidence) ==
    \/ ~p.eligible \/ e.consistent # "yes" \/ ~p.strict \/ ~p.reranked
    \/ confidence < 100 * GuardMinimum
    \/ ~ticket.versioned
    \/ p.cited = {}

\* approvalGuardFailure: what makes Java turn an approval into a manual review.
ApprovalGuardFailure(p, e, confidence) ==
    \/ ~p.eligible
    \/ e.consistent # "yes"
    \/ ~p.strict
    \/ ~p.reranked /\ p.mode # "multi_query_rrf"
    \/ confidence < 100 * GuardMinimum
    \/ ~ticket.versioned
    \/ p.cited = {}

-----------------------------------------------------------------------------
\* An order gives the search a category or not.  Chunks that differ only in
\* what no filter looks at are one; one that fails the hard filters is the
\* merchant's own, where it could do harm.
Init ==
    /\ \E corpus \in SUBSET {c \in Chunks : c.misses \subseteq {"category"} /\ (c.valid \/ c.misses = {})},
          asks \in SUBSET {"category"}, configured \in BOOLEAN :
              \E own \in {o \in SUBSET corpus : \A c \in corpus : c.valid \/ c \in o} :
                  knowledge = [corpus |-> corpus, own |-> own, asks |-> asks, configured |-> configured]
    /\ \E versioned, described \in BOOLEAN, first \in {{}} \cup {{i} : i \in Pictures} :
           ticket = [open |-> TRUE, verdict |-> "none", versioned |-> versioned,
                     described |-> described, images |-> first, revision |-> 0]
    /\ stage = "loading"
    /\ context = [images |-> {}, described |-> FALSE, revision |-> 0]
    /\ search = NoSearch
    /\ look = NoLook
    /\ proposal = NoProposal

\* The user adds a picture, a description, or both.
Supplement ==
    /\ ticket.open
    /\ ticket.verdict = "none"
    /\ ticket.revision < MaxRevision
    /\ \E more \in {{}} \cup {{i} : i \in Pictures}, told \in BOOLEAN :
           /\ told \/ more \ ticket.images # {}
           /\ ticket' = [ticket EXCEPT !.images = @ \cup more, !.described = @ \/ told,
                                       !.revision = @ + 1]
    /\ UNCHANGED <<knowledge, stage, context, search, look, proposal>>

MerchantDecides ==
    /\ ticket.open
    /\ ticket' = [ticket EXCEPT !.open = FALSE]
    /\ UNCHANGED <<knowledge, stage, context, search, look, proposal>>

-----------------------------------------------------------------------------
Goto(s) == stage' = s

\* An attempt that was resumed starts from nothing (prepare_resumed_attempt),
\* and after the submission nothing of the attempt is read any more.
Discard == search' = NoSearch /\ look' = NoLook /\ proposal' = NoProposal

LoadTrustedContext ==
    /\ stage = "loading"
    /\ context' = [images |-> ticket.images, described |-> ticket.described,
                   revision |-> ticket.revision]
    /\ Goto(IF ticket.open THEN "validating" ELSE "handingOff")
    /\ UNCHANGED <<knowledge, ticket, search, look, proposal>>

\* Without a context the run hands off evidence revision 0.
LoadFails ==
    /\ stage = "loading"
    /\ context' = [images |-> {}, described |-> FALSE, revision |-> 0]
    /\ Goto("handingOff")
    /\ UNCHANGED <<knowledge, ticket, search, look, proposal>>

\* sop_plan then starts both branches.
ValidateReviewInputs ==
    /\ stage = "validating"
    /\ IF context.described /\ context.images # {}
       THEN /\ Goto("reviewing")
            /\ search' = [search EXCEPT !.at = "search"]
            /\ look' = [look EXCEPT !.at = "look"]
       ELSE Goto("requesting") /\ UNCHANGED <<search, look>>
    /\ UNCHANGED <<knowledge, ticket, context, proposal>>

Assessed(r) ==
    {AssessPolicy(r, best, required) : best \in {Threshold, 100}, required \in BOOLEAN}

\* retrieve_policy, observe_policy_result and the route after them.
RetrievePolicy ==
    /\ search.at = "search"
    /\ \/ \E r \in Searches(knowledge.corpus, knowledge.asks, knowledge.configured) :
              \E p \in Assessed(r) :
                  search' = [at |-> IF p.eligible \/ IsInfrastructureFailure(r)
                                    THEN "done" ELSE "rewriting",
                             policy |-> p]
       \/ search' = [at |-> "done", policy |-> NoPolicy]
    /\ UNCHANGED <<knowledge, ticket, stage, context, look, proposal>>

\* The model may fail, or find the knowledge sufficient as it is.
RewritePolicyQuery ==
    /\ search.at = "rewriting"
    /\ \E proposed \in BOOLEAN :
           search' = [search EXCEPT !.at = IF proposed THEN "multi" ELSE "done"]
    /\ UNCHANGED <<knowledge, ticket, stage, context, look, proposal>>

RetrievePolicyMulti ==
    /\ search.at = "multi"
    /\ \/ \E r \in MultiSearches(knowledge.corpus, knowledge.asks, knowledge.configured) :
              \E p \in Assessed(r) : search' = [at |-> "done", policy |-> p]
       \/ search' = [at |-> "done", policy |-> NoPolicy]
    /\ UNCHANGED <<knowledge, ticket, stage, context, look, proposal>>

ReviewEvidence ==
    /\ look.at = "look"
    /\ \E reviewed \in BOOLEAN :
           look' = [at |-> "done", evidence |-> AssessEvidence(context.images, reviewed)]
    /\ UNCHANGED <<knowledge, ticket, stage, context, search, proposal>>

\* Complex cases go to the language model, which may answer anything or raise.
ReviewSynthesis ==
    LET p == search.policy
        e == Unresolved(p, look.evidence)
        Propose(verdict, synthesized) ==
            proposal' = [verdict |-> verdict, synthesized |-> synthesized,
                         confidence |-> Confidence(p, e)]
    IN
    /\ stage = "reviewing" /\ search.at = "done" /\ look.at = "done"
    /\ look' = [look EXCEPT !.evidence = e]
    /\ \/ ~Escalated(p, e) /\ Propose(RoutineVerdict(p, e), FALSE) /\ Goto("gating")
       \/ /\ Escalated(p, e)
          /\ \E verdict \in {"APPROVE", "MANUAL"} : Propose(verdict, TRUE)
          /\ Goto("gating")
       \/ Escalated(p, e) /\ Goto("raised") /\ UNCHANGED proposal
    /\ UNCHANGED <<knowledge, ticket, context, search>>

DeterministicGate ==
    /\ stage = "gating"
    /\ Goto(Gate(search.policy, look.evidence, proposal))
    /\ UNCHANGED <<knowledge, ticket, context, search, look, proposal>>

-----------------------------------------------------------------------------
Stale == ticket.revision # context.revision

\* The verdict as Java records it.
Recorded ==
    IF /\ stage = "submitting"
       /\ ~ApprovalGuardFailure(search.policy, look.evidence, proposal.confidence)
    THEN "APPROVE" ELSE "MANUAL"

\* submitAiReview, for a ticket that has no verdict yet; a stale review waits
\* for the resume event of the newer evidence.
Submit ==
    /\ stage \in {"submitting", "handingOff"}
    /\ IF ~Stale /\ ticket.open
       THEN ticket' = [ticket EXCEPT !.verdict = Recorded, !.open = Recorded # "APPROVE"]
       ELSE UNCHANGED ticket
    /\ Goto(IF Stale THEN "waiting" ELSE "over")
    /\ Discard
    /\ UNCHANGED <<knowledge, context>>

\* The call fails, before or after Java recorded the verdict.
SubmitFails ==
    /\ stage \in {"submitting", "handingOff"}
    /\ \/ UNCHANGED ticket
       \/ /\ ~Stale /\ ticket.open
          /\ ticket' = [ticket EXCEPT !.verdict = Recorded, !.open = Recorded # "APPROVE"]
    /\ Goto("over")
    /\ Discard
    /\ UNCHANGED <<knowledge, context>>

\* request_missing_evidence: stale evidence starts the attempt over, a refusal
\* or a failing call hands off.
RequestMissingEvidence ==
    /\ stage = "requesting"
    /\ \/ Stale /\ Goto("loading")
       \/ ~Stale /\ Goto("waiting")
       \/ Goto("handingOff")
    /\ UNCHANGED <<knowledge, ticket, context, search, look, proposal>>

Resume ==
    /\ stage = "waiting"
    /\ Stale
    /\ Goto("loading")
    /\ UNCHANGED <<knowledge, ticket, context, search, look, proposal>>

-----------------------------------------------------------------------------
Next ==
    \/ Supplement \/ MerchantDecides
    \/ LoadTrustedContext \/ LoadFails \/ ValidateReviewInputs
    \/ RetrievePolicy \/ RewritePolicyQuery \/ RetrievePolicyMulti \/ ReviewEvidence
    \/ ReviewSynthesis \/ DeterministicGate
    \/ Submit \/ SubmitFails \/ RequestMissingEvidence \/ Resume

Spec == Init /\ [][Next]_vars

-----------------------------------------------------------------------------
TypeOK ==
    /\ knowledge \in [corpus : SUBSET Chunks, own : SUBSET Chunks, asks : SUBSET Fields,
                      configured : BOOLEAN]
    /\ ticket \in Tickets
    /\ stage \in Stages
    /\ context \in [images : SUBSET Pictures, described : BOOLEAN, revision : 0..MaxRevision]
    /\ search \in [at : {"none", "search", "rewriting", "multi", "done"}, policy : PolicyAssessments]
    /\ look \in [at : {"none", "look", "done"}, evidence : EvidenceAssessments]
    /\ proposal \in Proposals

(***************************************************************************)
(* A ticket approved without a human was earned by what the ticket holds   *)
(* at that moment, whatever was sent or decided meanwhile: every picture   *)
(* of it is clear, unaltered, not contradictory and read with confidence,  *)
(* one of them shows the problem, and the merchant has a policy of the     *)
(* ticket's version, published and valid at the time.  Of the policy this  *)
(* asks for the hard filters only; OnlyStrictPolicyApproves asks for the   *)
(* strict ones, and does not hold.                                         *)
(***************************************************************************)
ApprovalIsEarned ==
    ticket.verdict = "APPROVE" =>
        /\ \A i \in ticket.images :
               i.clear /\ ~i.tampered /\ ~i.contradictory /\ i.confidence >= GateMinimum
        /\ \E i \in ticket.images : i.damage \/ (i.visible /\ i.relevant)
        /\ ticket.versioned
        /\ \E c \in knowledge.own : c \in knowledge.corpus /\ c.valid

(***************************************************************************)
(* What an approval cites are chunks that pass the strict filters: those   *)
(* of a relaxed plan are "no trusted policy basis of an automatic review"  *)
(* (docs/AI_RAG_ARCHITECTURE.md:57-64, and :92).  The first search keeps   *)
(* to that.  The queries of a multi-query search relax their filters each  *)
(* on its own, and retrieve_multi labels all that they found as strict.    *)
(***************************************************************************)
OnlyStrictPolicyApproves ==
    stage = "submitting" => \A c \in search.policy.cited : c.misses \cap knowledge.asks = {}

(***************************************************************************)
(* The language model has no vote: whatever it proposes in the cases it is *)
(* asked about, none of them is submitted as an approval.  Every approval  *)
(* is the routine proposal of the SOP.                                     *)
(***************************************************************************)
ModelHasNoVote == stage = "submitting" => ~proposal.synthesized

(***************************************************************************)
(* The two gates agree: an approval that the gate of the agent lets pass   *)
(* never fails the guard of Java.  (Were they to drift apart, approvals    *)
(* would silently turn into manual reviews.)                               *)
(***************************************************************************)
GatesAgree ==
    stage = "submitting" =>
        ~ApprovalGuardFailure(search.policy, look.evidence, proposal.confidence)
=============================================================================
