------------------------- MODULE ReviewDecisionProofs -------------------------
(***************************************************************************)
(* The safety properties of ReviewDecision, for any pictures, any minima   *)
(* and threshold that the assumption allows, and any number of             *)
(* supplements.                                                            *)
(***************************************************************************)
EXTENDS ReviewDecision, KnowledgeSearchProofs, NaturalsInduction, WellFoundedInduction

-----------------------------------------------------------------------------
(* What an evidence assessment guarantees about the pictures it was made    *)
(* of, for every set of pictures.                                           *)

\* The contract of EvidenceEvaluator.assess.
SoundEvidence(images, e) ==
    /\ e \in EvidenceAssessments
    /\ e.verifiable =>
           /\ e.missing = {}
           /\ \A i \in images : /\ i.clear /\ ~i.tampered /\ ~i.contradictory
                                /\ e.confidence <= i.confidence
           /\ \E i \in images : i.damage \/ (i.visible /\ i.relevant)

\* The least of some scores is one of them and a lower bound.
LEMMA MinIsLeast ==
    ASSUME NEW S \in SUBSET Nat, S # {}
    PROVE  Min(S) \in S /\ \A y \in S : Min(S) <= y
<1> DEFINE R == {ss \in Nat \X Nat : ss[1] < ss[2]}
<1>1. OpToRel(<, Nat) = R
  BY Zenon DEF OpToRel
<1>2. IsWellFoundedOn(R, Nat)
  BY <1>1, NatLessThanWellFounded, Zenon
<1>3. PICK x \in S : \A y \in S : ~(<<y, x>> \in R)
  <2> HIDE DEF R
  <2> QED
    BY <1>2, WFMin
<1>4. \A y \in S : x <= y
  <2>1. SUFFICES ASSUME NEW y \in S, ~(x <= y)
                 PROVE  FALSE
    OBVIOUS
  <2>2. y \in Nat /\ x \in Nat /\ y < x
    BY <2>1
  <2>3. <<y, x>> \in R
    BY <2>2
  <2>4. QED
    BY <1>3, <2>3
<1>5. QED
  BY <1>4 DEF Min

\* Reading a picture again changes at most whether its problem is visible.
LEMMA ParsedKeeps ==
    ASSUME NEW i \in Images
    PROVE  LET p == Parsed(i) IN
           /\ p \in Images
           /\ p.clear = i.clear /\ p.damage = i.damage /\ p.relevant = i.relevant
           /\ p.tampered = i.tampered /\ p.contradictory = i.contradictory
           /\ p.confidence = i.confidence
           /\ p.visible = (i.visible \/ i.damage)
BY DEF Parsed, Images

\* The confidence of an assessment is the least confidence of its pictures.
LEMMA ConfidenceIsLeast ==
    ASSUME NEW items \in SUBSET Images, items # {}
    PROVE  LET least == Min({i.confidence : i \in items}) IN
           least \in 0..100 /\ \A i \in items : least <= i.confidence
<1> DEFINE S == {i.confidence : i \in items}
<1>1. S \subseteq 0..100 /\ S # {} /\ \A i \in items : i.confidence \in S
  BY DEF Images
<1>2. S \in SUBSET Nat
  BY <1>1
<1> HIDE DEF S
<1>3. Min(S) \in S /\ \A y \in S : Min(S) <= y
  BY <1>1, <1>2, MinIsLeast
<1>4. Min(S) \in 0..100 /\ \A i \in items : Min(S) <= i.confidence
  BY <1>1, <1>3
<1>5. QED
  BY <1>4 DEF S

\* Without a review there is nothing to verify.
LEMMA NoEvidenceSound ==
    ASSUME NEW images, NEW success \in BOOLEAN
    PROVE  SoundEvidence(images, NoEvidence(success))
BY DEF SoundEvidence, NoEvidence, EvidenceAssessments, Consistencies

\* Verifiable evidence: every picture is in order and one shows the problem.
LEMMA ItemsSound ==
    ASSUME NEW images \in SUBSET Images, images # {}
    PROVE  SoundEvidence(images, AssessItems(Items(images)))
<1> DEFINE items == Items(images)
           tampered == \E i \in items : i.tampered
           consistent == IF Consistent(items) = "unknown" /\ \E i \in items : ShowsProblem(i)
                         THEN "yes" ELSE Consistent(items)
           missing == CollectMissing(items)
           least == Min({i.confidence : i \in items})
           e == AssessItems(items)
<1>1. items \in SUBSET Images /\ items # {}
  BY ParsedKeeps DEF Items
<1>2. least \in 0..100 /\ \A i \in items : least <= i.confidence
  BY <1>1, ConfidenceIsLeast
<1>3. consistent \in Consistencies /\ missing \in SUBSET Requirements
  BY DEF Consistent, Consistencies, CollectMissing, Requirements
<1>4. consistent = "yes" => \A i \in items : ~i.contradictory
  BY DEF Consistent
<1>5. missing = {} => \A i \in items : i.clear
  BY DEF CollectMissing
<1>6. ASSUME NEW i \in images, NEW p, p = Parsed(i)
      PROVE  /\ p \in items
             /\ p.clear = i.clear /\ p.tampered = i.tampered
             /\ p.contradictory = i.contradictory /\ p.confidence = i.confidence
  <2>1. i \in Images
    OBVIOUS
  <2>2. QED
    BY <1>6, <2>1, ParsedKeeps DEF Items
<1>7. ASSUME NEW p \in items, ShowsProblem(p)
      PROVE  \E i \in images : i.damage \/ (i.visible /\ i.relevant)
  <2>1. PICK i \in images : p = Parsed(i)
    BY DEF Items
  <2>2. p.visible /\ (p.damage \/ p.relevant)
    BY <1>7 DEF ShowsProblem
  <2>3. QED
    BY <2>1, <2>2, ParsedKeeps
<1>8. /\ e.success = TRUE /\ e.risk = (consistent = "no" \/ tampered)
      /\ e.verifiable = (/\ \E i \in items : ShowsProblem(i)
                         /\ consistent = "yes" /\ ~tampered /\ missing = {})
      /\ e.consistent = consistent /\ e.confidence = least /\ e.missing = missing
  BY DEF AssessItems
<1>9. e \in EvidenceAssessments
  <2> HIDE DEF items, tampered, consistent, missing, least
  <2>1. e = [success |-> TRUE, verifiable |-> e.verifiable, risk |-> e.risk,
             consistent |-> consistent, confidence |-> least, missing |-> missing]
    BY DEF AssessItems, items, tampered, consistent, missing, least
  <2>2. e.verifiable \in BOOLEAN /\ e.risk \in BOOLEAN
    BY <1>8
  <2> HIDE DEF e
  <2>3. PICK verifiable \in BOOLEAN, risk \in BOOLEAN :
            e = [success |-> TRUE, verifiable |-> verifiable, risk |-> risk,
                 consistent |-> consistent, confidence |-> least, missing |-> missing]
    BY <2>1, <2>2, Zenon
  <2>4. QED
    BY <1>2, <1>3, <2>3 DEF EvidenceAssessments
<1>10. ASSUME e.verifiable
       PROVE  /\ e.missing = {}
              /\ \A i \in images : /\ i.clear /\ ~i.tampered /\ ~i.contradictory
                                   /\ e.confidence <= i.confidence
              /\ \E i \in images : i.damage \/ (i.visible /\ i.relevant)
  <2> HIDE DEF items, consistent, missing, least, e
  <2>1. /\ \E p \in items : ShowsProblem(p)
        /\ \A p \in items : /\ p.clear /\ ~p.tampered /\ ~p.contradictory
                            /\ e.confidence <= p.confidence
    BY <1>2, <1>4, <1>5, <1>8, <1>10
  <2>2. \A i \in images : /\ i.clear /\ ~i.tampered /\ ~i.contradictory
                          /\ e.confidence <= i.confidence
    BY <1>6, <2>1
  <2>3. \E i \in images : i.damage \/ (i.visible /\ i.relevant)
    BY <1>7, <2>1
  <2>4. QED
    BY <1>8, <1>10, <2>2, <2>3
<1>11. QED
  BY <1>9, <1>10 DEF SoundEvidence

\* Either way an assessment keeps its contract.
LEMMA EvidenceSound ==
    ASSUME NEW images \in SUBSET Images, NEW reviewed \in BOOLEAN
    PROVE  SoundEvidence(images, AssessEvidence(images, reviewed))
BY NoEvidenceSound, ItemsSound DEF AssessEvidence

-----------------------------------------------------------------------------
(* The evaluation of a ticket.                                              *)

\* What an assessment of the policy branch says holds of the knowledge base.
PolicySound(p) ==
    /\ p.eligible => p.strict /\ (p.reranked \/ p.mode = "multi_query_rrf")
    /\ p.cited # {} =>
           ticket.versioned /\ \E c \in knowledge.own : c \in knowledge.corpus /\ c.valid
    /\ \A c \in p.cited : c.misses \cap knowledge.asks # {} => p.mode \in MultiQueryModes

\* An attempt starts from nothing, and both branches are done before the gate.
BranchesInv ==
    /\ stage \in {"loading", "validating", "requesting", "waiting"} => look = NoLook
    /\ stage \in {"gating", "submitting"} => search.at = "done" /\ look.at = "done"

\* The context is the ticket as it was at the context's revision, and the evidence
\* assessment is one of the pictures in the context.
ContextInv ==
    /\ context.revision <= ticket.revision
    /\ /\ stage \in {"validating", "reviewing", "gating", "submitting"}
       /\ context.revision = ticket.revision
       => context.images = ticket.images
    /\ SoundEvidence(context.images, look.evidence)

PolicyInv == PolicySound(search.policy)

\* The model was asked about escalated cases only, and what is submitted has
\* passed the gate.
ProposalInv ==
    /\ /\ stage \in {"gating", "submitting"}
       /\ proposal.synthesized
       => Escalated(search.policy, look.evidence)
    /\ stage = "submitting" => Gate(search.policy, look.evidence, proposal) = "submitting"

Earned ==
    /\ \A i \in ticket.images :
           i.clear /\ ~i.tampered /\ ~i.contradictory /\ i.confidence >= GateMinimum
    /\ \E i \in ticket.images : i.damage \/ (i.visible /\ i.relevant)
    /\ ticket.versioned
    /\ \E c \in knowledge.own : c \in knowledge.corpus /\ c.valid

\* An approval closes the ticket, so that nothing can be added to it any more.
ApprovedInv == ticket.verdict = "APPROVE" => ~ticket.open /\ Earned

IInv == TypeOK /\ BranchesInv /\ ContextInv /\ PolicyInv /\ ProposalInv /\ ApprovedInv

-----------------------------------------------------------------------------
LEMMA NothingTyped ==
    /\ NoPolicy \in PolicyAssessments /\ NoPolicy.cited = {} /\ NoPolicy.eligible = FALSE
    /\ NoProposal \in Proposals
    /\ NoEvidence(FALSE) \in EvidenceAssessments
BY DEF NoPolicy, PolicyAssessments, NoProposal, Proposals, NoEvidence, EvidenceAssessments,
       Consistencies

\* Results of either search: an eligible one is strict and reranked, or fused
\* without a reranker, and what it trusts passed the hard filters.
LEMMA ResultsSound ==
    ASSUME TypeOK,
           NEW r \in Searches(knowledge.corpus, knowledge.asks, knowledge.configured)
                         \cup MultiSearches(knowledge.corpus, knowledge.asks, knowledge.configured)
    PROVE  /\ r \in Results
           /\ r.trusted \subseteq HardFilter(knowledge.corpus)
           /\ r.eligible => r.reranked \/ r.mode = "multi_query_rrf"
           /\ \A c \in r.trusted :
                  c.misses \cap knowledge.asks # {} => r.mode \in MultiQueryModes
<1>1. /\ knowledge.corpus \in SUBSET Chunks /\ knowledge.asks \in SUBSET Fields
      /\ knowledge.configured \in BOOLEAN
  BY DEF TypeOK
<1>2. CASE r \in Searches(knowledge.corpus, knowledge.asks, knowledge.configured)
  <2>1. SoundSearch(knowledge.corpus, knowledge.asks, knowledge.configured, r)
    BY <1>1, <1>2, SearchesSound
  <2>2. QED
    BY <2>1 DEF SoundSearch
<1>3. CASE r \in MultiSearches(knowledge.corpus, knowledge.asks, knowledge.configured)
  <2>1. SoundMultiSearch(knowledge.corpus, knowledge.configured, r)
    BY <1>1, <1>3, MultiSearchesSound
  <2>2. QED
    BY <2>1 DEF SoundMultiSearch
<1>4. QED
  BY <1>2, <1>3

\* What is cited is the merchant's own, in the knowledge base, and valid.
LEMMA AssessedSound ==
    ASSUME TypeOK,
           NEW r \in Searches(knowledge.corpus, knowledge.asks, knowledge.configured)
                         \cup MultiSearches(knowledge.corpus, knowledge.asks, knowledge.configured),
           NEW p \in Assessed(r)
    PROVE  p \in PolicyAssessments /\ PolicySound(p)
<1>1. PICK best \in {Threshold, 100}, required \in BOOLEAN : p = AssessPolicy(r, best, required)
  BY DEF Assessed
<1>2. /\ r \in Results
      /\ r.trusted \subseteq HardFilter(knowledge.corpus)
      /\ r.eligible => r.reranked \/ r.mode = "multi_query_rrf"
      /\ \A c \in r.trusted :
             c.misses \cap knowledge.asks # {} => r.mode \in MultiQueryModes
  BY ResultsSound
<1>3. Citable(r) \in SUBSET Chunks /\ Eligible(r) \in BOOLEAN /\ best \in 0..100
  BY <1>2, DecisionAssumption DEF Citable, Eligible, Results
<1>4. /\ r.mode \in Modes /\ r.reranked \in BOOLEAN /\ (r.plan = Strict) \in BOOLEAN
  BY <1>2 DEF Results
<1> DEFINE found == Citable(r) # {}
           score == CASE ~found -> 0
                      [] found /\ r.mode = "multi_query_rrf" -> 100
                      [] OTHER -> best
<1>5. score \in 0..100
  <2> HIDE DEF found
  <2> QED
    BY <1>3
<1>6. p = [success |-> TRUE, eligible |-> Eligible(r), strict |-> r.plan = Strict,
          reranked |-> r.reranked, mode |-> r.mode, cited |-> Citable(r),
          score |-> score, required |-> found /\ required]
  BY <1>1, Zenon DEF AssessPolicy
<1> HIDE DEF found, score
<1>7. p \in PolicyAssessments
  <2>1. (found /\ required) \in BOOLEAN
    OBVIOUS
  <2>2. QED
    BY <1>3, <1>4, <1>5, <1>6, <2>1 DEF PolicyAssessments
<1>8. p.eligible => p.strict /\ (p.reranked \/ p.mode = "multi_query_rrf")
  BY <1>2, <1>6 DEF Eligible
<1>9. p.cited # {} =>
          ticket.versioned /\ \E c \in knowledge.own : c \in knowledge.corpus /\ c.valid
  BY <1>2, <1>6 DEF Citable, HardFilter
<1>10. \A c \in p.cited : c.misses \cap knowledge.asks # {} => p.mode \in MultiQueryModes
  BY <1>2, <1>6 DEF Citable
<1>11. QED
  BY <1>7, <1>8, <1>9, <1>10 DEF PolicySound

\* A requirement of the policy is added only to evidence that is not verifiable.
LEMMA UnresolvedSound ==
    ASSUME NEW images, NEW p, NEW e, SoundEvidence(images, e)
    PROVE  SoundEvidence(images, Unresolved(p, e))
BY DEF SoundEvidence, Unresolved, EvidenceAssessments, Requirements

\* The weights add up to one.
LEMMA ConfidenceTyped ==
    ASSUME NEW p \in PolicyAssessments, NEW e \in EvidenceAssessments
    PROVE  Confidence(p, e) \in 0..10000
<1>1. p.score \in 0..100 /\ e.confidence \in 0..100
  BY DEF PolicyAssessments, EvidenceAssessments
<1> DEFINE trusted == /\ p.success /\ p.eligible /\ p.cited # {} /\ p.strict
                      /\ p.reranked \/ p.mode = "multi_query_rrf"
           proven == /\ e.success /\ e.verifiable /\ e.consistent = "yes"
                     /\ e.missing = {} /\ ~e.risk
<1>2. Confidence(p, e) = 35 * p.score + 30 * e.confidence
                             + Weight(trusted, 2000) + Weight(proven, 1500)
  BY DEF Confidence
<1> HIDE DEF trusted, proven
<1>3. PICK s \in 0..100, k \in 0..100 : s = p.score /\ k = e.confidence
  BY <1>1
<1>4. PICK x \in {0, 2000} : x = Weight(trusted, 2000)
  BY DEF Weight
<1>5. PICK y \in {0, 1500} : y = Weight(proven, 1500)
  BY DEF Weight
<1>6. Confidence(p, e) = 35 * s + 30 * k + x + y
  BY <1>2, <1>3, <1>4, <1>5
<1>7. QED
  BY <1>6, SMTT(30)

-----------------------------------------------------------------------------
\* What passes the gate is a routine case, passes Java's guard, and rests on
\* verifiable evidence of at least the gate's confidence.
LEMMA GatePassed ==
    ASSUME TypeOK, ContextInv, PolicyInv,
           Gate(search.policy, look.evidence, proposal) = "submitting"
    PROVE  /\ ~Escalated(search.policy, look.evidence)
           /\ ~ApprovalGuardFailure(search.policy, look.evidence, proposal.confidence)
           /\ look.evidence.verifiable /\ look.evidence.confidence >= GateMinimum
           /\ search.policy.cited # {}
<1> DEFINE p == search.policy
           e == look.evidence
           c == proposal.confidence
<1>1. /\ p \in PolicyAssessments /\ e \in EvidenceAssessments /\ proposal \in Proposals
  BY DEF TypeOK
<1>2. e.confidence \in 0..100 /\ c \in 0..10000
  BY <1>1, SMTT(30) DEF EvidenceAssessments, Proposals
<1>3. /\ ~e.risk /\ e.success /\ e.verifiable /\ e.consistent = "yes"
      /\ p.success /\ p.eligible /\ p.cited # {}
      /\ e.confidence >= GateMinimum /\ c >= 100 * GateMinimum
  BY DEF Gate
<1>4. p.strict /\ (p.reranked \/ p.mode = "multi_query_rrf") /\ ticket.versioned
  BY <1>3 DEF PolicyInv, PolicySound
<1>5. e.missing = {}
  BY <1>3 DEF ContextInv, SoundEvidence
<1> HIDE DEF p, e, c
<1>6. GateMinimum \in 0..100 /\ GuardMinimum \in 0..GateMinimum
  BY DecisionAssumption
<1>7. ~(c < 100 * GuardMinimum) /\ ~(e.confidence < GateMinimum)
  <2>1. e.confidence >= GateMinimum /\ c >= 100 * GateMinimum
    BY <1>3
  <2>2. QED
    BY <1>2, <1>6, <2>1
<1>8. ~Escalated(p, e)
  BY <1>3, <1>4, <1>5, <1>7 DEF Escalated
<1>9. ~ApprovalGuardFailure(p, e, c)
  BY <1>3, <1>4, <1>7 DEF ApprovalGuardFailure
<1>10. QED
  BY <1>3, <1>8, <1>9 DEF p, e, c

\* An approval that is recorded is earned by the ticket as it is then.
LEMMA RecordedIsEarned ==
    ASSUME IInv, Recorded = "APPROVE", ~Stale
    PROVE  Earned
<1>1. stage = "submitting" /\ context.images = ticket.images
  BY DEF IInv, ContextInv, Recorded, Stale
<1>2. Gate(search.policy, look.evidence, proposal) = "submitting"
  BY <1>1 DEF IInv, ProposalInv
<1>3. /\ look.evidence.verifiable /\ look.evidence.confidence >= GateMinimum
      /\ search.policy.cited # {}
  BY <1>2, GatePassed DEF IInv
<1>4. ticket.versioned /\ \E c \in knowledge.own : c \in knowledge.corpus /\ c.valid
  BY <1>3 DEF IInv, PolicyInv, PolicySound
<1>5. /\ \A i \in ticket.images : /\ i.clear /\ ~i.tampered /\ ~i.contradictory
                                  /\ look.evidence.confidence <= i.confidence
      /\ \E i \in ticket.images : i.damage \/ (i.visible /\ i.relevant)
  BY <1>1, <1>3 DEF IInv, ContextInv, SoundEvidence
<1>6. ASSUME NEW i \in ticket.images
      PROVE  i.confidence >= GateMinimum
  <2>1. i \in Images
    BY DecisionAssumption DEF IInv, TypeOK, Tickets
  <2>2. look.evidence \in EvidenceAssessments
    BY DEF IInv, TypeOK
  <2>3. i.confidence \in 0..100 /\ look.evidence.confidence \in 0..100
    BY <2>1, <2>2 DEF Images, EvidenceAssessments
  <2>4. GateMinimum \in 0..100
    BY DecisionAssumption
  <2>5. look.evidence.confidence >= GateMinimum /\ look.evidence.confidence <= i.confidence
    BY <1>3, <1>5
  <2>6. \A a, k, g \in 0..100 : k >= g /\ k <= a => a >= g
    OBVIOUS
  <2>7. QED
    BY <2>3, <2>4, <2>5, <2>6, Zenon
<1>7. QED
  BY <1>4, <1>5, <1>6 DEF Earned
-----------------------------------------------------------------------------
LEMMA InitInv == ASSUME Init PROVE IInv
<1>1. knowledge \in [corpus : SUBSET Chunks, own : SUBSET Chunks, asks : SUBSET Fields,
                     configured : BOOLEAN]
  <2>1. PICK corpus \in SUBSET Chunks, asks \in SUBSET Fields, configured \in BOOLEAN,
             own \in SUBSET Chunks :
            knowledge = [corpus |-> corpus, own |-> own, asks |-> asks, configured |-> configured]
    BY DEF Init, Fields
  <2>2. QED
    BY <2>1
<1>2. PICK versioned \in BOOLEAN, described \in BOOLEAN, first \in SUBSET Pictures :
          ticket = [open |-> TRUE, verdict |-> "none", versioned |-> versioned,
                    described |-> described, images |-> first, revision |-> 0]
  BY DEF Init
<1>3. ticket \in Tickets /\ ticket.verdict = "none" /\ ticket.revision = 0
  BY <1>2, DecisionAssumption DEF Tickets
<1>4. /\ stage = "loading" /\ search = NoSearch /\ look = NoLook /\ proposal = NoProposal
      /\ context = [images |-> {}, described |-> FALSE, revision |-> 0]
  BY DEF Init
<1>5. TypeOK
  <2>1. context \in [images : SUBSET Pictures, described : BOOLEAN, revision : 0..MaxRevision]
    BY <1>4, DecisionAssumption
  <2>2. search \in [at : {"none", "search", "rewriting", "multi", "done"},
                    policy : PolicyAssessments]
    BY <1>4, NothingTyped DEF NoSearch
  <2>3. look \in [at : {"none", "look", "done"}, evidence : EvidenceAssessments]
    BY <1>4, NothingTyped DEF NoLook
  <2>4. stage \in Stages /\ proposal \in Proposals
    BY <1>4, NothingTyped DEF Stages
  <2>5. QED
    BY <1>1, <1>3, <2>1, <2>2, <2>3, <2>4 DEF TypeOK
<1>6. SoundEvidence(context.images, look.evidence)
  BY <1>4, NoEvidenceSound DEF NoLook
<1>7. BranchesInv /\ ContextInv
  BY <1>3, <1>4, <1>6 DEF BranchesInv, ContextInv
<1>8. PolicyInv /\ ProposalInv /\ ApprovedInv
  BY <1>3, <1>4, NothingTyped
     DEF PolicyInv, PolicySound, ProposalInv, ApprovedInv, NoSearch
<1>9. QED
  BY <1>5, <1>7, <1>8 DEF IInv

\* The steps of the user and of the merchant.
LEMMA TicketStep ==
    ASSUME IInv, Supplement \/ MerchantDecides
    PROVE  IInv'
<1>1. ticket \in Tickets /\ context.revision \in Nat /\ ticket.revision \in 0..MaxRevision
  BY DEF IInv, TypeOK, Tickets
<1>2. UNCHANGED <<knowledge, stage, context, search, look, proposal>>
  BY DEF Supplement, MerchantDecides
<1>3. CASE Supplement
  <2>1. PICK more \in {{}} \cup {{i} : i \in Pictures}, told \in BOOLEAN :
            ticket' = [ticket EXCEPT !.images = @ \cup more, !.described = @ \/ told,
                                     !.revision = @ + 1]
    BY <1>3, Zenon DEF Supplement
  <2>2. ticket.verdict = "none" /\ ticket.revision < MaxRevision
    BY <1>3 DEF Supplement
  <2>3. /\ ticket'.verdict = "none" /\ ticket'.versioned = ticket.versioned
        /\ ticket'.revision = ticket.revision + 1
    BY <1>1, <2>1, <2>2 DEF Tickets
  <2>4. ticket' \in Tickets
    <3>1. /\ ticket.images \cup more \in SUBSET Pictures
          /\ ticket.revision + 1 \in 0..MaxRevision
          /\ (ticket.described \/ told) \in BOOLEAN
      BY <1>1, <2>2, DecisionAssumption DEF Tickets
    <3>2. QED
      BY <1>1, <2>1, <3>1 DEF Tickets
  <2>5. TypeOK'
    BY <1>2, <2>4 DEF IInv, TypeOK
  <2>6. context'.revision <= ticket'.revision /\ context'.revision # ticket'.revision
    BY <1>1, <1>2, <2>3 DEF IInv, ContextInv
  <2>7. BranchesInv' /\ ContextInv'
    BY <1>2, <2>6 DEF IInv, BranchesInv, ContextInv
  <2>8. PolicyInv' /\ ProposalInv' /\ ApprovedInv'
    BY <1>2, <2>3 DEF IInv, PolicyInv, PolicySound, ProposalInv, ApprovedInv
  <2>9. QED
    BY <2>5, <2>7, <2>8 DEF IInv
<1>4. CASE MerchantDecides
  <2>1. ticket.open /\ ticket' = [ticket EXCEPT !.open = FALSE]
    BY <1>4 DEF MerchantDecides
  <2>2. /\ ticket' \in Tickets /\ ticket'.verdict = ticket.verdict
        /\ ticket'.versioned = ticket.versioned /\ ticket'.revision = ticket.revision
        /\ ticket'.images = ticket.images
    BY <1>1, <2>1 DEF Tickets
  <2>3. TypeOK' /\ BranchesInv' /\ ContextInv'
    BY <1>2, <2>2 DEF IInv, TypeOK, BranchesInv, ContextInv
  <2>4. PolicyInv' /\ ProposalInv' /\ ApprovedInv'
    BY <1>2, <2>1, <2>2 DEF IInv, PolicyInv, PolicySound, ProposalInv, ApprovedInv
  <2>5. QED
    BY <2>3, <2>4 DEF IInv
<1>5. QED
  BY <1>3, <1>4

-----------------------------------------------------------------------------
\* The steps before the branches: what was read of the ticket is the ticket.
LEMMA LoadingStep ==
    ASSUME IInv, LoadTrustedContext \/ LoadFails \/ ValidateReviewInputs
                     \/ RequestMissingEvidence \/ Resume
    PROVE  IInv'
<1>1. /\ UNCHANGED <<knowledge, ticket, proposal>> /\ search'.policy = search.policy
      /\ stage \in {"loading", "validating", "requesting", "waiting"} /\ look = NoLook
      /\ look'.evidence = look.evidence
  BY DEF IInv, TypeOK, BranchesInv, LoadTrustedContext, LoadFails, ValidateReviewInputs,
         RequestMissingEvidence, Resume
<1>2. stage' \notin {"gating", "submitting"}
  BY DEF LoadTrustedContext, LoadFails, ValidateReviewInputs, RequestMissingEvidence, Resume, Goto
<1>3. TypeOK'
  <2>1. ticket \in Tickets /\ MaxRevision \in Nat
    BY DecisionAssumption DEF IInv, TypeOK
  <2>2. stage' \in Stages
    BY DEF LoadTrustedContext, LoadFails, ValidateReviewInputs, RequestMissingEvidence, Resume,
           Goto, Stages
  <2>3. context' \in [images : SUBSET Pictures, described : BOOLEAN, revision : 0..MaxRevision]
    <3>1. CASE LoadTrustedContext
      BY <2>1, <3>1 DEF LoadTrustedContext, Tickets
    <3>2. CASE LoadFails
      BY <2>1, <3>2 DEF LoadFails
    <3>3. CASE UNCHANGED context
      BY <3>3 DEF IInv, TypeOK
    <3>4. QED
      BY <3>1, <3>2, <3>3 DEF ValidateReviewInputs, RequestMissingEvidence, Resume
  <2>4. /\ search' \in [at : {"none", "search", "rewriting", "multi", "done"},
                        policy : PolicyAssessments]
        /\ look' \in [at : {"none", "look", "done"}, evidence : EvidenceAssessments]
    BY DEF LoadTrustedContext, LoadFails, ValidateReviewInputs, RequestMissingEvidence, Resume,
           IInv, TypeOK
  <2>5. QED
    BY <1>1, <2>2, <2>3, <2>4 DEF IInv, TypeOK
<1>4. BranchesInv'
  BY <1>1, <1>2 DEF BranchesInv, LoadTrustedContext, LoadFails, ValidateReviewInputs,
                    RequestMissingEvidence, Resume, Goto
<1>5. SoundEvidence(context'.images, look'.evidence)
  BY <1>1, NoEvidenceSound DEF NoLook
<1>6. ContextInv'
  <2>1. ticket.revision \in Nat /\ context.revision <= ticket.revision
    BY DEF IInv, TypeOK, Tickets, ContextInv
  <2>2. CASE LoadTrustedContext
    BY <1>1, <1>5, <2>1, <2>2 DEF LoadTrustedContext, ContextInv
  <2>3. CASE LoadFails
    BY <1>1, <1>5, <2>1, <2>3 DEF LoadFails, Goto, ContextInv
  <2>4. CASE ValidateReviewInputs
    BY <1>1, <1>5, <2>1, <2>4 DEF ValidateReviewInputs, IInv, ContextInv
  <2>5. CASE RequestMissingEvidence \/ Resume
    BY <1>1, <1>5, <2>1, <2>5 DEF RequestMissingEvidence, Resume, Goto, ContextInv
  <2>6. QED
    BY <2>2, <2>3, <2>4, <2>5
<1>7. PolicyInv' /\ ApprovedInv'
  BY <1>1 DEF IInv, PolicyInv, PolicySound, ApprovedInv, Earned
<1>8. ProposalInv'
  BY <1>2 DEF ProposalInv
<1>9. QED
  BY <1>3, <1>4, <1>6, <1>7, <1>8 DEF IInv

-----------------------------------------------------------------------------
\* The steps of the branches keep the ticket, the stage and the proposal.
LEMMA PolicyStep ==
    ASSUME IInv, RetrievePolicy \/ RewritePolicyQuery \/ RetrievePolicyMulti
    PROVE  IInv'
<1>1. /\ UNCHANGED <<knowledge, ticket, stage, context, look, proposal>>
      /\ search.at \in {"search", "rewriting", "multi"}
  BY DEF RetrievePolicy, RewritePolicyQuery, RetrievePolicyMulti
<1>2. stage \notin {"gating", "submitting"}
  BY <1>1 DEF IInv, BranchesInv
<1>3. PICK at \in {"done", "rewriting", "multi"}, p \in PolicyAssessments :
          search' = [at |-> at, policy |-> p] /\ PolicySound(p)
  <2>1. NoPolicy \in PolicyAssessments /\ PolicySound(NoPolicy)
    BY NothingTyped DEF PolicySound
  <2>2. CASE RetrievePolicy
    <3>1. CASE search' = [at |-> "done", policy |-> NoPolicy]
      BY <2>1, <3>1
    <3>2. CASE search' # [at |-> "done", policy |-> NoPolicy]
      <4>1. PICK r \in Searches(knowledge.corpus, knowledge.asks, knowledge.configured) :
                \E p \in Assessed(r) :
                    search' = [at |-> IF p.eligible \/ IsInfrastructureFailure(r)
                                        THEN "done" ELSE "rewriting",
                                 policy |-> p]
        BY <2>2, <3>2 DEF RetrievePolicy
      <4>2. PICK p \in Assessed(r) :
                search' = [at |-> IF p.eligible \/ IsInfrastructureFailure(r)
                                  THEN "done" ELSE "rewriting",
                           policy |-> p]
        BY <4>1
      <4>3. p \in PolicyAssessments /\ PolicySound(p)
        BY AssessedSound DEF IInv
      <4>4. QED
        BY <4>2, <4>3
    <3>3. QED
      BY <3>1, <3>2
  <2>3. CASE RewritePolicyQuery
    <3>1. PICK at \in {"done", "multi"} : search' = [search EXCEPT !.at = at]
      BY <2>3 DEF RewritePolicyQuery
    <3>2. search' = [at |-> at, policy |-> search.policy]
      BY <3>1 DEF IInv, TypeOK
    <3>3. search.policy \in PolicyAssessments /\ PolicySound(search.policy)
      BY DEF IInv, TypeOK, PolicyInv
    <3>4. QED
      BY <3>2, <3>3
  <2>4. CASE RetrievePolicyMulti
    <3>1. CASE search' = [at |-> "done", policy |-> NoPolicy]
      BY <2>1, <3>1
    <3>2. CASE search' # [at |-> "done", policy |-> NoPolicy]
      <4>1. PICK r \in MultiSearches(knowledge.corpus, knowledge.asks, knowledge.configured) :
                \E p \in Assessed(r) :
                    search' = [at |-> "done", policy |-> p]
        BY <2>4, <3>2 DEF RetrievePolicyMulti
      <4>2. PICK p \in Assessed(r) :
                search' = [at |-> "done", policy |-> p]
        BY <4>1
      <4>3. p \in PolicyAssessments /\ PolicySound(p)
        BY AssessedSound DEF IInv
      <4>4. QED
        BY <4>2, <4>3
    <3>3. QED
      BY <3>1, <3>2
  <2>5. QED
    BY <2>2, <2>3, <2>4
<1>4. TypeOK'
  BY <1>1, <1>3 DEF IInv, TypeOK
<1>5. PolicyInv'
  BY <1>1, <1>3 DEF PolicyInv, PolicySound
<1>6. BranchesInv' /\ ContextInv' /\ ProposalInv' /\ ApprovedInv'
  BY <1>1, <1>2 DEF IInv, BranchesInv, ContextInv, ProposalInv, ApprovedInv, Earned
<1>7. QED
  BY <1>4, <1>5, <1>6 DEF IInv

LEMMA EvidenceStep ==
    ASSUME IInv, ReviewEvidence
    PROVE  IInv'
<1>1. /\ UNCHANGED <<knowledge, ticket, stage, context, search, proposal>>
      /\ look.at = "look"
  BY DEF ReviewEvidence
<1>2. stage \notin {"loading", "validating", "requesting", "waiting", "gating", "submitting"}
  <2>1. NoLook.at # "look"
    BY DEF NoLook
  <2>2. look # NoLook /\ look.at # "done"
    BY <1>1, <2>1
  <2>3. QED
    BY <2>2 DEF IInv, BranchesInv
<1>3. PICK reviewed \in BOOLEAN :
          look' = [at |-> "done", evidence |-> AssessEvidence(context.images, reviewed)]
  BY DEF ReviewEvidence
<1>4. context.images \in SUBSET Images
  BY DecisionAssumption DEF IInv, TypeOK
<1>5. SoundEvidence(context'.images, look'.evidence)
  BY <1>1, <1>3, <1>4, EvidenceSound
<1>6. TypeOK'
  BY <1>1, <1>3, <1>5 DEF IInv, TypeOK, SoundEvidence
<1>7. ContextInv'
  BY <1>1, <1>5 DEF IInv, ContextInv
<1>8. BranchesInv' /\ PolicyInv' /\ ProposalInv' /\ ApprovedInv'
  BY <1>1, <1>2 DEF IInv, BranchesInv, PolicyInv, PolicySound, ProposalInv, ApprovedInv, Earned
<1>9. QED
  BY <1>6, <1>7, <1>8 DEF IInv

-----------------------------------------------------------------------------
\* The model proposes in escalated cases only.
LEMMA SynthesisStep ==
    ASSUME IInv, ReviewSynthesis
    PROVE  IInv'
<1> DEFINE p == search.policy
           e == Unresolved(p, look.evidence)
<1>1. /\ UNCHANGED <<knowledge, ticket, context, search>>
      /\ stage = "reviewing" /\ search.at = "done" /\ look.at = "done"
      /\ look' = [look EXCEPT !.evidence = e] /\ stage' \in {"gating", "raised"}
  BY DEF ReviewSynthesis, Goto
<1>2. /\ p \in PolicyAssessments /\ look.evidence \in EvidenceAssessments
      /\ SoundEvidence(context.images, e)
  BY UnresolvedSound DEF IInv, TypeOK, ContextInv
<1>3. e \in EvidenceAssessments
  BY <1>2 DEF SoundEvidence
<1>4. \/ proposal' = proposal /\ stage' = "raised"
      \/ proposal' = [verdict |-> RoutineVerdict(p, e), synthesized |-> FALSE,
                      confidence |-> Confidence(p, e)]
      \/ /\ Escalated(p, e)
         /\ \E verdict \in {"APPROVE", "MANUAL"} :
                proposal' = [verdict |-> verdict, synthesized |-> TRUE,
                             confidence |-> Confidence(p, e)]
  BY DEF ReviewSynthesis, Goto
<1> HIDE DEF p, e
<1>5. Confidence(p, e) \in 0..10000 /\ RoutineVerdict(p, e) \in {"APPROVE", "MANUAL"}
  BY <1>2, <1>3, ConfidenceTyped DEF RoutineVerdict
<1>6. look' = [at |-> "done", evidence |-> e]
  BY <1>1 DEF IInv, TypeOK
<1>7. /\ proposal' \in Proposals
      /\ proposal'.synthesized /\ stage' = "gating" => Escalated(p, e)
  <2>1. CASE proposal' = proposal /\ stage' = "raised"
    BY <2>1 DEF IInv, TypeOK
  <2>2. CASE proposal' = [verdict |-> RoutineVerdict(p, e), synthesized |-> FALSE,
                          confidence |-> Confidence(p, e)]
    BY <1>5, <2>2, SMTT(30) DEF Proposals
  <2>3. ASSUME Escalated(p, e),
               \E verdict \in {"APPROVE", "MANUAL"} :
                   proposal' = [verdict |-> verdict, synthesized |-> TRUE,
                                confidence |-> Confidence(p, e)]
        PROVE  /\ proposal' \in Proposals
               /\ proposal'.synthesized /\ stage' = "gating" => Escalated(p, e)
    BY <1>5, <2>3, SMTT(30) DEF Proposals
  <2>4. QED
    BY <1>4, <2>1, <2>2, <2>3
<1>8. TypeOK'
  BY <1>1, <1>3, <1>6, <1>7 DEF IInv, TypeOK, Stages
<1>9. BranchesInv' /\ ContextInv'
  BY <1>1, <1>2, <1>6 DEF IInv, BranchesInv, ContextInv
<1>10. ProposalInv'
  BY <1>1, <1>6, <1>7 DEF ProposalInv, p
<1>11. PolicyInv' /\ ApprovedInv'
  BY <1>1 DEF IInv, PolicyInv, PolicySound, ApprovedInv, Earned
<1>12. QED
  BY <1>8, <1>9, <1>10, <1>11 DEF IInv

LEMMA GateStep ==
    ASSUME IInv, DeterministicGate
    PROVE  IInv'
<1>1. /\ UNCHANGED <<knowledge, ticket, context, search, look, proposal>>
      /\ stage = "gating" /\ stage' = Gate(search.policy, look.evidence, proposal)
  BY DEF DeterministicGate, Goto
<1>2. stage' \in {"submitting", "handingOff"}
  BY <1>1 DEF Gate
<1>3. TypeOK' /\ BranchesInv' /\ ContextInv'
  BY <1>1, <1>2 DEF IInv, TypeOK, Stages, BranchesInv, ContextInv
<1>4. PolicyInv' /\ ApprovedInv'
  BY <1>1 DEF IInv, PolicyInv, PolicySound, ApprovedInv, Earned
<1>5. ProposalInv'
  BY <1>1, <1>2 DEF IInv, ProposalInv
<1>6. QED
  BY <1>3, <1>4, <1>5 DEF IInv

-----------------------------------------------------------------------------
\* What Java records: an approval only if it is earned, and it closes the ticket.
LEMMA SubmissionStep ==
    ASSUME IInv, Submit \/ SubmitFails
    PROVE  IInv'
<1>1. /\ UNCHANGED <<knowledge, context>> /\ stage' \in {"waiting", "over"}
      /\ search' = NoSearch /\ look' = NoLook /\ proposal' = NoProposal
  BY DEF Submit, SubmitFails, Goto, Discard
<1>2. \/ ticket' = ticket
      \/ /\ ~Stale
         /\ ticket' = [ticket EXCEPT !.verdict = Recorded, !.open = Recorded # "APPROVE"]
  BY DEF Submit, SubmitFails
<1>3. Recorded \in {"APPROVE", "MANUAL"}
  BY DEF Recorded
<1>4. ticket \in Tickets
  BY DEF IInv, TypeOK
<1>5. /\ ticket' \in Tickets
      /\ ticket'.versioned = ticket.versioned /\ ticket'.revision = ticket.revision
      /\ ticket'.images = ticket.images
      /\ \/ ticket' = ticket
         \/ ~Stale /\ ticket'.verdict = Recorded /\ ticket'.open = (Recorded # "APPROVE")
  BY <1>2, <1>3, <1>4 DEF Tickets
<1>6. TypeOK'
  <2>1. /\ search' \in [at : {"none", "search", "rewriting", "multi", "done"},
                        policy : PolicyAssessments]
        /\ look' \in [at : {"none", "look", "done"}, evidence : EvidenceAssessments]
        /\ proposal' \in Proposals
    BY <1>1, NothingTyped DEF NoSearch, NoLook
  <2>2. QED
    BY <1>1, <1>5, <2>1 DEF IInv, TypeOK, Stages
<1>7. BranchesInv' /\ ProposalInv'
  BY <1>1 DEF BranchesInv, ProposalInv
<1>8. ContextInv'
  <2>1. SoundEvidence(context'.images, look'.evidence)
    BY <1>1, NoEvidenceSound DEF NoLook
  <2>2. QED
    BY <1>1, <1>5, <2>1 DEF IInv, ContextInv
<1>9. PolicyInv'
  BY <1>1, NothingTyped DEF PolicyInv, PolicySound, NoSearch
<1>10. ApprovedInv'
  <2>1. CASE ticket' = ticket
    BY <1>1, <2>1 DEF IInv, ApprovedInv, Earned
  <2>2. CASE ~Stale /\ ticket'.verdict = Recorded /\ ticket'.open = (Recorded # "APPROVE")
    <3>1. Recorded = "APPROVE" => Earned
      BY <2>2, RecordedIsEarned
    <3>2. Earned => Earned'
      BY <1>1, <1>5 DEF Earned
    <3>3. QED
      BY <2>2, <3>1, <3>2 DEF ApprovedInv
  <2>3. QED
    BY <1>5, <2>1, <2>2
<1>11. QED
  BY <1>6, <1>7, <1>8, <1>9, <1>10 DEF IInv

-----------------------------------------------------------------------------
LEMMA StepInv == ASSUME IInv, [Next]_vars PROVE IInv'
<1>1. CASE UNCHANGED vars
  BY <1>1 DEF vars, IInv, TypeOK, BranchesInv, ContextInv, PolicyInv, PolicySound, ProposalInv,
              ApprovedInv, Earned
<1>2. QED
  BY <1>1, TicketStep, LoadingStep, PolicyStep, EvidenceStep, SynthesisStep, GateStep,
     SubmissionStep DEF Next

LEMMA AlwaysIInv == Spec => []IInv
<1>1. Init => IInv
  BY InitInv
<1>2. IInv /\ [Next]_vars => IInv'
  BY StepInv
<1>3. QED
  BY <1>1, <1>2, PTL DEF Spec

\* Tickets, assessments and proposals keep their types; confidences stay within
\* 0 and 1.
THEOREM DecisionTyped == Spec => []TypeOK
<1>1. IInv => TypeOK
  BY DEF IInv
<1>2. QED
  BY <1>1, AlwaysIInv, PTL

\* Every approval without a human is earned by the ticket at that moment, for any
\* pictures and knowledge and however the supplements interleave.
THEOREM ApprovalsAreEarned == Spec => []ApprovalIsEarned
<1>1. IInv => ApprovalIsEarned
  BY DEF IInv, ApprovedInv, ApprovalIsEarned, Earned
<1>2. QED
  BY <1>1, AlwaysIInv, PTL

\* An approval cites a chunk that the strict filters exclude in one case only:
\* after a multi-query search.  (OnlyStrictPolicyApproves, without the exception,
\* does not hold.)
FusionInv ==
    stage = "submitting" =>
        \A c \in search.policy.cited :
            c.misses \cap knowledge.asks # {} => search.policy.mode \in MultiQueryModes

THEOREM OnlyFusionRelaxes == Spec => []FusionInv
<1>1. IInv => FusionInv
  BY DEF IInv, PolicyInv, PolicySound, FusionInv
<1>2. QED
  BY <1>1, AlwaysIInv, PTL

\* Nothing the language model proposes is ever submitted as an approval.
THEOREM ModelNeverVotes == Spec => []ModelHasNoVote
<1>1. IInv => ModelHasNoVote
  BY GatePassed DEF IInv, ProposalInv, ModelHasNoVote
<1>2. QED
  BY <1>1, AlwaysIInv, PTL

\* What the agent's gate lets pass, Java's guard lets pass, for any two minima of
\* which Java's is not the greater one.
THEOREM GatesAlwaysAgree == Spec => []GatesAgree
<1>1. IInv => GatesAgree
  BY GatePassed DEF IInv, ProposalInv, GatesAgree
<1>2. QED
  BY <1>1, AlwaysIInv, PTL
=============================================================================
