----------------------------- MODULE ImageReview -----------------------------
(***************************************************************************)
(* What the pictures of a ticket are worth: the vision model's reading of  *)
(* each picture, their aggregation (providers/vision_review_service.py)    *)
(* and the evidence assessment of the formal review                        *)
(* (agent/workflows/formal_review/evaluators.py).                          *)
(*                                                                         *)
(* A picture is what the vision model says of it: answers are cached under *)
(* the picture and the hints, so that the same picture is read the same    *)
(* way again.  "relevant" stands for a relevance of 0.6 and more,          *)
(* confidence is in percent.                                               *)
(***************************************************************************)
EXTENDS Integers, FiniteSetsExt

Images == [clear : BOOLEAN, visible : BOOLEAN, damage : BOOLEAN, relevant : BOOLEAN,
           tampered : BOOLEAN, contradictory : BOOLEAN, confidence : 0..100]

Consistencies == {"yes", "no", "unknown"}

\* Pictures still to be asked for; "required": named by the policy.
Requirements == {"clear picture", "picture of the problem", "required"}

\* What the evidence branch of a formal review hands over.
EvidenceAssessments ==
    [success : BOOLEAN, verifiable : BOOLEAN, risk : BOOLEAN, consistent : Consistencies,
     confidence : 0..100, missing : SUBSET Requirements]

-----------------------------------------------------------------------------
\* _parse_single_pass_item: damage is a visible problem, whatever else is said.
Parsed(image) == [image EXCEPT !.visible = @ \/ image.damage]

Items(images) == {Parsed(i) : i \in images}

ShowsProblem(i) == i.visible /\ (i.damage \/ i.relevant)

\* _aggregate_generic_evidence
Consistent(items) ==
    CASE \E i \in items : i.tampered \/ i.contradictory -> "no"
      [] \E i \in items : i.clear /\ ShowsProblem(i)
         /\ \A j \in items : ~(j.tampered \/ j.contradictory) -> "yes"
      [] OTHER -> "unknown"

\* Mutant of CollectMissing: one clear picture makes up for the others.
CollectMissingOnce(items) ==
    {r \in {"clear picture"} : \A i \in items : ~i.clear}
        \cup {r \in {"picture of the problem"} :
                  ~\E i \in items : i.clear /\ ~i.tampered /\ ShowsProblem(i)}

\* _collect_missing: every picture is to be clear, and one to show the problem.
CollectMissing(items) ==
    {r \in {"clear picture"} : \E i \in items : ~i.clear}
        \cup {r \in {"picture of the problem"} :
                  ~\E i \in items : i.clear /\ ~i.tampered /\ ShowsProblem(i)}

-----------------------------------------------------------------------------
NoEvidence(success) ==
    [success |-> success, verifiable |-> FALSE, risk |-> FALSE, consistent |-> "unknown",
     confidence |-> 0, missing |-> {}]

\* The least confidence of all pictures counts.  A clear picture is not asked
\* for again here: an unclear one that shows the problem is consistent with it.
AssessItems(items) ==
    LET tampered == \E i \in items : i.tampered
        consistent == IF Consistent(items) = "unknown" /\ \E i \in items : ShowsProblem(i)
                      THEN "yes" ELSE Consistent(items)
        missing == CollectMissing(items)
    IN  [success |-> TRUE,
         verifiable |-> /\ \E i \in items : ShowsProblem(i)
                        /\ consistent = "yes"
                        /\ ~tampered
                        /\ missing = {},
         risk |-> consistent = "no" \/ tampered,
         consistent |-> consistent,
         confidence |-> Min({i.confidence : i \in items}),
         missing |-> missing]

\* EvidenceEvaluator.assess: the review of the pictures may have failed.
AssessEvidence(images, reviewed) ==
    CASE images = {} -> NoEvidence(TRUE)
      [] images # {} /\ ~reviewed -> NoEvidence(FALSE)
      [] OTHER -> AssessItems(Items(images))
=============================================================================
