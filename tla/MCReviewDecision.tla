-------------------------- MODULE MCReviewDecision --------------------------
(* Pictures for ReviewDecision: two that prove a problem, and for each way a *)
(* picture can fail to, one that fails in this way only.                     *)
EXTENDS ReviewDecision

Good == [clear |-> TRUE, visible |-> TRUE, damage |-> FALSE, relevant |-> TRUE,
         tampered |-> FALSE, contradictory |-> FALSE, confidence |-> 75]

Broken == [Good EXCEPT !.visible = FALSE, !.damage = TRUE, !.relevant = FALSE, !.confidence = 100]

Pool == {Good, Broken, [Broken EXCEPT !.clear = FALSE], [Good EXCEPT !.relevant = FALSE],
         [Good EXCEPT !.tampered = TRUE], [Broken EXCEPT !.contradictory = TRUE],
         [Good EXCEPT !.confidence = 74]}
=============================================================================
