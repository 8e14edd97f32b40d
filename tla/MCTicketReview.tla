--------------------------- MODULE MCTicketReview ---------------------------
(* Model values for TicketReview: actors of one kind are interchangeable, so *)
(* are the request ids of the user's supplements.                            *)
EXTENDS TicketReview, TLC

Symmetry == Permutations(Reviewers) \cup Permutations(Staff)
              \cup Permutations(SupplementIds)
=============================================================================
