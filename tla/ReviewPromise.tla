--------------------------- MODULE ReviewPromise ---------------------------
(***************************************************************************)
(* What one after-sales ticket promises to the user and to the agent about *)
(* its AI review, whatever transactions run on it concurrently: one        *)
(* verdict at most, the user is told that verdict and no other, and nobody *)
(* adds evidence to, or asks for evidence on, a ticket that has one.       *)
(***************************************************************************)
CONSTANT SupplementIds  \* client request ids of "supplement evidence" calls

Verdicts == {"APPROVE", "MANUAL_REVIEW_REQUIRED"}
NoVerdict == "NULL"

VARIABLES verdict,   \* the verdict on record
          told,      \* verdicts the user has a result message for
          evidence,  \* supplements accepted after the ticket was created
          asked      \* revisions the user was asked to supplement

promiseVars == <<verdict, told, evidence, asked>>

PromiseInit ==
    /\ verdict = NoVerdict
    /\ told = {}
    /\ evidence = {}
    /\ asked = {}

Decide(v) ==
    /\ verdict = NoVerdict
    /\ verdict' = v
    /\ told' = {v}
    /\ UNCHANGED <<evidence, asked>>

AcceptEvidence(s) ==
    /\ verdict = NoVerdict
    /\ s \notin evidence
    /\ evidence' = evidence \cup {s}
    /\ UNCHANGED <<verdict, told, asked>>

AskForEvidence ==
    /\ verdict = NoVerdict
    /\ \E r \in asked' : r \notin asked /\ asked' = asked \cup {r}
    /\ UNCHANGED <<verdict, told, evidence>>

PromiseNext ==
    \/ \E v \in Verdicts : Decide(v)
    \/ \E s \in SupplementIds : AcceptEvidence(s)
    \/ AskForEvidence

PromiseSpec == PromiseInit /\ [][PromiseNext]_promiseVars
============================================================================
