-------------------------- MODULE AgentTurnProofs --------------------------
(***************************************************************************)
(* Proofs about AgentTurn, for any limits of a turn: what holds at every   *)
(* node of the conversation graph, whatever the model answers and however  *)
(* the tools fail.                                                         *)
(*                                                                         *)
(*   ShapeInv   holds of every turn: which node has seen which calls, what *)
(*              a tool may have answered, that a reply about a human comes *)
(*              from a confirmed hand-off.                                 *)
(*   TicketInv  holds of a turn about a ticket: the order of the calls,    *)
(*              that a verdict once due stays due, that every submission   *)
(*              carries that verdict.                                      *)
(*   KeptInv    counts the calls of such a turn, to show that the limit on *)
(*              its steps does not drop a review.                          *)
(*                                                                         *)
(* A decision is shown once to be of a kind (Sane, TicketChoice,           *)
(* ReviewChoice), and the step that applies it is proved for the kind, so  *)
(* that the rules of _decide_next are unfolded in one place.               *)
(***************************************************************************)
EXTENDS AgentTurn, FiniteSetTheorems, NaturalsInduction, WellFoundedInduction, TLAPS

ToolResult == [tool : Tools, args : Arguments, ok : BOOLEAN,
               error : {"none", "unavailable", "refused", "tool_error", "guard_limit"},
               data : {"none"} \cup UNION {Data(t) : t \in Tools}]

\* The call about to be made, and the ticket as it was last read.
Calling(tool) == node = "tool_call" /\ next.tool = tool
View == LatestData("get_after_sales_ticket")
-----------------------------------------------------------------------------
\* A set of positions that is not empty has a last one.
LEMMA LastExists ==
    ASSUME NEW n \in Nat, NEW S \in SUBSET (1 .. n), S # {}
    PROVE  \E last \in S : \A i \in S : i <= last
<1> DEFINE R == {ss \in Nat \X Nat : ss[1] < ss[2]}
           T == {n - i : i \in S}
<1>0. OpToRel(<, Nat) = R
  BY Zenon DEF OpToRel
<1>1. IsWellFoundedOn(R, Nat)
  BY <1>0, NatLessThanWellFounded, Zenon
<1>2. T \subseteq Nat /\ T # {}
  <2>1. ASSUME NEW i \in S PROVE n - i \in Nat
    <3>1. i \in 1 .. n
      OBVIOUS
    <3>2. QED
      BY <3>1
  <2>2. PICK i \in S : TRUE
    OBVIOUS
  <2>3. n - i \in T
    OBVIOUS
  <2>4. QED
    BY <2>1, <2>3
<1>3. PICK least \in T : \A k \in T : ~(<<k, least>> \in R)
  <2> HIDE DEF R, T
  <2> QED
    BY <1>1, <1>2, WFMin
<1>4. PICK last \in S : least = n - last
  OBVIOUS
<1>5. ASSUME NEW i \in S PROVE i <= last
  <2>1. n - i \in T /\ ~(<<n - i, least>> \in R)
    BY <1>3
  <2>2. n - i \in Nat /\ least \in Nat /\ i \in Nat /\ last \in Nat
    BY <1>2, <2>1
  <2>3. ~(n - i < least)
    BY <2>1, <2>2
  <2>4. QED
    BY <1>4, <2>2, <2>3
<1>6. QED
  BY <1>5

\* The positions of the calls of a turn.
LEMMA Positions ==
    ASSUME toolResults \in Seq(ToolResult)
    PROVE  /\ Len(toolResults) \in Nat
           /\ DOMAIN toolResults = 1 .. Len(toolResults)
           /\ \A i \in DOMAIN toolResults : toolResults[i] \in ToolResult
           /\ toolResults # <<>> => Len(toolResults) \in DOMAIN toolResults
           /\ \A tool : CallsOf(tool) \subseteq DOMAIN toolResults
           /\ \A tool : OkCallsOf(tool) \subseteq CallsOf(tool)
BY DEF CallsOf, OkCallsOf

\* What one more call adds to the history.
LEMMA Appended ==
    ASSUME toolResults \in Seq(ToolResult), NEW r \in ToolResult,
           toolResults' = Append(toolResults, r)
    PROVE  /\ toolResults' \in Seq(ToolResult)
           /\ Len(toolResults') = Len(toolResults) + 1
           /\ DOMAIN toolResults' = DOMAIN toolResults \cup {Len(toolResults) + 1}
           /\ \A i \in DOMAIN toolResults : toolResults'[i] = toolResults[i]
           /\ toolResults'[Len(toolResults) + 1] = r
           /\ toolResults' # <<>> /\ Latest' = r
           /\ Len(toolResults) + 1 \notin DOMAIN toolResults
<1>1. toolResults' \in Seq(ToolResult) /\ Len(toolResults') = Len(toolResults) + 1
  OBVIOUS
<1>2. \A i \in 1 .. Len(toolResults) : toolResults'[i] = toolResults[i]
  OBVIOUS
<1>3. toolResults'[Len(toolResults) + 1] = r
  OBVIOUS
<1>4. QED
  BY <1>1, <1>2, <1>3 DEF Latest

\* One more call adds its position to those of its tool, and to the successful ones
\* when it succeeded.
LEMMA CallsGrow ==
    ASSUME toolResults \in Seq(ToolResult), NEW r \in ToolResult,
           toolResults' = Append(toolResults, r), NEW tool
    PROVE  /\ CallsOf(tool)' = IF r.tool = tool THEN CallsOf(tool) \cup {Len(toolResults) + 1}
                               ELSE CallsOf(tool)
           /\ OkCallsOf(tool)' = IF r.tool = tool /\ Succeeded(r)
                                 THEN OkCallsOf(tool) \cup {Len(toolResults) + 1}
                                 ELSE OkCallsOf(tool)
<1>1. CallsOf(tool)' = IF r.tool = tool THEN CallsOf(tool) \cup {Len(toolResults) + 1}
                       ELSE CallsOf(tool)
  BY Appended DEF CallsOf
<1>2. OkCallsOf(tool)' = {i \in CallsOf(tool)' : Succeeded(toolResults'[i])}
  BY DEF OkCallsOf, Succeeded
<1>3. \A i \in CallsOf(tool) : toolResults'[i] = toolResults[i]
  BY Appended DEF CallsOf
<1>4. toolResults'[Len(toolResults) + 1] = r
  BY Appended
<1>5. QED
  BY <1>1, <1>2, <1>3, <1>4 DEF OkCallsOf

\* The latest data of a tool are those of its last successful call.
LEMMA LatestDataGrows ==
    ASSUME toolResults \in Seq(ToolResult), NEW r \in ToolResult,
           toolResults' = Append(toolResults, r), NEW tool
    PROVE  /\ r.tool = tool /\ Succeeded(r) => LatestData(tool)' = r.data
           /\ ~(r.tool = tool /\ Succeeded(r)) /\ OkCallsOf(tool) # {} =>
                  LatestData(tool)' = LatestData(tool)
<1> DEFINE last(S) == CHOOSE i \in S : \A j \in S : j <= i
<1>1. LatestData(tool) = toolResults[last(OkCallsOf(tool))].data
  BY DEF LatestData
<1>2. LatestData(tool)' = toolResults'[last(OkCallsOf(tool)')].data
  BY DEF LatestData
<1>3. OkCallsOf(tool) \subseteq 1 .. Len(toolResults) /\ Len(toolResults) \in Nat
  BY Positions, Zenon
<1>4. CASE r.tool = tool /\ Succeeded(r)
  <2>1. OkCallsOf(tool)' = OkCallsOf(tool) \cup {Len(toolResults) + 1}
    BY <1>4, CallsGrow, Zenon
  <2>2. last(OkCallsOf(tool)') = Len(toolResults) + 1
    BY <1>3, <2>1
  <2>3. QED
    BY <1>2, <1>4, <2>2, Appended
<1>5. CASE ~(r.tool = tool /\ Succeeded(r)) /\ OkCallsOf(tool) # {}
  <2>1. OkCallsOf(tool)' = OkCallsOf(tool)
    BY <1>5, CallsGrow, Zenon
  <2>2. \E k \in OkCallsOf(tool) : \A i \in OkCallsOf(tool) : i <= k
    BY <1>3, <1>5, LastExists
  <2>3. last(OkCallsOf(tool)) \in OkCallsOf(tool)
    BY <2>2
  <2>4. last(OkCallsOf(tool)) \in DOMAIN toolResults
    BY <2>3, Positions
  <2>5. QED
    BY <1>1, <1>2, <1>5, <2>1, <2>4, Appended
<1>6. QED
  BY <1>4, <1>5

\* A set without two different elements has at most one.
LEMMA AtMostOne ==
    ASSUME NEW S, \A i, j \in S : i = j
    PROVE  IsFiniteSet(S) /\ Cardinality(S) \in Nat /\ Cardinality(S) <= 1
<1>1. CASE S = {}
  <2>1. IsFiniteSet(S) /\ Cardinality(S) = 0
    BY <1>1, FS_EmptySet, Zenon
  <2>2. QED
    BY <2>1
<1>2. CASE S # {}
  <2>1. PICK i \in S : TRUE
    BY <1>2
  <2>2. S = {i}
    BY <2>1
  <2>3. IsFiniteSet(S) /\ Cardinality(S) = 1
    BY <2>2, FS_Singleton, Zenon
  <2>4. QED
    BY <2>3
<1>3. QED
  BY <1>1, <1>2

\* Two sets have together at most as many elements as their sizes add up to.
LEMMA UnionBound ==
    ASSUME NEW S, NEW T, IsFiniteSet(S), IsFiniteSet(T), NEW a \in Nat, NEW b \in Nat,
           Cardinality(S) <= a, Cardinality(T) <= b
    PROVE  IsFiniteSet(S \cup T) /\ Cardinality(S \cup T) <= a + b
<1>1. /\ IsFiniteSet(S \cup T)
      /\ Cardinality(S \cup T) = Cardinality(S) + Cardinality(T) - Cardinality(S \cap T)
  BY FS_Union, Zenon
<1>2. IsFiniteSet(S \cap T)
  BY FS_Intersection, Zenon
<1>3. /\ Cardinality(S) \in Nat /\ Cardinality(T) \in Nat /\ Cardinality(S \cap T) \in Nat
  BY <1>2, FS_CardinalityType, Zenon
<1>4. QED
  BY <1>1, <1>3

\* The calls of a turn are finitely many, and one more call counts once.
LEMMA CallsFinite ==
    ASSUME toolResults \in Seq(ToolResult), NEW tool, NEW args
    PROVE  /\ IsFiniteSet(CallsOf(tool))
           /\ IsFiniteSet({i \in CallsOf(tool) : toolResults[i].args = args})
           /\ Attempts(tool, args) \in Nat
<1>1. IsFiniteSet(1 .. Len(toolResults))
  <2>1. Len(toolResults) \in Int /\ 1 \in Int
    OBVIOUS
  <2>2. QED
    BY <2>1, FS_Interval, Zenon
<1>2. CallsOf(tool) \subseteq 1 .. Len(toolResults)
  BY DEF CallsOf
<1>3. IsFiniteSet(CallsOf(tool))
  BY <1>1, <1>2, FS_Subset, Zenon
<1>4. IsFiniteSet({i \in CallsOf(tool) : toolResults[i].args = args})
  <2>1. {i \in CallsOf(tool) : toolResults[i].args = args} \subseteq CallsOf(tool)
    OBVIOUS
  <2>2. QED
    BY <1>3, <2>1, FS_Subset, Zenon
<1>5. Attempts(tool, args) \in Nat
  BY <1>4, FS_CardinalityType, Zenon DEF Attempts
<1>6. QED
  BY <1>3, <1>4, <1>5

\* One more call with the same arguments is one more attempt.
LEMMA AttemptsGrow ==
    ASSUME toolResults \in Seq(ToolResult), NEW r \in ToolResult,
           toolResults' = Append(toolResults, r), NEW tool, NEW args
    PROVE  Attempts(tool, args)' = IF r.tool = tool /\ r.args = args
                                   THEN Attempts(tool, args) + 1 ELSE Attempts(tool, args)
<1> DEFINE S == {i \in CallsOf(tool) : toolResults[i].args = args}
           n == Len(toolResults) + 1
<1>1. IsFiniteSet(S) /\ Attempts(tool, args) = Cardinality(S)
  BY CallsFinite DEF Attempts
<1>2. Attempts(tool, args)' = Cardinality({i \in CallsOf(tool)' : toolResults'[i].args = args})
  BY DEF Attempts
<1>3. \A i \in CallsOf(tool) : toolResults'[i] = toolResults[i]
  BY Appended DEF CallsOf
<1>4. toolResults'[n] = r /\ n \notin S
  BY Appended DEF CallsOf
<1>5. CallsOf(tool)' = IF r.tool = tool THEN CallsOf(tool) \cup {n} ELSE CallsOf(tool)
  BY CallsGrow, Zenon
<1>6. CASE r.tool = tool /\ r.args = args
  <2>1. {i \in CallsOf(tool)' : toolResults'[i].args = args} = S \cup {n}
    BY <1>3, <1>4, <1>5, <1>6
  <2>2. Cardinality(S \cup {n}) = Cardinality(S) + 1
    <3> HIDE DEF S, n
    <3> QED
      BY <1>1, <1>4, FS_AddElement, Zenon
  <2>3. QED
    BY <1>1, <1>2, <1>6, <2>1, <2>2
<1>7. CASE ~(r.tool = tool /\ r.args = args)
  <2>1. {i \in CallsOf(tool)' : toolResults'[i].args = args} = S
    BY <1>3, <1>4, <1>5, <1>7
  <2>2. QED
    BY <1>1, <1>2, <1>7, <2>1
<1>8. QED
  BY <1>6, <1>7
-----------------------------------------------------------------------------
(* Decisions.                                                               *)

\* The tools a decision may name: a human is called by human_handoff alone.
CallTools == Tools \ {"handoff_to_human"}
Handed == {"handedOver", "reviewedAndHandedOver"}

\* A decision _apply_action can be given: Handed are the replies that say that a
\* human has the session.
Sane(d) ==
    /\ d \in Decisions
    /\ d.action = "tool_call" => d.tool \in CallTools
    /\ d.action # "tool_call" => d.tool = NoTool
    /\ d.action # "human_handoff" => d.reply \notin Handed

\* Every decision the rules build is one _apply_action accepts: calls, hand-offs and
\* replies, and the fixed ones among them.
LEMMA CallSane ==
    \A tool \in CallTools, args \in Arguments, human \in BOOLEAN,
       evidence \in {"some", "none", "keep"} :
        Sane(Decision("tool_call", tool, args, "none", human, evidence))
BY DEF Sane, Decision, Decisions, CallTools, Replies, Handed

LEMMA HandOffSane ==
    \A reply \in Replies, evidence \in {"some", "none", "keep"} : Sane(HandOff(reply, evidence))
BY DEF Sane, HandOff, Decision, Decisions, Arguments

LEMMA ReplySane ==
    \A reply \in Replies \ Handed, human \in BOOLEAN, evidence \in {"some", "none", "keep"} :
        Sane(Reply(reply, human, evidence))
BY DEF Sane, Reply, Decision, Decisions, Arguments

LEMMA RulesSane ==
    /\ Sane(OrderLookup) /\ Sane(GetTicket) /\ Sane(FailClosedDecision)
    /\ \A args \in {"approve", "manual", "manualUncertain"}, evidence \in {"some", "none", "keep"} :
           Sane(Submit(args, evidence))
<1>1. Sane(OrderLookup) /\ Sane(GetTicket)
  BY CallSane DEF OrderLookup, GetTicket, Call, CallTools, Tools, Arguments
<1>2. "plain" \in Replies \ Handed
  BY DEF Replies, Handed
<1>3. Sane(FailClosedDecision)
  BY <1>2, HandOffSane, ReplySane DEF FailClosedDecision
<1>4. ASSUME NEW args \in {"approve", "manual", "manualUncertain"},
             NEW evidence \in {"some", "none", "keep"}
      PROVE  Sane(Submit(args, evidence))
  BY CallSane DEF Submit, CallTools, Tools, Arguments
<1>5. QED
  BY <1>1, <1>3, <1>4

\* So is what is left of a model's answer after _guard_completed_review_claim; a
\* model cannot ask for the second retrieval.
LEMMA ModelSane ==
    ASSUME NEW model \in ModelDecisions \cup {FailClosed}, NEW terminal \in BOOLEAN
    PROVE  LET raw == GuardCompletedReviewClaim(NativeDecision(model), terminal) IN
           Sane(raw) /\ raw.tool # "retrieve_knowledge_multi"
<1>1. Sane(NativeDecision(model)) /\ NativeDecision(model).tool # "retrieve_knowledge_multi"
  <2>1. CASE model = FailClosed
    <3>1. FailClosedDecision.tool = NoTool
      BY DEF FailClosedDecision, HandOff, Reply, Decision
    <3>2. QED
      BY <2>1, <3>1, RulesSane DEF NativeDecision, NoTool
  <2>2. ASSUME NEW t \in ModelTools, model # FailClosed,
               model = KeepingCall(t, "model")
        PROVE  Sane(model) /\ model.tool # "retrieve_knowledge_multi"
    <3>1. t \in CallTools /\ t # "retrieve_knowledge_multi" /\ "model" \in Arguments
      BY DEF ModelTools, CallTools, Arguments
    <3>2. model = Decision("tool_call", t, "model", "none", FALSE, "keep")
      BY <2>2 DEF KeepingCall
    <3>3. model.tool = t
      BY <3>2 DEF Decision
    <3>4. QED
      BY <3>1, <3>2, <3>3, CallSane
  <2>3. ASSUME NEW r \in ModelReplies, model = HandOff(r, "keep")
        PROVE  Sane(model) /\ model.tool = NoTool
    <3>1. r \in Replies
      BY DEF ModelReplies, Replies
    <3>2. QED
      BY <2>3, <3>1, HandOffSane DEF HandOff, Decision
  <2>4. ASSUME NEW r \in ModelReplies, NEW h \in BOOLEAN, model = Reply(r, h, "keep")
        PROVE  Sane(model) /\ model.tool = NoTool
    <3>1. r \in Replies \ Handed
      BY DEF ModelReplies, Replies, Handed
    <3>2. QED
      BY <2>4, <3>1, ReplySane DEF Reply, Decision
  <2>5. CASE model # FailClosed
    <3>1. Sane(model) /\ model.tool # "retrieve_knowledge_multi"
      BY <2>2, <2>3, <2>4, <2>5 DEF ModelDecisions, NoTool
    <3>2. QED
      BY <2>5, <3>1 DEF NativeDecision
  <2>6. QED
    BY <2>1, <2>5
<1>2. Sane(Reply("plain", FALSE, "some")) /\ Reply("plain", FALSE, "some").tool = NoTool
  <2>1. "plain" \in Replies \ Handed
    BY DEF Replies, Handed
  <2>2. QED
    BY <2>1, ReplySane DEF Reply, Decision
<1>3. Sane(OrderLookup) /\ OrderLookup.tool = "search_user_orders"
  BY RulesSane DEF OrderLookup, Call, Decision
<1>4. QED
  BY <1>1, <1>2, <1>3 DEF GuardCompletedReviewClaim, NoTool

\* The plan of a turn; a linked ticket is read first, whatever the model says.
LEMMA PlanSane ==
    ASSUME NEW model \in ModelDecisions \cup {FailClosed}
    PROVE  /\ Sane(Plan(model)) /\ Plan(model).tool # "retrieve_knowledge_multi"
           /\ turn.ticketId => Plan(model) = GetTicket
<1>1. GetTicket.tool = "get_after_sales_ticket" /\ OrderLookup.tool = "search_user_orders"
  BY DEF GetTicket, OrderLookup, Call, Decision
<1>2. QED
  BY <1>1, ModelSane, RulesSane DEF Plan

\* A failed call is retried as it was, replaced, or leaves the decision to the rules.
LEMMA FailureSane ==
    ASSUME Latest \in ToolResult
    PROVE  \/ FailureDecision = NoDecision
           \/ Sane(FailureDecision) /\ FailureDecision.tool # "retrieve_knowledge_multi"
<1>1. ASSUME CanRetryTool(Latest)
      PROVE  /\ Sane(KeepingCall(Latest.tool, Latest.args))
             /\ KeepingCall(Latest.tool, Latest.args).tool # "retrieve_knowledge_multi"
  <2>1. Latest.tool \in CallTools \ {"retrieve_knowledge_multi"} /\ Latest.args \in Arguments
    BY <1>1 DEF CanRetryTool, SafeRetryTools, ToolResult, CallTools, Tools
  <2>2. QED
    BY <2>1, CallSane DEF KeepingCall, Decision
<1>2. /\ Sane(Submit("manualUncertain", "keep"))
      /\ Submit("manualUncertain", "keep").tool = "submit_ai_review"
  BY RulesSane DEF Submit, Decision
<1>3. Sane(GetTicket) /\ GetTicket.tool = "get_after_sales_ticket"
  BY RulesSane DEF GetTicket, Call, Decision
<1>4. Sane(HandOff("handedOver", "keep")) /\ HandOff("handedOver", "keep").tool = NoTool
  <2>1. "handedOver" \in Replies
    BY DEF Replies
  <2>2. QED
    BY <2>1, HandOffSane DEF HandOff, Decision
<1>5. Sane(Reply("plain", FALSE, "some")) /\ Reply("plain", FALSE, "some").tool = NoTool
  <2>1. "plain" \in Replies \ Handed
    BY DEF Replies, Handed
  <2>2. QED
    BY <2>1, ReplySane DEF Reply, Decision
<1>6. QED
  BY <1>1, <1>2, <1>3, <1>4, <1>5 DEF FailureDecision, HandleToolFailure, NoTool

\* The rules without the follow-up of a thin retrieval never search twice.
LEMMA GuardedSane ==
    ASSUME needHuman \in BOOLEAN, NEW evidence \in EvidenceNeeds
    PROVE  /\ Sane(GuardedDecision(evidence))
           /\ GuardedDecision(evidence).tool # "retrieve_knowledge_multi"
<1>1. /\ "plain" \in Replies \ Handed /\ TicketReply \in Replies \ Handed
      /\ "reviewedAndHandedOver" \in Replies
      /\ evidence \in {"some", "none", "keep"}
  BY DEF Replies, Handed, TicketReply, EvidenceNeeds
<1>2. /\ Sane(HandOff("plain", "keep")) /\ Sane(HandOff("plain", "none"))
      /\ Sane(HandOff("reviewedAndHandedOver", "keep"))
      /\ HandOff("plain", "keep").tool = NoTool /\ HandOff("plain", "none").tool = NoTool
      /\ HandOff("reviewedAndHandedOver", "keep").tool = NoTool
  BY <1>1, HandOffSane DEF HandOff, Decision
<1>3. /\ Sane(Reply(TicketReply, needHuman, "keep")) /\ Sane(Reply("plain", FALSE, "none"))
      /\ Sane(Reply("plain", FALSE, "some")) /\ Sane(Reply("plain", FALSE, evidence))
      /\ Reply(TicketReply, needHuman, "keep").tool = NoTool
      /\ Reply("plain", FALSE, "none").tool = NoTool
      /\ Reply("plain", FALSE, "some").tool = NoTool
      /\ Reply("plain", FALSE, evidence).tool = NoTool
  BY <1>1, ReplySane DEF Reply, Decision
<1>4. ASSUME NEW tool \in {"review_images", "retrieve_knowledge"}
      PROVE  Sane(Call(tool, "own")) /\ Call(tool, "own").tool = tool
  BY CallSane DEF Call, Decision, CallTools, Tools, Arguments
<1>5. /\ Sane(GetTicket) /\ GetTicket.tool = "get_after_sales_ticket"
      /\ Sane(OrderLookup) /\ OrderLookup.tool = "search_user_orders"
  BY RulesSane DEF GetTicket, OrderLookup, Call, Decision
<1>6. ASSUME NEW args \in {"approve", "manual", "manualUncertain"},
             NEW e \in {"some", "none", "keep"}
      PROVE  Sane(Submit(args, e)) /\ Submit(args, e).tool = "submit_ai_review"
  BY RulesSane DEF Submit, Decision
<1>7. /\ Sane(ConsultationDecision(evidence))
      /\ ConsultationDecision(evidence).tool # "retrieve_knowledge_multi"
  BY <1>2, <1>3, <1>4, <1>5 DEF ConsultationDecision, NoTool
<1>8. /\ Sane(BuildAiReview(evidence))
      /\ BuildAiReview(evidence).tool # "retrieve_knowledge_multi"
  BY <1>1, <1>6 DEF BuildAiReview
<1>9. ASSUME NEW view
      PROVE  Sane(RetrievePolicy(view)) /\ RetrievePolicy(view).tool # "retrieve_knowledge_multi"
  BY <1>2, <1>4, <1>6 DEF RetrievePolicy, NoTool
<1>10. QED
  BY <1>2, <1>3, <1>4, <1>5, <1>7, <1>8, <1>9 DEF GuardedDecision, NoTool

\* The last word of the model is a reply or a hand-off when a ticket is linked.
LEMMA TerminalSane ==
    ASSUME NEW guarded, Sane(guarded), guarded.action = "final_reply",
           NEW model \in ModelDecisions \cup {FailClosed}
    PROVE  /\ Sane(NativeTerminalDecision(guarded, model))
           /\ NativeTerminalDecision(guarded, model).tool # "retrieve_knowledge_multi"
           /\ turn.ticketId =>
                  NativeTerminalDecision(guarded, model).action \in {"human_handoff", "final_reply"}
<1> DEFINE raw == GuardCompletedReviewClaim(NativeDecision(model), TRUE)
<1>1. Sane(raw) /\ raw.tool # "retrieve_knowledge_multi"
  BY ModelSane
<1>2. guarded.tool = NoTool /\ guarded.human \in BOOLEAN /\ guarded.evidence \in {"some", "none", "keep"}
  BY DEF Sane, Decisions
<1>3. /\ Sane(FailClosedDecision) /\ FailClosedDecision.tool = NoTool
      /\ FailClosedDecision.action \in {"human_handoff", "final_reply"}
  BY RulesSane DEF FailClosedDecision, HandOff, Reply, Decision
<1>4. CASE raw.action = "final_reply"
  <2>1. raw.reply \in Replies \ Handed
    BY <1>1, <1>4 DEF Sane, Decisions
  <2>2. /\ Sane(Reply(raw.reply, guarded.human, guarded.evidence))
        /\ Reply(raw.reply, guarded.human, guarded.evidence).tool = NoTool
        /\ Reply(raw.reply, guarded.human, guarded.evidence).action = "final_reply"
    BY <1>2, <2>1, ReplySane DEF Reply, Decision
  <2>3. QED
    BY <1>3, <1>4, <2>2 DEF NativeTerminalDecision, NoTool
<1>5. CASE raw.action # "final_reply"
  BY <1>2, <1>3, <1>5 DEF NativeTerminalDecision, NoTool
<1>6. QED
  BY <1>4, <1>5

\* A second search is asked for only by the follow-up of a first one.
LEMMA RuleSane ==
    ASSUME needHuman \in BOOLEAN, NEW verdict, NEW evidence \in EvidenceNeeds,
           NEW d \in RuleDecisions(verdict, evidence)
    PROVE  /\ Sane(d)
           /\ d.tool = "retrieve_knowledge_multi" =>
                  AssessesFirstRound /\ ~rewriteCompleted
                  /\ d = KeepingCall("retrieve_knowledge_multi", "own")
<1>1. CASE FollowUpRetrieval(verdict) # NoDecision
  <2>1. d = FollowUpRetrieval(verdict)
    BY <1>1 DEF RuleDecisions
  <2>2. Sane(HandOff("plain", "keep")) /\ HandOff("plain", "keep").tool = NoTool
    <3>1. "plain" \in Replies
      BY DEF Replies
    <3>2. QED
      BY <3>1, HandOffSane DEF HandOff, Decision
  <2>3. Sane(KeepingCall("retrieve_knowledge_multi", "own"))
    BY CallSane DEF KeepingCall, CallTools, Tools, Arguments
  <2>4. QED
    BY <1>1, <2>1, <2>2, <2>3
       DEF FollowUpRetrieval, AssessesFirstRound, Assessable, NoTool
<1>2. CASE FollowUpRetrieval(verdict) = NoDecision
  <2>1. /\ Sane(GuardedDecision(evidence))
        /\ GuardedDecision(evidence).tool # "retrieve_knowledge_multi"
    BY GuardedSane
  <2>2. CASE GuardedDecision(evidence).action = "final_reply"
    <3>1. PICK model \in ModelDecisions \cup {FailClosed} :
              d = NativeTerminalDecision(GuardedDecision(evidence), model)
      BY <1>2, <2>2, Zenon DEF RuleDecisions
    <3>2. Sane(d) /\ d.tool # "retrieve_knowledge_multi"
      BY <2>1, <2>2, <3>1, TerminalSane, Zenon
    <3>3. QED
      BY <3>2
  <2>3. CASE GuardedDecision(evidence).action # "final_reply"
    BY <1>2, <2>1, <2>3 DEF RuleDecisions
  <2>4. QED
    BY <2>2, <2>3
<1>3. QED
  BY <1>1, <1>2

\* What _apply_action makes of a decision.
LEMMA Applied ==
    ASSUME TypeOK, NEW d, Sane(d), ApplyAction(d)
    PROVE  /\ next' \in [action : {"none", "tool_call", "human_handoff", "final_reply"},
                         tool : Tools \cup {NoTool}, args : Arguments]
           /\ assistantReply' \in Replies /\ needHuman' \in BOOLEAN /\ evidenceNeeded' \in BOOLEAN
           /\ node' \in {"tool_call", "human_handoff", "final_reply"}
           /\ node' = "tool_call" =>
                  /\ d.action = "tool_call" /\ d.tool \in CallTools
                  /\ next'.tool = d.tool /\ next'.args = d.args
                  /\ d.tool = "submit_ai_review" => turn.kafka
           /\ node' = "final_reply" => ~needHuman'
           /\ node' # "human_handoff" /\ assistantReply \notin Handed => assistantReply' \notin Handed
<1> DEFINE a == Allowed(d)
<1>1. /\ a \in Decisions
      /\ a.action # "human_handoff" => a.reply \notin Handed
      /\ a.action = "tool_call" => a = d /\ (d.tool = "submit_ai_review" => turn.kafka)
  <2>1. CASE SubmitBlocked(d)
    <3>1. d.evidence \in {"some", "none", "keep"} /\ "plain" \in Replies \ Handed
      BY DEF Sane, Decisions, Replies, Handed
    <3>2. Sane(Reply("plain", FALSE, d.evidence)) /\ Reply("plain", FALSE, d.evidence).action = "final_reply"
      BY <3>1, ReplySane DEF Reply, Decision
    <3>3. QED
      BY <2>1, <3>2 DEF Allowed, Sane
  <2>2. CASE ~SubmitBlocked(d)
    BY <2>2 DEF Allowed, SubmitBlocked, Sane
  <2>3. QED
    BY <2>1, <2>2
<1>2. /\ next' = [action |-> a.action, tool |-> a.tool, args |-> a.args]
      /\ assistantReply' = IF a.reply = "none" THEN assistantReply ELSE a.reply
      /\ needHuman' = (a.human \/ a.action = "human_handoff")
      /\ evidenceNeeded' = IF a.evidence = "keep" THEN evidenceNeeded ELSE a.evidence = "some"
      /\ node' = Route(a)
  BY DEF ApplyAction
<1> HIDE DEF a
<1>3. /\ a.action \in {"tool_call", "human_handoff", "final_reply"}
      /\ a.tool \in Tools \cup {NoTool} /\ a.args \in Arguments /\ a.reply \in Replies
      /\ a.human \in BOOLEAN
  BY <1>1 DEF Decisions
<1>4. /\ node' \in {"tool_call", "human_handoff", "final_reply"}
      /\ node' = "tool_call" <=> a.action = "tool_call"
      /\ node' = "final_reply" => a.action = "final_reply" /\ ~a.human
      /\ a.action = "human_handoff" => node' = "human_handoff"
  BY <1>2, <1>3 DEF Route
<1>5. next' \in [action : {"none", "tool_call", "human_handoff", "final_reply"},
                 tool : Tools \cup {NoTool}, args : Arguments]
  BY <1>2, <1>3
<1>6. assistantReply' \in Replies /\ needHuman' \in BOOLEAN /\ evidenceNeeded' \in BOOLEAN
  BY <1>2, <1>3 DEF TypeOK
<1>7. ASSUME node' = "tool_call"
      PROVE  /\ d.action = "tool_call" /\ d.tool \in CallTools
             /\ next'.tool = d.tool /\ next'.args = d.args
             /\ d.tool = "submit_ai_review" => turn.kafka
  BY <1>1, <1>2, <1>4, <1>7 DEF Sane
<1>8. node' = "final_reply" => ~needHuman'
  BY <1>2, <1>4
<1>9. node' # "human_handoff" /\ assistantReply \notin Handed => assistantReply' \notin Handed
  BY <1>1, <1>2, <1>4
<1>10. QED
  BY <1>4, <1>5, <1>6, <1>7, <1>8, <1>9
-----------------------------------------------------------------------------
(* The shape of a turn: what holds of its variables in every turn, with a   *)
(* linked ticket or without one.                                            *)

Closing == {"final_reply", "END", "RAISED"}
Deciding == {"classify_or_plan", "decide_next"}
Observing == node \in {"observe_tool_result", "decide_next"}
AsksFor(tool) == HasResult(tool) \/ Calling(tool)

HandoffConfirmed ==
    \E i \in CallsOf("handoff_to_human") : toolResults[i].ok /\ toolResults[i].data = "waiting"

\* What each node knows: nothing has happened before the plan, and a human has not
\* been called before the turn closes.
NodeInv ==
    /\ node \in {"receive_message", "classify_or_plan"} =>
           toolResults = <<>> /\ steps = 0 /\ ticket = "none" /\ ~needHuman
    /\ node = "tool_call" => next.tool \in CallTools /\ (steps < MaxSteps \/ steps = 0)
    /\ Observing => toolResults # <<>>
    /\ node \notin Closing => CallsOf("handoff_to_human") = {} /\ sessionMode = "AI"
    /\ node \notin Closing \cup {"human_handoff"} => assistantReply \notin Handed

\* A closed turn says and does what its hand-off was answered.
ClosingInv ==
    node \in {"final_reply", "END"} =>
        /\ (assistantReply \in Handed) <=> HandoffConfirmed
        /\ (sessionMode = "HUMAN") <=> HandoffConfirmed
        /\ needHuman => HasResult("handoff_to_human")

\* What the record of a call may hold.
Sound(r) ==
    /\ r.ok <=> r.error = "none"
    /\ r.ok => r.data \in Data(r.tool)
    /\ r.error \in {"none", "guard_limit"} \cup Errors(r.tool)

ResultsInv == \A i \in DOMAIN toolResults : Sound(toolResults[i])

\* The second retrieval is asked for once.
RewriteInv ==
    /\ \A i, j \in CallsOf("retrieve_knowledge_multi") : i = j
    /\ HasResult("retrieve_knowledge_multi") => rewriteCompleted
    /\ Calling("retrieve_knowledge_multi") =>
           ~HasResult("retrieve_knowledge_multi") /\ rewriteCompleted

\* Only a turn that came over Kafka submits a review.
KafkaInv == AsksFor("submit_ai_review") => turn.kafka

ShapeInv == TypeOK /\ NodeInv /\ ClosingInv /\ ResultsInv /\ RewriteInv /\ KafkaInv

\* Nothing a decision reads from the history changes without a call.
LEMMA HistoryKept ==
    ASSUME toolResults' = toolResults
    PROVE  /\ \A tool : /\ CallsOf(tool)' = CallsOf(tool)
                        /\ OkCallsOf(tool)' = OkCallsOf(tool)
                        /\ HasResult(tool)' = HasResult(tool)
                        /\ HasSuccessful(tool)' = HasSuccessful(tool)
                        /\ LatestData(tool)' = LatestData(tool)
           /\ Latest' = Latest
<1>1. ASSUME NEW tool
      PROVE  CallsOf(tool)' = CallsOf(tool) /\ OkCallsOf(tool)' = OkCallsOf(tool)
  BY DEF CallsOf, OkCallsOf, Succeeded
<1>2. ASSUME NEW tool
      PROVE  LatestData(tool)' = LatestData(tool)
  <2> DEFINE last(S) == CHOOSE i \in S : \A j \in S : j <= i
  <2>1. /\ LatestData(tool) = toolResults[last(OkCallsOf(tool))].data
        /\ LatestData(tool)' = toolResults'[last(OkCallsOf(tool)')].data
    BY DEF LatestData
  <2>2. QED
    <3> HIDE DEF last
    <3> QED
      BY <1>1, <2>1
<1>3. QED
  BY <1>1, <1>2 DEF HasResult, HasSuccessful, Latest

\* The nodes that read the last call have one.
LEMMA LatestTyped ==
    ASSUME TypeOK, NodeInv, Observing
    PROVE  Latest \in ToolResult /\ Len(toolResults) \in DOMAIN toolResults
<1>1. toolResults \in Seq(ToolResult) /\ toolResults # <<>>
  BY DEF TypeOK, NodeInv, ToolResult
<1>2. QED
  BY <1>1, Positions DEF Latest

\* What a tool may answer.
LEMMA Outcome ==
    ASSUME NEW tool \in Tools, NEW args \in Arguments, NEW r \in Outcomes(tool, args)
    PROVE  /\ r \in ToolResult /\ r.tool = tool /\ r.args = args /\ Sound(r)
           /\ r.error # "guard_limit"
           /\ r.ok => ~LacksId(tool)
<1>1. Data(tool) \subseteq {"none"} \cup UNION {Data(t) : t \in Tools}
  OBVIOUS
<1>2. Errors(tool) \subseteq {"unavailable", "refused", "tool_error"} /\ "refused" \in Errors(tool)
  BY DEF Errors
<1>3. CASE LacksId(tool)
  <2>1. r = Result(tool, args, "refused", "none")
    BY <1>3 DEF Outcomes
  <2>2. QED
    BY <1>2, <2>1 DEF Result, ToolResult, Sound
<1>4. CASE ~LacksId(tool)
  <2>1. \/ \E d \in Data(tool) : r = Result(tool, args, "none", d)
        \/ \E e \in Errors(tool) : r = Result(tool, args, e, "none")
    BY <1>4 DEF Outcomes
  <2>2. ASSUME NEW d \in Data(tool), r = Result(tool, args, "none", d)
        PROVE  r \in ToolResult /\ r.tool = tool /\ r.args = args /\ Sound(r) /\ r.error # "guard_limit"
    BY <1>1, <2>2 DEF Result, ToolResult, Sound
  <2>3. ASSUME NEW e \in Errors(tool), r = Result(tool, args, e, "none")
        PROVE  r \in ToolResult /\ r.tool = tool /\ r.args = args /\ Sound(r) /\ r.error # "guard_limit"
    BY <1>2, <2>3 DEF Result, ToolResult, Sound
  <2>4. QED
    BY <1>4, <2>1, <2>2, <2>3
<1>5. QED
  BY <1>3, <1>4

\* A call refused by the limits of the turn is recorded as a failed call.
LEMMA Refused ==
    ASSUME NEW tool \in Tools, NEW args \in Arguments
    PROVE  LET r == Result(tool, args, "guard_limit", "none") IN
           r \in ToolResult /\ Sound(r) /\ r.tool = tool /\ r.args = args /\ ~r.ok
BY DEF Result, ToolResult, Sound

\* A decision keeps the shape, whichever rule took it.
LEMMA DecisionShape ==
    ASSUME ShapeInv, visited' \in 0 .. RecursionLimit, node \in Deciding, node = "decide_next" => steps < MaxSteps,
           NEW d, Sane(d), ApplyAction(d),
           UNCHANGED <<turn, toolResults, steps, attachments, ticket, sessionMode>>,
           submitFailed' \in BOOLEAN, rewriteCompleted' \in BOOLEAN,
           rewriteCompleted => rewriteCompleted',
           assessment' \in {"none", "error", "sufficient", "insufficient"},
           d.tool = "retrieve_knowledge_multi" =>
               ~HasResult("retrieve_knowledge_multi") /\ rewriteCompleted'
    PROVE  ShapeInv'
<1> USE HistoryKept DEF Deciding, Closing
<1>1. TypeOK'
  BY Applied DEF ShapeInv, TypeOK, Nodes
<1>2. NodeInv'
  <2>1. CallsOf("handoff_to_human")' = {} /\ sessionMode' = "AI"
    BY DEF ShapeInv, NodeInv
  <2>2. node' = "tool_call" => next'.tool \in CallTools /\ (steps' < MaxSteps \/ steps' = 0)
    BY Applied DEF ShapeInv, NodeInv
  <2>3. node' # "human_handoff" => assistantReply' \notin Handed
    BY Applied DEF ShapeInv, NodeInv
  <2>4. node' \in {"tool_call", "human_handoff", "final_reply"}
    BY Applied DEF ShapeInv
  <2>5. QED
    BY <2>1, <2>2, <2>3, <2>4 DEF NodeInv, Observing
<1>3. ClosingInv'
  <2>1. CallsOf("handoff_to_human")' = {} /\ sessionMode' = "AI" /\ assistantReply \notin Handed
    BY DEF ShapeInv, NodeInv
  <2>2. ~HandoffConfirmed'
    BY <2>1 DEF HandoffConfirmed
  <2>3. node' = "final_reply" => ~needHuman' /\ assistantReply' \notin Handed
    BY <2>1, Applied DEF ShapeInv
  <2>4. node' # "END"
    BY Applied DEF ShapeInv
  <2>5. QED
    BY <2>1, <2>2, <2>3, <2>4 DEF ClosingInv
<1>4. ResultsInv'
  BY DEF ShapeInv, ResultsInv, Sound
<1>5. RewriteInv'
  <2>1. Calling("retrieve_knowledge_multi")' => d.tool = "retrieve_knowledge_multi"
    BY Applied DEF ShapeInv, Calling
  <2>2. QED
    BY <2>1 DEF ShapeInv, RewriteInv
<1>6. KafkaInv'
  <2>1. Calling("submit_ai_review")' => turn.kafka
    BY Applied DEF ShapeInv, Calling
  <2>2. QED
    BY <2>1 DEF ShapeInv, KafkaInv, AsksFor
<1>7. QED
  BY <1>1, <1>2, <1>3, <1>4, <1>5, <1>6 DEF ShapeInv

\* Rounds: what the actions that apply a decision have in common.
LEMMA DecidingShape ==
    ASSUME ShapeInv, visited' \in 0 .. RecursionLimit,
           ClassifyOrPlan \/ DecideAfterFailure \/ DecideWithoutOrder \/ DecideNext
    PROVE  ShapeInv'
<1>0. TypeOK /\ NodeInv /\ RewriteInv
  BY DEF ShapeInv
<1>1. CASE ClassifyOrPlan
  <2>1. PICK model \in ModelDecisions \cup {FailClosed} : ApplyAction(Plan(model))
    BY <1>1 DEF ClassifyOrPlan
  <2>2. Sane(Plan(model)) /\ Plan(model).tool # "retrieve_knowledge_multi"
    BY PlanSane
  <2>3. QED
    BY <1>0, <1>1, <2>1, <2>2, DecisionShape DEF ClassifyOrPlan, Deciding, TypeOK
<1>2. CASE DecideAfterFailure
  <2>1. Latest \in ToolResult
    BY <1>0, <1>2, LatestTyped DEF DecideAfterFailure, Observing
  <2>2. Sane(FailureDecision) /\ FailureDecision.tool # "retrieve_knowledge_multi"
    BY <1>2, <2>1, FailureSane DEF DecideAfterFailure
  <2>3. submitFailed' \in BOOLEAN
    BY <1>0, <1>2 DEF DecideAfterFailure, TypeOK, GivesUpSubmission
  <2>4. QED
    BY <1>0, <1>2, <2>2, <2>3, DecisionShape DEF DecideAfterFailure, Deciding, TypeOK
<1>3. CASE DecideWithoutOrder
  <2>1. /\ Sane(Reply("plain", FALSE, "some"))
        /\ Reply("plain", FALSE, "some").tool # "retrieve_knowledge_multi"
    <3>1. "plain" \in Replies \ Handed
      BY DEF Replies, Handed
    <3>2. QED
      BY <3>1, ReplySane DEF Reply, Decision, NoTool
  <2>2. QED
    BY <1>0, <1>3, <2>1, DecisionShape DEF DecideWithoutOrder, Deciding, TypeOK
<1>4. CASE DecideNext
  <2>1. PICK verdict \in RewriteVerdicts, evidence \in EvidenceNeeds :
            \E decision \in RuleDecisions(verdict, evidence) :
                ApplyAction(decision) /\ assessment' = Assessment(verdict)
    BY <1>4 DEF DecideNext, RewriteVerdicts
  <2>2. PICK d \in RuleDecisions(verdict, evidence) :
            ApplyAction(d) /\ assessment' = Assessment(verdict)
    BY <2>1
  <2>3. /\ Sane(d)
        /\ d.tool = "retrieve_knowledge_multi" => AssessesFirstRound /\ ~rewriteCompleted
    BY <1>0, RuleSane DEF TypeOK
  <2>4. assessment' \in {"none", "error", "sufficient", "insufficient"}
    BY <1>0, <2>2 DEF TypeOK, Assessment, RewriteVerdicts
  <2>5. rewriteCompleted' = (rewriteCompleted \/ AssessesFirstRound)
    BY <1>4 DEF DecideNext
  <2>6. rewriteCompleted' \in BOOLEAN /\ (rewriteCompleted => rewriteCompleted')
    BY <1>0, <2>5 DEF TypeOK, AssessesFirstRound
  <2>7. d.tool = "retrieve_knowledge_multi" =>
            ~HasResult("retrieve_knowledge_multi") /\ rewriteCompleted'
    BY <1>0, <2>3, <2>5 DEF RewriteInv
  <2>8. QED
    BY <1>0, <1>4, <2>2, <2>3, <2>4, <2>6, <2>7, DecisionShape DEF DecideNext, Deciding, TypeOK
<1>5. QED
  BY <1>1, <1>2, <1>3, <1>4

\* Where the actions that apply a decision lead.
LEMMA DecidingNode ==
    ASSUME ClassifyOrPlan \/ DecideAfterFailure \/ DecideWithoutOrder \/ DecideNext
    PROVE  node' \in {"tool_call", "human_handoff", "final_reply"}
<1>1. PICK d : ApplyAction(d)
  BY DEF ClassifyOrPlan, DecideAfterFailure, DecideWithoutOrder, DecideNext
<1>2. QED
  BY <1>1 DEF ApplyAction, Route

\* Nodes that neither call a tool nor decide on a call keep what is known of the calls.
LEMMA QuietShape ==
    ASSUME ShapeInv, UNCHANGED <<turn, toolResults, rewriteCompleted>>, node' # "tool_call"
    PROVE  ResultsInv' /\ RewriteInv' /\ KafkaInv'
<1> USE HistoryKept
<1>1. ResultsInv'
  BY DEF ShapeInv, ResultsInv, Sound
<1>2. RewriteInv'
  BY DEF ShapeInv, RewriteInv, Calling
<1>3. KafkaInv'
  BY DEF ShapeInv, KafkaInv, AsksFor, Calling
<1>4. QED
  BY <1>1, <1>2, <1>3

\* The other nodes without a call keep the shape.
LEMMA QuietStep ==
    ASSUME ShapeInv, visited' \in 0 .. RecursionLimit,
           \/ ReceiveMessage \/ SkipPlan \/ ObserveToolResult \/ StopAtMaxSteps \/ FinalReply
    PROVE  ShapeInv'
<1> USE DEF Closing, Observing
<1>0. /\ TypeOK /\ NodeInv /\ ClosingInv /\ ResultsInv
      /\ toolResults' = toolResults
  BY DEF ShapeInv, ReceiveMessage, SkipPlan, ObserveToolResult, StopAtMaxSteps, FinalReply
<1>1. ResultsInv' /\ RewriteInv' /\ KafkaInv'
  <2>1. UNCHANGED <<turn, toolResults, rewriteCompleted>> /\ node' # "tool_call"
    BY DEF ReceiveMessage, SkipPlan, ObserveToolResult, StopAtMaxSteps, FinalReply
  <2>2. QED
    BY <2>1, QuietShape
<1>2. /\ CallsOf("handoff_to_human")' = CallsOf("handoff_to_human")
      /\ HasResult("handoff_to_human")' <=> HasResult("handoff_to_human")
      /\ HandoffConfirmed' <=> HandoffConfirmed
      /\ CallsOf("handoff_to_human") = {} => ~HandoffConfirmed
  BY <1>0, HistoryKept DEF HandoffConfirmed
<1>3. CASE ReceiveMessage
  <2>1. TypeOK'
    BY <1>0, <1>3 DEF ReceiveMessage, TypeOK, Nodes, Replies
  <2>2. NodeInv' /\ ClosingInv'
    BY <1>0, <1>2, <1>3 DEF ReceiveMessage, NodeInv, ClosingInv, Handed
  <2>3. QED
    BY <1>1, <2>1, <2>2 DEF ShapeInv
<1>4. CASE SkipPlan
  <2>1. TypeOK'
    BY <1>0, <1>4 DEF SkipPlan, TypeOK, Nodes
  <2>2. NodeInv' /\ ClosingInv'
    BY <1>0, <1>2, <1>4 DEF SkipPlan, NodeInv, ClosingInv
  <2>3. QED
    BY <1>1, <2>1, <2>2 DEF ShapeInv
<1>5. CASE ObserveToolResult
  <2>1. Latest \in ToolResult /\ Sound(Latest)
    BY <1>0, <1>5, LatestTyped DEF ObserveToolResult, ResultsInv, Latest
  <2>2. /\ ticket' \in {"none", "pending", "done", "closed"}
        /\ attachments' \in BOOLEAN /\ submitFailed' \in BOOLEAN
    <3>1. Data("submit_ai_review") = {"done", "pending", "closed"}
      BY DEF Data, ReviewAnswers
    <3>2. StatusOf(Latest.data) \in {"pending", "done", "closed"}
      BY DEF StatusOf
    <3>3. QED
      BY <1>0, <1>5, <2>1, <3>1, <3>2 DEF ObserveToolResult, TypeOK, Sound
  <2>3. TypeOK'
    BY <1>0, <1>5, <2>2 DEF ObserveToolResult, TypeOK, Nodes
  <2>4. NodeInv' /\ ClosingInv'
    BY <1>0, <1>2, <1>5 DEF ObserveToolResult, NodeInv, ClosingInv
  <2>5. QED
    BY <1>1, <2>3, <2>4 DEF ShapeInv
<1>6. CASE StopAtMaxSteps
  <2>1. next' = [next EXCEPT !.action = "final_reply"]
    BY <1>6 DEF StopAtMaxSteps
  <2>2. next' \in [action : {"none", "tool_call", "human_handoff", "final_reply"},
                   tool : Tools \cup {NoTool}, args : Arguments]
    BY <1>0, <2>1 DEF TypeOK
  <2>3. TypeOK'
    BY <1>0, <1>6, <2>2 DEF StopAtMaxSteps, TypeOK, Nodes, Replies
  <2>4. /\ node = "decide_next" /\ node' = IF needHuman THEN "human_handoff" ELSE "final_reply"
        /\ assistantReply' = IF assistantReply = "none" THEN "plain" ELSE assistantReply
        /\ UNCHANGED <<sessionMode, needHuman>>
    BY <1>6 DEF StopAtMaxSteps
  <2>5. NodeInv' /\ ClosingInv'
    BY <1>0, <1>2, <2>4 DEF NodeInv, ClosingInv, Handed
  <2>6. QED
    BY <1>1, <2>3, <2>5 DEF ShapeInv
<1>7. CASE FinalReply
  <2>1. TypeOK'
    BY <1>0, <1>7 DEF FinalReply, TypeOK, Nodes, Over, Replies, TicketReply
  <2>2. assistantReply' \in Handed <=> assistantReply \in Handed
    BY <1>7 DEF FinalReply, Handed, TicketReply
  <2>3. NodeInv' /\ ClosingInv'
    BY <1>0, <1>2, <1>7, <2>2 DEF FinalReply, NodeInv, ClosingInv
  <2>4. QED
    BY <1>1, <2>1, <2>3 DEF ShapeInv
<1>8. QED
  BY <1>3, <1>4, <1>5, <1>6, <1>7

\* What a call adds keeps what is known of the calls.
LEMMA CallShape ==
    ASSUME ShapeInv, NEW r \in ToolResult, Sound(r), toolResults' = Append(toolResults, r),
           UNCHANGED <<turn, rewriteCompleted>>, node' # "tool_call",
           r.tool = "handoff_to_human" \/ Calling(r.tool)
    PROVE  ResultsInv' /\ RewriteInv' /\ KafkaInv'
<1>0. toolResults \in Seq(ToolResult) /\ ResultsInv /\ RewriteInv /\ KafkaInv
  BY DEF ShapeInv, TypeOK, ToolResult
<1>1. ResultsInv'
  <2>1. ASSUME NEW i \in DOMAIN toolResults'
        PROVE  Sound(toolResults'[i])
    BY <1>0, Appended DEF ResultsInv
  <2>2. QED
    BY <2>1 DEF ResultsInv, Sound
<1>2. RewriteInv'
  <2>1. ~Calling("retrieve_knowledge_multi")'
    BY DEF Calling
  <2>2. CASE r.tool = "retrieve_knowledge_multi"
    <3>1. CallsOf("retrieve_knowledge_multi") = {} /\ rewriteCompleted
      BY <1>0, <2>2 DEF RewriteInv, HasResult
    <3>2. CallsOf("retrieve_knowledge_multi")' = {Len(toolResults) + 1}
      BY <1>0, <2>2, <3>1, CallsGrow
    <3>3. QED
      BY <2>1, <3>1, <3>2 DEF RewriteInv, HasResult
  <2>3. CASE r.tool # "retrieve_knowledge_multi"
    <3>1. CallsOf("retrieve_knowledge_multi")' = CallsOf("retrieve_knowledge_multi")
      BY <1>0, <2>3, CallsGrow
    <3>2. QED
      BY <1>0, <2>1, <3>1 DEF RewriteInv, HasResult
  <2>4. QED
    BY <2>2, <2>3
<1>3. KafkaInv'
  <2>1. ~Calling("submit_ai_review")'
    BY DEF Calling
  <2>2. CallsOf("submit_ai_review")' # {} => AsksFor("submit_ai_review")
    BY <1>0, CallsGrow DEF AsksFor, HasResult
  <2>3. QED
    BY <1>0, <2>1, <2>2 DEF KafkaInv, AsksFor, HasResult
<1>4. QED
  BY <1>1, <1>2, <1>3

\* A tool call, made or refused, keeps the shape.
LEMMA CallStep ==
    ASSUME ShapeInv, visited' \in 0 .. RecursionLimit, ToolCall \/ RefuseToolCall
    PROVE  ShapeInv'
<1> USE DEF Closing, Observing
<1>0. /\ TypeOK /\ NodeInv /\ node = "tool_call" /\ node' = "observe_tool_result"
      /\ next.tool \in CallTools /\ next.args \in Arguments
      /\ toolResults \in Seq(ToolResult)
      /\ UNCHANGED <<turn, evidenceNeeded, attachments, ticket, submitFailed, rewriteCompleted,
                     assessment, sessionMode>>
  BY DEF ShapeInv, ToolCall, RefuseToolCall, TypeOK, NodeInv, ToolResult
<1>1. PICK r \in ToolResult : /\ Sound(r) /\ r.tool = next.tool
                              /\ toolResults' = Append(toolResults, r)
  <2>1. next.tool \in Tools
    BY <1>0 DEF CallTools
  <2>2. CASE ToolCall
    BY <1>0, <2>1, <2>2, Outcome DEF ToolCall
  <2>3. CASE RefuseToolCall
    BY <1>0, <2>1, <2>3, Refused DEF RefuseToolCall
  <2>4. QED
    BY <2>2, <2>3
<1>2. ResultsInv' /\ RewriteInv' /\ KafkaInv'
  BY <1>0, <1>1, CallShape DEF Calling
<1>3. CallsOf("handoff_to_human")' = {} /\ toolResults' # <<>>
  <2>1. r.tool # "handoff_to_human"
    BY <1>0, <1>1 DEF CallTools
  <2>2. QED
    BY <1>0, <1>1, <2>1, CallsGrow, Appended DEF NodeInv
<1>4. steps' \in 0 .. (MaxSteps + MaxToolCalls)
  <2>1. CASE ToolCall
    <3>1. Len(toolResults) \in Nat /\ ~(Len(toolResults) >= MaxToolCalls)
      BY <1>0, <2>1 DEF ToolCall, LimitReached
    <3>2. QED
      BY <1>0, <2>1, <3>1, LimitsAreCounts DEF ToolCall, NodeInv, TypeOK
  <2>2. CASE RefuseToolCall
    BY <2>2, LimitsAreCounts DEF RefuseToolCall
  <2>3. QED
    BY <2>1, <2>2
<1>5. /\ next' \in [action : {"none", "tool_call", "human_handoff", "final_reply"},
                    tool : Tools \cup {NoTool}, args : Arguments]
      /\ assistantReply' \in Replies \ Handed /\ needHuman' \in BOOLEAN
  <2>1. next \in [action : {"none", "tool_call", "human_handoff", "final_reply"},
                  tool : Tools \cup {NoTool}, args : Arguments]
        /\ assistantReply \in Replies \ Handed
    BY <1>0 DEF TypeOK, NodeInv
  <2>2. CASE ToolCall
    BY <1>0, <2>1, <2>2 DEF ToolCall, TypeOK
  <2>3. CASE RefuseToolCall
    BY <2>1, <2>3 DEF RefuseToolCall, Replies, Handed
  <2>4. QED
    BY <2>2, <2>3
<1>6. TypeOK'
  <2>1. toolResults' \in Seq(ToolResult)
    BY <1>0, <1>1, Appended
  <2>2. QED
    BY <1>0, <1>4, <1>5, <2>1 DEF TypeOK, Nodes, ToolResult
<1>7. NodeInv' /\ ClosingInv'
  BY <1>0, <1>3, <1>5 DEF NodeInv, ClosingInv
<1>8. QED
  BY <1>2, <1>6, <1>7 DEF ShapeInv

\* A hand-off keeps the shape: the reply says that a human has the session exactly
\* when Java answered that it waits for one.
LEMMA HandoffStep ==
    ASSUME ShapeInv, visited' \in 0 .. RecursionLimit, HumanHandoff
    PROVE  ShapeInv'
<1> USE DEF Closing, Observing
<1>0. /\ TypeOK /\ NodeInv /\ node = "human_handoff" /\ node' = "final_reply" /\ needHuman' = TRUE
      /\ toolResults \in Seq(ToolResult) /\ CallsOf("handoff_to_human") = {}
      /\ UNCHANGED <<turn, steps, next, evidenceNeeded, attachments, ticket, submitFailed,
                     rewriteCompleted, assessment>>
  BY DEF ShapeInv, HumanHandoff, TypeOK, NodeInv, ToolResult
<1>1. PICK r \in Outcomes("handoff_to_human", "own") :
          /\ toolResults' = Append(toolResults, r)
          /\ sessionMode' = IF Succeeded(r) THEN "HUMAN" ELSE "AI"
          /\ assistantReply' = IF ~Succeeded(r) THEN "notHandedOver"
                               ELSE IF ticket # "none" THEN "reviewedAndHandedOver"
                               ELSE "handedOver"
  BY DEF HumanHandoff
<1>2. r \in ToolResult /\ Sound(r) /\ r.tool = "handoff_to_human"
  BY Outcome DEF Tools, Arguments
<1>3. ResultsInv' /\ RewriteInv' /\ KafkaInv'
  BY <1>0, <1>1, <1>2, CallShape
<1>4. CallsOf("handoff_to_human")' = {Len(toolResults) + 1}
  BY <1>0, <1>1, <1>2, CallsGrow
<1>5. HandoffConfirmed' <=> Succeeded(r)
  <2>1. toolResults'[Len(toolResults) + 1] = r
    BY <1>0, <1>1, <1>2, Appended
  <2>2. QED
    BY <1>2, <1>4, <2>1 DEF HandoffConfirmed, Succeeded
<1>6. TypeOK'
  <2>1. toolResults' \in Seq(ToolResult)
    BY <1>0, <1>1, <1>2, Appended
  <2>2. QED
    BY <1>0, <1>1, <2>1 DEF TypeOK, Nodes, ToolResult, Replies
<1>7. NodeInv' /\ ClosingInv'
  BY <1>0, <1>1, <1>4, <1>5 DEF NodeInv, ClosingInv, Handed, HasResult
<1>8. QED
  BY <1>3, <1>6, <1>7 DEF ShapeInv

\* The error of the recursion limit changes nothing but the node.
LEMMA RaisedShape ==
    ASSUME ShapeInv, RecursionError
    PROVE  ShapeInv'
<1> USE HistoryKept
<1>0. /\ node' = "RAISED" /\ node # "RAISED"
      /\ UNCHANGED <<turn, visited, toolResults, steps, next, assistantReply, needHuman, evidenceNeeded,
                     attachments, ticket, submitFailed, rewriteCompleted, assessment, sessionMode>>
  BY DEF RecursionError, Over
<1>1. TypeOK'
  BY <1>0 DEF ShapeInv, TypeOK, Over
<1>2. NodeInv' /\ ClosingInv'
  BY <1>0 DEF NodeInv, ClosingInv, Observing, Closing
<1>3. ResultsInv' /\ RewriteInv' /\ KafkaInv'
  BY <1>0, QuietShape
<1>4. QED
  BY <1>1, <1>2, <1>3 DEF ShapeInv

\* The shape is inductive.
LEMMA ShapeInit == Init => ShapeInv
<1> SUFFICES ASSUME Init PROVE ShapeInv
  OBVIOUS
<1>1. toolResults = <<>> /\ CallsOf("handoff_to_human") = {}
      /\ CallsOf("retrieve_knowledge_multi") = {} /\ CallsOf("submit_ai_review") = {}
  BY DEF Init, CallsOf
<1>2. TypeOK
  <2>1. toolResults \in Seq(ToolResult)
    BY <1>1
  <2>2. steps \in 0 .. (MaxSteps + MaxToolCalls)
    BY LimitsAreCounts DEF Init
  <2>3. next \in [action : {"none", "tool_call", "human_handoff", "final_reply"},
                  tool : Tools \cup {NoTool}, args : Arguments]
    BY DEF Init, NoCall, NoTool, Arguments
  <2>4. visited \in 0 .. RecursionLimit
    BY LimitsAreCounts DEF Init
  <2>5. QED
    BY <2>1, <2>2, <2>3, <2>4 DEF Init, TypeOK, ToolResult, Nodes, Replies
<1>3. NodeInv /\ ClosingInv
  BY <1>1 DEF Init, NodeInv, ClosingInv, Observing, Closing, Handed
<1>4. ResultsInv /\ RewriteInv /\ KafkaInv
  BY <1>1 DEF Init, ResultsInv, RewriteInv, KafkaInv, AsksFor, HasResult, Calling
<1>5. QED
  BY <1>2, <1>3, <1>4 DEF ShapeInv

LEMMA ShapeStep == ShapeInv /\ [Next]_vars => ShapeInv'
<1> SUFFICES ASSUME ShapeInv, [Next]_vars PROVE ShapeInv'
  OBVIOUS
<1>1. CASE Visit /\ RunNode
  <2>1. visited' \in 0 .. RecursionLimit
    BY <1>1, LimitsAreCounts DEF Visit, ShapeInv, TypeOK
  <2>2. QED
    BY <1>1, <2>1, DecidingShape, QuietStep, CallStep, HandoffStep DEF RunNode
<1>2. CASE UNCHANGED vars
  BY <1>2, HistoryKept
     DEF vars, ShapeInv, TypeOK, NodeInv, ClosingInv, ResultsInv, RewriteInv, KafkaInv, Observing,
         Calling, AsksFor, HandoffConfirmed, Sound
<1>3. CASE RecursionError
  BY <1>3, RaisedShape
<1>4. QED
  BY <1>1, <1>2, <1>3 DEF Next

\* Every variable keeps its type, whatever the model and the tools answer: the
\* steps stay within their limit although a refused call sets them.
THEOREM TurnTyped == Spec => []TypeOK
<1>1. ShapeInv => TypeOK
  BY DEF ShapeInv
<1>2. QED
  BY <1>1, ShapeInit, ShapeStep, PTL DEF Spec

-----------------------------------------------------------------------------
(* The recursion limit.                                                     *)

\* Every step is a decision, a call and an observation.  A limit that leaves every
\* step its three nodes cuts off only turns of MaxSteps calls; the defaults, 25
\* nodes and 8 steps, are just enough for that.
LimitSuffices == RecursionLimit >= 3 * MaxSteps + 1

\* The two nodes before the first step, a hand-off and the reply fit as well.
WholeTurnFits == MaxSteps > 0 /\ RecursionLimit >= 3 * MaxSteps + 4

\* Nodes run by the time a node is reached, counted by the calls.
PaceInv ==
    LET calls == Len(toolResults)
    IN /\ node = "receive_message" => visited = 0
       /\ node = "classify_or_plan" => visited <= 1
       /\ node = "observe_tool_result" => visited <= 3 * calls
       /\ node = "decide_next" => visited <= 3 * calls + 1
       /\ node \in {"tool_call", "human_handoff", "final_reply"} => visited <= 3 * calls + 2
       /\ LimitSuffices /\ node = "RAISED" => calls >= MaxSteps

\* Before a turn closes its calls are within its steps.
FitsInv ==
    /\ node \notin Closing => Len(toolResults) <= steps /\ steps <= MaxSteps
    /\ node = "final_reply" => visited <= 3 * MaxSteps + 3
    /\ node # "RAISED"

\* The calls after a step.
LEMMA CallsCounted ==
    ASSUME ShapeInv
    PROVE  /\ toolResults \in Seq(ToolResult) /\ Len(toolResults) \in Nat
           /\ visited \in Nat /\ steps \in Nat /\ MaxSteps \in Nat /\ RecursionLimit \in Nat
           /\ \A r : Len(Append(toolResults, r)) = Len(toolResults) + 1
<1>1. toolResults \in Seq(ToolResult)
  BY DEF ShapeInv, TypeOK, ToolResult
<1>2. visited \in Nat /\ steps \in Nat
  BY LimitsAreCounts DEF ShapeInv, TypeOK
<1>3. QED
  BY <1>1, <1>2, LimitsAreCounts

LEMMA PaceInit == Init => PaceInv
BY LimitsAreCounts DEF Init, PaceInv, LimitSuffices

LEMMA PaceStep == ShapeInv /\ PaceInv /\ [Next]_vars => PaceInv'
<1> SUFFICES ASSUME ShapeInv, PaceInv, [Next]_vars PROVE PaceInv'
  OBVIOUS
<1>0. TypeOK
  BY DEF ShapeInv
<1>1. CASE Visit /\ (ClassifyOrPlan \/ DecideAfterFailure \/ DecideWithoutOrder \/ DecideNext)
  <2>1. /\ node = "classify_or_plan" \/ node = "decide_next"
        /\ toolResults' = toolResults /\ visited' = visited + 1
    BY <1>1 DEF Visit, ClassifyOrPlan, DecideAfterFailure, DecideWithoutOrder, DecideNext
  <2>2. node' \in {"tool_call", "human_handoff", "final_reply"}
    BY <1>1, DecidingNode
  <2>3. QED
    BY <2>1, <2>2, CallsCounted DEF PaceInv
<1>2. CASE Visit /\ (ReceiveMessage \/ SkipPlan \/ ObserveToolResult \/ StopAtMaxSteps \/ FinalReply)
  <2>1. visited' = visited + 1 /\ toolResults' = toolResults
    BY <1>2 DEF Visit, ReceiveMessage, SkipPlan, ObserveToolResult, StopAtMaxSteps, FinalReply
  <2>2. \/ node = "receive_message" /\ node' = "classify_or_plan"
        \/ node = "classify_or_plan" /\ node' = "final_reply"
        \/ node = "observe_tool_result" /\ node' = "decide_next"
        \/ node = "decide_next" /\ node' \in {"human_handoff", "final_reply"}
        \/ node = "final_reply" /\ node' = "END"
    BY <1>2 DEF ReceiveMessage, SkipPlan, ObserveToolResult, StopAtMaxSteps, FinalReply
  <2>3. QED
    BY <2>1, <2>2, CallsCounted DEF PaceInv
<1>3. CASE Visit /\ (ToolCall \/ RefuseToolCall \/ HumanHandoff)
  <2>1. PICK r : toolResults' = Append(toolResults, r)
    BY <1>3 DEF ToolCall, RefuseToolCall, HumanHandoff
  <2>2. Len(toolResults') = Len(toolResults) + 1 /\ visited' = visited + 1
    BY <1>3, <2>1, CallsCounted DEF Visit
  <2>3. \/ node = "tool_call" /\ node' = "observe_tool_result"
        \/ node = "human_handoff" /\ node' = "final_reply"
    BY <1>3 DEF ToolCall, RefuseToolCall, HumanHandoff
  <2>4. QED
    BY <2>2, <2>3, CallsCounted DEF PaceInv
<1>4. CASE RecursionError
  <2>1. /\ node' = "RAISED" /\ toolResults' = toolResults /\ visited = RecursionLimit
        /\ node \in Nodes
    BY <1>0, <1>4 DEF RecursionError, TypeOK
  <2>2. LimitSuffices => Len(toolResults) >= MaxSteps
    BY <2>1, CallsCounted DEF PaceInv, LimitSuffices, Nodes
  <2>3. QED
    BY <2>1, <2>2 DEF PaceInv
<1>5. CASE UNCHANGED vars
  BY <1>5 DEF vars, PaceInv
<1>6. QED
  BY <1>1, <1>2, <1>3, <1>4, <1>5 DEF Next, RunNode

LEMMA FitsInit == WholeTurnFits => (Init => FitsInv)
BY LimitsAreCounts DEF Init, FitsInv, WholeTurnFits

LEMMA FitsStep == WholeTurnFits => (ShapeInv /\ PaceInv /\ FitsInv /\ [Next]_vars => FitsInv')
<1> SUFFICES ASSUME WholeTurnFits, ShapeInv, PaceInv, FitsInv, [Next]_vars PROVE FitsInv'
  OBVIOUS
<1> USE DEF Closing
<1>0. TypeOK
  BY DEF ShapeInv
<1>1. CASE Visit /\ (ClassifyOrPlan \/ DecideAfterFailure \/ DecideWithoutOrder \/ DecideNext)
  <2>1. /\ node = "classify_or_plan" \/ node = "decide_next"
        /\ UNCHANGED <<toolResults, steps>> /\ visited' = visited + 1
    BY <1>1 DEF Visit, ClassifyOrPlan, DecideAfterFailure, DecideWithoutOrder, DecideNext
  <2>2. node' \in {"tool_call", "human_handoff", "final_reply"}
    BY <1>1, DecidingNode
  <2>3. QED
    BY <2>1, <2>2, CallsCounted DEF PaceInv, FitsInv
<1>2. CASE Visit /\ (ReceiveMessage \/ SkipPlan \/ ObserveToolResult \/ StopAtMaxSteps \/ FinalReply)
  <2>1. visited' = visited + 1 /\ UNCHANGED <<toolResults, steps>>
    BY <1>2 DEF Visit, ReceiveMessage, SkipPlan, ObserveToolResult, StopAtMaxSteps, FinalReply
  <2>2. QED
    BY <1>2, <2>1, CallsCounted
       DEF ReceiveMessage, SkipPlan, ObserveToolResult, StopAtMaxSteps, FinalReply, PaceInv, FitsInv
<1>3. CASE Visit /\ (ToolCall \/ RefuseToolCall)
  <2>1. PICK r : toolResults' = Append(toolResults, r)
    BY <1>3 DEF ToolCall, RefuseToolCall
  <2>2. /\ Len(toolResults') = Len(toolResults) + 1 /\ node' = "observe_tool_result"
        /\ steps < MaxSteps \/ (steps = 0 /\ Len(toolResults) <= steps)
        /\ steps' = steps + 1 \/ steps' = MaxSteps
    BY <1>3, <2>1, CallsCounted DEF ToolCall, RefuseToolCall, ShapeInv, NodeInv, FitsInv
  <2>3. QED
    BY <1>3, <2>2, CallsCounted DEF FitsInv, WholeTurnFits, ToolCall, RefuseToolCall
<1>4. CASE Visit /\ HumanHandoff
  <2>1. node = "human_handoff" /\ node' = "final_reply" /\ visited' = visited + 1
    BY <1>4 DEF Visit, HumanHandoff
  <2>2. QED
    BY <2>1, CallsCounted DEF PaceInv, FitsInv
<1>5. CASE RecursionError
  <2>1. visited = RecursionLimit /\ node \in Nodes
    BY <1>0, <1>5 DEF RecursionError, TypeOK
  <2>2. FALSE
    BY <2>1, CallsCounted DEF PaceInv, FitsInv, WholeTurnFits, Nodes
  <2>3. QED
    BY <2>2
<1>6. CASE UNCHANGED vars
  BY <1>6 DEF vars, FitsInv
<1>7. QED
  BY <1>1, <1>2, <1>3, <1>4, <1>5, <1>6 DEF Next, RunNode

\* A turn that decided on a human has called one when it is over (the conditional
\* edges to human_handoff, also after the limits of the turn), unless the recursion
\* limit of graph.invoke cut off a turn that made all the calls MAX_AGENT_STEPS
\* allows: the turns it cuts off earlier do not exist.
THEOREM TurnCallsHuman == LimitSuffices => (Spec => []HumanIsCalled)
<1> SUFFICES ASSUME LimitSuffices PROVE Spec => []HumanIsCalled
  OBVIOUS
<1>1. ShapeInv /\ PaceInv => HumanIsCalled
  BY DEF ShapeInv, ClosingInv, PaceInv, HumanIsCalled, Over, CutOff
<1>2. QED
  BY <1>1, ShapeInit, ShapeStep, PaceInit, PaceStep, PTL DEF Spec

\* With room for three nodes a step and four more the recursion limit never cuts a
\* turn off: the default of 25 would have to be 28 for the default of 8 steps.
THEOREM TurnIsWhole == WholeTurnFits => (Spec => [](node # "RAISED"))
<1> SUFFICES ASSUME WholeTurnFits PROVE Spec => [](node # "RAISED")
  OBVIOUS
<1>1. FitsInv => node # "RAISED"
  BY DEF FitsInv
<1>2. QED
  BY <1>1, ShapeInit, ShapeStep, PaceInit, PaceStep, FitsInit, FitsStep, PTL DEF Spec

\* The reply tells of a transfer, and the session leaves the AI, exactly when
\* Java confirmed it.
THEOREM TurnConfirmsTransfer == Spec => []TransferIsConfirmed
<1>1. ShapeInv => TransferIsConfirmed
  BY DEF ShapeInv, ClosingInv, Closing, HandoffConfirmed, TransferIsConfirmed, Handed
<1>2. QED
  BY <1>1, ShapeInit, ShapeStep, PTL DEF Spec

\* The knowledge is searched a second time at most once per turn.
THEOREM TurnRewritesOnce == Spec => []RewrittenOnce
<1>1. ShapeInv => RewrittenOnce
  <2> SUFFICES ASSUME ShapeInv PROVE RewrittenOnce
    OBVIOUS
  <2> DEFINE S == CallsOf("retrieve_knowledge_multi")
  <2>1. RewriteInv
    BY DEF ShapeInv
  <2>2. \A i, j \in S : i = j
    BY <2>1 DEF RewriteInv
  <2>3. Cardinality(S) <= 1
    BY <2>2, AtMostOne
  <2>4. QED
    BY <2>1, <2>3 DEF RewriteInv, RewrittenOnce
<1>2. QED
  BY <1>1, ShapeInit, ShapeStep, PTL DEF Spec
-----------------------------------------------------------------------------
(* A turn about a ticket.                                                   *)

TicketTools == {"get_after_sales_ticket", "review_images", "retrieve_knowledge",
                "retrieve_knowledge_multi", "submit_ai_review"}

\* The verdict the rules come to on what the turn has found so far.
DueVerdict ==
    IF ~HasResult("retrieve_knowledge") THEN "manualUncertain"
    ELSE IF AutoApproved THEN "approve"
    ELSE IF VisualUncertain \/ ~TrustedPolicy THEN "manualUncertain" ELSE "manual"

\* Enough has been found for a verdict.
VerdictDue ==
    /\ StatusOf(View) = "pending"
    /\ attachments => HasResult("review_images")
    /\ attachments \/ turn.claims = "nothing"
    /\ HasResult("retrieve_knowledge") \/ View = "unversioned"

\* Only the tools of a review are called, and the ticket only by the rules.
KindInv ==
    /\ \A i \in DOMAIN toolResults : toolResults[i].tool \in TicketTools \cup {"handoff_to_human"}
    /\ node = "tool_call" => next.tool \in TicketTools
    /\ \A i \in CallsOf("get_after_sales_ticket") : toolResults[i].args = "own"
    /\ Calling("get_after_sales_ticket") => next.args = "own"

\* The ticket is read before anything else, and after a submission only a
\* submission or a reading of the ticket follows.
OrderInv ==
    /\ \A tool \in TicketTools \ {"get_after_sales_ticket"} :
           AsksFor(tool) => HasSuccessful("get_after_sales_ticket")
    /\ \A j \in CallsOf("submit_ai_review"), i \in DOMAIN toolResults :
           i > j => toolResults[i].tool \in
                        {"submit_ai_review", "get_after_sales_ticket", "handoff_to_human"}
    /\ HasResult("submit_ai_review") /\ node = "tool_call" =>
           next.tool \in {"submit_ai_review", "get_after_sales_ticket"}

\* After a submission given up for good only the ticket is read again.
FailedInv ==
    submitFailed =>
        /\ HasResult("submit_ai_review") /\ ~HasSuccessful("submit_ai_review")
        /\ node = "tool_call" => next.tool = "get_after_sales_ticket"
        /\ Observing => Latest.tool = "get_after_sales_ticket"

\* Otherwise the ticket is read once, before everything the verdict rests on.
FreshInv ==
    ~submitFailed =>
        /\ Calling("get_after_sales_ticket") => ~HasSuccessful("get_after_sales_ticket")
        /\ Observing /\ Latest.tool = "get_after_sales_ticket" =>
               /\ ~HasResult("submit_ai_review")
               /\ ~Latest.ok => ~HasSuccessful("get_after_sales_ticket")
        /\ AsksFor("retrieve_knowledge") => View \notin {"undated", "unversioned"}

\* A submission that succeeded is the last call but for a hand-off.
OnceInv ==
    /\ \A i \in OkCallsOf("submit_ai_review"), j \in DOMAIN toolResults :
           i < j => node \in Closing /\ toolResults[j].tool = "handoff_to_human"
    /\ node = "tool_call" => ~HasSuccessful("submit_ai_review")

\* Every submission, sent or about to be, carries the verdict that is due.
DueInv ==
    AsksFor("submit_ai_review") /\ ~submitFailed =>
        /\ VerdictDue
        /\ \A i \in CallsOf("submit_ai_review") : toolResults[i].args = DueVerdict
        /\ Calling("submit_ai_review") => next.args = DueVerdict

FailedSearchBefore(j) ==
    \E i \in CallsOf("retrieve_knowledge_multi") : i < j /\ ~toolResults[i].ok

\* On knowledge assessed as incomplete an approval is submitted only after the
\* second search raised.
DepartureInv ==
    assessment = "insufficient" =>
        \A j \in CallsOf("submit_ai_review") :
            toolResults[j].args = "approve" => FailedSearchBefore(j)

BackedInv == ApprovalIsBacked /\ DepartureInv

SearchFailed == \E i \in CallsOf("retrieve_knowledge_multi") : ~toolResults[i].ok

\* Sources found insufficient lead to the second retrieval or to a human.
InsufficientInv ==
    assessment = "insufficient" =>
        \/ node \in Closing \cup {"human_handoff"}
        \/ Calling("retrieve_knowledge_multi")
        \/ SearchFailed
        \/ Observing /\ Latest.tool = "retrieve_knowledge_multi"

ReviewInv ==
    /\ KindInv /\ OrderInv /\ FailedInv /\ FreshInv /\ OnceInv /\ DueInv /\ InsufficientInv
    /\ BackedInv

\* The decisions a turn about a ticket may take; failed: a submission has been
\* given up by then.
TicketChoice(d, failed) ==
    d.action = "tool_call" =>
        /\ ~HasSuccessful("submit_ai_review")
        /\ \/ d.tool = "get_after_sales_ticket" /\ d.args = "own"
              /\ (failed \/ ~HasSuccessful("get_after_sales_ticket"))
           \/ /\ ~failed /\ HasSuccessful("get_after_sales_ticket")
              /\ \/ d.tool = "submit_ai_review" /\ VerdictDue /\ d.args = DueVerdict
                 \/ /\ ~HasResult("submit_ai_review")
                    /\ \/ d.tool = "review_images" /\ ~HasResult("review_images")
                       \/ d.tool = "retrieve_knowledge" /\ ~HasResult("retrieve_knowledge")
                          /\ View \notin {"undated", "unversioned"}
                       \/ d.tool = "retrieve_knowledge_multi"

\* When it may reply: after the review, when none is needed, or to ask for evidence.
FinalChoice(d) ==
    d.action = "final_reply" =>
        \/ HasSuccessful("submit_ai_review")
        \/ HasSuccessful("get_after_sales_ticket") /\ StatusOf(View) # "pending"
        \/ d.evidence = "some"

\* The failures of a turn about a ticket that decide what comes next.
LEMMA FailureChoice ==
    ASSUME Latest \in ToolResult, Sound(Latest), Latest.tool \in TicketTools,
           FailureDecision # NoDecision
    PROVE  LET d == FailureDecision IN
           /\ ~Latest.ok
           /\ \/ /\ d.action = "tool_call" /\ d.tool = Latest.tool /\ d.args = Latest.args
                 /\ d.tool \in {"get_after_sales_ticket", "submit_ai_review"}
              \/ /\ d.action = "tool_call" /\ d.tool = "get_after_sales_ticket" /\ d.args = "own"
                 /\ Latest.tool = "submit_ai_review" /\ Latest.error = "unavailable"
              \/ d.action = "human_handoff" /\ d.tool = NoTool
              \/ d.action = "final_reply" /\ d.tool = NoTool /\ d.evidence = "some"
                 /\ Latest.error = "refused"
<1>1. ~Latest.ok /\ HandleToolFailure(Latest) # NoDecision
      /\ FailureDecision = HandleToolFailure(Latest)
  BY DEF FailureDecision
<1>2. Latest.error = "unavailable" =>
          Latest.tool \in {"get_after_sales_ticket", "submit_ai_review"}
  BY DEF Sound, Errors, TicketTools
<1>3. QED
  BY <1>1, <1>2
     DEF HandleToolFailure, KeepingCall, GetTicket, Call, HandOff, Reply, Decision

\* What the rules of a turn about a ticket decide.
LEMMA GuardedChoice ==
    ASSUME turn.ticketId, NEW evidence \in EvidenceNeeds,
           HasResult("submit_ai_review") => HasSuccessful("get_after_sales_ticket"),
           HasResult("submit_ai_review") /\ ~submitFailed => VerdictDue
    PROVE  LET g == GuardedDecision(evidence) IN
           /\ g.action \in {"tool_call", "human_handoff", "final_reply"}
           /\ g.tool # "retrieve_knowledge_multi"
           /\ TicketChoice(g, submitFailed) /\ FinalChoice(g)
<1> DEFINE g == GuardedDecision(evidence)
<1>0. HasSuccessful("submit_ai_review") => HasResult("submit_ai_review")
  BY DEF HasSuccessful, HasResult, OkCallsOf
<1>1. CASE ~HasSuccessful("get_after_sales_ticket")
  <2>1. g = GetTicket
    BY <1>1 DEF GuardedDecision
  <2>2. QED
    BY <1>0, <1>1, <2>1 DEF GetTicket, Call, Decision, TicketChoice, FinalChoice
<1>2. CASE /\ HasSuccessful("get_after_sales_ticket")
           /\ submitFailed \/ HasSuccessful("submit_ai_review")
  <2>1. \/ g = HandOff("plain", "keep") \/ g = HandOff("reviewedAndHandedOver", "keep")
        \/ g = Reply(TicketReply, needHuman, "keep") /\ HasSuccessful("submit_ai_review")
    BY <1>2 DEF GuardedDecision
  <2>2. QED
    BY <2>1 DEF HandOff, Reply, Decision, TicketChoice, FinalChoice, NoTool
<1> DEFINE pending == /\ HasSuccessful("get_after_sales_ticket") /\ ~submitFailed
                      /\ ~HasSuccessful("submit_ai_review") /\ StatusOf(View) = "pending"
<1>3. CASE /\ HasSuccessful("get_after_sales_ticket") /\ ~submitFailed
           /\ ~HasSuccessful("submit_ai_review") /\ StatusOf(View) # "pending"
  <2>1. g = Reply("plain", FALSE, "none")
    BY <1>3 DEF GuardedDecision, View
  <2>2. QED
    BY <1>3, <2>1 DEF Reply, Decision, TicketChoice, FinalChoice, NoTool
<1>4. CASE pending /\ attachments /\ ~HasResult("review_images")
  <2>1. g = Call("review_images", "own")
    BY <1>4 DEF GuardedDecision, View
  <2>2. ~HasResult("submit_ai_review")
    BY <1>4 DEF VerdictDue
  <2>3. QED
    BY <1>4, <2>1, <2>2 DEF Call, Decision, TicketChoice, FinalChoice
<1>5. CASE pending /\ ~attachments /\ turn.claims # "nothing"
  <2>1. g = Reply("plain", FALSE, "some")
    BY <1>5 DEF GuardedDecision, View
  <2>2. QED
    BY <2>1 DEF Reply, Decision, TicketChoice, FinalChoice, NoTool
<1> DEFINE ready == /\ pending /\ (attachments => HasResult("review_images"))
                    /\ (attachments \/ turn.claims = "nothing")
<1>6. CASE ready /\ ~HasResult("retrieve_knowledge")
  <2>1. g = RetrievePolicy(View)
    BY <1>6 DEF GuardedDecision, View
  <2>2. CASE View = "undated"
    BY <2>1, <2>2 DEF RetrievePolicy, HandOff, Decision, TicketChoice, FinalChoice, NoTool
  <2>3. CASE View = "unversioned"
    <3>1. g = Submit("manualUncertain", "none")
      BY <2>1, <2>3 DEF RetrievePolicy
    <3>2. VerdictDue /\ DueVerdict = "manualUncertain"
      BY <1>6, <2>3 DEF VerdictDue, DueVerdict
    <3>3. QED
      BY <1>6, <3>1, <3>2 DEF Submit, Decision, TicketChoice, FinalChoice
  <2>4. CASE View \notin {"undated", "unversioned"}
    <3>1. g = Call("retrieve_knowledge", "own")
      BY <2>1, <2>4 DEF RetrievePolicy
    <3>2. ~HasResult("submit_ai_review")
      BY <1>6, <2>4 DEF VerdictDue
    <3>3. QED
      BY <1>6, <2>4, <3>1, <3>2 DEF Call, Decision, TicketChoice, FinalChoice
  <2>5. QED
    BY <2>2, <2>3, <2>4
<1>7. CASE ready /\ HasResult("retrieve_knowledge")
  <2>1. g = BuildAiReview(evidence)
    BY <1>7 DEF GuardedDecision, View
  <2>2. VerdictDue
    BY <1>7 DEF VerdictDue
  <2>3. g = Submit(DueVerdict, evidence)
    BY <1>7, <2>1 DEF BuildAiReview, DueVerdict
  <2>4. QED
    BY <1>7, <2>2, <2>3 DEF Submit, Decision, TicketChoice, FinalChoice
<1>8. QED
  BY <1>1, <1>2, <1>3, <1>4, <1>5, <1>6, <1>7

\* What the rules decide after them, with the follow-up of a thin retrieval.
LEMMA RuleChoice ==
    ASSUME turn.ticketId, needHuman \in BOOLEAN, NEW verdict, NEW evidence \in EvidenceNeeds,
           HasResult("submit_ai_review") => HasSuccessful("get_after_sales_ticket"),
           HasResult("submit_ai_review") /\ ~submitFailed => VerdictDue,
           NEW d \in RuleDecisions(verdict, evidence)
    PROVE  \/ /\ d.action = "tool_call" /\ d.tool = "retrieve_knowledge_multi"
              /\ AssessesFirstRound /\ ~rewriteCompleted
           \/ d.action = "human_handoff"
           \/ /\ FollowUpRetrieval(verdict) = NoDecision
              /\ d.tool # "retrieve_knowledge_multi"
              /\ TicketChoice(d, submitFailed) /\ FinalChoice(d)
<1> DEFINE g == GuardedDecision(evidence)
<1>1. CASE FollowUpRetrieval(verdict) # NoDecision
  <2>1. d = FollowUpRetrieval(verdict)
    BY <1>1 DEF RuleDecisions
  <2>2. \/ d = HandOff("plain", "keep")
        \/ /\ d = KeepingCall("retrieve_knowledge_multi", "own")
           /\ AssessesFirstRound /\ ~rewriteCompleted
    BY <1>1, <2>1 DEF FollowUpRetrieval, AssessesFirstRound, Assessable
  <2>3. QED
    BY <2>2 DEF HandOff, KeepingCall, Decision
<1>2. CASE FollowUpRetrieval(verdict) = NoDecision /\ g.action # "final_reply"
  <2>1. d = g
    BY <1>2 DEF RuleDecisions
  <2>2. QED
    BY <1>2, <2>1, GuardedChoice
<1>3. CASE FollowUpRetrieval(verdict) = NoDecision /\ g.action = "final_reply"
  <2>1. PICK model \in ModelDecisions \cup {FailClosed} : d = NativeTerminalDecision(g, model)
    BY <1>3, Zenon DEF RuleDecisions
  <2>2. \/ d.action = "human_handoff"
        \/ d = g
        \/ d.action = "final_reply" /\ d.tool = NoTool /\ d.evidence = g.evidence
    <3>1. FailClosedDecision.action = "human_handoff"
      BY DEF FailClosedDecision, HandOff, Decision
    <3>2. QED
      BY <2>1, <3>1 DEF NativeTerminalDecision, Reply, Decision
  <2>3. FinalChoice(g) /\ TicketChoice(g, submitFailed) /\ g.tool # "retrieve_knowledge_multi"
    BY GuardedChoice
  <2>4. CASE d.action = "final_reply" /\ d.tool = NoTool /\ d.evidence = g.evidence
    BY <1>3, <2>3, <2>4 DEF FinalChoice, TicketChoice, NoTool
  <2>5. QED
    BY <1>3, <2>2, <2>3, <2>4
<1>4. QED
  BY <1>1, <1>2, <1>3

TicketInv == turn.ticketId => ReviewInv

\* A call of another tool changes nothing a decision reads of a tool.
LEMMA Unaffected ==
    ASSUME toolResults \in Seq(ToolResult), NEW r \in ToolResult,
           toolResults' = Append(toolResults, r), NEW tool, r.tool # tool
    PROVE  /\ CallsOf(tool)' = CallsOf(tool) /\ OkCallsOf(tool)' = OkCallsOf(tool)
           /\ HasResult(tool)' <=> HasResult(tool)
           /\ HasSuccessful(tool)' <=> HasSuccessful(tool)
           /\ HasSuccessful(tool) => LatestData(tool)' = LatestData(tool)
<1>1. CallsOf(tool)' = CallsOf(tool) /\ OkCallsOf(tool)' = OkCallsOf(tool)
  BY CallsGrow, Zenon
<1>2. HasSuccessful(tool) => LatestData(tool)' = LatestData(tool)
  BY LatestDataGrows, Zenon DEF HasSuccessful
<1>3. QED
  BY <1>1, <1>2 DEF HasResult, HasSuccessful

\* The verdict is the same after a submission or a hand-off.
LEMMA DueKept ==
    ASSUME toolResults \in Seq(ToolResult), UNCHANGED <<turn, attachments>>,
           HasSuccessful("get_after_sales_ticket"),
           \/ toolResults' = toolResults
           \/ \E r \in ToolResult : /\ r.tool \in {"submit_ai_review", "handoff_to_human"}
                                    /\ toolResults' = Append(toolResults, r)
    PROVE  DueVerdict' = DueVerdict /\ (VerdictDue' <=> VerdictDue)
<1>1. ASSUME NEW tool \in {"get_after_sales_ticket", "review_images", "retrieve_knowledge",
                           "retrieve_knowledge_multi"}
      PROVE  /\ OkCallsOf(tool)' = OkCallsOf(tool)
             /\ HasResult(tool)' <=> HasResult(tool)
             /\ HasSuccessful(tool)' <=> HasSuccessful(tool)
             /\ HasSuccessful(tool) => LatestData(tool)' = LatestData(tool)
  <2>1. CASE toolResults' = toolResults
    BY <2>1, HistoryKept
  <2>2. ASSUME NEW r \in ToolResult, r.tool \in {"submit_ai_review", "handoff_to_human"},
               toolResults' = Append(toolResults, r)
        PROVE  /\ OkCallsOf(tool)' = OkCallsOf(tool)
               /\ HasResult(tool)' <=> HasResult(tool)
               /\ HasSuccessful(tool)' <=> HasSuccessful(tool)
               /\ HasSuccessful(tool) => LatestData(tool)' = LatestData(tool)
    <3>1. r.tool # tool
      BY <2>2
    <3>2. QED
      BY <2>2, <3>1, Unaffected
  <2>3. QED
    BY <2>1, <2>2
<1>2. View' = View
  BY <1>1 DEF View
<1>3. TrustedPolicy' <=> TrustedPolicy
  <2>1. \A tool : OkCallsOf(tool) \subseteq DOMAIN toolResults
    BY Positions DEF OkCallsOf
  <2>2. \A i \in DOMAIN toolResults : toolResults'[i] = toolResults[i]
    BY Appended
  <2>3. QED
    BY <1>1, <2>1, <2>2 DEF TrustedPolicy
<1>4. ASSUME NEW S PROVE ImagesShow(S)' <=> ImagesShow(S)
  BY <1>1 DEF ImagesShow
<1>5. AutoApproved' <=> AutoApproved
  BY <1>2, <1>3, <1>4 DEF AutoApproved, EvidenceConsistent, View
<1>6. VisualUncertain' <=> VisualUncertain
  BY <1>1, <1>4 DEF VisualUncertain
<1>7. DueVerdict' = DueVerdict
  BY <1>1, <1>3, <1>5, <1>6 DEF DueVerdict
<1>8. VerdictDue' <=> VerdictDue
  BY <1>1, <1>2 DEF VerdictDue, StatusOf
<1>9. QED
  BY <1>7, <1>8

\* What an approval rests on: the part of BackedInv that only reads the
\* calls before it.
Backing(j) ==
    /\ turn.kafka /\ turn.claims = "damage"
    /\ Before(j, "get_after_sales_ticket") # {}
    /\ DataBefore(j, "get_after_sales_ticket") = "usable"
    /\ Before(j, "review_images") # {} /\ DataBefore(j, "review_images") = "clear"
    /\ \E i \in Before(j, "retrieve_knowledge") \cup Before(j, "retrieve_knowledge_multi") :
            toolResults[i].data = "trusted"

\* BackedInv, one approval at a time.
LEMMA BackedUnfolded ==
    BackedInv <=>
        \A j \in CallsOf("submit_ai_review") : toolResults[j].args = "approve" =>
            Backing(j) /\ (assessment = "insufficient" => FailedSearchBefore(j))
BY DEF BackedInv, ApprovalIsBacked, DepartureInv, Backing, FailedSearchBefore

\* Later calls take nothing away from it.
LEMMA BackingKept ==
    ASSUME toolResults \in Seq(ToolResult), turn' = turn,
           toolResults' = toolResults \/ \E r \in ToolResult : toolResults' = Append(toolResults, r),
           NEW j \in DOMAIN toolResults
    PROVE  /\ Backing(j) => Backing(j)'
           /\ FailedSearchBefore(j) => FailedSearchBefore(j)'
<1>1. \A i \in DOMAIN toolResults : i \in DOMAIN toolResults' /\ toolResults'[i] = toolResults[i]
  BY Appended
<1>2. ASSUME NEW tool
      PROVE  /\ Before(j, tool)' = Before(j, tool)
             /\ Before(j, tool) # {} => DataBefore(j, tool)' = DataBefore(j, tool)
  <2>1. Before(j, tool)' = Before(j, tool)
    <3>1. CASE toolResults' = toolResults
      BY <3>1, HistoryKept DEF Before
    <3>2. ASSUME NEW r \in ToolResult, toolResults' = Append(toolResults, r)
          PROVE  Before(j, tool)' = Before(j, tool)
      <4>1. j \in 1 .. Len(toolResults) /\ Len(toolResults) \in Nat
        OBVIOUS
      <4>2. OkCallsOf(tool)' = OkCallsOf(tool) \/ OkCallsOf(tool)' = OkCallsOf(tool) \cup {Len(toolResults) + 1}
        BY <3>2, CallsGrow, Zenon
      <4>3. OkCallsOf(tool) \subseteq DOMAIN toolResults
        BY Positions
      <4>4. QED
        BY <4>1, <4>2, <4>3 DEF Before
    <3>3. QED
      BY <3>1, <3>2
  <2>2. ASSUME Before(j, tool) # {}
        PROVE  DataBefore(j, tool)' = DataBefore(j, tool)
    <3> DEFINE last(S) == CHOOSE i \in S : \A k \in S : k <= i
    <3>1. /\ DataBefore(j, tool) = toolResults[last(Before(j, tool))].data
          /\ DataBefore(j, tool)' = toolResults'[last(Before(j, tool)')].data
      BY DEF DataBefore
    <3>2. Before(j, tool) \subseteq 1 .. Len(toolResults) /\ Len(toolResults) \in Nat
      BY Positions DEF Before
    <3>3. \E k \in Before(j, tool) : \A i \in Before(j, tool) : i <= k
      BY <2>2, <3>2, LastExists
    <3>4. last(Before(j, tool)) \in Before(j, tool)
      BY <3>3
    <3>5. last(Before(j, tool)) \in DOMAIN toolResults
      BY <3>2, <3>4
    <3>6. QED
      <4> HIDE DEF last
      <4> QED
        BY <1>1, <2>1, <3>1, <3>5
  <2>3. QED
    BY <2>1, <2>2
<1>3. ASSUME Backing(j) PROVE Backing(j)'
  <2>1. PICK i \in Before(j, "retrieve_knowledge") \cup Before(j, "retrieve_knowledge_multi") :
            toolResults[i].data = "trusted"
    BY <1>3 DEF Backing
  <2>2. i \in DOMAIN toolResults
    BY <2>1, Positions DEF Before
  <2>3. QED
    BY <1>1, <1>2, <1>3, <2>1, <2>2 DEF Backing
<1>4. ASSUME FailedSearchBefore(j) PROVE FailedSearchBefore(j)'
  BY <1>1, <1>4 DEF FailedSearchBefore, CallsOf
<1>5. QED
  BY <1>3, <1>4

\* Without a call an approval loses its backing only to a new verdict on the sources.
LEMMA ApprovalKept ==
    ASSUME toolResults \in Seq(ToolResult), BackedInv, UNCHANGED <<turn, toolResults>>,
           \/ ~HasResult("submit_ai_review")
           \/ assessment' = "insufficient" => assessment = "insufficient"
    PROVE  BackedInv'
<1>1. ASSUME NEW j \in CallsOf("submit_ai_review")', toolResults'[j].args = "approve"
      PROVE  Backing(j)' /\ (assessment' = "insufficient" => FailedSearchBefore(j)')
  <2>1. j \in CallsOf("submit_ai_review") /\ j \in DOMAIN toolResults
    BY DEF CallsOf
  <2>2. Backing(j) /\ (assessment = "insufficient" => FailedSearchBefore(j))
    BY <1>1, <2>1, BackedUnfolded
  <2>3. QED
    BY <2>1, <2>2, BackingKept DEF HasResult
<1>2. QED
  BY <1>1 DEF BackedInv, ApprovalIsBacked, DepartureInv, Backing, FailedSearchBefore

\* Steps that make no call and decide on none.
LEMMA TicketIdle ==
    ASSUME ShapeInv, ReviewInv,
           UNCHANGED <<turn, toolResults, attachments, submitFailed, assessment>>,
           node' \notin {"tool_call", "observe_tool_result", "decide_next"},
           node \in Closing => node' \in Closing,
           node' \in Closing \cup {"human_handoff"} \/ node = "receive_message"
    PROVE  ReviewInv'
<1> USE HistoryKept
<1>0. /\ KindInv /\ OrderInv /\ FailedInv /\ FreshInv /\ OnceInv /\ DueInv /\ InsufficientInv
      /\ BackedInv /\ toolResults \in Seq(ToolResult)
      /\ \A tool : AsksFor(tool)' => AsksFor(tool)
      /\ ~Observing' /\ node' # "tool_call"
  BY DEF ReviewInv, ShapeInv, TypeOK, ToolResult, AsksFor, Calling, Observing
<1>1. KindInv'
  BY <1>0 DEF KindInv, Calling
<1>2. OrderInv'
  BY <1>0 DEF OrderInv
<1>3. FailedInv'
  BY <1>0 DEF FailedInv
<1>4. FreshInv'
  BY <1>0 DEF FreshInv, Calling, View
<1>5. OnceInv'
  BY <1>0 DEF OnceInv
<1>6. DueInv'
  <2>1. ASSUME AsksFor("submit_ai_review")', ~submitFailed'
        PROVE  /\ DueVerdict' = DueVerdict /\ (VerdictDue' <=> VerdictDue)
               /\ AsksFor("submit_ai_review")
    BY <1>0, <2>1, DueKept DEF OrderInv, TicketTools
  <2>2. QED
    BY <1>0, <2>1 DEF DueInv, Calling
<1>7. InsufficientInv'
  <2>1. CASE node = "receive_message"
    <3>1. CallsOf("retrieve_knowledge_multi") = {}
      BY <2>1 DEF ShapeInv, NodeInv, CallsOf
    <3>2. assessment # "insufficient"
      BY <1>0, <2>1, <3>1 DEF InsufficientInv, Closing, Calling, SearchFailed, Observing
    <3>3. QED
      BY <3>2 DEF InsufficientInv
  <2>2. CASE node' \in Closing \cup {"human_handoff"}
    BY <2>2 DEF InsufficientInv, Closing
  <2>3. QED
    BY <2>1, <2>2
<1>8. BackedInv'
  BY <1>0, ApprovalKept
<1>9. QED
  BY <1>1, <1>2, <1>3, <1>4, <1>5, <1>6, <1>7, <1>8 DEF ReviewInv

\* What a node reads of the last call.
LEMMA LatestCall ==
    ASSUME ShapeInv, Observing
    PROVE  /\ Latest \in ToolResult /\ Sound(Latest) /\ Latest.tool # "handoff_to_human"
           /\ Len(toolResults) \in CallsOf(Latest.tool) /\ HasResult(Latest.tool)
           /\ Latest.ok => /\ Len(toolResults) \in OkCallsOf(Latest.tool)
                           /\ HasSuccessful(Latest.tool)
<1>1. Latest \in ToolResult /\ Len(toolResults) \in DOMAIN toolResults
  BY LatestTyped DEF ShapeInv
<1>2. Sound(Latest) /\ Len(toolResults) \in CallsOf(Latest.tool)
  BY <1>1 DEF ShapeInv, ResultsInv, Latest, CallsOf
<1>3. CallsOf("handoff_to_human") = {}
  BY DEF ShapeInv, NodeInv, Observing, Closing
<1>4. Latest.ok => Len(toolResults) \in OkCallsOf(Latest.tool)
  BY <1>2, <1>3 DEF OkCallsOf, Succeeded, Latest
<1>5. QED
  BY <1>1, <1>2, <1>3, <1>4 DEF HasResult, HasSuccessful

\* What a node reads of the last call of a turn about a ticket.
LEMMA LatestOfReview ==
    ASSUME ShapeInv, ReviewInv, Observing
    PROVE  /\ Latest.tool \in TicketTools
           /\ submitFailed => Latest.tool = "get_after_sales_ticket"
           /\ HasResult("submit_ai_review") =>
                  Latest.tool \in {"submit_ai_review", "get_after_sales_ticket"}
           /\ HasSuccessful("submit_ai_review") => Latest.ok /\ Latest.tool = "submit_ai_review"
           /\ HasResult("submit_ai_review") => HasSuccessful("get_after_sales_ticket")
           /\ HasResult("submit_ai_review") /\ ~submitFailed => Latest.tool = "submit_ai_review"
<1>0. KindInv /\ OrderInv /\ FailedInv /\ FreshInv /\ OnceInv
  BY DEF ReviewInv
<1>1. /\ Latest.tool # "handoff_to_human" /\ Len(toolResults) \in CallsOf(Latest.tool)
      /\ Len(toolResults) \in DOMAIN toolResults
      /\ DOMAIN toolResults = 1 .. Len(toolResults) /\ Len(toolResults) \in Nat
  BY LatestCall, Positions DEF ShapeInv, TypeOK, ToolResult, CallsOf
<1>2. Latest.tool \in TicketTools
  BY <1>0, <1>1 DEF KindInv, Latest
<1>3. HasResult("submit_ai_review") =>
          Latest.tool \in {"submit_ai_review", "get_after_sales_ticket"}
  <2>1. ASSUME NEW j \in CallsOf("submit_ai_review")
        PROVE  Latest.tool \in {"submit_ai_review", "get_after_sales_ticket"}
    <3>1. j \in 1 .. Len(toolResults) /\ toolResults[j].tool = "submit_ai_review"
      BY <1>1 DEF CallsOf
    <3>2. CASE j = Len(toolResults)
      BY <3>1, <3>2 DEF Latest
    <3>3. CASE j # Len(toolResults)
      <4>1. Len(toolResults) > j
        <5>1. Len(toolResults) \in Nat /\ j \in 1 .. Len(toolResults)
          BY <1>1, <3>1
        <5>2. QED
          BY <3>3, <5>1
      <4>2. toolResults[Len(toolResults)].tool
                \in {"submit_ai_review", "get_after_sales_ticket", "handoff_to_human"}
        BY <1>0, <1>1, <4>1 DEF OrderInv
      <4>3. QED
        BY <1>1, <4>2 DEF Latest
    <3>4. QED
      BY <3>2, <3>3
  <2>2. QED
    BY <2>1 DEF HasResult
<1>4. HasSuccessful("submit_ai_review") => Latest.ok /\ Latest.tool = "submit_ai_review"
  <2>1. ASSUME NEW i \in OkCallsOf("submit_ai_review")
        PROVE  Latest.ok /\ Latest.tool = "submit_ai_review"
    <3>1. i \in 1 .. Len(toolResults) /\ toolResults[i].tool = "submit_ai_review" /\ toolResults[i].ok
      BY <1>1 DEF OkCallsOf, CallsOf, Succeeded
    <3>2. ~(i < Len(toolResults))
      BY <1>0, <1>1 DEF OnceInv, Observing, Closing
    <3>3. i = Len(toolResults)
      <4>1. i \in 1 .. Len(toolResults) /\ Len(toolResults) \in Nat
        BY <1>1, <3>1
      <4>2. QED
        BY <3>2, <4>1
    <3>4. QED
      BY <3>1, <3>3 DEF Latest
  <2>2. QED
    BY <2>1 DEF HasSuccessful
<1>5. HasResult("submit_ai_review") => HasSuccessful("get_after_sales_ticket")
  BY <1>0 DEF OrderInv, AsksFor, TicketTools
<1>6. QED
  BY <1>0, <1>2, <1>3, <1>4, <1>5 DEF FailedInv, FreshInv

LEMMA TicketObserve ==
    ASSUME ShapeInv, ReviewInv, ObserveToolResult
    PROVE  ReviewInv'
<1> USE HistoryKept
<1>0. /\ KindInv /\ OrderInv /\ FailedInv /\ FreshInv /\ OnceInv /\ DueInv /\ InsufficientInv
      /\ BackedInv /\ toolResults \in Seq(ToolResult)
      /\ node = "observe_tool_result" /\ node' = "decide_next" /\ Observing /\ Observing'
      /\ UNCHANGED <<turn, toolResults, next, assessment>>
      /\ \A tool : AsksFor(tool)' => AsksFor(tool)
  BY DEF ReviewInv, ShapeInv, TypeOK, ToolResult, AsksFor, Calling, Observing, ObserveToolResult
<1>1. submitFailed' = submitFailed
  <2>1. Latest.ok /\ Latest.tool = "submit_ai_review" => ~submitFailed
    BY <1>0, LatestCall DEF FailedInv
  <2>2. QED
    BY <2>1 DEF ObserveToolResult, ShapeInv, TypeOK
<1>2. Latest.tool # "get_after_sales_ticket" => attachments' = attachments
  BY DEF ObserveToolResult, ShapeInv, TypeOK
<1>3. KindInv'
  BY <1>0 DEF KindInv, Calling
<1>4. OrderInv'
  BY <1>0 DEF OrderInv
<1>5. FailedInv'
  BY <1>0, <1>1 DEF FailedInv
<1>6. FreshInv'
  BY <1>0, <1>1 DEF FreshInv, Calling, View
<1>7. OnceInv'
  BY <1>0 DEF OnceInv, Closing
<1>8. DueInv'
  <2>1. ASSUME AsksFor("submit_ai_review")', ~submitFailed'
        PROVE  /\ DueVerdict' = DueVerdict /\ (VerdictDue' <=> VerdictDue)
               /\ AsksFor("submit_ai_review")
    <3>1. HasResult("submit_ai_review")
      BY <1>0, <2>1 DEF AsksFor, Calling
    <3>2. attachments' = attachments /\ HasSuccessful("get_after_sales_ticket")
      BY <1>0, <1>1, <1>2, <2>1, <3>1, LatestOfReview
    <3>3. QED
      BY <1>0, <3>1, <3>2, DueKept DEF AsksFor
  <2>2. QED
    BY <1>0, <1>1, <2>1 DEF DueInv, Calling
<1>9. InsufficientInv'
  BY <1>0 DEF InsufficientInv, Closing, Calling, SearchFailed
<1>10. BackedInv'
  BY <1>0, ApprovalKept
<1>11. QED
  BY <1>3, <1>4, <1>5, <1>6, <1>7, <1>8, <1>9, <1>10 DEF ReviewInv

\* The latest data of a tool are data of that tool.
LEMMA LatestDataSound ==
    ASSUME ShapeInv, NEW tool, HasSuccessful(tool)
    PROVE  LatestData(tool) \in Data(tool)
<1> DEFINE last(S) == CHOOSE i \in S : \A j \in S : j <= i
<1>1. OkCallsOf(tool) \subseteq 1 .. Len(toolResults) /\ Len(toolResults) \in Nat
  BY Positions, Zenon DEF ShapeInv, TypeOK, ToolResult
<1>2. \E k \in OkCallsOf(tool) : \A i \in OkCallsOf(tool) : i <= k
  BY <1>1, LastExists DEF HasSuccessful
<1>3. last(OkCallsOf(tool)) \in OkCallsOf(tool)
  BY <1>2
<1>4. LatestData(tool) = toolResults[last(OkCallsOf(tool))].data
  BY DEF LatestData
<1> HIDE DEF last
<1>5. \A i \in OkCallsOf(tool) : toolResults[i].data \in Data(tool)
  BY DEF ShapeInv, ResultsInv, Sound, OkCallsOf, CallsOf, Succeeded
<1>6. QED
  BY <1>3, <1>4, <1>5

\* Why an approval is due: the four findings behind it.
LEMMA ApprovalFindings ==
    ASSUME ShapeInv, ReviewInv, AsksFor("submit_ai_review"), ~submitFailed, DueVerdict = "approve"
    PROVE  /\ turn.kafka /\ turn.claims = "damage"
           /\ HasSuccessful("get_after_sales_ticket") /\ View = "usable"
           /\ HasSuccessful("review_images") /\ LatestData("review_images") = "clear"
           /\ TrustedPolicy
<1>0. KafkaInv /\ OrderInv /\ FreshInv /\ DueInv
  BY DEF ShapeInv, ReviewInv
<1>1. HasResult("retrieve_knowledge") /\ AutoApproved
  BY DEF DueVerdict
<1>2. HasSuccessful("get_after_sales_ticket") /\ StatusOf(View) = "pending"
  BY <1>0 DEF OrderInv, DueInv, VerdictDue, TicketTools
<1>3. View \in TicketViews
  BY <1>2, LatestDataSound DEF View, Data
<1>4. View # "risky" /\ View \notin {"undated", "unversioned"}
  BY <1>0, <1>1 DEF AutoApproved, FreshInv, AsksFor, View
<1>5. View = "usable"
  BY <1>2, <1>3, <1>4 DEF TicketViews, StatusOf
<1>6. QED
  BY <1>0, <1>1, <1>2, <1>5
     DEF KafkaInv, AutoApproved, EvidenceConsistent, ImagesShow

\* A call made or refused: the case in which the invariant earns its conjuncts. The
\* approval about to be sent is the verdict that was due, so its findings are there.
LEMMA TicketCall ==
    ASSUME ShapeInv, ReviewInv, ToolCall \/ RefuseToolCall
    PROVE  ReviewInv'
<1>0. /\ KindInv /\ OrderInv /\ FailedInv /\ FreshInv /\ OnceInv /\ DueInv /\ InsufficientInv
      /\ BackedInv /\ toolResults \in Seq(ToolResult)
      /\ node = "tool_call" /\ node' = "observe_tool_result"
      /\ ~Observing /\ Observing' /\ \A tool : ~Calling(tool)'
      /\ UNCHANGED <<turn, attachments, submitFailed, assessment>>
      /\ next.tool \in Tools /\ next.args \in Arguments
  BY DEF ReviewInv, ShapeInv, TypeOK, NodeInv, ToolResult, Calling, Observing, ToolCall, RefuseToolCall,
         CallTools
<1>1. PICK r \in ToolResult : /\ r.tool = next.tool /\ r.args = next.args
                              /\ toolResults' = Append(toolResults, r)
  <2>1. CASE ToolCall
    BY <1>0, <2>1, Outcome DEF ToolCall
  <2>2. CASE RefuseToolCall
    BY <1>0, <2>2, Refused DEF RefuseToolCall
  <2>3. QED
    BY <2>1, <2>2
<1> DEFINE n == Len(toolResults) + 1
<1>2. /\ Calling(r.tool) /\ r.tool \in TicketTools /\ Latest' = r
      /\ DOMAIN toolResults' = DOMAIN toolResults \cup {n} /\ toolResults'[n] = r
      /\ \A i \in DOMAIN toolResults : toolResults'[i] = toolResults[i]
      /\ n \notin DOMAIN toolResults
  BY <1>0, <1>1, Appended DEF Calling, KindInv
<1>3. /\ Len(toolResults) \in Nat /\ DOMAIN toolResults = 1 .. Len(toolResults)
      /\ \A i \in DOMAIN toolResults : i < n
  <2>1. Len(toolResults) \in Nat /\ DOMAIN toolResults = 1 .. Len(toolResults)
    BY <1>0
  <2>2. QED
    BY <2>1
<1>4. ASSUME NEW tool
      PROVE  /\ CallsOf(tool)' = IF r.tool = tool THEN CallsOf(tool) \cup {n} ELSE CallsOf(tool)
             /\ OkCallsOf(tool)' = IF r.tool = tool /\ Succeeded(r) THEN OkCallsOf(tool) \cup {n}
                                   ELSE OkCallsOf(tool)
             /\ AsksFor(tool)' => AsksFor(tool)
             /\ HasSuccessful(tool) => HasSuccessful(tool)'
             /\ CallsOf(tool) \subseteq DOMAIN toolResults
             /\ OkCallsOf(tool) \subseteq CallsOf(tool)
  <2>1. /\ CallsOf(tool)' = IF r.tool = tool THEN CallsOf(tool) \cup {n} ELSE CallsOf(tool)
        /\ OkCallsOf(tool)' = IF r.tool = tool /\ Succeeded(r) THEN OkCallsOf(tool) \cup {n}
                              ELSE OkCallsOf(tool)
    BY <1>0, <1>1, CallsGrow, Zenon
  <2>2. CallsOf(tool) \subseteq DOMAIN toolResults /\ OkCallsOf(tool) \subseteq CallsOf(tool)
    BY DEF CallsOf, OkCallsOf
  <2>3. QED
    BY <1>0, <1>2, <2>1, <2>2 DEF AsksFor, HasResult, HasSuccessful
<1> HIDE DEF n
<1>5. HasSuccessful("submit_ai_review") => FALSE
  BY <1>0 DEF OnceInv
<1>6. AsksFor("submit_ai_review") /\ ~submitFailed => r.tool = "submit_ai_review"
  <2>1. HasResult("submit_ai_review") => r.tool \in {"submit_ai_review", "get_after_sales_ticket"}
    BY <1>0, <1>1 DEF OrderInv
  <2>2. AsksFor("submit_ai_review") => HasSuccessful("get_after_sales_ticket")
    BY <1>0 DEF OrderInv, TicketTools
  <2>3. QED
    BY <1>0, <1>1, <1>2, <2>1, <2>2 DEF FreshInv, AsksFor, Calling
<1>7. KindInv'
  BY <1>0, <1>1, <1>2, <1>4 DEF KindInv, Calling
<1>8. OrderInv'
  <2>1. ASSUME NEW tool \in TicketTools \ {"get_after_sales_ticket"}, AsksFor(tool)'
        PROVE  HasSuccessful("get_after_sales_ticket")'
    BY <1>0, <1>4, <2>1 DEF OrderInv
  <2>2. ASSUME NEW j \in CallsOf("submit_ai_review")', NEW i \in DOMAIN toolResults', i > j
        PROVE  toolResults'[i].tool \in
                   {"submit_ai_review", "get_after_sales_ticket", "handoff_to_human"}
    <3>1. j \in CallsOf("submit_ai_review") \/ j = n
      BY <1>4
    <3>2. i \in DOMAIN toolResults \/ i = n
      BY <1>2
    <3>3. j # n
      BY <1>3, <2>2, <3>2 DEF n
    <3>4. j \in CallsOf("submit_ai_review")
      BY <3>1, <3>3
    <3>5. CASE i = n
      <4>1. HasResult("submit_ai_review")
        BY <3>4 DEF HasResult
      <4>2. QED
        BY <1>0, <1>1, <1>2, <3>5, <4>1 DEF OrderInv
    <3>6. CASE i # n
      BY <1>0, <1>2, <2>2, <3>2, <3>4, <3>6 DEF OrderInv
    <3>7. QED
      BY <3>5, <3>6
  <2>3. QED
    BY <1>0, <2>1, <2>2 DEF OrderInv
<1>9. FailedInv'
  BY <1>0, <1>1, <1>2, <1>4 DEF FailedInv, HasResult, HasSuccessful
<1>10. FreshInv'
  <2> SUFFICES ASSUME ~submitFailed PROVE FreshInv'
    BY <1>0 DEF FreshInv
  <2>1. Latest'.tool = "get_after_sales_ticket" =>
            /\ ~HasResult("submit_ai_review")'
            /\ ~Latest'.ok => ~HasSuccessful("get_after_sales_ticket")'
    <3> SUFFICES ASSUME r.tool = "get_after_sales_ticket"
                 PROVE  /\ ~HasResult("submit_ai_review")'
                        /\ ~r.ok => ~HasSuccessful("get_after_sales_ticket")'
      BY <1>2
    <3>1. ~HasSuccessful("get_after_sales_ticket")
      BY <1>0, <1>2 DEF FreshInv
    <3>2. ~AsksFor("submit_ai_review")
      BY <1>0, <3>1 DEF OrderInv, TicketTools
    <3>3. QED
      BY <1>4, <3>1, <3>2 DEF AsksFor, HasResult, HasSuccessful, Succeeded
  <2>2. AsksFor("retrieve_knowledge")' => View' \notin {"undated", "unversioned"}
    <3> SUFFICES ASSUME AsksFor("retrieve_knowledge") PROVE View' \notin {"undated", "unversioned"}
      BY <1>4
    <3>1. HasSuccessful("get_after_sales_ticket")
      BY <1>0 DEF OrderInv, TicketTools
    <3>2. r.tool # "get_after_sales_ticket"
      BY <1>0, <1>2, <3>1 DEF FreshInv
    <3>3. View' = View
      BY <1>0, <1>1, <3>1, <3>2, Unaffected DEF View
    <3>4. QED
      BY <1>0, <3>3 DEF FreshInv
  <2>3. QED
    BY <1>0, <2>1, <2>2 DEF FreshInv
<1>11. OnceInv'
  <2>1. OkCallsOf("submit_ai_review")' \subseteq {n}
    BY <1>4, <1>5 DEF HasSuccessful
  <2>2. \A j \in DOMAIN toolResults' : ~(n < j)
    BY <1>2, <1>3 DEF n
  <2>3. QED
    BY <1>0, <2>1, <2>2 DEF OnceInv
<1>12. DueInv'
  <2> SUFFICES ASSUME HasResult("submit_ai_review")', ~submitFailed
               PROVE  /\ VerdictDue'
                      /\ \A i \in CallsOf("submit_ai_review")' : toolResults'[i].args = DueVerdict'
    BY <1>0 DEF DueInv, AsksFor
  <2>1. AsksFor("submit_ai_review") /\ r.tool = "submit_ai_review"
    BY <1>4, <1>6 DEF AsksFor
  <2>2. HasSuccessful("get_after_sales_ticket")
    BY <1>0, <2>1 DEF OrderInv, TicketTools
  <2>3. DueVerdict' = DueVerdict /\ (VerdictDue' <=> VerdictDue)
    BY <1>0, <1>1, <2>1, <2>2, DueKept
  <2>4. VerdictDue /\ r.args = DueVerdict
    BY <1>0, <1>1, <1>2, <2>1 DEF DueInv
  <2>5. ASSUME NEW i \in CallsOf("submit_ai_review")'
        PROVE  toolResults'[i].args = DueVerdict
    <3>1. i \in CallsOf("submit_ai_review") \/ i = n
      BY <1>4
    <3>2. CASE i = n
      BY <1>2, <2>4, <3>2
    <3>3. CASE i \in CallsOf("submit_ai_review")
      <4>1. toolResults'[i] = toolResults[i]
        BY <1>2, <1>4, <3>3
      <4>2. QED
        BY <1>0, <2>1, <3>3, <4>1 DEF DueInv
    <3>4. QED
      BY <3>1, <3>2, <3>3
  <2>6. QED
    BY <2>3, <2>4, <2>5
<1>13. InsufficientInv'
  <2>1. SearchFailed => SearchFailed'
    BY <1>2, <1>4 DEF SearchFailed
  <2>2. Calling("retrieve_knowledge_multi") => Latest'.tool = "retrieve_knowledge_multi"
    BY <1>1, <1>2 DEF Calling
  <2>3. QED
    BY <1>0, <2>1, <2>2 DEF InsufficientInv, Closing
<1>14. BackedInv'
  <2>1. ASSUME NEW j \in CallsOf("submit_ai_review")', toolResults'[j].args = "approve"
        PROVE  Backing(j)' /\ (assessment' = "insufficient" => FailedSearchBefore(j)')
    <3>1. CASE j \in CallsOf("submit_ai_review")
      <4>1. j \in DOMAIN toolResults /\ toolResults[j].args = "approve"
        BY <1>2, <1>4, <2>1, <3>1
      <4>2. Backing(j) /\ (assessment = "insufficient" => FailedSearchBefore(j))
        BY <1>0, <3>1, <4>1, BackedUnfolded
      <4>3. QED
        BY <1>0, <1>1, <4>1, <4>2, BackingKept
    <3>2. CASE j \notin CallsOf("submit_ai_review")
      <4>1. j = n /\ r.tool = "submit_ai_review" /\ r.args = "approve"
        BY <1>2, <1>4, <2>1, <3>2
      <4>2. AsksFor("submit_ai_review") /\ ~submitFailed /\ DueVerdict = "approve"
        BY <1>0, <1>1, <1>2, <4>1 DEF AsksFor, FailedInv, DueInv
      <4>3. ASSUME NEW tool, tool # "submit_ai_review"
            PROVE  /\ Before(j, tool)' = OkCallsOf(tool)
                   /\ HasSuccessful(tool) => DataBefore(j, tool)' = LatestData(tool)
        <5>1. OkCallsOf(tool)' = OkCallsOf(tool) /\ \A i \in OkCallsOf(tool) : i < j
          BY <1>3, <1>4, <4>1, <4>3
        <5>2. Before(j, tool)' = OkCallsOf(tool)
          BY <5>1 DEF Before
        <5>3. DataBefore(j, tool)' = LatestData(tool)'
          BY <5>1, <5>2, Zenon DEF DataBefore, LatestData
        <5>4. HasSuccessful(tool) => LatestData(tool)' = LatestData(tool)
          BY <1>0, <1>1, <4>1, <4>3, Unaffected
        <5>5. QED
          BY <5>2, <5>3, <5>4
      <4>4. /\ turn.kafka /\ turn.claims = "damage"
            /\ HasSuccessful("get_after_sales_ticket")
            /\ LatestData("get_after_sales_ticket") = "usable"
            /\ HasSuccessful("review_images") /\ LatestData("review_images") = "clear"
            /\ TrustedPolicy
        BY <4>2, ApprovalFindings DEF View
      <4>5. \E i \in Before(j, "retrieve_knowledge")' \cup Before(j, "retrieve_knowledge_multi")' :
                toolResults'[i].data = "trusted"
        BY <1>2, <1>4, <4>3, <4>4 DEF TrustedPolicy
      <4>6. Backing(j)'
        BY <1>0, <4>3, <4>4, <4>5 DEF Backing, HasSuccessful
      <4>7. assessment = "insufficient" => FailedSearchBefore(j)'
        <5>1. assessment = "insufficient" => SearchFailed
          BY <1>0, <1>1, <4>1 DEF InsufficientInv, Closing, Calling
        <5>2. \A i \in CallsOf("retrieve_knowledge_multi") :
                  i \in CallsOf("retrieve_knowledge_multi")' /\ i < j /\ toolResults'[i] = toolResults[i]
          BY <1>2, <1>3, <1>4, <4>1
        <5>3. QED
          BY <5>1, <5>2 DEF SearchFailed, FailedSearchBefore
      <4>8. QED
        BY <1>0, <4>6, <4>7
    <3>3. QED
      BY <3>1, <3>2
  <2>2. QED
    BY <2>1 DEF BackedInv, ApprovalIsBacked, DepartureInv, Backing, FailedSearchBefore
<1>15. QED
  BY <1>7, <1>8, <1>9, <1>10, <1>11, <1>12, <1>13, <1>14 DEF ReviewInv

\* A hand-off calls nothing else.
LEMMA TicketHandoff ==
    ASSUME ShapeInv, ReviewInv, HumanHandoff
    PROVE  ReviewInv'
<1>0. /\ KindInv /\ OrderInv /\ FailedInv /\ FreshInv /\ OnceInv /\ DueInv /\ InsufficientInv
      /\ BackedInv /\ toolResults \in Seq(ToolResult)
      /\ node = "human_handoff" /\ node' = "final_reply" /\ node' \in Closing /\ node \notin Closing
      /\ ~Observing' /\ \A tool : ~Calling(tool)'
      /\ UNCHANGED <<turn, attachments, submitFailed, assessment>>
  BY DEF ReviewInv, ShapeInv, TypeOK, ToolResult, Calling, Observing, HumanHandoff, Closing
<1>1. PICK r \in ToolResult : /\ r.tool = "handoff_to_human"
                              /\ toolResults' = Append(toolResults, r)
  BY Outcome DEF HumanHandoff, Tools, Arguments
<1> DEFINE n == Len(toolResults) + 1
<1>2. /\ DOMAIN toolResults' = DOMAIN toolResults \cup {n} /\ toolResults'[n] = r
      /\ \A i \in DOMAIN toolResults : toolResults'[i] = toolResults[i]
      /\ \A tool : CallsOf(tool) \subseteq DOMAIN toolResults
  BY <1>0, <1>1, Appended, Positions
<1> HIDE DEF n
<1>3. ASSUME NEW tool, tool # "handoff_to_human"
      PROVE  /\ CallsOf(tool)' = CallsOf(tool) /\ OkCallsOf(tool)' = OkCallsOf(tool)
             /\ HasResult(tool)' <=> HasResult(tool)
             /\ HasSuccessful(tool)' <=> HasSuccessful(tool)
             /\ HasSuccessful(tool) => LatestData(tool)' = LatestData(tool)
             /\ AsksFor(tool)' => AsksFor(tool)
  BY <1>0, <1>1, <1>3, Unaffected DEF AsksFor
<1>4. KindInv'
  BY <1>0, <1>1, <1>2, <1>3 DEF KindInv
<1>5. OrderInv'
  <2>1. ASSUME NEW tool \in TicketTools \ {"get_after_sales_ticket"}, AsksFor(tool)'
        PROVE  HasSuccessful("get_after_sales_ticket")'
    BY <1>0, <1>3, <2>1 DEF OrderInv, TicketTools
  <2>2. ASSUME NEW j \in CallsOf("submit_ai_review")', NEW i \in DOMAIN toolResults', i > j
        PROVE  toolResults'[i].tool \in
                   {"submit_ai_review", "get_after_sales_ticket", "handoff_to_human"}
    BY <1>0, <1>1, <1>2, <1>3, <2>2 DEF OrderInv
  <2>3. QED
    BY <1>0, <2>1, <2>2 DEF OrderInv
<1>6. FailedInv'
  BY <1>0, <1>3 DEF FailedInv
<1>7. FreshInv'
  <2>1. ASSUME ~submitFailed, AsksFor("retrieve_knowledge")'
        PROVE  View' \notin {"undated", "unversioned"}
    <3>1. AsksFor("retrieve_knowledge") /\ HasSuccessful("get_after_sales_ticket")
      BY <1>0, <1>3, <2>1 DEF OrderInv, TicketTools
    <3>2. View' = View
      BY <1>3, <3>1 DEF View
    <3>3. QED
      BY <1>0, <2>1, <3>1, <3>2 DEF FreshInv
  <2>2. QED
    BY <1>0, <2>1 DEF FreshInv
<1>8. OnceInv'
  BY <1>0, <1>1, <1>2, <1>3 DEF OnceInv
<1>9. DueInv'
  <2> SUFFICES ASSUME HasResult("submit_ai_review")', ~submitFailed
               PROVE  /\ VerdictDue'
                      /\ \A i \in CallsOf("submit_ai_review")' : toolResults'[i].args = DueVerdict'
    BY <1>0 DEF DueInv, AsksFor
  <2>1. AsksFor("submit_ai_review")
    BY <1>3 DEF AsksFor
  <2>2. HasSuccessful("get_after_sales_ticket")
    BY <1>0, <2>1 DEF OrderInv, TicketTools
  <2>3. DueVerdict' = DueVerdict /\ (VerdictDue' <=> VerdictDue)
    BY <1>0, <1>1, <2>2, DueKept
  <2>4. QED
    BY <1>0, <1>2, <1>3, <2>1, <2>3 DEF DueInv
<1>10. InsufficientInv'
  BY <1>0 DEF InsufficientInv
<1>11. BackedInv'
  <2>1. ASSUME NEW j \in CallsOf("submit_ai_review")', toolResults'[j].args = "approve"
        PROVE  Backing(j)' /\ (assessment' = "insufficient" => FailedSearchBefore(j)')
    <3>1. /\ j \in CallsOf("submit_ai_review") /\ j \in DOMAIN toolResults
          /\ toolResults[j].args = "approve"
      BY <1>2, <1>3, <2>1
    <3>2. Backing(j) /\ (assessment = "insufficient" => FailedSearchBefore(j))
      BY <1>0, <3>1, BackedUnfolded
    <3>3. QED
      BY <1>0, <1>1, <3>1, <3>2, BackingKept
  <2>2. QED
    BY <2>1 DEF BackedInv, ApprovalIsBacked, DepartureInv, Backing, FailedSearchBefore
<1>12. QED
  BY <1>4, <1>5, <1>6, <1>7, <1>8, <1>9, <1>10, <1>11 DEF ReviewInv

\* Where a decision leads.
LEMMA AppliedTo ==
    ASSUME NEW d, Sane(d), ApplyAction(d)
    PROVE  /\ d.action = "human_handoff" => node' = "human_handoff"
           /\ d.action # "tool_call" => node' # "tool_call"
           /\ node' = "final_reply" /\ turn.kafka =>
                  d.action = "final_reply" /\ (d.evidence = "some" => evidenceNeeded')
<1> DEFINE a == Allowed(d)
<1>1. /\ d.action # "tool_call" => a = d
      /\ turn.kafka => a = d
  BY DEF Allowed, SubmitBlocked, Sane, NoTool
<1>2. /\ evidenceNeeded' = IF a.evidence = "keep" THEN evidenceNeeded ELSE a.evidence = "some"
      /\ node' = Route(a)
  BY DEF ApplyAction
<1>3. d.action \in {"tool_call", "human_handoff", "final_reply"}
  BY DEF Sane, Decisions
<1> HIDE DEF a
<1>4. QED
  BY <1>1, <1>2, <1>3 DEF Route

\* A decision of a turn about a ticket, whichever rule took it.
LEMMA TicketDecision ==
    ASSUME ShapeInv, ReviewInv, node \in Deciding, NEW d, Sane(d), ApplyAction(d),
           UNCHANGED <<turn, toolResults, attachments>>,
           TicketChoice(d, submitFailed'), submitFailed' \in BOOLEAN,
           submitFailed => submitFailed',
           submitFailed' /\ ~submitFailed =>
               HasResult("submit_ai_review") /\ ~HasSuccessful("submit_ai_review"),
           assessment' = "insufficient" =>
               d.action # "tool_call" \/ d.tool = "retrieve_knowledge_multi" \/ SearchFailed,
           HasResult("submit_ai_review") => assessment' = assessment
    PROVE  ReviewInv'
<1> USE HistoryKept
<1>0. /\ KindInv /\ OrderInv /\ FailedInv /\ FreshInv /\ OnceInv /\ DueInv /\ InsufficientInv
      /\ BackedInv /\ toolResults \in Seq(ToolResult) /\ TypeOK /\ node \notin Closing
  BY DEF ReviewInv, ShapeInv, TypeOK, ToolResult, Deciding, Closing
<1>1. /\ node' \in {"tool_call", "human_handoff", "final_reply"}
      /\ node' = "tool_call" =>
             d.action = "tool_call" /\ next'.tool = d.tool /\ next'.args = d.args
  BY <1>0, Applied
<1>2. ~Observing'
  BY <1>1 DEF Observing
<1>3. \A tool : AsksFor(tool)' => HasResult(tool) \/ (node' = "tool_call" /\ d.tool = tool)
  BY <1>1 DEF AsksFor, Calling
<1>4. KindInv'
  BY <1>0, <1>1 DEF KindInv, Calling, TicketChoice, TicketTools
<1>5. OrderInv'
  <2>1. ASSUME NEW tool \in TicketTools \ {"get_after_sales_ticket"}, AsksFor(tool)'
        PROVE  HasSuccessful("get_after_sales_ticket")'
    <3>1. CASE HasResult(tool)
      BY <1>0, <3>1 DEF OrderInv, AsksFor
    <3>2. CASE node' = "tool_call" /\ d.tool = tool
      BY <1>1, <3>2 DEF TicketChoice
    <3>3. QED
      BY <1>3, <2>1, <3>1, <3>2
  <2>2. HasResult("submit_ai_review") /\ node' = "tool_call" =>
            next'.tool \in {"submit_ai_review", "get_after_sales_ticket"}
    BY <1>1 DEF TicketChoice
  <2>3. QED
    BY <1>0, <2>1, <2>2 DEF OrderInv
<1>6. FailedInv'
  BY <1>0, <1>1, <1>2 DEF FailedInv, TicketChoice
<1>7. FreshInv'
  <2> SUFFICES ASSUME ~submitFailed'
               PROVE  /\ Calling("get_after_sales_ticket")' => ~HasSuccessful("get_after_sales_ticket")
                      /\ AsksFor("retrieve_knowledge")' => View \notin {"undated", "unversioned"}
    BY <1>2 DEF FreshInv, View
  <2>1. Calling("get_after_sales_ticket")' => ~HasSuccessful("get_after_sales_ticket")
    BY <1>1 DEF Calling, TicketChoice
  <2>2. HasResult("retrieve_knowledge") => View \notin {"undated", "unversioned"}
    BY <1>0 DEF FreshInv, AsksFor
  <2>3. QED
    BY <1>1, <1>3, <2>1, <2>2 DEF TicketChoice
<1>8. OnceInv'
  BY <1>0, <1>1 DEF OnceInv, TicketChoice
<1>9. DueInv'
  <2> SUFFICES ASSUME AsksFor("submit_ai_review")', ~submitFailed'
               PROVE  /\ VerdictDue'
                      /\ \A i \in CallsOf("submit_ai_review") : toolResults[i].args = DueVerdict'
                      /\ Calling("submit_ai_review")' => next'.args = DueVerdict'
    BY DEF DueInv
  <2>1. HasResult("submit_ai_review") =>
            /\ VerdictDue /\ HasSuccessful("get_after_sales_ticket")
            /\ \A i \in CallsOf("submit_ai_review") : toolResults[i].args = DueVerdict
    BY <1>0 DEF DueInv, OrderInv, AsksFor, TicketTools
  <2>2. Calling("submit_ai_review")' =>
            VerdictDue /\ HasSuccessful("get_after_sales_ticket") /\ next'.args = DueVerdict
    BY <1>1 DEF Calling, TicketChoice
  <2>3. HasSuccessful("get_after_sales_ticket")
    BY <2>1, <2>2 DEF AsksFor
  <2>4. DueVerdict' = DueVerdict /\ (VerdictDue' <=> VerdictDue)
    BY <1>0, <2>3, DueKept
  <2>5. QED
    BY <2>1, <2>2, <2>4 DEF AsksFor, HasResult
<1>10. InsufficientInv'
  <2>1. d.action # "tool_call" => node' \in Closing \cup {"human_handoff"}
    BY <1>1, AppliedTo DEF Closing
  <2>2. node' # "tool_call" => node' \in Closing \cup {"human_handoff"}
    BY <1>1 DEF Closing
  <2>3. SearchFailed' <=> SearchFailed
    BY DEF SearchFailed
  <2>4. QED
    BY <1>1, <2>1, <2>2, <2>3 DEF InsufficientInv, Calling, Closing
<1>11. BackedInv'
  BY <1>0, ApprovalKept
<1>12. QED
  BY <1>4, <1>5, <1>6, <1>7, <1>8, <1>9, <1>10, <1>11 DEF ReviewInv

\* What a decision of a turn about a ticket may be, and what it leaves behind.
ReviewChoice(d) ==
    /\ Sane(d) /\ ApplyAction(d) /\ TicketChoice(d, submitFailed') /\ FinalChoice(d)
    /\ submitFailed' \in BOOLEAN /\ (submitFailed => submitFailed')
    /\ submitFailed' /\ ~submitFailed =>
           HasResult("submit_ai_review") /\ ~HasSuccessful("submit_ai_review")
    /\ assessment' = "insufficient" =>
           d.action # "tool_call" \/ d.tool = "retrieve_knowledge_multi" \/ SearchFailed
    /\ HasResult("submit_ai_review") => assessment' = assessment

\* The four rules each take a decision of this kind.
LEMMA PlanChoice ==
    ASSUME ShapeInv, ReviewInv, turn.ticketId, ClassifyOrPlan
    PROVE  \E d : ReviewChoice(d)
<1>0. /\ node = "classify_or_plan" /\ toolResults = <<>>
      /\ UNCHANGED <<submitFailed, assessment>> /\ submitFailed \in BOOLEAN
  BY DEF ClassifyOrPlan, ShapeInv, NodeInv, TypeOK
<1>1. \A tool : CallsOf(tool) = {} /\ OkCallsOf(tool) = {}
  BY <1>0 DEF CallsOf, OkCallsOf
<1>2. Sane(GetTicket) /\ ApplyAction(GetTicket)
  BY PlanSane, RulesSane DEF ClassifyOrPlan
<1>3. TicketChoice(GetTicket, submitFailed') /\ FinalChoice(GetTicket)
  BY <1>1 DEF TicketChoice, FinalChoice, HasSuccessful, GetTicket, Call, Decision
<1>4. assessment # "insufficient"
  <2>1. InsufficientInv
    BY DEF ReviewInv
  <2>2. QED
    BY <1>0, <1>1, <2>1 DEF InsufficientInv, Closing, Calling, SearchFailed, Observing
<1>5. ReviewChoice(GetTicket)
  BY <1>0, <1>2, <1>3, <1>4 DEF ReviewChoice
<1>6. QED
  BY <1>5

\* After a failure: the call again, a replacement for it, or a human.
LEMMA FailureReviewChoice ==
    ASSUME ShapeInv, ReviewInv, DecideAfterFailure
    PROVE  ReviewChoice(FailureDecision)
<1> DEFINE d == FailureDecision
<1>0. /\ node = "decide_next" /\ Observing /\ d # NoDecision /\ ApplyAction(d)
      /\ submitFailed' = (submitFailed \/ GivesUpSubmission(Latest, d))
      /\ UNCHANGED assessment /\ submitFailed \in BOOLEAN
      /\ KindInv /\ FailedInv /\ FreshInv /\ DueInv /\ InsufficientInv
  BY DEF DecideAfterFailure, Observing, ShapeInv, ReviewInv, TypeOK
<1>1. /\ Latest \in ToolResult /\ Sound(Latest) /\ HasResult(Latest.tool)
      /\ Len(toolResults) \in CallsOf(Latest.tool)
  BY <1>0, LatestCall
<1>2. /\ Latest.tool \in TicketTools
      /\ submitFailed => Latest.tool = "get_after_sales_ticket"
      /\ HasSuccessful("submit_ai_review") => Latest.ok
      /\ HasResult("submit_ai_review") => HasSuccessful("get_after_sales_ticket")
  BY <1>0, LatestOfReview
<1>3. Sane(d) /\ d.tool # "retrieve_knowledge_multi"
  BY <1>0, <1>1, FailureSane
<1>4. /\ ~Latest.ok
      /\ \/ /\ d.action = "tool_call" /\ d.tool = Latest.tool /\ d.args = Latest.args
            /\ d.tool \in {"get_after_sales_ticket", "submit_ai_review"}
         \/ /\ d.action = "tool_call" /\ d.tool = "get_after_sales_ticket" /\ d.args = "own"
            /\ Latest.tool = "submit_ai_review" /\ Latest.error = "unavailable"
         \/ d.action = "human_handoff" /\ d.tool = NoTool
         \/ d.action = "final_reply" /\ d.tool = NoTool /\ d.evidence = "some"
            /\ Latest.error = "refused"
  BY <1>0, <1>1, <1>2, FailureChoice
<1> HIDE DEF d
<1>5. ~HasSuccessful("submit_ai_review")
  BY <1>2, <1>4
<1>6. TicketChoice(d, submitFailed')
  <2>1. CASE /\ d.action = "tool_call" /\ d.tool = Latest.tool /\ d.args = Latest.args
             /\ d.tool = "get_after_sales_ticket"
    <3>1. d.args = "own"
      BY <1>0, <1>1, <2>1 DEF KindInv, Latest
    <3>2. submitFailed \/ ~HasSuccessful("get_after_sales_ticket")
      BY <1>0, <1>4, <2>1 DEF FreshInv
    <3>3. QED
      BY <1>0, <1>5, <2>1, <3>1, <3>2 DEF TicketChoice
  <2>2. CASE /\ d.action = "tool_call" /\ d.tool = Latest.tool /\ d.args = Latest.args
             /\ d.tool = "submit_ai_review"
    <3>1. ~submitFailed /\ ~submitFailed' /\ HasSuccessful("get_after_sales_ticket")
      BY <1>0, <1>1, <1>2, <2>2 DEF GivesUpSubmission
    <3>2. VerdictDue /\ d.args = DueVerdict
      BY <1>0, <1>1, <2>2, <3>1 DEF DueInv, AsksFor, Latest
    <3>3. QED
      BY <1>5, <2>2, <3>1, <3>2 DEF TicketChoice
  <2>3. CASE /\ d.action = "tool_call" /\ d.tool = "get_after_sales_ticket" /\ d.args = "own"
             /\ Latest.tool = "submit_ai_review" /\ Latest.error = "unavailable"
    BY <1>0, <1>5, <2>3 DEF GivesUpSubmission, TicketChoice
  <2>4. CASE d.action # "tool_call"
    BY <2>4 DEF TicketChoice
  <2>5. QED
    BY <1>4, <2>1, <2>2, <2>3, <2>4
<1>7. FinalChoice(d)
  BY <1>4 DEF FinalChoice
<1>8. submitFailed' /\ ~submitFailed => HasResult("submit_ai_review")
  BY <1>0, <1>1 DEF GivesUpSubmission
<1>9. assessment' = "insufficient" => SearchFailed
  <2>1. Latest.tool = "retrieve_knowledge_multi" => SearchFailed
    BY <1>1, <1>4 DEF SearchFailed, Latest
  <2>2. QED
    BY <1>0, <2>1 DEF InsufficientInv, Closing, Calling
<1>10. submitFailed' \in BOOLEAN /\ (submitFailed => submitFailed')
  BY <1>0 DEF GivesUpSubmission
<1>11. QED
  BY <1>0, <1>3, <1>5, <1>6, <1>7, <1>8, <1>9, <1>10 DEF ReviewChoice, d

\* Without an order the turn asks for one.
LEMMA NoOrderChoice ==
    ASSUME ShapeInv, ReviewInv, DecideWithoutOrder
    PROVE  \E d : ReviewChoice(d)
<1> DEFINE d == Reply("plain", FALSE, "some")
<1>1. "plain" \in Replies \ Handed
  BY DEF Replies, Handed
<1>2. Sane(d) /\ d.action = "final_reply" /\ d.evidence = "some"
  BY <1>1, ReplySane DEF Reply, Decision
<1>3. ApplyAction(d) /\ UNCHANGED <<submitFailed, assessment>> /\ submitFailed \in BOOLEAN
  BY DEF DecideWithoutOrder, ShapeInv, TypeOK
<1> HIDE DEF d
<1>4. ReviewChoice(d)
  BY <1>2, <1>3 DEF ReviewChoice, TicketChoice, FinalChoice
<1>5. QED
  BY <1>4

\* The rules of _decide_next.
LEMMA RuleReviewChoice ==
    ASSUME ShapeInv, ReviewInv, turn.ticketId, DecideNext
    PROVE  \E d : ReviewChoice(d)
<1>0. /\ node = "decide_next" /\ Observing /\ needHuman \in BOOLEAN
      /\ UNCHANGED submitFailed /\ submitFailed \in BOOLEAN
      /\ OrderInv /\ DueInv /\ InsufficientInv
  BY DEF DecideNext, Observing, ShapeInv, ReviewInv, TypeOK
<1>1. PICK verdict \in RewriteVerdicts, evidence \in EvidenceNeeds :
          \E decision \in RuleDecisions(verdict, evidence) :
              ApplyAction(decision) /\ assessment' = Assessment(verdict)
  BY DEF DecideNext, RewriteVerdicts
<1>2. PICK d \in RuleDecisions(verdict, evidence) :
          ApplyAction(d) /\ assessment' = Assessment(verdict)
  BY <1>1
<1>3. Sane(d)
  BY <1>0, RuleSane
<1>4. /\ Len(toolResults) \in CallsOf(Latest.tool) /\ HasResult(Latest.tool)
      /\ submitFailed => Latest.tool = "get_after_sales_ticket"
      /\ HasResult("submit_ai_review") =>
             Latest.tool \in {"submit_ai_review", "get_after_sales_ticket"}
      /\ HasSuccessful("submit_ai_review") => Latest.ok /\ Latest.tool = "submit_ai_review"
      /\ HasResult("submit_ai_review") => HasSuccessful("get_after_sales_ticket")
  BY <1>0, LatestCall, LatestOfReview
<1>5. HasResult("submit_ai_review") /\ ~submitFailed => VerdictDue
  BY <1>0 DEF DueInv, AsksFor
<1>6. \/ /\ d.action = "tool_call" /\ d.tool = "retrieve_knowledge_multi"
         /\ AssessesFirstRound /\ ~rewriteCompleted
      \/ d.action = "human_handoff"
      \/ /\ FollowUpRetrieval(verdict) = NoDecision
         /\ d.tool # "retrieve_knowledge_multi"
         /\ TicketChoice(d, submitFailed) /\ FinalChoice(d)
  BY <1>0, <1>4, <1>5, RuleChoice
<1>7. TicketChoice(d, submitFailed') /\ FinalChoice(d)
  <2>1. CASE /\ d.action = "tool_call" /\ d.tool = "retrieve_knowledge_multi"
             /\ AssessesFirstRound
    <3>1. Latest.tool = "retrieve_knowledge"
      BY <2>1 DEF AssessesFirstRound
    <3>2. HasSuccessful("get_after_sales_ticket")
      BY <1>0, <1>4, <3>1 DEF OrderInv, AsksFor, TicketTools
    <3>3. QED
      BY <1>0, <1>4, <2>1, <3>1, <3>2 DEF TicketChoice, FinalChoice
  <2>2. CASE d.action = "human_handoff"
    BY <2>2 DEF TicketChoice, FinalChoice
  <2>3. QED
    BY <1>0, <1>6, <2>1, <2>2
<1>8. ~Assessable => assessment' = assessment
  BY <1>2 DEF Assessment
<1>9. HasResult("submit_ai_review") => assessment' = assessment
  BY <1>4, <1>8 DEF Assessable
<1>10. ASSUME assessment = "insufficient", Latest.tool # "retrieve_knowledge_multi" \/ ~Latest.ok
       PROVE  SearchFailed
  <2>1. SearchFailed \/ Latest.tool = "retrieve_knowledge_multi"
    BY <1>0, <1>10 DEF InsufficientInv, Closing, Calling
  <2>2. Latest.tool = "retrieve_knowledge_multi" /\ ~Latest.ok => SearchFailed
    BY <1>4 DEF SearchFailed, Latest
  <2>3. QED
    BY <1>10, <2>1, <2>2
<1>11. assessment' = "insufficient" =>
           d.action # "tool_call" \/ d.tool = "retrieve_knowledge_multi" \/ SearchFailed
  <2> SUFFICES ASSUME Assessment(verdict) = "insufficient",
                      FollowUpRetrieval(verdict) = NoDecision
               PROVE  SearchFailed
    BY <1>2, <1>6
  <2>1. CASE ~Assessable
    <3>1. assessment = "insufficient"
      BY <2>1 DEF Assessment
    <3>2. Latest.tool # "retrieve_knowledge_multi" \/ ~Latest.ok
      BY <2>1 DEF Assessable
    <3>3. QED
      BY <1>10, <3>1, <3>2
  <2>2. CASE Assessable /\ Latest.tool = "retrieve_knowledge" /\ rewriteCompleted
    <3>1. assessment = "insufficient"
      BY <2>2 DEF Assessment
    <3>2. QED
      BY <1>10, <2>2, <3>1
  <2>3. CASE Assessable /\ ~(Latest.tool = "retrieve_knowledge" /\ rewriteCompleted)
    <3>1. Latest.data # "infrastructureFailure" /\ verdict \notin {"sufficient", "error"}
      BY <2>3 DEF Assessment
    <3>2. HandOff("plain", "keep") # NoDecision
      BY DEF HandOff, NoDecision, Decision
    <3>3. KeepingCall("retrieve_knowledge_multi", "own") # NoDecision
      BY DEF KeepingCall, NoDecision, Decision
    <3>4. QED
      BY <2>3, <3>1, <3>2, <3>3 DEF FollowUpRetrieval, Assessable
  <2>4. QED
    BY <2>1, <2>2, <2>3
<1>12. ReviewChoice(d)
  BY <1>0, <1>2, <1>3, <1>7, <1>9, <1>11 DEF ReviewChoice
<1>13. QED
  BY <1>12

\* The four together.
LEMMA ReviewChoices ==
    ASSUME ShapeInv, ReviewInv, turn.ticketId,
           ClassifyOrPlan \/ DecideAfterFailure \/ DecideWithoutOrder \/ DecideNext
    PROVE  \E d : ReviewChoice(d)
BY PlanChoice, FailureReviewChoice, NoOrderChoice, RuleReviewChoice, Zenon

\* A step that changes nothing.
LEMMA TicketStutter ==
    ASSUME ShapeInv, ReviewInv, UNCHANGED vars
    PROVE  ReviewInv'
<1> USE HistoryKept
<1>0. /\ KindInv /\ OrderInv /\ FailedInv /\ FreshInv /\ OnceInv /\ DueInv /\ InsufficientInv
      /\ BackedInv /\ toolResults \in Seq(ToolResult)
      /\ UNCHANGED <<turn, node, toolResults, next, attachments, submitFailed, assessment>>
      /\ Observing' = Observing
      /\ \A tool : (AsksFor(tool)' <=> AsksFor(tool)) /\ (Calling(tool)' <=> Calling(tool))
  BY DEF vars, ReviewInv, ShapeInv, TypeOK, ToolResult, AsksFor, Calling, Observing
<1>1. KindInv' /\ OrderInv' /\ FailedInv'
  BY <1>0 DEF KindInv, OrderInv, FailedInv
<1>2. FreshInv' /\ OnceInv' /\ InsufficientInv'
  BY <1>0 DEF FreshInv, OnceInv, InsufficientInv, View, SearchFailed
<1>3. DueInv'
  <2>1. AsksFor("submit_ai_review") =>
            DueVerdict' = DueVerdict /\ (VerdictDue' <=> VerdictDue)
    BY <1>0, DueKept DEF OrderInv, TicketTools
  <2>2. QED
    BY <1>0, <2>1 DEF DueInv
<1>4. BackedInv'
  BY <1>0, ApprovalKept
<1>5. QED
  BY <1>1, <1>2, <1>3, <1>4 DEF ReviewInv

\* TicketInv is inductive relative to ShapeInv.
LEMMA TicketStep == ShapeInv /\ TicketInv /\ [Next]_vars => TicketInv'
<1> SUFFICES ASSUME ShapeInv, TicketInv, [Next]_vars, turn'.ticketId PROVE ReviewInv'
  BY DEF TicketInv
<1>1. turn' = turn
  BY DEF Next, RunNode, ReceiveMessage, SkipPlan, ClassifyOrPlan, ToolCall, RefuseToolCall,
         ObserveToolResult, StopAtMaxSteps, DecideAfterFailure, DecideWithoutOrder, DecideNext,
         HumanHandoff, FinalReply, RecursionError, vars
<1>2. ReviewInv /\ turn.ticketId
  BY <1>1 DEF TicketInv
<1>3. CASE ReceiveMessage \/ SkipPlan \/ StopAtMaxSteps \/ FinalReply \/ RecursionError
  BY <1>2, <1>3, TicketIdle DEF ReceiveMessage, SkipPlan, StopAtMaxSteps, FinalReply, RecursionError, Closing
<1>4. CASE ClassifyOrPlan \/ DecideAfterFailure \/ DecideWithoutOrder \/ DecideNext
  <2>1. PICK d : ReviewChoice(d)
    BY <1>2, <1>4, ReviewChoices
  <2>2. node \in Deciding /\ UNCHANGED <<turn, toolResults, attachments>>
    BY <1>4 DEF ClassifyOrPlan, DecideAfterFailure, DecideWithoutOrder, DecideNext, Deciding
  <2>3. QED
    BY <1>2, <2>1, <2>2, TicketDecision DEF ReviewChoice
<1>5. CASE ToolCall \/ RefuseToolCall
  BY <1>2, <1>5, TicketCall
<1>6. CASE ObserveToolResult
  BY <1>2, <1>6, TicketObserve
<1>7. CASE HumanHandoff
  BY <1>2, <1>7, TicketHandoff
<1>8. CASE UNCHANGED vars
  BY <1>2, <1>8, TicketStutter
<1>9. QED
  BY <1>3, <1>4, <1>5, <1>6, <1>7, <1>8 DEF Next, RunNode

\* No call has been made at first.
LEMMA TicketInit == Init => TicketInv
<1> SUFFICES ASSUME Init PROVE ReviewInv
  BY DEF TicketInv
<1>1. /\ toolResults = <<>> /\ node = "receive_message" /\ ~submitFailed /\ assessment = "none"
      /\ \A tool : CallsOf(tool) = {} /\ OkCallsOf(tool) = {}
  BY DEF Init, CallsOf, OkCallsOf
<1>2. /\ \A tool : ~AsksFor(tool) /\ ~Calling(tool) /\ ~HasResult(tool)
      /\ ~Observing
  BY <1>1 DEF AsksFor, HasResult, Calling, Observing
<1>3. KindInv /\ OrderInv /\ FailedInv
  BY <1>1, <1>2 DEF KindInv, OrderInv, FailedInv
<1>4. FreshInv /\ OnceInv /\ DueInv /\ InsufficientInv
  BY <1>1, <1>2 DEF FreshInv, OnceInv, DueInv, InsufficientInv, HasSuccessful
<1>5. BackedInv
  BY <1>1 DEF BackedInv, ApprovalIsBacked, DepartureInv
<1>6. QED
  BY <1>3, <1>4, <1>5 DEF ReviewInv

\* Only a turn about a ticket submits anything.
LEMMA SubmitsForTicket ==
    ASSUME ShapeInv, HasResult("submit_ai_review")
    PROVE  turn.ticketId
BY DEF ShapeInv, KafkaInv, AsksFor, TypeOK, Turns

\* An approval rests on a usable ticket, clear images of the claimed damage and
\* a trusted policy, all obtained earlier in the turn, whatever failed, was
\* retried or rewritten in between (_build_ai_review_action and the retries of
\* _handle_tool_failure).
THEOREM TurnApprovesBacked == Spec => []ApprovalIsBacked
<1>1. ShapeInv /\ TicketInv => ApprovalIsBacked
  <2> SUFFICES ASSUME ShapeInv, TicketInv PROVE ApprovalIsBacked
    OBVIOUS
  <2>1. CASE HasResult("submit_ai_review")
    BY <2>1, SubmitsForTicket DEF TicketInv, ReviewInv, BackedInv
  <2>2. CASE ~HasResult("submit_ai_review")
    BY <2>2 DEF HasResult, ApprovalIsBacked
  <2>3. QED
    BY <2>1, <2>2
<1>2. QED
  BY <1>1, ShapeInit, ShapeStep, TicketInit, TicketStep, PTL DEF Spec

\* python_agent/README.md has insufficient knowledge reviewed by a human; the one
\* way a turn approves on it all the same is a second search that raises, after
\* which decide_next goes on with the first assessment.
THEOREM TurnDepartsOnlyThen == Spec => []DepartureInv
<1>1. ShapeInv /\ TicketInv => DepartureInv
  <2> SUFFICES ASSUME ShapeInv, TicketInv PROVE DepartureInv
    OBVIOUS
  <2>1. CASE HasResult("submit_ai_review")
    BY <2>1, SubmitsForTicket DEF TicketInv, ReviewInv, BackedInv
  <2>2. CASE ~HasResult("submit_ai_review")
    BY <2>2 DEF HasResult, DepartureInv
  <2>3. QED
    BY <2>1, <2>2
<1>2. QED
  BY <1>1, ShapeInit, ShapeStep, TicketInit, TicketStep, PTL DEF Spec

\* After an answered review a turn calls nothing but a human: retries and
\* resubmissions follow failures only.
THEOREM TurnReviewsOnce == Spec => []ReviewedOnce
<1>1. ShapeInv /\ TicketInv => ReviewedOnce
  <2> SUFFICES ASSUME ShapeInv, TicketInv,
                      NEW i \in OkCallsOf("submit_ai_review"), NEW j \in DOMAIN toolResults, i < j
               PROVE  toolResults[j].tool = "handoff_to_human"
    BY DEF ReviewedOnce
  <2>1. HasResult("submit_ai_review")
    BY DEF HasResult, OkCallsOf
  <2>2. OnceInv
    BY <2>1, SubmitsForTicket DEF TicketInv, ReviewInv
  <2>3. QED
    BY <2>2 DEF OnceInv
<1>2. QED
  BY <1>1, ShapeInit, ShapeStep, TicketInit, TicketStep, PTL DEF Spec
-----------------------------------------------------------------------------
(* No review is dropped.                                                    *)

\* The limits of a turn leave every rule its retries: the ticket and the
\* submission as often as duplicates are allowed, the images, the first and the
\* second search once.  MAX_AGENT_STEPS and MAX_DUPLICATE_TOOL_CALLS are set
\* apart; their defaults (8 and 2) satisfy it.
StepsSuffice == MaxSteps > 2 * MaxDuplicates + 3

\* The ticket in the state is the ticket last read.
SeenInv ==
    /\ node # "RAISED"
    /\ HasSuccessful("get_after_sales_ticket") /\ ~HasSuccessful("submit_ai_review")
    /\ ~(node = "observe_tool_result" /\ Latest.tool = "get_after_sales_ticket" /\ Latest.ok)
    => ticket = StatusOf(View)

\* Pictures and policies are looked up once, and every submission says the same:
\* with the limit on equal calls this bounds the calls of the turn.
SingleInv ==
    /\ \A tool \in {"review_images", "retrieve_knowledge"} :
           /\ \A i, j \in CallsOf(tool) : i = j
           /\ Calling(tool) => ~HasResult(tool)
    /\ \A i, j \in CallsOf("submit_ai_review") : toolResults[i].args = toolResults[j].args

\* Every call was a step and stayed within the limit on equal calls.
WithinLimits ==
    /\ steps = Len(toolResults)
    /\ \A tool \in Tools, args \in Arguments : Attempts(tool, args) <= MaxDuplicates

\* Until a call is refused every call is a step.
CountInv ==
    node \notin Closing \cup {"human_handoff"} =>
        WithinLimits \/ (Observing /\ needHuman /\ steps = MaxSteps)

\* What ReviewIsNotDropped says of the end, from the moment the turn closes.
DropInv ==
    node \in {"final_reply", "END"} /\ turn.kafka /\ ticket = "pending" =>
        \/ HasSuccessful("submit_ai_review")
        \/ HasResult("handoff_to_human")
        \/ evidenceNeeded

KeptInv == SeenInv /\ SingleInv /\ CountInv /\ DropInv

\* Within its limits a turn about a ticket cannot run out of steps.
LEMMA CallsBounded ==
    ASSUME ShapeInv, ReviewInv, SingleInv, WithinLimits, CallsOf("handoff_to_human") = {}
    PROVE  Len(toolResults) <= 2 * MaxDuplicates + 3
<1>0. /\ toolResults \in Seq(ToolResult) /\ MaxDuplicates \in Nat /\ Len(toolResults) \in Nat
      /\ DOMAIN toolResults = 1 .. Len(toolResults)
  BY LimitsAreCounts DEF ShapeInv, TypeOK, ToolResult
<1> DEFINE get == CallsOf("get_after_sales_ticket")
           images == CallsOf("review_images")
           first == CallsOf("retrieve_knowledge")
           second == CallsOf("retrieve_knowledge_multi")
           submit == CallsOf("submit_ai_review")
<1>1. IsFiniteSet(get) /\ Cardinality(get) <= MaxDuplicates
  <2>1. get = {i \in get : toolResults[i].args = "own"}
    BY DEF ReviewInv, KindInv
  <2>2. Cardinality(get) = Attempts("get_after_sales_ticket", "own")
    BY <2>1 DEF Attempts
  <2>3. QED
    BY <1>0, <2>2, CallsFinite DEF WithinLimits, Tools, Arguments
<1>2. IsFiniteSet(submit) /\ Cardinality(submit) <= MaxDuplicates
  <2>1. CASE submit = {}
    <3>1. IsFiniteSet(submit) /\ Cardinality(submit) = 0
      BY <2>1, FS_EmptySet, Zenon
    <3>2. QED
      BY <1>0, <3>1
  <2>2. CASE submit # {}
    <3>1. PICK i \in submit : TRUE
      BY <2>2
    <3>2. PICK args \in Arguments : args = toolResults[i].args
      BY <1>0, <3>1, Positions DEF ToolResult
    <3>3. submit = {j \in submit : toolResults[j].args = args}
      BY <3>1, <3>2 DEF SingleInv
    <3>4. Cardinality(submit) = Attempts("submit_ai_review", args)
      BY <3>3 DEF Attempts
    <3>5. QED
      BY <1>0, <3>2, <3>4, CallsFinite DEF WithinLimits, Tools
  <2>3. QED
    BY <2>1, <2>2
<1>3. /\ IsFiniteSet(images) /\ Cardinality(images) <= 1
      /\ IsFiniteSet(first) /\ Cardinality(first) <= 1
      /\ IsFiniteSet(second) /\ Cardinality(second) <= 1
  <2>1. /\ \A i, j \in images : i = j
        /\ \A i, j \in first : i = j
        /\ \A i, j \in second : i = j
    BY DEF SingleInv, ShapeInv, RewriteInv
  <2>2. QED
    BY <2>1, AtMostOne
<1>4. 1 .. Len(toolResults) = ((get \cup submit) \cup images) \cup (first \cup second)
  <2>1. \A i \in 1 .. Len(toolResults) : toolResults[i].tool \in TicketTools
    BY <1>0 DEF ReviewInv, KindInv, CallsOf
  <2>2. QED
    BY <1>0, <2>1 DEF TicketTools, CallsOf
<1>5. Cardinality(1 .. Len(toolResults)) = Len(toolResults)
  <2>1. 1 \in Int /\ Len(toolResults) \in Int
    BY <1>0
  <2>2. Cardinality(1 .. Len(toolResults)) =
            IF 1 > Len(toolResults) THEN 0 ELSE Len(toolResults) - 1 + 1
    BY <2>1, FS_Interval, Zenon
  <2>3. QED
    BY <1>0, <2>2
<1> HIDE DEF get, images, first, second, submit
<1>6. /\ IsFiniteSet(get \cup submit)
      /\ Cardinality(get \cup submit) <= MaxDuplicates + MaxDuplicates
  BY <1>0, <1>1, <1>2, UnionBound
<1>7. /\ IsFiniteSet((get \cup submit) \cup images)
      /\ Cardinality((get \cup submit) \cup images) <= MaxDuplicates + MaxDuplicates + 1
  <2>1. MaxDuplicates + MaxDuplicates \in Nat /\ 1 \in Nat
    BY <1>0
  <2>2. QED
    BY <1>3, <1>6, <2>1, UnionBound
<1>8. IsFiniteSet(first \cup second) /\ Cardinality(first \cup second) <= 2
  <2>1. IsFiniteSet(first \cup second) /\ Cardinality(first \cup second) <= 1 + 1
    BY <1>3, UnionBound
  <2>2. QED
    BY <2>1
<1>9. Cardinality(((get \cup submit) \cup images) \cup (first \cup second))
          <= MaxDuplicates + MaxDuplicates + 1 + 2
  <2>1. MaxDuplicates + MaxDuplicates + 1 \in Nat /\ 2 \in Nat
    BY <1>0
  <2>2. QED
    BY <1>7, <1>8, <2>1, UnionBound
<1>10. Len(toolResults) <= MaxDuplicates + MaxDuplicates + 1 + 2
  BY <1>4, <1>5, <1>9, Zenon
<1>11. MaxDuplicates \in Nat /\ Len(toolResults) \in Nat
  BY <1>0
<1>12. QED
  BY <1>10, <1>11

\* Steps without a call and without a decision. Stopping at MaxSteps is the one that
\* could drop a review: within its limits a turn does not get there.
LEMMA KeptIdle ==
    ASSUME StepsSuffice, ShapeInv, ReviewInv, KeptInv,
           ReceiveMessage \/ SkipPlan \/ StopAtMaxSteps \/ FinalReply
    PROVE  KeptInv'
<1> USE HistoryKept
<1>0. /\ SeenInv /\ SingleInv /\ CountInv /\ DropInv
      /\ node \notin {"observe_tool_result", "RAISED"} /\ node' \notin {"observe_tool_result", "tool_call"}
      /\ UNCHANGED <<turn, toolResults, steps, ticket, needHuman, evidenceNeeded>>
  BY DEF KeptInv, ReceiveMessage, SkipPlan, StopAtMaxSteps, FinalReply
<1>1. SeenInv'
  BY <1>0 DEF SeenInv, View
<1>2. SingleInv'
  BY <1>0 DEF SingleInv, Calling
<1>3. CountInv'
  <2>1. CASE ReceiveMessage
    <3>1. WithinLimits
      BY <1>0, <2>1 DEF CountInv, ReceiveMessage, Closing, Observing
    <3>2. WithinLimits'
      BY <1>0, <3>1 DEF WithinLimits, Attempts
    <3>3. QED
      BY <3>2 DEF CountInv
  <2>2. CASE SkipPlan \/ StopAtMaxSteps \/ FinalReply
    BY <2>2 DEF SkipPlan, StopAtMaxSteps, FinalReply, CountInv, Closing
  <2>3. QED
    BY <2>1, <2>2
<1>4. DropInv'
  <2>1. CASE ReceiveMessage
    BY <2>1 DEF ReceiveMessage, DropInv, Closing
  <2>2. CASE SkipPlan
    <3>1. ticket = "none"
      BY <2>2 DEF SkipPlan, ShapeInv, NodeInv
    <3>2. QED
      BY <1>0, <3>1 DEF DropInv
  <2>3. CASE StopAtMaxSteps
    <3>1. node = "decide_next" /\ steps >= MaxSteps
          /\ node' = IF needHuman THEN "human_handoff" ELSE "final_reply"
      BY <2>3 DEF StopAtMaxSteps
    <3>2. CASE needHuman
      BY <3>1, <3>2 DEF DropInv, Closing
    <3>3. CASE ~needHuman
      <4>1. WithinLimits /\ CallsOf("handoff_to_human") = {}
        BY <1>0, <3>1, <3>3 DEF CountInv, Closing, ShapeInv, NodeInv
      <4>2. Len(toolResults) <= 2 * MaxDuplicates + 3
        BY <1>0, <4>1, CallsBounded
      <4>3. steps = Len(toolResults) /\ MaxSteps \in Nat /\ MaxDuplicates \in Nat /\ Len(toolResults) \in Nat
        BY <4>1, LimitsAreCounts DEF WithinLimits, ShapeInv, TypeOK
      <4>4. FALSE
        BY <3>1, <4>2, <4>3 DEF StepsSuffice
      <4>5. QED
        BY <4>4
    <3>4. QED
      BY <3>2, <3>3
  <2>4. CASE FinalReply
    BY <1>0, <2>4 DEF FinalReply, DropInv, Closing
  <2>5. QED
    BY <2>1, <2>2, <2>3, <2>4
<1>5. QED
  BY <1>1, <1>2, <1>3, <1>4 DEF KeptInv

\* The error of the recursion limit leaves nothing to keep but the calls.
LEMMA KeptRaised ==
    ASSUME KeptInv, RecursionError
    PROVE  KeptInv'
<1> USE HistoryKept
<1>0. SingleInv /\ node' = "RAISED" /\ toolResults' = toolResults
  BY DEF KeptInv, RecursionError
<1>1. SeenInv' /\ CountInv' /\ DropInv'
  BY <1>0 DEF SeenInv, CountInv, DropInv, Closing
<1>2. SingleInv'
  BY <1>0 DEF SingleInv, Calling
<1>3. QED
  BY <1>1, <1>2 DEF KeptInv

(* The latest of a set of positions is the top one when the set holds it. *)
LEMMA LastIsTop ==
    ASSUME NEW n \in Nat, NEW S \in SUBSET (1 .. n), n \in S
    PROVE  (CHOOSE i \in S : \A j \in S : j <= i) = n
<1>1. \A j \in S : j <= n
  OBVIOUS
<1>2. \A i \in S : (\A j \in S : j <= i) => i = n
  OBVIOUS
<1>3. QED
  BY <1>1, <1>2

\* The ticket in the state becomes the one just read.
LEMMA KeptObserve ==
    ASSUME ShapeInv, ReviewInv, KeptInv, ObserveToolResult
    PROVE  KeptInv'
<1> USE HistoryKept
<1>0. /\ SeenInv /\ SingleInv /\ CountInv /\ toolResults \in Seq(ToolResult)
      /\ node = "observe_tool_result" /\ node' = "decide_next" /\ Observing /\ Observing'
      /\ UNCHANGED <<turn, toolResults, steps, needHuman, evidenceNeeded>>
      /\ ticket' = IF Latest.ok /\ Latest.tool = "get_after_sales_ticket" THEN StatusOf(Latest.data)
                   ELSE IF Latest.ok /\ Latest.tool = "submit_ai_review" THEN Latest.data ELSE ticket
  BY DEF KeptInv, ObserveToolResult, Observing, ShapeInv, TypeOK, ToolResult
<1>1. SeenInv'
  <2> SUFFICES ASSUME HasSuccessful("get_after_sales_ticket"), ~HasSuccessful("submit_ai_review")
               PROVE  ticket' = StatusOf(View)
    BY <1>0 DEF SeenInv, View
  <2>1. ~(Latest.ok /\ Latest.tool = "submit_ai_review")
    BY <1>0, LatestCall
  <2>2. CASE Latest.ok /\ Latest.tool = "get_after_sales_ticket"
    <3> DEFINE last(S) == CHOOSE i \in S : \A j \in S : j <= i
               S == OkCallsOf("get_after_sales_ticket")
    <3>1. Len(toolResults) \in S /\ S \subseteq 1 .. Len(toolResults) /\ Len(toolResults) \in Nat
      BY <1>0, <2>2, LatestCall, Positions DEF OkCallsOf, CallsOf
    <3>2. last(S) = Len(toolResults)
      BY <3>1, LastIsTop
    <3>3. View = toolResults[last(S)].data
      BY DEF View, LatestData
    <3>4. View = Latest.data
      BY <3>2, <3>3 DEF Latest
    <3>5. QED
      BY <1>0, <2>2, <3>4
  <2>3. CASE ~(Latest.ok /\ Latest.tool = "get_after_sales_ticket")
    BY <1>0, <2>1, <2>3 DEF SeenInv
  <2>4. QED
    BY <2>2, <2>3
<1>2. SingleInv'
  BY <1>0 DEF SingleInv, Calling
<1>3. CountInv'
  <2>1. WithinLimits => WithinLimits'
    BY <1>0 DEF WithinLimits, Attempts
  <2>2. QED
    BY <1>0, <2>1 DEF CountInv, Closing
<1>4. DropInv'
  BY <1>0 DEF DropInv, Closing
<1>5. QED
  BY <1>1, <1>2, <1>3, <1>4 DEF KeptInv

\* A call within the limits is a step and an attempt; a refused one calls a human.
LEMMA KeptCall ==
    ASSUME ShapeInv, ReviewInv, KeptInv, ToolCall \/ RefuseToolCall
    PROVE  KeptInv'
<1>0. /\ SeenInv /\ SingleInv /\ CountInv /\ toolResults \in Seq(ToolResult)
      /\ node = "tool_call" /\ node' = "observe_tool_result" /\ ~Observing /\ Observing'
      /\ \A tool : ~Calling(tool)'
      /\ UNCHANGED <<turn, ticket>> /\ next.tool \in Tools /\ next.args \in Arguments
      /\ OrderInv /\ FailedInv /\ OnceInv /\ DueInv
  BY DEF KeptInv, ReviewInv, ShapeInv, TypeOK, NodeInv, ToolResult, Calling, Observing, ToolCall,
         RefuseToolCall, CallTools
<1>1. PICK r \in ToolResult : /\ r.tool = next.tool /\ r.args = next.args /\ Sound(r)
                              /\ toolResults' = Append(toolResults, r)
  <2>1. CASE ToolCall
    BY <1>0, <2>1, Outcome DEF ToolCall
  <2>2. CASE RefuseToolCall
    BY <1>0, <2>2, Refused DEF RefuseToolCall
  <2>3. QED
    BY <2>1, <2>2
<1> DEFINE n == Len(toolResults) + 1
<1>2. /\ Calling(r.tool) /\ Latest' = r /\ toolResults'[n] = r
      /\ \A i \in DOMAIN toolResults : toolResults'[i] = toolResults[i]
      /\ \A tool : CallsOf(tool) \subseteq DOMAIN toolResults
  BY <1>0, <1>1, Appended, Positions DEF Calling
<1>3. ASSUME NEW tool
      PROVE  CallsOf(tool)' = IF r.tool = tool THEN CallsOf(tool) \cup {n} ELSE CallsOf(tool)
  BY <1>0, <1>1, CallsGrow, Zenon
<1>4. Len(toolResults') = n
  BY <1>0, <1>1, Appended
<1> HIDE DEF n
<1>5. SeenInv'
  <2> SUFFICES ASSUME HasSuccessful("get_after_sales_ticket")', ~HasSuccessful("submit_ai_review")',
                      ~(r.tool = "get_after_sales_ticket" /\ r.ok)
               PROVE  ticket = StatusOf(View)'
    BY <1>0, <1>2 DEF SeenInv, StatusOf
  <2>1. OkCallsOf("get_after_sales_ticket")' = OkCallsOf("get_after_sales_ticket")
    BY <1>0, <1>1, CallsGrow DEF Succeeded
  <2>2. HasSuccessful("get_after_sales_ticket")
    BY <2>1 DEF HasSuccessful
  <2>3. View' = View
    BY <1>0, <1>1, <2>2, LatestDataGrows DEF View, HasSuccessful, Succeeded
  <2>4. ~HasSuccessful("submit_ai_review")
    BY <1>0 DEF OnceInv
  <2>5. QED
    BY <1>0, <2>2, <2>3, <2>4 DEF SeenInv, StatusOf
<1>6. SingleInv'
  <2>1. ASSUME NEW tool \in {"review_images", "retrieve_knowledge"},
               NEW i \in CallsOf(tool)', NEW j \in CallsOf(tool)'
        PROVE  i = j
    <3>1. CASE r.tool = tool
      <4>1. CallsOf(tool) = {}
        BY <1>0, <1>2, <3>1 DEF SingleInv, HasResult
      <4>2. QED
        BY <1>3, <3>1, <4>1
    <3>2. CASE r.tool # tool
      BY <1>0, <1>3, <3>2 DEF SingleInv
    <3>3. QED
      BY <3>1, <3>2
  <2>2. ASSUME NEW i \in CallsOf("submit_ai_review")', NEW j \in CallsOf("submit_ai_review")'
        PROVE  toolResults'[i].args = toolResults'[j].args
    <3>1. CASE r.tool = "submit_ai_review"
      <4>1. \A k \in CallsOf("submit_ai_review") : toolResults[k].args = r.args
        BY <1>0, <1>1, <1>2, <3>1 DEF FailedInv, DueInv, AsksFor
      <4>2. \A k \in CallsOf("submit_ai_review")' : toolResults'[k].args = r.args
        BY <1>2, <1>3, <3>1, <4>1
      <4>3. QED
        BY <4>2
    <3>2. CASE r.tool # "submit_ai_review"
      BY <1>0, <1>2, <1>3, <3>2 DEF SingleInv
    <3>3. QED
      BY <3>1, <3>2
  <2>3. QED
    BY <1>0, <2>1, <2>2 DEF SingleInv
<1>7. CountInv'
  <2>1. WithinLimits
    BY <1>0 DEF CountInv, Closing
  <2>2. CASE ToolCall
    <3>1. steps' = Len(toolResults')
      BY <1>4, <2>1, <2>2 DEF ToolCall, WithinLimits, n
    <3>2. ~(Attempts(r.tool, r.args) >= MaxDuplicates)
      BY <1>1, <2>2 DEF ToolCall, LimitReached
    <3>3. ASSUME NEW tool \in Tools, NEW args \in Arguments
          PROVE  Attempts(tool, args)' <= MaxDuplicates
      <4>1. Attempts(tool, args) \in Nat /\ MaxDuplicates \in Nat
        BY <1>0, CallsFinite, LimitsAreCounts
      <4>2. Attempts(tool, args) <= MaxDuplicates
        BY <2>1 DEF WithinLimits
      <4>3. Attempts(tool, args)' = IF r.tool = tool /\ r.args = args
                                    THEN Attempts(tool, args) + 1 ELSE Attempts(tool, args)
        BY <1>0, <1>1, AttemptsGrow
      <4>4. QED
        BY <3>2, <4>1, <4>2, <4>3
    <3>4. QED
      BY <3>1, <3>3 DEF CountInv, WithinLimits
  <2>3. CASE RefuseToolCall
    <3>1. steps' = MaxSteps /\ needHuman'
      BY <2>3 DEF RefuseToolCall
    <3>2. QED
      BY <1>0, <3>1 DEF CountInv
  <2>4. QED
    BY <2>2, <2>3
<1>8. DropInv'
  BY <1>0 DEF DropInv, Closing
<1>9. QED
  BY <1>5, <1>6, <1>7, <1>8 DEF KeptInv

\* After a hand-off nothing is dropped.
LEMMA KeptHandoff ==
    ASSUME ShapeInv, ReviewInv, KeptInv, HumanHandoff
    PROVE  KeptInv'
<1>0. /\ SeenInv /\ SingleInv /\ toolResults \in Seq(ToolResult)
      /\ node = "human_handoff" /\ node' = "final_reply" /\ \A tool : ~Calling(tool)'
      /\ UNCHANGED <<turn, ticket>>
  BY DEF KeptInv, ShapeInv, TypeOK, ToolResult, HumanHandoff, Calling
<1>1. PICK r \in ToolResult : /\ r.tool = "handoff_to_human"
                              /\ toolResults' = Append(toolResults, r)
  BY Outcome DEF HumanHandoff, Tools, Arguments
<1>2. ASSUME NEW tool, tool # "handoff_to_human"
      PROVE  /\ CallsOf(tool)' = CallsOf(tool)
             /\ HasSuccessful(tool)' <=> HasSuccessful(tool)
             /\ HasSuccessful(tool) => LatestData(tool)' = LatestData(tool)
             /\ \A i \in CallsOf(tool) : toolResults'[i] = toolResults[i]
  BY <1>0, <1>1, <1>2, Unaffected, Appended, Positions
<1>3. SeenInv'
  BY <1>0, <1>2 DEF SeenInv, View, StatusOf
<1>4. SingleInv'
  BY <1>0, <1>2 DEF SingleInv
<1>5. CountInv'
  BY <1>0 DEF CountInv, Closing
<1>6. HasResult("handoff_to_human")'
  BY <1>0, <1>1, CallsGrow DEF HasResult
<1>7. QED
  BY <1>3, <1>4, <1>5, <1>6 DEF KeptInv, DropInv

\* A decision to reply is taken only on a ticket that needs no review, after one, or
\* with a request for evidence.
LEMMA KeptDecision ==
    ASSUME ShapeInv, ReviewInv, KeptInv, node \in Deciding,
           node = "decide_next" => steps < MaxSteps,
           NEW d, ReviewChoice(d), UNCHANGED <<turn, toolResults, steps, ticket>>
    PROVE  KeptInv'
<1> USE HistoryKept
<1>0. /\ SeenInv /\ SingleInv /\ CountInv /\ DropInv /\ TypeOK
      /\ Sane(d) /\ ApplyAction(d) /\ TicketChoice(d, submitFailed') /\ FinalChoice(d)
      /\ node # "observe_tool_result" /\ node # "RAISED" /\ node \notin Closing \cup {"human_handoff"}
  BY DEF KeptInv, ReviewChoice, ShapeInv, Deciding, Closing
<1>1. /\ node' \in {"tool_call", "human_handoff", "final_reply"}
      /\ node' = "tool_call" => d.action = "tool_call" /\ next'.tool = d.tool
  BY <1>0, Applied
<1>2. SeenInv'
  BY <1>0, <1>1 DEF SeenInv, View, StatusOf
<1>3. SingleInv'
  BY <1>0, <1>1 DEF SingleInv, Calling, TicketChoice
<1>4. CountInv'
  <2>1. WithinLimits
    BY <1>0, LimitsAreCounts DEF CountInv, Deciding, Observing
  <2>2. WithinLimits'
    BY <2>1 DEF WithinLimits, Attempts
  <2>3. QED
    BY <2>2 DEF CountInv
<1>5. DropInv'
  <2> SUFFICES ASSUME node' = "final_reply", turn.kafka, ticket = "pending"
               PROVE  HasSuccessful("submit_ai_review") \/ evidenceNeeded'
    BY <1>1 DEF DropInv, Closing
  <2>1. d.action = "final_reply" /\ (d.evidence = "some" => evidenceNeeded')
    BY <1>0, AppliedTo
  <2>2. HasSuccessful("get_after_sales_ticket") /\ StatusOf(View) # "pending" =>
            HasSuccessful("submit_ai_review")
    BY <1>0 DEF SeenInv
  <2>3. QED
    BY <1>0, <2>1, <2>2 DEF FinalChoice
<1>6. QED
  BY <1>2, <1>3, <1>4, <1>5 DEF KeptInv

\* The three invariants are inductive together for a turn about a ticket.
LEMMA KeptStep ==
    StepsSuffice =>
        (ShapeInv /\ TicketInv /\ (turn.ticketId => KeptInv) /\ [Next]_vars
            => (turn.ticketId => KeptInv)')
<1> SUFFICES ASSUME StepsSuffice, ShapeInv, TicketInv, turn.ticketId => KeptInv, [Next]_vars,
                    turn'.ticketId
             PROVE  KeptInv'
  OBVIOUS
<1>1. turn' = turn
  BY DEF Next, RunNode, ReceiveMessage, SkipPlan, ClassifyOrPlan, ToolCall, RefuseToolCall,
         ObserveToolResult, StopAtMaxSteps, DecideAfterFailure, DecideWithoutOrder, DecideNext,
         HumanHandoff, FinalReply, RecursionError, vars
<1>2. ReviewInv /\ turn.ticketId /\ KeptInv
  BY <1>1 DEF TicketInv
<1>3. CASE ReceiveMessage \/ SkipPlan \/ StopAtMaxSteps \/ FinalReply
  BY <1>2, <1>3, KeptIdle
<1>4. CASE ClassifyOrPlan \/ DecideAfterFailure \/ DecideWithoutOrder \/ DecideNext
  <2>1. PICK d : ReviewChoice(d)
    BY <1>2, <1>4, ReviewChoices
  <2>2. /\ node \in Deciding /\ UNCHANGED <<turn, toolResults, steps, ticket>>
        /\ node = "decide_next" => steps < MaxSteps
    BY <1>4 DEF ClassifyOrPlan, DecideAfterFailure, DecideWithoutOrder, DecideNext, Deciding
  <2>3. QED
    BY <1>2, <2>1, <2>2, KeptDecision
<1>5. CASE ToolCall \/ RefuseToolCall
  BY <1>2, <1>5, KeptCall
<1>6. CASE ObserveToolResult
  BY <1>2, <1>6, KeptObserve
<1>7. CASE HumanHandoff
  BY <1>2, <1>7, KeptHandoff
<1>8. CASE UNCHANGED vars
  <2>1. SeenInv' /\ SingleInv' /\ DropInv'
    BY <1>2, <1>8, HistoryKept DEF vars, KeptInv, SeenInv, SingleInv, DropInv, View, StatusOf, Calling
  <2>2. CountInv'
    BY <1>2, <1>8, HistoryKept DEF vars, KeptInv, CountInv, WithinLimits, Attempts, Observing
  <2>3. QED
    BY <2>1, <2>2 DEF KeptInv
<1>9. CASE RecursionError
  BY <1>2, <1>9, KeptRaised
<1>10. QED
  BY <1>3, <1>4, <1>5, <1>6, <1>7, <1>8, <1>9 DEF Next, RunNode

\* A turn begins with no call made.
LEMMA KeptInit == Init => KeptInv
<1> SUFFICES ASSUME Init PROVE KeptInv
  OBVIOUS
<1>1. /\ toolResults = <<>> /\ node = "receive_message" /\ steps = 0
      /\ \A tool : CallsOf(tool) = {} /\ OkCallsOf(tool) = {}
  BY DEF Init, CallsOf, OkCallsOf
<1>2. SeenInv /\ SingleInv /\ DropInv
  BY <1>1 DEF SeenInv, SingleInv, DropInv, HasSuccessful, Calling, Closing
<1>3. WithinLimits
  <2>1. \A tool, args : Attempts(tool, args) = 0
    <3>1. \A tool, args : {i \in CallsOf(tool) : toolResults[i].args = args} = {}
      BY <1>1
    <3>2. Cardinality({}) = 0
      BY FS_EmptySet, Zenon
    <3>3. QED
      BY <3>1, <3>2 DEF Attempts
  <2>2. Len(toolResults) = 0
    BY <1>1
  <2>3. QED
    BY <1>1, <2>1, <2>2, LimitsAreCounts DEF WithinLimits
<1>4. QED
  BY <1>2, <1>3 DEF KeptInv, CountInv

\* A turn that came over Kafka for a ticket it saw pending is over with an answered
\* review, a called human or a request for evidence, as long as the limits of the
\* turn leave room for its retries: then _decide_next stops at MAX_AGENT_STEPS
\* only after a refused call, which calls a human.  The turns the recursion limit
\* cuts off are excepted, which made all the calls MAX_AGENT_STEPS allows.
THEOREM TurnKeepsReview ==
    StepsSuffice /\ LimitSuffices => (Spec => []ReviewIsNotDropped)
<1> SUFFICES ASSUME StepsSuffice, LimitSuffices PROVE Spec => []ReviewIsNotDropped
  OBVIOUS
<1>1. ShapeInv /\ PaceInv /\ TicketInv /\ (turn.ticketId => KeptInv) => ReviewIsNotDropped
  <2> SUFFICES ASSUME ShapeInv, turn.ticketId => KeptInv, PaceInv,
                      node = "END", turn.kafka, ticket = "pending"
               PROVE  \/ HasSuccessful("submit_ai_review")
                      \/ HasResult("handoff_to_human")
                      \/ evidenceNeeded
    BY DEF ReviewIsNotDropped, Over, PaceInv, CutOff
  <2>1. turn.ticketId
    BY DEF ShapeInv, TypeOK, Turns
  <2>2. QED
    BY <2>1 DEF KeptInv, DropInv
<1>2. Init => (turn.ticketId => KeptInv)
  BY KeptInit
<1>3. ShapeInv /\ TicketInv /\ (turn.ticketId => KeptInv) /\ [Next]_vars => (turn.ticketId => KeptInv)'
  BY KeptStep
<1>4. QED
  BY <1>1, <1>2, <1>3, ShapeInit, ShapeStep, PaceInit, PaceStep, TicketInit, TicketStep, PTL DEF Spec
=============================================================================
