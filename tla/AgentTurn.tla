----------------------------- MODULE AgentTurn -----------------------------
(***************************************************************************)
(* One turn of the graph LangGraphAfterSalesAgent compiles                 *)
(* (application/after_sales_workflow.py): each node of the graph is an     *)
(* action.  The language model, the Java tools, image review and knowledge *)
(* search answer with any outcome the tool registry and the                *)
(* function-calling adapter let through.  With a linked ticket the nodes   *)
(* review it and submit a verdict; without one they only advise.           *)
(***************************************************************************)
EXTENDS Naturals, Sequences, FiniteSets

CONSTANTS MaxSteps,        \* MAX_AGENT_STEPS
          MaxToolCalls,    \* MAX_TOOL_CALLS
          MaxDuplicates,   \* MAX_DUPLICATE_TOOL_CALLS
          FastRetries,     \* AI_REVIEW_FAST_RETRY_MAX_ATTEMPTS, 0 when retries are disabled
          RecursionLimit,  \* nodes one graph.invoke may run, 25 by LangGraph's default
          MaxFailures      \* bound of the model: calls of one turn that may fail

ASSUME LimitsAreCounts ==
    /\ MaxSteps \in Nat /\ MaxToolCalls \in Nat /\ MaxDuplicates \in Nat
    /\ FastRetries \in Nat /\ RecursionLimit \in Nat /\ MaxFailures \in Nat

VARIABLES
    turn,           \* what the caller sent; never changes
    node,           \* the node of the graph that runs next
    visited,        \* nodes the graph has run
    toolResults,    \* tool_results: every tool call of the turn, in order
    steps,
    next,           \* next_action, tool_name and tool_arguments
    assistantReply, \* what the reply says, as far as a property tells replies apart
    needHuman,
    evidenceNeeded, \* evidence_needed is not empty
    attachments,    \* the turn has images, sent by the user or found on the ticket
    ticket,         \* status of state["ticket"]
    submitFailed,   \* review_result carries submit_failed
    rewriteCompleted,
    assessment,     \* last assessment of the retrieved knowledge
    sessionMode

vars == <<turn, node, visited, toolResults, steps, next, assistantReply, needHuman, evidenceNeeded,
          attachments, ticket, submitFailed, rewriteCompleted, assessment, sessionMode>>

Nodes == {"receive_message", "classify_or_plan", "tool_call", "observe_tool_result",
          "decide_next", "human_handoff", "final_reply"}

\* The turn is over: at the end of the graph or by a GraphRecursionError, which
\* leaves neither a reply nor a trace.
Over == {"END", "RAISED"}

Tools == {"search_user_orders", "get_order_detail", "get_existing_after_sales",
          "get_after_sales_ticket", "get_merchant_policy", "retrieve_knowledge",
          "retrieve_knowledge_multi", "review_images", "submit_ai_review",
          "append_chat_message", "request_missing_evidence", "handoff_to_human"}

\* Functions the model may choose by itself; handoff_to_human and final_reply
\* become actions of their own.
ModelTools == Tools \ {"retrieve_knowledge_multi", "handoff_to_human"}

NoTool == "none"
Replies == {"none", "plain", "claimsReviewed", "handedOver", "reviewedAndHandedOver", "notHandedOver"}

\* Arguments of a call, as far as decisions and the duplicate guard look at
\* them: who composed them and, for a review, the verdict.
Arguments == {"none", "own", "model", "approve", "manual", "manualUncertain"}

\* A decision, before _apply_action: a missing evidence_needed keeps the old one.
Decisions == [action : {"tool_call", "human_handoff", "final_reply"},
              tool : Tools \cup {NoTool}, args : Arguments, reply : Replies,
              human : BOOLEAN, evidence : {"some", "none", "keep"}]

Decision(action, tool, args, reply, human, evidence) ==
    [action |-> action, tool |-> tool, args |-> args, reply |-> reply, human |-> human,
     evidence |-> evidence]

Call(tool, args) == Decision("tool_call", tool, args, "none", FALSE, "none")
KeepingCall(tool, args) == Decision("tool_call", tool, args, "none", FALSE, "keep")
HandOff(reply, evidence) == Decision("human_handoff", NoTool, "none", reply, TRUE, evidence)
Reply(reply, human, evidence) == Decision("final_reply", NoTool, "none", reply, human, evidence)

\* The None of a rule that leaves the decision to the next one.
NoDecision == Decision("none", NoTool, "none", "none", FALSE, "keep")

-----------------------------------------------------------------------------
(* What the tools may answer.                                               *)

\* A ticket as a decision reads it: no longer pending, or pending and, the
\* strictest first, without application date, without policy version, risky
\* (amount above the limit, an image sent twice, an upset user), or usable.
TicketViews == {"undated", "unversioned", "risky", "usable", "done", "closed"}
\* Mutant of StatusOf: the ticket as read is stored for its status.
RawView(view) == view

StatusOf(view) == IF view \in {"done", "closed"} THEN view ELSE "pending"

\* clear: damage seen with enough confidence; unsure: damage seen, too little
\* confidence; missing: damage not seen and named as missing; nothing: not seen.
ImageReviews == {"clear", "unsure", "missing", "nothing", "failed"}
\* trusted: some hit passes every test of _trusted_policy_hits.
Knowledge == {"trusted", "weak", "infrastructureFailure"}

\* A review Java answered for: applied with its verdict, or not applied because
\* the ticket had moved on.  The status is that of the row after the call.
ReviewAnswers == {"done", "pending", "closed"}

Data(tool) ==
    CASE tool = "search_user_orders" -> {"noOrder", "oneOrder", "manyOrders"}
      [] tool = "get_after_sales_ticket" -> TicketViews
      [] tool = "review_images" -> ImageReviews
      [] tool \in {"retrieve_knowledge", "retrieve_knowledge_multi"} -> Knowledge
      [] tool = "submit_ai_review" -> ReviewAnswers
      [] tool = "handoff_to_human" -> {"waiting", "unconfirmed"}
      [] OTHER -> {"data"}

\* Classes of error the agent tells apart.  unavailable: a timeout or an outage;
\* refused: validation, not_found, permission; tool_error: any other exception.
\* Tools that run in the agent's own process never raise JavaToolError.
Errors(tool) ==
    IF tool \in {"review_images", "retrieve_knowledge", "retrieve_knowledge_multi"}
    THEN {"refused", "tool_error"}
    ELSE {"unavailable", "refused", "tool_error"}

\* Without the id a tool needs, the registry raises ValueError before any call.
LacksId(tool) ==
    \/ tool \in {"get_after_sales_ticket", "submit_ai_review"} /\ ~turn.ticketId
    \/ tool \in {"get_order_detail", "get_existing_after_sales"} /\ ~turn.orderHint

Result(tool, args, error, data) ==
    [tool |-> tool, args |-> args, ok |-> error = "none", error |-> error, data |-> data]

Failures == Cardinality({i \in DOMAIN toolResults : ~toolResults[i].ok})
Outcomes(tool, args) ==
    IF LacksId(tool)
    THEN {Result(tool, args, "refused", "none")}
    ELSE {Result(tool, args, "none", d) : d \in Data(tool)}
         \cup {Result(tool, args, e, "none") :
                  e \in IF Failures < MaxFailures THEN Errors(tool) ELSE {}}

\* What the model may decide: nothing usable (LLMError or a protocol error,
\* also when native function calling is disabled), a tool, a hand-off, a reply.
ModelReplies == {"none", "plain", "claimsReviewed"}
ModelDecisions ==
    {KeepingCall(t, "model") : t \in ModelTools}
    \cup {HandOff(r, "keep") : r \in ModelReplies}
    \cup {Reply(r, h, "keep") : r \in ModelReplies, h \in BOOLEAN}
FailClosed == Decision("none", NoTool, "none", "plain", FALSE, "keep")
\* What the words of the conversation claim about the goods.
Claims == {"nothing", "damage", "fault"}
\* Whether evidence is left to ask for.
EvidenceNeeds == {"some", "none"}

\* A turn about a ticket reads neither the order the message names nor a wish
\* for a human; one without a ticket reads no claims and never comes over Kafka.
\* An empty text matters only without images.
Turns ==
    {t \in [text : {"empty", "short", "long"}, images : {"none", "sent", "onTicket"}, ticketId : BOOLEAN,
            orderHint : BOOLEAN, kafka : BOOLEAN, claims : Claims,
            asksHuman : BOOLEAN] :
        /\ t.text = "empty" => t.images # "sent"
        /\ IF t.ticketId THEN t.text # "long" /\ ~t.orderHint /\ ~t.asksHuman
                         ELSE t.images # "onTicket" /\ t.claims = "nothing" /\ ~t.kafka}

NoCall == [action |-> "none", tool |-> NoTool, args |-> "none"]

Init ==
    /\ turn \in Turns
    /\ node = "receive_message"
    /\ visited = 0
    /\ toolResults = <<>>
    /\ steps = 0
    /\ next = NoCall
    /\ assistantReply = "none"
    /\ needHuman = FALSE
    /\ evidenceNeeded = FALSE
    /\ attachments = (turn.images = "sent")
    /\ ticket = "none"
    /\ submitFailed = FALSE
    /\ rewriteCompleted = FALSE
    /\ assessment = "none"
    /\ sessionMode = "AI"

-----------------------------------------------------------------------------
(* What a decision reads from the calls made so far.                        *)

CallsOf(tool) == {i \in DOMAIN toolResults : toolResults[i].tool = tool}
\* Mutant of Succeeded: a hand-off counts whatever Java answers.
Answered(result) == result.ok

\* A hand-off counts only when Java answers with a waiting human session.
Succeeded(result) == result.ok /\ (result.tool = "handoff_to_human" => result.data = "waiting")
OkCallsOf(tool) == {i \in CallsOf(tool) : Succeeded(toolResults[i])}
\* Mutant of HasSuccessful: an answered review is not remembered.
HasSuccessfulRead(tool) == tool # "submit_ai_review" /\ OkCallsOf(tool) # {}

HasSuccessful(tool) == OkCallsOf(tool) # {}
HasResult(tool) == CallsOf(tool) # {}
LatestData(tool) ==
    LET last == CHOOSE i \in OkCallsOf(tool) : \A j \in OkCallsOf(tool) : j <= i
    IN toolResults[last].data
Attempts(tool, args) == Cardinality({i \in CallsOf(tool) : toolResults[i].args = args})
Latest == toolResults[Len(toolResults)]

HasSelectedOrder ==
    \/ HasSuccessful("get_order_detail")
    \/ HasSuccessful("search_user_orders") /\ LatestData("search_user_orders") = "oneOrder"

\* The best retrieval result is a trusted one if any is.
TrustedPolicy ==
    \E i \in OkCallsOf("retrieve_knowledge") \cup OkCallsOf("retrieve_knowledge_multi") :
        toolResults[i].data = "trusted"

ImagesShow(outcomes) ==
    HasSuccessful("review_images") /\ LatestData("review_images") \in outcomes

EvidenceConsistent == turn.claims = "damage" /\ ImagesShow({"clear", "unsure"})

VisualUncertain ==
    /\ attachments
    /\ \/ ~HasSuccessful("review_images")
       \/ ImagesShow({"failed"})
       \/ turn.claims = "damage" /\ ImagesShow({"missing"})
       \/ turn.claims = "fault" /\ ImagesShow({"missing", "nothing"})

\* Mutant of AutoApproved: the risk of the ticket is not looked at.
ApprovedDespiteRisk == attachments /\ EvidenceConsistent /\ ImagesShow({"clear"}) /\ TrustedPolicy

AutoApproved ==
    /\ attachments
    /\ EvidenceConsistent
    /\ ImagesShow({"clear"})
    /\ TrustedPolicy
    /\ LatestData("get_after_sales_ticket") # "risky"

TicketReply == IF ticket = "done" \/ evidenceNeeded THEN "claimsReviewed" ELSE "plain"

TicketRequiresHandoff ==
    HasResult("submit_ai_review")
    /\ LET last == CHOOSE i \in CallsOf("submit_ai_review") :
                        \A j \in CallsOf("submit_ai_review") : j <= i
       IN toolResults[last].args = "manualUncertain"

-----------------------------------------------------------------------------
(* Decisions of the rules, the strictest first.                             *)

OrderLookup == Call("search_user_orders", "own")
GetTicket == Call("get_after_sales_ticket", "own")
Submit(args, evidence) ==
    Decision("tool_call", "submit_ai_review", args, "none", args # "approve", evidence)

FailClosedDecision == IF turn.ticketId THEN HandOff("plain", "keep") ELSE Reply("plain", FALSE, "keep")

NativeDecision(model) == IF model = FailClosed THEN FailClosedDecision ELSE model

\* A reply may not claim a finished review before Java confirmed one.
GuardCompletedReviewClaim(raw, terminal) ==
    IF raw.reply # "claimsReviewed" \/ HasSuccessful("submit_ai_review") THEN raw
    ELSE IF terminal \/ HasSuccessful("search_user_orders") THEN Reply("plain", FALSE, "some")
    ELSE OrderLookup

LlmIgnoredOrderContext(raw) ==
    /\ toolResults = <<>>
    /\ turn.orderHint
    /\ \/ raw.action = "human_handoff"
       \/ raw.action = "final_reply" /\ (attachments \/ turn.text = "long")

\* The model only words the reply a rule has decided on.
NativeTerminalDecision(guarded, model) ==
    LET raw == GuardCompletedReviewClaim(NativeDecision(model), TRUE)
    IN IF model = FailClosed THEN FailClosedDecision
       ELSE IF raw.action # "final_reply" THEN guarded
       ELSE Reply(raw.reply, guarded.human, guarded.evidence)

SafeRetryTools == {"search_user_orders", "get_after_sales_ticket", "retrieve_knowledge", "review_images"}
CanRetryTool(call) ==
    \/ call.tool \in SafeRetryTools
    \/ call.tool = "submit_ai_review" /\ turn.kafka

HandleToolFailure(call) ==
    IF call.error = "unavailable" THEN
        IF CanRetryTool(call) /\ Attempts(call.tool, call.args) <= FastRetries
        THEN KeepingCall(call.tool, call.args)
        ELSE IF /\ call.tool \in {"review_images", "retrieve_knowledge"}
                /\ turn.ticketId
                /\ ~HasSuccessful("submit_ai_review")
        THEN Submit("manualUncertain", "keep")
        ELSE IF /\ call.tool = "submit_ai_review"
                /\ HasSuccessful("get_after_sales_ticket")
                /\ Cardinality(CallsOf("get_after_sales_ticket")) < 2
        THEN GetTicket
        ELSE HandOff("handedOver", "keep")
    ELSE IF call.error = "refused" THEN Reply("plain", FALSE, "some")
    ELSE NoDecision

\* submit_failed is recorded when a submission failed for good with an unknown outcome.
GivesUpSubmission(call, decision) ==
    /\ call.tool = "submit_ai_review"
    /\ call.error = "unavailable"
    /\ decision.tool # "submit_ai_review"

\* What the rewrite service says of the retrieved knowledge: it failed, the
\* knowledge suffices, suffices with too little confidence, or leaves gaps and
\* (first round only) proposes queries.
RewriteVerdicts == {"error", "sufficient", "doubtful", "gaps"}

Assessable == Latest.ok /\ Latest.tool \in {"retrieve_knowledge", "retrieve_knowledge_multi"}

\* Mutant of FollowUpRetrieval: every gap starts another round.
SearchUntilSufficient(verdict) ==
    IF ~Assessable \/ verdict = "sufficient" THEN NoDecision
    ELSE KeepingCall("retrieve_knowledge_multi", "own")

FollowUpRetrieval(verdict) ==
    LET multi == Latest.tool = "retrieve_knowledge_multi"
        handOff == HandOff("plain", "keep")
    IN IF ~Assessable THEN NoDecision
       ELSE IF Latest.data = "infrastructureFailure" THEN (IF multi THEN handOff ELSE NoDecision)
       ELSE IF multi THEN (IF verdict = "sufficient" THEN NoDecision ELSE handOff)
       ELSE IF rewriteCompleted \/ verdict \in {"error", "sufficient"} THEN NoDecision
       ELSE IF verdict = "doubtful" THEN handOff
       ELSE KeepingCall("retrieve_knowledge_multi", "own")

AssessesFirstRound ==
    /\ Assessable
    /\ Latest.tool = "retrieve_knowledge"
    /\ Latest.data # "infrastructureFailure"

Assessment(verdict) ==
    IF ~Assessable THEN assessment
    ELSE IF Latest.data = "infrastructureFailure" THEN "error"
    ELSE IF Latest.tool = "retrieve_knowledge" /\ rewriteCompleted THEN assessment
    ELSE IF verdict \in {"sufficient", "error"} THEN verdict
    ELSE "insufficient"

RetrievePolicy(view) ==
    IF view = "undated" THEN HandOff("plain", "none")
    ELSE IF view = "unversioned" THEN Submit("manualUncertain", "none")
    ELSE Call("retrieve_knowledge", "own")

BuildAiReview(evidence) ==
    Submit(IF AutoApproved THEN "approve"
           ELSE IF VisualUncertain \/ ~TrustedPolicy THEN "manualUncertain" ELSE "manual",
           evidence)

ConsultationDecision(evidence) ==
    IF ~HasSuccessful("search_user_orders") /\ ~HasSuccessful("get_order_detail") THEN OrderLookup
    ELSE IF ~HasSelectedOrder THEN Reply("plain", FALSE, "some")
    ELSE IF turn.asksHuman THEN HandOff("plain", "none")
    ELSE IF ~HasResult("retrieve_knowledge") THEN Call("retrieve_knowledge", "own")
    ELSE Reply("plain", FALSE, evidence)

\* evidence: whether the knowledge names evidence the user has not sent yet.
GuardedDecision(evidence) ==
    LET view == LatestData("get_after_sales_ticket")
    IN IF ~turn.ticketId THEN ConsultationDecision(evidence)
       ELSE IF ~HasSuccessful("get_after_sales_ticket") THEN GetTicket
       ELSE IF submitFailed THEN HandOff("plain", "keep")
       ELSE IF HasSuccessful("submit_ai_review") THEN
            IF needHuman \/ TicketRequiresHandoff
            THEN HandOff("reviewedAndHandedOver", "keep")
            ELSE Reply(TicketReply, needHuman, "keep")
       ELSE IF StatusOf(view) # "pending" THEN Reply("plain", FALSE, "none")
       ELSE IF attachments /\ ~HasResult("review_images") THEN Call("review_images", "own")
       ELSE IF ~attachments /\ turn.claims # "nothing" THEN Reply("plain", FALSE, "some")
       ELSE IF ~HasResult("retrieve_knowledge") THEN RetrievePolicy(view)
       ELSE BuildAiReview(evidence)

\* Mutant of Route: only an explicit hand-off goes to a human.
RouteByAction(raw) ==
    IF raw.action = "tool_call" THEN "tool_call"
    ELSE IF raw.action = "human_handoff" THEN "human_handoff" ELSE "final_reply"

Route(raw) ==
    IF raw.action = "tool_call" THEN "tool_call"
    ELSE IF raw.action = "human_handoff" \/ raw.human THEN "human_handoff"
    ELSE "final_reply"

\* Mutant of SubmitBlocked: reviews are blocked in every turn.
AnySubmitBlocked(raw) == raw.tool = "submit_ai_review"

\* Only a turn that came over Kafka may submit a review.
SubmitBlocked(raw) == raw.tool = "submit_ai_review" /\ ~turn.kafka
Allowed(raw) ==
    IF SubmitBlocked(raw) THEN Reply("plain", FALSE, raw.evidence) ELSE raw

\* _apply_action and the conditional edge that follows it.
ApplyAction(raw) ==
    LET decision == Allowed(raw)
    IN /\ next' = [action |-> decision.action, tool |-> decision.tool, args |-> decision.args]
       /\ assistantReply' = IF decision.reply = "none" THEN assistantReply ELSE decision.reply
       /\ needHuman' = (decision.human \/ decision.action = "human_handoff")
       /\ evidenceNeeded' = IF decision.evidence = "keep" THEN evidenceNeeded
                            ELSE decision.evidence = "some"
       /\ node' = Route(decision)

-----------------------------------------------------------------------------
(* Nodes of the graph.                                                      *)

NothingSaid == turn.text = "empty" /\ turn.images # "sent"

ReceiveMessage ==
    /\ node = "receive_message"
    /\ node' = "classify_or_plan"
    /\ assistantReply' = IF NothingSaid THEN "plain" ELSE assistantReply
    /\ UNCHANGED <<turn, toolResults, steps, next, needHuman, evidenceNeeded, attachments,
                   ticket, submitFailed, rewriteCompleted, assessment, sessionMode>>

\* Nothing was said: final is set and the plan is skipped.
SkipPlan ==
    /\ node = "classify_or_plan"
    /\ NothingSaid
    /\ node' = "final_reply"
    /\ UNCHANGED <<turn, toolResults, steps, next, assistantReply, needHuman, evidenceNeeded,
                   attachments, ticket, submitFailed, rewriteCompleted, assessment, sessionMode>>

Plan(model) ==
    LET raw == GuardCompletedReviewClaim(NativeDecision(model), FALSE)
    IN IF turn.ticketId THEN GetTicket
       ELSE IF attachments \/ LlmIgnoredOrderContext(raw) THEN OrderLookup
       ELSE raw

ClassifyOrPlan ==
    /\ node = "classify_or_plan"
    /\ ~NothingSaid
    /\ \E model \in ModelDecisions \cup {FailClosed} : ApplyAction(Plan(model))
    /\ UNCHANGED <<turn, toolResults, steps, attachments, ticket, submitFailed,
                   rewriteCompleted, assessment, sessionMode>>

LimitReached ==
    \/ Len(toolResults) >= MaxToolCalls
    \/ Attempts(next.tool, next.args) >= MaxDuplicates

ToolCall ==
    /\ node = "tool_call"
    /\ ~LimitReached
    /\ \E result \in Outcomes(next.tool, next.args) : toolResults' = Append(toolResults, result)
    /\ steps' = steps + 1
    /\ node' = "observe_tool_result"
    /\ UNCHANGED <<turn, next, assistantReply, needHuman, evidenceNeeded, attachments, ticket,
                   submitFailed, rewriteCompleted, assessment, sessionMode>>

\* Mutant of RefuseToolCall: a refused call is skipped and the turn goes on.
SkipToolCall ==
    /\ node = "tool_call"
    /\ LimitReached
    /\ node' = "decide_next"
    /\ UNCHANGED <<turn, toolResults, steps, next, assistantReply, needHuman, evidenceNeeded,
                   attachments, ticket, submitFailed, rewriteCompleted, assessment, sessionMode>>

\* The call is not made; the turn is out of steps and needs a human.
RefuseToolCall ==
    /\ node = "tool_call"
    /\ LimitReached
    /\ toolResults' = Append(toolResults, Result(next.tool, next.args, "guard_limit", "none"))
    /\ steps' = MaxSteps
    /\ next' = [next EXCEPT !.action = "final_reply"]
    /\ assistantReply' = "plain"
    /\ needHuman' = TRUE
    /\ node' = "observe_tool_result"
    /\ UNCHANGED <<turn, evidenceNeeded, attachments, ticket, submitFailed, rewriteCompleted,
                   assessment, sessionMode>>

\* handoff_to_human never comes this way: a model that asks for it decides on
\* the hand-off action, and no rule calls it as a tool.
ObserveToolResult ==
    /\ node = "observe_tool_result"
    /\ node' = "decide_next"
    /\ LET loaded == Latest.ok /\ Latest.tool = "get_after_sales_ticket"
           submitted == Latest.ok /\ Latest.tool = "submit_ai_review"
       IN /\ ticket' = IF loaded THEN StatusOf(Latest.data)
                       ELSE IF submitted THEN Latest.data ELSE ticket
          /\ attachments' = (attachments \/ (loaded /\ turn.images = "onTicket"))
          /\ submitFailed' = (submitFailed /\ ~submitted)
    /\ UNCHANGED <<turn, toolResults, steps, next, assistantReply, needHuman, evidenceNeeded,
                   rewriteCompleted, assessment, sessionMode>>

OrderSearchEnded ==
    \/ /\ ~HasSuccessful("get_order_detail")
       /\ HasSuccessful("search_user_orders")
       /\ LatestData("search_user_orders") = "noOrder"
    \/ \E i \in CallsOf("search_user_orders") : ~toolResults[i].ok

StopAtMaxSteps ==
    /\ node = "decide_next"
    /\ steps >= MaxSteps
    /\ next' = [next EXCEPT !.action = "final_reply"]
    /\ assistantReply' = IF assistantReply = "none" THEN "plain" ELSE assistantReply
    /\ node' = IF needHuman THEN "human_handoff" ELSE "final_reply"
    /\ UNCHANGED <<turn, toolResults, steps, needHuman, evidenceNeeded, attachments, ticket,
                   submitFailed, rewriteCompleted, assessment, sessionMode>>

FailureDecision == IF Latest.ok THEN NoDecision ELSE HandleToolFailure(Latest)

DecideAfterFailure ==
    /\ node = "decide_next"
    /\ steps < MaxSteps
    /\ FailureDecision # NoDecision
    /\ ApplyAction(FailureDecision)
    /\ submitFailed' = (submitFailed \/ GivesUpSubmission(Latest, FailureDecision))
    /\ UNCHANGED <<turn, toolResults, steps, attachments, ticket, rewriteCompleted, assessment,
                   sessionMode>>

DecideWithoutOrder ==
    /\ node = "decide_next"
    /\ steps < MaxSteps
    /\ FailureDecision = NoDecision
    /\ OrderSearchEnded
    /\ ApplyAction(Reply("plain", FALSE, "some"))
    /\ UNCHANGED <<turn, toolResults, steps, attachments, ticket, submitFailed,
                   rewriteCompleted, assessment, sessionMode>>

\* The rest of decide_next: follow up a thin retrieval, else the rules, whose
\* final replies the model words.
RuleDecisions(verdict, evidence) ==
    LET followUp == FollowUpRetrieval(verdict)
        guarded == GuardedDecision(evidence)
    IN IF followUp # NoDecision THEN {followUp}
       ELSE IF guarded.action = "final_reply"
       THEN {NativeTerminalDecision(guarded, model) : model \in ModelDecisions \cup {FailClosed}}
       ELSE {guarded}

DecideNext ==
    /\ node = "decide_next"
    /\ steps < MaxSteps
    /\ FailureDecision = NoDecision
    /\ ~OrderSearchEnded
    /\ \E verdict \in IF Assessable THEN RewriteVerdicts ELSE {"error"} :
       \E evidence \in EvidenceNeeds : \E decision \in RuleDecisions(verdict, evidence) :
           /\ ApplyAction(decision)
           /\ assessment' = Assessment(verdict)
    /\ rewriteCompleted' = (rewriteCompleted \/ AssessesFirstRound)
    /\ UNCHANGED <<turn, toolResults, steps, attachments, ticket, submitFailed, sessionMode>>

HumanHandoff ==
    /\ node = "human_handoff"
    /\ \E result \in Outcomes("handoff_to_human", "own") :
           /\ toolResults' = Append(toolResults, result)
           /\ sessionMode' = IF Succeeded(result) THEN "HUMAN" ELSE "AI"
           /\ assistantReply' = IF ~Succeeded(result) THEN "notHandedOver"
                                ELSE IF ticket # "none" THEN "reviewedAndHandedOver"
                                ELSE "handedOver"
    /\ needHuman' = TRUE
    /\ node' = "final_reply"
    /\ UNCHANGED <<turn, steps, next, evidenceNeeded, attachments, ticket, submitFailed,
                   rewriteCompleted, assessment>>

\* Both messages of the turn are stored; what comes of it is only traced, and
\* no node reads it.
FinalReply ==
    /\ node = "final_reply"
    /\ assistantReply' = IF assistantReply # "none" THEN assistantReply
                         ELSE IF ticket # "none" THEN TicketReply ELSE "plain"
    /\ node' = "END"
    /\ UNCHANGED <<turn, toolResults, steps, next, needHuman, evidenceNeeded, attachments, ticket,
                   submitFailed, rewriteCompleted, assessment, sessionMode>>

RunNode ==
    \/ ReceiveMessage \/ SkipPlan \/ ClassifyOrPlan
    \/ ToolCall \/ RefuseToolCall \/ ObserveToolResult
    \/ StopAtMaxSteps \/ DecideAfterFailure \/ DecideWithoutOrder \/ DecideNext
    \/ HumanHandoff \/ FinalReply

\* graph.invoke counts every node it runs.
Visit == visited < RecursionLimit /\ visited' = visited + 1

\* A graph that has not reached its end within the limit raises.
RecursionError ==
    /\ node \notin Over
    /\ visited = RecursionLimit
    /\ node' = "RAISED"
    /\ UNCHANGED <<turn, visited, toolResults, steps, next, assistantReply, needHuman, evidenceNeeded,
                   attachments, ticket, submitFailed, rewriteCompleted, assessment, sessionMode>>

Next == (Visit /\ RunNode) \/ RecursionError

\* The graph runs in the thread of its caller, node after node; every call it
\* makes has a timeout.
Spec == Init /\ [][Next]_vars /\ WF_vars(Next)

-----------------------------------------------------------------------------
(* Properties.                                                              *)

\* Every variable keeps its type.
TypeOK ==
    /\ turn \in Turns
    /\ node \in Nodes \cup Over
    /\ visited \in 0..RecursionLimit
    /\ toolResults \in Seq([tool : Tools, args : Arguments, ok : BOOLEAN,
                            error : {"none", "unavailable", "refused", "tool_error", "guard_limit"},
                            data : {"none"} \cup UNION {Data(t) : t \in Tools}])
    /\ steps \in 0..(MaxSteps + MaxToolCalls)
    /\ next \in [action : {"none", "tool_call", "human_handoff", "final_reply"},
                 tool : Tools \cup {NoTool}, args : Arguments]
    /\ assistantReply \in Replies
    /\ needHuman \in BOOLEAN /\ evidenceNeeded \in BOOLEAN /\ attachments \in BOOLEAN
    /\ submitFailed \in BOOLEAN /\ rewriteCompleted \in BOOLEAN
    /\ ticket \in {"none", "pending", "done", "closed"}
    /\ assessment \in {"none", "error", "sufficient", "insufficient"}
    /\ sessionMode \in {"AI", "HUMAN"}

Before(j, tool) == {i \in OkCallsOf(tool) : i < j}
DataBefore(j, tool) ==
    toolResults[CHOOSE i \in Before(j, tool) : \A k \in Before(j, tool) : k <= i].data

\* An approval is submitted only in a turn that came over Kafka, for a ticket
\* last seen pending, dated, versioned and free of risk, after images that
\* clearly show the claimed damage and a trusted policy were both obtained: what
\* four earlier nodes found has to survive failures, retries and the rewrite round.
\* It says nothing of the assessment of that knowledge: after a second search that
\* raises, the turn approves on knowledge assessed as incomplete.
ApprovalIsBacked ==
    \A j \in CallsOf("submit_ai_review") : toolResults[j].args = "approve" =>
        /\ turn.kafka /\ turn.claims = "damage"
        /\ Before(j, "get_after_sales_ticket") # {}
        /\ DataBefore(j, "get_after_sales_ticket") = "usable"
        /\ Before(j, "review_images") # {} /\ DataBefore(j, "review_images") = "clear"
        /\ \E i \in Before(j, "retrieve_knowledge") \cup Before(j, "retrieve_knowledge_multi") :
                toolResults[i].data = "trusted"

\* Once Java has answered a review the turn makes no other call but a hand-off:
\* retries and resubmissions follow failures only.
ReviewedOnce ==
    \A i \in OkCallsOf("submit_ai_review"), j \in DOMAIN toolResults :
        i < j => toolResults[j].tool = "handoff_to_human"

\* The recursion limit cuts a turn off, which it does only to one that already
\* recorded as many calls as MAX_AGENT_STEPS allows.
CutOff == node = "RAISED" /\ Len(toolResults) >= MaxSteps

\* A turn that decided on a human tries to call one before it is over, also when
\* it ran out of steps or of tool calls; the one exception is a turn of MaxSteps
\* calls that the recursion limit cuts off, where nobody is called.
HumanIsCalled ==
    node \in Over /\ needHuman => HasResult("handoff_to_human") \/ CutOff

\* A Kafka turn about a ticket it saw pending is never over silently: the review
\* was answered, a human was called, evidence was asked for, a call was refused
\* for its arguments, or the recursion limit cut a turn of MaxSteps calls off.
ReviewIsNotDropped ==
    node \in Over /\ turn.kafka /\ ticket = "pending" =>
        \/ HasSuccessful("submit_ai_review")
        \/ HasResult("handoff_to_human")
        \/ evidenceNeeded
        \/ CutOff

\* The user is told of a transfer, and the session leaves the AI, exactly when
\* Java answered that the session waits for a human.
TransferIsConfirmed ==
    node = "END" =>
        LET confirmed == \E i \in CallsOf("handoff_to_human") :
                             toolResults[i].ok /\ toolResults[i].data = "waiting"
        IN /\ (assistantReply \in {"handedOver", "reviewedAndHandedOver"}) <=> confirmed
           /\ (sessionMode = "HUMAN") <=> confirmed

\* The knowledge is rewritten and searched again at most once, whatever else the
\* turn retries.
RewrittenOnce ==
    /\ Cardinality(CallsOf("retrieve_knowledge_multi")) <= 1
    /\ HasResult("retrieve_knowledge_multi") => rewriteCompleted

\* Every turn ends: the cycle of decisions, calls and observations runs out before
\* the recursion limit does, except where that cuts a turn of MaxSteps calls off.
TurnEnds == <>(node = "END" \/ CutOff)
=============================================================================
