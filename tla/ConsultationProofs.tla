-------------------------- MODULE ConsultationProofs --------------------------
(***************************************************************************)
(* The safety properties of Consultation, for any number of turns in the   *)
(* session and every knowledge base.  Liveness is checked by TLC.          *)
(***************************************************************************)
EXTENDS Consultation, KnowledgeSearchProofs

\* The result an answer may rest on, as AnswerIsGrounded asks for it.
Grounded(r) ==
    /\ TrustedHits(r) # {}
    /\ \A c \in TrustedHits(r) :
           /\ c.valid
           /\ configured => c \in r.rated
           /\ c.misses \cap asks # {} => r.mode \in MultiQueryModes

\* AnswerIsGrounded is not inductive: an answer has its result since the search,
\* and once the user has it, the turn is over and the result stays.
AnswerInv ==
    \A t \in Turns :
        /\ stage[t] \in {"answering", "appending", "writing"} => Grounded(result[t])
        /\ reply[t] = "answer" => stage[t] = "over" /\ Grounded(result[t])

-----------------------------------------------------------------------------
LEMMA NoResultTyped == NoResult \in Results
BY DEF NoResult, Untrusted, Results, Modes, Strict

\* Only hits that are marked trusted are: the marks decide, not the lookups.
LEMMA TrustedHitsAreTrusted ==
    ASSUME NEW r, TrustedHits(r) # {}
    PROVE  TrustedHits(r) = r.trusted /\ r.eligible
BY DEF TrustedHits

LEMMA FirstSearchGrounded ==
    ASSUME TypeOK, NEW r \in Searches(corpus, asks, configured), TrustedHits(r) # {}
    PROVE  Grounded(r)
<1>1. SoundSearch(corpus, asks, configured, r)
  BY SearchesSound DEF TypeOK
<1>2. TrustedHits(r) = r.trusted
  BY TrustedHitsAreTrusted
<1>3. QED
  BY <1>1, <1>2 DEF SoundSearch, Grounded, HardFilter

LEMMA SecondSearchGrounded ==
    ASSUME TypeOK, NEW r \in MultiSearches(corpus, asks, configured), TrustedHits(r) # {}
    PROVE  Grounded(r)
<1>1. SoundMultiSearch(corpus, configured, r)
  BY MultiSearchesSound DEF TypeOK
<1>2. TrustedHits(r) = r.trusted
  BY TrustedHitsAreTrusted
<1>3. QED
  BY <1>1, <1>2 DEF SoundMultiSearch, Grounded, HardFilter

LEMMA SearchesTyped ==
    ASSUME TypeOK,
           NEW r \in Searches(corpus, asks, configured) \cup MultiSearches(corpus, asks, configured)
    PROVE  r \in Results
<1>1. CASE r \in Searches(corpus, asks, configured)
  <2>1. SoundSearch(corpus, asks, configured, r)
    BY <1>1, SearchesSound DEF TypeOK
  <2>2. QED
    BY <2>1 DEF SoundSearch
<1>2. CASE r \in MultiSearches(corpus, asks, configured)
  <2>1. SoundMultiSearch(corpus, configured, r)
    BY <1>2, MultiSearchesSound DEF TypeOK
  <2>2. QED
    BY <2>1 DEF SoundMultiSearch
<1>3. QED
  BY <1>1, <1>2

-----------------------------------------------------------------------------
LEMMA InitTyped == ASSUME Init PROVE TypeOK
BY NoResultTyped DEF Init, TypeOK, Stages, Replies, ChatFields, Fields

LEMMA KeepTyped ==
    ASSUME TypeOK, NEW t \in Turns, NEW r \in Results, Keep(t, r)
    PROVE  result' \in [Turns -> Results]
BY NoResultTyped DEF TypeOK, Keep

LEMMA AfterFirstSearchTyped ==
    ASSUME NEW r PROVE AfterFirstSearch(r) \in Stages
BY DEF AfterFirstSearch, Stages, Running

LEMMA StepTyped == ASSUME TypeOK, [Next]_vars PROVE TypeOK'
<1>1. ASSUME NEW t \in Turns, PersistReads(t) \/ PersistWrites(t)
      PROVE  TypeOK'
  BY <1>1 DEF TypeOK, PersistReads, PersistWrites, inputs, Goto, WriteBack, Stages
<1>2. ASSUME NEW t \in Turns, Rejected(t)
      PROVE  TypeOK'
  BY <1>2 DEF TypeOK, Rejected, inputs, Goto, GiveUp, Fallback, Tell, Stages, Replies
<1>3. ASSUME NEW t \in Turns, Accepted(t)
      PROVE  TypeOK'
  BY <1>3 DEF TypeOK, Accepted, inputs, Goto, Stages, Running
<1>4. ASSUME NEW t \in Turns, GatewayTimesOut(t)
      PROVE  TypeOK'
  BY <1>4 DEF TypeOK, GatewayTimesOut, inputs, GiveUp, Fallback, Tell, Replies
<1>5. ASSUME NEW t \in Turns, Retrieve(t)
      PROVE  TypeOK'
  <2>1. UNCHANGED <<inputs, row, reply, session, undone>>
    BY <1>5 DEF Retrieve
  <2>2. CASE \E r \in Searches(corpus, asks, configured) :
                 Keep(t, r) /\ Goto(t, AfterFirstSearch(r))
    <3>1. PICK r \in Searches(corpus, asks, configured) :
              Keep(t, r) /\ Goto(t, AfterFirstSearch(r))
      BY <2>2
    <3>2. r \in Results
      BY SearchesTyped
    <3>3. result' \in [Turns -> Results]
      BY <3>1, <3>2, KeepTyped
    <3>4. stage' \in [Turns -> Stages]
      BY <3>1, AfterFirstSearchTyped DEF Goto, TypeOK
    <3>5. QED
      BY <2>1, <3>3, <3>4 DEF TypeOK, inputs
  <2>3. CASE Goto(t, "handing") /\ UNCHANGED result
    BY <2>1, <2>3 DEF TypeOK, inputs, Goto, Stages, Running
  <2>4. QED
    BY <1>5, <2>2, <2>3 DEF Retrieve
<1>6. ASSUME NEW t \in Turns, Rewrite(t)
      PROVE  TypeOK'
  BY <1>6 DEF TypeOK, Rewrite, inputs, Goto, Stages, Running
<1>7. ASSUME NEW t \in Turns, RetrieveMulti(t)
      PROVE  TypeOK'
  <2>1. UNCHANGED <<inputs, row, reply, session, undone>>
    BY <1>7 DEF RetrieveMulti
  <2>2. CASE \E r \in MultiSearches(corpus, asks, configured) :
                 Keep(t, r) /\ Goto(t, IF TrustedHits(r) # {} THEN "answering" ELSE "handing")
    <3>1. PICK r \in MultiSearches(corpus, asks, configured) :
              Keep(t, r) /\ Goto(t, IF TrustedHits(r) # {} THEN "answering" ELSE "handing")
      BY <2>2
    <3>2. r \in Results
      BY SearchesTyped
    <3>3. result' \in [Turns -> Results]
      BY <3>1, <3>2, KeepTyped
    <3>4. stage' \in [Turns -> Stages]
      BY <3>1 DEF Goto, TypeOK, Stages, Running
    <3>5. QED
      BY <2>1, <3>3, <3>4 DEF TypeOK, inputs
  <2>3. CASE Goto(t, "handing") /\ UNCHANGED result
    BY <2>1, <2>3 DEF TypeOK, inputs, Goto, Stages, Running
  <2>4. QED
    BY <1>7, <2>2, <2>3 DEF RetrieveMulti
<1>8. ASSUME NEW t \in Turns, GenerateAnswer(t)
      PROVE  TypeOK'
  BY <1>8 DEF TypeOK, GenerateAnswer, inputs, Goto, Stages, Running
<1>9. ASSUME NEW t \in Turns, AnswerRaises(t)
      PROVE  TypeOK'
  BY <1>9 DEF TypeOK, AnswerRaises, inputs, Goto, GiveUp, Fallback, Tell, Stages, Replies
<1>10. ASSUME NEW t \in Turns, AppendReads(t) \/ AppendFails(t)
       PROVE  TypeOK'
  BY <1>10 DEF TypeOK, AppendReads, AppendFails, inputs, Goto, Stages, Running
<1>11. ASSUME NEW t \in Turns, AppendWrites(t)
       PROVE  TypeOK'
  BY <1>11 DEF TypeOK, AppendWrites, inputs, Goto, WriteBack, Tell, Stages, Running, Replies
<1>12. ASSUME NEW t \in Turns, Handoff(t)
       PROVE  TypeOK'
  BY <1>12 DEF TypeOK, Handoff, inputs, Goto, Tell, Stages, Replies
<1>13. CASE UNCHANGED vars
  BY <1>13 DEF TypeOK, vars
<1>14. QED
  BY <1>1, <1>2, <1>3, <1>4, <1>5, <1>6, <1>7, <1>8, <1>9, <1>10, <1>11, <1>12, <1>13
     DEF Next, GatewayStep, AgentStep

\* Messages, knowledge and results keep their types, for any number of turns.
THEOREM ConsultationTyped == Spec => []TypeOK
<1>1. Init => TypeOK
  BY InitTyped
<1>2. TypeOK /\ [Next]_vars => TypeOK'
  BY StepTyped
<1>3. QED
  BY <1>1, <1>2, PTL DEF Spec

-----------------------------------------------------------------------------
\* Who was promised a human has one, or a write-back undid it: only the steps
\* that write the session row or tell the user something can disturb that.
LEMMA StepRecorded ==
    ASSUME TypeOK, PromiseIsRecorded, [Next]_vars
    PROVE  PromiseIsRecorded'
<1>1. ASSUME UNCHANGED <<reply, session, undone>>
      PROVE  PromiseIsRecorded'
  BY <1>1 DEF PromiseIsRecorded
<1>2. ASSUME NEW t \in Turns, WriteBack(t),
             \A u \in Turns : reply'[u] \in Promises => reply[u] \in Promises
      PROVE  PromiseIsRecorded'
  <2>1. row[t] \in {"AI", "HUMAN"} /\ session \in {"AI", "HUMAN"}
    BY DEF TypeOK
  <2>2. session = "HUMAN" \/ undone => session' = "HUMAN" \/ undone'
    BY <1>2, <2>1 DEF WriteBack
  <2>3. QED
    BY <1>2, <2>2 DEF PromiseIsRecorded
<1>3. ASSUME NEW t \in Turns, NEW code, GiveUp(t, code)
      PROVE  PromiseIsRecorded'
  <2>1. CASE Fallback(t)
    BY <2>1 DEF Fallback, PromiseIsRecorded
  <2>2. CASE Tell(t, "error") /\ UNCHANGED <<session, undone>>
    BY <2>2 DEF Tell, PromiseIsRecorded, Promises, TypeOK
  <2>3. QED
    BY <1>3, <2>1, <2>2 DEF GiveUp
<1>4. ASSUME NEW t \in Turns, PersistReads(t) \/ Accepted(t) \/ Retrieve(t) \/ Rewrite(t)
                 \/ RetrieveMulti(t) \/ GenerateAnswer(t) \/ AppendReads(t) \/ AppendFails(t)
      PROVE  PromiseIsRecorded'
  BY <1>1, <1>4 DEF PersistReads, Accepted, Retrieve, Rewrite, RetrieveMulti, GenerateAnswer,
                    AppendReads, AppendFails
<1>5. ASSUME NEW t \in Turns, PersistWrites(t)
      PROVE  PromiseIsRecorded'
  BY <1>2, <1>5 DEF PersistWrites
<1>6. ASSUME NEW t \in Turns, AppendWrites(t)
      PROVE  PromiseIsRecorded'
  <2>1. \A u \in Turns : reply'[u] \in Promises => reply[u] \in Promises
    BY <1>6 DEF AppendWrites, Tell, Promises, TypeOK
  <2>2. QED
    BY <1>2, <1>6, <2>1 DEF AppendWrites
<1>7. ASSUME NEW t \in Turns, Rejected(t) \/ GatewayTimesOut(t) \/ AnswerRaises(t)
      PROVE  PromiseIsRecorded'
  BY <1>1, <1>3, <1>7 DEF Rejected, GatewayTimesOut, AnswerRaises
<1>8. ASSUME NEW t \in Turns, Handoff(t)
      PROVE  PromiseIsRecorded'
  <2>1. PICK applied \in BOOLEAN, answered \in BOOLEAN :
            /\ session' = IF applied THEN "HUMAN" ELSE session
            /\ Tell(t, IF Confirmed(applied, answered) THEN "handover" ELSE "retry")
    BY <1>8 DEF Handoff
  <2>2. undone' = undone
    BY <1>8 DEF Handoff
  <2>3. CASE applied
    BY <2>1, <2>3 DEF PromiseIsRecorded
  <2>4. CASE ~applied
    <3>1. \A u \in Turns : reply'[u] \in Promises => reply[u] \in Promises
      BY <2>1, <2>4 DEF Confirmed, Tell, Promises, TypeOK
    <3>2. QED
      BY <2>1, <2>2, <2>4, <3>1 DEF PromiseIsRecorded
  <2>5. QED
    BY <2>3, <2>4
<1>9. CASE UNCHANGED vars
  BY <1>1, <1>9 DEF vars
<1>10. QED
  BY <1>4, <1>5, <1>6, <1>7, <1>8, <1>9 DEF Next, GatewayStep, AgentStep

\* A promised human: the session waits in HUMAN mode or a write-back of a row
\* read earlier took it back, however many turns of the session overlap.
THEOREM PromisesAreRecorded == Spec => []PromiseIsRecorded
<1>1. Init => PromiseIsRecorded
  BY DEF Init, PromiseIsRecorded, Promises
<1>2. TypeOK /\ PromiseIsRecorded /\ [Next]_vars => PromiseIsRecorded'
  BY StepRecorded
<1>3. QED
  BY <1>1, <1>2, ConsultationTyped, PTL DEF Spec

-----------------------------------------------------------------------------
\* Errors reach a user by GiveUp only, with a code that a chat turn falls back on.
LEMMA StepSoft ==
    ASSUME TypeOK, ChatFailsSoftly, [Next]_vars
    PROVE  ChatFailsSoftly'
<1>1. ASSUME UNCHANGED <<inputs, reply>>
      PROVE  ChatFailsSoftly'
  BY <1>1 DEF ChatFailsSoftly, inputs
<1>2. ASSUME NEW t \in Turns, NEW code \in {"429", "502"}, GiveUp(t, code), UNCHANGED inputs
      PROVE  ChatFailsSoftly'
  BY <1>2 DEF GiveUp, Fallback, Tell, ChatFailsSoftly, inputs, TypeOK
<1>3. ASSUME NEW t \in Turns, NEW what, what # "error", Tell(t, what), UNCHANGED inputs
      PROVE  ChatFailsSoftly'
  BY <1>3 DEF Tell, ChatFailsSoftly, inputs, TypeOK
<1>4. ASSUME NEW t \in Turns, PersistReads(t) \/ PersistWrites(t) \/ Accepted(t) \/ Retrieve(t)
                 \/ Rewrite(t) \/ RetrieveMulti(t) \/ GenerateAnswer(t) \/ AppendReads(t)
                 \/ AppendFails(t)
      PROVE  ChatFailsSoftly'
  BY <1>1, <1>4 DEF PersistReads, PersistWrites, Accepted, Retrieve, Rewrite, RetrieveMulti,
                    GenerateAnswer, AppendReads, AppendFails
<1>5. ASSUME NEW t \in Turns, Rejected(t) \/ GatewayTimesOut(t) \/ AnswerRaises(t)
      PROVE  ChatFailsSoftly'
  BY <1>1, <1>2, <1>5 DEF Rejected, GatewayTimesOut, AnswerRaises
<1>6. ASSUME NEW t \in Turns, AppendWrites(t)
      PROVE  ChatFailsSoftly'
  BY <1>1, <1>3, <1>6 DEF AppendWrites
<1>7. ASSUME NEW t \in Turns, Handoff(t)
      PROVE  ChatFailsSoftly'
  <2>1. PICK applied \in BOOLEAN, answered \in BOOLEAN :
            Tell(t, IF Confirmed(applied, answered) THEN "handover" ELSE "retry")
    BY <1>7 DEF Handoff
  <2>2. UNCHANGED inputs
    BY <1>7 DEF Handoff
  <2>3. QED
    BY <1>3, <2>1, <2>2
<1>8. CASE UNCHANGED vars
  BY <1>1, <1>8 DEF vars, inputs
<1>9. QED
  BY <1>4, <1>5, <1>6, <1>7, <1>8 DEF Next, GatewayStep, AgentStep

\* A user of the chat endpoint never gets an error, in any session.
THEOREM ChatsFailSoftly == Spec => []ChatFailsSoftly
<1>1. Init => ChatFailsSoftly
  BY DEF Init, ChatFailsSoftly
<1>2. TypeOK /\ ChatFailsSoftly /\ [Next]_vars => ChatFailsSoftly'
  BY StepSoft
<1>3. QED
  BY <1>1, <1>2, ConsultationTyped, PTL DEF Spec

-----------------------------------------------------------------------------
\* The result of a turn that answers stays: only the searches write it.
LEMMA StepAnswerInv ==
    ASSUME TypeOK, AnswerInv, [Next]_vars
    PROVE  AnswerInv'
<1>1. ASSUME UNCHANGED <<inputs, result>>,
             \A u \in Turns : stage'[u] \in {"answering", "appending", "writing"} =>
                                  stage[u] \in {"answering", "appending", "writing"},
             \A u \in Turns : reply'[u] = "answer" =>
                                  /\ stage'[u] = "over"
                                  /\ reply[u] = "answer" \/ stage[u] = "writing"
      PROVE  AnswerInv'
  <2>1. ASSUME NEW u \in Turns, Grounded(result[u])
        PROVE  Grounded(result[u])'
    BY <1>1, <2>1 DEF Grounded, inputs
  <2>2. QED
    BY <1>1, <2>1 DEF AnswerInv
<1>2. ASSUME NEW t \in Turns, NEW r, TrustedHits(r) # {} => Grounded(r), Keep(t, r),
             NEW s, s = "answering" => TrustedHits(r) # {}, s \notin {"appending", "writing"},
             Goto(t, s), stage[t] # "over", UNCHANGED <<inputs, reply>>
      PROVE  AnswerInv'
  <2>1. ASSUME NEW x, Grounded(x)
        PROVE  /\ TrustedHits(x) # {}
               /\ \A c \in TrustedHits(x) :
                      /\ c.valid
                      /\ configured' => c \in x.rated
                      /\ c.misses \cap asks' # {} => x.mode \in MultiQueryModes
    BY <1>2, <2>1 DEF Grounded, inputs
  <2>2. ASSUME NEW u \in Turns, Grounded(result'[u])
        PROVE  Grounded(result[u])'
    BY <2>1, <2>2 DEF Grounded
  <2>3. ASSUME NEW u \in Turns, u # t
        PROVE  /\ result'[u] = result[u] /\ stage'[u] = stage[u] /\ reply'[u] = reply[u]
    BY <1>2, <2>3 DEF Keep, Goto, TypeOK
  <2>4. /\ stage'[t] = s /\ reply'[t] = reply[t] /\ reply[t] # "answer"
        /\ TrustedHits(r) # {} => result'[t] = r
    BY <1>2 DEF Keep, Goto, TypeOK, AnswerInv
  <2>5. QED
    BY <1>2, <2>2, <2>3, <2>4 DEF AnswerInv
<1>3. ASSUME NEW t \in Turns, Retrieve(t)
      PROVE  AnswerInv'
  <2>1. stage[t] = "search" /\ UNCHANGED <<inputs, reply>>
    BY <1>3 DEF Retrieve
  <2>2. CASE \E r \in Searches(corpus, asks, configured) :
                 Keep(t, r) /\ Goto(t, AfterFirstSearch(r))
    <3>1. PICK r \in Searches(corpus, asks, configured) :
              Keep(t, r) /\ Goto(t, AfterFirstSearch(r))
      BY <2>2
    <3>2. TrustedHits(r) # {} => Grounded(r)
      BY FirstSearchGrounded
    <3>3. /\ AfterFirstSearch(r) = "answering" => TrustedHits(r) # {}
          /\ AfterFirstSearch(r) \notin {"appending", "writing"}
      BY DEF AfterFirstSearch
    <3>4. QED
      BY <1>2, <2>1, <3>1, <3>2, <3>3
  <2>3. CASE Goto(t, "handing") /\ UNCHANGED result
    BY <1>1, <2>1, <2>3 DEF Goto, TypeOK, AnswerInv
  <2>4. QED
    BY <1>3, <2>2, <2>3 DEF Retrieve
<1>4. ASSUME NEW t \in Turns, RetrieveMulti(t)
      PROVE  AnswerInv'
  <2>1. stage[t] = "multi" /\ UNCHANGED <<inputs, reply>>
    BY <1>4 DEF RetrieveMulti
  <2>2. CASE \E r \in MultiSearches(corpus, asks, configured) :
                 Keep(t, r) /\ Goto(t, IF TrustedHits(r) # {} THEN "answering" ELSE "handing")
    <3>1. PICK r \in MultiSearches(corpus, asks, configured) :
              Keep(t, r) /\ Goto(t, IF TrustedHits(r) # {} THEN "answering" ELSE "handing")
      BY <2>2
    <3>2. TrustedHits(r) # {} => Grounded(r)
      BY SecondSearchGrounded
    <3>4. QED
      BY <1>2, <2>1, <3>1, <3>2
  <2>3. CASE Goto(t, "handing") /\ UNCHANGED result
    BY <1>1, <2>1, <2>3 DEF Goto, TypeOK, AnswerInv
  <2>4. QED
    BY <1>4, <2>2, <2>3 DEF RetrieveMulti
<1>5. ASSUME NEW t \in Turns, PersistReads(t) \/ PersistWrites(t) \/ Accepted(t) \/ Rewrite(t)
                 \/ GenerateAnswer(t) \/ AppendReads(t) \/ AppendFails(t)
      PROVE  AnswerInv'
  BY <1>1, <1>5 DEF PersistReads, PersistWrites, Accepted, Rewrite, GenerateAnswer, AppendReads,
                    AppendFails, Goto, TypeOK, AnswerInv
<1>6. ASSUME NEW t \in Turns, GatewayTimesOut(t)
      PROVE  AnswerInv'
  BY <1>1, <1>6 DEF GatewayTimesOut, GiveUp, Fallback, Tell, TypeOK, AnswerInv
<1>7. ASSUME NEW t \in Turns, Rejected(t) \/ AnswerRaises(t)
      PROVE  AnswerInv'
  BY <1>1, <1>7 DEF Rejected, AnswerRaises, GiveUp, Fallback, Tell, Goto, TypeOK, AnswerInv
<1>8. ASSUME NEW t \in Turns, AppendWrites(t)
      PROVE  AnswerInv'
  BY <1>1, <1>8 DEF AppendWrites, Tell, Goto, TypeOK, AnswerInv
<1>9. ASSUME NEW t \in Turns, Handoff(t)
      PROVE  AnswerInv'
  BY <1>1, <1>9 DEF Handoff, Tell, Goto, TypeOK, AnswerInv
<1>10. CASE UNCHANGED vars
  BY <1>1, <1>10 DEF vars, inputs, AnswerInv
<1>11. QED
  BY <1>3, <1>4, <1>5, <1>6, <1>7, <1>8, <1>9, <1>10 DEF Next, GatewayStep, AgentStep

\* Every answer rests on knowledge that passed the hard filters and, where one is
\* configured, the reranker - for every knowledge base and any number of turns -
\* and on a chunk of the relaxed filters after a multi-query search only.
THEOREM AnswersAreGrounded == Spec => []AnswerIsGrounded
<1>1. Init => AnswerInv
  BY DEF Init, AnswerInv
<1>2. TypeOK /\ AnswerInv /\ [Next]_vars => AnswerInv'
  BY StepAnswerInv
<1>3. AnswerInv => AnswerIsGrounded
  BY DEF AnswerInv, AnswerIsGrounded, Answering, Grounded
<1>4. QED
  BY <1>1, <1>2, <1>3, ConsultationTyped, PTL DEF Spec
=============================================================================
