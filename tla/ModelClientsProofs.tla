-------------------------- MODULE ModelClientsProofs --------------------------
(***************************************************************************)
(* Proofs about ModelClients, for any callers, permits, thresholds and     *)
(* numbers of retries and repair rounds: the safety properties of the run  *)
(* model_clients, each of them inductive together with the types.          *)
(***************************************************************************)
EXTENDS ModelClients, FiniteSetTheorems, TLAPS

\* The caller with this call holds a permit of the client.
Holds(k, c) == k.client = c /\ k.stage \in {"admitted", "asking"}

\* What each step of a caller makes of its call.
Moves(p, k) == call' = [call EXCEPT ![p] = k]

\* Types need the count of the permits: the semaphore's value is bounded by it.
PermitInv == TypeOK /\ PermitsReturned

-----------------------------------------------------------------------------
(* Types.                                                                  *)

\* The breaker's operations make breakers of breakers.
LEMMA BreakerTyped ==
    ASSUME NEW b \in Breakers, NEW c \in Clients
    PROVE  /\ Closed \in Breakers
           /\ AfterAdmission(b) \in Breakers
           /\ AfterFailure(b) \in Breakers
           /\ AfterRefusal(c, b) \in Breakers
           /\ [b EXCEPT !.state = "due"] \in Breakers
<1>1. Closed \in Breakers
  BY ClientsAssumption DEF Closed, Breakers
<1>2. AfterAdmission(b) \in Breakers /\ [b EXCEPT !.state = "due"] \in Breakers
  BY DEF AfterAdmission, Breakers
<1>3. AfterFailure(b) \in Breakers
  BY ClientsAssumption DEF AfterFailure, Breakers
<1>4. QED
  BY <1>1, <1>2, <1>3 DEF AfterRefusal

\* Calls stay calls, and a call that fails, starts over or is asked to repair
\* its answer holds no permit.
LEMMA CallTyped ==
    ASSUME NEW k \in Calls, NEW e \in Errors
    PROVE  /\ Failed(k, e) \in Calls /\ \A c \in Clients : ~Holds(Failed(k, e), c)
           /\ Misfit(k) \in Calls /\ \A c \in Clients : ~Holds(Misfit(k), c)
           /\ \A s \in {"queued", "admitted", "asking", "ok"} : [k EXCEPT !.stage = s] \in Calls
           /\ k.attempt < Retries => [k EXCEPT !.attempt = @ + 1] \in Calls
<1> DEFINE Stages == {"idle", "queued", "admitted", "asking", "ok", "failed"}
<1>1. /\ k.client \in Clients /\ k.attempt \in 0..Retries /\ k.repairs \in 0..Repairs
      /\ k.error \in Errors /\ k.stage \in Stages
  BY DEF Calls
<1>2. /\ "remote" \in Clients /\ "ollama" \in Clients /\ "unparseable" \in Errors /\ 0 \in 0..Retries
      /\ k.repairs > 0 => k.repairs - 1 \in 0..Repairs
      /\ k.attempt < Retries => k.attempt + 1 \in 0..Retries
  BY <1>1, ClientsAssumption DEF Clients, Chats, Errors
<1> DEFINE OllamaNext == [k EXCEPT !.client = "ollama", !.stage = "queued", !.attempt = 0]
           Ended(er) == [k EXCEPT !.stage = "failed", !.error = er]
           Again == [k EXCEPT !.client = "remote", !.stage = "queued", !.attempt = 0,
                              !.repairs = @ - 1]
<1>3. OllamaNext \in Calls /\ OllamaNext.stage = "queued"
  BY <1>2 DEF Calls
<1>4. ASSUME NEW er \in Errors PROVE Ended(er) \in Calls /\ Ended(er).stage = "failed"
  BY DEF Calls
<1>5. k.repairs > 0 => Again \in Calls /\ Again.stage = "queued"
  BY <1>2 DEF Calls
<1>6. ASSUME NEW s \in Stages PROVE [k EXCEPT !.stage = s] \in Calls
  BY DEF Calls
<1>7. k.attempt < Retries => [k EXCEPT !.attempt = @ + 1] \in Calls
  BY <1>2 DEF Calls
<1> HIDE DEF OllamaNext, Ended, Again
<1>8. Failed(k, e) = IF k.client = "remote" /\ e \in Eligible THEN OllamaNext ELSE Ended(e)
  BY DEF Failed, OllamaNext, Ended
<1>9. Misfit(k) = IF k.repairs > 0 THEN Again ELSE Ended("unparseable")
  BY DEF Misfit, Again, Ended
<1>10. Failed(k, e) \in Calls /\ \A c \in Clients : ~Holds(Failed(k, e), c)
  BY <1>3, <1>4, <1>8 DEF Holds
<1>11. Misfit(k) \in Calls /\ \A c \in Clients : ~Holds(Misfit(k), c)
  BY <1>2, <1>4, <1>5, <1>9 DEF Holds
<1>12. QED
  BY <1>6, <1>7, <1>10, <1>11

LEMMA IdleTyped ==
    /\ Idle \in Calls
    /\ \A n \in 0..Repairs : [Idle EXCEPT !.stage = "queued", !.repairs = n] \in Calls
    /\ [Idle EXCEPT !.client = "reranker", !.stage = "queued"] \in Calls
    /\ [Idle EXCEPT !.client = "reranker", !.stage = "failed", !.error = "closed"] \in Calls
<1>1. 0 \in 0..Retries /\ 0 \in 0..Repairs /\ {"remote", "reranker"} \subseteq Clients
      /\ {"none", "closed"} \subseteq Errors
  BY ClientsAssumption DEF Clients, Chats, Errors
<1>2. QED
  BY <1>1 DEF Idle, Calls

-----------------------------------------------------------------------------
(* Permits.                                                                *)

\* The holders of a client's permits are finitely many.
LEMMA HoldersFinite ==
    ASSUME NEW c \in Clients
    PROVE  IsFiniteSet(Holders(c)) /\ Cardinality(Holders(c)) \in Nat
<1>1. Holders(c) \subseteq Callers
  BY DEF Holders
<1>2. IsFiniteSet(Holders(c))
  BY <1>1, ClientsAssumption, FS_Subset
<1>3. QED
  BY <1>2, FS_CardinalityType

\* One caller's move changes the holders by that caller at most.
LEMMA HoldersMove ==
    ASSUME TypeOK, NEW p \in Callers, NEW k, Moves(p, k), NEW c \in Clients
    PROVE  Holders(c)' = IF Holds(k, c) THEN Holders(c) \cup {p} ELSE Holders(c) \ {p}
<1>1. call'[p] = k /\ \A q \in Callers \ {p} : call'[q] = call[q]
  BY DEF TypeOK, Moves
<1>2. QED
  BY <1>1 DEF Holders, Holds, Stage

LEMMA HoldersHold ==
    ASSUME NEW p \in Callers, NEW c \in Clients
    PROVE  p \in Holders(c) <=> Holds(call[p], c)
BY DEF Holders, Holds, Stage

\* A move that keeps what the caller holds, and leaves the semaphores alone.
LEMMA PermitsStay ==
    ASSUME PermitInv, NEW p \in Callers, NEW k, Moves(p, k), UNCHANGED free,
           \A c \in Clients : Holds(k, c) <=> Holds(call[p], c)
    PROVE  PermitsReturned'
<1> SUFFICES ASSUME NEW c \in Clients PROVE (free[c] + Cardinality(Holders(c)) = Permits)'
  BY DEF PermitsReturned
<1>1. Holders(c)' = Holders(c)
  BY HoldersMove, HoldersHold DEF PermitInv
<1>2. QED
  BY <1>1 DEF PermitInv, PermitsReturned

\* Acquire: one permit less, one holder more.
LEMMA PermitsTaken ==
    ASSUME PermitInv, NEW p \in Callers, NEW k, Moves(p, k), NEW c \in Clients,
           \A d \in Clients : Holds(k, d) <=> d = c, \A d \in Clients : ~Holds(call[p], d),
           free[c] > 0, free' = [free EXCEPT ![c] = @ - 1]
    PROVE  PermitsReturned' /\ free' \in [Clients -> 0..Permits]
<1>1. free' \in [Clients -> 0..Permits]
  BY ClientsAssumption DEF PermitInv, TypeOK
<1>2. ASSUME NEW d \in Clients PROVE (free[d] + Cardinality(Holders(d)) = Permits)'
  <2>1. IsFiniteSet(Holders(d)) /\ Cardinality(Holders(d)) \in Nat
    BY HoldersFinite
  <2>2. free[d] \in 0..Permits /\ free[d] + Cardinality(Holders(d)) = Permits
    BY DEF PermitInv, PermitsReturned, TypeOK
  <2>3. CASE d = c
    <3>1. Holders(d)' = Holders(d) \cup {p} /\ p \notin Holders(d)
      BY <2>3, HoldersMove, HoldersHold DEF PermitInv
    <3>2. Cardinality(Holders(d)') = Cardinality(Holders(d)) + 1
      BY <2>1, <3>1, FS_AddElement
    <3>3. free'[d] = free[d] - 1
      BY <2>3 DEF PermitInv, TypeOK
    <3>4. QED
      BY <2>1, <2>2, <3>2, <3>3, ClientsAssumption
  <2>4. CASE d # c
    <3>1. Holders(d)' = Holders(d)
      BY <2>4, HoldersMove, HoldersHold DEF PermitInv
    <3>2. free'[d] = free[d]
      BY <2>4 DEF PermitInv, TypeOK
    <3>3. QED
      BY <2>2, <3>1, <3>2
  <2>5. QED
    BY <2>3, <2>4
<1>3. QED
  BY <1>1, <1>2 DEF PermitsReturned

\* The end of a call: one permit more, one holder less.
LEMMA PermitsBack ==
    ASSUME PermitInv, NEW p \in Callers, NEW k, Moves(p, k), NEW c \in Clients,
           \A d \in Clients : ~Holds(k, d), \A d \in Clients : Holds(call[p], d) <=> d = c,
           Release(c)
    PROVE  PermitsReturned' /\ free' \in [Clients -> 0..Permits]
<1>1. ASSUME NEW d \in Clients
      PROVE  (free[d] + Cardinality(Holders(d)) = Permits)' /\ free'[d] \in 0..Permits
  <2>1. IsFiniteSet(Holders(d)) /\ Cardinality(Holders(d)) \in Nat
    BY HoldersFinite
  <2>2. free[d] \in 0..Permits /\ free[d] + Cardinality(Holders(d)) = Permits
    BY DEF PermitInv, PermitsReturned, TypeOK
  <2>3. CASE d = c
    <3>1. Holders(d)' = Holders(d) \ {p} /\ p \in Holders(d)
      BY <2>3, HoldersMove, HoldersHold DEF PermitInv
    <3>2. Cardinality(Holders(d)') = Cardinality(Holders(d)) - 1
      BY <2>1, <3>1, FS_RemoveElement
    <3>3. Cardinality(Holders(d)) # 0
      BY <2>1, <3>1, FS_EmptySet
    <3>4. free'[d] = free[d] + 1
      BY <2>3 DEF PermitInv, TypeOK, Release
    <3>5. QED
      BY <2>1, <2>2, <3>2, <3>3, <3>4, ClientsAssumption
  <2>4. CASE d # c
    <3>1. Holders(d)' = Holders(d)
      BY <2>4, HoldersMove, HoldersHold DEF PermitInv
    <3>2. free'[d] = free[d]
      BY <2>4 DEF PermitInv, TypeOK, Release
    <3>3. QED
      BY <2>2, <3>1, <3>2
  <2>5. QED
    BY <2>3, <2>4
<1>2. free' = [d \in Clients |-> free'[d]]
  BY DEF PermitInv, TypeOK, Release
<1>3. free' \in [Clients -> 0..Permits]
  BY <1>1, <1>2
<1>4. QED
  BY <1>1, <1>3 DEF PermitsReturned

LEMMA InitPermits == Init => PermitInv
<1> SUFFICES ASSUME Init PROVE PermitInv
  OBVIOUS
<1> USE DEF Init
<1>1. TypeOK
  <2>1. Closed \in Breakers /\ Permits \in 0..Permits
    BY ClientsAssumption DEF Closed, Breakers
  <2>2. QED
    BY <2>1, IdleTyped DEF TypeOK
<1>2. ASSUME NEW c \in Clients PROVE free[c] + Cardinality(Holders(c)) = Permits
  <2>1. Holders(c) = {}
    BY DEF Holders, Stage, Idle
  <2>2. QED
    BY <2>1, FS_EmptySet, ClientsAssumption
<1>3. QED
  BY <1>1, <1>2 DEF PermitInv, PermitsReturned

\* What a move must be for the types: of breakers, of a call, of the lifecycle.
LEMMA TypesByParts ==
    ASSUME TypeOK, NEW p \in Callers, NEW k \in Calls, Moves(p, k),
           breaker' \in [Clients -> Breakers], free' \in [Clients -> 0..Permits],
           UNCHANGED lifecycle
    PROVE  TypeOK'
BY DEF TypeOK, Moves

\* The actions of a caller, as moves.
LEMMA CallMoves ==
    ASSUME TypeOK, NEW p \in Callers
    PROVE  /\ call[p] \in Calls /\ call[p].client \in Clients
           /\ \A s : call' = [call EXCEPT ![p].stage = s] <=> Moves(p, [call[p] EXCEPT !.stage = s])
           /\ call' = [call EXCEPT ![p].attempt = @ + 1]
                  <=> Moves(p, [call[p] EXCEPT !.attempt = @ + 1])
           /\ \A e : call' = [call EXCEPT ![p] = Failed(@, e)] <=> Moves(p, Failed(call[p], e))
           /\ call' = [call EXCEPT ![p] = Misfit(@)] <=> Moves(p, Misfit(call[p]))
<1>1. call[p] \in Calls /\ call[p].client \in Clients
  BY DEF TypeOK, Calls
<1>2. QED
  BY <1>1 DEF Moves, TypeOK

LEMMA StepPermits == PermitInv /\ [Next]_clientVars => PermitInv'
<1> SUFFICES ASSUME PermitInv, [Next]_clientVars PROVE PermitInv'
  OBVIOUS
<1> USE DEF PermitInv
<1>1. ASSUME NEW p \in Callers, BeginChat(p) PROVE PermitInv'
  <2>1. PICK n \in 0..Repairs : Moves(p, [Idle EXCEPT !.stage = "queued", !.repairs = n])
    BY <1>1 DEF BeginChat, Moves
  <2> DEFINE k == [Idle EXCEPT !.stage = "queued", !.repairs = n]
  <2>2. k \in Calls /\ \A c \in Clients : ~Holds(k, c)
    BY IdleTyped DEF Holds, Idle
  <2>3. \A c \in Clients : ~Holds(call[p], c)
    BY <1>1 DEF BeginChat, Holds, Stage
  <2> HIDE DEF k
  <2>4. Moves(p, k) /\ UNCHANGED <<breaker, free, lifecycle>>
    BY <1>1, <2>1 DEF BeginChat, k
  <2>5. TypeOK'
    BY <2>2, <2>4, TypesByParts DEF TypeOK
  <2>6. QED
    BY <2>2, <2>3, <2>4, <2>5, PermitsStay
<1>2. ASSUME NEW p \in Callers, BeginRerank(p) PROVE PermitInv'
  <2>1. PICK k \in Calls : Moves(p, k) /\ \A c \in Clients : ~Holds(k, c)
    <3> DEFINE queued == [Idle EXCEPT !.client = "reranker", !.stage = "queued"]
               shut == [Idle EXCEPT !.client = "reranker", !.stage = "failed", !.error = "closed"]
    <3>1. \A c \in Clients : ~Holds(queued, c) /\ ~Holds(shut, c)
      BY DEF Holds, Idle
    <3>2. Moves(p, queued) \/ Moves(p, shut)
      BY <1>2 DEF BeginRerank, Moves
    <3>3. QED
      BY <3>1, <3>2, IdleTyped
  <2>2. (\A c \in Clients : ~Holds(call[p], c)) /\ UNCHANGED <<breaker, free, lifecycle>>
    BY <1>2 DEF BeginRerank, Holds, Stage
  <2>3. TypeOK'
    BY <2>1, <2>2, TypesByParts DEF TypeOK
  <2>4. QED
    BY <2>1, <2>2, <2>3, PermitsStay
<1>3. ASSUME NEW p \in Callers, Acquire(p) PROVE PermitInv'
  <2> DEFINE c == call[p].client
             k == [call[p] EXCEPT !.stage = "admitted"]
  <2>1. /\ Moves(p, k) /\ free[c] > 0 /\ free' = [free EXCEPT ![c] = @ - 1]
        /\ UNCHANGED <<breaker, lifecycle>> /\ Stage(p) = "queued"
    BY <1>3, CallMoves DEF Acquire
  <2>2. k \in Calls /\ c \in Clients
    BY CallTyped, CallMoves DEF Errors
  <2>3. /\ \A d \in Clients : Holds(k, d) <=> d = c
        /\ \A d \in Clients : ~Holds(call[p], d)
    BY <2>1, CallMoves DEF Holds, Stage, Calls
  <2> HIDE DEF c, k
  <2>4. PermitsReturned' /\ free' \in [Clients -> 0..Permits]
    BY <2>1, <2>2, <2>3, PermitsTaken
  <2>5. QED
    BY <2>1, <2>2, <2>4, TypesByParts DEF TypeOK
<1>4. ASSUME NEW p \in Callers, QueueTimesOut(p) PROVE PermitInv'
  <2> DEFINE k == Failed(call[p], "busy")
  <2>1. Moves(p, k) /\ Stage(p) = "queued" /\ UNCHANGED <<breaker, free, lifecycle>>
    BY <1>4, CallMoves DEF QueueTimesOut
  <2>2. k \in Calls /\ \A d \in Clients : ~Holds(k, d)
    BY CallTyped, CallMoves DEF Errors
  <2>3. \A d \in Clients : ~Holds(call[p], d)
    BY <2>1 DEF Holds, Stage
  <2> HIDE DEF k
  <2>4. TypeOK'
    BY <2>1, <2>2, TypesByParts DEF TypeOK
  <2>5. QED
    BY <2>1, <2>2, <2>3, <2>4, PermitsStay
<1>5. ASSUME NEW p \in Callers, Enter(p) PROVE PermitInv'
  <2> DEFINE k == [call[p] EXCEPT !.stage = "asking"]
  <2>1. /\ Moves(p, k) /\ Stage(p) = "admitted" /\ UNCHANGED <<free, lifecycle>>
        /\ breaker' = [breaker EXCEPT ![call[p].client] = AfterAdmission(@)]
    BY <1>5, CallMoves DEF Enter
  <2>2. k \in Calls /\ breaker' \in [Clients -> Breakers]
    BY <2>1, CallTyped, CallMoves, BreakerTyped DEF Errors, TypeOK
  <2>3. \A d \in Clients : Holds(k, d) <=> Holds(call[p], d)
    BY <2>1, CallMoves DEF Holds, Stage, Calls
  <2> HIDE DEF k
  <2>4. TypeOK'
    BY <2>1, <2>2, TypesByParts DEF TypeOK
  <2>5. QED
    BY <2>1, <2>2, <2>3, <2>4, PermitsStay
\* Every other step of a call but the repeated request gives the permit back.
<1>6. ASSUME NEW p \in Callers, NEW k \in Calls, Moves(p, k), \A d \in Clients : ~Holds(k, d),
             Stage(p) \in {"admitted", "asking"}, Release(call[p].client),
             breaker' \in [Clients -> Breakers], UNCHANGED lifecycle
      PROVE  PermitInv'
  <2> DEFINE c == call[p].client
  <2>1. c \in Clients /\ \A d \in Clients : Holds(call[p], d) <=> d = c
    BY <1>6, CallMoves DEF Holds, Stage
  <2> HIDE DEF c
  <2>2. PermitsReturned' /\ free' \in [Clients -> 0..Permits]
    BY <1>6, <2>1, PermitsBack DEF c
  <2>3. QED
    BY <1>6, <2>2, TypesByParts
<1>7. ASSUME NEW p \in Callers, TurnedAway(p) PROVE PermitInv'
  <2>1. PICK e \in {"closed", "open"} : Moves(p, Failed(call[p], e))
    BY <1>7, CallMoves DEF TurnedAway
  <2>2. Failed(call[p], e) \in Calls /\ \A d \in Clients : ~Holds(Failed(call[p], e), d)
    BY CallTyped, CallMoves DEF Errors
  <2>3. QED
    BY <1>6, <1>7, <2>1, <2>2 DEF TurnedAway, TypeOK
<1>8. ASSUME NEW p \in Callers, Answer(p) PROVE PermitInv'
  <2>1. Moves(p, [call[p] EXCEPT !.stage = "ok"]) \/ Moves(p, Misfit(call[p]))
    BY <1>8, CallMoves DEF Answer
  <2>2. /\ Misfit(call[p]) \in Calls /\ \A d \in Clients : ~Holds(Misfit(call[p]), d)
        /\ [call[p] EXCEPT !.stage = "ok"] \in Calls
        /\ \A d \in Clients : ~Holds([call[p] EXCEPT !.stage = "ok"], d)
    <3>1. "none" \in Errors /\ call[p] \in Calls
      BY CallMoves DEF Errors
    <3>2. [call[p] EXCEPT !.stage = "ok"].stage = "ok"
      BY <3>1 DEF Calls
    <3>3. QED
      BY <3>1, <3>2, CallTyped DEF Holds
  <2>3. breaker' \in [Clients -> Breakers]
    BY <1>8, BreakerTyped, CallMoves DEF Answer, TypeOK
  <2>4. Stage(p) = "asking" /\ Release(call[p].client) /\ UNCHANGED lifecycle
    BY <1>8 DEF Answer
  <2>5. QED
    BY <1>6, <2>1, <2>2, <2>3, <2>4
<1>9. ASSUME NEW p \in Callers, Refuse(p) PROVE PermitInv'
  <2>1. Moves(p, Failed(call[p], "rejected"))
    BY <1>9, CallMoves DEF Refuse
  <2>2. /\ Failed(call[p], "rejected") \in Calls
        /\ \A d \in Clients : ~Holds(Failed(call[p], "rejected"), d)
    BY CallTyped, CallMoves DEF Errors
  <2>3. breaker' \in [Clients -> Breakers]
    BY <1>9, BreakerTyped, CallMoves DEF Refuse, TypeOK
  <2>4. QED
    BY <1>6, <1>9, <2>1, <2>2, <2>3 DEF Refuse
<1>10. ASSUME NEW p \in Callers, Drop(p), call[p].attempt < Retries PROVE PermitInv'
  <2> DEFINE k == [call[p] EXCEPT !.attempt = @ + 1]
  <2>1. Moves(p, k) /\ Stage(p) = "asking" /\ UNCHANGED <<breaker, free, lifecycle>>
    BY <1>10, CallMoves DEF Drop
  <2>2. k \in Calls
    BY <1>10, CallTyped, CallMoves DEF Errors
  <2>3. \A d \in Clients : Holds(k, d) <=> Holds(call[p], d)
    BY CallMoves DEF Holds, Calls
  <2> HIDE DEF k
  <2>4. TypeOK'
    BY <2>1, <2>2, TypesByParts DEF TypeOK
  <2>5. QED
    BY <2>1, <2>2, <2>3, <2>4, PermitsStay
<1>11. ASSUME NEW p \in Callers, Drop(p), ~(call[p].attempt < Retries) PROVE PermitInv'
  <2>1. Moves(p, Failed(call[p], "unavailable"))
    BY <1>11, CallMoves DEF Drop
  <2>2. /\ Failed(call[p], "unavailable") \in Calls
        /\ \A d \in Clients : ~Holds(Failed(call[p], "unavailable"), d)
    BY CallTyped, CallMoves DEF Errors
  <2>3. breaker' \in [Clients -> Breakers]
    <3>1. breaker' = [breaker EXCEPT ![call[p].client] = AfterFailure(breaker[call[p].client])]
      BY <1>11, CallMoves DEF Drop, TypeOK
    <3>2. QED
      BY <3>1, BreakerTyped, CallMoves DEF TypeOK
  <2>4. Stage(p) = "asking" /\ Release(call[p].client) /\ UNCHANGED lifecycle
    BY <1>11 DEF Drop
  <2>5. QED
    BY <1>6, <2>1, <2>2, <2>3, <2>4
<1>12. ASSUME NEW p \in Callers, Shut(p) PROVE PermitInv'
  <2>1. Moves(p, Failed(call[p], "closed"))
    BY <1>12, CallMoves DEF Shut
  <2>2. /\ Failed(call[p], "closed") \in Calls
        /\ \A d \in Clients : ~Holds(Failed(call[p], "closed"), d)
    BY CallTyped, CallMoves DEF Errors
  <2>3. QED
    BY <1>6, <1>12, <2>1, <2>2 DEF Shut, TypeOK
<1>13. ASSUME NEW p \in Callers, Collect(p) PROVE PermitInv'
  <2>1. Moves(p, Idle) /\ UNCHANGED <<breaker, free, lifecycle>>
    BY <1>13 DEF Collect, Moves
  <2>2. \A d \in Clients : ~Holds(Idle, d) /\ ~Holds(call[p], d)
    BY <1>13 DEF Collect, Holds, Idle, Stage
  <2>3. TypeOK'
    BY <2>1, IdleTyped, TypesByParts DEF TypeOK
  <2>4. QED
    BY <2>1, <2>2, <2>3, PermitsStay
\* Steps of the clients move no caller.
<1>14. ASSUME UNCHANGED <<free, call>>, breaker' \in [Clients -> Breakers],
              lifecycle' \in {"open", "closing", "closed"}
       PROVE  PermitInv'
  <2>1. TypeOK'
    BY <1>14 DEF TypeOK
  <2>2. PermitsReturned'
    BY <1>14 DEF PermitsReturned, Holders, Stage
  <2>3. QED
    BY <2>1, <2>2
<1>15. ASSUME NEW c \in Clients, Elapse(c) PROVE PermitInv'
  <2>1. breaker' = [breaker EXCEPT ![c] = [breaker[c] EXCEPT !.state = "due"]]
    BY <1>15 DEF Elapse, TypeOK
  <2>2. breaker' \in [Clients -> Breakers]
    BY <2>1, BreakerTyped DEF TypeOK
  <2>3. QED
    BY <1>14, <1>15, <2>2 DEF Elapse, TypeOK
<1>16. CASE Close
  BY <1>14, <1>16 DEF Close, TypeOK
<1>17. CASE CloseTransport
  BY <1>14, <1>17 DEF CloseTransport, TypeOK
<1>18. CASE UNCHANGED clientVars
  BY <1>14, <1>18 DEF clientVars, TypeOK
<1>19. QED
  BY <1>1, <1>2, <1>3, <1>4, <1>5, <1>7, <1>8, <1>9, <1>10, <1>11, <1>12, <1>13, <1>15,
     <1>16, <1>17, <1>18 DEF Next, CallStep

LEMMA AlwaysPermits == Spec => []PermitInv
<1>1. Init => PermitInv
  BY InitPermits
<1>2. PermitInv /\ [Next]_clientVars => PermitInv'
  BY StepPermits
<1>3. QED
  BY <1>1, <1>2, PTL DEF Spec

\* Every variable stays of its type: in particular no semaphore is released
\* more often than it was acquired (the finally clauses of _request and rerank).
THEOREM ClientsTyped == Spec => []TypeOK
<1>1. PermitInv => TypeOK
  BY DEF PermitInv
<1>2. QED
  BY <1>1, AlwaysPermits, PTL

\* A permit is missing only while a caller holds it, whatever way calls end.
THEOREM PermitsComeBack == Spec => []PermitsReturned
<1>1. PermitInv => PermitsReturned
  BY DEF PermitInv
<1>2. QED
  BY <1>1, AlwaysPermits, PTL

-----------------------------------------------------------------------------
(* The other invariants need the types only.                               *)

\* What a call can become by failing or by an answer that does not fit.
LEMMA FailedIs ==
    ASSUME NEW k \in Calls, NEW e \in Errors
    PROVE  /\ Failed(k, e).stage \in {"queued", "failed"}
           /\ Failed(k, e).client = "reranker" => /\ k.client = "reranker"
                                                  /\ Failed(k, e).stage = "failed"
           /\ Failed(k, e).stage = "failed" =>
                  /\ Failed(k, e).error = e
                  /\ Failed(k, e).client = "remote" => k.client = "remote" /\ e \notin Eligible
BY DEF Failed, Calls

LEMMA MisfitIs ==
    ASSUME NEW k \in Calls
    PROVE  /\ Misfit(k).stage \in {"queued", "failed"}
           /\ Misfit(k).client = "reranker" => k.client = "reranker" /\ Misfit(k).stage = "failed"
           /\ Misfit(k).stage = "failed" => Misfit(k).error = "unparseable"
BY DEF Misfit, Calls

\* A step of a caller moves that caller only.
LEMMA OthersStay ==
    ASSUME TypeOK, NEW p \in Callers, NEW k, Moves(p, k)
    PROVE  call'[p] = k /\ \A q \in Callers \ {p} : call'[q] = call[q]
BY DEF TypeOK, Moves

AtReranker(k) == k.client = "reranker" /\ k.stage = "asking"

InRerank(k) == k.client = "reranker" /\ k.stage \in {"queued", "admitted", "asking"}

\* What a caller's step can make of its call: no failure of the remote model that
\* the local one was to make up for, no rerank call begun after close(), and no
\* probe of the reranker left without a caller at the provider.
GoodMove(p, k) ==
    /\ Moves(p, k) /\ UNCHANGED lifecycle
    /\ k.stage = "failed" /\ k.client = "remote" => k.error \in {"rejected", "unparseable", "open"}
    /\ InRerank(k) => InRerank(call[p]) \/ lifecycle = "open"
    /\ breaker["reranker"].probe' => breaker["reranker"].probe \/ AtReranker(k)
    /\ AtReranker(call[p]) =>
           AtReranker(k) \/ ~breaker["reranker"].probe' \/ lifecycle # "open"

\* What a step of the clients themselves can do.
QuietStep ==
    /\ UNCHANGED call
    /\ breaker["reranker"].probe' => breaker["reranker"].probe
    /\ lifecycle' = "open" => lifecycle = "open"
    /\ lifecycle' = "closed" => lifecycle = "closed" \/ Active = {}

LEMMA StepIsGood ==
    ASSUME TypeOK, [Next]_clientVars
    PROVE  QuietStep \/ \E p \in Callers, k \in Calls : GoodMove(p, k)
<1> DEFINE r == breaker["reranker"]
<1>0. "reranker" \in Clients /\ {"busy", "unavailable", "rejected", "open", "closed"} \subseteq Errors
  BY DEF Clients, Errors
<1>1. ASSUME NEW p \in Callers, CallStep(p) PROVE \E k \in Calls : GoodMove(p, k)
  <2> DEFINE c == call[p].client
  <2>1. call[p] \in Calls /\ c \in Clients /\ breaker[c] \in Breakers
    BY CallMoves DEF TypeOK
  <2>2. \A e \in Errors : Failed(call[p], e) \in Calls
    BY <2>1, CallTyped
  <2>3. \A s \in {"queued", "admitted", "asking", "ok"} :
            /\ [call[p] EXCEPT !.stage = s] \in Calls
            /\ [call[p] EXCEPT !.stage = s].stage = s
            /\ [call[p] EXCEPT !.stage = s].client = c
    BY <2>1, CallTyped, <1>0 DEF Calls
  <2>4. CASE Acquire(p)
    <3> DEFINE k == [call[p] EXCEPT !.stage = "admitted"]
    <3>1. k \in Calls /\ k.stage = "admitted" /\ k.client = c
      BY <2>3
    <3>2. Moves(p, k) /\ UNCHANGED <<breaker, lifecycle>> /\ Stage(p) = "queued"
      BY <2>4, CallMoves DEF Acquire
    <3> HIDE DEF k
    <3>3. GoodMove(p, k)
      BY <3>1, <3>2 DEF GoodMove, InRerank, AtReranker, Stage
    <3>4. QED
      BY <3>1, <3>3
  <2>5. CASE QueueTimesOut(p)
    <3> DEFINE k == Failed(call[p], "busy")
    <3>1. /\ k \in Calls /\ k.stage \in {"queued", "failed"}
          /\ k.client = "reranker" => k.stage = "failed"
          /\ k.stage = "failed" => k.error = "busy" /\ k.client # "remote"
      BY <1>0, <2>1, <2>2, FailedIs DEF Eligible
    <3>2. Moves(p, k) /\ UNCHANGED <<breaker, lifecycle>> /\ Stage(p) = "queued"
      BY <2>5, CallMoves DEF QueueTimesOut
    <3> HIDE DEF k
    <3>3. GoodMove(p, k)
      BY <3>1, <3>2 DEF GoodMove, InRerank, AtReranker, Stage
    <3>4. QED
      BY <3>1, <3>3
  <2>6. CASE Enter(p)
    <3>1. r.probe' => r.probe \/ c = "reranker"
      BY <1>0, <2>6 DEF Enter, TypeOK
    <3> DEFINE k == [call[p] EXCEPT !.stage = "asking"]
    <3>2. k \in Calls /\ k.stage = "asking" /\ k.client = c
      BY <2>3
    <3>3. Moves(p, k) /\ UNCHANGED lifecycle /\ Stage(p) = "admitted"
      BY <2>6, CallMoves DEF Enter
    <3> HIDE DEF k
    <3>4. GoodMove(p, k)
      BY <3>1, <3>2, <3>3 DEF GoodMove, InRerank, AtReranker, Stage
    <3>5. QED
      BY <3>2, <3>4
  <2>7. CASE TurnedAway(p)
    <3>1. PICK e \in {"closed", "open"} :
              Moves(p, Failed(call[p], e)) /\ (e = "closed" => call[p].client = "reranker")
      BY <2>7, CallMoves DEF TurnedAway, ShutBeforeEntry
    <3>2. e \in Errors
      BY <1>0
    <3>3. QED
      BY <2>1, <2>2, <2>7, <3>1, <3>2, FailedIs
      DEF TurnedAway, GoodMove, InRerank, AtReranker, Stage
  <2>8. CASE Answer(p)
    <3>1. r.probe' => r.probe /\ c # "reranker"
      BY <1>0, <2>1, <2>8 DEF Answer, TypeOK, Closed
    <3>2. CASE Moves(p, [call[p] EXCEPT !.stage = "ok"])
      BY <2>3, <2>8, <3>1, <3>2 DEF Answer, GoodMove, InRerank, AtReranker, Stage
    <3>3. CASE Moves(p, Misfit(call[p]))
      <4>1. Misfit(call[p]) \in Calls
        BY <2>1, <1>0, CallTyped
      <4>2. QED
        BY <2>1, <2>8, <3>1, <3>3, <4>1, MisfitIs DEF Answer, GoodMove, InRerank, AtReranker, Stage
    <3>4. QED
      BY <2>8, <3>2, <3>3, CallMoves DEF Answer
  <2>9. CASE Refuse(p)
    <3>1. r.probe' => r.probe /\ c # "reranker"
      BY <1>0, <2>1, <2>9 DEF Refuse, TypeOK, AfterRefusal, AfterFailure
    <3>2. Moves(p, Failed(call[p], "rejected")) /\ UNCHANGED lifecycle
      BY <2>9, CallMoves DEF Refuse
    <3>3. QED
      BY <1>0, <2>1, <2>2, <3>1, <3>2, FailedIs DEF GoodMove, InRerank, AtReranker
  <2>10. CASE Drop(p) /\ call[p].attempt < Retries
    <3> DEFINE k == [call[p] EXCEPT !.attempt = @ + 1]
    <3>1. k \in Calls /\ k.stage = Stage(p) /\ k.client = c
      BY <1>0, <2>1, <2>10, CallTyped DEF Calls, Stage
    <3>2. Moves(p, k) /\ UNCHANGED <<breaker, lifecycle>> /\ Stage(p) = "asking"
      BY <2>10, CallMoves DEF Drop
    <3> HIDE DEF k
    <3>3. QED
      BY <3>1, <3>2 DEF GoodMove, InRerank, AtReranker, Stage
  <2>11. CASE Drop(p) /\ ~(call[p].attempt < Retries)
    <3>1. r.probe' => r.probe /\ c # "reranker"
      BY <1>0, <2>1, <2>11 DEF Drop, TypeOK, AfterFailure
    <3>2. Moves(p, Failed(call[p], "unavailable")) /\ UNCHANGED lifecycle
      BY <2>11, CallMoves DEF Drop
    <3>3. QED
      BY <1>0, <2>1, <2>2, <3>1, <3>2, FailedIs DEF Eligible, GoodMove, InRerank, AtReranker
  <2>12. CASE Shut(p)
    <3>1. call[p].client = "reranker"
      BY <2>12 DEF Shut
    <3>2. /\ Moves(p, Failed(call[p], "closed")) /\ UNCHANGED <<breaker, lifecycle>>
          /\ lifecycle # "open"
      BY <2>12, CallMoves DEF Shut
    <3>3. QED
      BY <1>0, <2>1, <2>2, <3>1, <3>2, FailedIs DEF GoodMove, InRerank, AtReranker
  <2>13. QED
    BY <1>1, <2>4, <2>5, <2>6, <2>7, <2>8, <2>9, <2>10, <2>11, <2>12 DEF CallStep
<1>2. ASSUME NEW p \in Callers, BeginChat(p) PROVE \E k \in Calls : GoodMove(p, k)
  <2>1. PICK n \in 0..Repairs : Moves(p, [Idle EXCEPT !.stage = "queued", !.repairs = n])
    BY <1>2 DEF BeginChat, Moves
  <2> DEFINE k == [Idle EXCEPT !.stage = "queued", !.repairs = n]
  <2>2. k \in Calls /\ k.stage = "queued" /\ k.client = "remote"
    BY IdleTyped DEF Idle
  <2> HIDE DEF k
  <2>3. QED
    BY <1>2, <2>1, <2>2 DEF BeginChat, GoodMove, InRerank, AtReranker, Stage, k
<1>3. ASSUME NEW p \in Callers, BeginRerank(p) PROVE \E k \in Calls : GoodMove(p, k)
  <2> DEFINE queued == [Idle EXCEPT !.client = "reranker", !.stage = "queued"]
             shut == [Idle EXCEPT !.client = "reranker", !.stage = "failed", !.error = "closed"]
  <2>1. /\ queued \in Calls /\ queued.stage = "queued" /\ queued.client = "reranker"
        /\ shut \in Calls /\ shut.stage = "failed" /\ shut.client = "reranker"
    BY IdleTyped DEF Idle
  <2>2. IF lifecycle = "open" THEN Moves(p, queued) ELSE Moves(p, shut)
    BY <1>3 DEF BeginRerank, Moves
  <2> HIDE DEF queued, shut
  <2>3. QED
    BY <1>3, <2>1, <2>2 DEF BeginRerank, GoodMove, InRerank, AtReranker, Stage
<1>4. ASSUME NEW p \in Callers, Collect(p) PROVE \E k \in Calls : GoodMove(p, k)
  <2>1. Idle \in Calls /\ Idle.stage = "idle" /\ Moves(p, Idle)
    BY <1>4, IdleTyped DEF Idle, Collect, Moves
  <2>2. QED
    BY <1>4, <2>1 DEF Collect, GoodMove, InRerank, AtReranker, Stage
<1>5. ASSUME NEW c \in Clients, Elapse(c) PROVE QuietStep
  <2>1. r.probe' => r.probe
    BY <1>0, <1>5 DEF Elapse, TypeOK, Breakers
  <2>2. QED
    BY <1>5, <2>1 DEF Elapse, QuietStep
<1>6. ASSUME Close \/ CloseTransport \/ UNCHANGED clientVars PROVE QuietStep
  BY <1>6 DEF Close, CloseTransport, clientVars, QuietStep
<1>7. QED
  BY <1>1, <1>2, <1>3, <1>4, <1>5, <1>6 DEF Next

\* The mark of a running probe never outlives the calls that can clear it.
THEOREM ProbeIsAlwaysAnswered == Spec => []ProbeIsAnswered
<1> DEFINE r == breaker["reranker"]
<1>1. Init => ProbeIsAnswered
  BY DEF Init, ProbeIsAnswered, Closed, Clients
<1>2. TypeOK /\ ProbeIsAnswered /\ [Next]_clientVars => ProbeIsAnswered'
  <2> SUFFICES ASSUME TypeOK, ProbeIsAnswered, [Next]_clientVars, r.probe', lifecycle' = "open"
               PROVE  \E q \in Callers : AtReranker(call'[q])
    BY DEF ProbeIsAnswered, AtReranker, Stage
  <2>1. CASE QuietStep
    BY <2>1 DEF QuietStep, ProbeIsAnswered, AtReranker, Stage
  <2>2. ASSUME NEW p \in Callers, NEW k \in Calls, GoodMove(p, k)
        PROVE  \E q \in Callers : AtReranker(call'[q])
    <3>1. call'[p] = k /\ \A q \in Callers \ {p} : call'[q] = call[q]
      BY <2>2, OthersStay DEF GoodMove
    <3>2. CASE AtReranker(k)
      BY <3>1, <3>2
    <3>3. CASE ~AtReranker(k)
      <4>1. r.probe /\ lifecycle = "open"
        BY <2>2, <3>3 DEF GoodMove
      <4>2. PICK q \in Callers : AtReranker(call[q])
        BY <4>1 DEF ProbeIsAnswered, AtReranker, Stage
      <4>3. q # p
        BY <2>2, <3>3, <4>1, <4>2 DEF GoodMove
      <4>4. QED
        BY <3>1, <4>2, <4>3
    <3>4. QED
      BY <3>2, <3>3
  <2>3. QED
    BY <2>1, <2>2, StepIsGood
<1>3. QED
  BY <1>1, <1>2, ClientsTyped, PTL DEF Spec

\* A call of the remote model alone ends in a rejection, in answers that do not fit
\* the schema, or at its open circuit.
RemoteEnds ==
    \A p \in Callers :
        Stage(p) = "failed" /\ call[p].client = "remote" =>
            call[p].error \in {"rejected", "unparseable", "open"}

\* Of the outages python_agent/README.md hands to the local model the open circuit
\* is the only one FallbackLLMClient lets end a call; FallbackIsTried fails by it
\* and by nothing else.
THEOREM OnlyOpenCircuitEscapes == Spec => []RemoteEnds
<1>1. Init => RemoteEnds
  BY DEF Init, RemoteEnds, Stage, Idle
<1>2. TypeOK /\ RemoteEnds /\ [Next]_clientVars => RemoteEnds'
  <2> SUFFICES ASSUME TypeOK, RemoteEnds, [Next]_clientVars PROVE RemoteEnds'
    OBVIOUS
  <2>1. CASE QuietStep
    BY <2>1 DEF QuietStep, RemoteEnds, Stage
  <2>2. ASSUME NEW p \in Callers, NEW k \in Calls, GoodMove(p, k) PROVE RemoteEnds'
    <3>1. call'[p] = k /\ \A q \in Callers \ {p} : call'[q] = call[q]
      BY <2>2, OthersStay DEF GoodMove
    <3>2. k.stage = "failed" /\ k.client = "remote" => k.error \in {"rejected", "unparseable", "open"}
      BY <2>2 DEF GoodMove
    <3>3. QED
      BY <3>1, <3>2 DEF RemoteEnds, Stage
  <2>3. QED
    BY <2>1, <2>2, StepIsGood
<1>3. QED
  BY <1>1, <1>2, ClientsTyped, PTL DEF Spec

\* A step that moves a call from the remote model to the local one.
LEMMA OutageMoves ==
    ASSUME TypeOK, [Next]_clientVars, NEW p \in Callers,
           call[p].client = "remote", call'[p].client = "ollama"
    PROVE  \/ Stage(p) = "queued" /\ free["remote"] = 0
           \/ /\ Stage(p) = "asking" /\ call[p].attempt = Retries
              /\ breaker'["remote"] = AfterFailure(breaker["remote"])
<1> DEFINE k == call[p]
<1>0. /\ k \in Calls /\ k.attempt \in 0..Retries /\ Retries \in Nat
      /\ call \in [Callers -> Calls] /\ breaker \in [Clients -> Breakers] /\ "remote" \in Clients
  BY ClientsAssumption DEF TypeOK, Calls, Clients, Chats
<1>1. /\ Misfit(k).client = "remote" /\ Idle.client = "remote"
      /\ \A s : [k EXCEPT !.stage = s].client = "remote"
      /\ [k EXCEPT !.attempt = @ + 1].client = "remote"
      /\ \A e \in {"rejected", "open", "closed"} : Failed(k, e).client = "remote"
  BY <1>0 DEF Misfit, Failed, Eligible, Idle, Calls
<1>2. ASSUME NEW q \in Callers, q # p, NEW x, call' = [call EXCEPT ![q] = x] PROVE FALSE
  BY <1>0, <1>2
<1>3. ASSUME NEW q \in Callers,
             BeginChat(q) \/ BeginRerank(q) \/ CallStep(q) \/ Collect(q)
      PROVE  q = p
  <2>1. \E x : call' = [call EXCEPT ![q] = x]
    BY <1>0, <1>3 DEF BeginChat, BeginRerank, CallStep, Collect, Acquire, QueueTimesOut, Enter, TurnedAway,
                Answer, Refuse, Drop, Shut
  <2>2. QED
    BY <1>2, <2>1
<1>4. CASE CallStep(p)
  <2>1. ~(Acquire(p) \/ Enter(p) \/ TurnedAway(p) \/ Answer(p) \/ Refuse(p) \/ Shut(p))
    <3>1. ASSUME NEW x, x.client = "remote", call' = [call EXCEPT ![p] = x] PROVE FALSE
      BY <1>0, <3>1
    <3>2. QED
      BY <1>0, <1>1, <3>1, CallMoves DEF Moves, Acquire, Enter, TurnedAway, Answer, Refuse, Shut
  <2>2. CASE QueueTimesOut(p)
    BY <2>2 DEF QueueTimesOut
  <2>3. CASE Drop(p)
    <3>1. ~(k.attempt < Retries)
      BY <1>0, <1>1, <2>3, CallMoves DEF Drop, Moves
    <3>2. QED
      BY <1>0, <2>3, <3>1 DEF Drop
  <2>4. QED
    BY <1>4, <2>1, <2>2, <2>3 DEF CallStep
<1>5. ~(BeginChat(p) \/ BeginRerank(p) \/ Collect(p))
  BY <1>0, <1>1 DEF BeginChat, BeginRerank, Collect, Idle
<1>6. call' # call
  BY <1>0
<1>7. QED
  BY <1>3, <1>4, <1>5, <1>6 DEF Next, Elapse, Close, CloseTransport, clientVars

\* "Remote authentication/validation errors are deliberately not eligible for
\* fallback" (python_agent/README.md), for any number of callers, retries and permits.
THEOREM LocalOnlyForOutage == Spec => LocalStandsInForOutage
<1>1. TypeOK /\ [Next]_clientVars =>
          [\A p \in Callers : call[p].client = "remote" /\ call'[p].client = "ollama" =>
               \/ Stage(p) = "queued" /\ free["remote"] = 0
               \/ /\ Stage(p) = "asking" /\ call[p].attempt = Retries
                  /\ breaker'["remote"] = AfterFailure(breaker["remote"])]_clientVars
  BY OutageMoves
<1>2. QED
  BY <1>1, ClientsTyped, PTL DEF Spec, LocalStandsInForOutage

\* Nobody is inside a rerank call once its transport is gone.
THEOREM CloseIsAlwaysQuiet == Spec => []CloseIsQuiet
<1>1. Init => CloseIsQuiet
  BY DEF Init, CloseIsQuiet
<1>2. TypeOK /\ CloseIsQuiet /\ [Next]_clientVars => CloseIsQuiet'
  <2> SUFFICES ASSUME TypeOK, CloseIsQuiet, [Next]_clientVars, lifecycle' = "closed"
               PROVE  \A q \in Callers : ~InRerank(call'[q])
    BY DEF CloseIsQuiet, Active, InRerank, Stage
  <2>1. CASE QuietStep
    BY <2>1 DEF QuietStep, CloseIsQuiet, Active, InRerank, Stage
  <2>2. ASSUME NEW p \in Callers, NEW k \in Calls, GoodMove(p, k)
        PROVE  \A q \in Callers : ~InRerank(call'[q])
    <3>1. call'[p] = k /\ \A q \in Callers \ {p} : call'[q] = call[q]
      BY <2>2, OthersStay DEF GoodMove
    <3>2. \A q \in Callers : ~InRerank(call[q])
      BY <2>2 DEF GoodMove, CloseIsQuiet, Active, InRerank, Stage
    <3>3. ~InRerank(k)
      BY <2>2, <3>2 DEF GoodMove
    <3>4. QED
      BY <3>1, <3>2, <3>3
  <2>3. QED
    BY <2>1, <2>2, StepIsGood
<1>3. QED
  BY <1>1, <1>2, ClientsTyped, PTL DEF Spec
=============================================================================
