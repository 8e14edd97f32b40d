--------------------------- MODULE KnowledgeSearch ---------------------------
(***************************************************************************)
(* What one search of the policy knowledge may return: the filter plans,   *)
(* the two recall channels, rank fusion, the reranker and the trust marks  *)
(* (retrieval/pgvector_retriever.py and the modules it delegates to), for  *)
(* the searches the agent makes: source type after_sales_policy, modes     *)
(* rerank and, for the queries of a multi-query search, rrf.               *)
(*                                                                         *)
(* A chunk is what the filters can tell apart about it: whether it passes  *)
(* the hard filters (published revision, merchant, validity, version) and  *)
(* which of the optional fields it was written for another value of.  A    *)
(* filter plan is the set of optional fields it no longer asks for; the    *)
(* strict plan is the empty set.                                           *)
(***************************************************************************)
Fields == {"category", "scene"}

Chunks == [valid : BOOLEAN, misses : SUBSET Fields]

Strict == {}

Modes == {"hybrid_reranked", "hybrid_rrf_degraded", "rrf", "pgvector_relaxed_filters",
          "pgvector_error", "embedding_error", "multi_query_reranked", "multi_query_rrf",
          "multi_query_rrf_degraded", "multi_query_empty", "multi_query_error"}

\* The results of a multi-query search that may be trusted.
MultiQueryModes == {"multi_query_reranked", "multi_query_rrf"}

\* "rated" are the chunks the reranker scored above the threshold, "trusted" the
\* hits marked trusted_policy_eligible, "eligible" that mark of the result itself.
Results == [mode : Modes, plan : SUBSET Fields, hits : SUBSET Chunks, rated : SUBSET Chunks,
            trusted : SUBSET Chunks, reranked : BOOLEAN, eligible : BOOLEAN]

Untrusted(mode, plan, hits) ==
    [mode |-> mode, plan |-> plan, hits |-> hits, rated |-> {}, trusted |-> {},
     reranked |-> FALSE, eligible |-> FALSE]

-----------------------------------------------------------------------------
\* The plans, from the strict one to the one without any optional field.
FilterPlans(asks) == SUBSET asks

\* Mutant of HardFilter: unpublished and expired chunks are found as well.
NoHardFilter(corpus) == corpus

HardFilter(corpus) == {c \in corpus : c.valid}

Matches(corpus, asks, plan) == {c \in HardFilter(corpus) : c.misses \cap asks \subseteq plan}

\* The nearest chunks by embedding: the index is approximate, so any of them.
DenseRecall(corpus, asks, plan) == SUBSET Matches(corpus, asks, plan)

\* The chunks that share a token with the question: any of them, or none.
KeywordRecall(corpus, asks, plan) == SUBSET Matches(corpus, asks, plan)

\* rrf_fuse: a chunk counts when one of the two channels found it.
Recalled(corpus, asks, plan) ==
    {dense \cup keyword : dense \in DenseRecall(corpus, asks, plan),
                          keyword \in KeywordRecall(corpus, asks, plan)}

\* A later plan is tried only when the ones before it found nothing, which the
\* channels may do under any plan; exhausted plans leave a result without hits.
Recalls(corpus, asks) ==
    UNION {{[plan |-> d, hits |-> found] : found \in Recalled(corpus, asks, d) \ {{}}} :
               d \in FilterPlans(asks)}

Exhausted(asks) == Untrusted("pgvector_relaxed_filters", asks, {})

\* The index or the keyword search fails under some plan; the query cannot be
\* embedded: then the keyword channel alone is searched, under the strict plan.
FailedSearches(corpus, asks) ==
    {Untrusted("pgvector_error", d, {}) : d \in FilterPlans(asks)}
        \cup {Untrusted("embedding_error", Strict, found) : found \in KeywordRecall(corpus, asks, Strict)}

\* _finalize_reranked_result: only under the strict plan, and only when the
\* reranker answered, are hits below the threshold dropped and the rest trusted.
FinalizeReranked(recall, succeeded, rated) ==
    IF ~succeeded \/ recall.plan # Strict
    THEN [Untrusted("hybrid_rrf_degraded", recall.plan, recall.hits) EXCEPT !.reranked = succeeded]
    ELSE [mode |-> "hybrid_reranked", plan |-> Strict, hits |-> rated, rated |-> rated,
          trusted |-> rated, reranked |-> TRUE, eligible |-> rated # {}]

\* Whether the reranker answers: one that is not configured never does.
RerankerAnswers(configured) == IF configured THEN BOOLEAN ELSE {FALSE}

\* retrieve(mode "rerank"): the results of the first search of a turn.
Searches(corpus, asks, configured) ==
    (UNION {{FinalizeReranked(recall, succeeded, rated) :
                 succeeded \in RerankerAnswers(configured), rated \in SUBSET recall.hits} :
                     recall \in Recalls(corpus, asks)})
        \cup {Exhausted(asks)} \cup FailedSearches(corpus, asks)

-----------------------------------------------------------------------------
\* retrieve(mode "rrf"), one query of a multi-query search.
CandidateSearches(corpus, asks) ==
    {Untrusted("rrf", recall.plan, recall.hits) : recall \in Recalls(corpus, asks)}
        \cup {Exhausted(asks)} \cup FailedSearches(corpus, asks)

\* rrf_fuse_rankings: the hits of all queries, whatever plan or failure each
\* query's own result stands for.
FuseRankings(results) == UNION {r.hits : r \in results}

\* retrieve_multi with the fused hits, relabelled with the strict plan.  Each
\* query reranks them and a hit keeps its best score, so one answer of the
\* reranker is enough; without a configured reranker the fusion is trusted.
MultiResult(fused, configured, succeeded, rated) ==
    CASE fused = {} -> Untrusted("multi_query_empty", Strict, {})
      [] fused # {} /\ ~configured ->
             [mode |-> "multi_query_rrf", plan |-> Strict, hits |-> fused, rated |-> {},
              trusted |-> fused, reranked |-> FALSE, eligible |-> TRUE]
      [] fused # {} /\ configured /\ ~succeeded -> Untrusted("multi_query_rrf_degraded", Strict, fused)
      [] OTHER ->
             [mode |-> "multi_query_reranked", plan |-> Strict, hits |-> rated, rated |-> rated,
              trusted |-> rated, reranked |-> TRUE, eligible |-> rated # {}]

\* A query whose search raises leaves no result; when all do, so does the search.
MultiSearches(corpus, asks, configured) ==
    LET candidates == CandidateSearches(corpus, asks)
        fusions == {FuseRankings({r, s}) : r \in candidates, s \in candidates}
    IN  (UNION {{MultiResult(fused, configured, succeeded, rated) :
                     succeeded \in BOOLEAN, rated \in SUBSET fused} : fused \in fusions})
            \cup {Untrusted("multi_query_error", Strict, {})}

-----------------------------------------------------------------------------
\* RagRetrievalPolicy: after these the question is not rewritten.
IsInfrastructureFailure(r) ==
    r.mode \in {"hybrid_rrf_degraded", "multi_query_rrf_degraded", "pgvector_error",
                "embedding_error", "multi_query_error"}

\* ConsultationWorkflow._trusted_hits: what a chat answer may rest on.
TrustedHits(r) ==
    IF /\ r.eligible
       /\ r.plan = Strict
       /\ r.reranked \/ r.mode = "multi_query_rrf"
       /\ r.mode \in {"hybrid_reranked"} \cup MultiQueryModes
    THEN r.trusted
    ELSE {}
=============================================================================
