------------------------ MODULE KnowledgeSearchProofs ------------------------
(***************************************************************************)
(* What the results of KnowledgeSearch guarantee, for every knowledge base *)
(* and every filter: the lemmas that the proofs about Consultation and     *)
(* ReviewDecision rest on.                                                 *)
(***************************************************************************)
EXTENDS KnowledgeSearch, TLAPS

\* What a search that found something under a filter plan hands on.
FoundUnder(corpus, asks, recall) ==
    /\ recall.plan \subseteq asks
    /\ recall.hits \subseteq Matches(corpus, asks, recall.plan)


\* The contract of retrieve(mode "rerank").
SoundSearch(corpus, asks, configured, r) ==
    /\ r \in Results
    /\ r.trusted \subseteq HardFilter(corpus) \cap r.rated
    /\ \A c \in r.trusted : c.misses \cap asks = {}
    /\ r.eligible =>
           r.mode = "hybrid_reranked" /\ r.plan = Strict /\ r.reranked /\ configured

\* The contract of retrieve_multi.
SoundMultiSearch(corpus, configured, r) ==
    /\ r \in Results
    /\ r.mode # "hybrid_reranked"
    /\ r.trusted \subseteq HardFilter(corpus)
    /\ configured => r.trusted \subseteq r.rated
    /\ r.trusted # {} => r.mode \in MultiQueryModes
    /\ r.eligible =>
           /\ r.mode \in MultiQueryModes /\ r.plan = Strict
           /\ r.reranked \/ r.mode = "multi_query_rrf"

-----------------------------------------------------------------------------
\* A relaxed plan drops optional fields only: no plan matches a chunk that the
\* hard filters exclude, and the strict plan no chunk written for another field.
LEMMA MatchesSound ==
    ASSUME NEW corpus, NEW asks, NEW plan
    PROVE  /\ Matches(corpus, asks, plan) \subseteq HardFilter(corpus)
           /\ plan = Strict =>
                  \A c \in Matches(corpus, asks, plan) : c.misses \cap asks = {}
BY DEF Matches, Strict

LEMMA RecallsSound ==
    ASSUME NEW corpus \in SUBSET Chunks, NEW asks \in SUBSET Fields,
           NEW recall \in Recalls(corpus, asks)
    PROVE  FoundUnder(corpus, asks, recall)
<1>1. PICK d \in SUBSET asks : \E found \in Recalled(corpus, asks, d) :
          recall = [plan |-> d, hits |-> found]
  BY DEF Recalls, FilterPlans
<1>2. PICK found \in Recalled(corpus, asks, d) : recall = [plan |-> d, hits |-> found]
  BY <1>1
<1>3. found \subseteq Matches(corpus, asks, d)
  BY <1>2 DEF Recalled, DenseRecall, KeywordRecall
<1>4. QED
  BY <1>2, <1>3 DEF FoundUnder

\* What fails does so within the corpus.
LEMMA FailedSearchesSound ==
    ASSUME NEW corpus \in SUBSET Chunks, NEW asks \in SUBSET Fields,
           NEW r \in FailedSearches(corpus, asks) \cup {Exhausted(asks)}
    PROVE  /\ r \in Results /\ r.trusted = {} /\ r.eligible = FALSE
           /\ r.hits \subseteq HardFilter(corpus)
<1>0. /\ "pgvector_error" \in Modes /\ "embedding_error" \in Modes
      /\ "pgvector_relaxed_filters" \in Modes /\ {} \in SUBSET Chunks
  BY DEF Modes
<1>1. CASE r \in {Untrusted("pgvector_error", d, {}) : d \in FilterPlans(asks)}
  <2>1. PICK d \in SUBSET asks : r = Untrusted("pgvector_error", d, {})
    BY <1>1 DEF FilterPlans
  <2>2. d \in SUBSET Fields
    OBVIOUS
  <2>3. QED
    BY <1>0, <2>1, <2>2 DEF Untrusted, Results
<1>2. CASE r \in {Untrusted("embedding_error", Strict, found) :
                      found \in KeywordRecall(corpus, asks, Strict)}
  <2>1. PICK found \in SUBSET Matches(corpus, asks, Strict) :
            r = Untrusted("embedding_error", Strict, found)
    BY <1>2 DEF KeywordRecall
  <2>2. found \subseteq HardFilter(corpus) /\ found \in SUBSET Chunks
    BY MatchesSound DEF HardFilter
  <2>3. QED
    BY <1>0, <2>1, <2>2 DEF Untrusted, Results, Strict
<1>3. CASE r = Exhausted(asks)
  BY <1>0, <1>3 DEF Exhausted, Untrusted, Results
<1>4. QED
  BY <1>1, <1>2, <1>3 DEF FailedSearches

\* The first search of a turn: trusted are only chunks that the reranker rated
\* and the strict filters let pass.
LEMMA SearchesSound ==
    ASSUME NEW corpus \in SUBSET Chunks, NEW asks \in SUBSET Fields,
           NEW configured \in BOOLEAN, NEW r \in Searches(corpus, asks, configured)
    PROVE  SoundSearch(corpus, asks, configured, r)
<1>1. CASE r \in FailedSearches(corpus, asks) \cup {Exhausted(asks)}
  BY <1>1, FailedSearchesSound DEF SoundSearch
<1>2. CASE r \notin FailedSearches(corpus, asks) \cup {Exhausted(asks)}
  <2>1. PICK recall \in Recalls(corpus, asks) :
            r \in {FinalizeReranked(recall, succeeded, rated) :
                       succeeded \in RerankerAnswers(configured), rated \in SUBSET recall.hits}
    BY <1>2 DEF Searches
  <2>0. PICK succeeded \in RerankerAnswers(configured), rated \in SUBSET recall.hits :
            r = FinalizeReranked(recall, succeeded, rated)
    BY <2>1
  <2>5. succeeded \in BOOLEAN /\ (succeeded => configured)
    BY DEF RerankerAnswers
  <2>6. FoundUnder(corpus, asks, recall)
    BY RecallsSound
  <2>7. /\ Matches(corpus, asks, recall.plan) \subseteq HardFilter(corpus)
        /\ recall.plan = Strict =>
               \A c \in Matches(corpus, asks, recall.plan) : c.misses \cap asks = {}
    BY MatchesSound
  <2>2. /\ recall.plan \in SUBSET Fields /\ recall.hits \in SUBSET Chunks
        /\ recall.hits \subseteq HardFilter(corpus)
        /\ recall.plan = Strict => \A c \in recall.hits : c.misses \cap asks = {}
    BY <2>6, <2>7 DEF FoundUnder, HardFilter
  <2>3. CASE ~succeeded \/ recall.plan # Strict
    <3>1. r = [Untrusted("hybrid_rrf_degraded", recall.plan, recall.hits)
                   EXCEPT !.reranked = succeeded]
      BY <2>0, <2>3 DEF FinalizeReranked
    <3>2. r \in Results /\ r.trusted = {} /\ r.eligible = FALSE
      BY <2>2, <2>5, <3>1 DEF Untrusted, Results, Modes
    <3>3. QED
      BY <3>2 DEF SoundSearch
  <2>4. CASE succeeded /\ recall.plan = Strict
    <3>1. r = [mode |-> "hybrid_reranked", plan |-> Strict, hits |-> rated, rated |-> rated,
               trusted |-> rated, reranked |-> TRUE, eligible |-> rated # {}]
      BY <2>0, <2>4 DEF FinalizeReranked
    <3>2. r \in Results
      BY <2>2, <3>1 DEF Results, Modes, Strict
    <3>3. QED
      BY <2>2, <2>4, <2>5, <3>1, <3>2 DEF SoundSearch
  <2>8. QED
    BY <2>3, <2>4, <2>5
<1>3. QED
  BY <1>1, <1>2

\* The multi-query search: the hard filters hold, and what a configured reranker
\* did not rate is not trusted.  (Its plan is the strict one by relabelling.)
LEMMA MultiSearchesSound ==
    ASSUME NEW corpus \in SUBSET Chunks, NEW asks \in SUBSET Fields,
           NEW configured \in BOOLEAN, NEW r \in MultiSearches(corpus, asks, configured)
    PROVE  SoundMultiSearch(corpus, configured, r)
<1>1. ASSUME NEW s \in CandidateSearches(corpus, asks)
      PROVE  s.hits \subseteq HardFilter(corpus)
  <2>1. CASE s \in FailedSearches(corpus, asks) \cup {Exhausted(asks)}
    BY <2>1, FailedSearchesSound
  <2>2. CASE s \notin FailedSearches(corpus, asks) \cup {Exhausted(asks)}
    <3>1. PICK recall \in Recalls(corpus, asks) : s = Untrusted("rrf", recall.plan, recall.hits)
      BY <1>1, <2>2 DEF CandidateSearches
    <3>2. recall.hits \subseteq HardFilter(corpus)
      BY RecallsSound, MatchesSound DEF FoundUnder
    <3>3. QED
      BY <3>1, <3>2 DEF Untrusted
  <2>3. QED
    BY <2>1, <2>2
<1>2. CASE r = Untrusted("multi_query_error", Strict, {})
  BY <1>2 DEF SoundMultiSearch, Untrusted, Results, Modes, MultiQueryModes, Strict
<1>3. CASE r # Untrusted("multi_query_error", Strict, {})
  <2>1. PICK s \in CandidateSearches(corpus, asks), u \in CandidateSearches(corpus, asks) :
            r \in {MultiResult(FuseRankings({s, u}), configured, succeeded, rated) :
                       succeeded \in BOOLEAN, rated \in SUBSET FuseRankings({s, u})}
    BY <1>3 DEF MultiSearches
  <2> DEFINE fused == FuseRankings({s, u})
  <2>0. PICK succeeded \in BOOLEAN, rated \in SUBSET fused :
            r = MultiResult(fused, configured, succeeded, rated)
    BY <2>1
  <2>2. fused \subseteq HardFilter(corpus) /\ fused \in SUBSET Chunks /\ rated \subseteq fused
    BY <1>1 DEF FuseRankings, HardFilter
  <2> HIDE DEF fused
  <2>3. CASE fused = {}
    <3>1. r = Untrusted("multi_query_empty", Strict, {})
      BY <2>0, <2>3 DEF MultiResult
    <3>2. QED
      BY <3>1 DEF SoundMultiSearch, Untrusted, Results, Modes, MultiQueryModes, Strict
  <2>4. CASE fused # {} /\ ~configured
    <3>1. r = [mode |-> "multi_query_rrf", plan |-> Strict, hits |-> fused, rated |-> {},
               trusted |-> fused, reranked |-> FALSE, eligible |-> TRUE]
      BY <2>0, <2>4 DEF MultiResult
    <3>2. r \in Results
      BY <2>2, <3>1 DEF Results, Modes, Strict
    <3>3. QED
      BY <2>2, <2>4, <3>1, <3>2 DEF SoundMultiSearch, MultiQueryModes
  <2>5. CASE fused # {} /\ configured /\ ~succeeded
    <3>1. r = Untrusted("multi_query_rrf_degraded", Strict, fused)
      BY <2>0, <2>5 DEF MultiResult
    <3>2. QED
      BY <2>2, <3>1 DEF SoundMultiSearch, Untrusted, Results, Modes, MultiQueryModes, Strict
  <2>6. CASE fused # {} /\ configured /\ succeeded
    <3>1. r = [mode |-> "multi_query_reranked", plan |-> Strict, hits |-> rated, rated |-> rated,
               trusted |-> rated, reranked |-> TRUE, eligible |-> rated # {}]
      BY <2>0, <2>6 DEF MultiResult
    <3>2. r \in Results
      BY <2>2, <3>1 DEF Results, Modes, Strict
    <3>3. QED
      BY <2>2, <2>6, <3>1, <3>2 DEF SoundMultiSearch, MultiQueryModes
  <2>7. QED
    BY <2>3, <2>4, <2>5, <2>6
<1>4. QED
  BY <1>2, <1>3
=============================================================================
