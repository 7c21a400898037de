------------------------------ MODULE Retrieval ------------------------------
(***************************************************************************)
(* One request to hybrid retrieval (packages/pipeline), from the debug     *)
(* endpoint or from a hop of the agent's plan: the requested authority     *)
(* levels become a document allow-list, two searches run side by side      *)
(* under it, their rankings are fused by reciprocal rank, guarded and cut; *)
(* the agent then reranks what is left with the provider of its flags.     *)
(*                                                                         *)
(* What the indexes find is open: any ranking of the chunks by vector, any *)
(* ranking of some of them by text.  So are the replies of the rerankers:  *)
(* an index may be left out, named twice, or be of no candidate.           *)
(***************************************************************************)
EXTENDS Naturals, FiniteSets, Sequences, SequencesExt

CONSTANTS
  Keys,       \* the stored chunks' path keys, numbers in the order of the strings
  Documents,
  DocOf,      \* the document of each key
  LevelOf,    \* the authority of each document, 0 the highest
  Corpora,    \* the document ids the service may know, none when it is given none
  Windows,    \* the pairs of a topK and a per-stage factor that are asked for
  RrfK,       \* the damping constant
  MaxReply    \* the longest ranking the model, or Cohere, replies with

Levels == {LevelOf[d] : d \in Documents}
Stages == {"vector", "bm25"}
Providers == {"off", "authority", "llm", "cohere"}

ASSUME RetrievalAssumption ==
  /\ Keys \subseteq Nat /\ IsFiniteSet(Keys) /\ RrfK \in Nat /\ MaxReply \in Nat
  /\ DocOf \in [Keys -> Documents] /\ LevelOf \in [Documents -> Nat]
  /\ Corpora \subseteq SUBSET Documents
  /\ Windows \subseteq (Nat \ {0}) \X (Nat \ {0})

\* retrieveDebugRequestSchema, planSchema: the levels may be left out; only the
\* planner may send a list of none.
Asked == [caller : {"debug", "agent"}, mode : {"hybrid", "vector"}, filtered : BOOLEAN,
          levels : SUBSET Levels, topK : {w[1] : w \in Windows},
          factor : {w[2] : w \in Windows}, known : Corpora]
Requests ==
  {q \in Asked :
     /\ <<q.topK, q.factor>> \in Windows
     /\ ~q.filtered => q.levels = {}
     /\ q.caller = "debug" => (q.filtered => q.levels # {})
     /\ q.caller = "agent" => q.mode = "hybrid"}

VARIABLES
  phase,       \* how far the request is
  request,
  ranking,     \* how each index ranks the whole store for this question, once searched
  hits,        \* what each stage returned
  candidates,  \* what retrieveHybrid returns
  ranked,      \* what the rerank node leaves
  provider,    \* the reranker that ran
  repeated     \* a history: whether its reply doubled a candidate

vars == <<phase, request, ranking, hits, candidates, ranked, provider, repeated>>

Nothing == [s \in {} |-> <<>>]

Rankings == SetToSeqs(Keys)
TextRankings == UNION {SetToSeqs(found) : found \in SUBSET Keys}

-----------------------------------------------------------------------------
(* The pure parts.                                                         *)

\* A finite set listed in the strict total order R, a set of pairs.
InOrder(S, R) ==
  [i \in 1..Cardinality(S) |-> CHOOSE x \in S : Cardinality({y \in S : <<y, x>> \in R}) = i - 1]

\* R, and T among what R does not tell apart.
ThenBy(R, T) == R \cup {p \in T : <<p[2], p[1]>> \notin R}

Ascending(S) == {p \in S \X S : p[1] < p[2]}

\* The place of a key in a list, 0 when it is not there, and the order of a list.
RankIn(s, k) == IF k \in ToSet(s) THEN CHOOSE i \in DOMAIN s : s[i] = k ELSE 0
OrderOf(s) == {p \in ToSet(s) \X ToSet(s) : RankIn(s, p[1]) < RankIn(s, p[2])}

\* What is left of a list without repetition, and how it begins.
Restricted(s, S) == InOrder(ToSet(s) \cap S, OrderOf(s))
FirstOf(s, n) == SubSeq(s, 1, IF n < Len(s) THEN n ELSE Len(s))

\* Array.sort keeps what its comparison does not tell apart in order.
Sorted(s, R) == InOrder(ToSet(s), ThenBy(R, OrderOf(s)))

\* Mutant of Allow: the levels are not resolved to documents.
AllowAll(q) == {}

\* resolveDocumentFilter, documentIdsForAuthorityLevels: the known documents of
\* the requested levels; an empty list is no filter.
Allow(q) == IF q.filtered THEN {d \in q.known : LevelOf[d] \in q.levels} ELSE {}

Within(allow) == {k \in Keys : allow = {} \/ DocOf[k] \in allow}

\* buildVectorSearchPipeline, buildTextSearchPipeline: the allow-list narrows
\* the ranking before it is cut.
Search(s, allow, limit) == FirstOf(Restricted(s, Within(allow)), limit)

PerStageK(q) == q.topK * q.factor

\* A stage that did not return a key gives it nothing.
Term(rank) == IF rank = 0 THEN <<0, 1>> ELSE <<1, RrfK + rank>>

\* Mutant of Score: a stage's term replaces the one before it.
LastScore(lists, k) ==
  LET bm25 == RankIn(lists["bm25"], k)
  IN Term(IF bm25 # 0 THEN bm25 ELSE RankIn(lists["vector"], k))

\* Exact fractions, a numerator over a denominator.
Plus(v, t) == <<v[1] * t[2] + t[1] * v[2], v[2] * t[2]>>
Above(v, t) == v[1] * t[2] > t[1] * v[2]

Score(lists, k) == Plus(Term(RankIn(lists["vector"], k)), Term(RankIn(lists["bm25"], k)))

\* fuseByRrf: by descending score, ties by id.
FuseByRrf(lists) ==
  LET found == ToSet(lists["vector"]) \cup ToSet(lists["bm25"])
      score == [k \in found |-> Score(lists, k)]
      higher == {p \in found \X found : Above(score[p[1]], score[p[2]])}
  IN InOrder(found, ThenBy(higher, Ascending(found)))

\* Mutant of Guard: the allow-list is trusted.
NoGuard(q, k) == TRUE

\* The guard behind the allow-list looks at the level itself.
Guard(q, k) == q.filtered => LevelOf[DocOf[k]] \in q.levels

Guarded(q) == {k \in Keys : Guard(q, k)}

\* Mutant of Cut: every fused candidate is returned.
NoCut(q, s) == s

Cut(q, s) == FirstOf(s, q.topK)

Higher(a, b) == LevelOf[DocOf[a]] < LevelOf[DocOf[b]]

\* rerankByAuthority: by level; within one the candidates keep the order of
\* their scores, in which they come.
ByAuthority(s) == Sorted(s, {p \in Keys \X Keys : Higher(p[1], p[2])})

\* Mutant of Picked: an index is taken as often as the model names it.
PickedAgain(s, reply) ==
  LET named == SelectSeq(reply, LAMBDA i : i \in DOMAIN s)
  IN [j \in DOMAIN named |-> s[named[j]]]

\* createLlmRerank: indices out of range or named before are skipped.
Picked(s, reply) ==
  LET first == {i \in DOMAIN reply : reply[i] \in DOMAIN s /\ \A j \in 1..(i - 1) : reply[j] # reply[i]}
      named == InOrder(first, Ascending(first))
  IN [j \in DOMAIN named |-> s[reply[named[j]]]]

\* createCohereRerank compares by relevance, ties by authority; two rows one of
\* which is of no candidate are not told apart.
RowBefore(s, r, t) ==
  \/ r.relevance > t.relevance
  \/ /\ r.relevance = t.relevance /\ {r.index, t.index} \subseteq DOMAIN s
     /\ Higher(s[r.index], s[t.index])

\* The rows that are of a candidate; the others are dropped.
OfCandidates(s, results) == {i \in DOMAIN results : results[i].index \in DOMAIN s}

\* The orders in which Array.sort may leave them.  It is stable; but a comparison
\* that does not tell a row from two others that it tells apart leaves the order
\* to the engine.
SortedRows(s, results) ==
  LET rows == DOMAIN results
      before == {p \in rows \X rows : RowBefore(s, results[p[1]], results[p[2]])}
      consistent == \A i, j, k \in rows :
        <<i, k>> \in before => <<i, j>> \in before \/ <<j, k>> \in before
      inOrder == ThenBy(before, Ascending(rows))
  IN {order \in SetToSeqs(OfCandidates(s, results)) :
        consistent => \A m, n \in DOMAIN order :
          m < n => <<order[m], order[n]>> \in inOrder}

\* createCohereRerank: a candidate appears as often as its index does.
ByRelevance(s, results, order) == [j \in DOMAIN order |-> s[results[order[j]].index]]

Repeats(s, results) ==
  \E i, j \in OfCandidates(s, results) : i # j /\ results[i].index = results[j].index

\* Mutant of Completed: what the reranker did not name is dropped.
NamedOnly(s, ordered) == ordered

\* What the reranker did not name follows in its old order.
Completed(s, ordered) == ordered \o Restricted(s, Keys \ ToSet(ordered))

\* What the model, and Cohere, may reply with; neither reply is validated against
\* the candidates, and one index stands for all that are of none.
Replies(s) == UNION {[1..n -> 1..(Len(s) + 1)] : n \in 0..MaxReply}
Results(s) ==
  UNION {[1..n -> [index : 1..(Len(s) + 1), relevance : 1..2]] : n \in 0..MaxReply}

-----------------------------------------------------------------------------
(* The request.                                                            *)

Init ==
  /\ phase = "asked"
  /\ request \in Requests
  /\ ranking = Nothing /\ hits = Nothing
  /\ candidates = <<>> /\ ranked = <<>> /\ provider = "off" /\ repeated = FALSE

Embed ==
  /\ phase = "asked"
  /\ phase' = "searching"
  /\ UNCHANGED <<request, ranking, hits, candidates, ranked, provider, repeated>>

Extended(f, s, x) == [t \in DOMAIN f \cup {s} |-> IF t = s THEN x ELSE f[t]]

\* A search answers, from one reading of its index.
Answer(stage, whole) ==
  /\ phase = "searching" /\ stage \notin DOMAIN hits
  /\ ranking' = Extended(ranking, stage, whole)
  /\ hits' = Extended(hits, stage, Search(whole, Allow(request), PerStageK(request)))
  /\ UNCHANGED <<phase, request, candidates, ranked, provider, repeated>>

VectorSearch == \E whole \in Rankings : Answer("vector", whole)

\* In vector mode NO_TEXT_SEARCH stands in for the text search.
TextSearch ==
  \E whole \in TextRankings :
    (request.mode = "vector" => whole = <<>>) /\ Answer("bm25", whole)

\* Promise.all has both: fuse, guard, cut.
Fuse ==
  /\ phase = "searching" /\ DOMAIN hits = Stages
  /\ phase' = "fused"
  /\ candidates' = Cut(request, Restricted(FuseByRrf(hits), Guarded(request)))
  /\ UNCHANGED <<request, ranking, hits, ranked, provider, repeated>>

\* retrieveHybrid returns; its lists are gone.
Return ==
  /\ phase = "fused"
  /\ phase' = IF request.caller = "agent" THEN "reranking" ELSE "done"
  /\ ranking' = Nothing /\ hits' = Nothing
  /\ ranked' = IF request.caller = "agent" THEN <<>> ELSE candidates
  /\ UNCHANGED <<request, candidates, provider, repeated>>

Reranked(by, s, again) ==
  /\ phase' = "done"
  /\ ranked' = s
  /\ provider' = by
  /\ repeated' = again
  /\ UNCHANGED <<request, ranking, hits, candidates>>

\* rerankNode, selectReranker: a provider without its binding is the authority's.
RerankOff == phase = "reranking" /\ Reranked("off", candidates, FALSE)

RerankByAuthority ==
  phase = "reranking" /\ Reranked("authority", ByAuthority(candidates), FALSE)

RerankByModel ==
  /\ phase = "reranking"
  /\ \E reply \in Replies(candidates) :
       Reranked("llm", Completed(candidates, Picked(candidates, reply)), FALSE)

RerankByCohere ==
  /\ phase = "reranking"
  /\ \E results \in Results(candidates) : \E order \in SortedRows(candidates, results) :
       Reranked("cohere", Completed(candidates, ByRelevance(candidates, results, order)),
                Repeats(candidates, results))

\* The embedding, a search or a reranker rejects, and the request with it.
Fail ==
  /\ phase \in {"asked", "searching"} \/ (phase = "reranking" /\ candidates # <<>>)
  /\ phase' = "failed"
  /\ ranking' = Nothing /\ hits' = Nothing /\ candidates' = <<>>
  /\ UNCHANGED <<request, ranked, provider, repeated>>

Next ==
  \/ Embed \/ VectorSearch \/ TextSearch \/ Fuse \/ Return
  \/ RerankOff \/ RerankByAuthority \/ RerankByModel \/ RerankByCohere
  \/ Fail

Spec == Init /\ [][Next]_vars

-----------------------------------------------------------------------------
(* What must hold.                                                         *)

\* A list of keys without a repetition, no longer than was asked for.
ListOf(s) == s \in Seq(Keys) /\ IsInjective(s)

TypeOK ==
  /\ phase \in {"asked", "searching", "fused", "reranking", "done", "failed"}
  /\ request \in Requests /\ provider \in Providers
  /\ DOMAIN hits = DOMAIN ranking /\ DOMAIN hits \subseteq Stages
  /\ \A s \in DOMAIN hits :
       ListOf(hits[s]) /\ ListOf(ranking[s]) /\ Len(hits[s]) <= PerStageK(request)
  /\ ListOf(candidates) /\ Len(candidates) <= request.topK
  /\ ranked \in Seq(Keys) /\ repeated \in BOOLEAN

\* The keys this request may return.
Eligible == Within(Allow(request)) \cap Guarded(request)

\* Both indexes rank a above b.
Dominates(a, b) ==
  LET above(s) == RankIn(s, b) # 0 => RankIn(s, a) # 0 /\ RankIn(s, a) < RankIn(s, b)
  IN a # b /\ above(ranking["vector"]) /\ above(ranking["bm25"])

\* Fusion and its windows never turn around what both stages agree on: a chunk
\* that either index ranks above another is neither behind it in the candidates
\* nor missing while the other is there (rrf.ts, hybrid-retrieve.ts).
FusionRespectsBothRankings ==
  phase = "fused" =>
    \A a, b \in Eligible :
      Dominates(a, b) /\ b \in ToSet(candidates) =>
        a \in ToSet(candidates) /\ RankIn(candidates, a) < RankIn(candidates, b)

\* A filter is honoured whatever the allow-list resolves to, none included, and
\* while it does resolve, no chunk outside of it takes the place of one inside:
\* there are as many candidates as were asked for and exist (authority.ts:62-76).
FilterIsHonoured ==
  phase = "fused" =>
    /\ request.filtered =>
         \A k \in ToSet(candidates) : LevelOf[DocOf[k]] \in request.levels
    /\ ~request.filtered \/ {d \in request.known : LevelOf[d] \in request.levels} # {} =>
         \/ Len(candidates) = request.topK
         \/ Eligible \subseteq ToSet(candidates)

\* No reranker loses a candidate, whatever it replies, and none repeats one but
\* Cohere's, whose reply is not checked for an index named twice; the authority's
\* puts no source behind a weaker one, nor turns around two of the same level
\* (llm-rerank.ts:70-84, cohere-rerank.ts:74-88, rerank.ts).
RerankLosesNothing ==
  phase = "done" =>
    /\ ToSet(ranked) = ToSet(candidates)
    /\ Len(ranked) = Len(candidates) \/ (provider = "cohere" /\ repeated)
    /\ provider = "authority" =>
         \A i, j \in DOMAIN ranked : i < j =>
           \/ Higher(ranked[i], ranked[j])
           \/ /\ LevelOf[DocOf[ranked[i]]] = LevelOf[DocOf[ranked[j]]]
              /\ RankIn(candidates, ranked[i]) < RankIn(candidates, ranked[j])
=============================================================================
