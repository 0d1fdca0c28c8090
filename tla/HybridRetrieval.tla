--------------------------- MODULE HybridRetrieval ---------------------------
(***************************************************************************)
(* Dense and lexical retrieval and their fusion as the offline evaluation  *)
(* runs them (evaluation/hybrid.py, and RetrievalService.search where it   *)
(* matters to them).  A query is what it makes of every chunk: the         *)
(* similarity of their vectors and the BM25 weight of the chunk's tokens.  *)
(***************************************************************************)
EXTENDS RankFusion, FiniteSetsExt

CONSTANTS
  Chunks,        \* chunk ids, naturals in the order of their stable key
  DocumentOf,    \* the document of a chunk
  RankConstant,  \* 60
  Multiplier,    \* candidate_multiplier: 4
  MaxTopK,       \* 50
  FullScore      \* the score 1.0, in half steps of a rounded score

ASSUME HybridAssumption ==
  /\ Chunks \subseteq Nat /\ IsFiniteSet(Chunks)
  /\ RankConstant \in Nat \ {0} /\ Multiplier \in Nat \ {0}
  /\ MaxTopK \in Nat \ {0} /\ FullScore \in Nat \ {0}

Hit(chunk, score) == [chunk |-> chunk, score |-> score]
HitChunks(hits) == {hits[i].chunk : i \in DOMAIN hits}
ScoredHits(order, score) == [i \in DOMAIN order |-> Hit(order[i], score[order[i]])]
\* score_threshold=None: no cosine is below -1.0, which the threshold allows too.
NoThreshold == -FullScore
AtLeast(hits, threshold) == Keep(hits, {i \in DOMAIN hits : hits[i].score >= threshold})

\* RetrievalService.search: equal scores stay in the order of the vector store,
\* which is not that of the stable key; the threshold cuts what the limit left.
DenseSearch(similarity, stored, scope, limit, threshold) ==
  LET scoped == {c \in stored : DocumentOf[c] \in scope}
      order == Sorted(scoped, [c \in scoped |-> <<-similarity[c], -c>>])
  IN AtLeast(ScoredHits(Prefix(order, limit), similarity), threshold)

\* BM25Retriever.search: what shares a term with the query, best weight first.
LexicalSearch(weight, indexed, scope, limit) ==
  LET scored == {c \in indexed : DocumentOf[c] \in scope /\ weight[c] > 0}
  IN Prefix(ScoredHits(Sorted(scored, [c \in scored |-> <<-weight[c], c>>]), weight), limit)

CandidateLimit(topK) == Min({Max({topK, topK * Multiplier}), MaxTopK})

\* The raises of reciprocal_rank_fusion are not modelled: neither search returns
\* a chunk twice, and both take its text and its place from the same upsert.
FusedScore(rankings, chunk) ==
  MapThenSumSet(LAMBDA r : Share(RankConstant, MaxTopK, RankOf(rankings[r], chunk)),
                DOMAIN rankings)

FusedChunks(rankings) == UNION {HitChunks(rankings[r]) : r \in DOMAIN rankings}

\* Mutation: equal scores stay in the order in which the chunks were first seen.
FuseAsSeen(rankings, limit) ==
  LET chunks == FusedChunks(rankings)
      Seen(c) == CHOOSE r \in DOMAIN rankings :
                   /\ c \in HitChunks(rankings[r])
                   /\ \A s \in 1..(r - 1) : c \notin HitChunks(rankings[s])
      Key(c) == <<-FusedScore(rankings, c), Seen(c), RankOf(rankings[Seen(c)], c)>>
      best == Prefix(Sorted(chunks, [c \in chunks |-> Key(c)]), limit)
  IN [i \in DOMAIN best |-> Hit(best[i], FusedScore(rankings, best[i]))]

\* The best scores first, equal ones in the order of the stable key.
Ranked(score, limit) ==
  LET best == Sorted(DOMAIN score, [c \in DOMAIN score |-> <<-score[c], c>>])
  IN ScoredHits(Prefix(best, limit), score)

Fuse(rankings, limit) ==
  Ranked([c \in FusedChunks(rankings) |-> FusedScore(rankings, c)], limit)

\* _normalize_rrf_scores: 1.0 is the first place in both rankings.
Normalize(hits) ==
  LET best == 2 * Share(RankConstant, MaxTopK, 1)
  IN [i \in DOMAIN hits |->
        Hit(hits[i].chunk, Min({(FullScore * hits[i].score) \div best, FullScore}))]

\* HybridRetrievalService.search fuses the two lists of candidates.
Candidates(query, stored, indexed, scope, topK) ==
  <<DenseSearch(query.similarity, stored, scope, CandidateLimit(topK), NoThreshold),
    LexicalSearch(query.weight, indexed, scope, CandidateLimit(topK))>>

HybridSearch(query, stored, indexed, scope, topK, threshold) ==
  AtLeast(Normalize(Fuse(Candidates(query, stored, indexed, scope, topK), topK)), threshold)
=============================================================================
