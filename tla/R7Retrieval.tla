---------------------------- MODULE R7Retrieval ----------------------------
(***************************************************************************)
(* The three retrieval arms of the R7 experiment (evaluation/experiments/  *)
(* r7_retrieval.py): dense search over a fixed vector cache, a second      *)
(* round for weak evidence, and the graph of source-bound assertions fused *)
(* with it.  Everything here is a function of what a query matches; the    *)
(* programs that run the arms are in R7Runs.                               *)
(*                                                                         *)
(* A query is its similarity to each chunk and what it mentions: the nodes *)
(* it names (seeds) and the predicates it hints at (cues).                 *)
(***************************************************************************)
EXTENDS RankFusion

CONSTANTS
  Chunks,      \* chunk ids, naturals in the order of their text
  DocumentOf,  \* the document of a chunk
  Allowed,     \* allowed_document_ids of a question
  Scores, ScoreThreshold,
  TopK,        \* hits of a round: 5
  Edges        \* the assertions: [id, subject, object, predicate, chunk]

ASSUME RetrievalAssumption ==
  /\ Chunks \subseteq Nat /\ IsFiniteSet(Chunks)
  /\ Scores \subseteq Nat /\ ScoreThreshold \in Nat
  /\ TopK \in Nat \ {0}
  /\ IsFiniteSet(Edges)
  /\ \A e \in Edges : e.id \in Nat /\ e.chunk \in Chunks
  /\ \A e, f \in Edges : e.id = f.id => e = f

Arms == <<"dense_top5", "dense_retry_5x2", "graph_dense_retry_5x2">>
GraphArm == Arms[3]

Nodes == UNION {{e.subject, e.object} : e \in Edges}
Predicates == {e.predicate : e \in Edges}
Similarities == [Chunks -> Scores]
Mentions == [seeds : SUBSET Nodes, cues : SUBSET Predicates]

Hit(chunk, score, path) == [chunk |-> chunk, score |-> score, path |-> path]
HitChunks(hits) == {hits[i].chunk : i \in DOMAIN hits}
\* unique: the first hit of every chunk, up to a limit.
Unique(hits, limit) ==
  LET New(i) == \A j \in 1..(i - 1) : hits[j].chunk # hits[i].chunk
  IN Prefix(Keep(hits, {i \in DOMAIN hits : New(i)}), limit)

InScope(chunk) == DocumentOf[chunk] \in Allowed

\* CachedDense and the threshold of the round: best score first, then chunk id.
Dense(score) ==
  LET allowed == {c \in Chunks : InScope(c)}
      scoped == Prefix(Sorted(allowed, [c \in allowed |-> <<-score[c], c>>]), TopK)
      relevant == Keep(scoped, {i \in DOMAIN scoped : score[scoped[i]] >= ScoreThreshold})
  IN [i \in DOMAIN relevant |-> Hit(relevant[i], score[relevant[i]], <<>>)]

Other(e, node) == IF node = e.subject THEN e.object ELSE e.subject

\* visit: extends a path by one edge in scope to a node it has not visited.
Extensions(walk) ==
  {[edges |-> Append(walk.edges, e), last |-> Other(e, walk.last),
    visited |-> walk.visited \union {Other(e, walk.last)}] :
     e \in {x \in Edges : /\ walk.last \in {x.subject, x.object}
                          /\ InScope(x.chunk)
                          /\ ~Contains(walk.edges, x)
                          /\ Other(x, walk.last) \notin walk.visited}}

Walks(seeds) ==
  LET one == UNION {Extensions([edges |-> <<>>, last |-> s, visited |-> {s}]) : s \in seeds}
      two == UNION {Extensions(w) : w \in one}
  IN one \union two \union UNION {Extensions(w) : w \in two}

Ids(edges) == [i \in DOMAIN edges |-> edges[i].id]

\* PropertyGraph.search: exact ends first, then a cue, then short paths.
Search(m) ==
  LET LastOf(es) == es[Len(es)]
      Exact(es) == Cardinality({LastOf(es).subject, LastOf(es).object} \intersect m.seeds)
      Cued(es) == LastOf(es).predicate \in m.cues
      Key(es) == <<-Exact(es), IF Cued(es) THEN 0 ELSE 1, Len(es)>> \o Ids(es)
      found == {w.edges : w \in Walks(m.seeds)}
      paths == Sorted(found, [es \in found |-> Key(es)])
  IN Unique([i \in DOMAIN paths |-> Hit(LastOf(paths[i]).chunk, 0, Ids(paths[i]))], TopK)

(***************************************************************************)
(* Reciprocal rank fusion                                                  *)
(***************************************************************************)
Reciprocal(rank) == Share(60, TopK, rank)

\* fuse: by fused score, then dense score, then length of the path, then id.
Fuse(dense, graph) ==
  LET chunks == HitChunks(dense) \union HitChunks(graph)
      D(c) == RankOf(dense, c)
      G(c) == RankOf(graph, c)
      Score(c) == Reciprocal(D(c)) + Reciprocal(G(c))
      Similarity(c) == IF D(c) = 0 THEN -1 ELSE dense[D(c)].score
      PathLength(c) == IF G(c) = 0 THEN 4 ELSE Len(graph[G(c)].path)
      Key(c) == <<-Score(c), -Similarity(c), PathLength(c), c>>
      best == Prefix(Sorted(chunks, [c \in chunks |-> Key(c)]), TopK)
  IN [i \in DOMAIN best |->
        Hit(best[i], Score(best[i]), IF G(best[i]) = 0 THEN <<>> ELSE graph[G(best[i])].path)]

(***************************************************************************)
(* run_arm                                                                 *)
(***************************************************************************)
\* EvidenceSufficiencyPolicy: two relevant dense hits, one if only one is asked.
Sufficient(dense) == Len(dense) >= IF TopK = 1 THEN 1 ELSE 2

Round(dense, graph) ==
  [selected |-> IF graph = <<>> THEN dense ELSE Fuse(dense, graph),
   retry |-> ~Sufficient(dense)]

Rounds(arm) ==
  LET graphs == IF arm = GraphArm THEN {Search(m) : m \in Mentions} ELSE {<<>>}
  IN {Round(dense, graph) : dense \in {Dense(s) : s \in Similarities}, graph \in graphs}

Trajectory(hits, calls, stop) == [hits |-> hits, calls |-> calls, stop |-> stop]

\* Mutation: the second round is appended, not merged.
WithRepeats(first, second) == Prefix(first \o second, 2 * TopK)

\* final: the hits of both rounds, those of the first in front.
Merge(first, second) == Unique(first \o second, 2 * TopK)

\* The trajectories an arm can return for one question.
Trajectories(arm) ==
  LET rounds == Rounds(arm)
      One(r, stop) == Trajectory(r.selected, 1, stop)
      Two(r, s) == Trajectory(Merge(r.selected, s.selected), 2,
                              IF s.retry THEN "round_limit" ELSE "dense_sufficient")
      weak == {r \in rounds : r.retry}
  IN IF arm = "dense_top5" THEN {One(r, "single_round") : r \in rounds}
     ELSE {One(r, "dense_sufficient") : r \in rounds \ weak}
            \union {One(r, "no_distinct_rewrite") : r \in weak}
            \union {Two(r, s) : r \in weak, s \in rounds}

ArmTrajectories == [a \in Range(Arms) |-> Trajectories(a)]

(***************************************************************************)
(* What the report demands of a trajectory (r7_report.py, r7_decision.py,  *)
(* r7_scoring.py): it raises otherwise                                     *)
(***************************************************************************)
WithinBudget(arm, t) ==
  /\ t.calls \in 1..(IF arm = "dense_top5" THEN 1 ELSE 2)
  /\ Len(t.hits) <= IF arm = "dense_top5" THEN TopK ELSE 2 * TopK

Scorable(t) ==
  /\ \A c \in HitChunks(t.hits) : InScope(c)
  /\ Cardinality(HitChunks(t.hits)) = Len(t.hits)
=============================================================================
