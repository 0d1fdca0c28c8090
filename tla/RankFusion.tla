----------------------------- MODULE RankFusion -----------------------------
(***************************************************************************)
(* What the two fusions of rankings share (evaluation/hybrid.py and        *)
(* evaluation/experiments/r7_retrieval.py): sort keys, cut lists and the   *)
(* share 1/(constant + rank) of a place in a ranking.                      *)
(***************************************************************************)
EXTENDS Integers, Sequences, FiniteSets, SequencesExt

Prefix(s, n) == SubSeq(s, 1, IF Len(s) < n THEN Len(s) ELSE n)

\* Sort keys: lists of one length, or that differ before the shorter one ends.
LexBefore(s, t) ==
  \E n \in DOMAIN s : (\A m \in 1..(n - 1) : s[m] = t[m]) /\ s[n] < t[n]

\* sorted(S, key=key), whose keys differ: as many are before an element as its
\* place tells.
Ahead(S, key, x) == {y \in S : LexBefore(key[y], key[x])}
Sorted(S, key) ==
  [n \in 1..Cardinality(S) |-> CHOOSE x \in S : Cardinality(Ahead(S, key, x)) = n - 1]

\* What a loop over s keeps: the elements at some of its places.
Keep(s, places) ==
  LET order == Sorted(places, [n \in places |-> <<n>>])
  IN [n \in DOMAIN order |-> s[order[n]]]

\* The place of a chunk in a ranking, 0 if it is not in it.
RankOf(hits, chunk) ==
  LET at == {i \in DOMAIN hits : hits[i].chunk = chunk}
  IN IF at = {} THEN 0 ELSE CHOOSE i \in at : TRUE

\* 1/(constant + rank), over the common denominator of the ranks 1..size.
Share(constant, size, rank) ==
  IF rank = 0 THEN 0
  ELSE FoldLeft(LAMBDA n, k : IF k = rank THEN n ELSE n * (constant + k), 1,
                [k \in 1..size |-> k])
=============================================================================
