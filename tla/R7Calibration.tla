---------------------------- MODULE R7Calibration ----------------------------
(***************************************************************************)
(* The registered rule that picks the score threshold of the retry policy  *)
(* from the development rankings (evaluation/r7_calibration.py,            *)
(* select_threshold).  A ranking is a question with its best chunks in     *)
(* order, each a score and whether it is expected evidence.                *)
(***************************************************************************)
EXTENDS Naturals, Sequences, FiniteSets, FiniteSetsExt

CONSTANTS
  Thresholds,  \* the candidates, naturals
  Rankings     \* the sequences of rankings a calibration may produce

ASSUME ThresholdsAssumption == IsFiniteSet(Thresholds) /\ Thresholds \subseteq Nat

Answerable(rankings) == {n \in DOMAIN rankings : rankings[n].answerable}
Unsupported(rankings) == DOMAIN rankings \ Answerable(rankings)

Kept(row, t) == SelectSeq(row.top, LAMBDA item : item.score >= t)

\* The rank of the first expected chunk that is kept, 0 if there is none.
FirstGold(row, t) ==
  LET at == {i \in DOMAIN Kept(row, t) : Kept(row, t)[i].gold}
  IN IF at = {} THEN 0 ELSE Min(at)

Eligible(rankings, t) == \A n \in Answerable(rankings) : FirstGold(rankings[n], t) # 0

FewerThanTwo(rankings, t) ==
  Cardinality({n \in Unsupported(rankings) : Len(Kept(rankings[n], t)) < 2})

\* answerable_mrr over the common denominator of the ranks 1..5.
ReciprocalRank(rank) == IF rank = 0 THEN 0 ELSE 60 \div rank
AnswerableMrr(rankings, t) ==
  MapThenSumSet(LAMBDA n : ReciprocalRank(FirstGold(rankings[n], t)),
                             Answerable(rankings))

\* ValueError otherwise.
Selectable(rankings) == Answerable(rankings) # {} /\ Unsupported(rankings) # {}

\* Of the eligible: most unsupported questions left with fewer than two chunks,
\* then the best reciprocal rank, then the lowest threshold; none if none is.
SelectThreshold(rankings) ==
  LET eligible == {t \in Thresholds : Eligible(rankings, t)}
      Better(t, u) ==
        \/ FewerThanTwo(rankings, t) > FewerThanTwo(rankings, u)
        \/ /\ FewerThanTwo(rankings, t) = FewerThanTwo(rankings, u)
           /\ \/ AnswerableMrr(rankings, t) > AnswerableMrr(rankings, u)
              \/ AnswerableMrr(rankings, t) = AnswerableMrr(rankings, u) /\ t < u
  IN {t \in eligible : \A u \in eligible \ {t} : Better(t, u)}
=============================================================================
