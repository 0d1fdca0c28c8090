------------------------------ MODULE MCR7Runs ------------------------------
(***************************************************************************)
(* A small instance of R7Runs for TLC: two invocations of one program.     *)
(***************************************************************************)
EXTENDS R7Runs, TLC

CONSTANTS i1, i2

Symmetry == Permutations(Invocations)

\* Three chunks of the allowed document and one of another.
SourceOf == [c \in 1..4 |-> IF c = 4 THEN 2 ELSE 1]

\* A triangle of assertions, one of them from the other document.
Triangle ==
  {[id |-> 1, subject |-> 1, object |-> 2, predicate |-> 1, chunk |-> 1],
   [id |-> 2, subject |-> 2, object |-> 3, predicate |-> 2, chunk |-> 2],
   [id |-> 3, subject |-> 3, object |-> 1, predicate |-> 1, chunk |-> 4]}

\* One or two questions with two ranked chunks each.
Tops == {<<a, b>> : a \in [score : 0..2, gold : BOOLEAN], b \in [score : 0..2, gold : {FALSE}]}
Rows == [answerable : BOOLEAN, top : {t \in Tops : t[1].score >= t[2].score}]
SampleRankings == {<<r>> : r \in Rows} \union {<<r, s>> : r, s \in Rows}

\* The reciprocal rank never decides: a threshold that keeps all the expected
\* evidence keeps the rank of the first of it.
ASSUME EligibleKeepRanks ==
  \A rankings \in SampleRankings : \A t, u \in Thresholds :
    Eligible(rankings, t) /\ Eligible(rankings, u)
      => AnswerableMrr(rankings, t) = AnswerableMrr(rankings, u)

TextLimit == [p \in Programs |-> IF p = "formal" THEN 5 ELSE 2]
RequestLimit == [p \in Programs |-> IF p = "smoke" THEN 1 ELSE 3]
TokenLimit == [p \in Programs |-> IF p = "smoke" THEN 3 ELSE 6]
=============================================================================
