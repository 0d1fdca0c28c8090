---------------------------- MODULE MCRoutedAnswer ----------------------------
(***************************************************************************)
(* A small instance of RoutedAnswer and its evaluation for TLC.            *)
(***************************************************************************)
EXTENDS R6RoutingEvaluation

SmallChunks == 1..3
SmallScores == {0, 1}
SmallTopKs == {1, 3}

Matching(rules, candidate) ==
  [matches |-> rules, blank |-> FALSE, candidate |-> candidate, fallback |-> "blank"]

Samples ==
  {[question |-> q, route |-> r] :
     q \in {Matching({"greeting"}, "same"), Matching({"secret_request", "usage_help"}, "same"),
            Matching({"capability_help"}, "other"), Matching({}, "other"), Matching({}, "same"),
            [Matching({}, "blank") EXCEPT !.blank = TRUE]},
     r \in Range(RouteLabels)}

\* Every dataset of two samples, and one that is labelled right throughout.
SmallDatasets ==
  {<<s, t>> : s, t \in Samples}
    \union {<<[question |-> Matching({}, "other"), route |-> "retrieve"],
              [question |-> Matching({}, "same"), route |-> "retrieve"],
              [question |-> Matching({"greeting"}, "same"), route |-> "direct_answer"],
              [question |-> Matching({"evidence_bypass"}, "same"), route |-> "refuse"]>>}

Scored(marks) == [n \in DOMAIN marks |-> [chunk |-> n, score |-> marks[n]]]

\* Nothing found, and two results of which one is below the threshold.
SmallRetryCases ==
  {<<[results |-> <<>>, topK |-> 3, filtered |-> FALSE, retry |-> TRUE],
     [results |-> Scored(<<1, 0>>), topK |-> k, filtered |-> f, retry |-> r]>> :
       k \in {1, 3}, f \in BOOLEAN, r \in BOOLEAN}

ProtocolAcceptance ==
  [accuracy |-> 9000, macroF1 |-> 8500, violations |-> 0, retryAccuracy |-> 9000,
   retryPrecision |-> 8000, retryRecall |-> 8000, breaches |-> 0, regressions |-> 0]
=============================================================================
