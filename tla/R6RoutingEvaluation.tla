------------------------ MODULE R6RoutingEvaluation ------------------------
(***************************************************************************)
(* The frozen evaluation of the rules of RoutedAnswer                      *)
(* (evaluation/r6_routing_evaluation.py): the router and the retry policy  *)
(* are scored against labelled datasets, then the real service answers     *)
(* every sample that should retrieve, over a retrieval that finds nothing  *)
(* and a generator that must not be called.  A behaviour is one request to *)
(* the service or one evaluation.                                          *)
(*                                                                         *)
(* The scope is a value that every call passes on unchanged, so its check  *)
(* is left out; so are the latencies.  Ratios are in ten-thousandths.      *)
(***************************************************************************)
EXTENDS RoutedAnswer

CONSTANTS
  Datasets,     \* sequences of labelled samples [question, route]
  RetryCases,   \* sequences of [results, topK, filtered, retry]
  Regressions,  \* the values of legacy_v1_answer_regressions
  ProbeTopK,    \* 5
  Acceptance    \* acceptance_thresholds of the protocol, the ratios in ten-thousandths

\* The protocol is frozen: no violation is accepted.
ASSUME AcceptanceAssumption ==
  /\ ProbeTopK \in Nat \ {0}
  /\ \A name \in DOMAIN Acceptance : Acceptance[name] \in 0..10000
  /\ Acceptance.violations = 0

ASSUME DatasetsAssumption == \A list \in Datasets : list \in Seq(Range(list))

VARIABLES
  stage,      \* where run_r6_routing_evaluation is, "request" outside of it
  samples,    \* route_dataset["samples"]
  cases,      \* retry_dataset["cases"]
  legacy,
  predicted,  \* route_predicted
  violations, \* business_fact_direct_answer_violations
  retried,    \* retry_predicted
  probed,     \* how many samples the probe has passed
  probes,     \* probe_cases
  breaches,   \* call_limit_breaches
  report      \* the report, NoReport before

dataset == <<samples, cases, legacy>>
scores == <<predicted, violations, retried>>
probing == <<probed, probes, breaches>>
evaluationVars == <<vars, stage, dataset, scores, probing, report>>

NoReport == [status |-> "none"]
RouteLabels == <<"retrieve", "direct_answer", "refuse">>
RetryLabels == <<"retry", "no_retry">>
RetryLabel(truth) == IF truth THEN "retry" ELSE "no_retry"

(***************************************************************************)
(* Metrics                                                                 *)
(***************************************************************************)
\* Mutation: rows and columns are exchanged.
ByPrediction(expected, guesses, labels) ==
  [actual \in Range(labels) |-> [guess \in Range(labels) |->
     Cardinality({n \in DOMAIN expected : guesses[n] = actual /\ expected[n] = guess})]]

Confusion(expected, guesses, labels) ==
  [actual \in Range(labels) |-> [guess \in Range(labels) |->
     Cardinality({n \in DOMAIN expected : expected[n] = actual /\ guesses[n] = guess})]]

Total(numbers) == FoldFunction(LAMBDA a, b : a + b, 0, numbers)

\* _safe_ratio
Ratio(part, whole) == IF whole = 0 THEN 0 ELSE (10000 * part) \div whole

\* classification_metrics
Metrics(expected, guesses, labels) ==
  LET matrix == Confusion(expected, guesses, labels)
      hits(label) == matrix[label][label]
      support == [label \in Range(labels) |-> Total(matrix[label])]
      claimed(label) == Total([actual \in Range(labels) |-> matrix[actual][label]])
      f1 == [label \in Range(labels) |-> Ratio(2 * hits(label), support[label] + claimed(label))]
  IN [matrix |-> matrix, support |-> support,
      accuracy |-> Ratio(Total([label \in Range(labels) |-> hits(label)]), Len(expected)),
      precision |-> [label \in Range(labels) |-> Ratio(hits(label), claimed(label))],
      recall |-> [label \in Range(labels) |-> Ratio(hits(label), support[label])],
      macroF1 |-> Total(f1) \div Len(labels)]

\* _acceptance_results: the checks that fail.
Rejections(routing, retry) ==
  LET checks ==
        [routing_accuracy |-> routing.accuracy >= Acceptance.accuracy,
         routing_macro_f1 |-> routing.macroF1 >= Acceptance.macroF1,
         business_fact_direct_answer_violation |-> violations <= Acceptance.violations,
         retry_trigger_accuracy |-> retry.accuracy >= Acceptance.retryAccuracy,
         retry_trigger_precision |-> retry.precision["retry"] >= Acceptance.retryPrecision,
         retry_trigger_recall |-> retry.recall["retry"] >= Acceptance.retryRecall,
         retrieval_call_limit |-> breaches <= Acceptance.breaches,
         legacy_v1_answer_regression |-> legacy <= Acceptance.regressions]
  IN {name \in DOMAIN checks : ~checks[name]}

(***************************************************************************)
(* The evaluation                                                          *)
(***************************************************************************)
EvaluationInit ==
  /\ Init
  /\ \/ /\ stage = "request"
        /\ samples = <<>> /\ cases = <<>> /\ legacy = 0
     \/ /\ stage = "load"
        /\ <<question, topK, filtered, scoped, available>>
             = <<CHOOSE q \in Questions : TRUE, CHOOSE k \in TopKs : TRUE, FALSE, TRUE, TRUE>>
        /\ samples \in Datasets /\ cases \in RetryCases /\ legacy \in Regressions
  /\ predicted = <<>> /\ violations = 0 /\ retried = <<>>
  /\ probed = 0 /\ probes = <<>> /\ breaches = 0
  /\ report = NoReport

\* _load_locked_asset: a dataset whose hash differs from the protocol raises.
LoadAssets ==
  /\ stage = "load" /\ stage' \in {"route", "raised"}
  /\ UNCHANGED <<vars, dataset, scores, probing, report>>

RouteSample ==
  /\ stage = "route"
  /\ IF Len(predicted) = Len(samples)
     THEN stage' = "retry" /\ UNCHANGED <<predicted, violations>>
     ELSE LET sample == samples[Len(predicted) + 1]
              guess == Route(RouteOf(sample.question))
          IN IF sample.question.blank
             THEN stage' = "raised" /\ UNCHANGED <<predicted, violations>>
             ELSE /\ predicted' = Append(predicted, guess)
                  /\ violations' = IF sample.route = "retrieve" /\ guess = "direct_answer"
                                   THEN violations + 1 ELSE violations
                  /\ UNCHANGED stage
  /\ UNCHANGED <<vars, dataset, retried, probing, report>>

\* EvidenceSufficiencyPolicy.assess with the parameters of the case.
AssessCase ==
  /\ stage = "retry"
  /\ IF Len(retried) = Len(cases)
     THEN stage' = "probe" /\ UNCHANGED retried
     ELSE LET c == cases[Len(retried) + 1]
          IN /\ retried' = Append(retried, RetryLabel(Insufficient(c.results, c.topK, c.filtered)))
             /\ UNCHANGED stage
  /\ UNCHANGED <<vars, dataset, predicted, violations, probing, report>>

\* The service gets the next sample that should retrieve; the others are passed.
StartProbe ==
  /\ stage = "probe" /\ probed < Len(samples)
  /\ probed' = probed + 1
  /\ IF samples[probed'].route = "retrieve"
     THEN /\ question' = samples[probed'].question
          /\ topK' = ProbeTopK /\ filtered' = FALSE /\ scoped' = TRUE /\ available' = TRUE
          /\ pc' = "route" /\ reason' = "none" /\ first' = <<>> /\ evidence' = <<>>
          /\ calls' = 0 /\ asked' = 0 /\ result' = NoResult
          /\ stage' = "answer"
     ELSE UNCHANGED <<vars, stage>>
  /\ UNCHANGED <<dataset, scores, probes, breaches, report>>

\* RoutedAnswerService over _EmptyRetrievalProbe.  _NeverGenerateAnswer raises an
\* AssertionError: a probe that came to generation would have no step left here.
AnswerProbe ==
  /\ stage = "answer"
  /\ RouteQuestion \/ FirstSearch({<<>>}) \/ AssessFirst \/ SecondSearch({<<>>})
  /\ pc' # "raised"
  /\ UNCHANGED <<stage, dataset, scores, probing, report>>

RecordProbe ==
  /\ stage = "answer" /\ pc = "returned"
  /\ probes' = Append(probes, [calls |-> calls, attempts |-> result.attempts,
                               stop |-> result.stop])
  /\ breaches' = IF calls > 2 \/ result.attempts > 2 THEN breaches + 1 ELSE breaches
  /\ stage' = "probe"
  /\ UNCHANGED <<vars, dataset, scores, probed, report>>

BuildReport ==
  /\ stage = "probe" /\ probed = Len(samples)
  /\ LET routing == Metrics([n \in DOMAIN samples |-> samples[n].route], predicted, RouteLabels)
         retry == Metrics([n \in DOMAIN cases |-> RetryLabel(cases[n].retry)], retried,
                          RetryLabels)
         failed == Rejections(routing, retry)
     IN report' = [status |-> IF failed = {} THEN "passed" ELSE "failed", routing |-> routing,
                   retry |-> retry, failed |-> failed]
  /\ stage' = "reported"
  /\ UNCHANGED <<vars, dataset, scores, probing>>

EvaluationNext ==
  \/ stage = "request" /\ Next /\ UNCHANGED <<stage, dataset, scores, probing, report>>
  \/ LoadAssets \/ RouteSample \/ AssessCase
  \/ StartProbe \/ AnswerProbe \/ RecordProbe \/ BuildReport
  \/ stage \in {"raised", "reported"} /\ UNCHANGED evaluationVars

EvaluationSpec == EvaluationInit /\ [][EvaluationNext]_evaluationVars

(***************************************************************************)
(* Invariants                                                              *)
(***************************************************************************)
RouteOfSample(n) == Route(RouteOf(samples[n].question))

\* The router and the retry policy are scored before the first probe.
ScoresInv ==
  /\ samples \in Seq(Range(samples)) /\ predicted \in Seq(Range(RouteLabels))
  /\ Len(predicted) <= Len(samples)
  /\ \A n \in DOMAIN predicted : predicted[n] = RouteOfSample(n)
  /\ violations = Cardinality({n \in DOMAIN predicted :
                                 samples[n].route = "retrieve" /\ predicted[n] = "direct_answer"})
  /\ stage \in {"retry", "probe", "answer", "reported"} => Len(predicted) = Len(samples)

\* The probes of the samples passed so far, without the one under way.
Answered == {n \in 1..probed : samples[n].route = "retrieve" /\ (stage = "answer" => n < probed)}

ProbesInv ==
  /\ probed \in 0..Len(samples) /\ Len(probes) = Cardinality(Answered)
  /\ probes \in Seq([calls : 0..2, attempts : 0..2, stop : Stops])
  /\ \A n \in DOMAIN probes : probes[n].attempts = probes[n].calls
  /\ Cardinality({n \in DOMAIN probes : probes[n].calls > 0})
       = Cardinality({n \in Answered : RouteOfSample(n) = "retrieve"})

\* The service under a probe.
ServiceInv ==
  stage = "answer" =>
    /\ probed > 0 /\ samples[probed].route = "retrieve" /\ question = samples[probed].question
    /\ scoped
    /\ pc \in {"route", "first", "assess", "second", "generate", "returned"}
    /\ pc \in {"route", "first"} => calls = 0
    /\ pc \in {"assess", "second"} => calls = 1
    /\ pc \in {"first", "assess", "second"} => RouteOfSample(probed) = "retrieve"
    /\ pc = "returned" =>
         /\ calls \in 0..2 /\ result.attempts = calls /\ result.stop \in Stops
         /\ calls > 0 <=> RouteOfSample(probed) = "retrieve"

\* The parts of a report that are counted apart agree: the violations are the
\* cell of the confusion matrix for facts answered without a search, the service
\* searched for exactly the samples the router alone sends to retrieval, it told
\* of every search, and a report that passed has no fact answered without one.
ReportAgrees ==
  report # NoReport =>
    LET matrix == report.routing.matrix
        searched == {n \in DOMAIN probes : probes[n].calls > 0}
    IN /\ violations = matrix["retrieve"]["direct_answer"]
       /\ Len(probes) = report.routing.support["retrieve"]
       /\ Cardinality(searched) = matrix["retrieve"]["retrieve"]
       /\ \A n \in DOMAIN probes : probes[n].attempts = probes[n].calls /\ probes[n].calls <= 2
       /\ report.status = "passed" =>
            \A n \in DOMAIN samples :
              samples[n].route = "retrieve" => predicted[n] # "direct_answer"

EvaluationInv ==
  /\ stage \in {"request", "load", "route", "retry", "probe", "answer", "reported", "raised"}
  /\ report # NoReport => stage = "reported"
  /\ stage # "request" => ScoresInv /\ ProbesInv /\ ServiceInv
  /\ ReportAgrees
=============================================================================
