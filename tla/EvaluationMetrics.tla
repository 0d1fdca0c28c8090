-------------------------- MODULE EvaluationMetrics --------------------------
(***************************************************************************)
(* What the offline evaluation computes: the question contracts            *)
(* (evaluation/contracts.py), the outcome of one question and the totals   *)
(* of all (evaluation/runner.py, evaluation/metrics.py), the threshold     *)
(* sweep over a finished run (evaluation/thresholds.py) and the decision   *)
(* of the hybrid experiment (evaluation/hybrid_experiment.py).  Rates are  *)
(* fractions [of, total]; a sum of per-question fractions is in Units.     *)
(***************************************************************************)
EXTENDS HybridRetrieval

CONSTANTS
  Documents,  \* the corpus, naturals above 0
  PageCount,  \* the pages of a document, 0 for a TXT file
  PageOf,     \* the page of a chunk, 0 in a TXT file
  TopK,
  TooLong,      \* texts of more than max_query_characters (4000)
  MaxSelected,  \* max_selected_documents: 50
  Expected    \* the counts demanded of the corpus: [documents, questions, categories]

ASSUME MetricsAssumption ==
  /\ IsFiniteSet(Documents) /\ Documents \subseteq Nat \ {0}
  /\ TopK \in 1..MaxTopK /\ MaxSelected \in Nat \ {0}

Wildcard == 0
Categories == {"direct", "multi_chunk", "scope_isolation", "unanswerable", "ambiguous"}
NonAnswerable == {"unanswerable", "ambiguous"}
Units == 12

Rate(passed, total) == [of |-> passed, total |-> total]
\* A rate without cases is 0.
RateAtLeast(rate, percent) == IF rate.total = 0 THEN percent = 0
                              ELSE 100 * rate.of >= percent * rate.total

(***************************************************************************)
(* Contracts                                                               *)
(***************************************************************************)
\* A question is [id, category, text, scope, answerable, behavior, answer (is
\* there a reference?), evidence, minimum (chunks, 0 for none)]; its scope is a
\* sequence of documents, its evidence one of [document, page, chunks (that hold
\* the snippet)].
Sources(q) == {e.document : e \in Range(q.evidence)}
Pages(q) == {e.page : e \in Range(q.evidence)} \ {0}

BehaviorDefined(q) ==
  CASE q.behavior = "answer" -> q.answer /\ q.evidence # <<>>
    [] q.behavior = "refuse" -> ~q.answer /\ q.evidence = <<>>
    [] q.behavior = "clarify" -> ~q.answer /\ Len(q.evidence) >= 2

Everything == <<Wildcard>>

\* _parse_question, which raises otherwise.  It looks neither at the length of
\* the text nor for a name that the scope repeats.
ValidContract(q) ==
  /\ q.scope # <<>> /\ (Wildcard \in Range(q.scope) => q.scope = Everything)
  /\ q.answerable <=> q.behavior = "answer"
  /\ IsInjective(q.evidence)
  /\ BehaviorDefined(q)
  /\ q.category \in NonAnswerable <=> ~q.answerable
  /\ q.category = "ambiguous" => q.behavior = "clarify"
  /\ q.category = "unanswerable" => q.behavior = "refuse"
  /\ q.category = "multi_chunk" <=> q.minimum # 0

ValidPage(e) == IF PageCount[e.document] = 0 THEN e.page = 0
                ELSE e.page \in 1..PageCount[e.document]

\* _validate_manifests
ValidManifest(questions) ==
  /\ IsInjective([n \in DOMAIN questions |-> questions[n].id])
  /\ \A n \in DOMAIN questions :
       LET q == questions[n]
       IN /\ q.scope # Everything =>
               Range(q.scope) \subseteq Documents /\ Sources(q) \subseteq Range(q.scope)
          /\ Sources(q) \subseteq Documents
          /\ \A e \in Range(q.evidence) : ValidPage(e)

ScopeOf(q) == IF q.scope = Everything THEN Documents ELSE Range(q.scope)

\* What RetrievalService.search accepts; it raises before it embeds otherwise.
Searchable(q) ==
  /\ q.text \notin TooLong
  /\ IsInjective(q.scope) /\ Cardinality(ScopeOf(q)) <= MaxSelected

\* Only a refusal is tested with the threshold.
ThresholdOf(q, minimum) == IF q.behavior = "refuse" THEN minimum ELSE NoThreshold

(***************************************************************************)
(* One question                                                            *)
(***************************************************************************)
\* _result_contains_evidence
Holds(hit, e) ==
  DocumentOf[hit.chunk] = e.document /\ PageOf[hit.chunk] = e.page /\ hit.chunk \in e.chunks

Matched(hits, evidence) ==
  {n \in DOMAIN evidence : \E i \in DOMAIN hits : Holds(hits[i], evidence[n])}

FirstMatch(hits, evidence) ==
  LET at == {i \in DOMAIN hits : \E n \in DOMAIN evidence : Holds(hits[i], evidence[n])}
  IN IF at = {} THEN 0 ELSE Min(at)

\* An answerable question must have evidence and a clarification candidates:
\* the metrics divide by their number, and the sweep does.
Scorable(q) == q.behavior \in {"answer", "clarify"} => q.evidence # <<>>

CitationsMatch(hits, cited) ==
  Len(cited) = Len(hits) /\ HitChunks(cited) \subseteq HitChunks(hits)

\* The reasons why a question does not pass, from its search and its answer.
Failures(q, hits, cited) ==
  LET found == {DocumentOf[c] : c \in HitChunks(hits)}
      relevant == {i \in DOMAIN hits : DocumentOf[hits[i].chunk] \in Sources(q)}
      matched == Matched(hits, q.evidence)
      pages == {PageOf[hits[i].chunk] : i \in relevant}
      tests == [expected_source_missing |-> q.answerable /\ ~(Sources(q) \subseteq found),
                no_expected_evidence_in_top_k |-> q.answerable /\ matched = {},
                incomplete_expected_evidence_in_top_k |->
                  q.answerable /\ matched \notin {{}, DOMAIN q.evidence},
                citation_mismatch |-> q.answerable /\ ~CitationsMatch(hits, cited),
                insufficient_expected_chunks |->
                  q.category = "multi_chunk" /\ Cardinality(relevant) < q.minimum,
                out_of_scope_result |->
                  q.category = "scope_isolation" /\ ~(found \subseteq Range(q.scope)),
                unsupported_answer |->
                  q.behavior = "refuse" /\ (hits # <<>> \/ cited # <<>>),
                clarification_not_supported |-> q.behavior = "clarify",
                expected_page_missing |-> Pages(q) # {} /\ ~(Pages(q) \subseteq pages)]
  IN {reason \in DOMAIN tests : tests[reason]}

\* Scores are kept rounded to four places, half to even.
Rounded(score) ==
  LET low == score \div 2
  IN IF score % 2 = 0 \/ low % 2 = 0 THEN 2 * low ELSE 2 * (low + 1)

\* The entry of question_results.
RowOf(q, hits, cited) ==
  [id |-> q.id, category |-> q.category, answerable |-> q.answerable,
   behavior |-> q.behavior, failures |-> Failures(q, hits, cited),
   matched |-> Cardinality(Matched(hits, q.evidence)), evidence |-> Len(q.evidence),
   first |-> FirstMatch(hits, q.evidence),
   results |-> [i \in DOMAIN hits |->
                  [score |-> Rounded(hits[i].score),
                   numbers |-> {n \in DOMAIN q.evidence : Holds(hits[i], q.evidence[n])}]]]

Passed(row) == row.failures = {}

\* The test of each counted kind of question, and the failure that fails it.
CounterFailure ==
  [top5 |-> "expected_source_missing", multi |-> "insufficient_expected_chunks",
   scope |-> "out_of_scope_result", unanswerable |-> "unsupported_answer",
   citation |-> "citation_mismatch", clarification |-> "clarification_not_supported",
   pages |-> "expected_page_missing"]

CounterCases(q) ==
  [top5 |-> q.answerable, multi |-> q.category = "multi_chunk",
   scope |-> q.category = "scope_isolation", unanswerable |-> q.behavior = "refuse",
   citation |-> q.answerable, clarification |-> q.behavior = "clarify",
   pages |-> Pages(q) # {}]

NoCounts == [k \in DOMAIN CounterFailure |-> Rate(0, 0)]

One(truth) == IF truth THEN 1 ELSE 0

\* Mutation: a question that fails any test is not counted as passing one.
CountWhole(counters, q, row) ==
  [k \in DOMAIN counters |->
     Rate(counters[k].of + One(CounterCases(q)[k] /\ Passed(row)),
          counters[k].total + One(CounterCases(q)[k]))]

\* The counters of _evaluate_questions.
Count(counters, q, row) ==
  [k \in DOMAIN counters |->
     Rate(counters[k].of + One(CounterCases(q)[k] /\ CounterFailure[k] \notin row.failures),
          counters[k].total + One(CounterCases(q)[k]))]

(***************************************************************************)
(* All questions                                                           *)
(***************************************************************************)
Select(rows, Test(_)) == {n \in DOMAIN rows : Test(rows[n])}
SumOver(S, rows, Value(_)) == MapThenSumSet(LAMBDA n : Value(rows[n]), S)

\* hit_rate_at_k, recall_at_k and mean_reciprocal_rank over the given rows.
HitRate(rows, S) == Rate(Cardinality({n \in S : rows[n].matched > 0}), Cardinality(S))
Recall(rows, S) ==
  Rate(SumOver(S, rows, LAMBDA r : (Units * r.matched) \div r.evidence),
       Units * Cardinality(S))
Mrr(rows, S) ==
  Rate(SumOver(S, rows, LAMBDA r : IF r.first = 0 THEN 0 ELSE Units \div r.first),
       Units * Cardinality(S))

AnswerableRows(rows) == Select(rows, LAMBDA r : r.answerable)
BadCases(rows) == Select(rows, LAMBDA r : ~Passed(r))

\* _category_metrics
CategoryMetrics(rows) ==
  [c \in {rows[n].category : n \in DOMAIN rows} |->
     LET S == Select(rows, LAMBDA r : r.category = c)
     IN [passed |-> Cardinality({n \in S : Passed(rows[n])}), total |-> Cardinality(S),
         recall |-> Recall(rows, {n \in S : rows[n].evidence > 0})]]

CategoryCounts(questions) ==
  [c \in Categories |-> Cardinality(Select(questions, LAMBDA q : q.category = c))]

\* The quality gates of run_evaluation; the ones that fail are reported.
FailedChecks(questions, ingested, counters, rows, deleted) ==
  LET answerable == AnswerableRows(rows)
      checks ==
        [document_count |-> Cardinality(Documents) = Expected.documents,
         question_count |-> Len(questions) = Expected.questions,
         category_distribution |-> CategoryCounts(questions) = Expected.categories,
         all_documents_ingested |-> Cardinality(ingested) = Expected.documents,
         source_hit_rate_at_k |-> RateAtLeast(counters.top5, 80),
         evidence_hit_rate_at_k |-> RateAtLeast(HitRate(rows, answerable), 80),
         evidence_recall_at_k |-> RateAtLeast(Recall(rows, answerable), 80),
         evidence_mean_reciprocal_rank |-> RateAtLeast(Mrr(rows, answerable), 75),
         multi_chunk_pass_rate |-> RateAtLeast(counters.multi, 100),
         scope_isolation_pass_rate |-> RateAtLeast(counters.scope, 100),
         unanswerable_rejection_rate |-> RateAtLeast(counters.unanswerable, 85),
         citation_integrity_pass_rate |-> RateAtLeast(counters.citation, 100),
         pdf_page_metadata_pass_rate |-> RateAtLeast(counters.pages, 100),
         deletion |-> deleted]
  IN {name \in DOMAIN checks : ~checks[name]}

Report(questions, ingested, counters, rows, deleted) ==
  LET failed == FailedChecks(questions, ingested, counters, rows, deleted)
  IN [passed |-> failed = {}, failed |-> failed, counters |-> counters, rows |-> rows,
      recall |-> Recall(rows, AnswerableRows(rows)), mrr |-> Mrr(rows, AnswerableRows(rows)),
      categories |-> CategoryMetrics(rows), bad |-> Cardinality(BadCases(rows)),
      deleted |-> deleted]

(***************************************************************************)
(* The threshold sweep                                                     *)
(***************************************************************************)
\* analyze_refusal_thresholds raises without questions of both kinds.
Sweepable(rows) ==
  /\ \E n \in DOMAIN rows : rows[n].behavior = "answer"
  /\ \E n \in DOMAIN rows : rows[n].behavior = "refuse"

\* The hundredths from the observable floor to 1; a full step has two halves.
Candidate(minimum) == {t \in minimum..FullScore : t % 2 = 0}

Retained(row, t) ==
  Keep(row.results, {i \in DOMAIN row.results : row.results[i].score >= t})

\* _harmonic_mean of two rates, to four places.
Harmonic(a, b) ==
  LET left == a.of * b.total
      right == b.of * a.total
  IN IF left + right = 0 THEN 0
     ELSE (2 * 10000 * left * right) \div ((left + right) * a.total * b.total)

\* _evaluate_threshold
AtThreshold(rows, t) ==
  LET answer == Select(rows, LAMBDA r : r.behavior = "answer")
      refuse == Select(rows, LAMBDA r : r.behavior = "refuse")
      matched(n) == Cardinality(UNION {r.numbers : r \in Range(Retained(rows[n], t))})
      recall == Rate(MapThenSumSet(LAMBDA n : (Units * matched(n)) \div rows[n].evidence, answer),
                     Units * Cardinality(answer))
      rejection == Rate(Cardinality({n \in refuse : Retained(rows[n], t) = <<>>}),
                        Cardinality(refuse))
      kept == Cardinality({n \in answer : Retained(rows[n], t) # <<>>})
  IN [threshold |-> t, recall |-> recall, rejection |-> rejection,
      refused |-> Rate(Cardinality(answer) - kept, Cardinality(answer)),
      balanced |-> Harmonic(recall, rejection)]

\* The best balanced score, then rejection, recall, fewest refused answers (all
\* rows of a sweep have the same totals) and the lowest threshold.
Recommended(rows, minimum) ==
  LET Key(r) == <<-r.balanced, -r.rejection.of, -r.recall.of, r.refused.of, r.threshold>>
      sweep == {AtThreshold(rows, t) : t \in Candidate(minimum)}
  IN CHOOSE r \in sweep : \A s \in sweep \ {r} : LexBefore(Key(r), Key(s))

(***************************************************************************)
(* The hybrid experiment                                                   *)
(***************************************************************************)
Improves(a, b) == a.of * b.total > b.of * a.total

\* production_change_recommended
ChangeRecommended(dense, hybrid, at) ==
  /\ Improves(hybrid.recall, dense.recall)
  /\ ~Improves(dense.mrr, hybrid.mrr)
  /\ RateAtLeast(at.rejection, 85)
  /\ 100 * at.refused.of <= 5 * at.refused.total

\* _decision_reasons
DecisionReasons(dense, hybrid, at) ==
  LET tests == [hybrid_did_not_improve_evidence_recall |-> ~Improves(hybrid.recall, dense.recall),
                hybrid_reduced_mrr |-> Improves(dense.mrr, hybrid.mrr),
                candidate_threshold_misses_refusal_gate |-> ~RateAtLeast(at.rejection, 85),
                candidate_threshold_rejects_too_many_answerable_questions |->
                  100 * at.refused.of > 5 * at.refused.total]
      reasons == {r \in DOMAIN tests : tests[r]}
  IN IF reasons = {} THEN {"requires_real_semantic_provider_validation"} ELSE reasons
=============================================================================
