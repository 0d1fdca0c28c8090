---------------------------- MODULE EvaluationRun ----------------------------
(***************************************************************************)
(* run_evaluation (evaluation/runner.py) and the programs that call it:    *)
(* the tracked baseline, the semantic comparison (evaluation/              *)
(* semantic_experiment.py), the hybrid comparison (evaluation/             *)
(* hybrid_experiment.py), which evaluates twice, and the latency benchmark *)
(* (evaluation/latency.py), which evaluates once per round.  Every round   *)
(* has its own temporary directory, stores and providers.                  *)
(*                                                                         *)
(* The same documents and questions are given to the same embeddings in    *)
(* every round, so what a question makes of the chunks is fixed once.      *)
(***************************************************************************)
EXTENDS EvaluationMetrics

CONSTANTS
  Programs,
  TextOf,         \* the text of a chunk; two chunks may have the same
  ProbeText,      \* the text the deletion probe searches for
  QuestionLists,  \* what the questions.json of a program may hold, invalid ones included
  QueryLists,     \* what the questions make of the chunks: [similarity, weight]
  Probed,         \* the document the deletion probe deletes: access_policy.txt
  Floor,          \* unanswerable_score_threshold of each program
  Warmup          \* warmup_questions_per_round

ASSUME RunAssumption ==
  /\ Programs \subseteq {"baseline", "semantic", "hybrid", "latency", "llm"}
  /\ Probed \in Documents
  /\ Programs \ {"llm"} \subseteq DOMAIN Floor
  /\ \A p \in DOMAIN Floor : Floor[p] \in 0..FullScore /\ Floor[p] % 2 = 0

\* What is asked are sequences, and every question makes something of every chunk.
ASSUME QuestionsAssumption ==
  \A p \in Programs : \A list \in QuestionLists[p] :
    /\ list \in Seq(Range(list)) /\ \A q \in Range(list) : q.evidence \in Seq(Range(q.evidence))
    /\ \A made \in QueryLists :
         /\ DOMAIN list \subseteq DOMAIN made
         /\ \A n \in DOMAIN made :
              /\ made[n].similarity \in [Chunks -> NoThreshold..FullScore]
              /\ made[n].weight \in [Chunks -> Int]

VARIABLES
  program, questions, queries, pc,
  round,      \* the current call of run_evaluation
  open,       \* what is open: the temporary directory, providers, store
  stuck,      \* what was closed with an error
  raised,     \* is an exception on its way out of run_evaluation?
  ingested,   \* the documents of the dictionary of that name
  stored,     \* the chunks in the vector store
  recorded,   \* RecordingVectorStore._chunks
  indexed,    \* the chunks of the BM25 index
  cache,      \* the texts CachingEmbeddingProvider remembers
  paid,       \* how often each text was sent to the provider in this round
  rows,       \* question_results
  counters,
  deleted,    \* deletion_passed
  samples,    \* the latencies measured, of all rounds
  reports,    \* the EvaluationReports of the rounds so far
  decision    \* what the program concludes, Undecided before

inputs == <<program, questions, queries>>
contents == <<ingested, stored, recorded, indexed>>
spending == <<cache, paid>>
results == <<rows, counters, deleted, samples>>
conclusions == <<reports, decision>>
runVars == <<inputs, pc, round, open, stuck, raised, contents, spending, results, conclusions>>

Undecided == [status |-> "none"]

\* How a round searches: run_hybrid_comparison has its dense control first.
Strategies ==
  CASE program = "hybrid" -> <<"dense", "hybrid">>
    [] program = "latency" -> <<"dense", "dense">>
    [] OTHER -> <<"dense">>

Strategy == Strategies[round]
Minimum == Floor[program]

\* The semantic comparisons wrap a paid provider; hashing costs nothing.
Caching == program \in {"semantic", "hybrid"}

\* Everything that may be sent to the provider; a question may repeat another
\* one, or be the text of a chunk.
Texts ==
  {TextOf[c] : c \in Chunks} \union {questions[n].text : n \in DOMAIN questions}
    \union {ProbeText}

\* What equal texts make of the chunks is equal.
QueriesOf(list) ==
  {made \in QueryLists :
     \A m, n \in DOMAIN list : list[m].text = list[n].text => made[m] = made[n]}

ChunksOf(d) == {c \in Chunks : DocumentOf[c] = d}
NextDocument == Min(Documents \ ingested)

\* The caller says what is open before: Init of LLMComparison.
RunInit ==
  /\ program \in Programs /\ questions \in QuestionLists[program] /\ queries = <<>>
  /\ pc = "load" /\ round = 1
  /\ stuck = {} /\ raised = FALSE
  /\ ingested = {} /\ stored = {} /\ recorded = {} /\ indexed = {}
  /\ cache = {} /\ paid = [t \in Texts |-> 0]
  /\ rows = <<>> /\ counters = NoCounts /\ deleted = FALSE /\ samples = 0
  /\ reports = <<>> /\ decision = Undecided

(***************************************************************************)
(* Steps                                                                   *)
(***************************************************************************)
Goto(label) == pc' = label /\ UNCHANGED raised
\* An exception inside the try: its finally clauses run.
Fail == pc' = "closing" /\ raised' = TRUE
End(result) == pc' = "ended" /\ decision' = result
Raise == End([status |-> "raised"])

\* The manifests are read and validated before anything else; the semantic
\* comparison has read its baseline report before.
LoadInputs ==
  /\ pc = "load" /\ program # "llm"
  /\ \/ Raise /\ UNCHANGED queries
     \/ /\ \A n \in DOMAIN questions : ValidContract(questions[n])
        /\ ValidManifest(questions)
        /\ queries' \in QueriesOf(questions) /\ pc' = "open" /\ UNCHANGED decision
  /\ UNCHANGED <<program, questions, round, open, stuck, raised, contents, spending,
                 results, reports>>

\* The stores are opened before the try, so what is open stays open if that
\* fails; the temporary directory is always removed.
OpenStores ==
  /\ pc = "open" /\ program # "llm"
  /\ \/ \E left \in {{}, {"embedding"}} : open' = left /\ Raise
     \/ /\ open' = {"directory", "embedding", "store"}
        /\ pc' = "ingest" /\ UNCHANGED decision
  /\ UNCHANGED <<inputs, round, stuck, raised, contents, spending, results, reports>>

\* Mutation: only the texts of documents are remembered.
RememberNothing(text) == cache

\* CachingEmbeddingProvider.embed_query stores what the provider returned.
Remember(text) == IF Caching THEN cache \union {text} ELSE cache

\* embed_documents sends the texts that are missing, each once.
Missing(texts) == texts \ cache
Pay(texts) == paid' = [t \in Texts |-> IF Caching /\ t \in texts THEN paid[t] + 1 ELSE paid[t]]

\* IngestionService.ingest up to its embeddings.
EmbedDocument ==
  /\ pc = "ingest" /\ ingested # Documents
  /\ LET texts == {TextOf[c] : c \in ChunksOf(NextDocument)}
     IN \/ Fail /\ UNCHANGED spending
        \/ Fail /\ Pay(Missing(texts)) /\ UNCHANGED cache
        \/ Goto("upsert") /\ Pay(Missing(texts))
           /\ cache' = IF Caching THEN cache \union texts ELSE cache
  /\ UNCHANGED <<inputs, round, open, stuck, contents, results, conclusions>>

\* RecordingVectorStore.upsert records what the wrapped store has accepted.
UpsertDocument ==
  /\ pc = "upsert"
  /\ \/ /\ stored' = stored \union ChunksOf(NextDocument)
        /\ recorded' = recorded \union ChunksOf(NextDocument)
        /\ Goto("commit")
     \/ /\ \E part \in SUBSET ChunksOf(NextDocument) : stored' = stored \union part
        /\ Goto("rollback") /\ UNCHANGED recorded
  /\ UNCHANGED <<inputs, round, open, stuck, ingested, indexed, spending, results, conclusions>>

CommitDocument ==
  /\ pc = "commit"
  /\ \/ ingested' = ingested \union {NextDocument} /\ Goto("ingest")
     \/ Goto("rollback") /\ UNCHANGED ingested
  /\ UNCHANGED <<inputs, round, open, stuck, stored, recorded, indexed, spending, results,
                 conclusions>>

\* delete_by_document drops the record after the wrapped store has deleted; an
\* error of the wrapped store, which may have deleted, is swallowed here.
RollBackDocument ==
  /\ pc = "rollback" /\ Fail
  /\ \/ /\ stored' = stored \ ChunksOf(NextDocument)
        /\ recorded' = recorded \ ChunksOf(NextDocument)
     \/ stored' \in {stored, stored \ ChunksOf(NextDocument)} /\ UNCHANGED recorded
  /\ UNCHANGED <<inputs, round, open, stuck, ingested, indexed, spending, results, conclusions>>

\* The BM25 index is built once, from what has been recorded by then.
BuildSearch ==
  /\ pc = "ingest" /\ ingested = Documents
  /\ indexed' = IF Strategy = "hybrid" THEN recorded ELSE {}
  /\ Goto("question")
  /\ UNCHANGED <<inputs, round, open, stuck, ingested, stored, recorded, spending, results,
                 conclusions>>

(***************************************************************************)
(* Questions                                                               *)
(***************************************************************************)
Asked == Len(rows) + 1

Search(n, chunks, threshold) ==
  IF Strategy = "hybrid"
  THEN HybridSearch(queries[n], chunks, indexed, ScopeOf(questions[n]), TopK, threshold)
  ELSE DenseSearch(queries[n].similarity, chunks, ScopeOf(questions[n]), TopK, threshold)

\* search, and answer, which searches again: each embeds the query.
EmbedTwice(text) ==
  /\ cache' = Remember(text)
  /\ paid' = [paid EXCEPT ![text] = @ + IF ~Caching THEN 0
                                        ELSE One(text \notin cache) + One(text \notin cache')]

\* observe: the first questions of a round warm the stores up.
Measured == program = "latency" /\ Asked > Warmup

\* One question of _evaluate_questions.  A provider or the store may raise; so
\* does the search of what it does not accept, before anything is sent, and the
\* metrics on a question without the evidence they divide by.
EvaluateQuestion ==
  /\ pc = "question" /\ Asked \in DOMAIN questions /\ program # "llm"
  /\ LET q == questions[Asked]
         hits == Search(Asked, stored, ThresholdOf(q, Minimum))
         row == RowOf(q, hits, hits)
     IN \/ /\ Searchable(q) /\ EmbedTwice(q.text) /\ Scorable(q)
           /\ rows' = Append(rows, row) /\ counters' = Count(counters, q, row)
           /\ samples' = samples + One(Measured)
           /\ Goto("question")
        \/ /\ Fail
           /\ \/ Searchable(q) /\ Pay(Missing({q.text}))
              \/ UNCHANGED paid
           /\ UNCHANGED <<cache, rows, counters, samples>>
  /\ UNCHANGED <<inputs, round, open, stuck, contents, deleted, conclusions>>

\* _evaluate_deletion: delete one document, then search for it.
ProbeDeletion ==
  /\ pc = "question" /\ Asked \notin DOMAIN questions /\ program # "llm"
  /\ \/ /\ stored' = stored \ ChunksOf(Probed) /\ recorded' = recorded \ ChunksOf(Probed)
        /\ Pay(Missing({ProbeText})) /\ cache' = Remember(ProbeText)
        /\ deleted' = (stored' \intersect ChunksOf(Probed) = {})
        /\ Goto("closing")
     \/ /\ stored' \in {stored, stored \ ChunksOf(Probed)}
        /\ Fail /\ UNCHANGED <<recorded, spending, deleted>>
  /\ UNCHANGED <<inputs, round, open, stuck, ingested, indexed, rows, counters, samples,
                 conclusions>>

(***************************************************************************)
(* The end of a round                                                      *)
(***************************************************************************)
\* A close that raises leaves it to the provider or the store what is left.
Close(resource, label) ==
  \/ open' = open \ {resource} /\ pc' = label /\ UNCHANGED <<stuck, raised>>
  \/ /\ open' = open \ {resource} /\ stuck' = stuck \union {resource}
     /\ raised' = TRUE /\ pc' = label

\* Mutation: the store is closed only if the provider was.
CloseInTurn ==
  /\ pc = "closing" /\ program # "llm"
  /\ \/ open' = open \ {"embedding"} /\ pc' = "close_store" /\ UNCHANGED <<stuck, raised>>
     \/ /\ open' = open \ {"embedding"} /\ stuck' = stuck \union {"embedding"}
        /\ raised' = TRUE /\ pc' = "leave_directory"
  /\ UNCHANGED <<inputs, round, contents, spending, results, conclusions>>

\* The offline LLM provider has nothing to close; the store is closed even if
\* the embedding provider raises.
CloseEmbedding ==
  /\ pc = "closing" /\ program # "llm" /\ Close("embedding", "close_store")
  /\ UNCHANGED <<inputs, round, contents, spending, results, conclusions>>

CloseStore ==
  /\ pc = IF program = "llm" THEN "closing" ELSE "close_store"
  /\ Close("store", "leave_directory")
  /\ UNCHANGED <<inputs, round, contents, spending, results, conclusions>>

\* The temporary directory goes last; an exception goes on from here.
LeaveDirectory ==
  /\ pc = "leave_directory" /\ program # "llm"
  /\ open' = open \ {"directory"}
  /\ IF raised THEN Raise ELSE pc' = "report" /\ UNCHANGED decision
  /\ UNCHANGED <<inputs, round, stuck, raised, contents, spending, results, reports>>

NextRound ==
  /\ pc' = "open" /\ round' = round + 1 /\ UNCHANGED <<decision, samples>>
  /\ ingested' = {} /\ stored' = {} /\ recorded' = {} /\ indexed' = {}
  /\ cache' = {} /\ paid' = [t \in Texts |-> 0]
  /\ rows' = <<>> /\ counters' = NoCounts /\ deleted' = FALSE

\* The report of a round; the latency benchmark stops at one that did not pass.
BuildReport ==
  /\ pc = "report" /\ program # "llm"
  /\ LET report == Report(questions, ingested, counters, rows, deleted)
     IN /\ reports' = Append(reports, report)
        /\ IF program = "latency" /\ ~report.passed
           THEN Raise /\ UNCHANGED <<round, contents, spending, results>>
           ELSE IF round < Len(Strategies) THEN NextRound
           ELSE pc' = "decide" /\ UNCHANGED <<round, contents, spending, results, decision>>
  /\ UNCHANGED <<inputs, open, stuck, raised>>

\* What the program makes of its reports.  The latency benchmark must have
\* measured every question that was not a warm-up.
EndLatency ==
  IF samples = Len(reports) * (Expected.questions - Warmup)
  THEN End([status |-> "completed"]) ELSE Raise

Analysis(promoted, reasons) ==
  [status |-> "analysed", at |-> Recommended(Last(reports).rows, Minimum),
   promoted |-> promoted, reasons |-> reasons]

\* Its baseline may have another number of questions.
EndSemantic ==
  \/ Raise
  \/ Sweepable(Last(reports).rows) /\ End(Analysis(FALSE, {}))

EndHybrid ==
  LET at == Recommended(Last(reports).rows, Minimum)
  IN IF Sweepable(Last(reports).rows)
     THEN End(Analysis(ChangeRecommended(reports[1], Last(reports), at),
                       DecisionReasons(reports[1], Last(reports), at)))
     ELSE Raise

Decide ==
  /\ pc = "decide" /\ program # "llm"
  /\ CASE program = "baseline" -> End([status |-> "completed"])
       [] program = "latency" -> EndLatency
       [] program = "semantic" -> EndSemantic
       [] program = "hybrid" -> EndHybrid
  /\ UNCHANGED <<inputs, round, open, stuck, raised, contents, spending, results, reports>>

RunNext ==
  \/ LoadInputs \/ OpenStores
  \/ EmbedDocument \/ UpsertDocument \/ CommitDocument \/ RollBackDocument
  \/ BuildSearch \/ EvaluateQuestion \/ ProbeDeletion
  \/ CloseEmbedding \/ CloseStore \/ LeaveDirectory
  \/ BuildReport \/ Decide
  \/ pc = "ended" /\ UNCHANGED runVars

(***************************************************************************)
(* Properties                                                              *)
(***************************************************************************)
FailedWith(report, failure) ==
  Cardinality(Select(report.rows, LAMBDA r : failure \in r.failures))

\* Every rate of a report is the count of its own question results: the tests
\* that fail a question are the ones its counter misses, the categories add up,
\* and a report that passed has no question failed for its scope, its chunks,
\* its pages or its citations (evaluation/runner.py counts them apart).
RecountAgrees(report) ==
  LET categories == DOMAIN report.categories
  IN /\ \A k \in DOMAIN report.counters :
          report.counters[k].total - report.counters[k].of
            = FailedWith(report, CounterFailure[k])
     /\ Len(report.rows) = MapThenSumSet(LAMBDA c : report.categories[c].total, categories)
     /\ Len(report.rows) - report.bad
          = MapThenSumSet(LAMBDA c : report.categories[c].passed, categories)
     /\ report.passed =>
          \A k \in {"multi", "scope", "citation", "pages"} :
            FailedWith(report, CounterFailure[k]) = 0

\* The sweep asks the provider nothing: at each of its thresholds it keeps the
\* questions a search with that threshold would answer, but for a score that
\* rounding lifted by half a step.
SweepReplays(swept) ==
  \A t \in Candidate(Minimum), n \in DOMAIN swept :
    /\ Search(n, Chunks, t) # <<>> => Retained(swept[n], t) # <<>>
    /\ Retained(swept[n], t) # <<>> => Search(n, Chunks, t - 1) # <<>>

\* What the reports say is what happened: the recount agrees, the threshold
\* analysis is what searches with these thresholds would find, and a change of
\* production is recommended exactly if no reason is given against it.
ReportIsTrue ==
  /\ \A n \in DOMAIN reports : RecountAgrees(reports[n])
  /\ decision.status = "analysed" =>
       /\ SweepReplays(Last(reports).rows)
       /\ program = "hybrid" =>
            (decision.promoted <=> decision.reasons = {"requires_real_semantic_provider_validation"})

\* Both halves of a hybrid search see the same chunks, whatever failed in
\* between: nothing is recorded that is not stored, the BM25 index has what the
\* vector store has while questions are asked, and the fused ranking does not
\* depend on which of the two comes first.
HybridIsFair ==
  /\ ~raised => recorded \subseteq stored
  /\ pc = "question" /\ Strategy = "hybrid" /\ ~raised =>
       /\ indexed = stored
       /\ rows # <<>> =>
            LET n == Len(rows)
                lists == Candidates(queries[n], stored, indexed, ScopeOf(questions[n]), TopK)
            IN Fuse(lists, TopK) = Fuse(Reverse(lists), TopK)

\* evaluation/providers.py, "evaluation does not pay for duplicate embeddings":
\* within a round no text is sent twice, be it of a chunk, of a question or of
\* both; and once the corpus was paid for the metrics never divide by the evidence
\* that a question lacks.  The search may still refuse a question that passed
\* the validation (Searchable), and a round ends there after it has paid.
PaidWorkIsScored ==
  /\ \A t \in Texts : paid[t] <= 1
  /\ pc = "question" /\ program # "llm" => \A n \in DOMAIN questions : Scorable(questions[n])
=============================================================================
