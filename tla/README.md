# Enterprise Knowledge Assistant: a TLA+ verification project

The application (`app/`) lets users upload PDF and text documents, cuts them
into chunks, stores an embedding of each chunk in Qdrant and answers questions
from the chunks of the documents a user selects. What is hard about it is not
one algorithm but the agreement of four things that fail separately: a SQLite
file, a Qdrant server, a directory of uploads, and two processes (the API with
its request threads, and the ingestion Worker with its supervisor). No
transaction spans them. This directory models that agreement, checks it with
TLC on small instances and proves the central part of it with TLAPS. The pure
parts with difficult boundaries (the chunker, streaming an upload to disk,
routing a question) have modules of their own, and so have the programs of
`evaluation/` and `scripts/` that measure the application: a report that is
wrong, or a paid run that is repeated, is as hard to notice as a lost chunk.

Paths below are relative to `src/`, the repository.

## 1. Inventory of the system

| Part | State it keeps | Operations |
|---|---|---|
| SQLite repository, `app/storage/sqlite_document_repository.py` | `documents` and `ingestion_jobs` (status, attempt count, creation time, digest) | one committed transaction each: create, create with job, claim, complete, fail, recover, update status, delete |
| Qdrant store, `app/storage/qdrant_vector_store.py` | points: one per chunk, with the document it belongs to | upsert, search, delete by document |
| Upload storage, `app/document_processing/file_storage.py` | one file per document id, and temporary `.part` files | stream, size check, publish by hard link, unlink |
| V2 submission, `app/services/async_ingestion_service.py` | none besides the call itself | save file, build job, commit, clean up |
| Worker, `app/services/ingestion_worker.py`, `app/worker.py` | the job it holds, the process's life | recover, claim, process, complete or compensate and fail, exit |
| Processor, `app/services/ingestion_processor.py` | none | check file, purge old points, load, chunk, embed, upsert |
| V1 ingestion, `app/services/ingestion_service.py` | none besides the request thread | the same work inside one request, with a rollback |
| Deletion, `app/services/document_service.py` | none besides the request thread | check state, delete points, unlink, delete the row |
| Retrieval, `app/services/retrieval_service.py` | none besides the request thread | validate each selected document, embed, search, cut to `top_k` |
| Routed answers, `app/services/routed_answer_service.py` with router, rewriter and evidence policy | none besides the request thread | route, search, assess, rewrite and search once more, generate |
| Chunker and loaders, `app/document_processing/` | none | pages, sections, overlapping slices |
| Providers, settings, schemas, error handlers, wiring | configuration | adapters around remote services |
| Ingestion benchmark, `evaluation/ingestion_benchmark.py` and its worker | Worker processes, two collections, samples | start, poll, kill and join Workers; report |
| Offline evaluation, `evaluation/runner.py` with metrics, thresholds, latency, contracts | temporary stores, counters, question results | ingest a corpus, ask every question, probe a deletion, report, sweep |
| Hybrid retrieval, `evaluation/hybrid.py`, `hybrid_experiment.py` | recorded chunks, BM25 index | record, index, search, fuse, decide |
| LLM comparison, `evaluation/llm_comparison.py` | an accumulator per provider | retrieve once, ask every provider, summarise |
| R6 routing evaluation, `evaluation/r6_routing_evaluation.py` | predictions, probe results | route, assess, probe the service, accept or reject |
| R7 experiments, `evaluation/experiments/`, `scripts/run_r7_*.py`, calibrations | run directories, caches, a meter | plan, authorise, claim, pay, rank or run the arms, report, export |
| R7 corpus preparation, the other `evaluation/r7_*.py` | none | check, sanitise and map a corpus once |

### How the parts interact

- The API process serves each request in a thread (`run_in_threadpool`), so
  uploads, deletions and searches interleave at every transaction and at every
  remote call. It shares SQLite, Qdrant and the upload directory with the Worker.
- The API hands work to the Worker through the table `ingestion_jobs` only; the
  Worker polls it. `compose.yaml` restarts the Worker `on-failure:3`.
- A service never holds a transaction open across a remote call. Every
  multi-step operation is therefore a sequence of separately durable effects,
  with a compensation or a replay where the authors wrote one.
- SQLite may commit and still report an error, and Qdrant may apply all or part
  of a request that raised, during the call or after the client gave up (5 s).

### What is hard, and what correctness means for each part

- *Job lifecycle.* The two rows of an upload agree; one job runs at a time; an
  ended job never reopens; every accepted job settles while restarts remain.
- *Replay after a crash.* A ready document is indexed by exactly the chunks of
  one attempt, whatever earlier attempts left behind.
- *Ambiguous completion.* The Worker must not compensate (delete vectors and
  file) after a commit that may be durable.
- *Deletion.* Four unprotected steps race the Worker and each other: no points
  without a row, no document that can never be deleted again, no effect on an
  active job.
- *V1 rollback.* Each rollback step may fail, the process may die before any of
  them, and clients can see the document before `ingest` returns.
- *Search beside change.* Validation, embedding and search are separate in
  time; what a search returns must still belong to a ready document.
- *Routing and evidence.* Refusals win over every other rule, an answer cites
  retrieved evidence once each, and no more calls are made than are reported.
- *Chunking.* The loop ends, loses no text and keeps to its sizes for every
  legal overlap.
- *Saving an upload.* The limit holds on disk at every moment, a published file
  is whole, and an existing file is never replaced.
- *Benchmark.* One Worker at a time through every timeout and kill, and a
  recovery that is reported as passed was one; one that is reported as failed
  had a document too long for the search of the check.
- *Evaluation.* Counters kept beside the question results agree with them; the
  threshold sweep predicts what a search would do; both halves of hybrid search
  see one corpus; nothing is paid for twice and everything is closed.
- *Comparison.* All providers do the same work, and a cost is reported only if
  all of it is known.
- *R7 runs.* What is sent stays within what was approved, a claimed run happens
  once, and the artifacts on disk tell how it ended, whenever it is killed and
  whichever of its writes fails.

`PROJECT.json` lists the hazards behind these, each at the line where it bites,
with the properties that would catch it. Where a property covers part of a
hazard only, or none does, a note says which part is left and why: the limit of
V1 when its process dies, the exhausted restart budget and the job that uses it
up, evidence of a first round that is deleted before the second.

## 2. Modules

```
Uploads                     documents, their digests
  DocumentRepository        SQLite: one operator per transaction
VectorStore                 Qdrant: whole, partial, lost and late requests
  DocumentService           DELETE requests; extends the two stores
    AsyncIngestion          V2: submissions, Worker, supervisor, crashes
      IngestionLifecycle    the abstract promise, implemented by AsyncIngestion
      AsyncServing          AsyncIngestion and ScopedRetrieval composed
      IngestionBenchmark    the driver of R4 around the V2 submissions and Worker
        AsyncIngestionProofs  all three
    SyncIngestion           V1: uploads and rollback as request threads
      SyncIngestionProofs
ScopedRetrieval             search and answer requests over the two stores
RoutedAnswer                one routed question, with ranks and scores
  R6RoutingEvaluation       the frozen evaluation of its rules and of the service
    RoutedAnswerProofs      both of them
Chunker, ChunkerProofs      pages to chunks
FileStorage, FileStorageProofs   one upload stream to one published file
RankFusion                  sort keys, cuts and reciprocal ranks
  HybridRetrieval           dense and BM25 candidates and their fusion
    EvaluationMetrics       contracts, question results, reports, sweep, decision
      EvaluationRun         run_evaluation and the programs that call it
        LLMComparison       the providers' turns over one shared retrieval
          EvaluationProofs  both of them
  R7Retrieval               the three arms: dense, retry, graph
    R7Runs                  the paid R7 programs; extends R7Calibration too
      R7RunsProofs
R7Calibration               the registered choice of a threshold
SetFolds                    induction, folds, sorting and sums, for the proofs
MC*                         instances for TLC
```

### DocumentRepository, VectorStore, Uploads

`docStatus`, `jobStatus`, `attemptCount` and `createdAt` are the columns that
decide anything; a missing row is `"absent"`. A job is identified by its
document (`document_id` is UNIQUE). Each operator is one transaction: unprimed
conjuncts are its WHERE clauses and constraints (the digest is UNIQUE over all
rows, failed ones included), the rest is what it writes. A
transaction that raises changes nothing, because `_connection()` rolls back;
callers add the third outcome, *durable but reported as failed*, where the code
has to cope with it. Two jobs built in the same microsecond are not modelled:
`clock` orders them strictly.

`vectors[d]` is the set of points of a document. A point is `<<attempt, part>>`:
chunk ids are fresh in every attempt, so points of two attempts never
overwrite each other, and that is what the properties have to tell apart. An
upsert that raises leaves any subset applied, a deletion all or nothing. With
`LateWrites` either may also stay in `inflight` and be applied at any later moment (`Land`).

### AsyncIngestion

| Code | Actions |
|---|---|
| `AsyncIngestionService.submit` | `SaveUpload`, `BuildJob`, `CommitJob`, `RemoveStoredFile` |
| `IngestionWorker.recover_abandoned_jobs`, start of `run_forever` | `RecoverAbandonedJobs` |
| `process_next`, up to the processor | `ClaimNextJob`, `ReadDocument` |
| `IngestionProcessor.process` | `CheckFile`, `PurgeVectors`, `LoadAndEmbed`, `UpsertChunks` |
| completion and its verification | `CompleteJob`, `VerifyCompletion` |
| `_compensate_failed_processing`, then `fail_job` | `CompensateVectors`, `CompensateFile`, `FailJob` |
| death of the Worker, `restart: on-failure:3` | `WorkerCrash`, `RestartWorker` |
| death and restart of the API process | `ApiCrash` |
| `DocumentService.delete_document` | `GetForDeletion`, `DeleteVectors`, `DeleteStoredFile`, `DeleteRecord` under `Delete` |
| a request Qdrant applies after the client's timeout | `LateWrite` |

`workerPc` is the next step of the Worker and `"down"` while no process runs; a
crash may interrupt any step, and takes with it any part of the Qdrant request
in progress. `condemned` is auxiliary: the documents on which some deletion was
allowed, which is what "until it is deleted" means in the properties.

### SyncIngestion

`ingest` is one request thread per upload: `SaveUpload`, `CreateRecord`, the
processor's four steps, `MarkReady`, `ReadBack`, and the rollback
(`RollbackVectors`, `RollbackRecord`, `RemoveStoredFile`), whose three steps
swallow their errors as `_rollback_*` do. A dead API process leaves the upload
`"lost"` at the step it had reached; nothing recovers it.

### ScopedRetrieval and AsyncServing

A query selects documents, validates them one transaction at a time
(`ValidateDocument`), and then sees the points of the collection as they are at
that moment (`Search`); a routed query may do so twice (`Retry`). Embeddings
and ranking are abstracted: a search returns any visible points, at most
`TopK`. `AsyncServing` runs queries beside every action of `AsyncIngestion`;
the API process that dies takes its queries along (`ServerCrash`).

### RoutedAnswer

One question from routing to its result. A question is the set of rules it
matches and what rewriting it would give, which is all that
`RuleBasedQuestionRouter` and `QueryRewriter` let anyone observe. A search
returns a sequence of scored chunks without repetition, best first, at most
`top_k` long (`Found`); `Relevant` and `ShouldRetry` are the code's own rules.
`MergeRounds` walks through the second round as `_merge_rounds` does, keeping
what the first has not found, and is written as a recursive function so that it
can be reasoned about. `Return` builds the result under the
constraints of `RoutedAnswerResult.__post_init__`, so that a combination the
class would refuse shows up as a violation of `ResultIsValid`.

### Chunker

Pages are sequences of characters; positions are one more than Python's. A step
opens a page (`OpenPage`) or cuts one slice (`CutSlice`: target end, last
boundary past half a chunk, stripping, overlap, white space skipped). Chunks are
positions of the page rather than copies of its text, which is what makes
"nothing lost" a statement about the document. The real boundary strings are
reduced to their three shapes and newline normalisation is left to the input.

### FileStorage

Calls of `save_upload_stream` by several threads, byte counts instead of bytes,
a buffer that reaches the disk in unknown portions until `close`, hard-link
publication, and removal of the temporary file on each exit. The process may
die between any two steps (`Die`). Power loss without `fsync` and the ambiguity
of `link` on network file systems are not modelled. Temporary files left behind
by a crash or by a failing `unlink` remain: nothing in the code collects them.
In the ingestion modules the same call is one step, published whole or not at
all; `PublishedIsWhole` and `OutcomeIsTrue` are what justifies that.

### IngestionBenchmark

The driver is a `Script` of instructions (accept an upload, wait for a status,
start a Worker, join it, read, search) built from the configuration as
`_run_ingestion_benchmark` runs them, and a step per instruction; every wait may
give up at its deadline. The upload and Worker steps are those of
`AsyncIngestion`. A Worker process has a `mode` (serve, crash after the upsert,
recover), counts its jobs (`JobLimit`) and ends with an exit code, at any moment
if it dies. `LeaveDirectories`, `TerminateWorker` and `RemoveCollections` are the
nested `finally` clauses. The check of the recovery compares `documents.chunk_count`
with a search for at most 100 results; the configuration does not bound the
length of a document. The variable `limit`, fixed at the start as one of
`SearchLimits`, puts the limit on either side of the number of chunks
(`ResultCount`).

### R6RoutingEvaluation

`RouteSample` and `AssessCase` score the router and the evidence policy against
labels; `StartProbe`, `AnswerProbe` and `RecordProbe` send every sample that
should retrieve through the actions of `RoutedAnswer` over a search that finds
nothing. `Metrics` is `classification_metrics` in ten-thousandths, F1 as the
equal `2TP / (support + predicted)`.

### RankFusion, HybridRetrieval, EvaluationMetrics, EvaluationRun, LLMComparison

A query is what it makes of each chunk: a similarity and a BM25 weight.
`DenseSearch` keeps equal scores in store order, `LexicalSearch` and `Fuse`
order them by the stable key, reciprocal ranks are integers over a common
denominator. Scores are in half steps of the sweep's grid, so that rounding a
score up (`Rounded`) and cutting at a threshold can disagree as they do in the
code. No threshold is the least score (`NoThreshold`), as -1.0 is for cosines, so
that negative similarities are kept.

A question has a text, which other questions or a chunk may repeat, and a scope,
which is a list. The contract of `evaluation/contracts.py` (`ValidContract`)
accepts a list that names a document twice and a text of any length (`TooLong`);
`RetrievalService` (`Searchable`) refuses both. So a question that passed the
validation can end a round that has paid for the corpus: `EvaluateQuestion` and
`Retrieve` fail there, before they send anything.

`EvaluationRun` is one call of `run_evaluation` per round: ingest the documents
one by one with the store's partial failures and the rollback (`EmbedDocument`,
`UpsertDocument`, `CommitDocument`, `RollBackDocument`), build the search, ask
the questions (`EvaluateQuestion`), probe a deletion, close everything in
`finally` order, report. `Decide` is what each program concludes. `RowOf`,
`Count` and `Report` keep the question results, the counters beside them and the
aggregate apart as the code does. `LLMComparison` extends it with the turns of
the providers; their outcomes are answers, refusals, with or without usage, and
errors. Its embedding and LLM providers are made by
`scripts/run_llm_comparison.py` and open when it is called (`Given`); the checks
of `LoadComparison` come before its `try`, and nobody closes the providers when
one of them raises.

### R7Retrieval, R7Calibration, R7Runs

`R7Retrieval` computes what each arm may return: the first hits of a dense
search, a second round for weak evidence, and assertions found by walks of at
most three edges inside the allowed documents, fused with it. `R7Runs` runs one of five
programs in two invocations with the same paths: `CheckPaths`, `PlanRun`,
`Authorize`, `ClaimDirectory`, the metered requests (`EmbedBatch`,
`ExtractChunk`), caches, arms, report and status, with `Kill` possible before
every step and inside a paid request. `disk` records which invocation wrote each
artifact, or that it is `Torn`. Every write may be refused because the file is
there, may fail before there is a file (the directory of the path need not
exist), or in the middle of it (`Fault`). What that means depends on the program:
a formal run catches it and keeps its partial trajectories (`KeepPartial`), a
calibration catches it for its cache but not for its report, the smoke run for
neither; an invocation that paid may thus end with nothing on the disk. Only the
NEUQ calibration writes without an exclusive create (`Writable`), and started as
a module without `--execute` it writes its plan to the path of the report
(`WritePlan`). `disturbed` and `overwritten` are auxiliary: two invocations
overlapped or one was killed, and a file was replaced.

### IngestionLifecycle

The abstract specification: an upload moves from `none` through `pending` and
`running` to `ready` or `failed`, back to `pending` only by a restart, and ends
`condemned` then `deleted`; only one is running, and only ended ones can be
condemned. `AsyncIngestion` maps its tables and `condemned` to these phases
(`Phase`), and the run `async_liveness` checks `Lifecycle!Spec` as a property.

## 3. What TLC checks

| Run | Instance | Properties and what they show |
|---|---|---|
| `async_worker` | two documents with different digests, two parts, one DELETE thread, one restart; late requests only while a single upload was submitted (the constraint `LateBesideOne`); 1.1 million states | `JobDocumentAgree`, `NoStrandedJob`, `ReadyIsIndexed`, `ReadySourceKept`, `AttemptsBounded`, `TerminalIsFinal`, `TypeOK`: the Worker's error paths keep the stores in agreement |
| `async_liveness` | two documents, one part, one DELETE thread, fair Worker and supervisor, one restart | `EveryJobSettles`, and `ImplementsLifecycle`, the refinement |
| `sync_safety` | two uploads that share a digest, two parts, two DELETE threads, late requests | `NoOrphanVectors`, `DeletionCanBeRepeated`, `CreatedIsServed`: an upload answered 201 is fully indexed until it is deleted, and what a rollback or deletion leaves can be deleted |
| `sync_status` | one upload | `StatusIsOneWay`, which the code violates (finding 1) |
| `serving` | one document, two parts, two DELETE threads, one query, two restarts, late requests; 1.0 million states | `NoOrphanVectors`, `DeletionCanBeRepeated`, `ActiveUntouched`, `SearchedIsReady`, `NothingMissing`: deletions may fail halfway, overlap and be repeated, and results come from the completed attempt of ready documents only |
| `chunker` | every page of up to six characters over four letters, every two pages of up to two and three, sizes 4/2, 4/3 and 1/0 | `NothingLost`, `ChunksFit`, `EverySliceAdvances`, `SlicesReachFurther` |
| `file_storage` | two calls with one destination or two, lengths 0 to 4, limit 2, buffer 2 | `PublishedIsWhole`, `DiskIsBounded`, `OutcomeIsTrue`, `NeverReplaced` |
| `benchmark` | one warm-up, one single and two rounds of two documents, the responsiveness and the crash upload: eight uploads of two chunks, a final search for one or two, three Worker processes | `ReportedRecoveryPassed`, `OneWorkerAtATime`: what the recovery rests on holds on every path of the driver, and its check fails for a document longer than the search only |
| `r7_runs` | two invocations, plans of up to four documents and five queries in batches of two, two questions, four chunks, a triangle of assertions, every ranking of one or two questions | `PaidWithinApproval`, `TrajectoriesFitReport`, `ArtifactsAgree`, `ExportIsComplete`: also with every write failing |
| `evaluation` | two documents with four chunks, two of them equal; passing, invalid and unscorable question lists, with a repeated scope name, too long a text, and texts of another question and of a chunk; ties, misses and low scores; 0.8 million states | `ReportIsTrue`, `HybridIsFair`, `PaidWorkIsScored`, `ComparisonIsFair`, `ResourcesReleased` |
| `routed_answer_request` | three chunks, scores below and at the threshold, `top_k` of 1 and 3; every dataset of two samples and one that passes | `ResultIsValid`, `BoundaryFirst`, `AnswersAreGrounded`, `ReportAgrees` |
| `routed_answer_routing` | two chunks, `top_k` of 1 and 2 | `EveryQuestionIsRouted`, which the code violates (finding 2) |

Each property of a passing run has a mutant in `PROJECT.json`: a plausible bug
in a mapped definition (a swallowed error, a dropped clean-up, a replaced
`link` by a rename, an inclusive bound) under which TLC finds it violated.

### Why these bounds are enough to be interesting

- Two documents are what it takes for the queue to have an order, for one job
  to be abandoned while another waits, and for two uploads to compete for a
  digest. One DELETE thread reaches every race with the Worker; two reach the
  races between deletions.
- Two parts make "partly written" different from "nothing" and from
  "everything". Where a run has one part, its properties do not count points.
- One restart gives a second attempt beside the remains of a first; `serving`
  uses two, so that a request of the first attempt can land in the third. The
  deployed budget is three. Late requests beside two submissions would add
  millions of states and no new pair of actors: a late request concerns one
  document.
- Six characters hold two slices of four with every position of a boundary,
  of white space and of the overlap; overlap three of four is beyond half a
  chunk, size one has no overlap at all.
- A limit of two bytes with lengths up to four has uploads below, at, one above
  and a whole buffer above the limit, and the empty one.

- Eight uploads are the least a valid configuration of the benchmark with a
  warm-up and batches of two needs; each instruction of the script is reached.
- A search limit of two for two chunks is the limit reached exactly, a limit of
  one is exceeded by one.
- Two invocations are one that paid and one that finds what it left: a third adds
  a second finder.
- Batches of two with up to five texts give a full, a partial and no second
  request, and limits that the plan reaches exactly and exceeds by one.
- Two providers take turns, one list repeats a provider and one is too short.
  Four chunks are the least with a page each, a TXT of two chunks, a text that
  occurs twice and a fused tie.

### Fairness

`FairSpec` assumes weak fairness of two actions. `WorkerStep /\ HasWork`: a
live Worker keeps executing, which `run_forever` does by construction (an idle
poll changes nothing, hence `HasWork`). `RestartWorker`: the supervisor acts
while its budget lasts, which is compose's contract for a process that failed.
Nothing is assumed about clients, the API process, crashes, or the outcome of
any call: every remote call may fail every time. That is why
`EveryJobSettles` excepts `GaveUp`, the Worker down with no restart left; after
that, pending and running jobs stay active and DELETE answers 409 for them until
an operator intervenes. The other modules state safety only: their loops are
bounded by their inputs. A Worker stopped by an operator (exit status 0, never
restarted) is outside the model. CHECK_DEADLOCK is on in every run; the modules
of single calls have a stuttering `Done` or `Ended` step for a finished one.

## 4. What is proved

The proofs hold for any sets of documents, requests, parts, calls, chunks and
texts, and any budget, limit and size, under the named assumptions of the
modules only: that sets which the code counts are finite, that bounds are
natural numbers, that limits are those the code derives from each other
(`LimitsAssumption`). TLC evaluates these assumptions on every run, and has
checked every strengthened invariant below on the instances of section 3
before it was proved.

**AsyncIngestionProofs.** None of the safety properties is inductive on its own:
that a failed commit leaves no running job behind depends on the Worker's
position, which depends on which jobs may be running, which depends on what a
deletion may have removed. `IInv` strengthens them together: `SubmissionInv`
(no row before the commit), `WorkerInv` (a held job is running until its
completion is attempted), `OneRunningJob`, `NoStrandedJob`, `CondemnedInv` and
`DeletionInv` (a deletion in progress is of an ended job). The proof has a
lemma per process and per family of actions; the theorems are
`TypeCorrectness`, `RowsAgree`, `NothingStranded`, `DeletionsRepeatable` and,
as an action property, `OutcomesFinal`. Four parts rest on it:

- *Attempts* (`ClaimsBounded`). A job is claimed once per Worker process:
  `ClaimsInv` says that a waiting job was last claimed by an earlier process, so
  its count is at most the number of restarts.
- *Source files* (`SourcesKept`). `SourceInv` follows the file from the step that
  loads it to the completed row; the one exception is an upload whose submission
  was reported as failed after a durable commit.
- *Refinement* (`Implementation`). Every step of a handler is a step of
  `IngestionLifecycle` for one document, or leaves all phases alone. A step has
  to respect the abstract guard that only one upload runs, which is
  `OneRunningJob` seen through the mapping.
- *Qdrant* (`ReadyDocumentsIndexed`, `NothingOrphaned`, `ActiveJobsUntouched`).
  If Qdrant has not applied any request late so far (`~timedOut`), a ready
  document is indexed, and no points are left without a row. The argument follows
  one attempt (`AttemptInv`): after the purge the collection holds nothing of the
  document, after a successful upsert exactly this attempt's points, and no one
  else may touch a running document because a deletion of it is refused.
  `PurgedInv` adds what a deletion has removed once it is past its request.
  `PromptInv` is the conjunction that is inductive, and `ActiveJobsUntouched` an
  action property under it.

*Serving.* In the same module, `ServingImplements` says that the readers take nothing
from the ingestion, so every theorem about `Spec` holds of the composition
without another proof. `SearchesFindReady` then is a statement about a document
between the transaction that validated it and the search: nothing holds it, but
a validated document can only be deleted (`QueryInv`), and what a started
deletion leaves visible is of the completed attempt (`PurgedInv`).
`NothingIsMissing` also has to count: the points of the scope are pairwise
different, finitely many (`FiniteInv`), and a search that returns fewer than
`TopK` of them returned them all. With late requests it is claimed of first
attempts only, for which `FirstTryInv` shows that nothing of the document is in
flight, because every error of Qdrant makes the attempt fail.

*Benchmark.* Also in the same module, for every valid configuration
(`ConfigAssumption`: any number of warm-ups, samples, rounds and uploads in a
round): `RecoveryPasses` (`ReportedRecoveryPassed`) and `WorkersTakeTurns`
(`OneWorkerAtATime`). The driver has no state but its place in the script, so
the argument starts with what the script has where (`ScriptLaidOut`, `Places`):
between the start of the serving Worker and its end there are only calls,
uploads and waits (`MeasurementsRoutine`, by `FlattenedTyped` of `SetFolds`), and
ten instructions follow. `BenchmarkInv` (`BenchmarkInvariance`) then has

- `StageInv`: which process was started last at each place, where it may be
  alive, and with which status it ended if the driver went on;
- `ServedInv`: the serving Worker counted no more jobs than it finished, and the
  upload for the crash starts after it has ended. So exit status 0 means that all
  jobs before that one have finished, and it is the only one left;
- `PassedInv`: the check of the recovery can fail at its last search only, and does
  so for a document of more than `limit` chunks and for no other;
- `CrashInv` and `RecoveryInv`: the process that exits with 91 leaves that job
  running after its first attempt; the next one makes the second, and if the job
  is ready, its points are those of that attempt.

While the driver runs, the Worker's steps and the uploads are steps of
`AsyncIngestion`, so `IInv` holds without another proof (`StepInv`). No request
lands late here: the benchmark has no such step.

**SyncIngestionProofs.** Each document has one thread that writes it and any
number that delete it. `RowKept` and `StoresKept` say, for each position of the
`ingest` call, what the row, the file and the collection hold of a document no
deletion was allowed on: the deletion is refused until the call has made the
document ready or failed. From it follow `CreatedServed` and
`DeletionRepeatable`; `NothingOrphaned` adds `PurgedInv`, again while no request
was applied late.

**RoutedAnswerProofs.** `IInv` follows one request: how far it is tells what was
called (`StepInv`), that only an unrecognised question is searched for
(`RoutingInv`), that the evidence is that of the last round and has no
chunk twice (`EvidenceInv`), and what the result says of all that (`ReturnedInv`).
`ResultsValid`, `RulesComeFirst` and `AnswersGrounded` follow. The merge of the
two rounds is a loop; that its result has no repetition is shown for every
length, by induction over the loop (see below).

In the same module, `ReportsAgree` (`ReportAgrees`) is about the frozen
evaluation, whose report is put together from parts that are counted apart: the
confusion matrix from the predicted routes, the probes from what the service
did. `EvaluationInv` (`EvaluationInvariance`) follows them: the predicted routes
are those of a prefix of the dataset (`ScoresInv`), there is one probe for each
sample so far that should retrieve, and it searched exactly if the router alone
sends it there (`ProbesInv`), because the request in between does
(`ServiceInv`). It needs that the protocol accepts no violation
(`Acceptance.violations = 0`, as the frozen file says) and that datasets are
sequences.

**R7RunsProofs.** For any number of invocations over the same paths.
`PaymentsApproved` (`PaidWithinApproval`) rests on `PayInv`, which ties both
counters to a prefix of the batches that were admitted, and on the arithmetic of
batches (`BatchSizes`, `SendTexts`): together they hold every text once, and
a prefix is no longer than the whole. `OnlyOnePays` has two reasons.
Programs that claim a directory are alone behind it (`ClaimInv`), through races,
kills and failing writes. The others check first and write last; they are alone
only if no two overlap and none is killed, and then whoever paid is still running,
has left the output at which the next one stops, or raised (`SoloInv`). An
invocation that raised from a failed write may have left nothing, and the theorem
does not claim that the next one stops: it pays again. `ArtifactsBelongTogether`
combines `DiskInv`, `ClaimInv`, `OverwriteInv`, `OutputInv` and `WholeInv`: which
files an invocation has written follows from how far it got, and no file is
replaced but by the NEUQ calibration. What a write and a failed write do to the
disk is stated once (`WriteKeeps`, `FaultKeeps`, `ClaimKeeps`). `ExportsComplete` relates the exported
chunks to the records of an extraction that wrote its summary (`ExportInv`).

`TrajectoriesAccepted` (`TrajectoriesFitReport`) is about what the arms return,
for any number of questions, any chunks and any finite graph of assertions with
unique ids. Every step of a retrieval has a lemma: a dense search is a sorted
list of allowed chunks without a repeat (`DenseRanks`), walks stay inside the
allowed documents and are finitely many (`WalksScoped`, `PathsFinite`), no two
paths have the same sort key (`PathKeysKeyed`), so their order is one
(`SearchRanks`), the merge and the fusion keep all of that (`MergeRanks`,
`FuseRanks`) and stay within the budget of the arm (`TrajectoryFits`).
`ArmsInv` (`ArmsInvariance`) adds the loop over questions and arms: the records
of a run are exactly the turns it has taken, and all of them when it
reports.

**EvaluationProofs.** `LLMComparison` contains every step of `EvaluationRun`, so
one invariant serves both. `OpenInv` says what is open at each step, which is
what a comparison was given (`Given`) until its `try`. What stays open in the end
are the providers behind one whose close raised (`LeftOpen`), and what was open
when the program raised before its `try`.
`PaidInv` is why no text is paid for twice: what was paid for is remembered,
unless the round has failed. It makes no difference whether equal texts are of
chunks or of questions, or whether a search refuses one. `TalliesInv` is the core of `Fairness`: the
accumulator of the *i*-th provider counts the recorded answers and, while the
others are still to answer, the current one (`Answered`). Since all providers
are called on a question or none is (`RowsInv`), their counts differ by at most
one, and the summaries are the recount. For `HybridFair`,
`StoredInv` keeps the row, the points and the BM25 index of a document together,
and `FusedOfTwo` reduces the score of a chunk, a fold in the model, to the sum of
two shares; these are numbers (`ShareTyped`), so their order does not matter. The
other theorems are `Released`, `WorkIsPaidOnce` and `Fairness`.

`ReportsTrue` (`ReportIsTrue`) is the longest argument of the project, because
the report, the sweep and the decision each count the same rows in a way of
their own. `ReportInv` (`ReportInvariance`) is its invariant, in three parts:

- `CorpusInv`: at each step of the ingestion, the store holds the chunks of the
  documents that were ingested, and all of them while questions are asked.
- `RowsOfSearchInv`: the rows are `RowOfSearch(1..n)`, that is, what a search of
  the whole corpus makes of each question, and what each of the counters
  lacks is the number of rows with its failure.
- the reports so far satisfy the property, the last one of them of the
  current rows.

From these, a report is recounted by `Recounted` (the categories partition the
rows, `PartsSum`; a row names a failure once, `FailedOnce`, `CountedOnce`). The
sweep replays each row (`RowReplays`, `SweepIsReplay`): a search keeps the hits
of its sorted list that reach the threshold, so a higher threshold cuts it
further (`KeptHits`, `RetainedHits`), and rounding lifts a score to a threshold
of the grid from at most half a step below (`RoundedClose`). A recommended
threshold exists because finitely many candidates with different keys have a
least one (`RecommendedExists`, `LeastByKey`), and the decision lists a reason
for each gate that failed (`DecisionsAgree`). `QuestionsAssumption` says what
the data are: lists, with a similarity and a weight for every chunk.

**ChunkerProofs.** `IInv` adds to the type invariant that a section being cut
has its cursor inside the stripped text and resumes at most one overlap before
the last slice (`SectionOpen`). From it follow `Lossless`, `AllChunksFit`,
`SplitterAdvances` (hence termination of the loop, since positions are bounded)
and `SlicesReach`: if the overlap is at most half of the chunk size, each slice
ends beyond the one before. For larger overlaps, which `Settings` accepts, that
last statement is not claimed.

**FileStorageProofs.** `Counted` relates a call's position to its byte counts,
`LinkedBy` says that a destination holds a file only of a call past its
`os.link`. The theorems are `PublishedWhole`, `DiskBounded`, `OutcomesTrue` and
`PublishedForGood`, for any number of racing calls.

### Induction

The library's induction theorems take an operator as a parameter, which the
installed provers cannot instantiate. Where a proof needs induction over data,
it takes the least element of a set of counterexamples instead (`WFMin`,
`NatLessThanWellFounded`), which needs sets only. `SetFolds` states it once:
`NatInductive`, from it that a function defined by recursion on the naturals
exists (`FunctionExists`, for `MergeRounds`), and that a function defined by
taking one element after the other from a finite set exists and can be reasoned
about by induction (`FoldExists`, `FoldInductive`). The folds of the community
modules are such functions, whatever their `CHOOSE` picks.

On top of that it has what the proofs about reports, rankings and scripts keep
needing. *Sums*: two ways to add up a finite set agree (`SumsAgree`), and a
sum over a set is the sum over its parts (`PartsSum`). *Sorting*: if the keys of
a finite set differ, the places of its elements are `1..n`, each once
(`PlacesFilled`), so `Sorted`, which asks for the element with a given number of
others ahead of it, returns each element once and in order (`SortedByKey`).
*Flattening*: a list made of lists of one kind of element has only those
(`FlattenedTyped`).

### Model-checked only

`EveryJobSettles`: liveness under fairness is outside TLAPS. Every other property
of a passing run is proved.

## 5. Findings

1. *V1 status is not one-way.* `IngestionService.ingest` commits READY and then
   reads the document back; an error there sends a document that clients could
   already search to `failed` and removes its points and file
   (`app/services/ingestion_service.py:100`). `docs/r23_design.md:111` allows
   only `processing → ready/failed`. Run `sync_status`.
2. *A question of punctuation is not routed.* Validation accepts it, the router
   strips it to nothing and raises `ValueError`
   (`app/services/question_router.py:103`), where
   `docs/r6_routing_agent_design.md:48` and `:81` make `retrieve` the default
   for whatever the rules do not recognise. Run `routed_answer_routing`.

Known and documented limits the models reproduce without a finding: a V1 upload
whose process dies stays `processing`; an accepted V2 job whose commit was
durable but reported as failed loses its file and ends `failed`; jobs stay
active once the restart budget is used up. So do five that no document mentions:
a benchmark reports the recovery of a document of more than 100 chunks as failed;
an LLM comparison that is refused before its `try` leaves its providers open; an
evaluation may stop at a validated question that the search refuses, after it
paid for the corpus; the NEUQ calibration started as a module without
`--execute` writes its plan over a finished report (`ArtifactsAgree` excepts that
program by name); and a smoke run or a calibration whose write fails after it
paid leaves nothing that keeps the next one from paying again.

## 6. Assumptions and what is not modelled

- One Worker process, as compose deploys. Two of them would break recovery,
  which takes every running job for an abandoned one.
- SQLite transactions are atomic and durable once committed; the disk is not
  lost.
- Providers (OpenAI, DeepSeek) are calls that succeed or raise: they keep no
  state. Retries inside their SDKs are not visible to the callers.
- Schemas, routers, error handlers and logging translate between HTTP and the
  services; they appear only where they change what happens.
- File-name and media-type validation is a stateless predicate, part of the
  failure outcome of `BuildJob` and `CheckFile`.
- `POST /api/v1/answers` is a single search and a single generation; its
  evidence rule is checked as part of `RoutedAnswer`.
- Term weights of BM25, token F1, latencies, percentiles and costs are numbers
  the reports pass on; the bad-case report (`evaluation/bad_cases.py`) rearranges
  three other reports. None of them decides a step.
- The scope a question is asked with is passed on unchanged by the R6 probe, and
  its check is left out.
- `LLMComparison` validates the question contracts but, as the code, not the
  manifest: a question about an unknown document raises after others were paid
  for. The model has this outcome; no document of the repository promises more.
- The evaluation's embedding meter and cache are per round. Two runs of one
  evaluation at a time are not modelled: each has a temporary directory.
- Corpus preparation (`evaluation/r7_corpus_contract.py`, `r7_gold_mapping.py`,
  `r7_safe_corpus.py` and their neighbours) is one-off sequential reading,
  checking and writing; the prompts, extraction schemas and paired statistics of
  the R7 experiments are data of their runs.

## 7. Plan

The order followed importance: the shared stores and V2 came first, since
everything else reads or writes them; then V1, serving and the pure parts; then
the benchmark, the R7 runs and the evaluations. What is left is the mapping of
gold evidence to chunks (`evaluation/r7_gold_mapping.py`) as a function from the
corpus to the rankings of `R7Calibration`, and the lifespan of `app/main.py`
(providers and store opened and closed around the requests of `AsyncServing`).
