------------------------- MODULE IngestionBenchmark -------------------------
(***************************************************************************)
(* The R4 comparison of V1 and V2 ingestion                                *)
(* (evaluation/ingestion_benchmark.py).  One driver coroutine runs both    *)
(* APIs in its own process, starts Worker processes of                     *)
(* evaluation/ingestion_benchmark_worker.py, polls the jobs it submitted,  *)
(* and ends with a crash of a Worker after its upsert and the recovery by  *)
(* the next one.  The submissions and the Worker's steps are those of      *)
(* AsyncIngestion; the driver replaces its clients and its supervisor.     *)
(*                                                                         *)
(* Document d is the driver's d-th asynchronous upload.  Every wait of the *)
(* driver has a deadline, so it may give up at any moment.                 *)
(***************************************************************************)
EXTENDS AsyncIngestion, SequencesExt

CONSTANTS
  WarmupSamples, SingleSamples, BatchRounds, BatchSize,   \* of the config
  SearchLimits  \* 100 results are asked for after the recovery, of any document:
                \* limits on both sides of the number of its chunks

VARIABLES
  driver,    \* "run", "leave" the temporary directories, "finally", "ended"
  step,      \* the next instruction of Script
  passed,    \* do the observations of the crash recovery agree so far?
  report,    \* the recommendation of the report, "none" when there is none
  mode,      \* of the Worker process started last
  processed, \* the jobs it has processed
  exitCode,  \* of that process once it is down; 1 is any error or signal
  killFailed, \* auxiliary: did a Worker survive terminate() and kill()?
  limit      \* of the search after the recovery, one of SearchLimits

driving == <<driver, step, passed, report, killFailed>>
process == <<mode, processed, exitCode>>
bvars == <<vars, driving, process, limit>>

(***************************************************************************)
(* What the driver does, in order                                          *)
(***************************************************************************)
ConfigOK ==
  /\ WarmupSamples \in Nat
  /\ {SingleSamples, BatchRounds, BatchSize} \subseteq Nat \ {0}

NormalAsyncJobCount == WarmupSamples + SingleSamples + BatchRounds * BatchSize + 1

\* The upload whose Worker is made to crash.
CrashJob == NormalAsyncJobCount + 1

\* What the instances and the theorems about them assume.
ConfigAssumption ==
  /\ ConfigOK /\ Documents = 1..CrashJob
  /\ IsFiniteSet(Parts) /\ SearchLimits \subseteq Nat

Instruction(op, jobs, arg) == [op |-> op, jobs |-> jobs, arg |-> arg]
Call == Instruction("call", {}, "")   \* it returns or it raises
PostSync == Call
HealthProbes == Call
Accept(d) == Instruction("accept", {d}, "")
WaitForStatus(jobs, status) == Instruction("wait", jobs, status)
ReadDocumentStatus(d, status) == Instruction("read", {d}, status)
SearchPoints(d) == Instruction("search", {d}, "")
StartWorker(m) == Instruction("start", {}, m)
JoinWorker(m) == Instruction("join", {}, m)

\* The side that goes first alternates.
Alternating(index, sync, async) ==
  IF index % 2 = 1 THEN sync \o async ELSE async \o sync

Measured(d) == <<Accept(d), WaitForStatus({d}, "ready")>>

WarmUp == [i \in 1..WarmupSamples |-> Alternating(i, <<PostSync>>, Measured(i))]

SingleDocuments ==
  [i \in 1..SingleSamples |->
     Alternating(i, <<PostSync>>, Measured(WarmupSamples + i))]

\* All uploads of a batch are accepted before the first is waited for.
Batches ==
  [r \in 1..BatchRounds |->
     LET before == WarmupSamples + SingleSamples + (r - 1) * BatchSize
         jobs == before + 1 .. before + BatchSize
     IN Alternating(r, [i \in 1..BatchSize |-> PostSync],
                    [i \in 1..BatchSize |-> Accept(before + i)]
                      \o <<WaitForStatus(jobs, "ready")>>)]

Responsiveness ==
  LET job == NormalAsyncJobCount
  IN <<PostSync, HealthProbes, Accept(job), WaitForStatus({job}, "running"),
       HealthProbes, WaitForStatus({job}, "ready")>>

CrashRecovery ==
  << Accept(CrashJob), StartWorker("crash"), JoinWorker("crash"),
     WaitForStatus({CrashJob}, "running"), ReadDocumentStatus(CrashJob, "processing"),
     StartWorker("recover"), JoinWorker("recover"),
     WaitForStatus({CrashJob}, "ready"), ReadDocumentStatus(CrashJob, "ready"),
     SearchPoints(CrashJob) >>

WaitForQdrant == Call

Script ==
  <<WaitForQdrant, StartWorker("serve")>>
    \o FlattenSeq(WarmUp \o SingleDocuments \o Batches)
    \o Responsiveness \o <<JoinWorker("serve")>> \o CrashRecovery

\* No Worker runs yet; the rest is Init of AsyncIngestion.
BenchmarkInit ==
  /\ RepositoryInit /\ VectorStoreInit /\ DeletionInit
  /\ submitPc = [d \in Documents |-> "new"] /\ clock = 0
  /\ workerPc = "down" /\ workerDoc = None /\ attempt = 0 /\ restarts = 0
  /\ driver = "run" /\ step = 1
  /\ passed = TRUE /\ report = "none" /\ killFailed = FALSE
  /\ mode = "none" /\ processed = 0 /\ exitCode = 0
  /\ limit \in SearchLimits

(***************************************************************************)
(* The Worker process: IngestionWorker without run_forever                 *)
(***************************************************************************)
JobLimit == IF mode = "serve" THEN NormalAsyncJobCount ELSE 1

\* after_upsert_hook: in crash mode process_next does not get to complete_job.
AtCrashHook == mode = "crash" /\ workerPc = "complete"

\* recover_abandoned_jobs once, then process_next up to the limit; a job that
\* failed counts.  What process_next raises ends the process.
WorkerWorks ==
  /\ \/ RecoverAbandonedJobs
     \/ processed < JobLimit /\ ClaimNextJob
     \/ ~AtCrashHook /\ ProcessJob
  /\ processed' = IF workerPc \in JobPcs /\ workerPc' = "idle"
                  THEN processed + 1 ELSE processed
  /\ exitCode' = IF workerPc' = "down" THEN 1 ELSE exitCode
  /\ UNCHANGED <<driving, mode>>

CrashCode == 91   \* os._exit

\* The process ends by itself: after its last job, at its own deadline, or (it
\* was to process one job) because it found none.
WorkerEnds ==
  /\ \/ AtCrashHook /\ exitCode' = CrashCode
     \/ workerPc = "idle" /\ processed = JobLimit /\ exitCode' = 0
     \/ workerPc = "idle" /\ processed < JobLimit /\ mode = "serve" /\ exitCode' = 3
     \/ /\ workerPc = "idle" /\ processed = 0 /\ mode # "serve"
        /\ ~\E d \in Documents : Claimable(d)
        /\ exitCode' = 2
  /\ WorkerLeaves("down")
  /\ UNCHANGED <<repository, vectorStore, files, outsideWorker, driving, mode, processed>>

WorkerDies ==
  /\ WorkerCrash
  /\ exitCode' = 1
  /\ UNCHANGED <<mode, processed>>

(***************************************************************************)
(* The driver                                                              *)
(***************************************************************************)
At(op) == driver = "run" /\ step \in DOMAIN Script /\ Script[step].op = op
Jobs == Script[step].jobs
Arg == Script[step].arg

Advance == step' = step + 1 /\ UNCHANGED <<driver, report, killFailed>>
Raise == driver' = "leave" /\ UNCHANGED <<step, passed, report, killFailed>>

\* 503 and 4xx, a job that failed or was ready before it was seen running, a
\* process that could not be started, and every deadline.
GiveUp ==
  /\ \E op \in {"call", "wait", "read", "search", "start"} : At(op)
  /\ Raise
  /\ UNCHANGED <<vars, process>>

CallReturns == At("call") /\ Advance /\ UNCHANGED <<passed, vars, process>>

\* The API runs inside the driver: its own requests are its only clients.
AcceptAsync ==
  /\ At("accept")
  /\ \E d \in Jobs :
       \/ /\ SaveUpload(d) \/ BuildJob(d) \/ CommitJob(d) \/ RemoveStoredFile(d)
          /\ UNCHANGED driving
       \/ submitPc[d] = "accepted" /\ Advance /\ UNCHANGED <<passed, vars>>
       \/ submitPc[d] = "rejected" /\ Raise /\ UNCHANGED vars
  /\ UNCHANGED process

WaitForJobStatus ==
  /\ At("wait")
  /\ \A d \in Jobs : jobStatus[d] = Arg
  /\ passed' = (passed /\ (Jobs = {CrashJob} /\ Arg = "ready"
                             => attemptCount[CrashJob] = 2))
  /\ Advance
  /\ UNCHANGED <<vars, process>>

ReadDocumentRow ==
  /\ At("read")
  /\ passed' = (passed /\ \A d \in Jobs : docStatus[d] = Arg)
  /\ Advance
  /\ UNCHANGED <<vars, process>>

\* Mutation: the search returns every point of the document.
SearchWithoutLimit ==
  /\ At("search")
  /\ passed' = (passed /\ \A d \in Jobs : Cardinality(vectors[d]) = Cardinality(Parts))
  /\ Advance
  /\ UNCHANGED <<vars, process>>

ResultCount(d) ==
  LET points == Cardinality(vectors[d])
  IN IF points <= limit THEN points ELSE limit

\* As many results as documents.chunk_count, which nothing bounds.
SearchChunks ==
  /\ At("search")
  /\ passed' = (passed /\ \A d \in Jobs : ResultCount(d) = Cardinality(Parts))
  /\ Advance
  /\ UNCHANGED <<vars, process>>

StartWorkerProcess ==
  /\ At("start")
  /\ mode' = Arg /\ processed' = 0 /\ exitCode' = 0
  /\ WorkerLeaves("starting")
  /\ Advance
  /\ UNCHANGED <<repository, vectorStore, files, outsideWorker, passed>>

ExpectedCode == IF Arg = "crash" THEN CrashCode ELSE 0

\* Mutation: with all its jobs ready the serving Worker is not waited for.
WaitForCrashedOnly ==
  /\ At("join")
  /\ workerPc = "down" \/ mode = "serve"
  /\ Advance
  /\ UNCHANGED <<passed, vars, process>>

WaitForWorker ==
  /\ At("join")
  /\ workerPc = "down"
  /\ \/ exitCode = ExpectedCode /\ Advance /\ UNCHANGED passed
     \/ exitCode # ExpectedCode /\ Raise
  /\ UNCHANGED <<vars, process>>

\* subprocess.run kills the process before it raises; the serving Worker is
\* terminated, which may fail.
WaitTimesOut ==
  /\ At("join") /\ workerPc # "down"
  /\ \/ WorkerDies
     \/ mode = "serve" /\ UNCHANGED <<vars, process>>
  /\ Raise

\* The measured times decide, but only if the recovery passed.
Recommendations == IF passed THEN {"prefer_v2", "retain_both"} ELSE {"retain_both"}

Complete ==
  /\ driver = "run" /\ step = Len(Script) + 1
  /\ driver' = "leave"
  /\ UNCHANGED <<vars, process, step, passed, report, killFailed>>

\* The with block ends first: the database and the uploads are removed, or
\* rmtree raises, while a serving Worker may still run.  Only then is the
\* report built, if nothing was raised.
LeaveDirectories ==
  /\ driver = "leave"
  /\ driver' = "finally"
  /\ \/ /\ files' = {}
        /\ docStatus' = [d \in Documents |-> "absent"]
        /\ jobStatus' = [d \in Documents |-> "absent"]
        /\ report' \in IF step \in DOMAIN Script THEN {"none"} ELSE Recommendations
     \/ UNCHANGED <<files, docStatus, jobStatus, report>>
  /\ UNCHANGED <<attemptCount, createdAt, vectorStore, outsideWorker, worker,
                 process, step, passed, killFailed>>

\* worker_process is None once the serving Worker was waited for; the other
\* processes never outlive the call that started them.
TerminateWorker ==
  /\ driver = "finally"
  /\ mode = "serve" /\ workerPc # "down"
  /\ \/ WorkerDies /\ UNCHANGED driving
     \/ /\ driver' = "ended" /\ killFailed' = TRUE /\ report' = "none"
        /\ UNCHANGED <<step, passed, vars, process>>

\* Every error of Qdrant is swallowed.
RemoveCollections ==
  /\ driver = "finally"
  /\ workerPc = "down" \/ mode # "serve"
  /\ driver' = "ended"
  /\ vectors' \in {vectors, [d \in Documents |-> {}]}
  /\ UNCHANGED <<inflight, timedOut, repository, files, outsideWorker, worker,
                 process, step, passed, report, killFailed>>

DriverStep ==
  \/ CallReturns \/ AcceptAsync \/ WaitForJobStatus \/ ReadDocumentRow \/ SearchChunks
  \/ StartWorkerProcess \/ WaitForWorker \/ WaitTimesOut \/ GiveUp
  \/ Complete \/ LeaveDirectories \/ TerminateWorker \/ RemoveCollections

BenchmarkNext ==
  /\ \/ DriverStep
     \/ WorkerWorks \/ WorkerEnds
     \/ WorkerDies /\ UNCHANGED driving
     \/ driver = "ended" /\ UNCHANGED <<vars, driving, process>>
  /\ UNCHANGED limit

BenchmarkSpec == BenchmarkInit /\ [][BenchmarkNext]_bvars

(***************************************************************************)
(* Properties                                                              *)
(***************************************************************************)
\* Once the crashed Worker exited with 91 and the next one with 0 and the job
\* is ready, the points are those of the second attempt and of no other, and the
\* document has as many chunks as one search may return or fewer if and only if
\* the report says that recovery passed: a fault of the recovery never reaches
\* the report, and a document of more chunks is reported as one.
\* The serving Worker left none of its jobs to the one that is to crash:
\* normal_async_job_count counts every upload before the crash recovery.
ReportedRecoveryPassed ==
  /\ driver = "run" /\ step = Len(Script) + 1
       => /\ passed <=> Cardinality(Parts) <= limit
          /\ vectors[CrashJob] = Points(2)
  /\ mode = "serve" /\ workerPc = "down" /\ exitCode = 0 /\ driver = "run"
       => \A d \in 1..NormalAsyncJobCount : jobStatus[d] \in {"ready", "failed"}

\* The benchmark keeps the rule that the recovery of the Worker rests on: a
\* Worker process is started only when no earlier one is alive, on every path
\* through timeouts, early exits and kills.  However it ends, it leaves none
\* behind, unless the process survived terminate() and kill() (then the
\* collections are left as well).
OneWorkerAtATime ==
  /\ [](driver = "ended" => workerPc = "down" \/ killFailed)
  /\ [][mode' # mode => workerPc = "down"]_bvars

(***************************************************************************)
(* The inductive invariant behind them                                     *)
(***************************************************************************)
\* Where the serving Worker is waited for, ten instructions before the end.
Served == Len(Script) - 10

\* Which process was started last, when one may be alive, and with which status
\* it ended if the driver went on.
StageInv ==
  /\ step \in 1..(Served + 11) /\ processed \in Nat
  /\ step <= 2 => mode = "none"
  /\ step \in 3..(Served + 2) => mode = "serve"
  /\ step \in (Served + 3)..(Served + 6) => mode = "crash"
  /\ step >= Served + 7 => mode = "recover"
  /\ workerPc # "down" =>
       \/ mode = "serve" /\ step <= Served
       \/ driver = "run" /\ step \in {Served + 3, Served + 7}
  /\ driver = "run" /\ step \in {Served + 1, Served + 2} \union (Served + 8)..(Served + 11)
       => exitCode = 0
  /\ driver = "run" /\ step \in (Served + 4)..(Served + 6) => exitCode = CrashCode
  /\ driver = "ended" => workerPc = "down" \/ killFailed

Finished(d) == jobStatus[d] \in {"ready", "failed"}

\* The serving Worker has counted no more jobs than it finished, and the upload
\* for the crash is not among them: it starts after that Worker has ended.
ServedInv ==
  /\ step <= Served => submitPc[CrashJob] = "new"
  /\ step <= Served + 2 =>
       jobStatus[CrashJob] \in {"absent", "pending"} /\ attemptCount[CrashJob] = 0
  /\ mode = "serve" =>
       processed <= Cardinality({d \in Documents : Finished(d) /\ ~WorkerHolds(d)})
  /\ \/ mode = "serve" /\ workerPc = "down" /\ exitCode = 0
     \/ mode \in {"crash", "recover"}
     => \A d \in 1..NormalAsyncJobCount : Finished(d)

\* The Worker that crashes makes the first attempt on the only job that is left,
\* and leaves it running.
CrashInv ==
  /\ mode = "crash" /\ workerPc # "down" =>
       /\ attemptCount[CrashJob] = IF workerPc \in JobPcs \/ processed # 0 THEN 1 ELSE 0
       /\ workerPc \in JobPcs => workerDoc = CrashJob
  /\ mode = "crash" /\ workerPc = "down" /\ exitCode = CrashCode =>
       jobStatus[CrashJob] = "running" /\ attemptCount[CrashJob] = 1

\* The next one makes the second attempt; if the job is ready, its points are
\* those of that attempt.
RecoveryInv ==
  mode = "recover" =>
    /\ workerPc \in {"starting", "idle"} /\ processed = 0 => attemptCount[CrashJob] = 1
    /\ workerPc \in JobPcs =>
         /\ workerDoc = CrashJob /\ attempt = 2 /\ attemptCount[CrashJob] = 2
         /\ workerPc \in {"load", "upsert"} => vectors[CrashJob] = {}
         /\ workerPc \in {"complete", "verify"} => vectors[CrashJob] = Points(2)
    /\ jobStatus[CrashJob] = "ready" \/ step >= Served + 9 =>
         /\ jobStatus[CrashJob] = "ready" /\ attemptCount[CrashJob] = 2
         /\ vectors[CrashJob] = Points(2)

\* Only the search at the end can disagree, and it does for the length alone.
PassedInv ==
  /\ passed = (step <= Served + 10 \/ Cardinality(Parts) <= limit)
  /\ limit \in SearchLimits

BenchmarkInv ==
  /\ StageInv /\ PassedInv
  /\ driver = "run" => IInv /\ ServedInv /\ CrashInv /\ RecoveryInv
=============================================================================
