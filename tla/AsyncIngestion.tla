--------------------------- MODULE AsyncIngestion ---------------------------
(***************************************************************************)
(* V2 ingestion: POST /api/v2/documents accepts an upload and commits a    *)
(* document with a pending job (AsyncIngestionService.submit); one Worker  *)
(* process claims the jobs and ingests them (IngestionWorker,              *)
(* IngestionProcessor); DELETE requests (DocumentService) run beside both. *)
(* The API process may die at any time and is started again; the Worker    *)
(* may die at any time or exit on purpose, and its supervisor starts it    *)
(* again at most MaxRestarts times (compose.yaml: on-failure:3).           *)
(***************************************************************************)
EXTENDS DocumentService

CONSTANT MaxRestarts   \* the supervisor's restart budget

ASSUME MaxRestartsAssumption == MaxRestarts \in Nat

VARIABLES
  submitPc,   \* the progress of the one submit call that draws each document
  clock,      \* the number of jobs built so far: the source of created_at
  workerPc,   \* the next step of the Worker, "down" while no process runs
  workerDoc,  \* the document of the job the Worker holds
  attempt,    \* the attempt_count of the job the Worker holds
  restarts    \* the restarts the supervisor has used

submissions == <<submitPc, clock>>
worker == <<workerPc, workerDoc, attempt>>
vars == <<repository, vectorStore, files, deletions, submissions, worker, restarts>>

SubmitPcs == {"new", "saved", "built", "cleanup", "accepted", "rejected", "lost"}

\* The steps at which the Worker holds a claimed job.
JobPcs == {"read", "check", "purge", "load", "upsert", "complete", "verify",
           "compensate_vectors", "compensate_file", "fail"}
WorkerPcs == JobPcs \union {"down", "starting", "idle"}

Init ==
  /\ RepositoryInit
  /\ VectorStoreInit
  /\ DeletionInit
  /\ submitPc = [d \in Documents |-> "new"]
  /\ clock = 0
  /\ workerPc = "starting"
  /\ workerDoc = None
  /\ attempt = 0
  /\ restarts = 0

(***************************************************************************)
(* AsyncIngestionService.submit                                            *)
(***************************************************************************)
SubmitAt(d, pc) == submitPc' = [submitPc EXCEPT ![d] = pc]

\* save_upload_stream writes a temporary file and publishes it in one step
\* (os.link), after which it cannot raise.
SaveUpload(d) ==
  /\ submitPc[d] = "new"
  /\ \/ files' = files \union {d} /\ SubmitAt(d, "saved")
     \/ UNCHANGED files /\ SubmitAt(d, "cleanup")
  /\ UNCHANGED <<repository, vectorStore, deletions, clock, worker, restarts>>

\* validate_file, then the Document and the IngestionJob with its created_at.
BuildJob(d) ==
  /\ submitPc[d] = "saved"
  /\ \/ /\ clock' = clock + 1
        /\ createdAt' = [createdAt EXCEPT ![d] = clock + 1]
        /\ SubmitAt(d, "built")
     \/ UNCHANGED <<clock, createdAt>> /\ SubmitAt(d, "cleanup")
  /\ UNCHANGED <<docStatus, jobStatus, attemptCount, vectorStore, files,
                 deletions, worker, restarts>>

\* The commit may be durable and still raise: submit does not read it back.
CommitJob(d) ==
  /\ submitPc[d] = "built"
  /\ \/ create_document_and_job(d) /\ SubmitAt(d, "accepted")
     \/ create_document_and_job(d) /\ SubmitAt(d, "cleanup")
     \/ UNCHANGED repository /\ SubmitAt(d, "cleanup")
  /\ UNCHANGED <<vectorStore, files, deletions, clock, worker, restarts>>

RemoveStoredFile(d) ==
  /\ submitPc[d] = "cleanup"
  /\ files' \in {files, files \ {d}}
  /\ SubmitAt(d, "rejected")
  /\ UNCHANGED <<repository, vectorStore, deletions, clock, worker, restarts>>

\* The API process dies: its submit calls and its deletions stop where they are.
ApiCrash ==
  /\ submitPc' = [d \in Documents |->
                    IF submitPc[d] \in {"saved", "built", "cleanup"}
                    THEN "lost" ELSE submitPc[d]]
  /\ DeletionsVanish
  /\ UNCHANGED <<repository, vectorStore, files, clock, worker, restarts>>

SubmitStep ==
  \E d \in Documents :
    SaveUpload(d) \/ BuildJob(d) \/ CommitJob(d) \/ RemoveStoredFile(d)

(***************************************************************************)
(* The Worker process                                                      *)
(***************************************************************************)
\* process_next moves on with its job.
WorkerAt(pc) == workerPc' = pc /\ UNCHANGED <<workerDoc, attempt>>

\* process_next returns ("idle"), or raises and main() exits ("down"): either
\* way the Worker holds no job.
WorkerLeaves(pc) == workerPc' = pc /\ workerDoc' = None /\ attempt' = 0

outsideWorker == <<deletions, submissions, restarts>>

\* Mutation: an error in recovery is logged and the main loop starts anyway.
RecoverSwallowingErrors ==
  /\ workerPc = "starting"
  /\ recover_running_jobs \/ UNCHANGED repository
  /\ WorkerLeaves("idle")
  /\ UNCHANGED <<vectorStore, files, outsideWorker>>

\* run_forever: recovery runs once, when the process starts.  A failure before
\* or in it ends the process, whether or not its commit was durable.
RecoverAbandonedJobs ==
  /\ workerPc = "starting"
  /\ \/ recover_running_jobs /\ \E pc \in {"idle", "down"} : WorkerLeaves(pc)
     \/ UNCHANGED repository /\ WorkerLeaves("down")
  /\ UNCHANGED <<vectorStore, files, outsideWorker>>

ClaimNextJob ==
  /\ workerPc = "idle"
  /\ \/ \E d \in Documents :
          /\ claim_next_job(d)
          /\ \/ /\ workerPc' = "read"
                /\ workerDoc' = d
                /\ attempt' = attemptCount[d] + 1
             \/ WorkerLeaves("down")
     \/ UNCHANGED repository /\ WorkerLeaves("down")
  /\ UNCHANGED <<vectorStore, files, outsideWorker>>

\* DocumentRepository.get and the status test of IngestionProcessor.process.
\* A document that could not be read is not compensated.
ReadDocument ==
  /\ workerPc = "read"
  /\ \/ docStatus[workerDoc] = "processing" /\ WorkerAt("check")
     \/ WorkerAt("fail")
  /\ UNCHANGED <<repository, vectorStore, files, outsideWorker>>

\* validate_storage_path, stat and calculate_sha256 against the document row.
CheckFile ==
  /\ workerPc = "check"
  /\ \/ workerDoc \in files /\ WorkerAt("purge")
     \/ WorkerAt("compensate_vectors")
  /\ UNCHANGED <<repository, vectorStore, files, outsideWorker>>

\* Mutation: the replay does not clean up before it writes.
PurgeNothing ==
  /\ workerPc = "purge"
  /\ WorkerAt("load")
  /\ UNCHANGED <<repository, vectorStore, files, outsideWorker>>

\* Points an earlier attempt may have left are deleted before they are replaced.
PurgeVectors ==
  /\ workerPc = "purge"
  /\ \/ delete_by_document(workerDoc) /\ WorkerAt("load")
     \/ DeleteRaises(workerDoc) /\ WorkerAt("compensate_vectors")
  /\ UNCHANGED <<repository, files, outsideWorker>>

\* load_document, chunk_sections and embed_documents.
LoadAndEmbed ==
  /\ workerPc = "load"
  /\ \/ workerDoc \in files /\ WorkerAt("upsert")
     \/ WorkerAt("compensate_vectors")
  /\ UNCHANGED <<repository, vectorStore, files, outsideWorker>>

\* Mutation: an upsert that raises is taken for a success.
UpsertIgnoringErrors ==
  /\ workerPc = "upsert"
  /\ upsert(workerDoc, attempt) \/ UpsertRaises(workerDoc, attempt)
  /\ WorkerAt("complete")
  /\ UNCHANGED <<repository, files, outsideWorker>>

UpsertChunks ==
  /\ workerPc = "upsert"
  /\ \/ upsert(workerDoc, attempt) /\ WorkerAt("complete")
     \/ UpsertRaises(workerDoc, attempt) /\ WorkerAt("compensate_vectors")
  /\ UNCHANGED <<repository, files, outsideWorker>>

\* Mutation: a completion that raised is compensated without reading it back.
CompleteOrCompensate ==
  /\ workerPc = "complete"
  /\ \/ complete_job(workerDoc) /\ WorkerLeaves("idle")
     \/ complete_job(workerDoc) /\ WorkerAt("compensate_vectors")
     \/ UNCHANGED repository /\ WorkerAt("compensate_vectors")
  /\ UNCHANGED <<vectorStore, files, outsideWorker>>

CompleteJob ==
  /\ workerPc = "complete"
  /\ \/ complete_job(workerDoc) /\ WorkerLeaves("idle")
     \/ complete_job(workerDoc) /\ WorkerAt("verify")
     \/ UNCHANGED repository /\ WorkerAt("verify")
  /\ UNCHANGED <<vectorStore, files, outsideWorker>>

\* complete_job raised: read both rows back.  Success is kept only when both
\* are ready; anything else, a failing read included, ends the process.
VerifyCompletion ==
  /\ workerPc = "verify"
  /\ \/ /\ jobStatus[workerDoc] = "ready"
        /\ docStatus[workerDoc] = "ready"
        /\ WorkerLeaves("idle")
     \/ WorkerLeaves("down")
  /\ UNCHANGED <<repository, vectorStore, files, outsideWorker>>

\* _compensate_failed_processing: both errors are logged and swallowed.
CompensateVectors ==
  /\ workerPc = "compensate_vectors"
  /\ delete_by_document(workerDoc) \/ DeleteRaises(workerDoc)
  /\ WorkerAt("compensate_file")
  /\ UNCHANGED <<repository, files, outsideWorker>>

CompensateFile ==
  /\ workerPc = "compensate_file"
  /\ files' \in {files, files \ {workerDoc}}
  /\ WorkerAt("fail")
  /\ UNCHANGED <<repository, vectorStore, outsideWorker>>

\* Mutation: the Worker carries on when the failure cannot be recorded.
FailAndCarryOn ==
  /\ workerPc = "fail"
  /\ fail_job(workerDoc) \/ UNCHANGED repository
  /\ WorkerLeaves("idle")
  /\ UNCHANGED <<vectorStore, files, outsideWorker>>

\* When the failure itself cannot be recorded the process exits, so that the
\* running job is not stranded inside a live Worker.
FailJob ==
  /\ workerPc = "fail"
  /\ \/ fail_job(workerDoc) /\ \E pc \in {"idle", "down"} : WorkerLeaves(pc)
     \/ UNCHANGED repository /\ WorkerLeaves("down")
  /\ UNCHANGED <<vectorStore, files, outsideWorker>>

\* The process is killed; a Qdrant request it was waiting for may be applied
\* in any part, or later.
WorkerCrash ==
  /\ workerPc # "down"
  /\ \/ UNCHANGED vectorStore
     \/ workerPc \in {"purge", "compensate_vectors"} /\ DeleteRaises(workerDoc)
     \/ workerPc = "upsert" /\ UpsertRaises(workerDoc, attempt)
  /\ WorkerLeaves("down")
  /\ UNCHANGED <<repository, files, outsideWorker>>

\* Mutation: a restarted Worker goes straight to its main loop.
RestartWithoutRecovery ==
  /\ workerPc = "down"
  /\ restarts < MaxRestarts
  /\ restarts' = restarts + 1
  /\ WorkerLeaves("idle")
  /\ UNCHANGED <<repository, vectorStore, files, deletions, submissions>>

\* compose.yaml, restart: on-failure:3
RestartWorker ==
  /\ workerPc = "down"
  /\ restarts < MaxRestarts
  /\ restarts' = restarts + 1
  /\ WorkerLeaves("starting")
  /\ UNCHANGED <<repository, vectorStore, files, deletions, submissions>>

ProcessJob ==
  \/ ReadDocument \/ CheckFile \/ PurgeVectors \/ LoadAndEmbed \/ UpsertChunks
  \/ CompleteJob \/ VerifyCompletion
  \/ CompensateVectors \/ CompensateFile \/ FailJob

WorkerStep == RecoverAbandonedJobs \/ ClaimNextJob \/ ProcessJob

Delete == DeletionStep /\ UNCHANGED <<submissions, worker, restarts>>

LateWrite ==
  /\ \E w \in inflight : Land(w)
  /\ UNCHANGED <<repository, files, deletions, submissions, worker, restarts>>

Next ==
  \/ SubmitStep \/ ApiCrash
  \/ WorkerStep \/ WorkerCrash \/ RestartWorker
  \/ Delete \/ LateWrite

Spec == Init /\ [][Next]_vars

\* A poll that finds no claimable job changes nothing, and nothing obliges it
\* to fail.
HasWork == workerPc = "idle" => \E d \in Documents : Claimable(d)

\* A live Worker keeps executing and its supervisor keeps restarting it; no
\* fairness for clients, for the API, for crashes or for any outcome of a call.
Fairness == WF_vars(WorkerStep /\ HasWork) /\ WF_vars(RestartWorker)

FairSpec == Spec /\ Fairness

(***************************************************************************)
(* Properties                                                              *)
(***************************************************************************)
TypeOK ==
  /\ RepositoryTypeOK
  /\ VectorStoreTypeOK
  /\ files \subseteq Documents
  /\ DeletionTypeOK
  /\ submitPc \in [Documents -> SubmitPcs]
  /\ clock \in Nat
  /\ workerPc \in WorkerPcs
  /\ workerDoc \in Documents \union {None}
  /\ attempt \in Nat
  /\ restarts \in 0..MaxRestarts

\* The two rows of a document never disagree, whatever fails between the
\* transactions that write them (create_document_and_job, claim_next_job,
\* complete_job, fail_job, recover_running_jobs, delete with its cascade).
JobDocumentAgree ==
  \A d \in Documents :
    docStatus[d] = IF jobStatus[d] \in ActiveJobStatuses
                   THEN "processing" ELSE jobStatus[d]

WorkerHolds(d) == workerPc \in JobPcs /\ workerDoc = d

\* A running job is held by the live Worker, or no Worker has reached its main
\* loop since it was claimed, so that startup recovery will still see it: no
\* error path of process_next leaves a running job inside a live Worker.
NoStrandedJob ==
  \A d \in Documents :
    jobStatus[d] = "running" => workerPc \in {"down", "starting"} \/ WorkerHolds(d)

\* Every ready document on which no deletion was allowed has exactly the points
\* of the attempt that completed.
Indexed ==
  \A d \in Documents :
    docStatus[d] = "ready" /\ d \notin condemned
      => vectors[d] = Points(attemptCount[d])

\* Until a deletion is allowed on it, a ready document is answered from exactly
\* the chunks of the attempt that completed: none missing, none left over from
\* an attempt that crashed, failed or was only partly written.  A request that
\* outlives its timeout may break this after a replay, see AsyncServing.
ReadyIsIndexed == ~timedOut => Indexed

\* The stored file of a ready document is not removed before a deletion is
\* allowed on it, unless submit reported the upload as failed: the Worker's
\* compensation never runs after a completion that may be durable.
ReadySourceKept ==
  \A d \in Documents :
    (/\ docStatus[d] = "ready"
     /\ d \notin condemned
     /\ submitPc[d] \in {"accepted", "lost"}) => d \in files

\* A document that is gone from SQLite left no points in Qdrant, although the
\* two deletions are separate steps, may fail separately and may overlap, as
\* long as no request outlives its timeout.
NoOrphanVectors ==
  ~timedOut => \A d \in Documents : docStatus[d] = "absent" => vectors[d] = {}

\* A deletion that stopped halfway, by an error or with the API process, can
\* always be asked for again: its document never becomes undeletable.
DeletionCanBeRepeated ==
  \A d \in condemned : docStatus[d] # "absent" => DeletionAllowed(d)

\* One Worker process claims a job at most once: attempt_count never exceeds
\* the number of processes started so far, so nothing retries a job in a loop.
AttemptsBounded == \A d \in Documents : attemptCount[d] <= restarts + 1

\* While its job is pending or running nothing a client does takes a document's
\* rows or its points away (DELETE answers 409); they change only by a step of
\* the Worker that holds the job, of its recovery, or of its death (the points
\* also when a request that timed out lands).
ActiveUntouched ==
  [][\A d \in Documents :
       jobStatus[d] \in ActiveJobStatuses /\ worker' = worker
         => /\ docStatus'[d] = docStatus[d]
            /\ jobStatus'[d] = jobStatus[d]
            /\ ~timedOut => vectors'[d] = vectors[d]]_vars

\* docs/r23_design.md, state machine: a job that became ready or failed never
\* becomes active again and never changes its outcome; it can only be deleted.
TerminalIsFinal ==
  [][\A d \in Documents :
       jobStatus[d] \in {"ready", "failed"}
         => /\ jobStatus'[d] \in {jobStatus[d], "absent"}
            /\ docStatus'[d] \in {docStatus[d], "absent"}]_vars

\* The Worker is down and its supervisor will not start it again.
GaveUp == workerPc = "down" /\ restarts = MaxRestarts

\* Every job that was accepted settles, through any sequence of errors and
\* crashes, unless they exhaust the supervisor's restart budget.
EveryJobSettles ==
  \A d \in Documents :
    jobStatus[d] \in ActiveJobStatuses
      ~> jobStatus[d] \notin ActiveJobStatuses \/ GaveUp

(***************************************************************************)
(* Refinement: the tables, read as the phases a client is promised.        *)
(***************************************************************************)
Phase(d) ==
  CASE docStatus[d] = "absent" /\ d \notin condemned -> "none"
    [] docStatus[d] = "absent" /\ d \in condemned -> "deleted"
    [] docStatus[d] # "absent" /\ d \in condemned -> "condemned"
    [] OTHER -> jobStatus[d]

Lifecycle == INSTANCE IngestionLifecycle WITH phase <- [d \in Documents |-> Phase(d)]

\* The two processes and their crashes implement the lifecycle: a job starts
\* only while no other is running, and an accepted document vanishes only after
\* a deletion found it ended.
ImplementsLifecycle == Lifecycle!Spec

(***************************************************************************)
(* The inductive invariant behind the safety properties that are proved.   *)
(***************************************************************************)
\* The upload's rows were never inserted.
Unborn(d) == submitPc[d] \in {"new", "saved", "built"}

SubmissionInv ==
  \A d \in Documents :
    Unborn(d) => jobStatus[d] = "absent" /\ d \notin condemned

\* Between claim_next_job and the transaction that finishes it the job is
\* running; once complete_job has raised it may be finished, or deleted.
WorkerInv ==
  /\ workerPc \in JobPcs => workerDoc \in Documents /\ ~Unborn(workerDoc)
  /\ workerPc \in JobPcs \ {"verify"} => jobStatus[workerDoc] = "running"

OneRunningJob ==
  \A d, e \in Documents :
    jobStatus[d] = "running" /\ jobStatus[e] = "running" => d = e

DeletionInv ==
  \A r \in Requests :
    deletePc[r] # "idle" =>
      /\ deleteDoc[r] \in condemned
      /\ jobStatus[deleteDoc[r]] \notin ActiveJobStatuses

CondemnedInv ==
  \A d \in condemned : jobStatus[d] \notin ActiveJobStatuses

IInv ==
  /\ TypeOK
  /\ JobDocumentAgree
  /\ SubmissionInv
  /\ WorkerInv
  /\ OneRunningJob
  /\ NoStrandedJob
  /\ CondemnedInv
  /\ DeletionInv

\* Behind ReadyIsIndexed, while no request timed out: from the deletion of old
\* points to the completion the collection holds what this attempt has written.
AttemptInv ==
  /\ inflight = {}
  /\ workerPc \in JobPcs \ {"verify"} => attempt = attemptCount[workerDoc]
  /\ workerPc \in {"load", "upsert"} => vectors[workerDoc] = {}
  /\ workerPc = "complete" => vectors[workerDoc] = Points(attempt)

IndexInv == IInv /\ AttemptInv /\ Indexed

\* Behind NoOrphanVectors and what a search may find, while no request timed
\* out: a deletion that got past its Qdrant request has left no points, and a
\* deletion that did not leaves only points of the completed attempt.
PurgedInv ==
  /\ \A d \in Documents :
       /\ docStatus[d] = "absent" => vectors[d] = {}
       /\ docStatus[d] = "ready" => vectors[d] \subseteq Points(attemptCount[d])
  /\ \A r \in Requests :
       deletePc[r] \in {"file", "record"} => vectors[deleteDoc[r]] = {}

\* Behind AttemptsBounded: a waiting job was last claimed by an earlier process.
ClaimsInv ==
  \A d \in Documents :
    /\ attemptCount[d] <= restarts + 1
    /\ jobStatus[d] = "pending" => attemptCount[d] <= restarts
    /\ jobStatus[d] = "running" /\ workerPc = "starting" => attemptCount[d] <= restarts

\* Behind ReadySourceKept: only a submit that failed removes the file of a job
\* that the Worker has loaded from it.
SourceInv ==
  /\ workerPc \in {"upsert", "complete"}
       => workerDoc \in files \/ submitPc[workerDoc] = "rejected"
  /\ \A d \in Documents :
       docStatus[d] = "ready" /\ d \notin condemned
         => d \in files \/ submitPc[d] = "rejected"

\* The first attempt on a document, whatever times out: nothing of it is in
\* flight while it can still complete, since an error of Qdrant makes it fail.
FirstTry(d) ==
  /\ d \notin condemned
  /\ \/ Unborn(d) \/ attemptCount[d] = 0
     \/ /\ attemptCount[d] = 1
        /\ \/ docStatus[d] = "ready"
           \/ /\ workerDoc = d
              /\ workerPc \in {"read", "check", "purge", "load", "upsert", "complete"}

FirstTryInv ==
  /\ \A d \in Documents : FirstTry(d) => \A w \in inflight : w[1] # d
  /\ workerPc \in JobPcs \ {"verify"} => attempt = attemptCount[workerDoc] /\ attempt # 0
  /\ attempt = 1 /\ workerPc \in {"load", "upsert"} => vectors[workerDoc] = {}
  /\ attempt = 1 /\ workerPc = "complete" => vectors[workerDoc] = Points(1)
  /\ \A d \in Documents :
       docStatus[d] = "ready" /\ d \notin condemned /\ attemptCount[d] = 1
         => vectors[d] = Points(1)
=============================================================================
