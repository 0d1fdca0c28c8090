------------------------ MODULE AsyncIngestionProofs ------------------------
(***************************************************************************)
(* Theorems about AsyncIngestion and about AsyncServing, which adds the    *)
(* requests that only read, for every set of documents, requests and       *)
(* chunks, every assignment of digests and every restart budget; and about *)
(* IngestionBenchmark, which runs the same steps under its own driver, for *)
(* every number of samples.                                                *)
(***************************************************************************)
EXTENDS AsyncServing, IngestionBenchmark, SetFolds, SequenceTheorems, FunctionTheorems

(***************************************************************************)
(* Type correctness                                                        *)
(***************************************************************************)
\* Every transaction keeps the tables well typed.
LEMMA TransactionsTyped ==
  ASSUME RepositoryTypeOK, NEW d \in Documents
  PROVE  /\ create_document_and_job(d) => RepositoryTypeOK'
         /\ delete(d) => RepositoryTypeOK'
         /\ claim_next_job(d) => RepositoryTypeOK'
         /\ complete_job(d) => RepositoryTypeOK'
         /\ fail_job(d) => RepositoryTypeOK'
         /\ recover_running_jobs => RepositoryTypeOK'
         /\ UNCHANGED repository => RepositoryTypeOK'
  BY DEF RepositoryTypeOK, DocumentStatuses, JobStatuses, repository,
         create_document_and_job, delete, claim_next_job, complete_job, fail_job,
         Finish, recover_running_jobs

\* Every Qdrant request, whole, partial, timed out or landing late, keeps the
\* collection well typed.
LEMMA RequestsTyped ==
  ASSUME VectorStoreTypeOK, NEW d \in Documents, NEW n \in Nat
  PROVE  /\ delete_by_document(d) => VectorStoreTypeOK'
         /\ DeleteRaises(d) => VectorStoreTypeOK'
         /\ upsert(d, n) => VectorStoreTypeOK'
         /\ UpsertRaises(d, n) => VectorStoreTypeOK'
         /\ UNCHANGED vectorStore => VectorStoreTypeOK'
<1>1. Points(n) \subseteq Nat \X Parts
  BY DEF Points
<1>2. delete_by_document(d) => VectorStoreTypeOK'
  BY DEF VectorStoreTypeOK, delete_by_document
<1>3. TimeOut(d, n) => VectorStoreTypeOK'
  BY DEF VectorStoreTypeOK, TimeOut
<1>4. TimeOut(d, 0) => VectorStoreTypeOK'
  BY DEF VectorStoreTypeOK, TimeOut
<1>5. upsert(d, n) => VectorStoreTypeOK'
  BY <1>1 DEF VectorStoreTypeOK, upsert
<1>6. UpsertRaises(d, n) => VectorStoreTypeOK'
  BY <1>1, <1>3 DEF VectorStoreTypeOK, UpsertRaises
<1>7. UNCHANGED vectorStore => VectorStoreTypeOK'
  BY DEF VectorStoreTypeOK, vectorStore
<1> QED
  BY <1>2, <1>4, <1>5, <1>6, <1>7 DEF DeleteRaises

LEMMA LandTyped ==
  ASSUME VectorStoreTypeOK, NEW w, Land(w)
  PROVE  VectorStoreTypeOK'
<1>1. PICK d \in Documents, n \in Nat : w = <<d, n>>
  BY DEF VectorStoreTypeOK, Land
<1>2. Points(n) \subseteq Nat \X Parts
  BY DEF Points
<1> QED
  BY <1>1, <1>2 DEF VectorStoreTypeOK, Land

LEMMA InitTyped == Init => TypeOK
<1>1. VectorStoreInit => VectorStoreTypeOK
  BY DEF VectorStoreInit, VectorStoreTypeOK
<1>2. RepositoryInit => RepositoryTypeOK
  BY DEF RepositoryInit, RepositoryTypeOK
<1>3. DeletionInit => DeletionTypeOK /\ files \subseteq Documents
  BY DEF DeletionInit, DeletionTypeOK, DeletePcs
<1>4. QED
  BY <1>1, <1>2, <1>3, MaxRestartsAssumption DEF Init, TypeOK, SubmitPcs, WorkerPcs

\* process_next and delete_document move within their own steps.
WorkerTypeOK ==
  workerPc \in WorkerPcs /\ workerDoc \in Documents \union {None} /\ attempt \in Nat

LEMMA WorkerMovesTyped ==
  ASSUME WorkerTypeOK, NEW pc \in WorkerPcs
  PROVE  /\ WorkerAt(pc) => WorkerTypeOK'
         /\ WorkerLeaves(pc) => WorkerTypeOK'
         /\ UNCHANGED worker => WorkerTypeOK'
  BY DEF WorkerTypeOK, WorkerAt, WorkerLeaves, worker

LEMMA DeletionMovesTyped ==
  ASSUME DeletionTypeOK, NEW r \in Requests, NEW pc \in DeletePcs
  PROVE  /\ EndDeletion(r) => DeletionTypeOK'
         /\ DeletionAt(r, pc) => DeletionTypeOK'
         /\ DeletionsVanish => DeletionTypeOK'
         /\ UNCHANGED deletions => DeletionTypeOK'
  BY DEF DeletionTypeOK, DeletePcs, EndDeletion, DeletionAt, DeletionsVanish, deletions

LEMMA SubmitStepTyped ==
  ASSUME TypeOK, NEW d \in Documents,
         SaveUpload(d) \/ BuildJob(d) \/ CommitJob(d) \/ RemoveStoredFile(d)
  PROVE  TypeOK'
<1> USE DEF TypeOK
<1>1. CASE SaveUpload(d)
  BY <1>1 DEF SaveUpload, SubmitAt, SubmitPcs, repository, RepositoryTypeOK, vectorStore,
     VectorStoreTypeOK, deletions, DeletionTypeOK, worker
<1>2. CASE BuildJob(d)
  BY <1>2 DEF BuildJob, SubmitAt, SubmitPcs, RepositoryTypeOK, vectorStore,
     VectorStoreTypeOK, deletions, DeletionTypeOK, worker
<1>3. CASE CommitJob(d)
  <2>1. RepositoryTypeOK'
    BY <1>3, TransactionsTyped DEF CommitJob
  <2> QED
    BY <1>3, <2>1 DEF CommitJob, SubmitAt, SubmitPcs, vectorStore, VectorStoreTypeOK,
       deletions, DeletionTypeOK, worker
<1>4. CASE RemoveStoredFile(d)
  BY <1>4 DEF RemoveStoredFile, SubmitAt, SubmitPcs, repository, RepositoryTypeOK,
     vectorStore, VectorStoreTypeOK, deletions, DeletionTypeOK, worker
<1> QED
  BY <1>1, <1>2, <1>3, <1>4

LEMMA ProcessJobTyped ==
  ASSUME TypeOK, workerPc \in JobPcs => workerDoc \in Documents, ProcessJob
  PROVE  TypeOK'
<1>1. workerPc \in JobPcs /\ workerDoc \in Documents /\ WorkerTypeOK
  BY DEF TypeOK, WorkerTypeOK, JobPcs, ProcessJob, ReadDocument, CheckFile, PurgeVectors,
     LoadAndEmbed, UpsertChunks, CompleteJob, VerifyCompletion, CompensateVectors,
     CompensateFile, FailJob
<1>2. WorkerTypeOK'
  BY <1>1, WorkerMovesTyped
  DEF WorkerPcs, JobPcs, ProcessJob, ReadDocument, CheckFile, PurgeVectors,
     LoadAndEmbed, UpsertChunks, CompleteJob, VerifyCompletion, CompensateVectors,
     CompensateFile, FailJob
<1>3. RepositoryTypeOK'
  BY <1>1, TransactionsTyped
  DEF TypeOK, ProcessJob, ReadDocument, CheckFile, PurgeVectors, LoadAndEmbed, UpsertChunks,
     CompleteJob, VerifyCompletion, CompensateVectors, CompensateFile, FailJob
<1>4. VectorStoreTypeOK'
  <2>1. attempt \in Nat /\ VectorStoreTypeOK
    BY DEF TypeOK
  <2> QED
    BY <1>1, <2>1, RequestsTyped
    DEF ProcessJob, ReadDocument, CheckFile, PurgeVectors, LoadAndEmbed, UpsertChunks,
        CompleteJob, VerifyCompletion, CompensateVectors, CompensateFile, FailJob
<1>5. files' \subseteq Documents /\ UNCHANGED outsideWorker
  BY DEF TypeOK, ProcessJob, ReadDocument, CheckFile, PurgeVectors, LoadAndEmbed,
     UpsertChunks, CompleteJob, VerifyCompletion, CompensateVectors, CompensateFile, FailJob
<1> QED
  BY <1>2, <1>3, <1>4, <1>5
  DEF TypeOK, WorkerTypeOK, outsideWorker, deletions, submissions, DeletionTypeOK

LEMMA DeleteTyped ==
  ASSUME TypeOK, DeletionInv, Delete
  PROVE  TypeOK'
<1>1. PICK r \in Requests :
        \/ \E d \in Documents : GetForDeletion(r, d)
        \/ DeleteVectors(r) \/ DeleteStoredFile(r) \/ DeleteRecord(r)
  BY DEF Delete, DeletionStep
<1>2. UNCHANGED <<submissions, worker, restarts>>
  BY DEF Delete
<1>3. DeletionTypeOK /\ RepositoryTypeOK /\ VectorStoreTypeOK
  BY DEF TypeOK
<1>4. CASE \E d \in Documents : GetForDeletion(r, d)
  BY <1>2, <1>4
  DEF TypeOK, GetForDeletion, DeletionTypeOK, DeletePcs, repository, RepositoryTypeOK,
      vectorStore, VectorStoreTypeOK, submissions, worker
<1>5. CASE DeleteVectors(r) \/ DeleteStoredFile(r) \/ DeleteRecord(r)
  <2>1. deleteDoc[r] \in Documents
    BY <1>5, <1>3 DEF DeletionInv, DeletionTypeOK, DeleteVectors, DeleteStoredFile,
       DeleteRecord
  <2>2. DeletionTypeOK'
    BY <1>3, <1>5, DeletionMovesTyped DEF DeletePcs, DeleteVectors, DeleteStoredFile,
       DeleteRecord
  <2>3. RepositoryTypeOK'
    BY <1>3, <1>5, <2>1, TransactionsTyped DEF DeleteVectors, DeleteStoredFile,
       DeleteRecord
  <2>4. VectorStoreTypeOK'
    BY <1>3, <1>5, <2>1, RequestsTyped DEF DeleteVectors, DeleteStoredFile, DeleteRecord
  <2>5. files' \subseteq Documents
    BY <1>5 DEF TypeOK, DeleteVectors, DeleteStoredFile, DeleteRecord
  <2> QED
    BY <1>2, <2>2, <2>3, <2>4, <2>5 DEF TypeOK, submissions, worker
<1> QED
  BY <1>1, <1>4, <1>5

LEMMA StepTyped ==
  ASSUME TypeOK, workerPc \in JobPcs => workerDoc \in Documents, DeletionInv, [Next]_vars
  PROVE  TypeOK'
<1>1. RepositoryTypeOK /\ VectorStoreTypeOK /\ DeletionTypeOK /\ WorkerTypeOK
  BY DEF TypeOK, WorkerTypeOK
<1>2. CASE SubmitStep
  BY <1>2, SubmitStepTyped DEF SubmitStep
<1>3. CASE ApiCrash
  BY <1>3 DEF ApiCrash, DeletionsVanish, TypeOK, SubmitPcs, DeletionTypeOK, DeletePcs,
     repository, RepositoryTypeOK, vectorStore, VectorStoreTypeOK, worker
<1>4. CASE RecoverAbandonedJobs
  <2>1. WorkerTypeOK'
    BY <1>1, <1>4, WorkerMovesTyped DEF RecoverAbandonedJobs, WorkerPcs
  <2>2. RepositoryTypeOK'
    BY <1>1, <1>4 DEF RecoverAbandonedJobs, RepositoryTypeOK, recover_running_jobs,
       repository, JobStatuses
  <2> QED
    BY <1>1, <1>4, <2>1, <2>2 DEF RecoverAbandonedJobs, TypeOK, WorkerTypeOK,
       outsideWorker, submissions, deletions, DeletionTypeOK, vectorStore,
       VectorStoreTypeOK
<1>5. CASE ClaimNextJob
  <2>1. RepositoryTypeOK'
    BY <1>1, <1>5, TransactionsTyped DEF ClaimNextJob, RepositoryTypeOK, repository
  <2>2. WorkerTypeOK'
    BY <1>1, <1>5 DEF ClaimNextJob, WorkerTypeOK, WorkerLeaves, RepositoryTypeOK, WorkerPcs,
       JobPcs
  <2> QED
    BY <1>1, <1>5, <2>1, <2>2 DEF ClaimNextJob, TypeOK, WorkerTypeOK,
       outsideWorker, submissions, deletions, DeletionTypeOK, vectorStore,
       VectorStoreTypeOK
<1>6. CASE ProcessJob
  BY <1>6, ProcessJobTyped
<1>7. CASE WorkerCrash
  <2>1. WorkerTypeOK'
    BY <1>1, <1>7, WorkerMovesTyped DEF WorkerCrash, WorkerPcs
  <2>2. VectorStoreTypeOK'
    <3>1. CASE workerPc \in JobPcs
      <4>1. workerDoc \in Documents /\ attempt \in Nat
        BY <3>1 DEF TypeOK
      <4> QED
        BY <1>1, <1>7, <4>1, RequestsTyped DEF WorkerCrash, VectorStoreTypeOK, vectorStore
    <3>2. CASE workerPc \notin JobPcs
      BY <1>1, <1>7, <3>2 DEF WorkerCrash, JobPcs, VectorStoreTypeOK, vectorStore
    <3> QED
      BY <3>1, <3>2
  <2> QED
    BY <1>1, <1>7, <2>1, <2>2 DEF WorkerCrash, TypeOK, WorkerTypeOK, repository,
       RepositoryTypeOK, outsideWorker, submissions, deletions, DeletionTypeOK
<1>8. CASE RestartWorker
  <2>1. WorkerTypeOK'
    BY <1>1, <1>8, WorkerMovesTyped DEF RestartWorker, WorkerPcs
  <2> QED
    BY <1>1, <1>8, <2>1, MaxRestartsAssumption DEF RestartWorker, TypeOK, WorkerTypeOK,
       repository, RepositoryTypeOK, submissions, deletions, DeletionTypeOK, vectorStore,
       VectorStoreTypeOK
<1>9. CASE Delete
  BY <1>9, DeleteTyped
<1>10. CASE LateWrite
  <2>1. VectorStoreTypeOK'
    BY <1>1, <1>10, LandTyped DEF LateWrite
  <2> QED
    BY <1>1, <1>10, <2>1 DEF LateWrite, TypeOK, repository, RepositoryTypeOK,
       submissions, deletions, DeletionTypeOK, worker
<1>11. CASE UNCHANGED vars
  BY <1>1, <1>11 DEF vars, TypeOK, repository, RepositoryTypeOK, vectorStore,
     VectorStoreTypeOK, submissions, deletions, DeletionTypeOK, worker
<1> QED
  BY <1>2, <1>3, <1>4, <1>5, <1>6, <1>7, <1>8, <1>9, <1>10, <1>11
  DEF Next, WorkerStep

(***************************************************************************)
(* The inductive invariant                                                 *)
(***************************************************************************)
LEMMA InitInv == Init => IInv
  BY InitTyped
  DEF Init, IInv, RepositoryInit, DeletionInit, JobDocumentAgree, ActiveJobStatuses,
      SubmissionInv, WorkerInv, JobPcs, OneRunningJob, NoStrandedJob, CondemnedInv,
      DeletionInv

\* submit inserts only rows that never existed, so it touches no document that
\* the Worker or a deletion holds.
LEMMA SubmitStepInv ==
  ASSUME IInv, NEW d \in Documents,
         SaveUpload(d) \/ BuildJob(d) \/ CommitJob(d) \/ RemoveStoredFile(d),
         TypeOK'
  PROVE  IInv'
<1> USE DEF IInv
<1>1. CASE SaveUpload(d) \/ BuildJob(d) \/ RemoveStoredFile(d)
  <2>1. UNCHANGED <<docStatus, jobStatus, deletions, worker>>
    BY <1>1 DEF SaveUpload, BuildJob, RemoveStoredFile, repository
  <2>2. \A e \in Documents : Unborn(e)' => Unborn(e)
    BY <1>1 DEF SaveUpload, BuildJob, RemoveStoredFile, SubmitAt, Unborn, TypeOK
  <2>3. WorkerInv' /\ SubmissionInv'
    BY <2>1, <2>2 DEF WorkerInv, SubmissionInv, worker, deletions, TypeOK
  <2> QED
    BY <2>1, <2>3 DEF JobDocumentAgree, OneRunningJob, NoStrandedJob, WorkerHolds,
       CondemnedInv, DeletionInv, worker, deletions
<1>2. CASE CommitJob(d)
  <2>1. UNCHANGED <<deletions, worker>> /\ Unborn(d)
    BY <1>2 DEF CommitJob, Unborn
  <2>2. /\ submitPc' \in [Documents -> SubmitPcs]
        /\ ~Unborn(d)'
        /\ \A e \in Documents \ {d} : submitPc'[e] = submitPc[e]
    BY <1>2 DEF CommitJob, SubmitAt, Unborn, TypeOK
  <2>3. \/ UNCHANGED <<docStatus, jobStatus>>
        \/ /\ docStatus' = [docStatus EXCEPT ![d] = "processing"]
           /\ jobStatus' = [jobStatus EXCEPT ![d] = "pending"]
    BY <1>2 DEF CommitJob, create_document_and_job, repository
  <2>4. d \notin condemned /\ jobStatus[d] = "absent"
    BY <2>1 DEF SubmissionInv
  <2>5. SubmissionInv'
    BY <2>1, <2>2, <2>3 DEF SubmissionInv, Unborn, deletions, TypeOK, RepositoryTypeOK
  <2>6. WorkerInv'
    BY <2>1, <2>2, <2>3 DEF WorkerInv, Unborn, worker, TypeOK, RepositoryTypeOK
  <2>7. JobDocumentAgree' /\ OneRunningJob' /\ NoStrandedJob'
    BY <2>1, <2>3, <2>4 DEF JobDocumentAgree, ActiveJobStatuses, OneRunningJob, NoStrandedJob,
       WorkerHolds, worker, TypeOK, RepositoryTypeOK
  <2>9. CondemnedInv'
    BY <2>1, <2>3, <2>4 DEF CondemnedInv, deletions, TypeOK, RepositoryTypeOK, DeletionTypeOK
  <2>8. DeletionInv'
    BY <2>1, <2>9 DEF DeletionInv, CondemnedInv, deletions
  <2> QED
    BY <2>5, <2>6, <2>7, <2>8, <2>9
<1> QED
  BY <1>1, <1>2

\* A step of process_next other than the two that finish the job leaves both
\* tables alone and keeps the job in hand.
LEMMA WorkingInv ==
  ASSUME IInv, TypeOK',
         \/ ReadDocument \/ CheckFile \/ PurgeVectors \/ LoadAndEmbed \/ UpsertChunks
         \/ CompensateVectors \/ CompensateFile
  PROVE  IInv'
<1>1. /\ UNCHANGED <<docStatus, jobStatus, deletions, submitPc>>
      /\ workerPc \in JobPcs \ {"verify"}
      /\ workerPc' \in JobPcs \ {"verify"}
      /\ workerDoc' = workerDoc
  BY DEF ReadDocument, CheckFile, PurgeVectors, LoadAndEmbed, UpsertChunks,
     CompensateVectors, CompensateFile, WorkerAt, JobPcs, repository, outsideWorker,
     submissions
<1> QED
  BY <1>1 DEF IInv, JobDocumentAgree, SubmissionInv, Unborn, WorkerInv, OneRunningJob,
     NoStrandedJob, WorkerHolds, JobPcs, CondemnedInv, DeletionInv, deletions

\* Finishing a job, durably or not: only the two rows of the job in hand move,
\* and they move together.
LEMMA FinishingInv ==
  ASSUME IInv, TypeOK', CompleteJob \/ FailJob
  PROVE  IInv'
<1>1. /\ UNCHANGED <<deletions, submitPc>>
      /\ workerPc \in JobPcs \ {"verify"}
      /\ \/ workerPc' = "verify" /\ workerDoc' = workerDoc
         \/ workerPc' \in {"idle", "down"}
  BY DEF CompleteJob, FailJob, WorkerAt, WorkerLeaves, JobPcs, outsideWorker, submissions
<1>2. /\ workerDoc \in Documents /\ ~Unborn(workerDoc)
      /\ jobStatus[workerDoc] = "running"
      /\ workerDoc \notin condemned
  BY <1>1 DEF IInv, WorkerInv, CondemnedInv, ActiveJobStatuses
<1>3. \/ /\ workerPc' \in {"verify", "down"}
         /\ UNCHANGED <<docStatus, jobStatus>>
      \/ \E status \in {"ready", "failed"} :
           /\ docStatus' = [docStatus EXCEPT ![workerDoc] = status]
           /\ jobStatus' = [jobStatus EXCEPT ![workerDoc] = status]
  BY DEF CompleteJob, FailJob, complete_job, fail_job, Finish, WorkerAt, WorkerLeaves,
     repository
<1>4. NoStrandedJob'
  BY <1>1, <1>2, <1>3 DEF IInv, NoStrandedJob, WorkerHolds, OneRunningJob, JobPcs, TypeOK,
     RepositoryTypeOK
<1>5. WorkerInv'
  BY <1>1, <1>2 DEF IInv, WorkerInv, Unborn, JobPcs
<1>6. JobDocumentAgree' /\ OneRunningJob' /\ CondemnedInv' /\ DeletionInv'
  BY <1>1, <1>2, <1>3 DEF IInv, JobDocumentAgree, OneRunningJob, CondemnedInv,
     DeletionInv, ActiveJobStatuses, deletions, TypeOK, RepositoryTypeOK, DeletionTypeOK
<1>7. SubmissionInv'
  BY <1>1, <1>2, <1>3 DEF IInv, SubmissionInv, Unborn, deletions, TypeOK, RepositoryTypeOK
<1> QED
  BY <1>4, <1>5, <1>6, <1>7 DEF IInv

LEMMA VerifyInv ==
  ASSUME IInv, TypeOK', VerifyCompletion \/ WorkerCrash
  PROVE  IInv'
<1>1. /\ UNCHANGED <<docStatus, jobStatus, deletions, submitPc>>
      /\ workerPc' \in {"idle", "down"}
      /\ workerPc' = "idle" => workerPc = "verify" /\ jobStatus[workerDoc] = "ready"
  BY DEF VerifyCompletion, WorkerCrash, WorkerLeaves, repository, outsideWorker, submissions
<1>2. NoStrandedJob'
  BY <1>1 DEF IInv, NoStrandedJob, WorkerHolds, JobPcs
<1> QED
  BY <1>1, <1>2 DEF IInv, JobDocumentAgree, SubmissionInv, Unborn, WorkerInv, OneRunningJob,
     JobPcs, CondemnedInv, DeletionInv, deletions

\* Recovery requeues the running job before the Worker can claim another.
LEMMA RecoverInv ==
  ASSUME IInv, TypeOK', RecoverAbandonedJobs \/ RestartWorker
  PROVE  IInv'
<1>1. CASE RecoverAbandonedJobs
  <2>1. /\ UNCHANGED <<docStatus, deletions, submitPc>>
        /\ workerPc' \in {"idle", "down"}
    BY <1>1 DEF RecoverAbandonedJobs, WorkerLeaves, recover_running_jobs, repository,
       outsideWorker, submissions
  <2>2. \/ jobStatus' = [d \in Documents |->
                           IF jobStatus[d] = "running" THEN "pending" ELSE jobStatus[d]]
        \/ workerPc' = "down" /\ UNCHANGED jobStatus
    BY <1>1 DEF RecoverAbandonedJobs, recover_running_jobs, Recoverable, WorkerLeaves,
       repository, IInv, JobDocumentAgree, ActiveJobStatuses
  <2>3. NoStrandedJob' /\ OneRunningJob' /\ WorkerInv'
    BY <2>1, <2>2 DEF IInv, NoStrandedJob, OneRunningJob, WorkerInv, JobPcs
  <2>4. JobDocumentAgree' /\ SubmissionInv'
    BY <2>1, <2>2 DEF IInv, JobDocumentAgree, SubmissionInv, Unborn, ActiveJobStatuses,
       deletions
  <2>5. CondemnedInv' /\ DeletionInv'
    BY <2>1, <2>2 DEF IInv, CondemnedInv, DeletionInv, ActiveJobStatuses, deletions,
       TypeOK, DeletionTypeOK
  <2> QED
    BY <2>3, <2>4, <2>5 DEF IInv
<1>2. CASE RestartWorker
  BY <1>2 DEF RestartWorker, WorkerLeaves, repository, deletions, submissions, IInv,
     JobDocumentAgree, SubmissionInv, Unborn, WorkerInv, OneRunningJob, NoStrandedJob,
     JobPcs, CondemnedInv, DeletionInv
<1> QED
  BY <1>1, <1>2

\* A job is claimed only while no job is running: an idle Worker holds none, and
\* a job that no Worker holds is not running outside a Worker's start.
LEMMA ClaimInv ==
  ASSUME IInv, TypeOK', ClaimNextJob
  PROVE  IInv'
<1>1. \A d \in Documents : jobStatus[d] # "running"
  BY DEF IInv, NoStrandedJob, WorkerHolds, ClaimNextJob, JobPcs
<1>2. CASE UNCHANGED repository /\ WorkerLeaves("down")
  BY <1>1, <1>2 DEF ClaimNextJob, WorkerLeaves, repository, outsideWorker, deletions,
     submissions, IInv, JobDocumentAgree, SubmissionInv, Unborn, WorkerInv, OneRunningJob,
     NoStrandedJob, JobPcs, CondemnedInv, DeletionInv
<1>3. CASE \E d \in Documents :
             /\ claim_next_job(d)
             /\ \/ workerPc' = "read" /\ workerDoc' = d
                \/ WorkerLeaves("down")
  <2>1. PICK d \in Documents :
          /\ claim_next_job(d)
          /\ \/ workerPc' = "read" /\ workerDoc' = d
             \/ workerPc' = "down"
    BY <1>3 DEF WorkerLeaves
  <2>2. /\ UNCHANGED <<docStatus, deletions, submitPc>>
        /\ jobStatus[d] = "pending"
        /\ jobStatus' = [jobStatus EXCEPT ![d] = "running"]
    BY <2>1 DEF claim_next_job, Claimable, ClaimNextJob, outsideWorker, submissions
  <2>3. d \notin condemned /\ ~Unborn(d)
    BY <2>2 DEF IInv, CondemnedInv, SubmissionInv, ActiveJobStatuses
  <2>4. WorkerInv' /\ NoStrandedJob' /\ OneRunningJob'
    BY <1>1, <2>1, <2>2, <2>3 DEF IInv, WorkerInv, NoStrandedJob, WorkerHolds, OneRunningJob,
       JobPcs, Unborn, TypeOK, RepositoryTypeOK
  <2>5. JobDocumentAgree' /\ SubmissionInv'
    BY <2>2, <2>3 DEF IInv, JobDocumentAgree, SubmissionInv, Unborn, ActiveJobStatuses,
       deletions, TypeOK, RepositoryTypeOK
  <2>6. CondemnedInv' /\ DeletionInv'
    BY <2>2, <2>3 DEF IInv, CondemnedInv, DeletionInv, ActiveJobStatuses, deletions,
       TypeOK, DeletionTypeOK, RepositoryTypeOK
  <2> QED
    BY <2>4, <2>5, <2>6 DEF IInv
<1> QED
  BY <1>2, <1>3 DEF ClaimNextJob

\* A deletion starts on a document whose job has ended, and an ended job never
\* becomes active again; removing its rows cannot touch the job in hand.
LEMMA DeleteInv ==
  ASSUME IInv, TypeOK', Delete
  PROVE  IInv'
<1>1. UNCHANGED <<submitPc, worker>>
  BY DEF Delete, submissions
<1>2. PICK r \in Requests :
        \/ \E d \in Documents : GetForDeletion(r, d)
        \/ DeleteVectors(r) \/ DeleteStoredFile(r)
        \/ DeleteRecord(r)
  BY DEF Delete, DeletionStep
<1>3. CASE \E d \in Documents : GetForDeletion(r, d)
  <2>1. PICK d \in Documents : GetForDeletion(r, d)
    BY <1>3
  <2>2. /\ UNCHANGED <<docStatus, jobStatus>>
        /\ docStatus[d] # "absent" /\ jobStatus[d] \notin ActiveJobStatuses
        /\ deletePc' = [deletePc EXCEPT ![r] = "vectors"]
        /\ deleteDoc' = [deleteDoc EXCEPT ![r] = d]
        /\ condemned' = condemned \union {d}
    BY <2>1 DEF GetForDeletion, DeletionAllowed, repository
  <2>3. ~Unborn(d)
    BY <2>2 DEF IInv, SubmissionInv, JobDocumentAgree, ActiveJobStatuses
  <2>4. SubmissionInv' /\ CondemnedInv' /\ DeletionInv'
    BY <1>1, <2>2, <2>3 DEF IInv, SubmissionInv, Unborn, CondemnedInv, DeletionInv, TypeOK,
       DeletionTypeOK
  <2> QED
    BY <1>1, <2>2, <2>4 DEF IInv, JobDocumentAgree, WorkerInv, Unborn, OneRunningJob,
       NoStrandedJob, WorkerHolds, worker
<1>4. CASE DeleteVectors(r) \/ DeleteStoredFile(r)
  <2>1. UNCHANGED <<docStatus, jobStatus, condemned>>
    BY <1>4 DEF DeleteVectors, DeleteStoredFile, DeletionAt, EndDeletion, repository
  <2>2. \A q \in Requests : deletePc'[q] # "idle"
                             => deletePc[q] # "idle" /\ deleteDoc'[q] = deleteDoc[q]
    BY <1>4 DEF DeleteVectors, DeleteStoredFile, DeletionAt, EndDeletion, IInv, TypeOK,
       DeletionTypeOK
  <2> QED
    BY <1>1, <2>1, <2>2 DEF IInv, JobDocumentAgree, SubmissionInv, Unborn, WorkerInv,
       OneRunningJob, NoStrandedJob, WorkerHolds, worker, CondemnedInv, DeletionInv
<1>5. CASE DeleteRecord(r)
  <2>1. /\ UNCHANGED condemned
        /\ deletePc[r] # "idle"
        /\ \A q \in Requests : deletePc'[q] # "idle"
                                => deletePc[q] # "idle" /\ deleteDoc'[q] = deleteDoc[q]
    BY <1>5 DEF DeleteRecord, EndDeletion, IInv, TypeOK, DeletionTypeOK
  <2>2. PICK d \in Documents : d = deleteDoc[r] /\ d \in condemned
                               /\ jobStatus[d] \notin ActiveJobStatuses
    BY <2>1 DEF IInv, DeletionInv, TypeOK, DeletionTypeOK
  <2>3. \/ UNCHANGED <<docStatus, jobStatus>>
        \/ /\ docStatus' = [docStatus EXCEPT ![d] = "absent"]
           /\ jobStatus' = [jobStatus EXCEPT ![d] = "absent"]
    BY <1>5, <2>2 DEF DeleteRecord, delete, repository
  <2>4. WorkerInv'
    BY <1>1, <2>2, <2>3 DEF IInv, WorkerInv, Unborn, worker, ActiveJobStatuses, TypeOK,
       RepositoryTypeOK
  <2>5. JobDocumentAgree' /\ SubmissionInv' /\ OneRunningJob' /\ NoStrandedJob'
    BY <1>1, <2>1, <2>2, <2>3 DEF IInv, JobDocumentAgree, SubmissionInv, Unborn, OneRunningJob,
       NoStrandedJob, WorkerHolds, worker, ActiveJobStatuses, TypeOK, RepositoryTypeOK
  <2>6. CondemnedInv'
    BY <2>1, <2>2, <2>3 DEF IInv, CondemnedInv, ActiveJobStatuses, TypeOK, RepositoryTypeOK,
       DeletionTypeOK
  <2>7. DeletionInv'
    BY <2>1, <2>6 DEF IInv, DeletionInv, CondemnedInv
  <2> QED
    BY <2>4, <2>5, <2>6, <2>7 DEF IInv
<1> QED
  BY <1>2, <1>3, <1>4, <1>5

LEMMA StepInv ==
  ASSUME IInv, [Next]_vars
  PROVE  IInv'
<1>1. TypeOK'
  BY StepTyped DEF IInv, WorkerInv
<1>2. CASE SubmitStep
  BY <1>1, <1>2, SubmitStepInv DEF SubmitStep
<1>3. CASE ApiCrash
  <2>1. /\ UNCHANGED <<docStatus, jobStatus, condemned, worker>>
        /\ \A d \in Documents : Unborn(d)' => Unborn(d)
        /\ \A d \in Documents : ~Unborn(d) => ~Unborn(d)'
        /\ \A r \in Requests : deletePc'[r] = "idle"
    BY <1>3 DEF ApiCrash, DeletionsVanish, Unborn, repository, IInv, TypeOK
  <2> QED
    BY <1>1, <2>1 DEF IInv, JobDocumentAgree, SubmissionInv, WorkerInv, OneRunningJob,
       NoStrandedJob, WorkerHolds, worker, CondemnedInv, DeletionInv
<1>4. CASE RecoverAbandonedJobs \/ RestartWorker
  BY <1>1, <1>4, RecoverInv
<1>5. CASE ClaimNextJob
  BY <1>1, <1>5, ClaimInv
<1>6. CASE ProcessJob
  BY <1>1, <1>6, WorkingInv, FinishingInv, VerifyInv DEF ProcessJob
<1>7. CASE WorkerCrash
  BY <1>1, <1>7, VerifyInv
<1>8. CASE Delete
  BY <1>1, <1>8, DeleteInv
<1>9. CASE LateWrite \/ UNCHANGED vars
  <2>1. UNCHANGED <<docStatus, jobStatus, submitPc, deletions, worker>>
    BY <1>9 DEF LateWrite, vars, repository, submissions
  <2> QED
    BY <1>1, <2>1 DEF IInv, JobDocumentAgree, SubmissionInv, Unborn, WorkerInv,
       OneRunningJob, NoStrandedJob, WorkerHolds, worker, CondemnedInv, DeletionInv,
       deletions
<1> QED
  BY <1>2, <1>3, <1>4, <1>5, <1>6, <1>7, <1>8, <1>9 DEF Next, WorkerStep

(***************************************************************************)
(* The theorems                                                            *)
(***************************************************************************)
\* The invariant of the submissions, the Worker and the deletions.
THEOREM Invariance == Spec => []IInv
<1>1. Init => IInv
  BY InitInv
<1>2. IInv /\ [Next]_vars => IInv'
  BY StepInv
<1> QED
  BY <1>1, <1>2, PTL DEF Spec

\* The model's variables keep their types.
THEOREM TypeCorrectness == Spec => []TypeOK
<1>1. IInv => TypeOK
  BY DEF IInv
<1> QED
  BY <1>1, Invariance, PTL

\* The job and the document of an upload never disagree, for any number of
\* uploads, deletions, crashes and restarts.
THEOREM RowsAgree == Spec => []JobDocumentAgree
<1>1. IInv => JobDocumentAgree
  BY DEF IInv
<1> QED
  BY <1>1, Invariance, PTL

\* No error path of the Worker strands a running job inside a live process.
THEOREM NothingStranded == Spec => []NoStrandedJob
<1>1. IInv => NoStrandedJob
  BY DEF IInv
<1> QED
  BY <1>1, Invariance, PTL

\* A deletion that stopped halfway can always be asked for again.
THEOREM DeletionsRepeatable == Spec => []DeletionCanBeRepeated
<1>1. IInv => DeletionCanBeRepeated
  BY DEF IInv, DeletionCanBeRepeated, CondemnedInv, JobDocumentAgree, DeletionAllowed,
     ActiveJobStatuses, TypeOK, DeletionTypeOK, RepositoryTypeOK, JobStatuses
<1> QED
  BY <1>1, Invariance, PTL

\* What a transaction may do to the rows of a document: create them, move a job
\* that has not ended, or remove them.
LEMMA TransactionsKeepOutcomes ==
  ASSUME TypeOK, NEW d \in Documents, NEW e \in Documents,
         jobStatus[d] \in {"ready", "failed"}, docStatus[d] = jobStatus[d],
         \/ UNCHANGED repository
         \/ create_document_and_job(e)
         \/ delete(e) \/ claim_next_job(e) \/ complete_job(e) \/ fail_job(e)
         \/ recover_running_jobs
  PROVE  /\ jobStatus'[d] \in {jobStatus[d], "absent"}
         /\ docStatus'[d] \in {docStatus[d], "absent"}
<1>1. CASE UNCHANGED repository \/ recover_running_jobs
  BY <1>1 DEF repository, recover_running_jobs, Recoverable, TypeOK, RepositoryTypeOK
<1>2. CASE create_document_and_job(e)
  BY <1>2 DEF create_document_and_job, InsertAllowed, TypeOK, RepositoryTypeOK
<1>3. CASE delete(e)
  BY <1>3 DEF delete, TypeOK, RepositoryTypeOK
<1>4. CASE claim_next_job(e) \/ complete_job(e) \/ fail_job(e)
  BY <1>4 DEF claim_next_job, Claimable, complete_job, fail_job, Finish, TypeOK,
     RepositoryTypeOK
<1> QED
  BY <1>1, <1>2, <1>3, <1>4

\* An ended job stays as it ended until it is deleted: no recovery, replay or
\* repeated commit reopens it.
THEOREM OutcomesFinal == Spec => TerminalIsFinal
<1> DEFINE Final == \A d \in Documents :
                      jobStatus[d] \in {"ready", "failed"}
                        => /\ jobStatus'[d] \in {jobStatus[d], "absent"}
                           /\ docStatus'[d] \in {docStatus[d], "absent"}
<1>1. IInv /\ [Next]_vars => [Final]_vars
  <2> SUFFICES ASSUME IInv, Next, NEW d \in Documents,
                      jobStatus[d] \in {"ready", "failed"}
               PROVE  /\ jobStatus'[d] \in {jobStatus[d], "absent"}
                      /\ docStatus'[d] \in {docStatus[d], "absent"}
    OBVIOUS
  <2>1. TypeOK /\ docStatus[d] = jobStatus[d]
    BY DEF IInv, JobDocumentAgree, ActiveJobStatuses
  <2>2. CASE UNCHANGED <<docStatus, jobStatus>>
    BY <2>2
  <2>3. CASE SubmitStep
    <3>1. PICK e \in Documents : SaveUpload(e) \/ BuildJob(e) \/ CommitJob(e)
                                 \/ RemoveStoredFile(e)
      BY <2>3 DEF SubmitStep
    <3>2. UNCHANGED <<docStatus, jobStatus>> \/ create_document_and_job(e)
      BY <3>1 DEF SaveUpload, BuildJob, CommitJob, RemoveStoredFile, repository
    <3> QED
      BY <2>1, <2>2, <3>2, TransactionsKeepOutcomes
  <2>4. CASE RecoverAbandonedJobs \/ ClaimNextJob
    <3>1. \/ UNCHANGED repository \/ recover_running_jobs
          \/ \E e \in Documents : claim_next_job(e)
      BY <2>4 DEF RecoverAbandonedJobs, ClaimNextJob
    <3> QED
      BY <2>1, <3>1, TransactionsKeepOutcomes
  <2>5. CASE ProcessJob
    <3>1. workerDoc \in Documents
      BY <2>5 DEF IInv, WorkerInv, JobPcs, ProcessJob, ReadDocument, CheckFile, PurgeVectors,
         LoadAndEmbed, UpsertChunks, CompleteJob, VerifyCompletion, CompensateVectors,
         CompensateFile, FailJob
    <3>2. UNCHANGED repository \/ complete_job(workerDoc) \/ fail_job(workerDoc)
      BY <2>5 DEF ProcessJob, ReadDocument, CheckFile, PurgeVectors, LoadAndEmbed,
         UpsertChunks, CompleteJob, VerifyCompletion, CompensateVectors, CompensateFile,
         FailJob
    <3> QED
      BY <2>1, <3>1, <3>2, TransactionsKeepOutcomes
  <2>6. CASE ApiCrash \/ WorkerCrash \/ RestartWorker \/ LateWrite
    BY <2>2, <2>6 DEF ApiCrash, WorkerCrash, RestartWorker, LateWrite, repository
  <2>7. CASE Delete
    <3>1. PICK r \in Requests :
            \/ \E e \in Documents : GetForDeletion(r, e)
            \/ DeleteVectors(r) \/ DeleteStoredFile(r) \/ DeleteRecord(r)
      BY <2>7 DEF Delete, DeletionStep
    <3>2. UNCHANGED repository \/ (deletePc[r] # "idle" /\ delete(deleteDoc[r]))
      BY <3>1 DEF GetForDeletion, DeleteVectors, DeleteStoredFile, DeleteRecord
    <3>3. deletePc[r] # "idle" => deleteDoc[r] \in Documents
      BY <2>1 DEF IInv, DeletionInv, TypeOK, DeletionTypeOK
    <3> QED
      BY <2>1, <3>2, <3>3, TransactionsKeepOutcomes
  <2> QED
    BY <2>3, <2>4, <2>5, <2>6, <2>7 DEF Next, WorkerStep
<1> QED
  BY <1>1, Invariance, PTL DEF Spec, TerminalIsFinal

(***************************************************************************)
(* Attempts and stored files                                               *)
(***************************************************************************)
\* Only three transactions move attempt_count, and no step moves the restarts
\* but the one that starts a process.
LEMMA StepClaims ==
  ASSUME IInv, ClaimsInv, [Next]_vars
  PROVE  ClaimsInv'
<1>1. TypeOK /\ restarts \in Nat
  BY MaxRestartsAssumption DEF IInv, TypeOK
<1>2. CASE /\ UNCHANGED <<jobStatus, attemptCount, restarts>>
           /\ workerPc' = "starting" => workerPc = "starting"
  BY <1>2 DEF ClaimsInv
<1>3. CASE SubmitStep
  <2>1. PICK d \in Documents : SaveUpload(d) \/ BuildJob(d) \/ CommitJob(d)
                               \/ RemoveStoredFile(d)
    BY <1>3 DEF SubmitStep
  <2>2. UNCHANGED <<worker, restarts>>
    BY <2>1 DEF SaveUpload, BuildJob, CommitJob, RemoveStoredFile
  <2>3. UNCHANGED <<jobStatus, attemptCount>> \/ create_document_and_job(d)
    BY <2>1 DEF SaveUpload, BuildJob, CommitJob, RemoveStoredFile, repository
  <2>4. QED
    BY <1>1, <1>2, <2>2, <2>3
    DEF ClaimsInv, create_document_and_job, worker, TypeOK, RepositoryTypeOK
<1>4. CASE RecoverAbandonedJobs
  <2>1. /\ UNCHANGED <<attemptCount, restarts>>
        /\ workerPc = "starting" /\ workerPc' # "starting"
        /\ \A d \in Documents : \/ jobStatus'[d] = jobStatus[d]
                                \/ jobStatus[d] = "running" /\ jobStatus'[d] = "pending"
    BY <1>4 DEF RecoverAbandonedJobs, recover_running_jobs, Recoverable, WorkerLeaves,
       repository, outsideWorker
  <2>2. QED
    BY <2>1 DEF ClaimsInv
<1>5. CASE ClaimNextJob
  <2>1. UNCHANGED restarts /\ workerPc' # "starting"
    BY <1>5 DEF ClaimNextJob, WorkerLeaves, outsideWorker
  <2>2. \/ UNCHANGED <<jobStatus, attemptCount>>
        \/ \E d \in Documents : claim_next_job(d)
    BY <1>5 DEF ClaimNextJob, repository
  <2>3. QED
    BY <1>1, <2>1, <2>2
    DEF ClaimsInv, claim_next_job, Claimable, TypeOK, RepositoryTypeOK
<1>6. CASE ProcessJob
  <2>1. UNCHANGED restarts /\ workerPc' # "starting" /\ workerDoc \in Documents
    BY <1>6 DEF ProcessJob, ReadDocument, CheckFile, PurgeVectors, LoadAndEmbed,
       UpsertChunks, CompleteJob, VerifyCompletion, CompensateVectors, CompensateFile,
       FailJob, WorkerAt, WorkerLeaves, outsideWorker, IInv, WorkerInv, JobPcs
  <2>2. \/ UNCHANGED <<jobStatus, attemptCount>>
        \/ complete_job(workerDoc) \/ fail_job(workerDoc)
    BY <1>6 DEF ProcessJob, ReadDocument, CheckFile, PurgeVectors, LoadAndEmbed,
       UpsertChunks, CompleteJob, VerifyCompletion, CompensateVectors, CompensateFile,
       FailJob, repository
  <2>3. QED
    BY <1>1, <2>1, <2>2 DEF ClaimsInv, complete_job, fail_job, Finish, TypeOK,
       RepositoryTypeOK
<1>7. CASE RestartWorker
  <2>1. /\ UNCHANGED <<jobStatus, attemptCount>>
        /\ restarts' = restarts + 1
    BY <1>7 DEF RestartWorker, repository
  <2>2. QED
    BY <1>1, <2>1 DEF ClaimsInv, TypeOK, RepositoryTypeOK
<1>8. CASE Delete
  <2>1. PICK r \in Requests :
          \/ \E d \in Documents : GetForDeletion(r, d)
          \/ DeleteVectors(r) \/ DeleteStoredFile(r) \/ DeleteRecord(r)
    BY <1>8 DEF Delete, DeletionStep
  <2>2. UNCHANGED <<worker, restarts>>
    BY <1>8 DEF Delete
  <2>3. \/ UNCHANGED <<jobStatus, attemptCount>>
        \/ deletePc[r] # "idle" /\ delete(deleteDoc[r])
    BY <2>1 DEF GetForDeletion, DeleteVectors, DeleteStoredFile, DeleteRecord, repository
  <2>4. deletePc[r] # "idle" => deleteDoc[r] \in Documents
    BY <1>1 DEF IInv, DeletionInv, TypeOK, DeletionTypeOK
  <2>5. QED
    BY <1>1, <1>2, <2>2, <2>3, <2>4 DEF ClaimsInv, delete, worker, TypeOK, RepositoryTypeOK
<1>9. CASE ApiCrash \/ WorkerCrash \/ LateWrite \/ UNCHANGED vars
  BY <1>2, <1>9 DEF ApiCrash, WorkerCrash, LateWrite, WorkerLeaves, vars, repository,
     worker, outsideWorker
<1>10. QED
  BY <1>3, <1>4, <1>5, <1>6, <1>7, <1>8, <1>9 DEF Next, WorkerStep

\* A process claims a job at most once.
THEOREM ClaimsBounded == Spec => []AttemptsBounded
<1>1. Init => ClaimsInv
  <2> SUFFICES ASSUME Init, NEW d \in Documents
               PROVE  /\ attemptCount[d] <= restarts + 1
                      /\ attemptCount[d] <= restarts
    BY DEF ClaimsInv
  <2>1. attemptCount[d] = 0 /\ restarts = 0
    BY DEF Init, RepositoryInit
  <2> QED
    BY <2>1
<1>2. IInv /\ ClaimsInv /\ [Next]_vars => ClaimsInv'
  BY StepClaims
<1>3. ClaimsInv => AttemptsBounded
  BY DEF ClaimsInv, AttemptsBounded
<1>4. QED
  BY <1>1, <1>2, <1>3, Invariance, PTL DEF Spec

\* The steps that remove a stored file are those of a submit that failed, of a
\* failed job and of a deletion; each removes the file of its own document.
LEMMA StepSource ==
  ASSUME IInv, SourceInv, [Next]_vars
  PROVE  SourceInv'
<1>1. TypeOK
  BY DEF IInv
<1>2. CASE SubmitStep
  <2>1. PICK d \in Documents : SaveUpload(d) \/ BuildJob(d) \/ CommitJob(d)
                               \/ RemoveStoredFile(d)
    BY <1>2 DEF SubmitStep
  <2>2. UNCHANGED <<worker, condemned>>
    BY <2>1 DEF SaveUpload, BuildJob, CommitJob, RemoveStoredFile, deletions
  <2>3. /\ \A e \in files : e \in files' \/ (e = d /\ submitPc'[e] = "rejected")
        /\ \A e \in Documents : submitPc[e] = "rejected" => submitPc'[e] = "rejected"
    BY <1>1, <2>1 DEF SaveUpload, BuildJob, CommitJob, RemoveStoredFile, SubmitAt, TypeOK
  <2>4. \A e \in Documents : docStatus'[e] = "ready" => docStatus[e] = "ready"
    BY <1>1, <2>1 DEF SaveUpload, BuildJob, CommitJob, RemoveStoredFile, repository,
       create_document_and_job, TypeOK, RepositoryTypeOK
  <2>5. workerPc \in {"upsert", "complete"} => workerDoc \in Documents
    BY DEF IInv, WorkerInv, JobPcs
  <2>6. QED
    BY <2>2, <2>3, <2>4, <2>5 DEF SourceInv, worker
<1>3. CASE ApiCrash
  <2>1. /\ UNCHANGED <<docStatus, files, worker, condemned>>
        /\ \A e \in Documents : submitPc[e] = "rejected" => submitPc'[e] = "rejected"
    BY <1>3 DEF ApiCrash, DeletionsVanish, repository
  <2>2. workerPc \in {"upsert", "complete"} => workerDoc \in Documents
    BY DEF IInv, WorkerInv, JobPcs
  <2>3. QED
    BY <2>1, <2>2 DEF SourceInv, worker
<1>4. CASE \/ ReadDocument \/ CheckFile \/ PurgeVectors \/ LoadAndEmbed \/ UpsertChunks
           \/ CompensateVectors
  <2>1. UNCHANGED <<docStatus, files, submitPc, condemned, workerDoc>>
    BY <1>4 DEF ReadDocument, CheckFile, PurgeVectors, LoadAndEmbed, UpsertChunks,
       CompensateVectors, WorkerAt, repository, outsideWorker, submissions, deletions
  <2>2. \/ workerPc' \notin {"upsert", "complete"}
        \/ workerPc = "load" /\ workerDoc \in files
        \/ workerPc = "upsert"
    BY <1>4 DEF ReadDocument, CheckFile, PurgeVectors, LoadAndEmbed, UpsertChunks,
       CompensateVectors, WorkerAt
  <2>3. QED
    BY <2>1, <2>2 DEF SourceInv
<1>5. CASE CompensateFile
  <2>1. docStatus[workerDoc] = "processing" /\ workerDoc \in Documents
    BY <1>5 DEF CompensateFile, IInv, WorkerInv, JobDocumentAgree, JobPcs, ActiveJobStatuses
  <2>2. /\ UNCHANGED <<docStatus, submitPc, condemned>>
        /\ workerPc' = "fail"
        /\ files \ {workerDoc} \subseteq files'
    BY <1>5 DEF CompensateFile, WorkerAt, repository, outsideWorker, submissions, deletions
  <2>3. QED
    BY <2>1, <2>2 DEF SourceInv
<1>6. CASE CompleteJob \/ VerifyCompletion \/ FailJob
  <2>1. /\ UNCHANGED <<files, submitPc, condemned>>
        /\ workerPc' \notin {"upsert", "complete"}
    BY <1>6 DEF CompleteJob, VerifyCompletion, FailJob, WorkerAt, WorkerLeaves,
       outsideWorker, submissions, deletions
  <2>2. \/ UNCHANGED docStatus
        \/ docStatus' = [docStatus EXCEPT ![workerDoc] = "failed"]
        \/ /\ workerPc = "complete"
           /\ docStatus' = [docStatus EXCEPT ![workerDoc] = "ready"]
    BY <1>6 DEF CompleteJob, VerifyCompletion, FailJob, complete_job, fail_job, Finish,
       repository
  <2>3. \A e \in Documents : docStatus'[e] = "ready"
                              => docStatus[e] = "ready" \/ (workerPc = "complete" /\ e = workerDoc)
    BY <1>1, <2>2 DEF TypeOK, RepositoryTypeOK
  <2>4. QED
    BY <2>1, <2>3 DEF SourceInv
<1>7. CASE RecoverAbandonedJobs \/ ClaimNextJob \/ WorkerCrash \/ RestartWorker
  <2>1. /\ UNCHANGED <<docStatus, files, submitPc, condemned>>
        /\ workerPc' \notin {"upsert", "complete"}
    BY <1>7 DEF RecoverAbandonedJobs, ClaimNextJob, WorkerCrash, RestartWorker,
       recover_running_jobs, claim_next_job, WorkerLeaves, repository, outsideWorker,
       submissions, deletions
  <2>2. QED
    BY <2>1 DEF SourceInv
<1>8. CASE Delete
  <2>1. PICK r \in Requests :
          \/ \E d \in Documents : GetForDeletion(r, d)
          \/ DeleteVectors(r) \/ DeleteStoredFile(r) \/ DeleteRecord(r)
    BY <1>8 DEF Delete, DeletionStep
  <2>2. UNCHANGED <<worker, submitPc>>
    BY <1>8 DEF Delete, submissions
  <2>3. condemned \subseteq condemned'
    BY <2>1 DEF GetForDeletion, DeleteVectors, DeleteStoredFile, DeleteRecord,
       DeletionAt, EndDeletion
  <2>4. deletePc[r] # "idle" => deleteDoc[r] \in condemned /\ deleteDoc[r] \in Documents
    BY <1>1 DEF IInv, DeletionInv, TypeOK, DeletionTypeOK
  <2>5. files \ condemned \subseteq files'
    BY <2>1, <2>4 DEF GetForDeletion, DeleteVectors, DeleteStoredFile, DeleteRecord
  <2>6. UNCHANGED docStatus \/ (deletePc[r] # "idle" /\ delete(deleteDoc[r]))
    BY <2>1 DEF GetForDeletion, DeleteVectors, DeleteStoredFile, DeleteRecord, repository
  <2>7. \A e \in Documents : docStatus'[e] = "ready" => docStatus[e] = "ready"
    BY <1>1, <2>4, <2>6 DEF delete, TypeOK, RepositoryTypeOK
  <2>8. workerPc \in {"upsert", "complete"} => workerDoc \notin condemned
    BY DEF IInv, WorkerInv, CondemnedInv, JobPcs, ActiveJobStatuses
  <2>9. QED
    BY <2>2, <2>3, <2>5, <2>7, <2>8 DEF SourceInv, worker
<1>9. CASE LateWrite \/ UNCHANGED vars
  BY <1>9 DEF LateWrite, vars, repository, worker, submissions, deletions, SourceInv
<1>10. QED
  BY <1>2, <1>3, <1>4, <1>5, <1>6, <1>7, <1>8, <1>9 DEF Next, WorkerStep, ProcessJob

\* No compensation of the Worker and no rollback of submit removes the file of
\* a document that is served, unless submit reported its upload as failed.
THEOREM SourcesKept == Spec => []ReadySourceKept
<1>1. Init => SourceInv
  BY DEF Init, RepositoryInit, SourceInv
<1>2. IInv /\ SourceInv /\ [Next]_vars => SourceInv'
  BY StepSource
<1>3. SourceInv => ReadySourceKept
  BY DEF SourceInv, ReadySourceKept
<1>4. QED
  BY <1>1, <1>2, <1>3, Invariance, PTL DEF Spec

(***************************************************************************)
(* Refinement of IngestionLifecycle                                        *)
(***************************************************************************)
phases == [d \in Documents |-> Phase(d)]

\* A document whose rows did not change, and on which no deletion was newly
\* allowed, is where it was.
LEMMA SamePhase ==
  ASSUME NEW d, docStatus'[d] = docStatus[d], jobStatus'[d] = jobStatus[d],
         d \in condemned' <=> d \in condemned
  PROVE  Phase(d)' = Phase(d)
  BY DEF Phase

LEMMA Stutters ==
  ASSUME UNCHANGED <<docStatus, jobStatus, condemned>>
  PROVE  UNCHANGED phases
  BY SamePhase DEF phases

\* The phase of a document read from its rows.
LEMMA PhaseOf ==
  ASSUME NEW d
  PROVE  /\ docStatus[d] = "absent" /\ d \notin condemned => Phase(d) = "none"
         /\ docStatus[d] = "absent" /\ d \in condemned => Phase(d) = "deleted"
         /\ docStatus[d] # "absent" /\ d \in condemned => Phase(d) = "condemned"
         /\ docStatus[d] # "absent" /\ d \notin condemned => Phase(d) = jobStatus[d]
  BY DEF Phase

\* One document moves and the others stay.
LEMMA OneMoves ==
  ASSUME NEW d \in Documents, NEW from, NEW to,
         Phase(d) = from, Phase(d)' = to,
         \A e \in Documents \ {d} : Phase(e)' = Phase(e)
  PROVE  Lifecycle!Move(d, from, to)
  BY DEF Lifecycle!Move

LEMMA LifecycleInit == Init => Lifecycle!Init
  BY DEF Init, RepositoryInit, DeletionInit, Lifecycle!Init, Phase

LEMMA AcceptStep ==
  ASSUME IInv, NEW d \in Documents, CommitJob(d), create_document_and_job(d)
  PROVE  Lifecycle!Accept(d)
<1>1. /\ d \notin condemned /\ condemned' = condemned
      /\ docStatus[d] = "absent"
      /\ docStatus' = [docStatus EXCEPT ![d] = "processing"]
      /\ jobStatus' = [jobStatus EXCEPT ![d] = "pending"]
  BY DEF IInv, SubmissionInv, Unborn, CommitJob, create_document_and_job, InsertAllowed,
     deletions
<1>2. /\ docStatus \in [Documents -> DocumentStatuses \union {"absent"}]
      /\ jobStatus \in [Documents -> JobStatuses \union {"absent"}]
  BY DEF IInv, TypeOK, RepositoryTypeOK
<1>3. Phase(d) = "none" /\ Phase(d)' = "pending"
  BY <1>1, <1>2 DEF Phase
<1>4. \A e \in Documents \ {d} : Phase(e)' = Phase(e)
  BY <1>1, <1>2, SamePhase
<1>5. \A e \in Documents : Phase(e) \notin {"none", "deleted"} => Sha256[e] # Sha256[d]
  BY PhaseOf DEF create_document_and_job, InsertAllowed
<1>6. QED
  BY <1>3, <1>4, <1>5, OneMoves DEF Lifecycle!Accept

LEMMA RequeueStep ==
  ASSUME IInv, recover_running_jobs, UNCHANGED condemned
  PROVE  (\E d \in Documents : Lifecycle!Requeue(d)) \/ UNCHANGED phases
<1>1. /\ docStatus' = docStatus
      /\ jobStatus' = [d \in Documents |->
                         IF jobStatus[d] = "running" THEN "pending" ELSE jobStatus[d]]
  BY DEF IInv, JobDocumentAgree, ActiveJobStatuses, recover_running_jobs, Recoverable
<1>2. CASE \A d \in Documents : jobStatus[d] # "running"
  BY <1>1, <1>2, SamePhase DEF phases
<1>3. CASE \E d \in Documents : jobStatus[d] = "running"
  <2>1. PICK d \in Documents : jobStatus[d] = "running"
    BY <1>3
  <2>2. d \notin condemned /\ docStatus[d] = "processing"
    BY <2>1 DEF IInv, CondemnedInv, JobDocumentAgree, ActiveJobStatuses
  <2>3. Phase(d) = "running" /\ Phase(d)' = "pending"
    BY <1>1, <2>1, <2>2 DEF Phase
  <2>4. \A e \in Documents \ {d} : jobStatus'[e] = jobStatus[e]
    BY <1>1, <2>1 DEF IInv, OneRunningJob
  <2>5. \A e \in Documents \ {d} : Phase(e)' = Phase(e)
    BY <1>1, <2>4, SamePhase
  <2>6. QED
    BY <2>3, <2>5, OneMoves DEF Lifecycle!Requeue
<1>4. QED
  BY <1>2, <1>3

LEMMA StartStep ==
  ASSUME IInv, NEW d \in Documents, ClaimNextJob, claim_next_job(d)
  PROVE  Lifecycle!Start(d)
<1>1. /\ docStatus' = docStatus /\ condemned' = condemned
      /\ docStatus[d] = "processing" /\ jobStatus[d] = "pending"
      /\ jobStatus' = [jobStatus EXCEPT ![d] = "running"]
  BY DEF ClaimNextJob, claim_next_job, Claimable, outsideWorker, deletions
<1>2. jobStatus \in [Documents -> JobStatuses \union {"absent"}]
  BY DEF IInv, TypeOK, RepositoryTypeOK
<1>3. d \notin condemned
  BY <1>1 DEF IInv, CondemnedInv, ActiveJobStatuses
<1>4. \A e \in Documents : Phase(e) # "running"
  <2>1. \A e \in Documents : jobStatus[e] # "running"
    BY DEF IInv, NoStrandedJob, WorkerHolds, ClaimNextJob, JobPcs
  <2>2. QED
    BY <2>1, PhaseOf
<1>5. Phase(d) = "pending" /\ Phase(d)' = "running"
  BY <1>1, <1>2, <1>3 DEF Phase
<1>6. \A e \in Documents \ {d} : Phase(e)' = Phase(e)
  BY <1>1, <1>2, SamePhase
<1>7. QED
  BY <1>4, <1>5, <1>6, OneMoves DEF Lifecycle!Start

LEMMA FinishStep ==
  ASSUME IInv, NEW d \in Documents, complete_job(d) \/ fail_job(d), UNCHANGED condemned
  PROVE  Lifecycle!Finish(d)
<1>1. PICK status \in {"ready", "failed"} :
        /\ docStatus[d] = "processing" /\ jobStatus[d] = "running"
        /\ docStatus' = [docStatus EXCEPT ![d] = status]
        /\ jobStatus' = [jobStatus EXCEPT ![d] = status]
  BY DEF complete_job, fail_job, Finish
<1>2. /\ docStatus \in [Documents -> DocumentStatuses \union {"absent"}]
      /\ jobStatus \in [Documents -> JobStatuses \union {"absent"}]
  BY DEF IInv, TypeOK, RepositoryTypeOK
<1>3. d \notin condemned
  BY <1>1 DEF IInv, CondemnedInv, ActiveJobStatuses
<1>4. Phase(d) = "running" /\ Phase(d)' = status
  BY <1>1, <1>2, <1>3 DEF Phase
<1>5. \A e \in Documents \ {d} : Phase(e)' = Phase(e)
  BY <1>1, <1>2, SamePhase
<1>6. Lifecycle!Move(d, "running", status)
  BY <1>4, <1>5, OneMoves
<1>7. QED
  BY <1>6 DEF Lifecycle!Finish

\* A second deletion of a condemned document changes nothing a client was told.
LEMMA CondemnStep ==
  ASSUME IInv, NEW r \in Requests, NEW d \in Documents, GetForDeletion(r, d)
  PROVE  Lifecycle!Condemn(d) \/ UNCHANGED phases
<1>1. /\ UNCHANGED <<docStatus, jobStatus>>
      /\ condemned' = condemned \union {d}
      /\ docStatus[d] # "absent" /\ jobStatus[d] \notin ActiveJobStatuses
  BY DEF GetForDeletion, DeletionAllowed, repository
<1>2. CASE d \in condemned
  BY <1>1, <1>2, Stutters
<1>3. CASE d \notin condemned
  <2>1. jobStatus[d] \in {"ready", "failed"}
    BY <1>1 DEF IInv, JobDocumentAgree, TypeOK, RepositoryTypeOK, JobStatuses,
       ActiveJobStatuses
  <2>2. Phase(d) = jobStatus[d] /\ Phase(d)' = "condemned"
    BY <1>1, <1>3 DEF Phase
  <2>3. \A e \in Documents \ {d} : Phase(e)' = Phase(e)
    BY <1>1, SamePhase
  <2>4. Lifecycle!Move(d, jobStatus[d], "condemned")
    BY <2>2, <2>3, OneMoves
  <2>5. QED
    BY <2>1, <2>4 DEF Lifecycle!Condemn
<1>4. QED
  BY <1>2, <1>3

LEMMA RemoveStep ==
  ASSUME IInv, NEW d \in Documents, d \in condemned, delete(d), UNCHANGED condemned
  PROVE  Lifecycle!Remove(d)
<1>1. /\ docStatus[d] # "absent"
      /\ docStatus' = [docStatus EXCEPT ![d] = "absent"]
      /\ jobStatus' = [jobStatus EXCEPT ![d] = "absent"]
  BY DEF delete
<1>2. /\ docStatus \in [Documents -> DocumentStatuses \union {"absent"}]
      /\ jobStatus \in [Documents -> JobStatuses \union {"absent"}]
  BY DEF IInv, TypeOK, RepositoryTypeOK
<1>3. Phase(d) = "condemned" /\ Phase(d)' = "deleted"
  BY <1>1, <1>2 DEF Phase
<1>4. \A e \in Documents \ {d} : Phase(e)' = Phase(e)
  BY <1>1, <1>2, SamePhase
<1>5. QED
  BY <1>3, <1>4, OneMoves DEF Lifecycle!Remove

LEMMA LifecycleStep ==
  ASSUME IInv, [Next]_vars
  PROVE  [Lifecycle!Next]_phases
<1>1. CASE UNCHANGED <<docStatus, jobStatus, condemned>>
  BY <1>1, Stutters
<1>2. CASE SubmitStep
  <2>1. PICK d \in Documents : SaveUpload(d) \/ BuildJob(d) \/ CommitJob(d)
                               \/ RemoveStoredFile(d)
    BY <1>2 DEF SubmitStep
  <2>2. CASE CommitJob(d) /\ create_document_and_job(d)
    BY <2>2, AcceptStep DEF Lifecycle!Next
  <2>3. CASE ~(CommitJob(d) /\ create_document_and_job(d))
    BY <1>1, <2>1, <2>3 DEF SaveUpload, BuildJob, CommitJob, RemoveStoredFile, repository,
       deletions
  <2>4. QED
    BY <2>2, <2>3
<1>3. CASE RecoverAbandonedJobs
  <2>1. UNCHANGED condemned /\ (recover_running_jobs \/ UNCHANGED repository)
    BY <1>3 DEF RecoverAbandonedJobs, outsideWorker, deletions
  <2>2. QED
    BY <1>1, <2>1, RequeueStep DEF Lifecycle!Next, repository
<1>4. CASE ClaimNextJob
  <2>1. \/ \E d \in Documents : claim_next_job(d)
        \/ UNCHANGED <<docStatus, jobStatus, condemned>>
    BY <1>4 DEF ClaimNextJob, repository, outsideWorker, deletions
  <2>2. QED
    BY <1>1, <1>4, <2>1, StartStep DEF Lifecycle!Next
<1>5. CASE ProcessJob
  <2>1. workerDoc \in Documents /\ UNCHANGED condemned
    BY <1>5 DEF IInv, WorkerInv, JobPcs, ProcessJob, ReadDocument, CheckFile, PurgeVectors,
       LoadAndEmbed, UpsertChunks, CompleteJob, VerifyCompletion, CompensateVectors,
       CompensateFile, FailJob, outsideWorker, deletions
  <2>2. UNCHANGED repository \/ complete_job(workerDoc) \/ fail_job(workerDoc)
    BY <1>5 DEF ProcessJob, ReadDocument, CheckFile, PurgeVectors, LoadAndEmbed,
       UpsertChunks, CompleteJob, VerifyCompletion, CompensateVectors, CompensateFile,
       FailJob
  <2>3. CASE UNCHANGED repository
    BY <1>1, <2>1, <2>3 DEF repository
  <2>4. CASE complete_job(workerDoc) \/ fail_job(workerDoc)
    BY <2>1, <2>4, FinishStep DEF Lifecycle!Next
  <2>5. QED
    BY <2>2, <2>3, <2>4
<1>6. CASE Delete
  <2>1. PICK r \in Requests :
          \/ \E d \in Documents : GetForDeletion(r, d)
          \/ DeleteVectors(r) \/ DeleteStoredFile(r) \/ DeleteRecord(r)
    BY <1>6 DEF Delete, DeletionStep
  <2>2. CASE \E d \in Documents : GetForDeletion(r, d)
    BY <2>2, CondemnStep DEF Lifecycle!Next
  <2>3. CASE DeleteVectors(r) \/ DeleteStoredFile(r) \/ DeleteRecord(r)
    <3>1. UNCHANGED condemned /\ deletePc[r] # "idle"
      BY <2>3 DEF DeleteVectors, DeleteStoredFile, DeleteRecord, DeletionAt, EndDeletion
    <3>2. deleteDoc[r] \in condemned /\ deleteDoc[r] \in Documents
      BY <3>1 DEF IInv, DeletionInv, TypeOK, DeletionTypeOK
    <3>3. UNCHANGED repository \/ delete(deleteDoc[r])
      BY <2>3 DEF DeleteVectors, DeleteStoredFile, DeleteRecord
    <3>4. CASE UNCHANGED repository
      BY <1>1, <3>1, <3>4 DEF repository
    <3>5. CASE delete(deleteDoc[r])
      BY <3>1, <3>2, <3>5, RemoveStep DEF Lifecycle!Next
    <3>6. QED
      BY <3>3, <3>4, <3>5
  <2>4. QED
    BY <2>1, <2>2, <2>3
<1>7. CASE ApiCrash \/ WorkerCrash \/ RestartWorker \/ LateWrite \/ UNCHANGED vars
  BY <1>1, <1>7 DEF ApiCrash, DeletionsVanish, WorkerCrash, RestartWorker, LateWrite, vars,
     repository, outsideWorker, deletions
<1>8. QED
  BY <1>2, <1>3, <1>4, <1>5, <1>6, <1>7 DEF Next, WorkerStep

\* The two processes, with all their failures, crashes and restarts, implement
\* the lifecycle that clients are promised.
THEOREM Implementation == Spec => ImplementsLifecycle
<1>1. IInv /\ [Next]_vars => [Lifecycle!Next]_phases
  BY LifecycleStep
<1>2. QED
  BY <1>1, LifecycleInit, Invariance, PTL
  DEF Spec, ImplementsLifecycle, Lifecycle!Spec, phases

(***************************************************************************)
(* Qdrant: a ready document is answered from exactly the chunks of the     *)
(* attempt that completed and a deleted one leaves no chunks, as long as   *)
(* Qdrant applies no request after its caller gave up.                     *)
(***************************************************************************)
\* While the Worker works on a job, its document is neither ready nor in the
\* hands of a deletion.
LEMMA JobInHand ==
  ASSUME IInv, workerPc \in JobPcs \ {"verify"}
  PROVE  /\ workerDoc \in Documents
         /\ docStatus[workerDoc] = "processing"
         /\ workerDoc \notin condemned
         /\ ~Unborn(workerDoc)
         /\ \A r \in Requests : deletePc[r] # "idle" => deleteDoc[r] # workerDoc
  BY DEF IInv, WorkerInv, JobDocumentAgree, CondemnedInv, DeletionInv, ActiveJobStatuses

\* A step keeps Indexed when each document that is ready after it was
\* ready before it, with the same points and the same attempt_count.
LEMMA KeepsIndexed ==
  ASSUME Indexed,
         \A d \in Documents :
           docStatus'[d] = "ready" /\ d \notin condemned' =>
             /\ docStatus[d] = "ready" /\ d \notin condemned
             /\ vectors'[d] = vectors[d] /\ attemptCount'[d] = attemptCount[d]
  PROVE  Indexed'
  BY DEF Indexed, Points

\* The requests that raise change at most the points of their own document.
LEMMA RaisingRequests ==
  ASSUME ~timedOut', TypeOK, NEW d \in Documents, NEW n \in Nat,
         DeleteRaises(d) \/ UpsertRaises(d, n) \/ delete_by_document(d) \/ upsert(d, n)
  PROVE  UNCHANGED inflight /\ \A e \in Documents \ {d} : vectors'[e] = vectors[e]
  BY DEF TypeOK, VectorStoreTypeOK, DeleteRaises, UpsertRaises, delete_by_document, upsert,
     TimeOut, vectorStore

LEMMA SubmitIndexed ==
  ASSUME IndexInv, NEW d \in Documents,
         SaveUpload(d) \/ BuildJob(d) \/ CommitJob(d) \/ RemoveStoredFile(d)
  PROVE  AttemptInv' /\ Indexed'
<1>1. UNCHANGED <<vectors, inflight, condemned, workerPc, workerDoc, attempt>>
  BY DEF SaveUpload, BuildJob, CommitJob, RemoveStoredFile, vectorStore, deletions, worker
<1>2. \/ UNCHANGED <<docStatus, attemptCount>>
      \/ /\ Unborn(d)
         /\ docStatus' = [docStatus EXCEPT ![d] = "processing"]
         /\ attemptCount' = [attemptCount EXCEPT ![d] = 0]
  BY DEF SaveUpload, BuildJob, CommitJob, RemoveStoredFile, repository,
     create_document_and_job, Unborn
<1>3. \A e \in Documents \ {d} :
        docStatus'[e] = docStatus[e] /\ attemptCount'[e] = attemptCount[e]
  BY <1>2 DEF IndexInv, IInv, TypeOK, RepositoryTypeOK
<1>4. Indexed'
  BY <1>1, <1>2, <1>3, KeepsIndexed DEF IndexInv, IInv, TypeOK, RepositoryTypeOK
<1>5. CASE workerPc \in JobPcs \ {"verify"}
  <2>1. attemptCount'[workerDoc] = attemptCount[workerDoc]
    BY <1>2, <1>3, <1>5, JobInHand DEF IndexInv
  <2>2. QED
    BY <1>1, <1>4, <2>1 DEF IndexInv, AttemptInv, Points
<1>6. CASE workerPc \notin JobPcs \ {"verify"}
  BY <1>1, <1>4, <1>6 DEF IndexInv, AttemptInv, JobPcs, Points
<1>7. QED
  BY <1>5, <1>6

LEMMA ProcessJobIndexed ==
  ASSUME ~timedOut', IndexInv, ProcessJob
  PROVE  AttemptInv' /\ Indexed'
<1>1. /\ IInv /\ TypeOK /\ Indexed /\ AttemptInv /\ inflight = {}
      /\ attempt \in Nat
  BY DEF IndexInv, IInv, TypeOK, AttemptInv
<1>2. CASE ReadDocument \/ CheckFile \/ LoadAndEmbed \/ CompensateFile
  <2>1. UNCHANGED <<repository, vectorStore, deletions, workerDoc, attempt>>
    BY <1>2 DEF ReadDocument, CheckFile, LoadAndEmbed, CompensateFile, WorkerAt,
       outsideWorker
  <2>2. /\ workerPc \in JobPcs \ {"verify"}
        /\ workerPc' \in JobPcs \ {"load", "complete", "verify"}
        /\ workerPc' = "upsert" => workerPc = "load"
    BY <1>2 DEF ReadDocument, CheckFile, LoadAndEmbed, CompensateFile, WorkerAt, JobPcs
  <2>3. QED
    BY <1>1, <2>1, <2>2, KeepsIndexed
    DEF AttemptInv, repository, vectorStore, deletions
<1>3. CASE PurgeVectors \/ UpsertChunks \/ CompensateVectors
  <2>1. /\ UNCHANGED <<repository, deletions, workerDoc, attempt>>
        /\ workerPc \in JobPcs \ {"verify"}
    BY <1>3 DEF PurgeVectors, UpsertChunks, CompensateVectors, WorkerAt, outsideWorker,
       JobPcs
  <2>2. workerDoc \in Documents /\ docStatus[workerDoc] = "processing"
    BY <1>1, <2>1, JobInHand
  <2>3. /\ UNCHANGED inflight
        /\ \A e \in Documents \ {workerDoc} : vectors'[e] = vectors[e]
    BY <1>1, <1>3, <2>2, RaisingRequests DEF PurgeVectors, UpsertChunks, CompensateVectors
  <2>4. Indexed'
    BY <1>1, <2>1, <2>2, <2>3, KeepsIndexed DEF repository, deletions
  <2>5. \/ workerPc' \in {"compensate_vectors", "compensate_file"}
        \/ workerPc' = "load" /\ delete_by_document(workerDoc)
        \/ workerPc = "upsert" /\ workerPc' = "complete" /\ upsert(workerDoc, attempt)
    BY <1>3 DEF PurgeVectors, UpsertChunks, CompensateVectors, WorkerAt
  <2>6. workerPc' = "load" => vectors'[workerDoc] = {}
    BY <1>1, <2>2, <2>5 DEF delete_by_document, TypeOK, VectorStoreTypeOK
  <2>7. workerPc' = "complete" => vectors'[workerDoc] = Points(attempt)
    BY <1>1, <2>2, <2>5 DEF upsert, AttemptInv, TypeOK, VectorStoreTypeOK
  <2>8. attempt' = attemptCount'[workerDoc'] /\ inflight' = {}
    BY <1>1, <2>1, <2>3 DEF AttemptInv, repository
  <2>9. AttemptInv'
    BY <2>1, <2>5, <2>6, <2>7, <2>8 DEF AttemptInv, Points
  <2>10. QED
    BY <2>4, <2>9
<1>4. CASE CompleteJob \/ VerifyCompletion \/ FailJob
  <2>1. /\ UNCHANGED <<vectorStore, deletions, attemptCount>>
        /\ workerPc' \in {"idle", "down", "verify"}
    BY <1>4 DEF CompleteJob, VerifyCompletion, FailJob, WorkerAt, WorkerLeaves,
       outsideWorker, complete_job, fail_job, Finish, repository
  <2>2. AttemptInv'
    BY <1>1, <2>1 DEF AttemptInv, JobPcs, vectorStore
  <2>3. \/ UNCHANGED docStatus
        \/ /\ workerPc \in {"complete", "fail"}
           /\ docStatus' = [docStatus EXCEPT ![workerDoc] = "failed"]
        \/ /\ workerPc = "complete"
           /\ docStatus' = [docStatus EXCEPT ![workerDoc] = "ready"]
    BY <1>4 DEF CompleteJob, VerifyCompletion, FailJob, complete_job, fail_job, Finish,
       repository
  <2>4. CASE UNCHANGED docStatus
    BY <1>1, <2>1, <2>4, KeepsIndexed DEF vectorStore, deletions, AttemptInv, JobPcs
  <2>5. CASE docStatus' = [docStatus EXCEPT ![workerDoc] = "failed"]
    <3>1. \A d \in Documents : docStatus'[d] = "ready" => docStatus[d] = "ready"
      BY <1>1, <2>5 DEF TypeOK, RepositoryTypeOK
    <3>2. QED
      BY <1>1, <2>1, <2>2, <3>1, KeepsIndexed DEF vectorStore, deletions
  <2>6. CASE /\ workerPc = "complete"
             /\ docStatus' = [docStatus EXCEPT ![workerDoc] = "ready"]
    <3>1. vectors[workerDoc] = Points(attemptCount[workerDoc])
      BY <1>1, <2>6 DEF AttemptInv, JobPcs
    <3>2. \A d \in Documents \ {workerDoc} : docStatus'[d] = docStatus[d]
      BY <1>1, <2>6 DEF TypeOK, RepositoryTypeOK
    <3>3. Indexed'
      BY <1>1, <2>1, <3>1, <3>2 DEF Indexed, vectorStore, deletions, Points
    <3>4. QED
      BY <2>2, <3>3
  <2>7. QED
    BY <2>3, <2>4, <2>5, <2>6
<1>5. QED
  BY <1>2, <1>3, <1>4 DEF ProcessJob

\* Starting, claiming, dying and restarting leave every ready document alone.
LEMMA WorkerIndexed ==
  ASSUME ~timedOut', IndexInv,
         RecoverAbandonedJobs \/ ClaimNextJob \/ WorkerCrash \/ RestartWorker
  PROVE  AttemptInv' /\ Indexed'
<1>1. /\ IInv /\ TypeOK /\ Indexed /\ AttemptInv /\ inflight = {}
      /\ attempt \in Nat
  BY DEF IndexInv, IInv, TypeOK, AttemptInv
<1>2. CASE RecoverAbandonedJobs \/ RestartWorker
  <2>1. /\ UNCHANGED <<docStatus, attemptCount, vectorStore, deletions>>
        /\ workerPc' \in {"idle", "down", "starting"}
    BY <1>2 DEF RecoverAbandonedJobs, RestartWorker, recover_running_jobs, WorkerLeaves,
       repository, outsideWorker
  <2>2. QED
    BY <1>1, <2>1, KeepsIndexed DEF AttemptInv, JobPcs, vectorStore, deletions
<1>3. CASE ClaimNextJob
  <2>1. UNCHANGED <<docStatus, vectorStore, deletions>>
    BY <1>3 DEF ClaimNextJob, claim_next_job, repository, outsideWorker
  <2>2. \/ workerPc' = "down" /\ UNCHANGED attemptCount
        \/ \E d \in Documents :
             /\ docStatus[d] = "processing"
             /\ attemptCount' = [attemptCount EXCEPT ![d] = @ + 1]
             /\ \/ workerPc' = "read" /\ workerDoc' = d /\ attempt' = attemptCount[d] + 1
                \/ workerPc' = "down"
    BY <1>3 DEF ClaimNextJob, claim_next_job, Claimable, WorkerLeaves, repository
  <2>3. CASE workerPc' = "down" /\ UNCHANGED attemptCount
    BY <1>1, <2>1, <2>3, KeepsIndexed DEF AttemptInv, JobPcs, vectorStore, deletions
  <2>4. CASE \E d \in Documents :
               /\ docStatus[d] = "processing"
               /\ attemptCount' = [attemptCount EXCEPT ![d] = @ + 1]
               /\ \/ workerPc' = "read" /\ workerDoc' = d /\ attempt' = attemptCount[d] + 1
                  \/ workerPc' = "down"
    <3>1. PICK d \in Documents :
               /\ docStatus[d] = "processing"
               /\ attemptCount' = [attemptCount EXCEPT ![d] = @ + 1]
               /\ \/ workerPc' = "read" /\ workerDoc' = d /\ attempt' = attemptCount[d] + 1
                  \/ workerPc' = "down"
      BY <2>4
    <3>2. /\ attemptCount'[d] = attemptCount[d] + 1
          /\ \A e \in Documents \ {d} : attemptCount'[e] = attemptCount[e]
      BY <1>1, <3>1 DEF TypeOK, RepositoryTypeOK
    <3>3. Indexed'
      BY <1>1, <2>1, <3>1, <3>2, KeepsIndexed DEF vectorStore, deletions
    <3>4. AttemptInv'
      BY <1>1, <2>1, <3>1, <3>2 DEF AttemptInv, JobPcs, vectorStore
    <3>5. QED
      BY <3>3, <3>4
  <2>5. QED
    BY <2>2, <2>3, <2>4
<1>4. CASE WorkerCrash
  <2>1. UNCHANGED <<repository, deletions>> /\ workerPc' = "down"
    BY <1>4 DEF WorkerCrash, WorkerLeaves, outsideWorker
  <2>2. CASE UNCHANGED vectorStore
    BY <1>1, <2>1, <2>2, KeepsIndexed DEF AttemptInv, JobPcs, repository, vectorStore,
       deletions
  <2>3. CASE ~UNCHANGED vectorStore
    <3>1. /\ workerPc \in JobPcs \ {"verify"}
          /\ DeleteRaises(workerDoc) \/ UpsertRaises(workerDoc, attempt)
      BY <1>4, <2>3 DEF WorkerCrash, JobPcs
    <3>2. workerDoc \in Documents /\ docStatus[workerDoc] = "processing"
      BY <1>1, <3>1, JobInHand
    <3>3. /\ UNCHANGED inflight
          /\ \A e \in Documents \ {workerDoc} : vectors'[e] = vectors[e]
      BY <1>1, <3>1, <3>2, RaisingRequests
    <3>4. Indexed'
      BY <1>1, <2>1, <3>2, <3>3, KeepsIndexed DEF repository, deletions
    <3>5. AttemptInv'
      BY <1>1, <2>1, <3>3 DEF AttemptInv, JobPcs
    <3>6. QED
      BY <3>4, <3>5
  <2>4. QED
    BY <2>2, <2>3
<1>5. QED
  BY <1>2, <1>3, <1>4

\* A deletion touches condemned documents only, and never the one in hand.
LEMMA DeleteIndexed ==
  ASSUME ~timedOut', IndexInv, Delete
  PROVE  AttemptInv' /\ Indexed'
<1>1. /\ IInv /\ TypeOK /\ Indexed /\ AttemptInv /\ inflight = {}
  BY DEF IndexInv, IInv, AttemptInv
<1>2. UNCHANGED worker
  BY DEF Delete
<1>3. PICK r \in Requests :
        \/ \E d \in Documents : GetForDeletion(r, d)
        \/ DeleteVectors(r) \/ DeleteStoredFile(r) \/ DeleteRecord(r)
  BY DEF Delete, DeletionStep
<1>4. CASE (\E d \in Documents : GetForDeletion(r, d)) \/ DeleteStoredFile(r)
  <2>1. UNCHANGED <<repository, vectorStore>> /\ condemned \subseteq condemned'
    BY <1>4 DEF GetForDeletion, DeleteStoredFile, DeletionAt, EndDeletion
  <2>2. QED
    BY <1>1, <1>2, <2>1, KeepsIndexed DEF AttemptInv, repository, vectorStore, worker
<1>5. CASE DeleteVectors(r) \/ DeleteRecord(r)
  <2>1. deletePc[r] # "idle" /\ UNCHANGED condemned
    BY <1>5 DEF DeleteVectors, DeleteRecord, DeletionAt, EndDeletion
  <2>2. PICK d \in Documents : d = deleteDoc[r] /\ d \in condemned
    BY <1>1, <2>1 DEF IInv, DeletionInv, TypeOK, DeletionTypeOK
  <2>3. /\ UNCHANGED inflight
        /\ \A e \in Documents \ {d} : /\ vectors'[e] = vectors[e]
                                      /\ docStatus'[e] = docStatus[e]
                                      /\ attemptCount'[e] = attemptCount[e]
    <3>1. CASE DeleteVectors(r)
      BY <1>1, <2>2, <3>1, RaisingRequests, 0 \in Nat DEF DeleteVectors, repository
    <3>2. CASE DeleteRecord(r)
      BY <1>1, <2>2, <3>2
      DEF DeleteRecord, delete, repository, vectorStore, TypeOK, RepositoryTypeOK
    <3>3. QED
      BY <1>5, <3>1, <3>2
  <2>4. Indexed'
    BY <1>1, <2>1, <2>2, <2>3, KeepsIndexed
  <2>5. workerPc \in JobPcs \ {"verify"} => workerDoc \in Documents /\ workerDoc # d
    BY <1>1, <2>2, JobInHand
  <2>6. AttemptInv'
    BY <1>1, <1>2, <2>3, <2>5 DEF AttemptInv, worker, JobPcs, Points
  <2>7. QED
    BY <2>4, <2>6
<1>6. QED
  BY <1>3, <1>4, <1>5

LEMMA StepIndexed ==
  ASSUME ~timedOut', IndexInv, [Next]_vars
  PROVE  IndexInv'
<1>1. IInv'
  BY StepInv DEF IndexInv
<1>2. AttemptInv' /\ Indexed'
  <2>1. CASE SubmitStep
    BY <2>1, SubmitIndexed DEF SubmitStep
  <2>2. CASE ApiCrash \/ UNCHANGED vars
    <3>1. UNCHANGED <<repository, vectorStore, condemned, worker>>
      BY <2>2 DEF ApiCrash, DeletionsVanish, vars, deletions
    <3>2. QED
      BY <3>1, KeepsIndexed DEF IndexInv, AttemptInv, repository, vectorStore, worker
  <2>3. CASE ProcessJob
    BY <2>3, ProcessJobIndexed
  <2>4. CASE RecoverAbandonedJobs \/ ClaimNextJob \/ WorkerCrash \/ RestartWorker
    BY <2>4, WorkerIndexed
  <2>5. CASE Delete
    BY <2>5, DeleteIndexed
  <2>6. CASE LateWrite
    BY <2>6 DEF LateWrite, Land, IndexInv, AttemptInv
  <2>7. QED
    BY <2>1, <2>2, <2>3, <2>4, <2>5, <2>6 DEF Next, WorkerStep
<1>3. QED
  BY <1>1, <1>2 DEF IndexInv

LEMMA InitIndexed == Init => IndexInv
  BY InitInv DEF Init, IndexInv, AttemptInv, Indexed, RepositoryInit,
     VectorStoreInit, JobPcs

\* A request that timed out is never forgotten.
LEMMA TimedOutForGood ==
  ASSUME TypeOK, [Next]_vars
  PROVE  timedOut => timedOut'
  BY DEF TypeOK, VectorStoreTypeOK, Next, vars, vectorStore, SubmitStep, SaveUpload,
     BuildJob, CommitJob, RemoveStoredFile, ApiCrash, WorkerStep, WorkerCrash,
     RestartWorker, RecoverAbandonedJobs, ClaimNextJob, ProcessJob, ReadDocument,
     CheckFile, PurgeVectors, LoadAndEmbed, UpsertChunks, CompleteJob,
     VerifyCompletion, CompensateVectors, CompensateFile, FailJob, Delete,
     DeletionStep, GetForDeletion, DeleteVectors, DeleteStoredFile, DeleteRecord,
     LateWrite, Land, delete_by_document, upsert, DeleteRaises, UpsertRaises, TimeOut

\* A step keeps a document purged, or within its completed attempt, when it
\* leaves its rows alone and adds no point to it.
LEMMA KeepsPurged ==
  ASSUME PurgedInv,
         \A d \in Documents :
           /\ docStatus'[d] \in {"absent", "ready"} => docStatus[d] = docStatus'[d]
           /\ docStatus'[d] \in {"absent", "ready"} => vectors'[d] \subseteq vectors[d]
           /\ docStatus'[d] = "ready" => attemptCount'[d] = attemptCount[d],
         \A r \in Requests :
           deletePc'[r] \in {"file", "record"} => vectors'[deleteDoc'[r]] = {}
  PROVE  PurgedInv'
  BY DEF PurgedInv, Points

\* The documents whose deletions are past their Qdrant request stay without
\* points when only an active document gets any.
LEMMA KeepsDeleting ==
  ASSUME IInv, PurgedInv, UNCHANGED <<deletePc, deleteDoc>>,
         \A d \in Documents :
           jobStatus[d] \notin ActiveJobStatuses => vectors'[d] \subseteq vectors[d]
  PROVE  \A r \in Requests :
           deletePc'[r] \in {"file", "record"} => vectors'[deleteDoc'[r]] = {}
<1>1. \A r \in Requests : deletePc[r] # "idle" =>
         deleteDoc[r] \in Documents /\ jobStatus[deleteDoc[r]] \notin ActiveJobStatuses
  BY DEF IInv, DeletionInv, TypeOK, DeletionTypeOK
<1>2. QED
  BY <1>1 DEF PurgedInv

LEMMA StepPurged ==
  ASSUME ~timedOut', IndexInv, PurgedInv, [Next]_vars
  PROVE  PurgedInv'
<1>1. /\ IInv /\ TypeOK /\ AttemptInv /\ inflight = {} /\ attempt \in Nat
      /\ RepositoryTypeOK /\ VectorStoreTypeOK /\ DeletionTypeOK
  BY DEF IndexInv, IInv, TypeOK, AttemptInv
<1>2. CASE UNCHANGED <<docStatus, attemptCount, vectors, deletePc, deleteDoc>>
  BY <1>2 DEF PurgedInv
<1>3. CASE SubmitStep
  <2>1. PICK d \in Documents : SaveUpload(d) \/ BuildJob(d) \/ CommitJob(d)
                               \/ RemoveStoredFile(d)
    BY <1>3 DEF SubmitStep
  <2>2. UNCHANGED <<vectors, deletePc, deleteDoc>>
    BY <2>1 DEF SaveUpload, BuildJob, CommitJob, RemoveStoredFile, vectorStore, deletions
  <2>3. UNCHANGED <<docStatus, attemptCount>> \/ create_document_and_job(d)
    BY <2>1 DEF SaveUpload, BuildJob, CommitJob, RemoveStoredFile, repository
  <2>4. QED
    BY <1>1, <1>2, <2>2, <2>3, KeepsPurged
    DEF create_document_and_job, RepositoryTypeOK, PurgedInv
<1>4. CASE ApiCrash
  BY <1>4 DEF ApiCrash, DeletionsVanish, repository, vectorStore, PurgedInv
<1>5. CASE RecoverAbandonedJobs \/ RestartWorker
  BY <1>2, <1>5 DEF RecoverAbandonedJobs, RestartWorker, recover_running_jobs, repository,
     vectorStore, outsideWorker, deletions
<1>6. CASE ClaimNextJob
  <2>1. UNCHANGED <<docStatus, vectors, deletePc, deleteDoc>>
    BY <1>6 DEF ClaimNextJob, claim_next_job, repository, vectorStore, outsideWorker,
       deletions
  <2>2. UNCHANGED attemptCount
        \/ \E d \in Documents : /\ docStatus[d] = "processing"
                                /\ attemptCount' = [attemptCount EXCEPT ![d] = @ + 1]
    BY <1>6 DEF ClaimNextJob, claim_next_job, Claimable, repository
  <2>3. QED
    BY <1>1, <2>1, <2>2, KeepsPurged DEF RepositoryTypeOK, PurgedInv
<1>7. CASE ProcessJob \/ WorkerCrash
  <2>1. CASE UNCHANGED <<docStatus, vectors>>
    BY <1>2, <1>7, <2>1 DEF ProcessJob, ReadDocument, CheckFile, PurgeVectors, LoadAndEmbed,
       UpsertChunks, CompleteJob, VerifyCompletion, CompensateVectors, CompensateFile,
       FailJob, WorkerCrash, complete_job, fail_job, Finish, repository, outsideWorker,
       deletions
  <2>2. CASE CompleteJob \/ FailJob
    <3>1. UNCHANGED <<vectors, attemptCount, deletePc, deleteDoc>>
      BY <2>2 DEF CompleteJob, FailJob, complete_job, fail_job, Finish, repository,
         vectorStore, outsideWorker, deletions
    <3>2. workerDoc \in Documents /\ workerPc \in JobPcs \ {"verify"}
      BY <1>1, <2>2, JobInHand DEF CompleteJob, FailJob, JobPcs
    <3>3. \/ UNCHANGED docStatus
          \/ docStatus' = [docStatus EXCEPT ![workerDoc] = "failed"]
          \/ /\ workerPc = "complete"
             /\ docStatus' = [docStatus EXCEPT ![workerDoc] = "ready"]
      BY <2>2 DEF CompleteJob, FailJob, complete_job, fail_job, Finish, repository
    <3>4. workerPc = "complete" => vectors[workerDoc] = Points(attemptCount[workerDoc])
      BY <1>1 DEF AttemptInv, JobPcs
    <3>5. QED
      BY <1>1, <3>1, <3>2, <3>3, <3>4 DEF PurgedInv, RepositoryTypeOK, Points
  <2>3. CASE ~UNCHANGED vectors
    <3>1. /\ workerPc \in JobPcs \ {"verify"}
          /\ UNCHANGED <<docStatus, attemptCount, deletePc, deleteDoc>>
          /\ \/ DeleteRaises(workerDoc) \/ UpsertRaises(workerDoc, attempt)
             \/ delete_by_document(workerDoc) \/ upsert(workerDoc, attempt)
      BY <1>7, <2>3 DEF ProcessJob, ReadDocument, CheckFile, PurgeVectors, LoadAndEmbed,
         UpsertChunks, CompleteJob, VerifyCompletion, CompensateVectors, CompensateFile,
         FailJob, WorkerCrash, JobPcs, repository, vectorStore, outsideWorker, deletions
    <3>2. /\ workerDoc \in Documents
          /\ docStatus[workerDoc] = "processing" /\ jobStatus[workerDoc] = "running"
      BY <1>1, <3>1, JobInHand DEF IInv, WorkerInv
    <3>3. \A e \in Documents \ {workerDoc} : vectors'[e] = vectors[e]
      BY <1>1, <3>1, <3>2, RaisingRequests
    <3>4. \A r \in Requests :
            deletePc'[r] \in {"file", "record"} => vectors'[deleteDoc'[r]] = {}
      BY <1>1, <3>1, <3>2, <3>3, KeepsDeleting DEF ActiveJobStatuses
    <3>5. QED
      BY <3>1, <3>2, <3>3, <3>4, KeepsPurged
  <2>4. QED
    BY <1>7, <2>1, <2>2, <2>3 DEF ProcessJob, ReadDocument, CheckFile, PurgeVectors,
       LoadAndEmbed, UpsertChunks, VerifyCompletion, CompensateVectors, CompensateFile,
       WorkerCrash, repository
<1>8. CASE Delete
  <2>1. PICK r \in Requests :
          \/ \E d \in Documents : GetForDeletion(r, d)
          \/ DeleteVectors(r) \/ DeleteStoredFile(r) \/ DeleteRecord(r)
    BY <1>8 DEF Delete, DeletionStep
  <2>2. deletePc[r] # "idle" => deleteDoc[r] \in Documents
    BY <1>1 DEF IInv, DeletionInv, DeletionTypeOK
  <2>3. CASE (\E d \in Documents : GetForDeletion(r, d)) \/ DeleteStoredFile(r)
    <3>1. UNCHANGED <<docStatus, attemptCount, vectors>>
      BY <2>3 DEF GetForDeletion, DeleteStoredFile, repository, vectorStore
    <3>2. \A q \in Requests : deletePc'[q] \in {"file", "record"} =>
            deletePc[q] \in {"file", "record"} /\ deleteDoc'[q] = deleteDoc[q]
      BY <1>1, <2>3 DEF GetForDeletion, DeleteStoredFile, DeletionAt, EndDeletion,
         DeletionTypeOK
    <3>3. QED
      BY <3>1, <3>2 DEF PurgedInv
  <2>4. CASE DeleteVectors(r)
    <3>1. UNCHANGED <<docStatus, attemptCount>> /\ deleteDoc[r] \in Documents
      BY <2>2, <2>4 DEF DeleteVectors, repository
    <3>2. \A e \in Documents : vectors'[e] \subseteq vectors[e]
      BY <1>1, <2>4, <3>1 DEF DeleteVectors, DeleteRaises, delete_by_document, TimeOut,
         vectorStore, VectorStoreTypeOK
    <3>3. \A q \in Requests : deletePc'[q] \in {"file", "record"} =>
            /\ deleteDoc'[q] = deleteDoc[q]
            /\ \/ deletePc[q] \in {"file", "record"}
               \/ q = r /\ vectors' = [vectors EXCEPT ![deleteDoc[r]] = {}]
      BY <1>1, <2>4 DEF DeleteVectors, DeletionAt, EndDeletion, delete_by_document,
         DeletionTypeOK
    <3>4. \A q \in Requests : deletePc[q] # "idle" => deleteDoc[q] \in Documents
      BY <1>1 DEF IInv, DeletionInv, DeletionTypeOK
    <3>5. \A q \in Requests : deletePc'[q] \in {"file", "record"} =>
            vectors'[deleteDoc'[q]] = {}
      BY <1>1, <3>1, <3>2, <3>3, <3>4 DEF PurgedInv, VectorStoreTypeOK
    <3>6. QED
      BY <3>1, <3>2, <3>5, KeepsPurged
  <2>5. CASE DeleteRecord(r)
    <3>1. /\ UNCHANGED vectors /\ deletePc[r] = "record"
          /\ UNCHANGED repository \/ delete(deleteDoc[r])
      BY <2>5 DEF DeleteRecord, vectorStore
    <3>2. vectors[deleteDoc[r]] = {} /\ deleteDoc[r] \in Documents
      BY <2>2, <3>1 DEF PurgedInv
    <3>3. \A q \in Requests : deletePc'[q] \in {"file", "record"} =>
            deletePc[q] \in {"file", "record"} /\ deleteDoc'[q] = deleteDoc[q]
      BY <1>1, <2>5 DEF DeleteRecord, EndDeletion, DeletionTypeOK
    <3>4. QED
      BY <1>1, <3>1, <3>2, <3>3 DEF PurgedInv, delete, repository, RepositoryTypeOK
  <2>6. QED
    BY <2>1, <2>3, <2>4, <2>5
<1>9. CASE LateWrite \/ UNCHANGED vars
  BY <1>1, <1>2, <1>9 DEF LateWrite, Land, vars, repository, vectorStore, deletions
<1>10. QED
  BY <1>3, <1>4, <1>5, <1>6, <1>7, <1>8, <1>9 DEF Next, WorkerStep

\* What holds until a request outlives its timeout.
PromptInv == IInv /\ (~timedOut => AttemptInv /\ Indexed /\ PurgedInv)

\* Until then all of it holds together: the rows, the attempt in progress, the
\* points of the ready documents and of the deleted ones.
THEOREM PromptInvariance == Spec => []PromptInv
<1>1. Init => PromptInv
  BY InitIndexed DEF PromptInv, IndexInv, PurgedInv, Init, RepositoryInit, DeletionInit,
     VectorStoreInit
<1>2. PromptInv /\ [Next]_vars => PromptInv'
  <2>1. SUFFICES ASSUME PromptInv, [Next]_vars, ~timedOut'
                 PROVE  AttemptInv' /\ Indexed' /\ PurgedInv'
    BY StepInv DEF PromptInv
  <2>2. ~timedOut
    BY <2>1, TimedOutForGood DEF PromptInv, IInv
  <2>3. IndexInv /\ PurgedInv
    BY <2>1, <2>2 DEF PromptInv, IndexInv
  <2>4. IndexInv' /\ PurgedInv'
    BY <2>1, <2>3, StepIndexed, StepPurged
  <2>5. QED
    BY <2>4 DEF IndexInv
<1>3. QED
  BY <1>1, <1>2, PTL DEF Spec

\* As long as no request outlived its timeout, every ready document that no
\* deletion was allowed on is indexed by exactly the points of its completed
\* attempt: through any number of partial writes, crashes, replays and
\* ambiguous commits.
THEOREM ReadyDocumentsIndexed == Spec => []ReadyIsIndexed
<1>1. PromptInv => ReadyIsIndexed
  BY DEF PromptInv, ReadyIsIndexed
<1>2. QED
  BY <1>1, PromptInvariance, PTL

\* A document that is gone left no points behind, whichever of the steps of its
\* deletions failed and however they overlapped, until a request outlives its
\* timeout.
THEOREM NothingOrphaned == Spec => []NoOrphanVectors
<1>1. PromptInv => NoOrphanVectors
  BY DEF PromptInv, PurgedInv, NoOrphanVectors
<1>2. QED
  BY <1>1, PromptInvariance, PTL

\* A client can take nothing from a document whose job is pending or running.
THEOREM ActiveJobsUntouched == Spec => ActiveUntouched
<1> DEFINE Untouched == \A d \in Documents :
             jobStatus[d] \in ActiveJobStatuses /\ worker' = worker
               => /\ docStatus'[d] = docStatus[d]
                  /\ jobStatus'[d] = jobStatus[d]
                  /\ ~timedOut => vectors'[d] = vectors[d]
<1>1. PromptInv /\ [Next]_vars => [Untouched]_vars
  <2>1. SUFFICES ASSUME PromptInv, Next, NEW d \in Documents,
                        jobStatus[d] \in ActiveJobStatuses, worker' = worker
                 PROVE  /\ docStatus'[d] = docStatus[d]
                        /\ jobStatus'[d] = jobStatus[d]
                        /\ ~timedOut => vectors'[d] = vectors[d]
    OBVIOUS
  <2>2. /\ IInv /\ RepositoryTypeOK /\ VectorStoreTypeOK /\ DeletionTypeOK
        /\ docStatus[d] = "processing" /\ d \notin condemned
    BY <2>1 DEF PromptInv, IInv, TypeOK, JobDocumentAgree, CondemnedInv
  <2>3. CASE SubmitStep
    BY <2>1, <2>2, <2>3 DEF SubmitStep, SaveUpload, BuildJob, CommitJob, RemoveStoredFile,
       create_document_and_job, InsertAllowed, repository, vectorStore, RepositoryTypeOK
  <2>4. CASE ApiCrash
    BY <2>4 DEF ApiCrash, repository, vectorStore
  <2>5. CASE WorkerStep \/ WorkerCrash \/ RestartWorker
    BY <2>1, <2>5 DEF WorkerStep, WorkerCrash, RestartWorker, RecoverAbandonedJobs,
       ClaimNextJob, ProcessJob, ReadDocument, CheckFile, PurgeVectors, LoadAndEmbed,
       UpsertChunks, CompleteJob, VerifyCompletion, CompensateVectors, CompensateFile,
       FailJob, WorkerAt, WorkerLeaves, worker
  <2>6. CASE Delete
    <3>1. PICK r \in Requests :
            \/ \E e \in Documents : GetForDeletion(r, e)
            \/ DeleteVectors(r) \/ DeleteStoredFile(r) \/ DeleteRecord(r)
      BY <2>6 DEF Delete, DeletionStep
    <3>2. deletePc[r] # "idle" => deleteDoc[r] \in Documents \ {d}
      BY <2>2 DEF IInv, DeletionInv, DeletionTypeOK
    <3>3. \/ UNCHANGED <<docStatus, jobStatus>>
          \/ deletePc[r] # "idle" /\ delete(deleteDoc[r])
      BY <3>1 DEF GetForDeletion, DeleteVectors, DeleteStoredFile, DeleteRecord, repository
    <3>4. \/ UNCHANGED vectors
          \/ deletePc[r] # "idle" /\ delete_by_document(deleteDoc[r])
      BY <3>1 DEF GetForDeletion, DeleteVectors, DeleteStoredFile, DeleteRecord,
         DeleteRaises, TimeOut, vectorStore
    <3>5. QED
      BY <2>2, <3>2, <3>3, <3>4 DEF delete, delete_by_document, RepositoryTypeOK,
         VectorStoreTypeOK
  <2>7. CASE LateWrite
    BY <2>1, <2>7 DEF LateWrite, Land, PromptInv, AttemptInv, repository
  <2>8. QED
    BY <2>1, <2>3, <2>4, <2>5, <2>6, <2>7 DEF Next
<1>2. QED
  BY <1>1, PromptInvariance, PTL DEF Spec, ActiveUntouched

(***************************************************************************)
(* The queries only read: they take nothing from the ingestion.            *)
(***************************************************************************)
LEMMA ServingStep ==
  ASSUME [ServingNext]_servingVars
  PROVE  [Next]_vars
  BY DEF ServingNext, Ingest, Serve, ServerCrash, Next, servingVars

\* Every theorem about Spec holds of the composed system.
THEOREM ServingImplements == ServingSpec => Spec
<1>1. ServingInit => Init
  BY DEF ServingInit
<1>2. [ServingNext]_servingVars => [Next]_vars
  BY ServingStep
<1>3. QED
  BY <1>1, <1>2, PTL DEF ServingSpec, Spec

(***************************************************************************)
(* A validated document can only be deleted.                               *)
(***************************************************************************)
LEMMA CondemnedForGood ==
  ASSUME [Next]_vars
  PROVE  condemned \subseteq condemned'
  BY DEF Next, vars, SubmitStep, SaveUpload, BuildJob, CommitJob,
     RemoveStoredFile, ApiCrash, DeletionsVanish, WorkerStep, WorkerCrash, RestartWorker,
     RecoverAbandonedJobs, ClaimNextJob, ProcessJob, ReadDocument, CheckFile, PurgeVectors,
     LoadAndEmbed, UpsertChunks, CompleteJob, VerifyCompletion, CompensateVectors,
     CompensateFile, FailJob, Delete, DeletionStep, GetForDeletion, DeleteVectors,
     DeleteStoredFile, DeleteRecord, DeletionAt, EndDeletion, LateWrite, outsideWorker,
     deletions

LEMMA StaysValidated ==
  ASSUME IInv, [Next]_vars, NEW d \in Documents, Validated(d)
  PROVE  /\ Validated(d)'
         /\ d \notin condemned' => docStatus'[d] = "ready" /\ attemptCount'[d] = attemptCount[d]
<1>1. /\ RepositoryTypeOK /\ DeletionTypeOK
      /\ condemned \subseteq condemned'
  BY CondemnedForGood DEF IInv, TypeOK
<1>2. SUFFICES \/ docStatus'[d] = docStatus[d] /\ attemptCount'[d] = attemptCount[d]
               \/ docStatus'[d] = "absent" /\ d \in condemned
  BY <1>1 DEF Validated
<1>3. CASE UNCHANGED <<docStatus, attemptCount>>
  BY <1>3
<1>4. CASE SubmitStep
  <2>1. PICK e \in Documents : SaveUpload(e) \/ BuildJob(e) \/ CommitJob(e)
                               \/ RemoveStoredFile(e)
    BY <1>4 DEF SubmitStep
  <2>2. \/ UNCHANGED <<docStatus, attemptCount>>
        \/ create_document_and_job(e) /\ Unborn(e)
    BY <2>1 DEF SaveUpload, BuildJob, CommitJob, RemoveStoredFile, repository, Unborn
  <2>3. ~Unborn(d)
    BY DEF IInv, SubmissionInv, JobDocumentAgree, Validated, ActiveJobStatuses
  <2>4. QED
    BY <1>1, <1>3, <2>2, <2>3 DEF create_document_and_job, RepositoryTypeOK
<1>5. CASE WorkerStep
  <2>1. \/ UNCHANGED <<docStatus, attemptCount>>
        \/ \E e \in Documents : claim_next_job(e)
        \/ workerPc \in JobPcs /\ (complete_job(workerDoc) \/ fail_job(workerDoc))
    BY <1>5 DEF WorkerStep, RecoverAbandonedJobs, ClaimNextJob, ProcessJob, ReadDocument,
       CheckFile, PurgeVectors, LoadAndEmbed, UpsertChunks, CompleteJob, VerifyCompletion,
       CompensateVectors, CompensateFile, FailJob, recover_running_jobs, repository, JobPcs
  <2>2. workerPc \in JobPcs => workerDoc \in Documents
    BY DEF IInv, WorkerInv
  <2>3. QED
    BY <1>1, <1>3, <2>1, <2>2 DEF Validated, claim_next_job, Claimable, complete_job,
       fail_job, Finish, RepositoryTypeOK
<1>6. CASE Delete
  <2>1. PICK r \in Requests :
          \/ \E e \in Documents : GetForDeletion(r, e)
          \/ DeleteVectors(r) \/ DeleteStoredFile(r) \/ DeleteRecord(r)
    BY <1>6 DEF Delete, DeletionStep
  <2>2. \/ UNCHANGED <<docStatus, attemptCount>>
        \/ deletePc[r] # "idle" /\ delete(deleteDoc[r])
    BY <2>1 DEF GetForDeletion, DeleteVectors, DeleteStoredFile, DeleteRecord, repository
  <2>3. deletePc[r] # "idle" => deleteDoc[r] \in condemned /\ deleteDoc[r] \in Documents
    BY <1>1 DEF IInv, DeletionInv, DeletionTypeOK
  <2>4. QED
    BY <1>1, <1>3, <2>2, <2>3 DEF delete, RepositoryTypeOK
<1>7. CASE ApiCrash \/ WorkerCrash \/ RestartWorker \/ LateWrite \/ UNCHANGED vars
  BY <1>3, <1>7 DEF ApiCrash, WorkerCrash, RestartWorker, LateWrite, vars, repository
<1>8. QED
  BY <1>4, <1>5, <1>6, <1>7 DEF Next

(***************************************************************************)
(* The invariant of the queries                                            *)
(***************************************************************************)
LEMMA QueryInitInv == QueryInit => QueryTypeOK /\ QueryInv
  BY DEF QueryInit, QueryTypeOK, QueryInv

LEMMA QueriesVanishInv ==
  ASSUME QueriesVanish
  PROVE  QueryTypeOK' /\ QueryInv'
  BY DEF QueriesVanish, QueryTypeOK, QueryInv

\* The points a search can see are pairs of a document of its scope and a point.
LEMMA VisiblePoints ==
  ASSUME VectorStoreTypeOK, NEW S \in SUBSET Documents
  PROVE  /\ Visible(S) \subseteq Documents \X (Nat \X Parts)
         /\ \A found \in Visible(S) : found[1] \in S /\ found[2] \in vectors[found[1]]
  BY DEF Visible, VectorStoreTypeOK

LEMMA QueryStepTyped ==
  ASSUME QueryTypeOK, VectorStoreTypeOK, NEW q \in Queries,
         StartQuery(q) \/ ValidateDocument(q) \/ Search(q) \/ Retry(q) \/ Respond(q)
  PROVE  QueryTypeOK'
<1>1. CASE EndQuery(q)
  BY <1>1 DEF EndQuery, QueryTypeOK
<1>2. CASE StartQuery(q)
  BY <1>2 DEF StartQuery, QueryTypeOK
<1>3. CASE ValidateDocument(q)
  BY <1>1, <1>3 DEF ValidateDocument, QueryTypeOK
<1>4. CASE Search(q)
  <2>1. \A found \in Returned(q) : found \subseteq Documents \X (Nat \X Parts)
    <3>1. scope[q] \in SUBSET Documents
      BY DEF QueryTypeOK
    <3>2. QED
      BY <3>1, VisiblePoints DEF Returned
  <2>2. QED
    BY <1>1, <1>4, <2>1 DEF Search, QueryTypeOK
<1>5. CASE Retry(q)
  BY <1>5 DEF Retry, QueryTypeOK
<1>6. QED
  BY <1>1, <1>2, <1>3, <1>4, <1>5 DEF Respond

LEMMA QueryStepInv ==
  ASSUME QueryTypeOK, QueryInv, UNCHANGED vars, NEW q \in Queries,
         StartQuery(q) \/ ValidateDocument(q) \/ Search(q) \/ Retry(q) \/ Respond(q)
  PROVE  QueryInv'
<1>1. \A d \in Documents : Validated(d)' <=> Validated(d)
  BY DEF Validated, vars, repository, deletions
<1>2. \A p \in Queries \ {q} :
        /\ queryPc'[p] = queryPc[p] /\ scope'[p] = scope[p] /\ unchecked'[p] = unchecked[p]
  BY DEF QueryTypeOK, StartQuery, ValidateDocument, Search, Retry, Respond, EndQuery
<1>3. SUFFICES /\ \A d \in scope'[q] \ unchecked'[q] : Validated(d)
               /\ queryPc'[q] \in {"search", "assess"} => unchecked'[q] = {}
               /\ scope'[q] \subseteq Documents
  BY <1>1, <1>2 DEF QueryInv, QueryTypeOK
<1>4. CASE EndQuery(q)
  BY <1>4 DEF EndQuery, QueryTypeOK
<1>5. CASE StartQuery(q)
  BY <1>5 DEF StartQuery, QueryTypeOK
<1>6. CASE ValidateDocument(q)
  BY <1>4, <1>6 DEF ValidateDocument, QueryTypeOK, QueryInv, Validated
<1>7. CASE Search(q) \/ Retry(q)
  BY <1>4, <1>7 DEF Search, Retry, QueryTypeOK, QueryInv
<1>8. QED
  BY <1>4, <1>5, <1>6, <1>7 DEF Respond

LEMMA ServingStepInv ==
  ASSUME IInv, QueryTypeOK, QueryInv, [ServingNext]_servingVars
  PROVE  QueryTypeOK' /\ QueryInv'
<1>1. CASE UNCHANGED queries
  <2>1. \A d \in Documents : Validated(d) => Validated(d)'
    BY StaysValidated, ServingStep
  <2>2. QED
    BY <1>1, <2>1 DEF queries, QueryTypeOK, QueryInv
<1>2. CASE Serve
  BY <1>2, QueryStepTyped, QueryStepInv DEF Serve, QueryStep, IInv, TypeOK
<1>3. CASE ServerCrash
  BY <1>3, QueriesVanishInv DEF ServerCrash
<1>4. QED
  BY <1>1, <1>2, <1>3 DEF ServingNext, Ingest, servingVars

LEMMA QueryInvariance == ServingSpec => [](QueryTypeOK /\ QueryInv)
<1>1. ServingInit => QueryTypeOK /\ QueryInv
  BY QueryInitInv DEF ServingInit
<1>2. IInv /\ QueryTypeOK /\ QueryInv /\ [ServingNext]_servingVars => QueryTypeOK' /\ QueryInv'
  BY ServingStepInv
<1>3. QED
  BY <1>1, <1>2, ServingImplements, Invariance, PTL DEF ServingSpec

\* The chunks a search returns are those of the completed attempt of a document
\* that is ready at that moment, although its status was read earlier, until a
\* request to Qdrant outlives its timeout.
THEOREM SearchesFindReady == ServingSpec => SearchedIsReady
<1> DEFINE Found == ~timedOut => \A q \in Queries : \A found \in evidence'[q] \ evidence[q] :
             /\ docStatus[found[1]] = "ready"
             /\ found[2] \in Points(attemptCount[found[1]])
<1>1. ServingSpec => [](PromptInv /\ QueryTypeOK /\ QueryInv)
  BY ServingImplements, PromptInvariance, QueryInvariance, PTL
<1>2. PromptInv /\ QueryTypeOK /\ QueryInv /\ [ServingNext]_servingVars => [Found]_servingVars
  <2>1. SUFFICES ASSUME PromptInv, QueryTypeOK, QueryInv, ServingNext, ~timedOut,
                        NEW q \in Queries, NEW found \in evidence'[q] \ evidence[q]
                 PROVE  /\ docStatus[found[1]] = "ready"
                        /\ found[2] \in Points(attemptCount[found[1]])
    OBVIOUS
  <2>2. PICK results \in Returned(q) :
          /\ queryPc[q] = "search"
          /\ evidence' = [evidence EXCEPT ![q] = @ \union results]
    BY <2>1 DEF ServingNext, Ingest, Serve, QueryStep, StartQuery, ValidateDocument, Search,
       Retry, Respond, EndQuery, ServerCrash, QueriesVanish, queries, QueryTypeOK
  <2>3. /\ VectorStoreTypeOK /\ PurgedInv
        /\ scope[q] \in SUBSET Documents
    BY <2>1 DEF PromptInv, IInv, TypeOK, QueryTypeOK
  <2>4. found \in Visible(scope[q])
    BY <2>1, <2>2 DEF Returned, QueryTypeOK
  <2>5. /\ found[1] \in scope[q] /\ found[1] \in Documents
        /\ found[2] \in vectors[found[1]]
    BY <2>3, <2>4, VisiblePoints
  <2>6. Validated(found[1])
    BY <2>1, <2>2, <2>5 DEF QueryInv
  <2>7. QED
    BY <2>3, <2>5, <2>6 DEF Validated, PurgedInv
<1>3. QED
  BY <1>1, <1>2, PTL DEF ServingSpec, SearchedIsReady

(***************************************************************************)
(* The first attempt on a document, with requests that time out            *)
(***************************************************************************)
\* A step that takes no document back to its first attempt, and none of them
\* away from its points, keeps what is known of the first attempts.
LEMMA KeepsFirstTry ==
  ASSUME FirstTryInv, inflight' \subseteq inflight,
         \A d \in Documents :
           FirstTry(d)' => FirstTry(d) /\ vectors'[d] = vectors[d],
         \A d \in Documents :
           docStatus'[d] = "ready" /\ d \notin condemned' /\ attemptCount'[d] = 1
             => docStatus[d] = "ready" /\ d \notin condemned /\ attemptCount[d] = 1,
         workerPc' \in JobPcs \ {"verify"} =>
           /\ workerPc \in JobPcs \ {"verify"} /\ workerDoc' = workerDoc /\ attempt' = attempt
           /\ attemptCount'[workerDoc] = attemptCount[workerDoc]
           /\ workerDoc \in Documents /\ workerDoc \notin condemned'
           /\ workerPc' \in {"load", "upsert"} => workerPc \in {"load", "upsert"}
           /\ workerPc' = "complete" => workerPc = "complete"
  PROVE  FirstTryInv'
<1>1. \A d \in Documents : FirstTry(d)' => \A w \in inflight' : w[1] # d
  BY DEF FirstTryInv
<1>2. workerPc' \in JobPcs \ {"verify"} => attempt' = attemptCount'[workerDoc'] /\ attempt' # 0
  BY DEF FirstTryInv
<1>3. workerPc' \in {"load", "upsert", "complete"} /\ attempt' = 1
        => vectors'[workerDoc'] = vectors[workerDoc]
  BY <1>2 DEF FirstTry, JobPcs
<1>4. \A d \in Documents :
        docStatus'[d] = "ready" /\ d \notin condemned' /\ attemptCount'[d] = 1
          => vectors'[d] = Points(1)'
  BY DEF FirstTry, FirstTryInv, Points
<1>5. QED
  BY <1>1, <1>2, <1>3, <1>4 DEF FirstTryInv, JobPcs, Points

\* A request that raises, or whose caller died, ended the attempt it was part
\* of, whatever it leaves in flight.
LEMMA RaisedFirstTry ==
  ASSUME IInv, FirstTryInv, workerPc \in JobPcs \ {"verify"},
         DeleteRaises(workerDoc) \/ UpsertRaises(workerDoc, attempt),
         UNCHANGED <<repository, deletions, submitPc>>,
         \/ workerPc' = "down"
         \/ /\ workerPc' \in {"compensate_vectors", "compensate_file"}
            /\ UNCHANGED <<workerDoc, attempt>>
  PROVE  FirstTryInv'
<1>1. /\ VectorStoreTypeOK /\ attempt \in Nat
      /\ workerDoc \in Documents /\ docStatus[workerDoc] = "processing"
      /\ ~Unborn(workerDoc)
      /\ attempt = attemptCount[workerDoc] /\ attempt # 0
  BY JobInHand DEF IInv, TypeOK, FirstTryInv
<1>2. \E n \in Nat : inflight' \subseteq inflight \union {<<workerDoc, n>>}
  BY <1>1 DEF DeleteRaises, UpsertRaises, delete_by_document, TimeOut, vectorStore
<1>3. \A e \in Documents \ {workerDoc} : vectors'[e] = vectors[e]
  BY <1>1 DEF DeleteRaises, UpsertRaises, delete_by_document, TimeOut, vectorStore,
     VectorStoreTypeOK
<1>4. \A d \in Documents : FirstTry(d)' => d # workerDoc
  BY <1>1 DEF FirstTry, Unborn, repository
<1>5. \A d \in Documents : FirstTry(d)' => FirstTry(d)
  BY DEF FirstTry, Unborn, repository, deletions
<1>6. \A d \in Documents : FirstTry(d)' => \A w \in inflight' : w[1] # d
  BY <1>2, <1>4, <1>5 DEF FirstTryInv
<1>7. QED
  BY <1>1, <1>3, <1>6 DEF FirstTryInv, JobPcs, Points, repository, deletions

LEMMA SubmitFirstTry ==
  ASSUME IInv, FirstTryInv, SubmitStep \/ ApiCrash
  PROVE  FirstTryInv'
<1>1. UNCHANGED <<vectors, inflight, condemned, worker>>
  BY DEF SubmitStep, SaveUpload, BuildJob, CommitJob, RemoveStoredFile, ApiCrash,
     DeletionsVanish, vectorStore, deletions
<1>2. PICK d \in Documents \union {None} :
        /\ \/ UNCHANGED <<docStatus, attemptCount>>
           \/ d \in Documents /\ create_document_and_job(d) /\ Unborn(d)
        /\ \A e \in Documents : Unborn(e)' => Unborn(e)
  BY DEF SubmitStep, SaveUpload, BuildJob, CommitJob, RemoveStoredFile, SubmitAt, ApiCrash,
     repository, Unborn, IInv, TypeOK
<1>3. \A e \in Documents :
        \/ docStatus'[e] = docStatus[e] /\ attemptCount'[e] = attemptCount[e]
        \/ e = d /\ Unborn(d) /\ docStatus'[e] = "processing"
  BY <1>2 DEF create_document_and_job, IInv, TypeOK, RepositoryTypeOK
<1>4. \A e \in Documents : FirstTry(e)' => FirstTry(e)
  BY <1>1, <1>2, <1>3 DEF FirstTry, worker
<1>5. workerPc \in JobPcs \ {"verify"} =>
        /\ workerDoc \in Documents /\ workerDoc \notin condemned
        /\ attemptCount'[workerDoc] = attemptCount[workerDoc]
  BY <1>3, JobInHand
<1>6. QED
  BY <1>1, <1>3, <1>4, <1>5, KeepsFirstTry DEF worker

LEMMA WorkingFirstTry ==
  ASSUME IInv, FirstTryInv,
         ReadDocument \/ CheckFile \/ LoadAndEmbed \/ CompensateFile
         \/ PurgeVectors \/ UpsertChunks \/ CompensateVectors
  PROVE  FirstTryInv'
<1>1. /\ UNCHANGED <<repository, deletions, submitPc, workerDoc, attempt>>
      /\ workerPc \in JobPcs \ {"verify"}
      /\ workerPc' \in JobPcs \ {"verify"}
  BY DEF ReadDocument, CheckFile, LoadAndEmbed, CompensateFile, PurgeVectors, UpsertChunks,
     CompensateVectors, WorkerAt, outsideWorker, submissions, JobPcs
<1>2. /\ workerDoc \in Documents /\ workerDoc \notin condemned
      /\ VectorStoreTypeOK
  BY <1>1, JobInHand DEF IInv, TypeOK
<1>3. CASE UNCHANGED vectorStore /\ workerPc' # "load" /\ workerPc' # "complete"
  <2>1. /\ workerPc' \in {"check", "purge", "upsert", "compensate_vectors",
                          "compensate_file", "fail"}
        /\ workerPc' \in {"check", "purge", "upsert"} => workerPc \in {"read", "check", "load"}
        /\ workerPc' = "upsert" => workerPc = "load"
    BY <1>3 DEF ReadDocument, CheckFile, LoadAndEmbed, CompensateFile, PurgeVectors,
       UpsertChunks, CompensateVectors, WorkerAt
  <2>2. \A d \in Documents : FirstTry(d)' => FirstTry(d)
    BY <1>1, <2>1 DEF FirstTry, Unborn, repository, deletions
  <2>3. QED
    BY <1>1, <1>2, <1>3, <2>1, <2>2, KeepsFirstTry DEF vectorStore, repository, deletions
<1>4. CASE \/ workerPc = "purge" /\ workerPc' = "load" /\ delete_by_document(workerDoc)
           \/ workerPc = "upsert" /\ workerPc' = "complete" /\ upsert(workerDoc, attempt)
           \/ workerPc' = "compensate_file" /\ delete_by_document(workerDoc)
  <2>1. /\ UNCHANGED inflight
        /\ vectors' = [vectors EXCEPT ![workerDoc] = vectors'[workerDoc]]
        /\ workerPc' = "load" => vectors'[workerDoc] = {}
        /\ workerPc' = "complete" => vectors'[workerDoc] = vectors[workerDoc] \union Points(attempt)
    BY <1>2, <1>4 DEF delete_by_document, upsert, VectorStoreTypeOK
  <2>2. workerPc' = "complete" /\ attempt = 1 => vectors'[workerDoc] = Points(1)
    BY <1>4, <2>1 DEF FirstTryInv
  <2>3. \A e \in Documents \ {workerDoc} : vectors'[e] = vectors[e]
    BY <1>2, <2>1 DEF VectorStoreTypeOK
  <2>4. \A d \in Documents : FirstTry(d)' => FirstTry(d)
    BY <1>1, <1>4 DEF FirstTry, Unborn, repository, deletions
  <2>5. docStatus[workerDoc] = "processing"
    BY <1>1, JobInHand
  <2>6. QED
    BY <1>1, <1>4, <2>1, <2>2, <2>3, <2>4, <2>5 DEF FirstTryInv, Points, repository, deletions
<1>5. CASE /\ DeleteRaises(workerDoc) \/ UpsertRaises(workerDoc, attempt)
           /\ workerPc' \in {"compensate_vectors", "compensate_file"}
  BY <1>1, <1>5, RaisedFirstTry
<1>6. QED
  BY <1>3, <1>4, <1>5 DEF ReadDocument, CheckFile, LoadAndEmbed, CompensateFile, PurgeVectors,
     UpsertChunks, CompensateVectors, WorkerAt

LEMMA FinishingFirstTry ==
  ASSUME IInv, FirstTryInv, CompleteJob \/ VerifyCompletion \/ FailJob
  PROVE  FirstTryInv'
<1>1. /\ UNCHANGED <<vectorStore, deletions, attemptCount, submitPc>>
      /\ workerPc' \in {"idle", "down", "verify"}
  BY DEF CompleteJob, VerifyCompletion, FailJob, WorkerAt, WorkerLeaves, outsideWorker,
     submissions, complete_job, fail_job, Finish, repository
<1>2. \/ UNCHANGED docStatus
      \/ docStatus' = [docStatus EXCEPT ![workerDoc] = "failed"]
      \/ /\ workerPc = "complete"
         /\ docStatus' = [docStatus EXCEPT ![workerDoc] = "ready"]
  BY DEF CompleteJob, VerifyCompletion, FailJob, complete_job, fail_job, Finish, repository
<1>3. \A d \in Documents : docStatus'[d] = "ready" =>
        docStatus[d] = "ready" \/ (workerPc = "complete" /\ workerDoc = d)
  BY <1>2 DEF IInv, TypeOK, RepositoryTypeOK
<1>4. \A d \in Documents : FirstTry(d)' => FirstTry(d)
  BY <1>1, <1>3 DEF FirstTry, Unborn, deletions
<1>5. \A d \in Documents :
        docStatus'[d] = "ready" /\ d \notin condemned' /\ attemptCount'[d] = 1
          => vectors'[d] = Points(1)
  BY <1>1, <1>3 DEF FirstTryInv, JobPcs, vectorStore, deletions
<1>6. QED
  BY <1>1, <1>4, <1>5 DEF FirstTryInv, JobPcs, Points, vectorStore

LEMMA BetweenJobsFirstTry ==
  ASSUME IInv, FirstTryInv,
         RecoverAbandonedJobs \/ ClaimNextJob \/ WorkerCrash \/ RestartWorker
  PROVE  FirstTryInv'
<1>1. UNCHANGED <<docStatus, deletions, submitPc>>
  BY DEF RecoverAbandonedJobs, ClaimNextJob, WorkerCrash, RestartWorker, claim_next_job,
     recover_running_jobs, repository, outsideWorker, submissions
<1>2. CASE UNCHANGED <<vectorStore, attemptCount>> /\ workerPc' \notin JobPcs
  <2>1. \A d \in Documents : FirstTry(d)' => FirstTry(d)
    BY <1>1, <1>2 DEF FirstTry, Unborn, deletions, JobPcs
  <2>2. QED
    BY <1>1, <1>2, <2>1, KeepsFirstTry DEF vectorStore, deletions
<1>3. CASE ClaimNextJob
  <2>1. PICK d \in Documents \union {None} :
          \/ UNCHANGED attemptCount /\ workerPc' = "down"
          \/ /\ d \in Documents /\ docStatus[d] = "processing"
             /\ attemptCount' = [attemptCount EXCEPT ![d] = @ + 1]
             /\ \/ workerPc' = "read" /\ workerDoc' = d /\ attempt' = attemptCount[d] + 1
                \/ workerPc' = "down"
    BY <1>3 DEF ClaimNextJob, claim_next_job, Claimable, WorkerLeaves, repository
  <2>2. UNCHANGED vectorStore /\ attemptCount \in [Documents -> Nat]
    BY <1>3 DEF ClaimNextJob, outsideWorker, IInv, TypeOK, RepositoryTypeOK
  <2>3. \A e \in Documents :
          \/ attemptCount'[e] = attemptCount[e]
          \/ /\ e = d /\ docStatus'[e] = "processing"
             /\ attemptCount'[e] = attemptCount[e] + 1
    BY <1>1, <2>1, <2>2
  <2>4. \A e \in Documents : FirstTry(e)' => FirstTry(e)
    BY <1>1, <2>1, <2>2, <2>3 DEF FirstTry, Unborn, deletions
  <2>5. workerPc' \in JobPcs => /\ workerPc' = "read"
                                /\ attempt' = attemptCount'[workerDoc'] /\ attempt' # 0
    BY <2>1, <2>2 DEF JobPcs
  <2>6. QED
    BY <1>1, <2>2, <2>3, <2>4, <2>5 DEF FirstTryInv, JobPcs, Points, vectorStore, deletions
<1>4. CASE WorkerCrash /\ ~UNCHANGED vectorStore
  <2>1. /\ workerPc \in JobPcs \ {"verify"}
        /\ DeleteRaises(workerDoc) \/ UpsertRaises(workerDoc, attempt)
        /\ workerPc' = "down" /\ UNCHANGED repository
    BY <1>4 DEF WorkerCrash, WorkerLeaves, JobPcs
  <2>2. QED
    BY <1>1, <2>1, RaisedFirstTry
<1>5. QED
  BY <1>2, <1>3, <1>4 DEF RecoverAbandonedJobs, WorkerCrash, RestartWorker,
     recover_running_jobs, WorkerLeaves, repository, JobPcs

LEMMA DeleteFirstTry ==
  ASSUME IInv, FirstTryInv, Delete
  PROVE  FirstTryInv'
<1>1. /\ VectorStoreTypeOK /\ RepositoryTypeOK
      /\ UNCHANGED <<worker, submitPc>>
  BY DEF Delete, submissions, IInv, TypeOK
<1>2. PICK r \in Requests :
        \/ \E d \in Documents : GetForDeletion(r, d)
        \/ DeleteVectors(r) \/ DeleteStoredFile(r) \/ DeleteRecord(r)
  BY DEF Delete, DeletionStep
<1>3. /\ condemned \subseteq condemned'
      /\ deletePc[r] # "idle" => deleteDoc[r] \in Documents /\ deleteDoc[r] \in condemned'
  BY <1>2 DEF GetForDeletion, DeleteVectors, DeleteStoredFile, DeleteRecord, DeletionAt,
     EndDeletion, IInv, DeletionInv, TypeOK, DeletionTypeOK
<1>4. \A d \in Documents \ condemned' :
        /\ d \notin condemned
        /\ vectors'[d] = vectors[d]
        /\ docStatus'[d] = docStatus[d] /\ attemptCount'[d] = attemptCount[d]
        /\ \A w \in inflight' : w[1] = d => w \in inflight
  BY <1>1, <1>2, <1>3
  DEF GetForDeletion, DeleteVectors, DeleteStoredFile, DeleteRecord, delete,
      delete_by_document, DeleteRaises, TimeOut, vectorStore, repository,
      VectorStoreTypeOK, RepositoryTypeOK
<1>5. \A d \in Documents : FirstTry(d)' => FirstTry(d)
  BY <1>1, <1>4 DEF FirstTry, Unborn, worker
<1>6. \A d \in Documents : FirstTry(d)' => \A w \in inflight' : w[1] # d
  BY <1>4, <1>5 DEF FirstTryInv, FirstTry
<1>7. workerPc \in JobPcs \ {"verify"} => workerDoc \in Documents \ condemned'
  <2>1. workerPc \in JobPcs \ {"verify"} =>
          /\ workerDoc \in Documents \ condemned /\ docStatus[workerDoc] = "processing"
    BY JobInHand
  <2>2. \A d \in condemned' \ condemned : docStatus[d] # "processing"
    BY <1>2 DEF GetForDeletion, DeletionAllowed, DeleteVectors, DeleteStoredFile,
       DeleteRecord, DeletionAt, EndDeletion
  <2>3. QED
    BY <2>1, <2>2
<1>8. QED
  BY <1>1, <1>4, <1>6, <1>7 DEF FirstTryInv, worker, JobPcs, Points

\* A request that lands late can only reach a document whose first attempt is
\* over.
LEMMA LandFirstTry ==
  ASSUME IInv, FirstTryInv, LateWrite
  PROVE  FirstTryInv'
<1>1. PICK w \in inflight : Land(w)
  BY DEF LateWrite
<1>2. /\ UNCHANGED <<repository, deletions, submissions, worker>>
      /\ inflight' \subseteq inflight
  BY <1>1 DEF LateWrite, Land
<1>3. \A d \in Documents : FirstTry(d)' => FirstTry(d)
  BY <1>2 DEF FirstTry, Unborn, repository, deletions, submissions, worker
<1>4. \A d \in Documents : FirstTry(d) => vectors'[d] = vectors[d]
  <2>1. \A d \in Documents : d # w[1] => vectors'[d] = vectors[d]
    BY <1>1 DEF Land, IInv, TypeOK, VectorStoreTypeOK
  <2>2. QED
    BY <2>1 DEF FirstTryInv
<1>5. workerPc \in JobPcs \ {"verify"} => workerDoc \in Documents \ condemned
  BY JobInHand
<1>6. QED
  BY <1>2, <1>3, <1>4, <1>5, KeepsFirstTry DEF repository, deletions, worker

LEMMA StepFirstTry ==
  ASSUME IInv, FirstTryInv, [Next]_vars
  PROVE  FirstTryInv'
<1>1. CASE UNCHANGED vars
  BY <1>1 DEF FirstTryInv, FirstTry, Unborn, Points, vars, repository, vectorStore,
     deletions, submissions, worker
<1>2. QED
  BY <1>1, SubmitFirstTry, WorkingFirstTry, FinishingFirstTry, BetweenJobsFirstTry,
     DeleteFirstTry, LandFirstTry
  DEF Next, WorkerStep, ProcessJob

\* Nothing of a first attempt that can still complete is in flight.
LEMMA FirstTryInvariance == Spec => []FirstTryInv
<1>1. Init => FirstTryInv
  BY DEF Init, RepositoryInit, VectorStoreInit, FirstTryInv, FirstTry, JobPcs
<1>2. IInv /\ FirstTryInv /\ [Next]_vars => FirstTryInv'
  BY StepFirstTry
<1>3. QED
  BY <1>1, <1>2, Invariance, PTL DEF Spec

(***************************************************************************)
(* How much a search returns                                               *)
(***************************************************************************)
\* A search over documents that hold exactly the points of one attempt each
\* can see one chunk per document and part.
LEMMA VisibleCount ==
  ASSUME NEW S \in SUBSET Documents, \A d \in S : vectors[d] = Points(attemptCount[d])
  PROVE  /\ IsFiniteSet(S) /\ IsFiniteSet(Visible(S))
         /\ Cardinality(Visible(S)) = Cardinality(S) * Cardinality(Parts)
<1> DEFINE chunk == [pair \in S \X Parts |-> <<pair[1], <<attemptCount[pair[1]], pair[2]>>>>]
<1>1. IsFiniteSet(S) /\ IsFiniteSet(Parts)
  BY FiniteAssumption, FS_Subset
<1>2. chunk \in [S \X Parts -> Visible(S)]
  BY DEF Visible, Points
<1>3. \A a, b \in S \X Parts : chunk[a] = chunk[b] => a = b
  OBVIOUS
<1>4. \A c \in Visible(S) : \E pair \in S \X Parts : chunk[pair] = c
  <2>1. SUFFICES ASSUME NEW c \in Visible(S)
                 PROVE  \E pair \in S \X Parts : chunk[pair] = c
    OBVIOUS
  <2>2. PICK d \in S : c \in {d} \X vectors[d]
    BY DEF Visible
  <2>3. PICK p \in Parts : c = <<d, <<attemptCount[d], p>>>>
    BY <2>2 DEF Points
  <2>4. <<d, p>> \in S \X Parts /\ chunk[<<d, p>>] = c
    BY <2>3
  <2>5. QED
    BY <2>4
<1>5. ExistsBijection(S \X Parts, Visible(S))
  <2> HIDE DEF chunk
  <2>1. chunk \in Bijection(S \X Parts, Visible(S))
    BY <1>2, <1>3, <1>4, Fun_IsBij
  <2>2. QED
    BY <2>1 DEF ExistsBijection
<1>6. QED
  BY <1>1, <1>5, FS_Product, FS_Bijection

\* Every search sees finitely many points.
LEMMA VisibleFinite ==
  ASSUME NEW S \in SUBSET Documents, \A d \in S : IsFiniteSet(vectors[d])
  PROVE  IsFiniteSet(Visible(S))
<1> DEFINE held == UNION {vectors[d] : d \in S}
<1>1. IsFiniteSet(S)
  BY FiniteAssumption, FS_Subset
<1>2. IsFiniteSet({vectors[d] : d \in S})
  <2> DEFINE points == [d \in S |-> vectors[d]]
  <2>1. points \in Surjection(S, {vectors[d] : d \in S})
    BY Fun_IsSurj
  <2>2. QED
    BY <1>1, <2>1, FS_Surjection
<1>3. IsFiniteSet(held)
  BY <1>2, FS_UNION
<1>4. Visible(S) \subseteq S \X held
  BY DEF Visible
<1>5. QED
  BY <1>1, <1>3, <1>4, FS_Product, FS_Subset

LEMMA PointsFinite == \A n : IsFiniteSet(Points(n))
  BY FiniteAssumption, FS_Singleton, FS_Product DEF Points

\* A step adds to a document the points of at most one attempt.
LEMMA VectorsGrow ==
  ASSUME IInv, [Next]_vars, NEW d \in Documents
  PROVE  \E n \in Nat : vectors'[d] \subseteq vectors[d] \union Points(n)
<1>1. VectorStoreTypeOK /\ attempt \in Nat
  BY DEF IInv, TypeOK
<1>2. CASE UNCHANGED vectors
  BY <1>2
<1>3. CASE \E e : delete_by_document(e) \/ DeleteRaises(e)
  BY <1>1, <1>3 DEF delete_by_document, DeleteRaises, TimeOut, vectorStore, VectorStoreTypeOK
<1>4. CASE upsert(workerDoc, attempt) \/ UpsertRaises(workerDoc, attempt)
  <2>1. vectors'[d] \subseteq vectors[d] \union Points(attempt)
    BY <1>1, <1>4 DEF upsert, UpsertRaises, TimeOut, VectorStoreTypeOK
  <2>2. QED
    BY <1>1, <2>1
<1>5. CASE LateWrite
  <2>1. PICK w \in inflight : Land(w)
    BY <1>5 DEF LateWrite
  <2>2. w[2] \in Nat /\ vectors'[d] \subseteq vectors[d] \union Points(w[2])
    BY <1>1, <2>1 DEF Land, VectorStoreTypeOK
  <2>3. QED
    BY <2>2
<1>6. QED
  BY <1>2, <1>3, <1>4, <1>5
  DEF Next, vars, vectorStore, SubmitStep, SaveUpload, BuildJob, CommitJob,
      RemoveStoredFile, ApiCrash, WorkerStep, WorkerCrash, RestartWorker,
      RecoverAbandonedJobs, ClaimNextJob, ProcessJob, ReadDocument, CheckFile, PurgeVectors,
      LoadAndEmbed, UpsertChunks, CompleteJob, VerifyCompletion, CompensateVectors,
      CompensateFile, FailJob, Delete, DeletionStep, GetForDeletion, DeleteVectors,
      DeleteStoredFile, DeleteRecord

LEMMA StepFinite ==
  ASSUME IInv, QueryTypeOK, FiniteInv, [ServingNext]_servingVars
  PROVE  FiniteInv'
<1>1. \A d \in Documents : IsFiniteSet(vectors'[d])
  <2>1. SUFFICES ASSUME NEW d \in Documents
                 PROVE  IsFiniteSet(vectors'[d])
    OBVIOUS
  <2>2. PICK n \in Nat : vectors'[d] \subseteq vectors[d] \union Points(n)
    BY VectorsGrow, ServingStep
  <2>3. IsFiniteSet(vectors[d] \union Points(n))
    BY PointsFinite, FS_Union DEF FiniteInv
  <2>4. QED
    BY <2>2, <2>3, FS_Subset
<1>2. \A q \in Queries : IsFiniteSet(evidence'[q])
  <2>1. SUFFICES ASSUME NEW q \in Queries
                 PROVE  IsFiniteSet(evidence'[q])
    OBVIOUS
  <2>2. CASE evidence'[q] \in {evidence[q], {}}
    BY <2>2, FS_EmptySet DEF FiniteInv
  <2>3. CASE \E found \in Returned(q) : evidence'[q] = evidence[q] \union found
    <3>1. PICK found \in Returned(q) : evidence'[q] = evidence[q] \union found
      BY <2>3
    <3>2. found \subseteq Visible(scope[q]) /\ scope[q] \in SUBSET Documents
      BY <3>1 DEF Returned, QueryTypeOK
    <3>3. IsFiniteSet(found)
      BY <3>2, VisibleFinite, FS_Subset DEF FiniteInv
    <3>4. QED
      BY <3>1, <3>3, FS_Union DEF FiniteInv
  <2>4. QED
    BY <2>2, <2>3 DEF ServingNext, Ingest, Serve, QueryStep, StartQuery, ValidateDocument,
       Search, Retry, Respond, EndQuery, ServerCrash, QueriesVanish, queries, servingVars,
       QueryTypeOK
<1>3. QED
  BY <1>1, <1>2 DEF FiniteInv

(***************************************************************************)
(* A request without a threshold is answered from all there is             *)
(***************************************************************************)
\* The documents of a search that none of its documents' deletions and no
\* request that outlived its timeout can have disturbed hold what they should.
LEMMA ScopeIndexed ==
  ASSUME PromptInv, FirstTryInv, QueryTypeOK, QueryInv, NEW q \in Queries,
         queryPc[q] = "search", scope[q] \intersect condemned = {},
         timedOut => \A d \in scope[q] : attemptCount[d] = 1
  PROVE  \A d \in scope[q] : vectors[d] = Points(attemptCount[d])
<1>1. SUFFICES ASSUME NEW d \in scope[q]
               PROVE  vectors[d] = Points(attemptCount[d])
  OBVIOUS
<1>2. d \in Documents /\ d \notin condemned /\ docStatus[d] = "ready"
  BY DEF QueryTypeOK, QueryInv, Validated
<1>3. CASE timedOut
  BY <1>2, <1>3 DEF FirstTryInv
<1>4. CASE ~timedOut
  BY <1>2, <1>4 DEF PromptInv, Indexed
<1>5. QED
  BY <1>3, <1>4

LEMMA CountsKnown ==
  \A S \in SUBSET Documents : AtMostTopK(Cardinality(S) * Cardinality(Parts)) \in Nat
<1>1. \A S \in SUBSET Documents : Cardinality(S) \in Nat
  BY FiniteAssumption, FS_Subset, FS_CardinalityType
<1>2. Cardinality(Parts) \in Nat
  BY FiniteAssumption, FS_CardinalityType
<1>3. QED
  BY <1>1, <1>2, TopKAssumption DEF AtMostTopK

LEMMA SearchFindsAll ==
  ASSUME PromptInv, FirstTryInv, QueryTypeOK, QueryInv, FiniteInv, UNCHANGED vars,
         NEW q \in Queries, Search(q), NothingMissing
  PROVE  NothingMissing'
<1> DEFINE Enough(p) == Cardinality(evidence'[p])
                          >= AtMostTopK(Cardinality(scope'[p]) * Cardinality(Parts))
<1>1. SUFFICES ASSUME NEW p \in Queries,
                      queryPc'[p] = "assess", ~threshold'[p],
                      scope'[p] \intersect condemned = {},
                      timedOut => \A d \in scope'[p] : attemptCount[d] = 1
               PROVE  Enough(p)
  BY DEF NothingMissing, AtMostTopK, vars, repository, vectorStore, deletions
<1>2. CASE p # q \/ EndQuery(q)
  BY <1>1, <1>2 DEF Search, EndQuery, QueryTypeOK, NothingMissing
<1>3. CASE p = q /\ ~EndQuery(q)
  <2>1. PICK found \in Returned(q) :
          /\ evidence'[q] = evidence[q] \union found
          /\ queryPc[q] = "search"
          /\ UNCHANGED <<scope, threshold>>
    BY <1>3 DEF Search, QueryTypeOK
  <2>2. scope[q] \in SUBSET Documents
    BY DEF QueryTypeOK
  <2>3. \A d \in scope[q] : vectors[d] = Points(attemptCount[d])
    BY <1>1, <1>3, <2>1, ScopeIndexed
  <2>4. /\ Cardinality(found) = AtMostTopK(Cardinality(scope[q]) * Cardinality(Parts))
        /\ IsFiniteSet(found)
    BY <1>1, <1>3, <2>1, <2>2, <2>3, VisibleCount, FS_Subset DEF Returned
  <2>5. IsFiniteSet(evidence[q])
    BY DEF FiniteInv
  <2>6. IsFiniteSet(evidence'[q]) /\ found \subseteq evidence'[q]
    BY <2>1, <2>4, <2>5, FS_Union
  <2>7. Cardinality(found) <= Cardinality(evidence'[q])
    BY <2>6, FS_Subset
  <2>8. Cardinality(found) \in Nat /\ Cardinality(evidence'[q]) \in Nat
    BY <2>4, <2>6, FS_CardinalityType
  <2>9. QED
    BY <1>3, <2>1, <2>4, <2>7, <2>8
<1>4. QED
  BY <1>2, <1>3

LEMMA NothingMissingElsewhere ==
  ASSUME IInv, QueryTypeOK, QueryInv, NothingMissing, [ServingNext]_servingVars,
         \A q \in Queries : ~(Search(q) /\ UNCHANGED vars)
  PROVE  NothingMissing'
<1>1. SUFFICES ASSUME NEW q \in Queries,
                      queryPc'[q] = "assess", ~threshold'[q],
                      scope'[q] \intersect condemned' = {},
                      timedOut' => \A d \in scope'[q] : attemptCount'[d] = 1
               PROVE  Cardinality(evidence'[q])
                        >= AtMostTopK(Cardinality(scope'[q]) * Cardinality(Parts))
  BY DEF NothingMissing, AtMostTopK
<1>2. /\ queryPc[q] = "assess" /\ threshold'[q] = threshold[q]
      /\ scope'[q] = scope[q] /\ evidence'[q] = evidence[q]
  BY <1>1 DEF ServingNext, Ingest, Serve, QueryStep, StartQuery, ValidateDocument, Retry,
     Respond, EndQuery, ServerCrash, QueriesVanish, queries, servingVars, QueryTypeOK
<1>3. \A d \in scope[q] : d \in Documents /\ Validated(d)
  BY <1>2 DEF QueryInv, QueryTypeOK
<1>4. [Next]_vars /\ TypeOK
  BY ServingStep DEF IInv
<1>5. condemned \subseteq condemned' /\ (timedOut => timedOut')
  BY <1>4, TimedOutForGood, CondemnedForGood
<1>6. \A d \in scope[q] : attemptCount'[d] = attemptCount[d]
  BY <1>1, <1>2, <1>3, <1>4, StaysValidated
<1>7. QED
  BY <1>1, <1>2, <1>5, <1>6 DEF NothingMissing

\* A request without a score threshold is answered from as many chunks as its
\* documents have, up to top_k, unless one of them is being deleted: also with
\* requests to Qdrant that outlived their timeout, when no document was replayed.
THEOREM NothingIsMissing == ServingSpec => []NothingMissing
<1> DEFINE Inv == PromptInv /\ FirstTryInv /\ QueryTypeOK /\ QueryInv
           AllInv == FiniteInv /\ NothingMissing
<1>1. ServingSpec => []Inv
  BY ServingImplements, PromptInvariance, FirstTryInvariance, QueryInvariance, PTL
<1>2. ServingInit => AllInv
  BY FS_EmptySet DEF ServingInit, Init, VectorStoreInit, QueryInit, FiniteInv, NothingMissing
<1>3. Inv /\ AllInv /\ [ServingNext]_servingVars => AllInv'
  <2>1. SUFFICES ASSUME Inv, AllInv, [ServingNext]_servingVars
                 PROVE  AllInv'
    OBVIOUS
  <2>2. FiniteInv'
    BY <2>1, StepFinite DEF PromptInv
  <2>3. NothingMissing'
    BY <2>1, SearchFindsAll, NothingMissingElsewhere DEF PromptInv
  <2>4. QED
    BY <2>2, <2>3
<1>4. QED
  BY <1>1, <1>2, <1>3, PTL DEF ServingSpec

(***************************************************************************)
(* The benchmark: where its driver does what.  The measurements between the *)
(* start of the serving Worker and its end upload, poll and call; only the *)
(* crash recovery after them starts Workers and looks at the tables.       *)
(***************************************************************************)
\* The uploads before the crash recovery, and how they are numbered.
LEMMA JobNumbers ==
  ASSUME ConfigOK
  PROVE  /\ NormalAsyncJobCount \in Nat \ {0}
         /\ \A i \in 1..WarmupSamples : i \in 1..NormalAsyncJobCount
         /\ \A i \in 1..SingleSamples : WarmupSamples + i \in 1..NormalAsyncJobCount
         /\ \A r \in 1..BatchRounds :
              LET before == WarmupSamples + SingleSamples + (r - 1) * BatchSize
              IN before \in Nat /\ before + BatchSize <= NormalAsyncJobCount
<1> DEFINE all == BatchRounds * BatchSize
<1>1. /\ WarmupSamples \in Nat /\ SingleSamples \in Nat \ {0}
      /\ BatchRounds \in Nat \ {0} /\ BatchSize \in Nat \ {0}
  BY DEF ConfigOK
<1>2. all \in Nat /\ \A r \in 1..BatchRounds :
        (r - 1) * BatchSize \in Nat /\ (r - 1) * BatchSize + BatchSize <= all
  <2>1. all \in Nat
    BY <1>1
  <2>2. ASSUME NEW r \in 1..BatchRounds
        PROVE  (r - 1) * BatchSize \in Nat /\ (r - 1) * BatchSize + BatchSize <= all
    <3>1. r \in Nat /\ r >= 1 /\ BatchRounds - r \in Nat /\ r - 1 \in Nat
      BY <1>1
    <3>2. all = (r - 1) * BatchSize + BatchSize + (BatchRounds - r) * BatchSize
      BY <1>1, <3>1
    <3>3. (BatchRounds - r) * BatchSize \in Nat /\ (r - 1) * BatchSize \in Nat
      <4> DEFINE m == BatchRounds - r
                 k == r - 1
      <4>1. m \in Nat /\ k \in Nat /\ BatchSize \in Nat
        BY <1>1, <3>1
      <4> HIDE DEF m, k
      <4>2. m * BatchSize \in Nat /\ k * BatchSize \in Nat
        BY <4>1
      <4> QED
        BY <4>2 DEF m, k
    <3> DEFINE past == (r - 1) * BatchSize
               rest == (BatchRounds - r) * BatchSize
    <3>4. all = past + BatchSize + rest /\ past \in Nat /\ rest \in Nat /\ BatchSize \in Nat
      BY <1>1, <3>2, <3>3
    <3> HIDE DEF all, past, rest
    <3>5. past \in Nat /\ past + BatchSize <= all
      BY <2>1, <3>4
    <3> QED
      BY <3>5 DEF past
  <2> QED
    BY <2>1, <2>2
<1>3. NormalAsyncJobCount = WarmupSamples + SingleSamples + all + 1
  BY DEF NormalAsyncJobCount
<1> HIDE DEF all
<1> QED
  BY <1>1, <1>2, <1>3

\* The instructions of the measurements, before the serving Worker is waited for.
Routine ==
  [op : {"call", "accept", "wait"}, jobs : SUBSET (1..NormalAsyncJobCount),
   arg : {"", "ready", "running"}]

LEMMA MeasurementsRoutine ==
  ASSUME ConfigOK
  PROVE  FlattenSeq(WarmUp \o SingleDocuments \o Batches) \in Seq(Routine)
<1> DEFINE N == 1..NormalAsyncJobCount
<1>1. PostSync \in Routine /\ HealthProbes \in Routine
  BY DEF PostSync, HealthProbes, Call, Instruction, Routine
<1>2. ASSUME NEW d \in N PROVE Accept(d) \in Routine
  BY DEF Accept, Instruction, Routine
<1>3. ASSUME NEW jobs \in SUBSET N
      PROVE  WaitForStatus(jobs, "ready") \in Routine
  BY DEF WaitForStatus, Instruction, Routine
<1>4. ASSUME NEW d \in N PROVE Measured(d) \in Seq(Routine)
  <2>1. Accept(d) \in Routine /\ WaitForStatus({d}, "ready") \in Routine
    BY <1>2, <1>3
  <2> QED
    BY <2>1 DEF Measured
<1>5. <<PostSync>> \in Seq(Routine)
  BY <1>1
<1>6. ASSUME NEW i \in Nat, NEW s \in Seq(Routine), NEW t \in Seq(Routine)
      PROVE  Alternating(i, s, t) \in Seq(Routine)
  BY DEF Alternating
<1>7. /\ \A i \in 1..WarmupSamples : i \in N
      /\ \A i \in 1..SingleSamples : WarmupSamples + i \in N
      /\ {WarmupSamples, SingleSamples, BatchRounds, BatchSize} \subseteq Nat
  BY JobNumbers DEF ConfigOK
<1>8. WarmUp \in Seq(Seq(Routine))
  <2>1. ASSUME NEW i \in 1..WarmupSamples
        PROVE  Alternating(i, <<PostSync>>, Measured(i)) \in Seq(Routine)
    <3>1. i \in Nat /\ Measured(i) \in Seq(Routine)
      BY <1>4, <1>7
    <3> QED
      BY <1>5, <1>6, <3>1
  <2> DEFINE row(i) == Alternating(i, <<PostSync>>, Measured(i))
  <2>2. WarmUp = [i \in 1..WarmupSamples |-> row(i)]
    BY DEF WarmUp
  <2>3. \A i \in 1..WarmupSamples : row(i) \in Seq(Routine)
    BY <2>1
  <2> HIDE DEF row
  <2>4. WarmUp \in [1..WarmupSamples -> Seq(Routine)]
    BY <2>2, <2>3
  <2> QED
    BY <1>7, <2>4
<1>9. SingleDocuments \in Seq(Seq(Routine))
  <2>1. ASSUME NEW i \in 1..SingleSamples
        PROVE  Alternating(i, <<PostSync>>, Measured(WarmupSamples + i)) \in Seq(Routine)
    <3>1. i \in Nat /\ Measured(WarmupSamples + i) \in Seq(Routine)
      BY <1>4, <1>7
    <3> QED
      BY <1>5, <1>6, <3>1
  <2> DEFINE row(i) == Alternating(i, <<PostSync>>, Measured(WarmupSamples + i))
  <2>2. SingleDocuments = [i \in 1..SingleSamples |-> row(i)]
    BY DEF SingleDocuments
  <2>3. \A i \in 1..SingleSamples : row(i) \in Seq(Routine)
    BY <2>1
  <2> HIDE DEF row
  <2>4. SingleDocuments \in [1..SingleSamples -> Seq(Routine)]
    BY <2>2, <2>3
  <2> QED
    BY <1>7, <2>4
<1>10. Batches \in Seq(Seq(Routine))
  <2> DEFINE before(r) == WarmupSamples + SingleSamples + (r - 1) * BatchSize
             posts == [i \in 1..BatchSize |-> PostSync]
             accepts(r) == [i \in 1..BatchSize |-> Accept(before(r) + i)]
             wait(r) == WaitForStatus(before(r) + 1 .. before(r) + BatchSize, "ready")
  <2>1. ASSUME NEW r \in 1..BatchRounds
        PROVE  Alternating(r, posts, accepts(r) \o <<wait(r)>>) \in Seq(Routine)
    <3>1. before(r) \in Nat /\ before(r) + BatchSize <= NormalAsyncJobCount
          /\ NormalAsyncJobCount \in Nat
      BY JobNumbers
    <3> HIDE DEF before
    <3>2. /\ \A i \in 1..BatchSize : before(r) + i \in N
          /\ before(r) + 1 .. before(r) + BatchSize \subseteq N
      BY <1>7, <3>1
    <3>3. posts \in Seq(Routine)
      BY <1>1, <1>7
    <3>4. accepts(r) \in Seq(Routine)
      <4>1. \A i \in 1..BatchSize : Accept(before(r) + i) \in Routine
        BY <1>2, <3>2
      <4> QED
        BY <1>7, <4>1
    <3>5. <<wait(r)>> \in Seq(Routine)
      <4>1. wait(r) \in Routine
        BY <1>3, <3>2
      <4> QED
        BY <4>1
    <3> HIDE DEF posts, accepts, wait
    <3>6. accepts(r) \o <<wait(r)>> \in Seq(Routine)
      BY <3>4, <3>5
    <3>7. r \in Nat
      BY <1>7
    <3> QED
      BY <1>6, <3>3, <3>6, <3>7
  <2> DEFINE row(r) == Alternating(r, posts, accepts(r) \o <<wait(r)>>)
  <2>2. Batches = [r \in 1..BatchRounds |-> row(r)]
    BY DEF Batches
  <2>3. \A r \in 1..BatchRounds : row(r) \in Seq(Routine)
    BY <2>1
  <2>4. Batches \in [1..BatchRounds -> Seq(Routine)]
    BY <2>2, <2>3
  <2> QED
    BY <1>7, <2>4
<1>11. WarmUp \o SingleDocuments \o Batches \in Seq(Seq(Routine))
  BY <1>8, <1>9, <1>10
<1> QED
  BY <1>11, FlattenedTyped

\* Any instruction of the driver.
Instructions ==
  [op : {"call", "accept", "wait", "read", "search", "start", "join"},
   jobs : SUBSET (1..CrashJob),
   arg : {"", "ready", "running", "processing", "serve", "crash", "recover"}]

\* The last parts of the script have fixed lengths.
LEMMA RecoveryScript ==
  ASSUME ConfigOK
  PROVE  /\ CrashRecovery \in Seq(Instructions) /\ Len(CrashRecovery) = 10
         /\ Responsiveness \in Seq(Routine) /\ Len(Responsiveness) = 6
         /\ Routine \subseteq Instructions
<1>1. NormalAsyncJobCount \in Nat \ {0} /\ CrashJob = NormalAsyncJobCount + 1
  BY JobNumbers DEF CrashJob
<1>2. CrashJob \in 1..CrashJob /\ NormalAsyncJobCount \in 1..NormalAsyncJobCount
      /\ 1..NormalAsyncJobCount \subseteq 1..CrashJob
  BY <1>1
<1>3. Routine \subseteq Instructions
  BY <1>2 DEF Routine, Instructions
<1>4. /\ Accept(CrashJob) \in Instructions /\ SearchPoints(CrashJob) \in Instructions
      /\ \A m \in {"serve", "crash", "recover"} :
           StartWorker(m) \in Instructions /\ JoinWorker(m) \in Instructions
      /\ \A status \in {"ready", "running", "processing"} :
           /\ WaitForStatus({CrashJob}, status) \in Instructions
           /\ ReadDocumentStatus(CrashJob, status) \in Instructions
  BY <1>2 DEF Instructions, Accept, SearchPoints, StartWorker, JoinWorker, WaitForStatus,
     ReadDocumentStatus, Instruction
<1>5. CrashRecovery \in Seq(Instructions) /\ Len(CrashRecovery) = 10
  <2> HIDE DEF Accept
  <2> QED
    BY <1>4 DEF CrashRecovery
<1>6. /\ PostSync \in Routine /\ HealthProbes \in Routine
      /\ Accept(NormalAsyncJobCount) \in Routine
      /\ WaitForStatus({NormalAsyncJobCount}, "running") \in Routine
      /\ WaitForStatus({NormalAsyncJobCount}, "ready") \in Routine
  BY <1>2 DEF Routine, PostSync, HealthProbes, Call, Accept, WaitForStatus, Instruction
<1>7. Responsiveness \in Seq(Routine) /\ Len(Responsiveness) = 6
  BY <1>6 DEF Responsiveness
<1> QED
  BY <1>3, <1>5, <1>7

\* The instructions by their places: the start of the serving Worker, the
\* measurements, the place where it is waited for, and the crash recovery.
LEMMA ScriptLaidOut ==
  ASSUME ConfigOK
  PROVE  /\ Served \in Nat /\ Served >= 9 /\ DOMAIN Script = 1..(Served + 10)
         /\ Len(Script) = Served + 10
         /\ Script[1] = WaitForQdrant /\ Script[2] = StartWorker("serve")
         /\ \A n \in 3..(Served - 1) : Script[n] \in Routine
         /\ Script[Served] = JoinWorker("serve")
         /\ \A n \in 1..10 : Script[Served + n] = CrashRecovery[n]
<1> DEFINE X == Instructions
           H == <<WaitForQdrant, StartWorker("serve")>>
           F == FlattenSeq(WarmUp \o SingleDocuments \o Batches)
           R == Responsiveness
           J == <<JoinWorker("serve")>>
           C == CrashRecovery
<1>1. R \in Seq(Routine) /\ Len(R) = 6 /\ C \in Seq(X) /\ Len(C) = 10 /\ Routine \subseteq X
  BY RecoveryScript
<1>2. F \in Seq(Routine) /\ F \in Seq(X) /\ Len(F) \in Nat /\ R \in Seq(X)
  <2>1. F \in Seq(Routine)
    BY MeasurementsRoutine
  <2> HIDE DEF F, R, X
  <2> QED
    BY <1>1, <2>1
<1>3. H \in Seq(X) /\ Len(H) = 2 /\ J \in Seq(X) /\ Len(J) = 1
  <2>1. WaitForQdrant \in X /\ StartWorker("serve") \in X /\ JoinWorker("serve") \in X
    BY DEF WaitForQdrant, Call, StartWorker, JoinWorker, Instruction, Instructions
  <2> HIDE DEF X
  <2> QED
    BY <2>1
<1>4. H \in Seq(X) /\ F \in Seq(X) /\ R \in Seq(X) /\ J \in Seq(X) /\ C \in Seq(X)
  BY <1>1, <1>2, <1>3
<1>5. Script = H \o F \o R \o J \o C
  BY DEF Script
<1>6. H[1] = WaitForQdrant /\ H[2] = StartWorker("serve") /\ J[1] = JoinWorker("serve")
  OBVIOUS
<1> HIDE DEF X, H, F, R, J, C
<1> DEFINE L == Len(F)
           HF == H \o F
           HR == HF \o R
           HJ == HR \o J
<1>7. L \in Nat
  BY <1>2
<1>8. /\ HF \in Seq(X) /\ Len(HF) = 2 + L
      /\ \A n \in 1..2 : HF[n] = H[n]
      /\ \A n \in 1..L : HF[2 + n] = F[n]
  <2>1. HF = H \o F
    BY DEF HF
  <2> HIDE DEF HF
  <2>2. /\ HF \in Seq(X) /\ Len(HF) = Len(H) + Len(F)
        /\ \A n \in 1..Len(H) : HF[n] = H[n]
        /\ \A n \in 1..Len(F) : HF[Len(H) + n] = F[n]
    BY <1>4, <2>1
  <2> QED
    BY <1>3, <2>2
<1> HIDE DEF L, HF
<1>9. /\ HR \in Seq(X) /\ Len(HR) = 2 + L + 6
      /\ \A n \in 1..(2 + L) : HR[n] = HF[n]
      /\ \A n \in 1..6 : HR[2 + L + n] = R[n]
  <2>1. HR = HF \o R
    BY DEF HR
  <2> HIDE DEF HR
  <2>2. /\ HR \in Seq(X) /\ Len(HR) = Len(HF) + Len(R)
        /\ \A n \in 1..Len(HF) : HR[n] = HF[n]
        /\ \A n \in 1..Len(R) : HR[Len(HF) + n] = R[n]
    <3>1. HF \in Seq(X)
      BY <1>8
    <3> QED
      BY <1>4, <2>1, <3>1
  <2> QED
    BY <1>1, <1>8, <2>2
<1> HIDE DEF HR
<1>10. /\ HJ \in Seq(X) /\ Len(HJ) = 2 + L + 6 + 1
      /\ \A n \in 1..(2 + L + 6) : HJ[n] = HR[n]
      /\ HJ[2 + L + 6 + 1] = J[1]
  <2>1. HJ = HR \o J
    BY DEF HJ
  <2> HIDE DEF HJ
  <2>2. /\ HJ \in Seq(X) /\ Len(HJ) = Len(HR) + Len(J)
        /\ \A n \in 1..Len(HR) : HJ[n] = HR[n]
        /\ \A n \in 1..Len(J) : HJ[Len(HR) + n] = J[n]
    <3>1. HR \in Seq(X)
      BY <1>9
    <3> QED
      BY <1>4, <2>1, <3>1
  <2>3. Len(HR) = 2 + L + 6 /\ Len(J) = 1 /\ 1 \in 1..Len(J)
    BY <1>3, <1>9
  <2>4. HJ[Len(HR) + 1] = J[1]
    BY <2>2, <2>3
  <2> QED
    BY <2>2, <2>3, <2>4
<1> HIDE DEF HJ
<1>11. /\ Script \in Seq(X) /\ Len(Script) = 2 + L + 6 + 1 + 10
       /\ \A n \in 1..(2 + L + 6 + 1) : Script[n] = HJ[n]
       /\ \A n \in 1..10 : Script[2 + L + 6 + 1 + n] = C[n]
  <2>1. Script = HJ \o C
    BY <1>5 DEF HJ, HR, HF
  <2>2. /\ Script \in Seq(X) /\ Len(Script) = Len(HJ) + Len(C)
        /\ \A n \in 1..Len(HJ) : Script[n] = HJ[n]
        /\ \A n \in 1..Len(C) : Script[Len(HJ) + n] = C[n]
    <3>1. HJ \in Seq(X)
      BY <1>10
    <3> QED
      BY <1>4, <2>1, <3>1
  <2> QED
    BY <1>1, <1>10, <2>2
<1>12. Served = L + 9 /\ Len(Script) = L + 19
  BY <1>7, <1>11 DEF Served
<1>13. Script[1] = WaitForQdrant /\ Script[2] = StartWorker("serve")
  <2>1. ASSUME NEW n \in 1..2 PROVE Script[n] = H[n]
    <3>1. n \in 1..(2 + L) /\ n \in 1..(2 + L + 6) /\ n \in 1..(2 + L + 6 + 1)
      BY <1>7
    <3>2. Script[n] = HJ[n] /\ HJ[n] = HR[n] /\ HR[n] = HF[n] /\ HF[n] = H[n]
      BY <1>8, <1>9, <1>10, <1>11, <3>1
    <3> QED
      BY <3>2
  <2>2. 1 \in 1..2 /\ 2 \in 1..2
    OBVIOUS
  <2>3. Script[1] = H[1] /\ Script[2] = H[2]
    BY <2>1, <2>2
  <2> QED
    BY <1>6, <2>3
<1>14. Script[Served] = JoinWorker("serve")
  <2>1. /\ Served = 2 + L + 6 + 1 /\ 2 + L + 6 + 1 \in 1..(2 + L + 6 + 1)
        /\ 2 + L + 6 + 1 \in Int
    BY <1>7, <1>12
  <2>2. Script[2 + L + 6 + 1] = HJ[2 + L + 6 + 1]
    BY <1>7, <1>11, <2>1
  <2>3. HJ[2 + L + 6 + 1] = J[1]
    BY <1>7, <1>10
  <2> QED
    BY <1>6, <2>1, <2>2, <2>3
<1>15. ASSUME NEW n \in 3..(Served - 1) PROVE Script[n] \in Routine
  <2>1. n \in 1..(2 + L + 6) /\ n \in 1..(2 + L + 6 + 1)
    BY <1>7, <1>12
  <2>2. Script[n] = HR[n]
    BY <1>10, <1>11, <2>1
  <2>3. CASE n <= 2 + L
    <3>1. n \in 1..(2 + L) /\ n - 2 \in 1..L /\ n = 2 + (n - 2)
      BY <1>7, <2>1, <2>3
    <3>2. HR[n] = HF[n] /\ HF[2 + (n - 2)] = F[n - 2]
      BY <1>8, <1>9, <3>1
    <3>3. F[n - 2] \in Routine
      BY <1>2, <3>1, ElementOfSeq DEF L
    <3> QED
      BY <2>2, <3>1, <3>2, <3>3
  <2>4. CASE n > 2 + L
    <3> DEFINE k == n - (2 + L)
    <3>1. k \in 1..6 /\ n = 2 + L + k
      BY <1>7, <1>12, <2>1, <2>4
    <3> HIDE DEF k
    <3>2. HR[2 + L + k] = R[k] /\ R[k] \in Routine
      BY <1>1, <1>9, <3>1, ElementOfSeq
    <3> QED
      BY <2>2, <3>1, <3>2
  <2> QED
    BY <1>7, <2>1, <2>3, <2>4
<1>16. ASSUME NEW n \in 1..10 PROVE Script[Served + n] = CrashRecovery[n]
  <2>1. Served + n = 2 + L + 6 + 1 + n
    BY <1>7, <1>12
  <2> QED
    BY <1>11, <2>1 DEF C
<1>17. DOMAIN Script = 1..(Served + 10) /\ Len(Script) = Served + 10
  <2>1. DOMAIN Script = 1..Len(Script)
    BY <1>11
  <2> QED
    BY <1>7, <1>12, <2>1
<1> QED
  BY <1>7, <1>12, <1>13, <1>14, <1>15, <1>16, <1>17

\* What the driver is doing at each instruction of the crash recovery.
LEMMA RecoveryInstructions ==
  ASSUME ConfigOK
  PROVE  /\ Script[Served + 1] = Accept(CrashJob)
         /\ Script[Served + 2] = StartWorker("crash")
         /\ Script[Served + 3] = JoinWorker("crash")
         /\ Script[Served + 4] = WaitForStatus({CrashJob}, "running")
         /\ Script[Served + 5] = ReadDocumentStatus(CrashJob, "processing")
         /\ Script[Served + 6] = StartWorker("recover")
         /\ Script[Served + 7] = JoinWorker("recover")
         /\ Script[Served + 8] = WaitForStatus({CrashJob}, "ready")
         /\ Script[Served + 9] = ReadDocumentStatus(CrashJob, "ready")
         /\ Script[Served + 10] = SearchPoints(CrashJob)
<1>1. \A n \in 1..10 : Script[Served + n] = CrashRecovery[n]
  BY ScriptLaidOut
<1>2. /\ CrashRecovery[1] = Accept(CrashJob)
      /\ CrashRecovery[2] = StartWorker("crash")
      /\ CrashRecovery[3] = JoinWorker("crash")
      /\ CrashRecovery[4] = WaitForStatus({CrashJob}, "running")
      /\ CrashRecovery[5] = ReadDocumentStatus(CrashJob, "processing")
      /\ CrashRecovery[6] = StartWorker("recover")
      /\ CrashRecovery[7] = JoinWorker("recover")
      /\ CrashRecovery[8] = WaitForStatus({CrashJob}, "ready")
      /\ CrashRecovery[9] = ReadDocumentStatus(CrashJob, "ready")
      /\ CrashRecovery[10] = SearchPoints(CrashJob)
  BY DEF CrashRecovery
<1>3. /\ 1 \in 1..10 /\ 2 \in 1..10 /\ 3 \in 1..10 /\ 4 \in 1..10 /\ 5 \in 1..10
      /\ 6 \in 1..10 /\ 7 \in 1..10 /\ 8 \in 1..10 /\ 9 \in 1..10 /\ 10 \in 1..10
  OBVIOUS
<1> HIDE DEF CrashRecovery
<1> QED
  BY <1>1, <1>2, <1>3, Zenon

\* Where the driver starts a Worker, waits for one, uploads, polls, reads and
\* searches, with the arguments it does it with.
LEMMA Places ==
  ASSUME ConfigOK, step \in DOMAIN Script
  PROVE  /\ step \in 1..(Served + 10)
         /\ At("start") => \/ step = 2 /\ Arg = "serve"
                           \/ step = Served + 2 /\ Arg = "crash"
                           \/ step = Served + 6 /\ Arg = "recover"
         /\ At("join") => \/ step = Served /\ Arg = "serve"
                          \/ step = Served + 3 /\ Arg = "crash"
                          \/ step = Served + 7 /\ Arg = "recover"
         /\ At("accept") => \/ step <= Served /\ Jobs \subseteq 1..NormalAsyncJobCount
                            \/ step = Served + 1 /\ Jobs = {CrashJob}
         /\ At("wait") => \/ step <= Served /\ Jobs \subseteq 1..NormalAsyncJobCount
                          \/ step = Served + 4 /\ Arg = "running"
                          \/ step = Served + 8 /\ Jobs = {CrashJob} /\ Arg = "ready"
         /\ At("read") => \/ step = Served + 5 /\ Jobs = {CrashJob} /\ Arg = "processing"
                          \/ step = Served + 9 /\ Jobs = {CrashJob} /\ Arg = "ready"
         /\ At("search") => step = Served + 10 /\ Jobs = {CrashJob}
         /\ driver = "run" =>
              /\ step \in {2, Served + 2, Served + 6} => At("start")
              /\ step \in {Served, Served + 3, Served + 7} => At("join")
<1>1. Served \in Nat /\ Served >= 9 /\ step \in 1..(Served + 10)
  BY ScriptLaidOut
<1>2. CASE step = 1
  <2>1. Script[step] = WaitForQdrant
    BY <1>2, ScriptLaidOut
  <2>2. WaitForQdrant.op = "call"
    BY DEF WaitForQdrant, Call, Instruction
  <2>3. Script[step].op = "call"
    BY <2>1, <2>2
  <2> QED
    BY <1>1, <1>2, <2>3 DEF At
<1>3. CASE step = 2
  <2>1. Script[step] = StartWorker("serve")
    BY <1>3, ScriptLaidOut
  <2> QED
    BY <1>1, <1>3, <2>1 DEF At, Arg, StartWorker, Instruction
<1>4. CASE step \in 3..(Served - 1)
  <2>1. Script[step] \in Routine
    BY <1>4, ScriptLaidOut
  <2>2. /\ Script[step].op \in {"call", "accept", "wait"}
        /\ Script[step].jobs \subseteq 1..NormalAsyncJobCount
    BY <2>1 DEF Routine
  <2> QED
    BY <1>1, <1>4, <2>2 DEF At, Jobs
<1>5. CASE step = Served
  <2>1. Script[step] = JoinWorker("serve")
    BY <1>5, ScriptLaidOut
  <2> QED
    BY <1>1, <1>5, <2>1 DEF At, Arg, JoinWorker, Instruction
<1>6. CASE step \in (Served + 1)..(Served + 10)
  <2> DEFINE n == step - Served
  <2>1. n \in 1..10 /\ step = Served + n
    BY <1>1, <1>6
  <2>2. \/ n = 1 /\ Script[step] = Accept(CrashJob)
        \/ n = 2 /\ Script[step] = StartWorker("crash")
        \/ n = 3 /\ Script[step] = JoinWorker("crash")
        \/ n = 4 /\ Script[step] = WaitForStatus({CrashJob}, "running")
        \/ n = 5 /\ Script[step] = ReadDocumentStatus(CrashJob, "processing")
        \/ n = 6 /\ Script[step] = StartWorker("recover")
        \/ n = 7 /\ Script[step] = JoinWorker("recover")
        \/ n = 8 /\ Script[step] = WaitForStatus({CrashJob}, "ready")
        \/ n = 9 /\ Script[step] = ReadDocumentStatus(CrashJob, "ready")
        \/ n = 10 /\ Script[step] = SearchPoints(CrashJob)
    <3> HIDE DEF n
    <3>1. n = 1 \/ n = 2 \/ n = 3 \/ n = 4 \/ n = 5 \/ n = 6 \/ n = 7 \/ n = 8 \/ n = 9 \/ n = 10
      BY <2>1
    <3> QED
      BY <2>1, <3>1, RecoveryInstructions, Zenon
  <2> HIDE DEF n
  <2>3. CASE n = 1
    <3>1. Accept(CrashJob).op = "accept" /\ Accept(CrashJob).jobs = {CrashJob}
      BY DEF Accept, Instruction
    <3>2. Script[step].op = "accept" /\ Jobs = {CrashJob}
      BY <2>2, <2>3, <3>1 DEF Jobs
    <3> QED
      BY <1>1, <2>1, <2>3, <3>2 DEF At
  <2>4. CASE n = 2
    <3>1. Script[step].op = "start" /\ Jobs = {} /\ Arg = "crash"
      BY <2>2, <2>4 DEF Jobs, Arg, StartWorker, Instruction
    <3> QED
      BY <1>1, <2>1, <2>4, <3>1 DEF At
  <2>5. CASE n = 3
    <3>1. Script[step].op = "join" /\ Jobs = {} /\ Arg = "crash"
      BY <2>2, <2>5 DEF Jobs, Arg, JoinWorker, Instruction
    <3> QED
      BY <1>1, <2>1, <2>5, <3>1 DEF At
  <2>6. CASE n = 4
    <3>1. Script[step].op = "wait" /\ Jobs = {CrashJob} /\ Arg = "running"
      BY <2>2, <2>6 DEF Jobs, Arg, WaitForStatus, Instruction
    <3> QED
      BY <1>1, <2>1, <2>6, <3>1 DEF At
  <2>7. CASE n = 5
    <3>1. Script[step].op = "read" /\ Jobs = {CrashJob} /\ Arg = "processing"
      BY <2>2, <2>7 DEF Jobs, Arg, ReadDocumentStatus, Instruction
    <3> QED
      BY <1>1, <2>1, <2>7, <3>1 DEF At
  <2>8. CASE n = 6
    <3>1. Script[step].op = "start" /\ Jobs = {} /\ Arg = "recover"
      BY <2>2, <2>8 DEF Jobs, Arg, StartWorker, Instruction
    <3> QED
      BY <1>1, <2>1, <2>8, <3>1 DEF At
  <2>9. CASE n = 7
    <3>1. Script[step].op = "join" /\ Jobs = {} /\ Arg = "recover"
      BY <2>2, <2>9 DEF Jobs, Arg, JoinWorker, Instruction
    <3> QED
      BY <1>1, <2>1, <2>9, <3>1 DEF At
  <2>10. CASE n = 8
    <3>1. Script[step].op = "wait" /\ Jobs = {CrashJob} /\ Arg = "ready"
      BY <2>2, <2>10 DEF Jobs, Arg, WaitForStatus, Instruction
    <3> QED
      BY <1>1, <2>1, <2>10, <3>1 DEF At
  <2>11. CASE n = 9
    <3>1. Script[step].op = "read" /\ Jobs = {CrashJob} /\ Arg = "ready"
      BY <2>2, <2>11 DEF Jobs, Arg, ReadDocumentStatus, Instruction
    <3> QED
      BY <1>1, <2>1, <2>11, <3>1 DEF At
  <2>12. CASE n = 10
    <3>1. SearchPoints(CrashJob).op = "search" /\ SearchPoints(CrashJob).jobs = {CrashJob}
      BY DEF SearchPoints, Instruction
    <3>2. Script[step].op = "search" /\ Jobs = {CrashJob}
      BY <2>2, <2>12, <3>1 DEF Jobs
    <3> QED
      BY <1>1, <2>1, <2>12, <3>2 DEF At
  <2>13. \/ n = 1 \/ n = 2 \/ n = 3 \/ n = 4 \/ n = 5
         \/ n = 6 \/ n = 7 \/ n = 8 \/ n = 9 \/ n = 10
    BY <2>1
  <2> QED
    BY <2>3, <2>4, <2>5, <2>6, <2>7, <2>8, <2>9, <2>10, <2>11, <2>12, <2>13, Zenon
<1>7. \/ step = 1 \/ step = 2 \/ step \in 3..(Served - 1)
      \/ step = Served \/ step \in (Served + 1)..(Served + 10)
  BY <1>1
<1> QED
  BY <1>2, <1>3, <1>4, <1>5, <1>6, <1>7

(***************************************************************************)
(* The benchmark: what a step of a Worker, of the driver or of an upload   *)
(* does to the jobs and their points.                                      *)
(***************************************************************************)
\* What a step of the Worker process does to the jobs and to its document: it
\* requeues what an earlier process left running,
Requeues ==
  /\ workerPc = "starting" /\ workerPc' \in {"idle", "down"}
  /\ \A d \in Documents : \/ jobStatus'[d] = jobStatus[d]
                          \/ jobStatus[d] = "running" /\ jobStatus'[d] = "pending"
  /\ UNCHANGED <<attemptCount, vectors>>

\* takes a pending job,
Takes(d) ==
  /\ workerPc = "idle" /\ jobStatus[d] = "pending"
  /\ jobStatus' = [jobStatus EXCEPT ![d] = "running"]
  /\ attemptCount' = [attemptCount EXCEPT ![d] = @ + 1]
  /\ \/ workerPc' = "read" /\ workerDoc' = d /\ attempt' = attemptCount[d] + 1
     \/ workerPc' = "down"
  /\ UNCHANGED vectors

TakesNone ==
  /\ workerPc = "idle" /\ workerPc' = "down"
  /\ UNCHANGED <<jobStatus, attemptCount, vectors>>

\* works on the one it holds,
Works ==
  /\ workerPc \in JobPcs /\ workerPc' \in JobPcs
  /\ UNCHANGED <<workerDoc, attempt, attemptCount>>
  /\ \/ UNCHANGED jobStatus /\ workerPc # "verify"
     \/ /\ workerPc' = "verify" /\ jobStatus[workerDoc] = "running"
        /\ jobStatus' = [jobStatus EXCEPT ![workerDoc] = "ready"]
  /\ workerPc' # "read"
  /\ workerPc' = "load" => vectors'[workerDoc] = {}
  /\ workerPc' = "upsert" => workerPc = "load" /\ UNCHANGED vectors
  /\ workerPc' = "complete" =>
       workerPc = "upsert" /\ vectors'[workerDoc] = vectors[workerDoc] \union Points(attempt)
  /\ workerPc' = "verify" => workerPc = "complete" /\ UNCHANGED vectors

\* or leaves it: ready or failed, unless the process ends with it.
Leaves ==
  /\ workerPc \in JobPcs /\ workerPc' \in {"idle", "down"}
  /\ \/ UNCHANGED jobStatus
     \/ \E status \in {"ready", "failed"} :
          /\ jobStatus[workerDoc] = "running"
          /\ jobStatus' = [jobStatus EXCEPT ![workerDoc] = status]
          /\ status = "ready" => workerPc = "complete"
  /\ workerPc' = "idle" => jobStatus'[workerDoc] \in {"ready", "failed"}
  /\ UNCHANGED <<attemptCount, vectors>>

\* There is nothing else that a step of IngestionWorker does to them.
LEMMA WorkerEffects ==
  ASSUME IInv, RecoverAbandonedJobs \/ ClaimNextJob \/ ProcessJob
  PROVE  /\ Requeues \/ TakesNone \/ (\E d \in Documents : Takes(d)) \/ Works \/ Leaves
         /\ UNCHANGED <<deletions, submissions, restarts>>
<1>1. UNCHANGED <<deletions, submissions, restarts>>
  BY DEF RecoverAbandonedJobs, ClaimNextJob, ProcessJob, ReadDocument, CheckFile,
     PurgeVectors, LoadAndEmbed, UpsertChunks, CompleteJob, VerifyCompletion,
     CompensateVectors, CompensateFile, FailJob, outsideWorker
<1>2. /\ jobStatus \in [Documents -> JobStatuses \union {"absent"}]
      /\ vectors \in [Documents -> SUBSET (Nat \X Parts)]
      /\ workerPc \in JobPcs => workerDoc \in Documents
  BY DEF IInv, TypeOK, RepositoryTypeOK, VectorStoreTypeOK, WorkerInv
<1>3. CASE RecoverAbandonedJobs
  <2>1. Requeues
    BY <1>2, <1>3 DEF RecoverAbandonedJobs, recover_running_jobs, Recoverable, repository,
       vectorStore, WorkerLeaves, Requeues
  <2> QED
    BY <1>1, <2>1
<1>4. CASE ClaimNextJob
  <2>1. TakesNone \/ \E d \in Documents : Takes(d)
    BY <1>4 DEF ClaimNextJob, claim_next_job, Claimable, repository, vectorStore,
       WorkerLeaves, Takes, TakesNone
  <2> QED
    BY <1>1, <2>1
<1>5. CASE ReadDocument \/ CheckFile \/ PurgeVectors \/ LoadAndEmbed \/ UpsertChunks
           \/ CompensateVectors \/ CompensateFile
  <2>1. /\ workerPc \in JobPcs \ {"verify"} /\ workerPc' \in JobPcs \ {"verify", "read"}
        /\ UNCHANGED <<workerDoc, attempt, attemptCount, jobStatus>>
    BY <1>5 DEF ReadDocument, CheckFile, PurgeVectors, LoadAndEmbed, UpsertChunks,
       CompensateVectors, CompensateFile, WorkerAt, JobPcs, repository
  <2>2. workerPc' = "load" => vectors'[workerDoc] = {}
    BY <1>2, <1>5, <2>1 DEF ReadDocument, CheckFile, PurgeVectors, LoadAndEmbed, UpsertChunks,
       CompensateVectors, CompensateFile, WorkerAt, delete_by_document
  <2>3. workerPc' = "upsert" => workerPc = "load" /\ UNCHANGED vectors
    BY <1>5 DEF ReadDocument, CheckFile, PurgeVectors, LoadAndEmbed, UpsertChunks,
       CompensateVectors, CompensateFile, WorkerAt, vectorStore
  <2>4. workerPc' = "complete" =>
          workerPc = "upsert" /\ vectors'[workerDoc] = vectors[workerDoc] \union Points(attempt)
    BY <1>2, <1>5, <2>1 DEF ReadDocument, CheckFile, PurgeVectors, LoadAndEmbed, UpsertChunks,
       CompensateVectors, CompensateFile, WorkerAt, upsert
  <2>5. Works
    BY <2>1, <2>2, <2>3, <2>4 DEF Works
  <2> QED
    BY <1>1, <2>5
<1>6. CASE CompleteJob \/ FailJob \/ VerifyCompletion
  <2>1. UNCHANGED <<attemptCount, vectors>> /\ workerPc \in JobPcs
    BY <1>6 DEF CompleteJob, FailJob, VerifyCompletion, complete_job, fail_job, Finish,
       repository, vectorStore, JobPcs
  <2>2. CASE CompleteJob /\ workerPc' = "verify"
    <3>1. /\ workerPc = "complete" /\ UNCHANGED <<workerDoc, attempt>>
          /\ jobStatus[workerDoc] = "running"
      BY <2>2 DEF CompleteJob, WorkerAt, WorkerLeaves, IInv, WorkerInv, JobPcs
    <3>2. \/ UNCHANGED jobStatus
          \/ jobStatus' = [jobStatus EXCEPT ![workerDoc] = "ready"]
      BY <2>2 DEF CompleteJob, complete_job, Finish, repository
    <3>3. Works
      BY <2>1, <2>2, <3>1, <3>2 DEF Works, JobPcs
    <3> QED
      BY <1>1, <3>3
  <2>3. CASE CompleteJob /\ workerPc' # "verify"
    <3>1. /\ workerPc = "complete" /\ workerPc' = "idle" /\ jobStatus[workerDoc] = "running"
          /\ jobStatus' = [jobStatus EXCEPT ![workerDoc] = "ready"]
      BY <2>3 DEF CompleteJob, complete_job, Finish, WorkerAt, WorkerLeaves
    <3>2. Leaves
      BY <1>2, <2>1, <3>1 DEF Leaves
    <3> QED
      BY <1>1, <3>2
  <2>4. CASE FailJob
    <3>1. /\ workerPc' \in {"idle", "down"}
          /\ \/ /\ jobStatus[workerDoc] = "running"
                /\ jobStatus' = [jobStatus EXCEPT ![workerDoc] = "failed"]
             \/ UNCHANGED jobStatus /\ workerPc' = "down"
      BY <2>4 DEF FailJob, fail_job, Finish, WorkerLeaves, repository
    <3>2. Leaves
      BY <1>2, <2>1, <3>1 DEF Leaves
    <3> QED
      BY <1>1, <3>2
  <2>5. CASE VerifyCompletion
    <3>1. /\ workerPc' \in {"idle", "down"} /\ UNCHANGED jobStatus
          /\ workerPc' = "idle" => jobStatus[workerDoc] = "ready"
      BY <2>5 DEF VerifyCompletion, WorkerLeaves, repository
    <3>2. Leaves
      BY <1>2, <2>1, <3>1 DEF Leaves
    <3> QED
      BY <1>1, <3>2
  <2> QED
    BY <1>6, <2>2, <2>3, <2>4, <2>5
<1> QED
  BY <1>3, <1>4, <1>5, <1>6 DEF ProcessJob

\* An instruction that neither starts nor awaits a process is not at the place
\* of one that does.
LEMMA OtherPlaces ==
  ASSUME ConfigOK, NEW op \in {"call", "accept", "wait", "read", "search"}, At(op)
  PROVE  /\ driver = "run" /\ step \in 1..(Served + 10)
         /\ step \notin {2, Served, Served + 2, Served + 3, Served + 6, Served + 7}
<1>1. driver = "run" /\ step \in DOMAIN Script /\ ~At("start") /\ ~At("join")
  BY DEF At
<1> QED
  BY <1>1, Places

\* The driver goes on to the next instruction.
Advances == driver = "run" /\ driver' = "run" /\ step' = step + 1 /\ UNCHANGED killFailed

\* An instruction that only calls, polls or reads leaves the process alone.
LEMMA PassesOver ==
  ASSUME ConfigOK, StageInv, UNCHANGED <<worker, process>>, Advances,
         step \in 1..(Served + 10),
         step \notin {2, Served, Served + 2, Served + 3, Served + 6, Served + 7}
  PROVE  StageInv'
<1>1. Served \in Nat /\ Served >= 9
  BY ScriptLaidOut
<1>2. step' = step + 1 /\ UNCHANGED <<workerPc, mode, exitCode, processed>> /\ driver = "run"
      /\ driver' = "run"
  BY DEF worker, process, Advances
<1>3. step' \in 1..(Served + 11) /\ processed' \in Nat
  BY <1>1, <1>2 DEF StageInv
<1>4. step' <= 2 => mode' = "none"
  BY <1>1, <1>2 DEF StageInv
<1>5. step' \in 3..(Served + 2) => mode' = "serve"
  BY <1>1, <1>2 DEF StageInv
<1>6. step' \in (Served + 3)..(Served + 6) => mode' = "crash"
  BY <1>1, <1>2 DEF StageInv
<1>7. step' >= Served + 7 => mode' = "recover"
  BY <1>1, <1>2 DEF StageInv
<1>8. workerPc' # "down" => mode' = "serve" /\ step' <= Served
  BY <1>1, <1>2 DEF StageInv
<1>9. step' \in {Served + 1, Served + 2} \union (Served + 8)..(Served + 11)
        => exitCode' = 0
  BY <1>1, <1>2 DEF StageInv
<1>10. step' \in (Served + 4)..(Served + 6) => exitCode' = CrashCode
  BY <1>1, <1>2 DEF StageInv
<1> QED
  BY <1>2, <1>3, <1>4, <1>5, <1>6, <1>7, <1>8, <1>9, <1>10 DEF StageInv

\* A step of the Worker process leaves the driver where it is.
WorkerOnly == WorkerWorks \/ WorkerEnds \/ (WorkerDies /\ UNCHANGED driving)

\* Only a process that is alive takes steps, and the driver is where it may be.
LEMMA WorkerOnlyStage ==
  ASSUME ConfigOK, StageInv, WorkerOnly
  PROVE  StageInv' /\ workerPc # "down"
<1>1. Served \in Nat /\ Served >= 9
  BY ScriptLaidOut
<1>2. workerPc # "down" /\ UNCHANGED <<driving, mode>>
  <2>1. CASE WorkerWorks
    BY <2>1 DEF WorkerWorks, RecoverAbandonedJobs, ClaimNextJob, ProcessJob, ReadDocument,
       CheckFile, PurgeVectors, LoadAndEmbed, UpsertChunks, CompleteJob, VerifyCompletion,
       CompensateVectors, CompensateFile, FailJob
  <2>2. CASE WorkerEnds
    BY <2>2 DEF WorkerEnds, AtCrashHook
  <2>3. CASE WorkerDies /\ UNCHANGED driving
    BY <2>3 DEF WorkerDies, WorkerCrash
  <2> QED
    BY <2>1, <2>2, <2>3 DEF WorkerOnly
<1>3. processed' \in Nat
  BY DEF WorkerOnly, WorkerWorks, WorkerEnds, WorkerDies, StageInv
<1>4. UNCHANGED <<driver, step, killFailed, mode>>
  BY <1>2 DEF driving
<1>5. /\ \/ mode = "serve" /\ step <= Served
         \/ driver = "run" /\ step \in {Served + 3, Served + 7}
      /\ driver = "ended" => killFailed
  BY <1>2 DEF StageInv
<1>6. ~(driver = "run" /\ step \in {Served + 1, Served + 2} \union (Served + 8)..(Served + 11))
      /\ ~(driver = "run" /\ step \in (Served + 4)..(Served + 6))
  BY <1>1, <1>5
<1> QED
  BY <1>2, <1>3, <1>4, <1>5, <1>6 DEF StageInv

\* Every step of the driver and of the Workers keeps the processes in their stages.
LEMMA StageStep ==
  ASSUME ConfigOK, StageInv, [BenchmarkNext]_bvars
  PROVE  StageInv'
<1>1. Served \in Nat /\ Served >= 9 /\ CrashCode = 91
  BY ScriptLaidOut DEF CrashCode
<1>2. CASE WorkerOnly
  BY <1>2, WorkerOnlyStage
<1>3. CASE CallReturns \/ WaitForJobStatus \/ ReadDocumentRow \/ SearchChunks
  <2>1. \E op \in {"call", "accept", "wait", "read", "search"} : At(op)
    BY <1>3 DEF CallReturns, WaitForJobStatus, ReadDocumentRow, SearchChunks
  <2>2. UNCHANGED <<worker, process>> /\ step' = step + 1 /\ UNCHANGED <<driver, killFailed>>
    BY <1>3 DEF CallReturns, WaitForJobStatus, ReadDocumentRow, SearchChunks, Advance, vars
  <2> QED
    BY <2>1, <2>2, OtherPlaces, PassesOver DEF Advances
<1>4. CASE AcceptAsync
  <2>1. At("accept") /\ UNCHANGED <<worker, process>>
    BY <1>4 DEF AcceptAsync, SaveUpload, BuildJob, CommitJob, RemoveStoredFile, vars
  <2>2. \/ UNCHANGED driving
        \/ Advance
        \/ Raise
    BY <1>4 DEF AcceptAsync
  <2>3. driver = "run" /\ step \in 1..(Served + 10)
        /\ step \notin {2, Served, Served + 2, Served + 3, Served + 6, Served + 7}
    BY <2>1, OtherPlaces
  <2>4. CASE UNCHANGED driving
    BY <2>1, <2>4 DEF StageInv, driving, worker, process
  <2>5. CASE Advance
    BY <2>1, <2>3, <2>5, PassesOver DEF Advance, Advances
  <2>6. CASE Raise
    BY <1>1, <2>1, <2>3, <2>6 DEF StageInv, Raise, worker, process
  <2> QED
    BY <2>2, <2>4, <2>5, <2>6
<1>5. CASE StartWorkerProcess
  <2>1. /\ driver = "run" /\ driver' = "run" /\ step' = step + 1 /\ UNCHANGED killFailed
        /\ workerPc' = "starting" /\ mode' = Arg /\ processed' = 0 /\ exitCode' = 0
        /\ At("start")
    BY <1>5 DEF StartWorkerProcess, At, Advance, WorkerLeaves
  <2>2. \/ step = 2 /\ Arg = "serve"
        \/ step = Served + 2 /\ Arg = "crash"
        \/ step = Served + 6 /\ Arg = "recover"
    BY <2>1, Places DEF At
  <2>3. CASE step = 2 /\ Arg = "serve"
    BY <1>1, <2>1, <2>3 DEF StageInv
  <2>4. CASE step = Served + 2 /\ Arg = "crash"
    BY <1>1, <2>1, <2>4 DEF StageInv
  <2>5. CASE step = Served + 6 /\ Arg = "recover"
    BY <1>1, <2>1, <2>5 DEF StageInv
  <2> QED
    BY <2>2, <2>3, <2>4, <2>5
<1>6. CASE WaitForWorker
  <2>1. /\ At("join") /\ workerPc = "down"
        /\ UNCHANGED <<workerPc, mode, exitCode, processed>>
        /\ \/ exitCode = ExpectedCode /\ Advance
           \/ Raise
    BY <1>6 DEF WaitForWorker, vars, worker, process
  <2>2. driver = "run" /\ \/ step = Served /\ Arg = "serve"
                          \/ step = Served + 3 /\ Arg = "crash"
                          \/ step = Served + 7 /\ Arg = "recover"
    BY <2>1, Places DEF At
  <2>3. CASE Raise
    BY <1>1, <2>1, <2>2, <2>3 DEF StageInv, Raise
  <2>4. CASE exitCode = ExpectedCode /\ Advance
    <3>1. driver' = "run" /\ step' = step + 1 /\ UNCHANGED killFailed
      BY <2>2, <2>4 DEF Advance
    <3>2. CASE step = Served /\ Arg = "serve"
      <4>1. exitCode = 0
        BY <2>4, <3>2 DEF ExpectedCode
      <4> QED
        BY <1>1, <2>1, <2>2, <3>1, <3>2, <4>1 DEF StageInv
    <3>3. CASE step = Served + 3 /\ Arg = "crash"
      <4>1. exitCode = CrashCode
        BY <2>4, <3>3 DEF ExpectedCode
      <4> QED
        BY <1>1, <2>1, <2>2, <3>1, <3>3, <4>1 DEF StageInv
    <3>4. CASE step = Served + 7 /\ Arg = "recover"
      <4>1. exitCode = 0
        BY <2>4, <3>4 DEF ExpectedCode
      <4> QED
        BY <1>1, <2>1, <2>2, <3>1, <3>4, <4>1 DEF StageInv
    <3> QED
      BY <2>2, <3>2, <3>3, <3>4
  <2> QED
    BY <2>1, <2>3, <2>4
<1>7. CASE WaitTimesOut
  <2>1. /\ workerPc # "down" /\ driver' = "leave" /\ UNCHANGED <<step, killFailed>>
        /\ UNCHANGED <<mode, processed>>
        /\ \/ workerPc' = "down"
           \/ mode = "serve" /\ UNCHANGED workerPc
    BY <1>7 DEF WaitTimesOut, Raise, WorkerDies, WorkerCrash, WorkerLeaves, vars, worker, process
  <2> QED
    BY <1>1, <2>1 DEF StageInv
<1>8. CASE GiveUp
  <2>1. /\ driver' = "leave" /\ UNCHANGED <<step, killFailed, workerPc, mode, exitCode, processed>>
        /\ \E op \in {"call", "wait", "read", "search", "start"} : At(op)
    BY <1>8 DEF GiveUp, Raise, vars, worker, process
  <2>2. driver = "run" /\ ~At("join") /\ step \in DOMAIN Script
    BY <2>1 DEF At
  <2>3. step \notin {Served, Served + 3, Served + 7}
    BY <2>2, Places
  <2> QED
    BY <1>1, <2>1, <2>3 DEF StageInv
<1>9. CASE Complete
  <2>1. /\ driver' = "leave" /\ UNCHANGED <<step, killFailed, workerPc, mode, exitCode, processed>>
        /\ step = Served + 11
    BY <1>9, ScriptLaidOut DEF Complete, vars, worker, process
  <2> QED
    BY <1>1, <2>1 DEF StageInv
<1>10. CASE LeaveDirectories
  <2>1. driver' = "finally" /\ UNCHANGED <<step, killFailed, workerPc, mode, exitCode, processed>>
        /\ driver = "leave"
    BY <1>10 DEF LeaveDirectories, worker, process
  <2> QED
    BY <1>1, <2>1 DEF StageInv
<1>11. CASE TerminateWorker
  <2>1. /\ driver = "finally" /\ UNCHANGED <<step, mode, processed>>
        /\ \/ workerPc' = "down" /\ UNCHANGED <<driver, killFailed>>
           \/ UNCHANGED <<workerPc, exitCode>> /\ driver' = "ended" /\ killFailed' = TRUE
    BY <1>11 DEF TerminateWorker, WorkerDies, WorkerCrash, WorkerLeaves, driving, vars, worker,
       process
  <2> QED
    BY <1>1, <2>1 DEF StageInv
<1>12. CASE RemoveCollections
  <2>1. /\ driver = "finally" /\ driver' = "ended"
        /\ UNCHANGED <<step, killFailed, workerPc, mode, exitCode, processed>>
        /\ workerPc = "down" \/ mode # "serve"
    BY <1>12 DEF RemoveCollections, worker, process
  <2> QED
    BY <1>1, <2>1 DEF StageInv
<1>13. CASE UNCHANGED <<vars, driving, process>>
  BY <1>13 DEF StageInv, vars, worker, driving, process
<1> QED
  BY <1>2, <1>3, <1>4, <1>5, <1>6, <1>7, <1>8, <1>9, <1>10, <1>11, <1>12, <1>13
  DEF BenchmarkNext, DriverStep, WorkerOnly, bvars

\* The process goes on with its jobs, counting those it is done with,
GoesOn ==
  /\ Requeues \/ TakesNone \/ (\E d \in Documents : Takes(d)) \/ Works \/ Leaves
  /\ workerPc = "idle" => processed < JobLimit
  /\ processed' = IF workerPc \in JobPcs /\ workerPc' = "idle"
                  THEN processed + 1 ELSE processed
  /\ workerPc' = "down" => exitCode' = 1

\* or ends, with a request it was waiting for carried out or not.
Stops ==
  /\ workerPc' = "down"
  /\ UNCHANGED <<processed, jobStatus, attemptCount>>
  /\ \/ UNCHANGED vectors
     \/ workerPc \in {"purge", "compensate_vectors", "upsert"}
  /\ exitCode' = CrashCode => AtCrashHook
  /\ exitCode' = 0 => workerPc = "idle" /\ processed = JobLimit

\* Those are all the steps of a Worker process, and each is one of AsyncIngestion.
LEMMA WorkerOnlyEffects ==
  ASSUME IInv, WorkerOnly
  PROVE  /\ Next
         /\ GoesOn \/ Stops
         /\ UNCHANGED <<driving, mode, submitPc>>
<1>1. CASE WorkerWorks
  <2>1. RecoverAbandonedJobs \/ ClaimNextJob \/ ProcessJob
    BY <1>1 DEF WorkerWorks
  <2>2. workerPc = "idle" => processed < JobLimit
    BY <1>1 DEF WorkerWorks, RecoverAbandonedJobs, ProcessJob, ReadDocument, CheckFile,
       PurgeVectors, LoadAndEmbed, UpsertChunks, CompleteJob, VerifyCompletion,
       CompensateVectors, CompensateFile, FailJob
  <2>3. Next
    BY <2>1 DEF Next, WorkerStep
  <2>4. UNCHANGED submitPc
    BY <2>1, WorkerEffects DEF submissions
  <2>5. GoesOn
    BY <1>1, <2>1, <2>2, WorkerEffects DEF GoesOn, WorkerWorks
  <2> QED
    BY <1>1, <2>3, <2>4, <2>5 DEF WorkerWorks
<1>2. CASE WorkerEnds
  <2>1. WorkerCrash
    BY <1>2 DEF WorkerEnds, WorkerCrash, AtCrashHook
  <2>2. Stops
    BY <1>2 DEF Stops, WorkerEnds, WorkerLeaves, repository, vectorStore, CrashCode
  <2>3. UNCHANGED <<driving, mode, submitPc>>
    BY <1>2 DEF WorkerEnds, outsideWorker, submissions
  <2> QED
    BY <2>1, <2>2, <2>3 DEF Next
<1>3. CASE WorkerDies /\ UNCHANGED driving
  <2>1. WorkerCrash
    BY <1>3 DEF WorkerDies
  <2>2. Stops
    BY <1>3, <2>1 DEF Stops, WorkerDies, WorkerCrash, WorkerLeaves, repository, vectorStore,
       CrashCode
  <2>3. UNCHANGED <<driving, mode, submitPc>>
    BY <1>3, <2>1 DEF WorkerDies, WorkerCrash, outsideWorker, submissions
  <2> QED
    BY <2>1, <2>2, <2>3 DEF Next
<1> QED
  BY <1>1, <1>2, <1>3 DEF WorkerOnly

\* No step of the Worker takes back that a job has finished, and a job counted
\* as processed has finished and is no longer held.
LEMMA FinishedForGood ==
  ASSUME IInv, GoesOn \/ Stops, NEW d \in Documents
  PROVE  /\ Finished(d) => Finished(d)'
         /\ Finished(d) /\ ~WorkerHolds(d) => ~WorkerHolds(d)'
         /\ WorkerHolds(d) /\ workerPc' = "idle" => Finished(d)' /\ ~WorkerHolds(d)'
<1>1. /\ jobStatus \in [Documents -> JobStatuses \union {"absent"}]
      /\ workerPc \in JobPcs => workerDoc \in Documents
  BY DEF IInv, TypeOK, RepositoryTypeOK, WorkerInv
<1>2. "idle" \notin JobPcs /\ "down" \notin JobPcs /\ "starting" \notin JobPcs
      /\ "read" \in JobPcs
  BY DEF JobPcs
<1>3. CASE Stops
  BY <1>2, <1>3 DEF Stops, Finished, WorkerHolds
<1>4. CASE Requeues \/ TakesNone
  BY <1>2, <1>4 DEF Finished, WorkerHolds, Requeues, TakesNone
<1>5. CASE \E e \in Documents : Takes(e)
  BY <1>1, <1>2, <1>5 DEF Finished, WorkerHolds, Takes
<1>6. CASE Works
  BY <1>1, <1>2, <1>6 DEF Finished, WorkerHolds, Works
<1>7. CASE Leaves
  BY <1>1, <1>2, <1>7 DEF Finished, WorkerHolds, Leaves
<1> QED
  BY <1>3, <1>4, <1>5, <1>6, <1>7 DEF GoesOn

(***************************************************************************)
(* The benchmark: the invariant.                                           *)
(***************************************************************************)
\* The upload for the crash is the last of them.
LEMMA CrashJobLast ==
  ASSUME ConfigAssumption
  PROVE  /\ ConfigOK /\ NormalAsyncJobCount \in Nat \ {0}
         /\ CrashJob \in Documents /\ CrashJob \notin 1..NormalAsyncJobCount
         /\ 1..NormalAsyncJobCount = Documents \ {CrashJob}
         /\ IsFiniteSet(Documents)
<1>1. ConfigOK /\ NormalAsyncJobCount \in Nat \ {0} /\ CrashJob = NormalAsyncJobCount + 1
      /\ Documents = 1..CrashJob
  BY JobNumbers DEF ConfigAssumption, CrashJob
<1>2. IsFiniteSet(1..CrashJob)
  BY <1>1, FS_Interval
<1> QED
  BY <1>1, <1>2

\* Which instructions there are while each process is the last one started.
LEMMA Stages ==
  ASSUME ConfigOK, StageInv
  PROVE  /\ Served \in Nat /\ Served >= 9
         /\ mode = "serve" => step \in 3..(Served + 2)
         /\ mode = "crash" => step \in (Served + 3)..(Served + 6)
         /\ mode = "recover" => step \in (Served + 7)..(Served + 11)
         /\ workerPc # "down" => mode \in {"serve", "crash", "recover"}
         /\ mode \in {"none", "serve", "crash", "recover"}
<1>1. Served \in Nat /\ Served >= 9
  BY ScriptLaidOut
<1> QED
  BY <1>1 DEF StageInv

\* Each job the serving Worker counts is one more that has finished, so that with
\* exit status 0 all its jobs have.
LEMMA ServedByWorker ==
  ASSUME ConfigAssumption, StageInv, driver = "run", IInv, ServedInv, WorkerOnly
  PROVE  ServedInv'
<1> DEFINE Done == {d \in Documents : Finished(d) /\ ~WorkerHolds(d)}
           N == NormalAsyncJobCount
<1>1. /\ ConfigOK /\ N \in Nat \ {0} /\ CrashJob \in Documents /\ CrashJob \notin 1..N
      /\ 1..N = Documents \ {CrashJob} /\ IsFiniteSet(Documents)
  BY CrashJobLast
<1>2. /\ GoesOn \/ Stops
      /\ UNCHANGED <<step, mode, submitPc>>
  BY WorkerOnlyEffects DEF driving
<1>3. /\ Served \in Nat /\ workerPc # "down" /\ processed \in Nat
      /\ mode = "serve" => step <= Served
  BY <1>1, Stages, WorkerOnlyStage DEF StageInv
<1>4. \A d \in Documents : Finished(d) => Finished(d)'
  BY <1>2, FinishedForGood
<1>5. IsFiniteSet(Done) /\ Done \subseteq Done' /\ IsFiniteSet(Done')
  <2>1. Done \subseteq Done'
    BY <1>2, FinishedForGood
  <2>2. Done \in SUBSET Documents /\ Done' \in SUBSET Documents
    OBVIOUS
  <2> HIDE DEF Done
  <2> QED
    BY <1>1, <2>1, <2>2, FS_Subset
<1>6. Cardinality(Done) \in Nat /\ Cardinality(Done') \in Nat
      /\ Cardinality(Done) <= Cardinality(Done')
  <2> HIDE DEF Done
  <2> QED
    BY <1>5, FS_CardinalityType, FS_Subset
<1>7. (step <= Served => submitPc[CrashJob] = "new")'
  BY <1>2 DEF ServedInv
<1>8. (step <= Served + 2 =>
         jobStatus[CrashJob] \in {"absent", "pending"} /\ attemptCount[CrashJob] = 0)'
  <2> SUFFICES ASSUME step <= Served + 2
               PROVE  jobStatus'[CrashJob] = "absent" /\ attemptCount'[CrashJob] = 0
    BY <1>2
  <2>1. step <= Served
    BY <1>1, <1>3, Stages
  <2>2. jobStatus[CrashJob] = "absent" /\ attemptCount[CrashJob] = 0
    BY <1>1, <1>3, <2>1 DEF ServedInv, IInv, SubmissionInv, Unborn
  <2>3. /\ jobStatus \in [Documents -> JobStatuses \union {"absent"}]
        /\ attemptCount \in [Documents -> Nat]
    BY DEF IInv, TypeOK, RepositoryTypeOK
  <2> QED
    BY <1>1, <1>2, <2>2, <2>3 DEF GoesOn, Stops, Requeues, TakesNone, Takes, Works, Leaves
<1>9. (mode = "serve" => processed <= Cardinality(Done))'
  <2> SUFFICES ASSUME mode = "serve"
               PROVE  processed' <= Cardinality(Done')
    BY <1>2
  <2>1. processed <= Cardinality(Done)
    BY DEF ServedInv
  <2>2. CASE ~(workerPc \in JobPcs /\ workerPc' = "idle")
    <3>1. processed' = processed
      BY <1>2, <2>2 DEF GoesOn, Stops
    <3> HIDE DEF Done
    <3> QED
      BY <1>3, <1>6, <2>1, <3>1
  <2>3. CASE workerPc \in JobPcs /\ workerPc' = "idle"
    <3>1. processed' = processed + 1
      BY <1>2, <2>3 DEF GoesOn, Stops
    <3>2. PICK d \in Documents : WorkerHolds(d)
      BY <2>3 DEF IInv, WorkerInv, WorkerHolds
    <3>3. d \in Done' /\ d \notin Done
      BY <1>2, <2>3, <3>2, FinishedForGood
    <3> HIDE DEF Done
    <3>4. Cardinality(Done \union {d}) = Cardinality(Done) + 1
      BY <1>5, <3>3, FS_AddElement
    <3>5. Done \union {d} \in SUBSET Done'
      BY <1>5, <3>3
    <3>6. Cardinality(Done \union {d}) <= Cardinality(Done')
      BY <1>5, <3>5, FS_Subset
    <3> QED
      BY <1>3, <1>6, <2>1, <3>1, <3>4, <3>6
  <2> QED
    BY <2>2, <2>3
<1>10. (\/ mode = "serve" /\ workerPc = "down" /\ exitCode = 0
        \/ mode \in {"crash", "recover"}
        => \A d \in 1..NormalAsyncJobCount : Finished(d))'
  <2>1. CASE mode \in {"crash", "recover"}
    BY <1>1, <1>4, <2>1 DEF ServedInv
  <2>2. CASE mode = "serve" /\ workerPc' = "down" /\ exitCode' = 0
    <3>1. workerPc = "idle" /\ processed = N
      BY <1>2, <2>2 DEF GoesOn, Stops, JobLimit
    <3>2. jobStatus[CrashJob] \in {"absent", "pending"}
      BY <1>3, <2>2, Stages, <1>1 DEF ServedInv
    <3>3. Done \in SUBSET (1..N) /\ N <= Cardinality(Done)
      BY <1>1, <2>2, <3>1, <3>2 DEF ServedInv, Finished
    <3>4. IsFiniteSet(1..N) /\ Cardinality(1..N) = N
      BY <1>1, FS_Interval
    <3>5. Done = 1..N
      <4> HIDE DEF Done, N
      <4>1. Cardinality(Done) <= Cardinality(1..N)
        BY <3>3, <3>4, FS_Subset
      <4>2. Cardinality(1..N) = Cardinality(Done)
        BY <1>1, <1>6, <3>3, <3>4, <4>1
      <4> QED
        BY <3>3, <3>4, <4>2, FS_Subset
    <3> QED
      BY <1>1, <1>4, <3>5
  <2> QED
    BY <1>2, <2>1, <2>2
<1> QED
  BY <1>7, <1>8, <1>9, <1>10 DEF ServedInv

\* When the serving Worker has finished all its jobs, only one is left to take.
LEMMA OnlyCrashJobLeft ==
  ASSUME ConfigAssumption, ServedInv, mode \in {"crash", "recover"}, NEW d \in Documents,
         jobStatus[d] = "pending"
  PROVE  d = CrashJob
<1>1. d \in 1..NormalAsyncJobCount => Finished(d)
  BY DEF ServedInv
<1> QED
  BY <1>1, CrashJobLast DEF Finished

\* The Worker that is to crash takes the one job left and dies holding it.
LEMMA CrashByWorker ==
  ASSUME ConfigAssumption, StageInv, IInv, ServedInv, CrashInv, WorkerOnly
  PROVE  CrashInv'
<1>1. /\ GoesOn \/ Stops
      /\ UNCHANGED mode
  BY WorkerOnlyEffects
<1>2. /\ workerPc # "down" /\ processed \in Nat
      /\ CrashJob \in Documents
      /\ attemptCount \in [Documents -> Nat]
  BY CrashJobLast, WorkerOnlyStage DEF StageInv, IInv, TypeOK, RepositoryTypeOK
<1> SUFFICES ASSUME mode = "crash"
             PROVE  CrashInv'
  BY <1>1 DEF CrashInv
<1>3. /\ attemptCount[CrashJob] = IF workerPc \in JobPcs \/ processed # 0 THEN 1 ELSE 0
      /\ workerPc \in JobPcs => workerDoc = CrashJob
  BY <1>2 DEF CrashInv
<1>4. /\ "idle" \notin JobPcs /\ "down" \notin JobPcs /\ "starting" \notin JobPcs
      /\ "read" \in JobPcs
  BY DEF JobPcs
<1>5. workerPc' # "down" =>
        /\ attemptCount'[CrashJob] = IF workerPc' \in JobPcs \/ processed' # 0 THEN 1 ELSE 0
        /\ workerPc' \in JobPcs => workerDoc' = CrashJob
  <2> SUFFICES ASSUME workerPc' # "down"
               PROVE  /\ attemptCount'[CrashJob] =
                           IF workerPc' \in JobPcs \/ processed' # 0 THEN 1 ELSE 0
                      /\ workerPc' \in JobPcs => workerDoc' = CrashJob
    OBVIOUS
  <2>1. GoesOn
    BY <1>1 DEF Stops
  <2>2. /\ processed' = IF workerPc \in JobPcs /\ workerPc' = "idle"
                        THEN processed + 1 ELSE processed
        /\ workerPc = "idle" => processed = 0
    BY <1>2, <2>1 DEF GoesOn, JobLimit
  <2>3. CASE Requeues
    BY <1>3, <1>4, <2>2, <2>3 DEF Requeues
  <2>4. CASE TakesNone
    BY <2>4 DEF TakesNone
  <2>5. CASE \E d \in Documents : Takes(d)
    <3>1. PICK d \in Documents : Takes(d)
      BY <2>5
    <3>2. d = CrashJob
      BY <3>1, OnlyCrashJobLeft DEF Takes
    <3> QED
      BY <1>2, <1>3, <1>4, <2>2, <3>1, <3>2 DEF Takes
  <2>6. CASE Works
    BY <1>3, <1>4, <2>2, <2>6 DEF Works
  <2>7. CASE Leaves
    BY <1>2, <1>3, <1>4, <2>2, <2>7 DEF Leaves
  <2> QED
    BY <2>1, <2>3, <2>4, <2>5, <2>6, <2>7 DEF GoesOn
<1>6. workerPc' = "down" /\ exitCode' = CrashCode =>
        jobStatus'[CrashJob] = "running" /\ attemptCount'[CrashJob] = 1
  <2> SUFFICES ASSUME workerPc' = "down", exitCode' = CrashCode
               PROVE  jobStatus'[CrashJob] = "running" /\ attemptCount'[CrashJob] = 1
    OBVIOUS
  <2>1. Stops /\ workerPc = "complete"
    BY <1>1 DEF GoesOn, CrashCode, Stops, AtCrashHook
  <2>2. workerDoc = CrashJob /\ jobStatus[workerDoc] = "running"
    BY <1>3, <2>1 DEF IInv, WorkerInv, JobPcs
  <2> QED
    BY <1>3, <2>1, <2>2 DEF Stops, JobPcs
<1> QED
  BY <1>5, <1>6 DEF CrashInv

\* The next one takes it for the second time, and writes after it has purged.
LEMMA RecoveryByWorker ==
  ASSUME ConfigAssumption, StageInv, driver = "run", IInv, ServedInv, RecoveryInv, WorkerOnly
  PROVE  RecoveryInv'
<1>1. /\ GoesOn \/ Stops
      /\ UNCHANGED <<mode, step>>
  BY WorkerOnlyEffects DEF driving
<1>2. /\ workerPc # "down" /\ processed \in Nat /\ ConfigOK
      /\ CrashJob \in Documents
      /\ attemptCount \in [Documents -> Nat]
      /\ jobStatus \in [Documents -> JobStatuses \union {"absent"}]
  BY CrashJobLast, WorkerOnlyStage DEF StageInv, IInv, TypeOK, RepositoryTypeOK
<1> SUFFICES ASSUME mode = "recover"
             PROVE  RecoveryInv'
  BY <1>1 DEF RecoveryInv
<1>3. ~(step >= Served + 9)
  BY <1>2, Stages DEF StageInv
<1>4. /\ "idle" \notin JobPcs /\ "down" \notin JobPcs /\ "starting" \notin JobPcs
      /\ {"read", "load", "upsert", "complete", "verify"} \subseteq JobPcs
  BY DEF JobPcs
<1>5. /\ workerPc \in {"starting", "idle"} /\ processed = 0 => attemptCount[CrashJob] = 1
      /\ workerPc \in JobPcs =>
           /\ workerDoc = CrashJob /\ attempt = 2 /\ attemptCount[CrashJob] = 2
           /\ workerPc \in {"load", "upsert"} => vectors[CrashJob] = {}
           /\ workerPc \in {"complete", "verify"} => vectors[CrashJob] = Points(2)
      /\ jobStatus[CrashJob] = "ready" =>
           attemptCount[CrashJob] = 2 /\ vectors[CrashJob] = Points(2)
  BY DEF RecoveryInv
<1>6. workerPc \in JobPcs \ {"verify"} => jobStatus[workerDoc] = "running"
  BY DEF IInv, WorkerInv
<1> DEFINE First == workerPc' \in {"starting", "idle"} /\ processed' = 0
                      => attemptCount'[CrashJob] = 1
           Second == workerPc' \in JobPcs =>
             /\ workerDoc' = CrashJob /\ attempt' = 2 /\ attemptCount'[CrashJob] = 2
             /\ workerPc' \in {"load", "upsert"} => vectors'[CrashJob] = {}
             /\ workerPc' \in {"complete", "verify"} => vectors'[CrashJob] = Points(2)
           Third == jobStatus'[CrashJob] = "ready" =>
             attemptCount'[CrashJob] = 2 /\ vectors'[CrashJob] = Points(2)
<1> SUFFICES First /\ Second /\ Third
  BY <1>1, <1>3, Zenon DEF RecoveryInv, Points
<1>7. CASE Stops
  <2>1. First /\ Second
    BY <1>4, <1>7 DEF Stops
  <2>2. Third
    BY <1>4, <1>5, <1>6, <1>7 DEF Stops, JobPcs
  <2> QED
    BY <2>1, <2>2
<1>8. CASE GoesOn
  <2>1. /\ processed' = IF workerPc \in JobPcs /\ workerPc' = "idle"
                        THEN processed + 1 ELSE processed
        /\ workerPc = "idle" => processed = 0
    BY <1>2, <1>8 DEF GoesOn, JobLimit
  <2>2. CASE Requeues
    BY <1>2, <1>4, <1>5, <2>1, <2>2 DEF Requeues
  <2>3. CASE TakesNone
    BY <1>4, <1>5, <2>3 DEF TakesNone
  <2>4. CASE \E d \in Documents : Takes(d)
    <3>1. PICK d \in Documents : Takes(d)
      BY <2>4
    <3>2. d = CrashJob
      BY <3>1, OnlyCrashJobLeft DEF Takes
    <3>3. workerPc = "idle" /\ attemptCount'[CrashJob] = 2 /\ jobStatus'[CrashJob] = "running"
      BY <1>2, <1>5, <2>1, <3>1, <3>2 DEF Takes
    <3> QED
      BY <1>2, <1>4, <1>5, <2>1, <3>1, <3>2, <3>3 DEF Takes
  <2>5. CASE Works
    <3>1. First
      BY <1>4, <2>5 DEF Works
    <3>2. Second
      BY <1>4, <1>5, <2>5 DEF Works
    <3>3. Third
      BY <1>2, <1>4, <1>5, <1>6, <2>5 DEF Works
    <3> QED
      BY <3>1, <3>2, <3>3
  <2>6. CASE Leaves
    <3>1. First
      BY <1>2, <1>4, <2>1, <2>6 DEF Leaves
    <3>2. Second
      BY <1>4, <2>6 DEF Leaves
    <3>3. Third
      BY <1>2, <1>4, <1>5, <2>6 DEF Leaves
    <3> QED
      BY <3>1, <3>2, <3>3
  <2> QED
    BY <1>8, <2>2, <2>3, <2>4, <2>5, <2>6 DEF GoesOn
<1> QED
  BY <1>1, <1>7, <1>8

\* submit inserts at most the two rows of its own upload, whatever fails in it.
LEMMA SubmitEffects ==
  ASSUME IInv, NEW d \in Documents,
         SaveUpload(d) \/ BuildJob(d) \/ CommitJob(d) \/ RemoveStoredFile(d)
  PROVE  /\ Next /\ UNCHANGED <<worker, vectors>>
         /\ \A e \in Documents \ {d} :
              /\ submitPc'[e] = submitPc[e]
              /\ jobStatus'[e] = jobStatus[e] /\ attemptCount'[e] = attemptCount[e]
         /\ \/ jobStatus'[d] = jobStatus[d] /\ attemptCount'[d] = attemptCount[d]
            \/ jobStatus[d] = "absent" /\ jobStatus'[d] = "pending" /\ attemptCount'[d] = 0
<1>1. Next
  BY DEF Next, SubmitStep
<1>2. UNCHANGED <<worker, vectors>>
  BY DEF SaveUpload, BuildJob, CommitJob, RemoveStoredFile, vectorStore
<1>3. /\ submitPc \in [Documents -> SubmitPcs]
      /\ jobStatus \in [Documents -> JobStatuses \union {"absent"}]
      /\ attemptCount \in [Documents -> Nat]
  BY DEF IInv, TypeOK, RepositoryTypeOK
<1>4. \A e \in Documents \ {d} : submitPc'[e] = submitPc[e]
  BY <1>3 DEF SaveUpload, BuildJob, CommitJob, RemoveStoredFile, SubmitAt
<1>5. \/ UNCHANGED <<jobStatus, attemptCount>>
      \/ /\ jobStatus[d] = "absent"
         /\ jobStatus' = [jobStatus EXCEPT ![d] = "pending"]
         /\ attemptCount' = [attemptCount EXCEPT ![d] = 0]
  BY DEF SaveUpload, BuildJob, CommitJob, RemoveStoredFile, repository,
     create_document_and_job, IInv, SubmissionInv, Unborn
<1> QED
  BY <1>1, <1>2, <1>3, <1>4, <1>5

\* An upload that the driver accepts: neither of the two Workers of the crash
\* recovery is running yet.
LEMMA AcceptKeeps ==
  ASSUME ConfigAssumption, StageInv, IInv, ServedInv, At("accept"), NEW d \in Jobs,
         SaveUpload(d) \/ BuildJob(d) \/ CommitJob(d) \/ RemoveStoredFile(d),
         UNCHANGED <<driving, process>>
  PROVE  IInv' /\ ServedInv' /\ CrashInv' /\ RecoveryInv'
<1>1. /\ ConfigOK /\ Served \in Nat
      /\ CrashJob \in Documents /\ CrashJob \notin 1..NormalAsyncJobCount
      /\ 1..NormalAsyncJobCount = Documents \ {CrashJob}
  BY CrashJobLast, ScriptLaidOut
<1>2. \/ step <= Served /\ Jobs \subseteq 1..NormalAsyncJobCount
      \/ step = Served + 1 /\ Jobs = {CrashJob}
  BY <1>1, Places DEF At
<1>3. d \in Documents /\ (d = CrashJob => step = Served + 1)
  BY <1>1, <1>2
<1>4. mode \notin {"crash", "recover"} /\ UNCHANGED <<step, mode, processed, exitCode>>
  BY <1>1, <1>2, Stages DEF driving, process
<1>5. /\ Next /\ UNCHANGED <<workerPc, workerDoc>>
      /\ \A e \in Documents \ {d} :
           /\ submitPc'[e] = submitPc[e]
           /\ jobStatus'[e] = jobStatus[e] /\ attemptCount'[e] = attemptCount[e]
      /\ \/ jobStatus'[d] = jobStatus[d] /\ attemptCount'[d] = attemptCount[d]
         \/ jobStatus[d] = "absent" /\ jobStatus'[d] = "pending" /\ attemptCount'[d] = 0
  BY <1>3, SubmitEffects DEF worker
<1>6. IInv'
  BY <1>5, StepInv
<1>7. \A e \in Documents : (Finished(e) <=> Finished(e)') /\ (WorkerHolds(e) <=> WorkerHolds(e)')
  BY <1>5 DEF Finished, WorkerHolds
<1>8. ServedInv'
  <2>1. (step <= Served => submitPc[CrashJob] = "new")'
    BY <1>1, <1>3, <1>4, <1>5 DEF ServedInv
  <2>2. (step <= Served + 2 =>
           jobStatus[CrashJob] \in {"absent", "pending"} /\ attemptCount[CrashJob] = 0)'
    BY <1>1, <1>4, <1>5 DEF ServedInv
  <2>3. (mode = "serve" =>
           processed <= Cardinality({e \in Documents : Finished(e) /\ ~WorkerHolds(e)}))'
    <3>1. {e \in Documents : Finished(e) /\ ~WorkerHolds(e)}
            = {e \in Documents : Finished(e)' /\ ~WorkerHolds(e)'}
      BY <1>7
    <3>2. mode = "serve" =>
            processed <= Cardinality({e \in Documents : Finished(e) /\ ~WorkerHolds(e)})
      BY DEF ServedInv
    <3> QED
      BY <1>4, <3>1, <3>2
  <2>4. (\/ mode = "serve" /\ workerPc = "down" /\ exitCode = 0
         \/ mode \in {"crash", "recover"}
         => \A e \in 1..NormalAsyncJobCount : Finished(e))'
    BY <1>1, <1>4, <1>5, <1>7 DEF ServedInv
  <2> QED
    BY <2>1, <2>2, <2>3, <2>4 DEF ServedInv
<1> QED
  BY <1>4, <1>6, <1>8 DEF CrashInv, RecoveryInv

\* A process that is started finds the rows and the points as they were left.
LEMMA StartKeeps ==
  ASSUME ConfigAssumption, StageInv, IInv, ServedInv, CrashInv, StartWorkerProcess
  PROVE  IInv' /\ ServedInv' /\ CrashInv' /\ RecoveryInv'
<1>1. /\ ConfigOK /\ Served \in Nat /\ Served >= 9 /\ IsFiniteSet(Documents)
  BY CrashJobLast, ScriptLaidOut
<1>2. /\ At("start") /\ step' = step + 1 /\ workerPc' = "starting" /\ workerDoc' = None
      /\ attempt' = 0 /\ mode' = Arg /\ processed' = 0 /\ exitCode' = 0
      /\ UNCHANGED <<docStatus, jobStatus, attemptCount, createdAt, vectors, inflight, timedOut,
                     files, deletePc, deleteDoc, condemned, submitPc, clock, restarts>>
  BY DEF StartWorkerProcess, Advance, WorkerLeaves, repository, vectorStore, outsideWorker,
     deletions, submissions
<1>3. \/ step = 2 /\ Arg = "serve"
      \/ step = Served + 2 /\ Arg = "crash"
      \/ step = Served + 6 /\ Arg = "recover"
  BY <1>1, <1>2, Places DEF At
<1>4. workerPc = "down" /\ driver = "run"
  BY <1>1, <1>2, <1>3 DEF StageInv, At
<1>5. "starting" \notin JobPcs /\ "starting" \in WorkerPcs /\ "down" \notin JobPcs
  BY DEF JobPcs, WorkerPcs
<1>6. IInv'
  BY <1>2, <1>5 DEF IInv, TypeOK, RepositoryTypeOK, VectorStoreTypeOK, DeletionTypeOK,
     JobDocumentAgree, SubmissionInv, Unborn, WorkerInv, OneRunningJob, NoStrandedJob,
     CondemnedInv, DeletionInv
<1>7. \A e \in Documents : Finished(e)' <=> Finished(e)
  BY <1>2 DEF Finished
<1>8. ServedInv'
  <2>1. (mode = "serve" =>
           processed <= Cardinality({e \in Documents : Finished(e) /\ ~WorkerHolds(e)}))'
    <3> DEFINE Done == {e \in Documents : Finished(e) /\ ~WorkerHolds(e)}
    <3>1. Done' \in SUBSET Documents
      OBVIOUS
    <3> HIDE DEF Done
    <3>2. Cardinality(Done') \in Nat
      BY <1>1, <3>1, FS_Subset, FS_CardinalityType
    <3>3. 0 <= Cardinality(Done')
      BY <3>2
    <3> QED
      BY <1>2, <3>3 DEF Done
  <2>2. (\/ mode = "serve" /\ workerPc = "down" /\ exitCode = 0
         \/ mode \in {"crash", "recover"}
         => \A e \in 1..NormalAsyncJobCount : Finished(e))'
    <3> SUFFICES ASSUME mode' \in {"crash", "recover"}
                 PROVE  \A e \in 1..NormalAsyncJobCount : Finished(e)
      BY <1>2, <1>7 DEF Finished
    <3>1. step = Served + 2 \/ step = Served + 6
      BY <1>2, <1>3
    <3>2. \/ mode = "serve" /\ exitCode = 0
          \/ mode = "crash"
      BY <1>1, <1>4, <3>1 DEF StageInv
    <3> QED
      BY <1>4, <3>2 DEF ServedInv
  <2>3. step' <= Served => step <= Served
    BY <1>1, <1>2, <1>3
  <2>4. step' <= Served + 2 => step <= Served + 2
    BY <1>1, <1>2, <1>3
  <2> QED
    BY <1>2, <2>1, <2>2, <2>3, <2>4 DEF ServedInv
<1>9. CrashInv'
  <2>1. mode' = "crash" => step = Served + 2
    BY <1>2, <1>3
  <2>2. mode' = "crash" => attemptCount[CrashJob] = 0
    BY <1>1, <2>1 DEF ServedInv
  <2> QED
    BY <1>2, <1>5, <2>2 DEF CrashInv
<1>10. RecoveryInv'
  <2> SUFFICES ASSUME mode' = "recover"
               PROVE  /\ attemptCount[CrashJob] = 1 /\ jobStatus[CrashJob] = "running"
                      /\ ~(step' >= Served + 9)
    BY <1>2, <1>5 DEF RecoveryInv
  <2>1. step = Served + 6
    BY <1>2, <1>3
  <2>2. mode = "crash" /\ exitCode = CrashCode
    BY <1>1, <1>4, <2>1 DEF StageInv
  <2> QED
    BY <1>1, <1>2, <1>4, <2>1, <2>2 DEF CrashInv
<1> QED
  BY <1>6, <1>8, <1>9, <1>10

\* The driver goes on without touching the tables, the points or a process; it
\* does not get past the last wait before the job is ready.
LEMMA PassKeeps ==
  ASSUME ConfigAssumption, StageInv, IInv, ServedInv, CrashInv, RecoveryInv,
         UNCHANGED <<vars, process>>, step' = step + 1,
         step = Served + 8 => jobStatus[CrashJob] = "ready"
  PROVE  IInv' /\ ServedInv' /\ CrashInv' /\ RecoveryInv'
<1>1. /\ ConfigOK /\ Served \in Nat /\ Served >= 9 /\ step \in Nat
  BY CrashJobLast, ScriptLaidOut DEF StageInv
<1>2. IInv'
  BY StepInv
<1>3. UNCHANGED <<mode, processed, exitCode, workerPc, workerDoc, attempt, jobStatus,
                  attemptCount, vectors, submitPc>>
  BY DEF vars, process, worker, repository, vectorStore, submissions
<1>4. /\ step' <= Served => step <= Served
      /\ step' <= Served + 2 => step <= Served + 2
      /\ step' >= Served + 9 => step >= Served + 9 \/ jobStatus[CrashJob] = "ready"
  BY <1>1
<1>5. ServedInv'
  BY <1>3, <1>4 DEF ServedInv, Finished, WorkerHolds
<1>6. CrashInv'
  BY <1>3 DEF CrashInv
<1>7. RecoveryInv'
  BY <1>3, <1>4 DEF RecoveryInv, Points
<1> QED
  BY <1>2, <1>5, <1>6, <1>7

\* While the driver runs, every step of its own or of a Worker keeps what is
\* known of the jobs and of the points of the last one.
LEMMA RunKeeps ==
  ASSUME ConfigAssumption, StageInv, driver = "run" => IInv /\ ServedInv /\ CrashInv /\ RecoveryInv,
         [BenchmarkNext]_bvars, driver' = "run"
  PROVE  IInv' /\ ServedInv' /\ CrashInv' /\ RecoveryInv'
<1>1. driver = "run"
  BY DEF BenchmarkNext, DriverStep, CallReturns, AcceptAsync, WaitForJobStatus,
     ReadDocumentRow, SearchChunks, StartWorkerProcess, WaitForWorker, WaitTimesOut, GiveUp,
     Complete, LeaveDirectories, TerminateWorker, RemoveCollections, WorkerWorks, WorkerEnds,
     driving, bvars, At, Raise, Advance
<1>2. ConfigOK /\ IInv /\ ServedInv /\ CrashInv /\ RecoveryInv
  BY <1>1, CrashJobLast
<1>3. /\ Served \in Nat /\ Served >= 9
      /\ At("wait") /\ step = Served + 8 => Jobs = {CrashJob} /\ Arg = "ready"
      /\ step = Served + 8 /\ driver = "run" => At("wait")
  <2>1. Served \in Nat /\ Served >= 9
    BY <1>2, ScriptLaidOut
  <2>2. At("wait") /\ step = Served + 8 => Jobs = {CrashJob} /\ Arg = "ready"
    BY <1>2, <2>1, Places DEF At
  <2>3. step = Served + 8 => step \in DOMAIN Script /\ Script[step].op = "wait"
    <3>1. DOMAIN Script = 1..(Served + 10)
      BY <1>2, ScriptLaidOut
    <3>2. Script[Served + 8].op = "wait"
      BY <1>2, RecoveryInstructions DEF WaitForStatus, Instruction
    <3> QED
      BY <2>1, <3>1, <3>2
  <2> QED
    BY <2>1, <2>2, <2>3 DEF At
<1>4. CASE WorkerOnly
  <2>1. IInv'
    BY <1>2, <1>4, StepInv, WorkerOnlyEffects
  <2> QED
    BY <1>1, <1>2, <1>4, <2>1, ServedByWorker, CrashByWorker, RecoveryByWorker
<1>5. CASE AcceptAsync
  <2>1. At("accept") /\ UNCHANGED process
    BY <1>5 DEF AcceptAsync
  <2>2. step # Served + 8
    BY <1>3, <2>1 DEF At
  <2>3. CASE UNCHANGED driving /\ \E d \in Jobs :
               SaveUpload(d) \/ BuildJob(d) \/ CommitJob(d) \/ RemoveStoredFile(d)
    <3>1. PICK d \in Jobs : SaveUpload(d) \/ BuildJob(d) \/ CommitJob(d) \/ RemoveStoredFile(d)
      BY <2>3
    <3> QED
      BY <1>2, <2>1, <2>3, <3>1, AcceptKeeps
  <2>4. CASE Advance /\ UNCHANGED vars
    BY <1>2, <2>1, <2>2, <2>4, PassKeeps DEF Advance
  <2>5. ~Raise
    BY DEF Raise
  <2> QED
    BY <1>5, <2>3, <2>4, <2>5 DEF AcceptAsync
<1>6. CASE StartWorkerProcess
  BY <1>2, <1>6, StartKeeps
<1>7. CASE WaitForJobStatus
  <2>1. step = Served + 8 => jobStatus[CrashJob] = "ready"
    BY <1>3, <1>7 DEF WaitForJobStatus
  <2> QED
    BY <1>2, <1>7, <2>1, PassKeeps DEF WaitForJobStatus, Advance
<1>8. CASE CallReturns \/ ReadDocumentRow \/ SearchChunks \/ WaitForWorker
  <2>1. ~At("wait") /\ step' = step + 1 /\ UNCHANGED <<vars, process>>
    BY <1>8 DEF CallReturns, ReadDocumentRow, SearchChunks, WaitForWorker, At, Advance, Raise
  <2>2. step # Served + 8
    BY <1>1, <1>3, <2>1
  <2> QED
    BY <1>2, <2>1, <2>2, PassKeeps
<1>9. CASE UNCHANGED <<vars, driving, process>>
  <2>1. IInv'
    BY <1>2, <1>9, StepInv
  <2>2. UNCHANGED <<step, mode, processed, exitCode, workerPc, workerDoc, attempt, jobStatus,
                    attemptCount, vectors, submitPc>>
    BY <1>9 DEF driving, vars, process, worker, repository, vectorStore, submissions
  <2> QED
    BY <1>2, <2>1, <2>2 DEF ServedInv, CrashInv, RecoveryInv, Finished, WorkerHolds, Points
<1>10. ~(WaitTimesOut \/ GiveUp \/ Complete \/ LeaveDirectories \/ TerminateWorker
         \/ RemoveCollections)
  BY <1>1 DEF WaitTimesOut, GiveUp, Complete, LeaveDirectories, TerminateWorker,
     RemoveCollections, Raise
<1> QED
  BY <1>4, <1>5, <1>6, <1>7, <1>8, <1>9, <1>10 DEF BenchmarkNext, DriverStep, WorkerOnly, bvars

\* No observation of the crash recovery disagrees but the number of results, and
\* that only when the document has more chunks than one search returns.
LEMMA PassedKeeps ==
  ASSUME ConfigAssumption, BenchmarkInv, [BenchmarkNext]_bvars
  PROVE  PassedInv'
<1>1. /\ PassedInv /\ ConfigOK /\ StageInv /\ CrashJob \in Documents
      /\ Served \in Nat /\ Served >= 9 /\ Served' = Served
  BY CrashJobLast, ScriptLaidOut DEF BenchmarkInv
<1>b. passed \in BOOLEAN
  BY <1>1 DEF PassedInv
<1>c. limit' = limit /\ limit \in SearchLimits /\ limit \in Nat
  BY <1>1 DEF BenchmarkNext, bvars, PassedInv, ConfigAssumption
<1>a. ASSUME passed' = passed,
             step' = step \/ (step' = step + 1 /\ step # Served + 10)
      PROVE  PassedInv'
  BY <1>1, <1>a, <1>c DEF PassedInv, StageInv
<1>2. CASE WaitForJobStatus
  <2>1. At("wait") /\ driver = "run" /\ \A d \in Jobs : jobStatus[d] = Arg
    BY <1>2 DEF WaitForJobStatus, At
  <2>5. step # Served + 10
    BY <1>1, <2>1, Places, CrashJobLast DEF At
  <2>2. Jobs = {CrashJob} /\ Arg = "ready" => step = Served + 8
    BY <1>1, <2>1, Places, CrashJobLast DEF At
  <2>3. Jobs = {CrashJob} /\ Arg = "ready" => mode = "recover" /\ jobStatus[CrashJob] = "ready"
    BY <1>1, <2>1, <2>2 DEF StageInv
  <2>4. Jobs = {CrashJob} /\ Arg = "ready" => attemptCount[CrashJob] = 2
    BY <2>1, <2>3 DEF BenchmarkInv, RecoveryInv
  <2> QED
    <3>1. passed' = (passed /\ (Jobs = {CrashJob} /\ Arg = "ready" => attemptCount[CrashJob] = 2))
          /\ step' = step + 1
      BY <1>2 DEF WaitForJobStatus, Advance
    <3>2. passed' = passed
      BY <1>b, <2>4, <3>1
    <3> QED
      BY <1>a, <2>5, <3>1, <3>2
<1>3. CASE ReadDocumentRow
  <2>1. At("read") /\ driver = "run" /\ IInv
    BY <1>3 DEF ReadDocumentRow, At, BenchmarkInv
  <2>2. /\ Jobs = {CrashJob}
        /\ \/ step = Served + 5 /\ Arg = "processing"
           \/ step = Served + 9 /\ Arg = "ready"
    BY <1>1, <2>1, Places DEF At
  <2>5. ASSUME docStatus[CrashJob] = Arg
        PROVE  passed' = passed /\ step' = step + 1 /\ step # Served + 10
    <3>1. passed' = (passed /\ \A d \in {CrashJob} : docStatus[d] = Arg)
      BY <1>3, <2>2 DEF ReadDocumentRow
    <3>2. step' = step + 1 /\ step # Served + 10
      BY <1>1, <1>3, <2>2 DEF ReadDocumentRow, Advance
    <3> QED
      BY <1>b, <2>5, <3>1, <3>2
  <2>3. CASE step = Served + 5 /\ Arg = "processing"
    <3>1. mode = "crash" /\ workerPc = "down" /\ exitCode = CrashCode
      BY <1>1, <2>1, <2>3 DEF StageInv
    <3>2. jobStatus[CrashJob] = "running"
      BY <2>1, <3>1 DEF BenchmarkInv, CrashInv
    <3>3. docStatus[CrashJob] = "processing"
      BY <1>1, <2>1, <3>2 DEF IInv, JobDocumentAgree, ActiveJobStatuses
    <3> QED
      BY <1>a, <2>5, <2>3, <3>3
  <2>4. CASE step = Served + 9 /\ Arg = "ready"
    <3>1. mode = "recover" /\ step >= Served + 9
      BY <1>1, <2>4 DEF StageInv
    <3>2. jobStatus[CrashJob] = "ready"
      BY <2>1, <3>1 DEF BenchmarkInv, RecoveryInv
    <3>3. docStatus[CrashJob] = "ready"
      BY <1>1, <2>1, <3>2 DEF IInv, JobDocumentAgree, ActiveJobStatuses
    <3> QED
      BY <1>a, <2>5, <2>4, <3>3
  <2> QED
    BY <2>2, <2>3, <2>4
<1>4. CASE SearchChunks
  <2>1. At("search") /\ driver = "run"
    BY <1>4 DEF SearchChunks, At
  <2>2. step = Served + 10 /\ Jobs = {CrashJob}
    BY <1>1, <2>1, Places DEF At
  <2>3. mode = "recover" /\ step >= Served + 9
    BY <1>1, <2>2 DEF StageInv
  <2>4. vectors[CrashJob] = Points(2)
    BY <2>1, <2>3 DEF BenchmarkInv, RecoveryInv
  <2>5. Cardinality(Points(2)) = Cardinality(Parts) /\ Cardinality(Parts) \in Nat
    <3>1. IsFiniteSet(Parts)
      BY DEF ConfigAssumption
    <3>2. IsFiniteSet({2}) /\ Cardinality({2}) = 1 /\ Cardinality(Parts) \in Nat
      BY <3>1, FS_Singleton, FS_CardinalityType
    <3>3. Cardinality({2} \X Parts) = 1 * Cardinality(Parts)
      BY <3>1, <3>2, FS_Product
    <3> QED
      BY <3>2, <3>3 DEF Points
  <2>6. (ResultCount(CrashJob) = Cardinality(Parts)) <=> Cardinality(Parts) <= limit
    BY <1>c, <2>4, <2>5 DEF ResultCount
  <2>12. step <= Served + 10
    BY <1>1, <2>2
  <2>7. passed = TRUE /\ step' = Served + 11
    <3>1. passed = TRUE
      BY <1>1, <2>12 DEF PassedInv
    <3>2. step' = step + 1
      BY <1>4 DEF SearchChunks, Advance
    <3> QED
      BY <1>1, <2>2, <3>1, <3>2
  <2>8. passed' = (passed /\ \A d \in {CrashJob} : ResultCount(d) = Cardinality(Parts))
    BY <1>4, <2>2 DEF SearchChunks
  <2>9. passed' = (Cardinality(Parts) <= limit)
    BY <2>6, <2>7, <2>8
  <2>10. ~(step' <= Served + 10)
    BY <1>1, <2>7
  <2>11. (passed = (step <= Served + 10 \/ Cardinality(Parts) <= limit))'
    BY <1>1, <1>c, <2>9, <2>10
  <2> QED
    BY <1>c, <2>11 DEF PassedInv
<1>5. CASE UNCHANGED <<passed, step>>
  <2>1. passed' = passed /\ step' = step
    BY <1>5
  <2>2. (passed = (step <= Served + 10 \/ Cardinality(Parts) <= limit))'
    BY <1>1, <1>c, <2>1 DEF PassedInv
  <2> QED
    BY <1>c, <2>2 DEF PassedInv
<1>7. CASE step' = step + 1 /\ UNCHANGED passed /\ step # Served + 10
  BY <1>a, <1>7
<1>8. CASE CallReturns \/ AcceptAsync \/ StartWorkerProcess \/ WaitForWorker
  <2>1. step' # step =>
          /\ step \in DOMAIN Script /\ ~At("search") /\ driver = "run"
          /\ step' = step + 1
    BY <1>8 DEF CallReturns, AcceptAsync, StartWorkerProcess, WaitForWorker, At, Advance,
       Raise, driving
  <2>2. passed' = passed
    BY <1>8 DEF CallReturns, AcceptAsync, StartWorkerProcess, WaitForWorker, Raise, driving
  <2>3. step = Served + 10 /\ driver = "run" => At("search")
    <3>1. ASSUME step = Served + 10
          PROVE  step \in DOMAIN Script /\ Script[step] = CrashRecovery[10]
      BY <1>1, <3>1, ScriptLaidOut
    <3>2. CrashRecovery[10].op = "search"
      BY DEF CrashRecovery, SearchPoints, Instruction
    <3> QED
      BY <3>1, <3>2 DEF At
  <2> QED
    <3>1. CASE step' = step
      BY <1>5, <2>2, <3>1
    <3>2. CASE step' # step
      <4>1. step # Served + 10
        BY <2>1, <2>3, <3>2
      <4> QED
        BY <1>7, <2>1, <2>2, <3>2, <4>1
    <3> QED
      BY <3>1, <3>2
<1>6. \/ UNCHANGED <<passed, step>>
      \/ CallReturns \/ AcceptAsync \/ StartWorkerProcess \/ WaitForWorker
      \/ WaitForJobStatus \/ ReadDocumentRow \/ SearchChunks
  BY DEF BenchmarkNext, DriverStep, WaitTimesOut, GiveUp, Complete, LeaveDirectories, TerminateWorker,
     RemoveCollections, WorkerWorks, WorkerEnds, driving, bvars, Raise, WorkerDies
<1> QED
  BY <1>2, <1>3, <1>4, <1>5, <1>6, <1>8

\* It holds before the first instruction,
LEMMA BenchmarkInitInv ==
  ASSUME ConfigAssumption, BenchmarkInit
  PROVE  BenchmarkInv
<1>1. /\ ConfigOK /\ Served \in Nat /\ Served >= 9 /\ CrashJob \in Documents
  BY CrashJobLast, ScriptLaidOut
<1>2. TypeOK
  <2>1. VectorStoreTypeOK
    BY DEF BenchmarkInit, VectorStoreInit, VectorStoreTypeOK
  <2>2. RepositoryTypeOK
    BY DEF BenchmarkInit, RepositoryInit, RepositoryTypeOK
  <2>3. DeletionTypeOK /\ files \subseteq Documents
    BY DEF BenchmarkInit, DeletionInit, DeletionTypeOK, DeletePcs
  <2> QED
    BY <2>1, <2>2, <2>3, MaxRestartsAssumption DEF BenchmarkInit, TypeOK, SubmitPcs, WorkerPcs
<1>3. IInv
  BY <1>2 DEF BenchmarkInit, IInv, RepositoryInit, DeletionInit, JobDocumentAgree,
     ActiveJobStatuses, SubmissionInv, WorkerInv, JobPcs, OneRunningJob, NoStrandedJob,
     CondemnedInv, DeletionInv
<1>4. StageInv
  BY <1>1 DEF BenchmarkInit, StageInv
<1>6. PassedInv
  <2>1. passed = TRUE /\ step <= Served + 10 /\ limit \in SearchLimits
    BY <1>1 DEF BenchmarkInit
  <2> QED
    BY <2>1 DEF PassedInv
<1>5. ServedInv
  BY <1>1 DEF BenchmarkInit, RepositoryInit, ServedInv
<1> QED
  BY <1>3, <1>4, <1>5, <1>6 DEF BenchmarkInit, BenchmarkInv, CrashInv, RecoveryInv

\* and every step keeps it.
LEMMA BenchmarkStep ==
  ASSUME ConfigAssumption, BenchmarkInv, [BenchmarkNext]_bvars
  PROVE  BenchmarkInv'
<1>1. StageInv'
  BY StageStep, CrashJobLast DEF BenchmarkInv
<1>2. PassedInv'
  BY PassedKeeps
<1>3. driver' = "run" => IInv' /\ ServedInv' /\ CrashInv' /\ RecoveryInv'
  BY RunKeeps DEF BenchmarkInv
<1> QED
  BY <1>1, <1>2, <1>3 DEF BenchmarkInv

(***************************************************************************)
(* The benchmark: the theorems, for every configuration.  No request lands *)
(* late in it: IngestionBenchmark has no such step.                        *)
(***************************************************************************)
\* The invariant of the driver, the processes it starts and the jobs they run.
THEOREM BenchmarkInvariance ==
  ASSUME ConfigAssumption
  PROVE  BenchmarkSpec => []BenchmarkInv
<1>1. BenchmarkInit => BenchmarkInv
  BY BenchmarkInitInv
<1>2. BenchmarkInv /\ [BenchmarkNext]_bvars => BenchmarkInv'
  BY BenchmarkStep
<1> QED
  BY <1>1, <1>2, PTL DEF BenchmarkSpec

\* A driver that gets to the end of its instructions saw a crash recovery
\* without fault; it reports one exactly when the document has more chunks than
\* one search returns.  A serving Worker that ended well left no job.
THEOREM RecoveryPasses ==
  ASSUME ConfigAssumption
  PROVE  BenchmarkSpec => []ReportedRecoveryPassed
<1>1. BenchmarkInv => ReportedRecoveryPassed
  <2> SUFFICES ASSUME BenchmarkInv, driver = "run"
               PROVE  ReportedRecoveryPassed
    BY DEF ReportedRecoveryPassed
  <2>1. /\ ConfigOK /\ Served \in Nat /\ Served >= 9 /\ Len(Script) = Served + 10
    BY CrashJobLast, ScriptLaidOut
  <2>2. StageInv /\ PassedInv /\ ServedInv /\ RecoveryInv
    BY DEF BenchmarkInv
  <2>3. step = Len(Script) + 1 =>
          /\ passed <=> Cardinality(Parts) <= limit
          /\ vectors[CrashJob] = Points(2)
    <3> SUFFICES ASSUME step = Served + 11
                 PROVE  /\ passed <=> Cardinality(Parts) <= limit
                        /\ vectors[CrashJob] = Points(2)
      BY <2>1
    <3>1. ~(step <= Served + 10) /\ step >= Served + 9
      BY <2>1
    <3>2. mode = "recover"
      BY <2>1, <2>2 DEF StageInv
    <3>3. passed = (Cardinality(Parts) <= limit)
      BY <2>2, <3>1 DEF PassedInv
    <3>4. vectors[CrashJob] = Points(2)
      BY <2>2, <3>1, <3>2 DEF RecoveryInv
    <3> QED
      BY <3>3, <3>4
  <2>4. mode = "serve" /\ workerPc = "down" /\ exitCode = 0
          => \A d \in 1..NormalAsyncJobCount : Finished(d)
    BY <2>2 DEF ServedInv
  <2> QED
    BY <2>3, <2>4 DEF ReportedRecoveryPassed, Finished
<1> QED
  BY <1>1, BenchmarkInvariance, PTL

\* A Worker process is started only when the one before it is down, and none is
\* left behind but one that could not be killed.
THEOREM WorkersTakeTurns ==
  ASSUME ConfigAssumption
  PROVE  BenchmarkSpec => OneWorkerAtATime
<1> DEFINE Ended == driver = "ended" => workerPc = "down" \/ killFailed
<1>1. BenchmarkInv => Ended
  BY DEF BenchmarkInv, StageInv
<1>2. BenchmarkInv /\ [BenchmarkNext]_bvars => [mode' # mode => workerPc = "down"]_bvars
  <2> SUFFICES ASSUME BenchmarkInv, BenchmarkNext, mode' # mode
               PROVE  workerPc = "down"
    OBVIOUS
  <2>1. StartWorkerProcess
    BY DEF BenchmarkNext, DriverStep, CallReturns, AcceptAsync, WaitForJobStatus,
       ReadDocumentRow, SearchChunks, WaitForWorker, WaitTimesOut, GiveUp, Complete,
       LeaveDirectories, TerminateWorker, RemoveCollections, WorkerWorks, WorkerEnds,
       WorkerDies, process, bvars
  <2>2. /\ ConfigOK /\ Served \in Nat /\ Served >= 9 /\ StageInv
    BY CrashJobLast, ScriptLaidOut DEF BenchmarkInv
  <2>3. step = 2 \/ step = Served + 2 \/ step = Served + 6
    BY <2>1, <2>2, Places DEF StartWorkerProcess, At
  <2> QED
    BY <2>2, <2>3 DEF StageInv
<1> QED
  BY <1>1, <1>2, BenchmarkInvariance, PTL DEF BenchmarkSpec, OneWorkerAtATime
=============================================================================
