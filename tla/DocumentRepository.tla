------------------------- MODULE DocumentRepository -------------------------
(***************************************************************************)
(* The SQLite repository of documents and ingestion jobs                   *)
(* (app/storage/sqlite_document_repository.py), shared by the API process  *)
(* and the Worker process.  Each operator below is one committed           *)
(* transaction: its conjuncts without primes are the WHERE clauses and the *)
(* constraints it must satisfy, the rest is what it writes.  A transaction *)
(* that raises is rolled back by _connection(), so it leaves the tables    *)
(* unchanged; the callers model that outcome, and the outcome in which the *)
(* commit was durable although the caller saw an error.                    *)
(*                                                                         *)
(* A job is identified by its document: ingestion_jobs.document_id is      *)
(* UNIQUE.                                                                  *)
(***************************************************************************)
EXTENDS Uploads

VARIABLES
  docStatus,     \* documents.status, "absent" when there is no row
  jobStatus,     \* ingestion_jobs.status, "absent" when there is no row
  attemptCount,  \* ingestion_jobs.attempt_count
  createdAt      \* created_at of the job built for a document, 0 before it

repository == <<docStatus, jobStatus, attemptCount, createdAt>>

DocumentStatuses == {"processing", "ready", "failed"}
JobStatuses == {"pending", "running", "ready", "failed"}
ActiveJobStatuses == {"pending", "running"}

RepositoryTypeOK ==
  /\ docStatus \in [Documents -> DocumentStatuses \union {"absent"}]
  /\ jobStatus \in [Documents -> JobStatuses \union {"absent"}]
  /\ attemptCount \in [Documents -> Nat]
  /\ createdAt \in [Documents -> Nat]

RepositoryInit ==
  /\ docStatus = [d \in Documents |-> "absent"]
  /\ jobStatus = [d \in Documents |-> "absent"]
  /\ attemptCount = [d \in Documents |-> 0]
  /\ createdAt = [d \in Documents |-> 0]

\* documents.document_id is the primary key and documents.sha256 is UNIQUE:
\* a violated constraint is DocumentConflictError.
InsertAllowed(d) ==
  /\ docStatus[d] = "absent"
  /\ \A e \in Documents : docStatus[e] # "absent" => Sha256[e] # Sha256[d]

\* V1: a document row with no job.
create(d) ==
  /\ InsertAllowed(d)
  /\ docStatus' = [docStatus EXCEPT ![d] = "processing"]
  /\ UNCHANGED <<jobStatus, attemptCount, createdAt>>

\* V2: the document and its pending job, in one transaction.
create_document_and_job(d) ==
  /\ InsertAllowed(d)
  /\ docStatus' = [docStatus EXCEPT ![d] = "processing"]
  /\ jobStatus' = [jobStatus EXCEPT ![d] = "pending"]
  /\ attemptCount' = [attemptCount EXCEPT ![d] = 0]
  /\ UNCHANGED createdAt

\* Mutation: get_for_deletion looks at the job only, not at documents.status.
DeletionAllowedByJob(d) ==
  /\ docStatus[d] # "absent"
  /\ jobStatus[d] \notin ActiveJobStatuses

\* Mutation: get_for_deletion refuses only a job that a Worker is running.
DeletionAllowedUnlessRunning(d) ==
  /\ docStatus[d] # "absent"
  /\ jobStatus[d] # "running"

\* What get_for_deletion requires of the row it returns; it writes nothing.
DeletionAllowed(d) ==
  /\ docStatus[d] \notin {"absent", "processing"}
  /\ jobStatus[d] \notin ActiveJobStatuses

\* V1: no condition on the old status.
update_status(d, status) ==
  /\ docStatus[d] # "absent"
  /\ docStatus' = [docStatus EXCEPT ![d] = status]
  /\ UNCHANGED <<jobStatus, attemptCount, createdAt>>

\* Mutation: PRAGMA foreign_keys is off, so that the job outlives its document.
DeleteWithoutCascade(d) ==
  /\ docStatus[d] # "absent"
  /\ docStatus' = [docStatus EXCEPT ![d] = "absent"]
  /\ UNCHANGED <<jobStatus, attemptCount, createdAt>>

\* The foreign key deletes the job with its document.
delete(d) ==
  /\ docStatus[d] # "absent"
  /\ docStatus' = [docStatus EXCEPT ![d] = "absent"]
  /\ jobStatus' = [jobStatus EXCEPT ![d] = "absent"]
  /\ attemptCount' = [attemptCount EXCEPT ![d] = 0]
  /\ UNCHANGED createdAt

Claimable(d) == jobStatus[d] = "pending" /\ docStatus[d] = "processing"

\* ORDER BY created_at LIMIT 1, then the conditional UPDATE, in one write lock.
claim_next_job(d) ==
  /\ Claimable(d)
  /\ \A e \in Documents : Claimable(e) => createdAt[d] <= createdAt[e]
  /\ jobStatus' = [jobStatus EXCEPT ![d] = "running"]
  /\ attemptCount' = [attemptCount EXCEPT ![d] = @ + 1]
  /\ UNCHANGED <<docStatus, createdAt>>

\* complete_job and fail_job: both rows move together or IngestionJobStateError
\* rolls both back.
Finish(d, status) ==
  /\ jobStatus[d] = "running"
  /\ docStatus[d] = "processing"
  /\ jobStatus' = [jobStatus EXCEPT ![d] = status]
  /\ docStatus' = [docStatus EXCEPT ![d] = status]
  /\ UNCHANGED <<attemptCount, createdAt>>

\* Mutation: completion writes a status the schema does not know.
CompleteWithUnknownStatus(d) == Finish(d, "completed")

complete_job(d) == Finish(d, "ready")

\* Mutation: a failed job goes back to the queue.
FailByRequeueing(d) ==
  /\ jobStatus[d] = "running"
  /\ jobStatus' = [jobStatus EXCEPT ![d] = "pending"]
  /\ UNCHANGED <<docStatus, attemptCount, createdAt>>

fail_job(d) == Finish(d, "failed")

\* Mutation: recovery also requeues the jobs that failed.
RecoverFailedToo(d) == jobStatus[d] \in {"running", "failed"}

Recoverable(d) == jobStatus[d] = "running" /\ docStatus[d] = "processing"

\* One UPDATE over every abandoned job, however many there are.
recover_running_jobs ==
  /\ jobStatus' = [d \in Documents |->
                     IF Recoverable(d) THEN "pending" ELSE jobStatus[d]]
  /\ UNCHANGED <<docStatus, attemptCount, createdAt>>
=============================================================================
