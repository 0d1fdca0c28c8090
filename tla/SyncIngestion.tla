---------------------------- MODULE SyncIngestion ---------------------------
(***************************************************************************)
(* V1 ingestion: POST /api/v1/documents stores, records and indexes a      *)
(* document inside the request (IngestionService.ingest), with best-effort *)
(* rollback of each store when a step raises.  Requests run in threads of  *)
(* the API process, beside one another and beside deletions; nothing       *)
(* recovers a request the process died with.                               *)
(***************************************************************************)
EXTENDS DocumentService

VARIABLE ingestPc   \* the next step of the one ingest call that draws each document, in
                    \* process() or in the rollback

vars == <<repository, vectorStore, files, deletions, ingestPc>>

Ended == {"created", "failed", "lost"}

Init ==
  /\ RepositoryInit
  /\ VectorStoreInit
  /\ DeletionInit
  /\ ingestPc = [d \in Documents |-> "new"]

IngestAt(d, pc) == ingestPc' = [ingestPc EXCEPT ![d] = pc]

\* A document is ingested by one call only: its points are those of attempt 1.
Attempt == 1

SaveUpload(d) ==
  /\ ingestPc[d] = "new"
  /\ \/ files' = files \union {d} /\ IngestAt(d, "saved")
     \/ UNCHANGED files /\ IngestAt(d, "remove_file")
  /\ UNCHANGED <<repository, vectorStore, deletions>>

\* Until create returns record_created is False, so that a commit that was
\* durable but raised is not rolled back.  validate_file may raise before it.
CreateRecord(d) ==
  /\ ingestPc[d] = "saved"
  /\ \/ create(d) /\ IngestAt(d, "check")
     \/ create(d) /\ IngestAt(d, "remove_file")
     \/ UNCHANGED repository /\ IngestAt(d, "remove_file")
  /\ UNCHANGED <<vectorStore, files, deletions>>

CheckFile(d) ==
  /\ ingestPc[d] = "check"
  /\ \/ d \in files /\ IngestAt(d, "purge")
     \/ IngestAt(d, "rollback_vectors")
  /\ UNCHANGED <<repository, vectorStore, files, deletions>>

PurgeVectors(d) ==
  /\ ingestPc[d] = "purge"
  /\ \/ delete_by_document(d) /\ IngestAt(d, "load")
     \/ DeleteRaises(d) /\ IngestAt(d, "rollback_vectors")
  /\ UNCHANGED <<repository, files, deletions>>

LoadAndEmbed(d) ==
  /\ ingestPc[d] = "load"
  /\ \/ d \in files /\ IngestAt(d, "upsert")
     \/ IngestAt(d, "rollback_vectors")
  /\ UNCHANGED <<repository, vectorStore, files, deletions>>

\* Mutation: an upsert that raises is taken for a success.
UpsertIgnoringErrors(d) ==
  /\ ingestPc[d] = "upsert"
  /\ upsert(d, Attempt) \/ UpsertRaises(d, Attempt)
  /\ IngestAt(d, "mark_ready")
  /\ UNCHANGED <<repository, files, deletions>>

UpsertChunks(d) ==
  /\ ingestPc[d] = "upsert"
  /\ \/ upsert(d, Attempt) /\ IngestAt(d, "mark_ready")
     \/ UpsertRaises(d, Attempt) /\ IngestAt(d, "rollback_vectors")
  /\ UNCHANGED <<repository, files, deletions>>

MarkReady(d) ==
  /\ ingestPc[d] = "mark_ready"
  /\ \/ update_status(d, "ready") /\ IngestAt(d, "read_back")
     \/ update_status(d, "ready") /\ IngestAt(d, "rollback_vectors")
     \/ UNCHANGED repository /\ IngestAt(d, "rollback_vectors")
  /\ UNCHANGED <<vectorStore, files, deletions>>

\* The row may be gone already: a ready document can be deleted by any client.
ReadBack(d) ==
  /\ ingestPc[d] = "read_back"
  /\ \/ docStatus[d] # "absent" /\ IngestAt(d, "created")
     \/ IngestAt(d, "rollback_vectors")
  /\ UNCHANGED <<repository, vectorStore, files, deletions>>

\* The rollback logs and swallows what its own steps raise.
RollbackVectors(d) ==
  /\ ingestPc[d] = "rollback_vectors"
  /\ delete_by_document(d) \/ DeleteRaises(d)
  /\ IngestAt(d, "rollback_record")
  /\ UNCHANGED <<repository, files, deletions>>

\* Mutation: the rollback leaves the document open for another try.
RollbackToProcessing(d) ==
  /\ ingestPc[d] = "rollback_record"
  /\ update_status(d, "processing") \/ UNCHANGED repository
  /\ IngestAt(d, "remove_file")
  /\ UNCHANGED <<vectorStore, files, deletions>>

RollbackRecord(d) ==
  /\ ingestPc[d] = "rollback_record"
  /\ update_status(d, "failed") \/ UNCHANGED repository
  /\ IngestAt(d, "remove_file")
  /\ UNCHANGED <<vectorStore, files, deletions>>

RemoveStoredFile(d) ==
  /\ ingestPc[d] = "remove_file"
  /\ files' \in {files, files \ {d}}
  /\ IngestAt(d, "failed")
  /\ UNCHANGED <<repository, vectorStore, deletions>>

\* A Qdrant request the dying process was waiting for may be applied in part.
ApiCrash ==
  /\ \/ UNCHANGED vectorStore
     \/ \E d \in Documents :
          \/ ingestPc[d] \in {"purge", "rollback_vectors"} /\ DeleteRaises(d)
          \/ ingestPc[d] = "upsert" /\ UpsertRaises(d, Attempt)
  /\ ingestPc' = [d \in Documents |->
                    IF ingestPc[d] \in Ended \union {"new"}
                    THEN ingestPc[d] ELSE "lost"]
  /\ DeletionsVanish
  /\ UNCHANGED <<repository, files>>

IngestStep ==
  \E d \in Documents :
    \/ SaveUpload(d) \/ CreateRecord(d)
    \/ CheckFile(d) \/ PurgeVectors(d) \/ LoadAndEmbed(d) \/ UpsertChunks(d)
    \/ MarkReady(d) \/ ReadBack(d)
    \/ RollbackVectors(d) \/ RollbackRecord(d) \/ RemoveStoredFile(d)

Delete == DeletionStep /\ UNCHANGED ingestPc

LateWrite ==
  /\ \E w \in inflight : Land(w)
  /\ UNCHANGED <<repository, files, deletions, ingestPc>>

Next == IngestStep \/ ApiCrash \/ Delete \/ LateWrite

Spec == Init /\ [][Next]_vars

(***************************************************************************)
(* Properties                                                              *)
(***************************************************************************)
\* A 201 answer is true: until a deletion is allowed on it, the document of a
\* request that succeeded is ready, all its chunks are in Qdrant and its file
\* is stored, whatever other requests, crashes and failures surround it.
CreatedIsServed ==
  \A d \in Documents :
    ingestPc[d] = "created" /\ d \notin condemned
      => /\ docStatus[d] = "ready"
         /\ vectors[d] = Points(Attempt)
         /\ d \in files

\* A document that is gone from SQLite left no points in Qdrant: a deletion
\* never overtakes the ingest call that is still writing the document's points,
\* unless a request outlives its timeout.
NoOrphanVectors ==
  ~timedOut => \A d \in Documents : docStatus[d] = "absent" => vectors[d] = {}

\* A deletion that stopped halfway, or whose document the rollback of a slow
\* ingest call marked failed meanwhile, can always be asked for again.
DeletionCanBeRepeated ==
  \A d \in condemned : docStatus[d] # "absent" => DeletionAllowed(d)

\* docs/r23_design.md, line 111: the only transitions of a document's status are
\* processing -> ready and processing -> failed.
StatusIsOneWay ==
  [][\A d \in Documents :
       docStatus[d] \in {"ready", "failed"}
         => docStatus'[d] \in {docStatus[d], "absent"}]_vars

(***************************************************************************)
(* The inductive invariant behind the safety properties.                   *)
(***************************************************************************)
\* The steps of a call without a row, with a row nobody else may touch, and with
\* a row it made ready.
Unrecorded == {"new", "saved"}
Processing == {"check", "purge", "load", "upsert", "mark_ready"}
Completed == {"read_back", "created"}

IngestPcs == Unrecorded \union Processing \union Completed
               \union {"rollback_vectors", "rollback_record", "remove_file", "failed", "lost"}

TypeOK ==
  /\ RepositoryTypeOK
  /\ VectorStoreTypeOK
  /\ files \subseteq Documents
  /\ DeletionTypeOK
  /\ ingestPc \in [Documents -> IngestPcs]

\* The row of a document between the transactions of its ingest call: nothing
\* deletes it before the call made it ready, or began to roll it back.
RowKept(d) ==
  /\ jobStatus[d] = "absent"
  /\ ingestPc[d] \in Unrecorded => docStatus[d] = "absent"
  /\ ingestPc[d] \in Processing => docStatus[d] = "processing"
  /\ ingestPc[d] \in Completed /\ d \notin condemned => docStatus[d] = "ready"
  /\ d \in condemned => docStatus[d] # "processing" /\ ingestPc[d] \notin Unrecorded

\* What the other two stores hold of a document whose call has met no error:
\* an error of Qdrant makes it roll back, so nothing of it is in flight.
StoresKept(d) ==
  d \notin condemned =>
    /\ ingestPc[d] \in {"saved"} \union Processing \union Completed => d \in files
    /\ ingestPc[d] \in Unrecorded \union Processing \union Completed
         => \A w \in inflight : w[1] # d
    /\ ingestPc[d] \in Unrecorded \union (Processing \ {"mark_ready"}) => vectors[d] = {}
    /\ ingestPc[d] \in {"mark_ready"} \union Completed => vectors[d] = Points(Attempt)

DeletionInv == \A r \in Requests : deletePc[r] # "idle" => deleteDoc[r] \in condemned

IInv == TypeOK /\ DeletionInv /\ \A d \in Documents : RowKept(d) /\ StoresKept(d)

\* Behind NoOrphanVectors: a deletion past its Qdrant request left no points,
\* and the call that could write more has ended.
PurgedInv ==
  ~timedOut =>
    /\ inflight = {}
    /\ \A d \in Documents : docStatus[d] = "absent" => vectors[d] = {}
    /\ \A r \in Requests :
         deletePc[r] \in {"file", "record"} => vectors[deleteDoc[r]] = {}
=============================================================================
