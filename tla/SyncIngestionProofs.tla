------------------------ MODULE SyncIngestionProofs ------------------------
(***************************************************************************)
(* Theorems about SyncIngestion, for every set of documents, requests and  *)
(* chunks and every assignment of digests.                                 *)
(***************************************************************************)
EXTENDS SyncIngestion, TLAPS

(***************************************************************************)
(* One request to Qdrant concerns one document                             *)
(***************************************************************************)
LEMMA RequestTyped ==
  ASSUME VectorStoreTypeOK, NEW d \in Documents,
         \/ delete_by_document(d) \/ DeleteRaises(d)
         \/ upsert(d, Attempt) \/ UpsertRaises(d, Attempt)
  PROVE  VectorStoreTypeOK'
<1>1. Points(Attempt) \subseteq Nat \X Parts
  BY DEF Points, Attempt
<1>2. \A n \in Nat : TimeOut(d, n) => VectorStoreTypeOK'
  BY DEF TimeOut, VectorStoreTypeOK
<1>3. CASE delete_by_document(d) \/ UNCHANGED vectorStore
  BY <1>3 DEF delete_by_document, vectorStore, VectorStoreTypeOK
<1>4. CASE upsert(d, Attempt)
  BY <1>1, <1>4 DEF upsert, VectorStoreTypeOK
<1>5. CASE UpsertRaises(d, Attempt)
  BY <1>1, <1>2, <1>5 DEF UpsertRaises, VectorStoreTypeOK, Attempt
<1>6. QED
  BY <1>2, <1>3, <1>4, <1>5, 0 \in Nat DEF DeleteRaises

LEMMA RequestLocal ==
  ASSUME VectorStoreTypeOK, NEW d \in Documents,
         \/ delete_by_document(d) \/ DeleteRaises(d)
         \/ upsert(d, Attempt) \/ UpsertRaises(d, Attempt)
  PROVE  /\ \A e \in Documents \ {d} :
              /\ vectors'[e] = vectors[e]
              /\ \A w \in inflight' : w[1] = e => w \in inflight
         /\ ~timedOut' => ~timedOut /\ UNCHANGED inflight
  BY DEF delete_by_document, DeleteRaises, upsert, UpsertRaises, TimeOut, vectorStore,
     VectorStoreTypeOK

LEMMA LandLocal ==
  ASSUME VectorStoreTypeOK, NEW w \in inflight, Land(w)
  PROVE  /\ VectorStoreTypeOK'
         /\ inflight' \subseteq inflight
         /\ \A e \in Documents : e # w[1] => vectors'[e] = vectors[e]
<1>1. PICK d \in Documents, n \in Nat : w = <<d, n>>
  BY DEF VectorStoreTypeOK
<1>2. Points(n) \subseteq Nat \X Parts
  BY DEF Points
<1>3. QED
  BY <1>1, <1>2 DEF Land, VectorStoreTypeOK

(***************************************************************************)
(* A step of an ingest call                                                *)
(***************************************************************************)
IngestAction(d) ==
  \/ SaveUpload(d) \/ CreateRecord(d)
  \/ CheckFile(d) \/ PurgeVectors(d) \/ LoadAndEmbed(d) \/ UpsertChunks(d)
  \/ MarkReady(d) \/ ReadBack(d)
  \/ RollbackVectors(d) \/ RollbackRecord(d) \/ RemoveStoredFile(d)

\* It changes nothing of the other documents and of the deletions.
LEMMA IngestLocal ==
  ASSUME TypeOK, NEW d \in Documents, IngestAction(d)
  PROVE  /\ UNCHANGED <<deletions, jobStatus>>
         /\ \A e \in Documents \ {d} :
              /\ ingestPc'[e] = ingestPc[e] /\ docStatus'[e] = docStatus[e]
              /\ e \in files' <=> e \in files
              /\ vectors'[e] = vectors[e]
              /\ \A w \in inflight' : w[1] = e => w \in inflight
<1>1. /\ UNCHANGED <<deletions, jobStatus>>
      /\ ingestPc' = [ingestPc EXCEPT ![d] = ingestPc'[d]]
      /\ docStatus' = [docStatus EXCEPT ![d] = docStatus'[d]]
      /\ files \ {d} = files' \ {d}
  BY DEF TypeOK, RepositoryTypeOK, IngestAction, SaveUpload, CreateRecord, CheckFile,
     PurgeVectors, LoadAndEmbed, UpsertChunks, MarkReady, ReadBack, RollbackVectors,
     RollbackRecord, RemoveStoredFile, IngestAt, create, update_status, repository
<1>2. \/ UNCHANGED vectorStore
      \/ delete_by_document(d) \/ DeleteRaises(d)
      \/ upsert(d, Attempt) \/ UpsertRaises(d, Attempt)
  BY DEF IngestAction, SaveUpload, CreateRecord, CheckFile,
     PurgeVectors, LoadAndEmbed, UpsertChunks, MarkReady, ReadBack, RollbackVectors,
     RollbackRecord, RemoveStoredFile
<1>3. \A e \in Documents \ {d} :
        /\ vectors'[e] = vectors[e]
        /\ \A w \in inflight' : w[1] = e => w \in inflight
  BY <1>2, RequestLocal DEF TypeOK, vectorStore
<1>4. QED
  BY <1>1, <1>3 DEF TypeOK, RepositoryTypeOK

LEMMA IngestTyped ==
  ASSUME TypeOK, NEW d \in Documents, IngestAction(d)
  PROVE  TypeOK'
<1>1. VectorStoreTypeOK'
  BY RequestTyped DEF TypeOK, IngestAction, SaveUpload, CreateRecord, CheckFile,
     PurgeVectors, LoadAndEmbed, UpsertChunks, MarkReady, ReadBack, RollbackVectors,
     RollbackRecord, RemoveStoredFile, vectorStore, VectorStoreTypeOK
<1>2. RepositoryTypeOK'
  BY DEF TypeOK, RepositoryTypeOK, DocumentStatuses, IngestAction, SaveUpload, CreateRecord,
     CheckFile, PurgeVectors, LoadAndEmbed, UpsertChunks, MarkReady, ReadBack,
     RollbackVectors, RollbackRecord, RemoveStoredFile, create, update_status, repository
<1>3. ingestPc' \in [Documents -> IngestPcs] /\ files' \subseteq Documents
  BY DEF TypeOK, IngestPcs, Unrecorded, Processing, Completed, IngestAction, SaveUpload,
     CreateRecord, CheckFile, PurgeVectors, LoadAndEmbed, UpsertChunks, MarkReady, ReadBack,
     RollbackVectors, RollbackRecord, RemoveStoredFile, IngestAt
<1>4. QED
  BY <1>1, <1>2, <1>3, IngestLocal DEF TypeOK, deletions, DeletionTypeOK

LEMMA IngestKeepsRow ==
  ASSUME TypeOK, NEW d \in Documents, RowKept(d), IngestAction(d)
  PROVE  RowKept(d)'
<1> USE DEF RowKept, Unrecorded, Processing, Completed
<1>1. condemned' = condemned /\ jobStatus' = jobStatus
  BY IngestLocal DEF deletions
<1>2. docStatus \in [Documents -> DocumentStatuses \union {"absent"}]
      /\ ingestPc \in [Documents -> IngestPcs]
  BY DEF TypeOK, RepositoryTypeOK
<1>3. CASE SaveUpload(d) \/ CreateRecord(d)
  BY <1>1, <1>2, <1>3 DEF SaveUpload, CreateRecord, create, IngestAt, repository
<1>4. CASE CheckFile(d) \/ PurgeVectors(d) \/ LoadAndEmbed(d) \/ UpsertChunks(d)
  BY <1>1, <1>2, <1>4 DEF CheckFile, PurgeVectors, LoadAndEmbed, UpsertChunks, IngestAt,
     repository
<1>5. CASE MarkReady(d) \/ ReadBack(d)
  BY <1>1, <1>2, <1>5 DEF MarkReady, ReadBack, update_status, IngestAt, repository
<1>6. CASE RollbackVectors(d) \/ RollbackRecord(d) \/ RemoveStoredFile(d)
  BY <1>1, <1>2, <1>6 DEF RollbackVectors, RollbackRecord, RemoveStoredFile, update_status,
     IngestAt, repository
<1>7. QED
  BY <1>3, <1>4, <1>5, <1>6 DEF IngestAction

LEMMA IngestKeepsStores ==
  ASSUME TypeOK, NEW d \in Documents, RowKept(d), StoresKept(d), IngestAction(d)
  PROVE  StoresKept(d)'
<1> USE DEF StoresKept, Unrecorded, Processing, Completed
<1>1. condemned' = condemned
  BY IngestLocal DEF deletions
<1>2. ingestPc \in [Documents -> IngestPcs] /\ vectors \in [Documents -> SUBSET (Nat \X Parts)]
  BY DEF TypeOK, VectorStoreTypeOK
<1>3. CASE SaveUpload(d) \/ CreateRecord(d) \/ CheckFile(d) \/ LoadAndEmbed(d)
           \/ MarkReady(d) \/ ReadBack(d) \/ RollbackRecord(d)
  BY <1>1, <1>2, <1>3 DEF SaveUpload, CreateRecord, CheckFile, LoadAndEmbed, MarkReady,
     ReadBack, RollbackRecord, IngestAt, vectorStore, Points
<1>4. CASE ingestPc'[d] \in {"rollback_vectors", "rollback_record", "failed"}
  BY <1>4
<1>5. CASE PurgeVectors(d) /\ delete_by_document(d) /\ IngestAt(d, "load")
  BY <1>1, <1>2, <1>5 DEF PurgeVectors, delete_by_document, IngestAt
<1>6. CASE UpsertChunks(d) /\ upsert(d, Attempt) /\ IngestAt(d, "mark_ready")
  BY <1>1, <1>2, <1>6 DEF UpsertChunks, upsert, IngestAt, Points
<1>7. QED
  BY <1>2, <1>3, <1>4, <1>5, <1>6 DEF IngestAction, PurgeVectors, UpsertChunks,
     RollbackVectors, RemoveStoredFile, IngestAt

LEMMA IngestInv ==
  ASSUME IInv, NEW d \in Documents, IngestAction(d)
  PROVE  IInv'
<1>1. TypeOK /\ RowKept(d) /\ StoresKept(d)
  BY DEF IInv
<1>2. TypeOK' /\ RowKept(d)' /\ StoresKept(d)'
  BY <1>1, IngestTyped, IngestKeepsRow, IngestKeepsStores
<1>3. \A e \in Documents \ {d} : RowKept(e)' /\ StoresKept(e)'
  <2>1. SUFFICES ASSUME NEW e \in Documents \ {d}
                 PROVE  RowKept(e)' /\ StoresKept(e)'
    OBVIOUS
  <2>2. RowKept(e) /\ StoresKept(e)
    BY DEF IInv
  <2>3. /\ ingestPc'[e] = ingestPc[e] /\ docStatus'[e] = docStatus[e]
        /\ e \in files' <=> e \in files
        /\ vectors'[e] = vectors[e]
        /\ \A w \in inflight' : w[1] = e => w \in inflight
        /\ jobStatus' = jobStatus /\ condemned' = condemned
    BY <1>1, IngestLocal DEF deletions
  <2>4. QED
    BY <2>2, <2>3 DEF RowKept, StoresKept, Points
<1>4. DeletionInv'
  BY <1>1, IngestLocal DEF IInv, DeletionInv, deletions
<1>5. QED
  BY <1>2, <1>3, <1>4 DEF IInv

(***************************************************************************)
(* A crash, a step of a deletion, a late write                             *)
(***************************************************************************)
\* The crash ends every call that holds a document, so that what its request
\* to Qdrant may still do concerns none that was answered.
LEMMA CrashInv ==
  ASSUME IInv, ApiCrash
  PROVE  IInv'
<1>1. /\ TypeOK /\ VectorStoreTypeOK /\ DeletionTypeOK
      /\ ingestPc \in [Documents -> IngestPcs]
      /\ UNCHANGED <<docStatus, jobStatus, files, condemned>>
  BY DEF IInv, TypeOK, ApiCrash, DeletionsVanish, repository
<1>2. \A d \in Documents :
        \/ ingestPc'[d] = "lost"
        \/ ingestPc'[d] = ingestPc[d] /\ ingestPc[d] \in Ended \union {"new"}
  BY DEF ApiCrash
<1>3. PICK c \in Documents \union {None} :
        \/ UNCHANGED vectorStore
        \/ /\ c \in Documents /\ ingestPc'[c] = "lost"
           /\ DeleteRaises(c) \/ UpsertRaises(c, Attempt)
  BY DEF ApiCrash, Ended
<1>4. TypeOK'
  <2>1. VectorStoreTypeOK'
    BY <1>1, <1>3, RequestTyped DEF vectorStore, VectorStoreTypeOK
  <2>2. ingestPc' \in [Documents -> IngestPcs]
    BY <1>1 DEF ApiCrash, IngestPcs
  <2>3. DeletionTypeOK'
    BY <1>1 DEF ApiCrash, DeletionsVanish, DeletionTypeOK, DeletePcs
  <2>4. QED
    BY <1>1, <2>1, <2>2, <2>3 DEF ApiCrash, TypeOK, RepositoryTypeOK, repository
<1>5. DeletionInv'
  BY DEF ApiCrash, DeletionsVanish, DeletionInv
<1>6. \A d \in Documents : ingestPc'[d] # "lost" =>
        vectors'[d] = vectors[d] /\ \A w \in inflight' : w[1] = d => w \in inflight
  BY <1>1, <1>3, RequestLocal DEF vectorStore
<1>7. SUFFICES ASSUME NEW d \in Documents
               PROVE  RowKept(d)' /\ StoresKept(d)'
  BY <1>4, <1>5 DEF IInv
<1>8. RowKept(d) /\ StoresKept(d)
  BY DEF IInv
<1>9. RowKept(d)'
  BY <1>1, <1>2, <1>8 DEF RowKept, Unrecorded, Processing, Completed
<1>10. StoresKept(d)'
  BY <1>1, <1>2, <1>6, <1>8 DEF StoresKept, Unrecorded, Processing, Completed, Points
<1>11. QED
  BY <1>9, <1>10

\* A deletion concerns one condemned document, which no call is processing.
LEMMA DeletionLocal ==
  ASSUME IInv, NEW r \in Requests,
         \/ \E d \in Documents : GetForDeletion(r, d)
         \/ DeleteVectors(r) \/ DeleteStoredFile(r) \/ DeleteRecord(r)
  PROVE  /\ condemned \subseteq condemned'
         /\ \A d \in Documents :
              /\ d \notin condemned' =>
                   /\ docStatus'[d] = docStatus[d]
                   /\ d \in files' <=> d \in files
                   /\ vectors'[d] = vectors[d]
                   /\ \A w \in inflight' : w[1] = d => w \in inflight
              /\ d \in condemned' \ condemned =>
                   docStatus[d] \notin {"absent", "processing"} /\ docStatus' = docStatus
              /\ docStatus'[d] \in {docStatus[d], "absent"}
              /\ jobStatus[d] = "absent" => jobStatus'[d] = "absent"
<1>1. RepositoryTypeOK /\ VectorStoreTypeOK
  BY DEF IInv, TypeOK
<1>2. CASE \E d \in Documents : GetForDeletion(r, d)
  BY <1>2 DEF GetForDeletion, DeletionAllowed, repository, vectorStore
<1>3. CASE DeleteVectors(r) \/ DeleteStoredFile(r) \/ DeleteRecord(r)
  <2>1. UNCHANGED condemned /\ deletePc[r] # "idle"
    BY <1>3 DEF DeleteVectors, DeleteStoredFile, DeleteRecord, DeletionAt, EndDeletion
  <2>2. deleteDoc[r] \in condemned /\ deleteDoc[r] \in Documents
    BY <2>1 DEF IInv, DeletionInv, TypeOK, DeletionTypeOK
  <2>3. CASE DeleteVectors(r)
    BY <1>1, <2>1, <2>2, <2>3, RequestLocal DEF DeleteVectors, repository
  <2>4. CASE DeleteStoredFile(r)
    BY <2>1, <2>2, <2>4 DEF DeleteStoredFile, repository, vectorStore
  <2>5. CASE DeleteRecord(r)
    BY <1>1, <2>1, <2>2, <2>5 DEF DeleteRecord, delete, repository, vectorStore,
       RepositoryTypeOK
  <2>6. QED
    BY <1>3, <2>3, <2>4, <2>5
<1>4. QED
  BY <1>2, <1>3

LEMMA DeleteTyped ==
  ASSUME IInv, NEW r \in Requests, UNCHANGED ingestPc,
         \/ \E d \in Documents : GetForDeletion(r, d)
         \/ DeleteVectors(r) \/ DeleteStoredFile(r) \/ DeleteRecord(r)
  PROVE  TypeOK' /\ DeletionInv'
<1>1. /\ RepositoryTypeOK /\ VectorStoreTypeOK /\ DeletionTypeOK
      /\ files \subseteq Documents
      /\ deletePc[r] # "idle" => deleteDoc[r] \in condemned /\ deleteDoc[r] \in Documents
  BY DEF IInv, DeletionInv, TypeOK, DeletionTypeOK
<1>2. RepositoryTypeOK'
  BY <1>1 DEF GetForDeletion, DeleteVectors, DeleteStoredFile, DeleteRecord, delete,
     repository, RepositoryTypeOK, DocumentStatuses, JobStatuses
<1>3. VectorStoreTypeOK'
  BY <1>1, RequestTyped DEF GetForDeletion, DeleteVectors, DeleteStoredFile, DeleteRecord,
     vectorStore, VectorStoreTypeOK
<1>4. DeletionTypeOK' /\ files' \subseteq Documents
  BY <1>1 DEF GetForDeletion, DeleteVectors, DeleteStoredFile, DeleteRecord, DeletionAt,
     EndDeletion, DeletionTypeOK, DeletePcs
<1>5. DeletionInv'
  BY <1>1 DEF GetForDeletion, DeleteVectors, DeleteStoredFile, DeleteRecord, DeletionAt,
     EndDeletion, DeletionTypeOK, DeletePcs, DeletionInv, IInv
<1>6. QED
  BY <1>2, <1>3, <1>4, <1>5 DEF IInv, TypeOK

LEMMA DeleteInv ==
  ASSUME IInv, Delete
  PROVE  IInv'
<1>1. PICK r \in Requests :
        \/ \E d \in Documents : GetForDeletion(r, d)
        \/ DeleteVectors(r) \/ DeleteStoredFile(r) \/ DeleteRecord(r)
  BY DEF Delete, DeletionStep
<1>2. UNCHANGED ingestPc
  BY DEF Delete
<1>3. TypeOK' /\ DeletionInv'
  BY <1>1, <1>2, DeleteTyped
<1>4. SUFFICES ASSUME NEW d \in Documents
               PROVE  RowKept(d)' /\ StoresKept(d)'
  BY <1>3 DEF IInv
<1>5. RowKept(d) /\ StoresKept(d)
  BY DEF IInv
<1>6. RowKept(d)'
  BY <1>1, <1>2, <1>5, DeletionLocal DEF RowKept
<1>7. StoresKept(d)'
  BY <1>1, <1>2, <1>5, DeletionLocal DEF StoresKept, Points
<1>8. QED
  BY <1>6, <1>7

LEMMA LateWriteInv ==
  ASSUME IInv, LateWrite
  PROVE  IInv'
<1>1. PICK w \in inflight : Land(w)
  BY DEF LateWrite
<1>2. /\ VectorStoreTypeOK'
      /\ inflight' \subseteq inflight
      /\ \A e \in Documents : e # w[1] => vectors'[e] = vectors[e]
  BY <1>1, LandLocal DEF IInv, TypeOK
<1>3. UNCHANGED <<docStatus, jobStatus, attemptCount, createdAt, files, deletePc, deleteDoc,
                  condemned, ingestPc>>
  BY DEF LateWrite, repository, deletions
<1>4. TypeOK' /\ DeletionInv'
  BY <1>2, <1>3 DEF IInv, TypeOK, RepositoryTypeOK, DeletionTypeOK, DeletionInv
<1>5. \A d \in Documents : RowKept(d)' /\ StoresKept(d)'
  BY <1>2, <1>3 DEF IInv, RowKept, StoresKept, Unrecorded, Processing, Completed, Points
<1>6. QED
  BY <1>4, <1>5 DEF IInv

LEMMA StepInv ==
  ASSUME IInv, [Next]_vars
  PROVE  IInv'
<1>1. CASE UNCHANGED vars
  BY <1>1 DEF vars, repository, vectorStore, deletions, IInv, TypeOK, RepositoryTypeOK,
     VectorStoreTypeOK, DeletionTypeOK, DeletionInv, RowKept, StoresKept, Points
<1>2. CASE IngestStep
  BY <1>2, IngestInv DEF IngestStep, IngestAction
<1>3. QED
  BY <1>1, <1>2, CrashInv, DeleteInv, LateWriteInv DEF Next

LEMMA InitInv == Init => IInv
<1> SUFFICES ASSUME Init
             PROVE  IInv
  OBVIOUS
<1>1. RepositoryTypeOK /\ VectorStoreTypeOK
  BY DEF Init, RepositoryInit, RepositoryTypeOK, VectorStoreInit, VectorStoreTypeOK
<1>2. DeletionTypeOK /\ files \subseteq Documents /\ DeletionInv
  BY DEF Init, DeletionInit, DeletionTypeOK, DeletePcs, DeletionInv
<1>3. ingestPc \in [Documents -> IngestPcs]
  BY DEF Init, IngestPcs, Unrecorded
<1>4. \A d \in Documents : RowKept(d) /\ StoresKept(d)
  BY DEF Init, RepositoryInit, VectorStoreInit, DeletionInit, RowKept, StoresKept, Unrecorded,
     Processing, Completed
<1>5. QED
  BY <1>1, <1>2, <1>3, <1>4 DEF IInv, TypeOK

\* The invariant of V1 ingestion, whatever fails, crashes, times out or is
\* deleted beside it.
THEOREM Invariance == Spec => []IInv
  BY InitInv, StepInv, PTL DEF Spec

\* Every variable stays within its type.
THEOREM TypeCorrect == Spec => []TypeOK
  BY Invariance, PTL DEF IInv

\* A 201 answer is true until a deletion of its document is allowed: the row is
\* ready, all points are in Qdrant, the file is stored.
THEOREM CreatedServed == Spec => []CreatedIsServed
<1>1. IInv => CreatedIsServed
  BY DEF IInv, RowKept, StoresKept, CreatedIsServed, Completed
<1>2. QED
  BY <1>1, Invariance, PTL

\* A document on which a deletion was once allowed never becomes undeletable.
THEOREM DeletionRepeatable == Spec => []DeletionCanBeRepeated
<1>1. IInv => DeletionCanBeRepeated
  BY DEF IInv, TypeOK, DeletionTypeOK, RowKept, DeletionCanBeRepeated, DeletionAllowed,
     ActiveJobStatuses
<1>2. QED
  BY <1>1, Invariance, PTL

(***************************************************************************)
(* A deleted document leaves no points                                     *)
(***************************************************************************)
\* Only a call whose document is processing adds points; every other step on a
\* document takes points away, or removes a row that has none.
LEMMA IngestPurged ==
  ASSUME IInv, PurgedInv, ~timedOut', NEW d \in Documents, IngestAction(d)
  PROVE  PurgedInv'
<1>1. /\ TypeOK /\ VectorStoreTypeOK /\ RepositoryTypeOK /\ RowKept(d) /\ StoresKept(d)
      /\ DeletionTypeOK
  BY DEF IInv, TypeOK
<1>2. /\ UNCHANGED deletions
      /\ \A e \in Documents \ {d} : docStatus'[e] = docStatus[e] /\ vectors'[e] = vectors[e]
  BY <1>1, IngestLocal
<1>3. ~timedOut /\ inflight' = inflight
  BY <1>1, RequestLocal DEF IngestAction, SaveUpload, CreateRecord, CheckFile,
     PurgeVectors, LoadAndEmbed, UpsertChunks, MarkReady, ReadBack, RollbackVectors,
     RollbackRecord, RemoveStoredFile, vectorStore
<1>4. vectors'[d] \subseteq vectors[d] \/ docStatus[d] = "processing"
  BY <1>1 DEF IngestAction, SaveUpload, CreateRecord, CheckFile,
     PurgeVectors, LoadAndEmbed, UpsertChunks, MarkReady, ReadBack, RollbackVectors,
     RollbackRecord, RemoveStoredFile, vectorStore, delete_by_document, DeleteRaises, TimeOut,
     VectorStoreTypeOK, RowKept, Processing
<1>5. docStatus'[d] = "absent" => docStatus[d] = "absent"
  BY <1>1 DEF IngestAction, SaveUpload, CreateRecord, CheckFile,
     PurgeVectors, LoadAndEmbed, UpsertChunks, MarkReady, ReadBack, RollbackVectors,
     RollbackRecord, RemoveStoredFile, create, update_status, repository, RepositoryTypeOK
<1>6. \A r \in Requests : deletePc[r] # "idle" =>
        /\ deleteDoc[r] \in Documents
        /\ docStatus[deleteDoc[r]] # "processing"
  BY DEF IInv, DeletionInv, TypeOK, DeletionTypeOK, RowKept
<1>7. \A r \in Requests :
        deletePc[r] \in {"file", "record"} => vectors'[deleteDoc[r]] = {}
  BY <1>2, <1>3, <1>4, <1>6 DEF PurgedInv
<1>8. QED
  BY <1>2, <1>3, <1>4, <1>5, <1>7 DEF PurgedInv, deletions

LEMMA DeletePurged ==
  ASSUME IInv, PurgedInv, ~timedOut', Delete
  PROVE  PurgedInv'
<1>1. PICK r \in Requests :
        \/ \E d \in Documents : GetForDeletion(r, d)
        \/ DeleteVectors(r) \/ DeleteStoredFile(r) \/ DeleteRecord(r)
  BY DEF Delete, DeletionStep
<1>2. /\ VectorStoreTypeOK /\ RepositoryTypeOK /\ DeletionTypeOK
      /\ \A q \in Requests : deletePc[q] # "idle" => deleteDoc[q] \in Documents
  BY DEF IInv, DeletionInv, TypeOK, DeletionTypeOK
<1>3. ~timedOut /\ inflight' = inflight
  BY <1>1, <1>2, RequestLocal DEF GetForDeletion, DeleteVectors, DeleteStoredFile,
     DeleteRecord, vectorStore
<1>4. CASE DeleteVectors(r)
  <2>1. UNCHANGED docStatus /\ deleteDoc[r] \in Documents
    BY <1>2, <1>4 DEF DeleteVectors, repository
  <2>2. \A e \in Documents : vectors'[e] \subseteq vectors[e]
    BY <1>2, <1>4, <2>1 DEF DeleteVectors, DeleteRaises, delete_by_document, TimeOut,
       vectorStore, VectorStoreTypeOK
  <2>3. \A q \in Requests : deletePc'[q] \in {"file", "record"} =>
          /\ deleteDoc'[q] = deleteDoc[q]
          /\ \/ deletePc[q] \in {"file", "record"}
             \/ q = r /\ vectors' = [vectors EXCEPT ![deleteDoc[r]] = {}]
    BY <1>2, <1>4 DEF DeleteVectors, DeletionAt, EndDeletion, delete_by_document,
       DeletionTypeOK
  <2>4. QED
    BY <1>2, <1>3, <2>1, <2>2, <2>3 DEF PurgedInv, VectorStoreTypeOK
<1>5. CASE (\E d \in Documents : GetForDeletion(r, d)) \/ DeleteStoredFile(r) \/ DeleteRecord(r)
  <2>1. UNCHANGED vectors
    BY <1>5 DEF GetForDeletion, DeleteStoredFile, DeleteRecord, vectorStore
  <2>2. \A q \in Requests : deletePc'[q] \in {"file", "record"} =>
          deletePc[q] \in {"file", "record"} /\ deleteDoc'[q] = deleteDoc[q]
    BY <1>2, <1>5 DEF GetForDeletion, DeleteStoredFile, DeleteRecord, DeletionAt, EndDeletion,
       DeletionTypeOK
  <2>3. \/ UNCHANGED docStatus
        \/ deletePc[r] = "record" /\ docStatus' = [docStatus EXCEPT ![deleteDoc[r]] = "absent"]
    BY <1>5 DEF GetForDeletion, DeleteStoredFile, DeleteRecord, delete, repository
  <2>4. \A d \in Documents : docStatus'[d] = "absent" => vectors[d] = {}
    BY <1>2, <1>3, <2>3 DEF PurgedInv, RepositoryTypeOK
  <2>5. QED
    BY <1>3, <2>1, <2>2, <2>4 DEF PurgedInv
<1>6. QED
  BY <1>1, <1>4, <1>5

LEMMA CrashPurged ==
  ASSUME IInv, PurgedInv, ~timedOut', ApiCrash
  PROVE  PurgedInv'
<1>1. PICK c \in Documents \union {None} :
        \/ UNCHANGED vectorStore
        \/ /\ c \in Documents
           /\ \/ DeleteRaises(c)
              \/ ingestPc[c] = "upsert" /\ UpsertRaises(c, Attempt)
  BY DEF ApiCrash
<1>2. VectorStoreTypeOK /\ \A r \in Requests : deletePc'[r] = "idle"
  BY DEF IInv, TypeOK, ApiCrash, DeletionsVanish
<1>3. ~timedOut /\ inflight' = inflight
  BY <1>1, <1>2, RequestLocal DEF vectorStore
<1>4. \A d \in Documents : vectors'[d] \subseteq vectors[d] \/ docStatus[d] = "processing"
  <2>1. c \in Documents /\ ingestPc[c] = "upsert" => docStatus[c] = "processing"
    BY DEF IInv, RowKept, Processing
  <2>2. QED
    BY <1>1, <1>2, <2>1 DEF DeleteRaises, UpsertRaises, delete_by_document, TimeOut,
       vectorStore, VectorStoreTypeOK
<1>5. UNCHANGED docStatus
  BY DEF ApiCrash, repository
<1>6. QED
  BY <1>2, <1>3, <1>4, <1>5 DEF PurgedInv

\* A deleted document left no points, however deletions and ingest calls
\* overlapped, until a request outlives its timeout.
THEOREM NothingOrphaned == Spec => []NoOrphanVectors
<1>1. Init => PurgedInv
  BY DEF Init, VectorStoreInit, DeletionInit, PurgedInv
<1>2. IInv /\ PurgedInv /\ [Next]_vars => PurgedInv'
  <2>1. SUFFICES ASSUME IInv, PurgedInv, [Next]_vars, ~timedOut'
                 PROVE  PurgedInv'
    BY DEF PurgedInv
  <2>2. CASE LateWrite
    BY <2>1, <2>2 DEF LateWrite, Land, PurgedInv
  <2>3. CASE UNCHANGED vars
    BY <2>1, <2>3 DEF vars, repository, vectorStore, deletions, PurgedInv
  <2>4. QED
    BY <2>1, <2>2, <2>3, IngestPurged, DeletePurged, CrashPurged
    DEF Next, IngestStep, IngestAction
<1>3. PurgedInv => NoOrphanVectors
  BY DEF PurgedInv, NoOrphanVectors
<1>4. QED
  BY <1>1, <1>2, <1>3, Invariance, PTL DEF Spec
=============================================================================
