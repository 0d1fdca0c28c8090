-------------------------- MODULE DocumentService --------------------------
(***************************************************************************)
(* DELETE /api/v1/documents/{id}: DocumentService.delete_document          *)
(* (app/services/document_service.py).  FastAPI runs each request in a     *)
(* thread of its own (run_in_threadpool), so several deletions, uploads    *)
(* and the Worker interleave; a deletion is one transaction, one Qdrant    *)
(* request, one unlink and one more transaction, with nothing that makes   *)
(* the four atomic and no compensation when a later one fails.             *)
(***************************************************************************)
EXTENDS DocumentRepository, VectorStore

CONSTANT Requests   \* the DELETE requests in progress at one time

VARIABLES
  files,       \* the documents whose stored file exists
  deletePc,    \* the next step of each delete_document call
  deleteDoc,   \* the document it is deleting
  condemned    \* auxiliary: the documents some deletion was allowed on

deletions == <<deletePc, deleteDoc, condemned>>

DeletePcs == {"idle", "vectors", "file", "record"}

DeletionTypeOK ==
  /\ deletePc \in [Requests -> DeletePcs]
  /\ deleteDoc \in [Requests -> Documents \union {None}]
  /\ condemned \subseteq Documents

DeletionInit ==
  /\ files = {}
  /\ deletePc = [r \in Requests |-> "idle"]
  /\ deleteDoc = [r \in Requests |-> None]
  /\ condemned = {}

\* The call returns, or raises to the router: its locals are gone.
EndDeletion(r) ==
  /\ deletePc' = [deletePc EXCEPT ![r] = "idle"]
  /\ deleteDoc' = [deleteDoc EXCEPT ![r] = None]
  /\ UNCHANGED condemned

DeletionAt(r, pc) ==
  /\ deletePc' = [deletePc EXCEPT ![r] = pc]
  /\ UNCHANGED <<deleteDoc, condemned>>

GetForDeletion(r, d) ==
  /\ deletePc[r] = "idle"
  /\ DeletionAllowed(d)
  /\ deletePc' = [deletePc EXCEPT ![r] = "vectors"]
  /\ deleteDoc' = [deleteDoc EXCEPT ![r] = d]
  /\ condemned' = condemned \union {d}
  /\ UNCHANGED <<repository, vectorStore, files>>

\* Mutation: a Qdrant error does not stop the deletion.
DeleteVectorsIgnoringErrors(r) ==
  /\ deletePc[r] = "vectors"
  /\ delete_by_document(deleteDoc[r]) \/ DeleteRaises(deleteDoc[r])
  /\ DeletionAt(r, "file")
  /\ UNCHANGED <<repository, files>>

DeleteVectors(r) ==
  /\ deletePc[r] = "vectors"
  /\ \/ delete_by_document(deleteDoc[r]) /\ DeletionAt(r, "file")
     \/ DeleteRaises(deleteDoc[r]) /\ EndDeletion(r)
  /\ UNCHANGED <<repository, files>>

DeleteStoredFile(r) ==
  /\ deletePc[r] = "file"
  /\ \/ files' = files \ {deleteDoc[r]} /\ DeletionAt(r, "record")
     \/ UNCHANGED files /\ EndDeletion(r)
  /\ UNCHANGED <<repository, vectorStore>>

\* The second disjunct is a failed transaction, or DocumentNotFoundError when
\* another deletion of the same document got there first.
DeleteRecord(r) ==
  /\ deletePc[r] = "record"
  /\ delete(deleteDoc[r]) \/ UNCHANGED repository
  /\ EndDeletion(r)
  /\ UNCHANGED <<vectorStore, files>>

DeletionStep ==
  \E r \in Requests :
    \/ \E d \in Documents : GetForDeletion(r, d)
    \/ DeleteVectors(r)
    \/ DeleteStoredFile(r)
    \/ DeleteRecord(r)

\* The API process dies with every deletion it was serving.
DeletionsVanish ==
  /\ deletePc' = [r \in Requests |-> "idle"]
  /\ deleteDoc' = [r \in Requests |-> None]
  /\ UNCHANGED condemned
=============================================================================
