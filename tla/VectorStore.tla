---------------------------- MODULE VectorStore ----------------------------
(***************************************************************************)
(* The Qdrant collection as the application uses it through                *)
(* app/storage/qdrant_vector_store.py.  A point is an <<attempt, part>>    *)
(* pair: every ingestion attempt draws fresh uuid4 chunk ids, so the       *)
(* points of two attempts never overwrite each other, and an upsert of a   *)
(* whole document writes one point per part (chunk).                       *)
(*                                                                         *)
(* A write is one request with wait=True.  When it raises, the server may  *)
(* have applied all of it, some of it (an upsert), or none; with           *)
(* LateWrites it may also apply it after the caller has moved on (the      *)
(* client timeout is shorter than the server's queue).                     *)
(***************************************************************************)
EXTENDS Uploads

CONSTANTS
  Parts,       \* the chunks a document is split into
  LateWrites   \* may a request that timed out be applied later?

ASSUME LateWritesAssumption == LateWrites \in BOOLEAN

VARIABLES
  vectors,   \* the points stored for each document
  inflight,  \* timed-out writes <<document, attempt>>; attempt 0 is a delete
  timedOut   \* auxiliary: has any write timed out so far?

vectorStore == <<vectors, inflight, timedOut>>

VectorStoreTypeOK ==
  /\ vectors \in [Documents -> SUBSET (Nat \X Parts)]
  /\ inflight \subseteq Documents \X Nat
  /\ timedOut \in BOOLEAN

VectorStoreInit ==
  /\ vectors = [d \in Documents |-> {}]
  /\ inflight = {}
  /\ timedOut = FALSE

Points(attempt) == {attempt} \X Parts

delete_by_document(d) ==
  /\ vectors' = [vectors EXCEPT ![d] = {}]
  /\ UNCHANGED <<inflight, timedOut>>

upsert(d, attempt) ==
  /\ vectors' = [vectors EXCEPT ![d] = @ \union Points(attempt)]
  /\ UNCHANGED <<inflight, timedOut>>

\* The request is still queued at the server when its caller gives up on it.
TimeOut(d, attempt) ==
  /\ LateWrites
  /\ inflight' = inflight \union {<<d, attempt>>}
  /\ timedOut' = TRUE
  /\ UNCHANGED vectors

\* The ways delete_by_document may end in VectorStoreError.
DeleteRaises(d) ==
  \/ delete_by_document(d)
  \/ UNCHANGED vectorStore
  \/ TimeOut(d, 0)

\* The ways upsert may end in VectorStoreError: any part of it was applied.
UpsertRaises(d, attempt) ==
  \/ \E applied \in SUBSET Points(attempt) :
       /\ vectors' = [vectors EXCEPT ![d] = @ \union applied]
       /\ UNCHANGED <<inflight, timedOut>>
  \/ TimeOut(d, attempt)

\* The server applies a write whose caller has already seen a timeout.
Land(w) ==
  /\ w \in inflight
  /\ inflight' = inflight \ {w}
  /\ vectors' = [vectors EXCEPT ![w[1]] =
                   IF w[2] = 0 THEN {} ELSE @ \union Points(w[2])]
  /\ UNCHANGED timedOut
=============================================================================
