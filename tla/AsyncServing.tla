---------------------------- MODULE AsyncServing ----------------------------
(***************************************************************************)
(* Search and answer requests beside V2 ingestion and deletion: what a     *)
(* request retrieves while the Worker, the deletions, the crashes and the  *)
(* restarts go on around it.                                               *)
(***************************************************************************)
EXTENDS AsyncIngestion, ScopedRetrieval

servingVars == <<vars, queries>>

ServingInit == Init /\ QueryInit

Ingest ==
  /\ SubmitStep \/ WorkerStep \/ WorkerCrash \/ RestartWorker \/ Delete \/ LateWrite
  /\ UNCHANGED queries

Serve == QueryStep /\ UNCHANGED vars

\* One API process serves the submissions, the deletions and the queries.
ServerCrash == ApiCrash /\ QueriesVanish

ServingNext == Ingest \/ Serve \/ ServerCrash

ServingSpec == ServingInit /\ [][ServingNext]_servingVars

\* The chunks a search returns are those that the completed attempt of a ready
\* document indexed, at the moment of the search, although the status was read
\* earlier and one document at a time: never a chunk of an attempt that is
\* still running, crashed or failed, and never one of a document already gone,
\* unless a request to Qdrant outlives its timeout.
SearchedIsReady ==
  [][~timedOut => \A q \in Queries : \A found \in evidence'[q] \ evidence[q] :
       /\ docStatus[found[1]] = "ready"
       /\ found[2] \in Points(attemptCount[found[1]])]_servingVars

\* A request without a threshold is answered from as many chunks as its
\* documents have (up to top_k), unless a deletion was allowed on one of them.
\* Requests to Qdrant that outlive their timeout can take chunks only from a
\* document that was ingested by a replay: complete_job never follows an error
\* of Qdrant within one attempt.
NothingMissing ==
  \A q \in Queries :
    /\ queryPc[q] = "assess" /\ ~threshold[q] /\ scope[q] \intersect condemned = {}
    /\ timedOut => \A d \in scope[q] : attemptCount[d] = 1
    => Cardinality(evidence[q])
         >= AtMostTopK(Cardinality(scope[q]) * Cardinality(Parts))

(***************************************************************************)
(* The inductive invariant behind these properties.                        *)
(***************************************************************************)
QueryTypeOK ==
  /\ queryPc \in [Queries -> {"idle", "validate", "search", "assess"}]
  /\ scope \in [Queries -> SUBSET Documents]
  /\ threshold \in [Queries -> BOOLEAN]
  /\ unchecked \in [Queries -> SUBSET Documents]
  /\ evidence \in [Queries -> SUBSET (Documents \X (Nat \X Parts))]

\* What a document that was read as ready may have become since.
Validated(d) == docStatus[d] = "ready" \/ (docStatus[d] = "absent" /\ d \in condemned)

\* Nothing holds the documents of a request still, but a validated one can only
\* be deleted; and no search starts before every document was read.
QueryInv ==
  \A q \in Queries :
    /\ \A d \in scope[q] \ unchecked[q] : Validated(d)
    /\ queryPc[q] \in {"search", "assess"} => unchecked[q] = {}

\* Qdrant and the requests hold finitely many chunks, so that they can be counted.
FiniteInv ==
  /\ \A d \in Documents : IsFiniteSet(vectors[d])
  /\ \A q \in Queries : IsFiniteSet(evidence[q])

=============================================================================
