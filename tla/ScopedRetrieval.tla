--------------------------- MODULE ScopedRetrieval ---------------------------
(***************************************************************************)
(* RetrievalService.search (app/services/retrieval_service.py), as the     *)
(* search and answer endpoints call it: once per request, or once more     *)
(* with a rewritten query in RoutedAnswerService._execute.  Every selected *)
(* document is read by a transaction of its own and must be ready; then    *)
(* the query is embedded and Qdrant is searched.  Nothing holds the        *)
(* documents still between those steps, and requests run in threads beside *)
(* the deletions and the ingestions.                                       *)
(*                                                                         *)
(* A retrieved chunk is a pair of its document and its point.  The ranking *)
(* is abstracted: a search returns any TopK of the points it can see, or   *)
(* any fewer when the request has a score threshold.                       *)
(***************************************************************************)
EXTENDS DocumentService, FiniteSets

CONSTANTS
  Queries,   \* the search and answer requests in progress at one time
  TopK       \* the top_k of every request

ASSUME TopKAssumption == TopK \in Nat \ {0}

\* A request lists finitely many documents, and each was split into finitely
\* many chunks.
ASSUME FiniteAssumption == IsFiniteSet(Documents) /\ IsFiniteSet(Parts)

VARIABLES
  queryPc,     \* the next step of each request
  scope,       \* its document_ids
  threshold,   \* does it name a score_threshold?
  unchecked,   \* the selected documents it has not read yet in this round
  rounds,      \* the searches it has completed
  evidence     \* the chunks it has retrieved, both rounds merged

queries == <<queryPc, scope, threshold, unchecked, rounds, evidence>>

QueryInit ==
  /\ queryPc = [q \in Queries |-> "idle"]
  /\ scope = [q \in Queries |-> {}]
  /\ threshold = [q \in Queries |-> FALSE]
  /\ unchecked = [q \in Queries |-> {}]
  /\ rounds = [q \in Queries |-> 0]
  /\ evidence = [q \in Queries |-> {}]

\* The service call returns or raises: its locals are gone.
EndQuery(q) ==
  /\ queryPc' = [queryPc EXCEPT ![q] = "idle"]
  /\ scope' = [scope EXCEPT ![q] = {}]
  /\ threshold' = [threshold EXCEPT ![q] = FALSE]
  /\ unchecked' = [unchecked EXCEPT ![q] = {}]
  /\ rounds' = [rounds EXCEPT ![q] = 0]
  /\ evidence' = [evidence EXCEPT ![q] = {}]

\* A request that passes _validate_request; the ids may be of any document.
StartQuery(q) ==
  /\ queryPc[q] = "idle"
  /\ \E selected \in SUBSET Documents \ {{}} :
       /\ scope' = [scope EXCEPT ![q] = selected]
       /\ unchecked' = [unchecked EXCEPT ![q] = selected]
  /\ \E named \in BOOLEAN : threshold' = [threshold EXCEPT ![q] = named]
  /\ queryPc' = [queryPc EXCEPT ![q] = "validate"]
  /\ UNCHANGED <<rounds, evidence>>

\* Mutation: only a document that does not exist is refused.
ValidateExistence(q) ==
  /\ queryPc[q] = "validate"
  /\ \E d \in unchecked[q] :
       /\ docStatus[d] # "absent"
       /\ unchecked' = [unchecked EXCEPT ![q] = @ \ {d}]
       /\ queryPc' = [queryPc EXCEPT
            ![q] = IF unchecked[q] = {d} THEN "search" ELSE "validate"]
  /\ UNCHANGED <<scope, threshold, rounds, evidence>>

\* One iteration of _validate_documents: DocumentNotFoundError,
\* DocumentNotReadyError and a failing read all end the request.
ValidateDocument(q) ==
  /\ queryPc[q] = "validate"
  /\ \/ \E d \in unchecked[q] :
          /\ docStatus[d] = "ready"
          /\ unchecked' = [unchecked EXCEPT ![q] = @ \ {d}]
          /\ queryPc' = [queryPc EXCEPT
               ![q] = IF unchecked[q] = {d} THEN "search" ELSE "validate"]
          /\ UNCHANGED <<scope, threshold, rounds, evidence>>
     \/ EndQuery(q)

\* The points QdrantVectorStore.search can see through its document_id filter.
Visible(selected) == UNION {{d} \X vectors[d] : d \in selected}

AtMostTopK(n) == IF n < TopK THEN n ELSE TopK

\* One Qdrant request; results outside the scope cannot pass its filter.
Returned(q) ==
  LET points == Visible(scope[q])
      full == AtMostTopK(Cardinality(points))
  IN {found \in SUBSET points :
        IF threshold[q] THEN Cardinality(found) <= full
                        ELSE Cardinality(found) = full}

Search(q) ==
  /\ queryPc[q] = "search"
  /\ \/ /\ \E found \in Returned(q) :
             evidence' = [evidence EXCEPT ![q] = @ \union found]
        /\ rounds' = [rounds EXCEPT ![q] = @ + 1]
        /\ queryPc' = [queryPc EXCEPT ![q] = "assess"]
        /\ UNCHANGED <<scope, threshold, unchecked>>
     \/ EndQuery(q)

\* EvidenceSufficiencyPolicy: min(2, top_k).
Required == IF TopK < 2 THEN TopK ELSE 2

\* RoutedAnswerService: one more round, over the same documents, when the first
\* found too little and the question has a safe rewrite.
Retry(q) ==
  /\ queryPc[q] = "assess"
  /\ rounds[q] = 1
  /\ Cardinality(evidence[q]) < Required
  /\ queryPc' = [queryPc EXCEPT ![q] = "validate"]
  /\ unchecked' = [unchecked EXCEPT ![q] = scope[q]]
  /\ UNCHANGED <<scope, threshold, rounds, evidence>>

\* The answer is generated from the evidence, refused, or the results returned.
Respond(q) == queryPc[q] = "assess" /\ EndQuery(q)

QueryStep ==
  \E q \in Queries :
    StartQuery(q) \/ ValidateDocument(q) \/ Search(q) \/ Retry(q) \/ Respond(q)

\* The API process dies with the requests it was serving.
QueriesVanish ==
  /\ queryPc' = [q \in Queries |-> "idle"]
  /\ scope' = [q \in Queries |-> {}]
  /\ threshold' = [q \in Queries |-> FALSE]
  /\ unchecked' = [q \in Queries |-> {}]
  /\ rounds' = [q \in Queries |-> 0]
  /\ evidence' = [q \in Queries |-> {}]
=============================================================================
