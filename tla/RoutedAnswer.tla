---------------------------- MODULE RoutedAnswer ----------------------------
(***************************************************************************)
(* POST /api/v2/answers: RoutedAnswerService (app/services/                *)
(* routed_answer_service.py) with its router, its query rewriter, its      *)
(* evidence policy and the generator half of AnswerService.  One request   *)
(* from its validation to the result it returns or the error it raises.    *)
(*                                                                         *)
(* A question is what the rules can tell of it: which patterns it matches, *)
(* and what the rewriting rules and their fallback make of it.  A search   *)
(* result is a chunk with a score; the retrieval itself is the subject of  *)
(* ScopedRetrieval.                                                        *)
(***************************************************************************)
EXTENDS Naturals, Sequences, FiniteSets, SequencesExt

CONSTANTS
  Chunks,     \* the chunk ids, naturals, in the order of their text form
  Scores,     \* the scores a result may have
  Threshold,  \* the score_threshold of the requests that name one
  TopKs       \* the top_k of the requests

ASSUME ChunksAssumption == Chunks \subseteq Nat /\ IsFiniteSet(Chunks)
ASSUME ScoresAssumption == Scores \subseteq Nat /\ IsFiniteSet(Scores) /\ Threshold \in Nat
ASSUME TopKsAssumption == TopKs \subseteq Nat \ {0}

VARIABLES
  question,   \* the question, as the rules see it
  topK,       \* top_k of the request
  filtered,   \* does the request name a score_threshold?
  scoped,     \* does it select any document?
  available,  \* are the retrieval and the answer service configured?
  pc,         \* the next step of _execute
  reason,     \* the RouteReason decided, "none" before
  first,      \* first_results
  evidence,   \* the results an answer would be generated from
  calls,      \* the calls of RetrievalService.search
  asked,      \* the calls of the LLM
  result      \* the RoutedAnswerResult, NoResult before

request == <<question, topK, filtered, scoped, available>>
vars == <<request, pc, reason, first, evidence, calls, asked, result>>

NoResult == [stop |-> "none"]

(***************************************************************************)
(* The rules                                                               *)
(***************************************************************************)
\* _refusal_rules, in the order they are tried.
RefusalRules ==
  <<"secret_request", "scope_bypass", "evidence_bypass", "unsupported_action">>

DirectReasons == {"greeting", "capability_help", "usage_help"}
Reasons == Range(RefusalRules) \union DirectReasons \union {"retrieve_default"}

\* What a rule or the rewriter leaves of a question: itself, nothing, or
\* another query.
Rewritings == {"same", "blank", "other"}

\* "matches" are the rules that match the question; a greeting matches as a
\* whole, so no other rule does; "blank" questions are punctuation only.
Questions ==
  LET rules == Range(RefusalRules) \union {"capability_help", "usage_help"}
  IN [matches : (SUBSET rules) \union {{"greeting"}}, blank : {FALSE},
        candidate : Rewritings, fallback : Rewritings]
       \union [matches : {{}}, blank : {TRUE},
                 candidate : {"same", "blank"}, fallback : {"same", "blank"}]

\* Mutation: greetings and help are recognised before the refusals.
DirectFirst(q) ==
  IF q.matches \intersect DirectReasons # {}
  THEN SelectSeq(<<"greeting", "capability_help", "usage_help">>,
                 LAMBDA r : r \in q.matches)[1]
  ELSE IF q.matches # {}
  THEN SelectSeq(RefusalRules, LAMBDA r : r \in q.matches)[1]
  ELSE "retrieve_default"

Rules == RefusalRules \o <<"greeting", "capability_help", "usage_help">>

\* RuleBasedQuestionRouter.route: the first rule that matches, refusals first.
RouteOf(q) ==
  LET matching == {i \in DOMAIN Rules : Rules[i] \in q.matches}
  IN IF matching = {} THEN "retrieve_default" ELSE Rules[Min(matching)]

Route(r) ==
  CASE r \in DirectReasons -> "direct_answer"
    [] r \in Range(RefusalRules) -> "refuse"
    [] OTHER -> "retrieve"

\* RuleBasedQueryRewriter.rewrite: is there a distinct query to try?
HasRewrite(q) ==
  LET candidate == IF q.candidate = "same" THEN q.fallback ELSE q.candidate
  IN candidate = "other"

(***************************************************************************)
(* Evidence                                                                *)
(***************************************************************************)
Results == [chunk : Chunks, score : Scores]

\* _ordered_unique: by descending score, then by chunk id, each chunk once.
Precedes(r, s) ==
  \/ r.score > s.score
  \/ r.score = s.score /\ r.chunk < s.chunk

OrderedUnique(results) ==
  \A i, j \in DOMAIN results :
    i < j => results[i].chunk # results[j].chunk /\ Precedes(results[i], results[j])

\* What is left of the results of RetrievalService.search: at most top_k, none
\* below a threshold.
Found ==
  {results \in SeqOf(Results, topK) :
     /\ OrderedUnique(results)
     /\ filtered => \A i \in DOMAIN results : results[i].score >= Threshold}

ChunksOf(results) == {results[i].chunk : i \in DOMAIN results}

\* Mutation: the rounds are concatenated.
ConcatRounds(one, two) == one \o two

\* _merge_rounds: the first round in its order, then what the second adds.
MergeRounds(one, two) ==
  LET merged[n \in Nat] ==
        IF n = 0 THEN one
        ELSE IF n > Len(two) \/ two[n].chunk \in ChunksOf(merged[n - 1]) THEN merged[n - 1]
        ELSE Append(merged[n - 1], two[n])
  IN merged[Len(two)]

\* EvidenceSufficiencyPolicy.assess, for a limit and with or without a threshold.
Required(limit) == IF limit < 2 THEN limit ELSE 2
Relevant(results, cut) ==
  Cardinality({i \in DOMAIN results : cut => results[i].score >= Threshold})
Insufficient(results, limit, cut) == Relevant(results, cut) < Required(limit)
ShouldRetry(results) == Insufficient(results, topK, filtered)

(***************************************************************************)
(* One request                                                             *)
(***************************************************************************)
Init ==
  /\ question \in Questions
  /\ topK \in TopKs
  /\ filtered \in BOOLEAN
  /\ scoped \in BOOLEAN
  /\ available \in BOOLEAN
  /\ pc = "route"
  /\ reason = "none"
  /\ first = <<>>
  /\ evidence = <<>>
  /\ calls = 0
  /\ asked = 0
  /\ result = NoResult

Raise ==
  /\ pc' = "raised"
  /\ UNCHANGED <<reason, first, evidence, calls, asked, result>>

\* RoutedAnswerResult as _direct_answer, _refuse, _no_evidence and _generate
\* build it.
Return(citations, count, attempts, rewritten, stop) ==
  /\ result' = [citations |-> citations, count |-> count,
                route |-> Route(reason'), attempts |-> attempts,
                rewritten |-> rewritten, stop |-> stop]
  /\ pc' = "returned"

\* RuleBasedQuestionRouter.route, then the tests of _execute before a search.
\* A question without a letter or digit passed the validation, and raises here.
RouteQuestion ==
  /\ pc = "route"
  /\ \/ question.blank /\ Raise
     \/ /\ ~question.blank
        /\ reason' = RouteOf(question)
        /\ \/ Route(reason') = "direct_answer"
                /\ Return(<<>>, 0, 0, FALSE, "direct_answer")
           \/ Route(reason') = "refuse"
                /\ Return(<<>>, 0, 0, FALSE, "router_refusal")
           \/ /\ Route(reason') = "retrieve" /\ ~scoped
              /\ Return(<<>>, 0, 0, FALSE, "no_document_scope")
           \/ /\ Route(reason') = "retrieve" /\ scoped
              /\ pc' = IF available THEN "first" ELSE "raised"
              /\ UNCHANGED result
        /\ UNCHANGED <<first, evidence, calls, asked>>
  /\ UNCHANGED request

\* The first call of RetrievalService.search and its possible results.
FirstSearch(possible) ==
  /\ pc = "first"
  /\ \/ /\ \E found \in possible : first' = found
        /\ calls' = calls + 1
        /\ pc' = "assess"
        /\ UNCHANGED <<reason, evidence, asked, result>>
     \/ Raise
  /\ UNCHANGED request

SearchFirst == FirstSearch(Found)

AssessFirst ==
  /\ pc = "assess"
  /\ \/ /\ ~ShouldRetry(first)
        /\ evidence' = first
        /\ pc' = "generate"
        /\ UNCHANGED result
     \/ /\ ShouldRetry(first) /\ HasRewrite(question)
        /\ pc' = "second"
        /\ UNCHANGED <<evidence, result>>
     \/ /\ ShouldRetry(first) /\ ~HasRewrite(question)
        /\ UNCHANGED <<reason, evidence>>
        /\ Return(<<>>, Len(first), 1, FALSE, "no_safe_rewrite")
  /\ UNCHANGED <<request, reason, first, calls, asked>>

\* The second call, with the rewritten query.
SecondSearch(possible) ==
  /\ pc = "second"
  /\ \/ /\ \E found \in possible :
             LET merged == MergeRounds(first, found)
             IN \/ /\ ~ShouldRetry(merged)
                   /\ evidence' = merged
                   /\ pc' = "generate"
                   /\ UNCHANGED <<reason, result>>
                \/ /\ ShouldRetry(merged)
                   /\ UNCHANGED <<reason, evidence>>
                   /\ Return(<<>>, Len(merged), 2, TRUE, "retry_exhausted")
        /\ calls' = calls + 1
        /\ UNCHANGED <<first, asked>>
     \/ Raise
  /\ UNCHANGED request

\* Mutation: an exhausted retry reports the attempts of the first round.
SecondForgetsAttempt ==
  /\ pc = "second"
  /\ \E found \in Found :
       LET merged == MergeRounds(first, found)
       IN /\ ShouldRetry(merged)
          /\ UNCHANGED <<reason, evidence>>
          /\ Return(<<>>, Len(merged), 1, TRUE, "retry_exhausted")
  /\ calls' = calls + 1
  /\ UNCHANGED <<request, first, asked>>

SearchSecond == SecondSearch(Found)

\* AnswerService._answer_from_evidence: every result is cited, in order, unless
\* there are none or the LLM answers with the insufficient-evidence marker.
GeneratedCitations(results) == {results, <<>>}

Generate ==
  /\ pc = "generate"
  /\ \/ /\ asked' = asked + 1
        /\ UNCHANGED <<reason, first, evidence, calls>>
        /\ \E citations \in GeneratedCitations(evidence) :
             Return(citations, Len(evidence), calls, calls = 2,
                    CASE citations = <<>> -> "generator_refusal"
                      [] citations # <<>> /\ calls = 1 -> "sufficient_evidence_first_pass"
                      [] OTHER -> "retry_succeeded")
     \/ Raise
  /\ UNCHANGED request

Ended == pc \in {"returned", "raised"}

\* The request is over; the next one is another behaviour.
Done == Ended /\ UNCHANGED vars

Next ==
  \/ RouteQuestion \/ SearchFirst \/ AssessFirst \/ SearchSecond \/ Generate
  \/ Done

Spec == Init /\ [][Next]_vars

(***************************************************************************)
(* Invariants                                                              *)
(***************************************************************************)
Stops ==
  {"direct_answer", "router_refusal", "no_document_scope", "no_safe_rewrite",
   "retry_exhausted", "generator_refusal", "sufficient_evidence_first_pass",
   "retry_succeeded"}

RoutedAnswerResult ==
  [citations : Seq(Results), count : Nat, route : {"direct_answer", "refuse", "retrieve"},
   attempts : 0..2, rewritten : BOOLEAN, stop : Stops]

TypeOK ==
  /\ question \in Questions
  /\ topK \in TopKs /\ filtered \in BOOLEAN /\ scoped \in BOOLEAN /\ available \in BOOLEAN
  /\ pc \in {"route", "first", "assess", "second", "generate", "returned", "raised"}
  /\ reason \in Reasons \union {"none"}
  /\ first \in Seq(Results) /\ evidence \in Seq(Results)
  /\ calls \in 0..2 /\ asked \in 0..1
  /\ result \in RoutedAnswerResult \union {NoResult}

Distinct(results) ==
  \A i, j \in DOMAIN results : results[i].chunk = results[j].chunk => i = j

\* How far the request is tells what has been done for it.
Untouched == calls = 0 /\ asked = 0
Searching == {"first", "assess", "second", "generate"}

StepInv ==
  /\ pc = "route" => reason = "none"
  /\ pc \in Searching => reason = RouteOf(question)
  /\ pc \in {"route", "first"} => Untouched
  /\ pc \in {"assess", "second"} => calls = 1 /\ asked = 0
  /\ pc = "second" => ShouldRetry(first) /\ HasRewrite(question)
  /\ pc # "returned" => result = NoResult
  /\ pc = "returned" => result # NoResult

\* Nothing but a question that no rule recognises is searched for.
RoutingInv ==
  /\ pc \in Searching => Route(RouteOf(question)) = "retrieve"
  /\ pc = "raised" /\ ~question.blank => Route(RouteOf(question)) = "retrieve"
  /\ pc = "returned" /\ Route(RouteOf(question)) # "retrieve"
       => /\ Untouched
          /\ result.stop = IF Route(RouteOf(question)) = "refuse" THEN "router_refusal"
                           ELSE "direct_answer"

\* The evidence is that of the round after which no other was needed.
EvidenceInv ==
  /\ Distinct(first) /\ Distinct(evidence)
  /\ pc = "generate" => asked = 0 /\ calls \in {1, 2}
  /\ pc = "generate" \/ asked > 0
       => /\ ~ShouldRetry(evidence)
          /\ calls = 1 => evidence = first
          /\ calls = 2 => ShouldRetry(first)

\* The result tells what was done.
ReturnedInv ==
  pc = "returned" =>
    /\ result.attempts = calls
    /\ calls = 2 => ShouldRetry(first)
    /\ calls = 1 /\ ShouldRetry(first) => ~HasRewrite(question)
    /\ result.citations # <<>> => asked = 1 /\ result.citations = evidence
    /\ Len(result.citations) <= result.count
    /\ result.rewritten => calls = 2
    /\ result.route # "retrieve" => result.count = 0 /\ Untouched /\ ~result.rewritten
    /\ result.citations # <<>>
         <=> result.stop \in {"sufficient_evidence_first_pass", "retry_succeeded"}

IInv == TypeOK /\ StepInv /\ RoutingInv /\ EvidenceInv /\ ReturnedInv

(***************************************************************************)
(* Properties                                                              *)
(***************************************************************************)
\* Every result can be built: RoutedAnswerResult.__post_init__ (domain/models.py)
\* would raise, and turn a finished answer into a server error, otherwise.  It
\* reports the searches made, and a second one happened exactly when the first
\* found too little and there was a query left to try
\* (docs/r6_routing_agent_design.md, 5.1 and 5.2).
ResultIsValid ==
  pc = "returned" =>
    /\ Len(result.citations) <= result.count
    /\ result.attempts <= 2
    /\ result.route # "retrieve" =>
         result.count = 0 /\ result.attempts = 0 /\ ~result.rewritten
    /\ result.rewritten => result.attempts = 2
    /\ result.attempts = calls
    /\ calls = 2 => ShouldRetry(first)
    /\ calls = 1 /\ ShouldRetry(first) => ~HasRewrite(question)

\* docs/r6_routing_agent_design.md, 4.1: a question that any refusal rule
\* matches is refused whatever else it says, and neither a refusal nor a help
\* text costs a search or an LLM call, or needs the providers.
BoundaryFirst ==
  pc \in {"returned", "raised"} /\ ~question.blank =>
    /\ question.matches \intersect Range(RefusalRules) # {}
         => result # NoResult /\ result.stop = "router_refusal"
    /\ question.matches # {} => pc = "returned" /\ calls = 0 /\ asked = 0

\* The LLM is only asked with enough evidence, at most once, and an answer cites
\* every chunk it was given exactly once; without citations the answer is a fixed
\* text, and with them it never is.
AnswersAreGrounded ==
  /\ asked > 0 => Relevant(evidence, filtered) >= Required(topK)
  /\ pc = "returned" =>
       /\ \A i, j \in DOMAIN result.citations :
            result.citations[i].chunk = result.citations[j].chunk => i = j
       /\ result.citations # <<>> <=>
            result.stop \in {"sufficient_evidence_first_pass", "retry_succeeded"}
       /\ result.citations # <<>> => asked = 1 /\ result.citations = evidence

\* docs/r6_routing_agent_design.md, 4.1: whatever no refusal and no help rule
\* recognises is routed to retrieval.
EveryQuestionIsRouted == pc # "route" => reason # "none"
=============================================================================
