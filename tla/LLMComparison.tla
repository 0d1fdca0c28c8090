--------------------------- MODULE LLMComparison ---------------------------
(***************************************************************************)
(* The comparison of generation backends over one shared retrieval         *)
(* (evaluation/llm_comparison.py): the corpus is ingested as in an         *)
(* evaluation round, then every provider answers every question from the   *)
(* same results.  Each provider has an accumulator beside the recorded     *)
(* question results; the summaries are made of the accumulators.           *)
(***************************************************************************)
EXTENDS EvaluationRun

CONSTANTS
  ProviderLists,  \* the provider/model identities a caller may give, in order
  Priced          \* the identities of the pricing catalog

\* The names of what a round opens, which are no identities of providers.
Shared == {"directory", "embedding", "store"}

ASSUME ComparisonAssumption ==
  \A list \in ProviderLists : list \in Seq(Range(list)) /\ Range(list) \intersect Shared = {}

VARIABLES
  providers,  \* llm_providers
  turn,       \* the provider whose turn it is
  found,      \* the results of the current question
  answered,   \* provider_results of the current question
  totals      \* the _ProviderAccumulator of each provider

comparison == <<providers, turn, found, answered, totals>>
vars == <<runVars, comparison>>

\* The open providers the caller passes in.
Given == IF program = "llm" THEN {"embedding"} \union Range(providers) ELSE {}

NoTotals == [calls |-> 0, usages |-> 0, quality |-> 0, behavior |-> Rate(0, 0),
             markers |-> Rate(0, 0)]

\* scripts/run_llm_comparison.py makes the providers before it calls.
Init ==
  /\ RunInit
  /\ providers \in IF program = "llm" THEN ProviderLists ELSE {<<>>}
  /\ open = Given
  /\ turn = 1 /\ found = <<>> /\ answered = <<>>
  /\ totals = [p \in Range(providers) |-> NoTotals]

\* At least two providers, all different.  The contracts are validated, the
\* manifest is not.  All this is before the try: what raises here leaves the
\* given providers open, and neither does the caller close them.
LoadComparison ==
  /\ pc = "load" /\ program = "llm"
  /\ \/ Raise /\ UNCHANGED queries
     \/ /\ Len(providers) >= 2 /\ IsInjective(providers)
        /\ \A n \in DOMAIN questions : ValidContract(questions[n])
        /\ queries' \in QueriesOf(questions) /\ pc' = "open" /\ UNCHANGED decision
  /\ UNCHANGED <<program, questions, round, open, stuck, raised, contents, spending, results,
                 reports, comparison>>

\* From here on the outer finally closes the providers, even if the store cannot
\* be opened.
OpenComparison ==
  /\ pc = "open" /\ program = "llm"
  /\ \/ open' = open \union {"directory"} /\ pc' = "leave_directory" /\ raised' = TRUE
     \/ open' = open \union {"directory", "store"} /\ pc' = "ingest" /\ UNCHANGED raised
  /\ UNCHANGED <<inputs, round, stuck, contents, spending, results, conclusions, comparison>>

(***************************************************************************)
(* Questions                                                               *)
(***************************************************************************)
\* One search for all providers, without a threshold.  A scope with a name that
\* is not in the corpus raises here, and what the search does not accept.
Retrieve ==
  /\ pc = "question" /\ program = "llm" /\ Asked \in DOMAIN questions
  /\ \/ /\ ScopeOf(questions[Asked]) \subseteq Documents /\ Searchable(questions[Asked])
        /\ found' = Search(Asked, stored, NoThreshold)
        /\ answered' = <<>> /\ turn' = 1 /\ Goto("generate")
     \/ Fail /\ UNCHANGED <<found, answered, turn>>
  /\ UNCHANGED <<inputs, round, open, stuck, contents, spending, results, conclusions,
                 providers, totals>>

\* _evidence_complete
Complete(q) == Matched(found, q.evidence) = DOMAIN q.evidence

\* What a provider may make of the results: without any it is not called and
\* counts as refusing; its markers may be wrong and its usage missing.
Generations ==
  IF found = <<>> THEN [called : {FALSE}, refused : {TRUE}, markers : {FALSE}, usage : {FALSE}]
  ELSE [called : {TRUE}, refused : {TRUE}, markers : {FALSE}, usage : BOOLEAN]
         \union [called : {TRUE}, refused : {FALSE}, markers : BOOLEAN, usage : BOOLEAN]

\* _behavior_correct: a clarification is not scored.
Behaves(q, g) ==
  Rate(One(\/ q.behavior = "answer" /\ ~g.refused
           \/ q.behavior = "refuse" /\ g.refused), One(q.behavior # "clarify"))

\* _generate_for_provider; quality is whether it is scored at all.
Outcome(q, p, g) ==
  [provider |-> p, called |-> g.called, usage |-> g.usage, behavior |-> Behaves(q, g),
   quality |-> One(q.answer /\ Complete(q) /\ ~g.refused),
   markers |-> Rate(One(g.markers), One(~g.refused))]

Plus(a, b) == Rate(a.of + b.of, a.total + b.total)

\* Mutation: only calls that reported their usage are counted.
AddReported(total, o) ==
  [calls |-> total.calls + One(o.usage), usages |-> total.usages + One(o.usage),
   quality |-> total.quality + o.quality, behavior |-> Plus(total.behavior, o.behavior),
   markers |-> Plus(total.markers, o.markers)]

\* _ProviderAccumulator.add
Add(total, o) ==
  [calls |-> total.calls + One(o.called), usages |-> total.usages + One(o.usage),
   quality |-> total.quality + o.quality, behavior |-> Plus(total.behavior, o.behavior),
   markers |-> Plus(total.markers, o.markers)]

\* The accumulator is ahead of the question results until the last provider has
\* answered.  An error of a provider ends the comparison without a report.
Generate ==
  /\ pc = "generate"
  /\ \/ \E g \in Generations :
          LET q == questions[Asked]
              outcome == Outcome(q, providers[turn], g)
          IN /\ totals' = [totals EXCEPT ![providers[turn]] = Add(@, outcome)]
             /\ answered' = Append(answered, outcome)
             /\ turn' = turn + 1
             /\ IF turn < Len(providers) THEN Goto("generate") /\ UNCHANGED rows
                ELSE rows' = Append(rows, answered') /\ Goto("question")
     \/ found # <<>> /\ Fail /\ UNCHANGED <<totals, answered, turn, rows>>
  /\ UNCHANGED <<inputs, round, open, stuck, contents, spending, counters, deleted, samples,
                 conclusions, providers, found>>

AllAnswered ==
  /\ pc = "question" /\ program = "llm" /\ Asked \notin DOMAIN questions
  /\ Goto("closing")
  /\ UNCHANGED <<inputs, round, open, stuck, contents, spending, results, conclusions,
                 comparison>>

(***************************************************************************)
(* The end                                                                 *)
(***************************************************************************)
LeaveDirectoryFirst ==
  /\ pc = "leave_directory" /\ program = "llm"
  /\ open' = open \ {"directory"} /\ turn' = 1 /\ Goto("close_llm")
  /\ UNCHANGED <<inputs, round, stuck, contents, spending, results, conclusions, providers,
                 found, answered, totals>>

\* In order; a close that raises leaves the later ones open.
CloseProvider ==
  /\ pc = "close_llm"
  /\ LET p == providers[turn]
     IN /\ open' = open \ {p}
        /\ turn' = turn + 1
        /\ \/ Goto(IF turn = Len(providers) THEN "close_embedding" ELSE "close_llm")
                /\ UNCHANGED stuck
           \/ stuck' = stuck \union {p} /\ raised' = TRUE /\ pc' = "close_embedding"
  /\ UNCHANGED <<inputs, round, contents, spending, results, conclusions, providers, found,
                 answered, totals>>

CloseSharedEmbedding ==
  /\ pc = "close_embedding" /\ Close("embedding", "summarize")
  /\ UNCHANGED <<inputs, round, contents, spending, results, conclusions, comparison>>

\* _ProviderAccumulator.summarize: no cost unless every call reported its usage.
Summary(p) ==
  LET total == totals[p]
      complete == total.usages = total.calls
  IN [calls |-> total.calls, complete |-> complete, costed |-> complete /\ p \in Priced,
      quality |-> total.quality, behavior |-> total.behavior, markers |-> total.markers]

Summarize ==
  /\ pc = "summarize"
  /\ IF raised THEN Raise
     ELSE End([status |-> "compared", summaries |-> [p \in Range(providers) |-> Summary(p)]])
  /\ UNCHANGED <<inputs, round, open, stuck, raised, contents, spending, results, reports,
                 comparison>>

ComparisonNext ==
  \/ LoadComparison \/ OpenComparison
  \/ Retrieve \/ Generate \/ AllAnswered
  \/ LeaveDirectoryFirst \/ CloseProvider \/ CloseSharedEmbedding \/ Summarize

Next ==
  \/ ComparisonNext
  \/ RunNext /\ UNCHANGED comparison

Spec == Init /\ [][Next]_vars

(***************************************************************************)
(* Invariants                                                              *)
(***************************************************************************)
\* Steps with nothing of their own open, inside the try, and its finally clauses.
Idle == {"load", "open", "report", "decide"}
Busy == {"ingest", "upsert", "commit", "rollback", "question", "generate", "closing"}
Leaving == {"close_store", "leave_directory", "close_llm", "close_embedding", "summarize"}

StepsInv ==
  /\ pc \in Idle \union Busy \union Leaving \union {"ended"}
  /\ pc \in {"generate", "close_llm", "close_embedding", "summarize"} => program = "llm"
  /\ pc \in {"close_store", "report", "decide"} => program # "llm"
  /\ raised => pc \in Leaving \union {"closing", "ended"}
  /\ pc \in {"load", "open"} => ingested = {}
  /\ pc # "ended" => decision = Undecided

\* What was validated before anything was opened.
LoadedInv ==
  /\ program \in Programs /\ questions \in QuestionLists[program]
  /\ providers \in IF program = "llm" THEN ProviderLists ELSE {<<>>}
  /\ pc \notin {"load", "ended"} =>
       IF program = "llm" THEN Len(providers) >= 2 /\ IsInjective(providers)
       ELSE \A n \in DOMAIN questions : ValidContract(questions[n])

\* The providers behind one that raised when it was closed.
LeftOpen ==
  {providers[j] : j \in {k \in DOMAIN providers : \E i \in 1..(k - 1) : providers[i] \in stuck}}

OpenInv ==
  /\ pc \in Idle => open = Given
  /\ pc \in Busy => open = Shared \union Range(providers)
  /\ pc = "close_store" => open = {"directory", "store"}
  /\ pc = "leave_directory" => open = {"directory"} \union Given
  /\ pc = "close_llm" =>
       /\ turn \in DOMAIN providers
       /\ open \subseteq {"embedding"} \union {providers[j] : j \in turn..Len(providers)}
  /\ pc = "close_embedding" => open \subseteq {"embedding"} \union LeftOpen
  /\ pc = "summarize" => open \subseteq LeftOpen
  /\ pc = "ended" => \/ open \subseteq LeftOpen
                     \/ /\ open \subseteq {"embedding"} \union Range(providers)
                        /\ decision.status = "raised" /\ ~raised /\ ingested = {}

\* A text that was paid for is remembered, or the round has failed.
PaidInv ==
  /\ paid \in [Texts -> {0, 1}]
  /\ ~raised => \A t \in Texts : paid[t] = 1 => t \in cache

Outcomes ==
  [provider : Range(providers), called : BOOLEAN, usage : BOOLEAN, quality : {0, 1},
   behavior : [of : {0, 1}, total : {0, 1}], markers : [of : {0, 1}, total : {0, 1}]]

Totals ==
  [calls : Nat, usages : Nat, quality : Nat, behavior : [of : Nat, total : Nat],
   markers : [of : Nat, total : Nat]]

\* What the providers made of one question, in order, from the same results.
Answers(list, size) ==
  /\ list \in Seq(Outcomes) /\ Len(list) = size
  /\ \A i \in 1..size : /\ list[i].provider = providers[i]
                        /\ list[i].called <=> list[1].called
                        /\ list[i].usage => list[i].called

RowsInv ==
  program = "llm" =>
    /\ totals \in [Range(providers) -> Totals]
    /\ rows \in Seq(Seq(Outcomes)) /\ \A n \in DOMAIN rows : Answers(rows[n], Len(providers))
    /\ pc \in {"load", "open", "ingest", "upsert", "commit"} => rows = <<>>
    /\ Len(rows) <= Len(questions)
    /\ pc = "generate" =>
         /\ turn \in DOMAIN providers /\ Answers(answered, turn - 1)
         /\ \A i \in DOMAIN answered : answered[i].called <=> found # <<>>
         /\ Len(rows) < Len(questions)
    /\ pc \in Leaving \union {"closing"} /\ ~raised => Len(rows) = Len(questions)

\* The i-th provider has answered the recorded questions, and the current one
\* while it waits for the others.
Answered(i) == 1..(Len(rows) + One(pc = "generate" /\ i < turn))
OutcomeOf(n, i) == IF n <= Len(rows) THEN rows[n][i] ELSE answered[i]

TalliesInv ==
  program = "llm" /\ ((~raised /\ pc # "ended") \/ decision.status = "compared") =>
    \A i \in DOMAIN providers :
      IsInjective(providers) =>
        LET total == totals[providers[i]]
        IN /\ total.calls = Cardinality({n \in Answered(i) : OutcomeOf(n, i).called})
           /\ total.usages = Cardinality({n \in Answered(i) : OutcomeOf(n, i).usage})
           /\ total.behavior.of
                = Cardinality({n \in Answered(i) : OutcomeOf(n, i).behavior.of = 1})
           /\ total.markers.total
                = Cardinality({n \in Answered(i) : OutcomeOf(n, i).markers.total = 1})

\* They take turns, so no one is more than one question ahead.
TakeTurns ==
  \A i, j \in DOMAIN providers :
    i < j /\ IsInjective(providers)
      => totals[providers[i]].calls - totals[providers[j]].calls \in {0, 1}

ComparedInv ==
  decision.status = "compared" =>
    /\ pc = "ended" /\ program = "llm" /\ ~raised
    /\ IsInjective(providers) /\ Len(rows) = Len(questions)
    /\ decision.summaries = [p \in Range(providers) |-> Summary(p)]

\* Both stores are written together until something raises, and emptied between
\* two rounds.
StoredInv ==
  /\ ~raised => recorded \subseteq stored
  /\ pc \in {"load", "open"} => recorded = {} /\ stored = {}
  /\ pc \in {"ingest", "upsert", "commit", "question", "generate"} => recorded = stored
  /\ pc \in {"question", "generate"} /\ Strategy = "hybrid" => indexed = stored

IInv ==
  /\ StepsInv /\ LoadedInv /\ OpenInv /\ PaidInv
  /\ RowsInv /\ TalliesInv /\ (program = "llm" => TakeTurns) /\ ComparedInv /\ StoredInv

\* What a search of the whole corpus makes of a question.
RowOfSearch(n) ==
  LET hits == Search(n, Chunks, ThresholdOf(questions[n], Minimum))
  IN RowOf(questions[n], hits, hits)

ChunksIn(documents) == {c \in Chunks : DocumentOf[c] \in documents}

\* The vector store holds the documents ingested, one more before its commit.
CorpusInv ==
  /\ ingested \subseteq Documents /\ indexed \subseteq Chunks
  /\ pc \in {"ingest", "upsert", "question"} => stored = ChunksIn(ingested)
  /\ pc = "commit" => stored = ChunksIn(ingested \union {NextDocument})
  /\ pc \in {"upsert", "commit"} => ingested # Documents
  /\ pc = "question" => ingested = Documents

Failing(list, failure) == {n \in DOMAIN list : failure \in list[n].failures}

\* The rows are those of the questions so far, and the counters count them.
RowsOfSearchInv ==
  /\ pc \notin {"load", "ended"} => ValidManifest(questions)
  /\ pc \in {"load", "open", "ingest", "upsert", "commit", "rollback"} => rows = <<>>
  /\ rows # <<>> \/ pc \notin {"load", "ended"} => queries \in QueryLists
  /\ \E asked \in 0..Len(questions) : rows = [n \in 1..asked |-> RowOfSearch(n)]
  /\ \A n \in DOMAIN rows : ValidContract(questions[n])
  /\ counters \in [DOMAIN CounterFailure -> [of : Nat, total : Nat]]
  /\ \A k \in DOMAIN CounterFailure :
       counters[k].total - counters[k].of = Cardinality(Failing(rows, CounterFailure[k]))

ReportInv ==
  /\ program = "llm" => reports = <<>> /\ decision.status # "analysed"
  /\ program # "llm" => CorpusInv /\ RowsOfSearchInv
  /\ reports \in Seq(Range(reports))
  /\ pc = "decide" => reports # <<>> /\ Last(reports).rows = rows
  /\ ReportIsTrue

(***************************************************************************)
(* Properties                                                              *)
(***************************************************************************)
\* The outcomes of a provider in the recorded question results.
Recorded(p) ==
  {at \in (DOMAIN rows) \X (DOMAIN providers) : rows[at[1]][at[2]].provider = p}

CountRecorded(p, Test(_)) == Cardinality({at \in Recorded(p) : Test(rows[at[1]][at[2]])})

\* The providers are compared on the same work: they take turns, so no one is
\* more than one question ahead; a summary is the recount of the recorded
\* results of every question, and a cost is reported only if all of it is known.
ComparisonIsFair ==
  program = "llm" =>
    /\ TakeTurns
    /\ decision.status = "compared" =>
         /\ Len(rows) = Len(questions)
         /\ \A p \in Range(providers) :
              LET summary == decision.summaries[p]
              IN /\ summary.calls = CountRecorded(p, LAMBDA o : o.called)
                 /\ summary.behavior.of = CountRecorded(p, LAMBDA o : o.behavior.of = 1)
                 /\ summary.markers.total = CountRecorded(p, LAMBDA o : o.markers.total = 1)
                 /\ summary.costed => CountRecorded(p, LAMBDA o : o.called /\ ~o.usage) = 0

\* The store is closed before its directory is removed, and in the end nothing
\* is open but the LLM providers behind one that raised when it was closed, unless
\* the program was refused before its try: a comparison keeps the providers it was
\* given open then, a round whose stores could not be opened its embedding.
ResourcesReleased ==
  /\ "store" \in open => "directory" \in open
  /\ pc = "ended" =>
       \A r \in open :
         \/ /\ decision.status = "raised" /\ ~raised /\ ingested = {}
            /\ r \in {"embedding"} \union Range(providers)
         \/ \E i, j \in DOMAIN providers : i < j /\ providers[i] \in stuck /\ providers[j] = r
=============================================================================
