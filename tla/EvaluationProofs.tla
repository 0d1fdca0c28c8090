-------------------------- MODULE EvaluationProofs --------------------------
(***************************************************************************)
(* Theorems about LLMComparison and the EvaluationRun in it, for every     *)
(* corpus, question list and list of providers.                            *)
(***************************************************************************)
EXTENDS LLMComparison, SetFolds, SequenceTheorems, TLAPS

(***************************************************************************)
(* Control and what was validated                                          *)
(***************************************************************************)
LEMMA DecideEnds ==
  ASSUME LoadedInv, Decide
  PROVE  /\ pc = "decide" /\ pc' = "ended" /\ decision'.status \in {"completed", "analysed", "raised"}
         /\ UNCHANGED <<inputs, round, open, stuck, raised, contents, spending, results, reports>>
<1>1. program \in {"baseline", "latency", "semantic", "hybrid"}
  BY RunAssumption DEF LoadedInv, Decide
<1>2. CASE program = "baseline"
  BY <1>2 DEF Decide, End
<1>3. CASE program = "latency"
  BY <1>3 DEF Decide, EndLatency, End, Raise
<1>4. CASE program = "semantic"
  BY <1>4 DEF Decide, EndSemantic, End, Raise, Analysis
<1>5. CASE program = "hybrid"
  BY <1>5 DEF Decide, EndHybrid, End, Raise, Analysis
<1> QED
  BY <1>1, <1>2, <1>3, <1>4, <1>5

LEMMA StepsKept ==
  ASSUME StepsInv, LoadedInv, Next
  PROVE  StepsInv'
<1> USE DEF StepsInv, Idle, Busy, Leaving, runVars, inputs, contents, spending, results,
       conclusions, comparison, Goto, Fail, Raise, End
<1>1. CASE LoadInputs \/ OpenStores
  BY <1>1 DEF LoadInputs, OpenStores
<1>2. CASE EmbedDocument \/ UpsertDocument \/ CommitDocument \/ RollBackDocument
  BY <1>2 DEF EmbedDocument, UpsertDocument, CommitDocument, RollBackDocument
<1>3. CASE BuildSearch \/ EvaluateQuestion \/ ProbeDeletion
  BY <1>3 DEF BuildSearch, EvaluateQuestion, ProbeDeletion
<1>4. CASE CloseEmbedding \/ CloseStore \/ LeaveDirectory
  BY <1>4 DEF CloseEmbedding, CloseStore, LeaveDirectory, Close
<1>5. CASE BuildReport
  BY <1>5 DEF BuildReport, NextRound
<1>6. CASE Decide
  BY <1>6, DecideEnds
<1>7. CASE pc = "ended" /\ UNCHANGED runVars
  BY <1>7
<1>8. CASE LoadComparison \/ OpenComparison
  BY <1>8 DEF LoadComparison, OpenComparison
<1>9. CASE Retrieve \/ Generate \/ AllAnswered
  BY <1>9 DEF Retrieve, Generate, AllAnswered
<1>10. CASE LeaveDirectoryFirst \/ CloseProvider \/ CloseSharedEmbedding \/ Summarize
  BY <1>10 DEF LeaveDirectoryFirst, CloseProvider, CloseSharedEmbedding, Summarize, Close
<1> QED
  BY <1>1, <1>2, <1>3, <1>4, <1>5, <1>6, <1>7, <1>8, <1>9, <1>10
     DEF Next, RunNext, ComparisonNext

\* What the invocation was given stays the same.
LEMMA GivenKept ==
  ASSUME Next
  PROVE  UNCHANGED <<program, questions, providers>>
<1> USE DEF runVars, inputs, contents, spending, results, conclusions, comparison
<1> QED
  BY DEF Next, RunNext, ComparisonNext, LoadInputs, OpenStores, EmbedDocument, UpsertDocument,
     CommitDocument, RollBackDocument, BuildSearch, EvaluateQuestion, ProbeDeletion,
     CloseEmbedding, CloseStore, LeaveDirectory, BuildReport, Decide, LoadComparison,
     OpenComparison, Retrieve, Generate, AllAnswered, LeaveDirectoryFirst, CloseProvider,
     CloseSharedEmbedding, Summarize

\* A program starts with its validation, and there is nothing after its end.
LEMMA FirstAndLast ==
  ASSUME Next
  PROVE  /\ pc = "load" => LoadInputs \/ LoadComparison
         /\ pc = "ended" => UNCHANGED vars
BY DEF Next, RunNext, ComparisonNext, LoadInputs, OpenStores, EmbedDocument, UpsertDocument,
   CommitDocument, RollBackDocument, BuildSearch, EvaluateQuestion, ProbeDeletion,
   CloseEmbedding, CloseStore, LeaveDirectory, BuildReport, Decide, LoadComparison,
   OpenComparison, Retrieve, Generate, AllAnswered, LeaveDirectoryFirst, CloseProvider,
   CloseSharedEmbedding, Summarize, vars

LEMMA LoadedKept ==
  ASSUME LoadedInv, Next
  PROVE  LoadedInv'
<1>1. UNCHANGED <<program, questions, providers>>
  BY GivenKept
<1>2. SUFFICES ASSUME pc' \notin {"load", "ended"}
               PROVE  IF program = "llm" THEN Len(providers) >= 2 /\ IsInjective(providers)
                      ELSE \A n \in DOMAIN questions : ValidContract(questions[n])
  BY <1>1 DEF LoadedInv
<1>3. CASE pc = "load"
  <2>1. CASE LoadInputs
    BY <1>2, <2>1 DEF LoadInputs, Raise, End
  <2>2. CASE LoadComparison
    BY <1>2, <2>2 DEF LoadComparison, Raise, End
  <2> QED
    BY <1>3, <2>1, <2>2, FirstAndLast
<1>4. CASE pc # "load"
  <2>1. pc # "ended"
    BY <1>2, FirstAndLast DEF vars, runVars
  <2> QED
    BY <1>4, <2>1 DEF LoadedInv
<1> QED
  BY <1>3, <1>4

(***************************************************************************)
(* What is open                                                            *)
(***************************************************************************)
\* Nothing that a provider is called is opened by the comparison itself.
LEMMA ProvidersApart ==
  ASSUME LoadedInv
  PROVE  /\ providers \in Seq(Range(providers)) /\ Range(providers) \intersect Shared = {}
         /\ program # "llm" => Range(providers) = {}
         /\ program = "llm" => Given = {"embedding"} \union Range(providers)
         /\ program # "llm" => Given = {}
<1> USE DEF Given
<1>1. CASE program = "llm"
  BY <1>1, ComparisonAssumption DEF LoadedInv
<1>2. CASE program # "llm"
  <2>1. providers = <<>>
    BY <1>2 DEF LoadedInv
  <2>2. Range(providers) = {}
    BY <2>1 DEF Range
  <2> QED
    BY <1>2, <2>1, <2>2
<1> QED
  BY <1>1, <1>2

LEMMA LeftOpenGrows ==
  ASSUME stuck \subseteq stuck', providers' = providers
  PROVE  LeftOpen \subseteq LeftOpen'
BY DEF LeftOpen

LEMMA OpenKept ==
  ASSUME StepsInv, LoadedInv, OpenInv, Next
  PROVE  OpenInv'
<1> DEFINE named == Range(providers)
<1>1. UNCHANGED <<program, questions, providers>>
  BY GivenKept
<1>2. /\ providers \in Seq(named) /\ named \intersect Shared = {}
      /\ program # "llm" => named = {} /\ Given = {}
      /\ program = "llm" => Given = {"embedding"} \union named
      /\ Given' = Given
  BY <1>1, ProvidersApart DEF Given
<1> USE DEF runVars, inputs, contents, spending, results, conclusions, comparison
<1>3. CASE EmbedDocument \/ UpsertDocument \/ CommitDocument \/ RollBackDocument \/ BuildSearch
           \/ EvaluateQuestion \/ ProbeDeletion \/ Retrieve \/ Generate \/ AllAnswered
  <2>1. pc \in Busy /\ pc' \in Busy /\ open' = open
    BY <1>3 DEF EmbedDocument, UpsertDocument, CommitDocument, RollBackDocument, BuildSearch,
       EvaluateQuestion, ProbeDeletion, Retrieve, Generate, AllAnswered, Goto, Fail, Busy
  <2> QED
    BY <1>1, <2>1 DEF OpenInv, Busy, Idle
<1>4. CASE LoadInputs \/ LoadComparison \/ BuildReport \/ Decide
  <2>1. pc \in Idle /\ open' = open /\ pc' \in {"open", "decide", "ended"}
    BY <1>4, DecideEnds DEF LoadInputs, LoadComparison, BuildReport, NextRound, Raise, End, Idle
  <2>2. open' = Given
    BY <2>1 DEF OpenInv
  <2>3. CASE pc' # "ended"
    BY <1>2, <2>1, <2>2, <2>3 DEF OpenInv, Busy, Idle
  <2>4. CASE pc' = "ended" /\ pc = "load"
    <3>1. decision'.status = "raised" /\ raised' = raised /\ ingested' = ingested
      BY <1>4, <2>4 DEF LoadInputs, LoadComparison, BuildReport, Decide, Raise, End
    <3>2. ~raised /\ ingested = {}
      BY <2>4 DEF StepsInv, Leaving
    <3>3. Given \subseteq {"embedding"} \union Range(providers)
      BY <1>2
    <3> QED
      BY <1>1, <2>2, <2>4, <3>1, <3>2, <3>3 DEF OpenInv, Busy, Idle
  <2>5. CASE pc' = "ended" /\ pc # "load"
    <3>1. program # "llm"
      BY <1>4, <2>5, DecideEnds DEF LoadInputs, LoadComparison, BuildReport, StepsInv
    <3>2. open' = {}
      BY <1>2, <2>2, <3>1
    <3> QED
      BY <2>5, <3>2 DEF OpenInv, Busy, Idle
  <2> QED
    BY <2>3, <2>4, <2>5
<1>5. CASE OpenStores
  <2>1. CASE /\ pc' = "ended" /\ decision'.status = "raised"
             /\ open' \in {{}, {"embedding"}} /\ UNCHANGED <<raised, ingested>>
    BY <1>1, <1>5, <2>1 DEF OpenStores, OpenInv, StepsInv, Busy, Idle, Leaving
  <2>2. CASE pc' = "ingest" /\ open' = Shared
    BY <1>1, <1>2, <1>5, <2>2 DEF OpenStores, OpenInv, Busy, Idle
  <2> QED
    BY <1>5, <2>1, <2>2 DEF OpenStores, Raise, End, Shared
<1>6. CASE OpenComparison
  <2>3. open = {"embedding"} \union named
    BY <1>2, <1>6 DEF OpenComparison, OpenInv, Idle
  <2>1. CASE open' = {"directory", "embedding"} \union named /\ pc' = "leave_directory"
    BY <1>1, <1>2, <1>6, <2>1 DEF OpenComparison, OpenInv, Busy, Idle
  <2>2. CASE open' = Shared \union named /\ pc' = "ingest"
    BY <1>1, <2>2 DEF OpenInv, Busy, Idle
  <2> QED
    BY <1>6, <2>1, <2>2, <2>3 DEF OpenComparison, Shared
<1>7. CASE CloseEmbedding
  <2>1. open = Shared /\ open' = open \ {"embedding"} /\ pc' = "close_store"
    BY <1>2, <1>7 DEF CloseEmbedding, Close, OpenInv, Busy
  <2> QED
    BY <2>1 DEF OpenInv, Busy, Idle, Shared
<1>8. CASE CloseStore
  <2>1. open' = open \ {"store"} /\ pc' = "leave_directory"
    BY <1>8 DEF CloseStore, Close
  <2>2. CASE program = "llm"
    <3>1. open = Shared \union named
      BY <1>8, <2>2 DEF CloseStore, OpenInv, Busy
    <3>2. open' = {"directory", "embedding"} \union named
      BY <1>2, <2>1, <3>1 DEF Shared
    <3> QED
      BY <1>1, <1>2, <2>1, <2>2, <3>2 DEF OpenInv, Busy, Idle
  <2>3. CASE program # "llm"
    <3>1. open = {"directory", "store"}
      BY <1>8, <2>3 DEF CloseStore, OpenInv
    <3> QED
      BY <1>1, <1>2, <2>1, <2>3, <3>1 DEF OpenInv, Busy, Idle
  <2> QED
    BY <2>2, <2>3
<1>9. CASE LeaveDirectory
  <2>1. open' = {} /\ pc' \in {"ended", "report"}
    BY <1>2, <1>9 DEF LeaveDirectory, OpenInv, Raise, End
  <2>2. Given' = {}
    BY <1>2, <1>9 DEF LeaveDirectory
  <2> QED
    BY <2>1, <2>2 DEF OpenInv, Busy, Idle
<1>10. CASE LeaveDirectoryFirst
  <2>1. /\ open' = ({"directory", "embedding"} \union named) \ {"directory"}
        /\ pc' = "close_llm" /\ turn' = 1
    BY <1>2, <1>10 DEF LeaveDirectoryFirst, OpenInv, Goto
  <2>2. Len(providers) >= 2
    BY <1>10 DEF LeaveDirectoryFirst, LoadedInv
  <2>3. 1 \in DOMAIN providers /\ named = {providers[j] : j \in 1..Len(providers)}
    BY <1>2, <2>2 DEF Range
  <2> QED
    BY <1>1, <2>1, <2>3 DEF OpenInv, Busy, Idle
<1>11. CASE CloseProvider
  <2> DEFINE p == providers[turn]
             behind == {providers[j] : j \in (turn + 1)..Len(providers)}
  <2>1. turn \in DOMAIN providers /\ turn' = turn + 1 /\ open' = open \ {p}
    BY <1>11 DEF CloseProvider, OpenInv
  <2>2. turn \in 1..Len(providers) /\ Len(providers) \in Nat
    BY <1>2, <2>1
  <2>3. open' \subseteq {"embedding"} \union behind
    <3>1. open \subseteq {"embedding"} \union {providers[j] : j \in turn..Len(providers)}
      BY <1>11 DEF CloseProvider, OpenInv
    <3>2. \A j \in turn..Len(providers) : j = turn \/ j \in (turn + 1)..Len(providers)
      BY <2>2
    <3> QED
      BY <2>1, <3>1, <3>2
  <2>4. CASE pc' = "close_llm" /\ turn # Len(providers)
    <3>1. turn' \in DOMAIN providers
      BY <1>2, <2>1, <2>2, <2>4
    <3> QED
      BY <1>1, <2>1, <2>3, <2>4, <3>1 DEF OpenInv, Busy, Idle
  <2>5. CASE pc' = "close_embedding" /\ turn = Len(providers)
    <3>1. behind = {}
      BY <2>2, <2>5
    <3> QED
      BY <1>1, <2>3, <2>5, <3>1 DEF OpenInv, Busy, Idle
  <2>6. CASE pc' = "close_embedding" /\ stuck' = stuck \union {p}
    <3>1. behind \subseteq LeftOpen'
      <4> SUFFICES ASSUME NEW j \in (turn + 1)..Len(providers)
                   PROVE  providers[j] \in LeftOpen'
        OBVIOUS
      <4>1. j \in DOMAIN providers /\ turn \in 1..(j - 1)
        BY <1>2, <2>2
      <4>2. providers[turn] \in stuck'
        BY <2>6
      <4> QED
        BY <1>1, <4>1, <4>2 DEF LeftOpen
    <3> HIDE DEF behind
    <3> QED
      BY <1>1, <2>3, <2>6, <3>1 DEF OpenInv, Busy, Idle
  <2> QED
    BY <1>11, <2>4, <2>5, <2>6 DEF CloseProvider, Goto
<1>12. CASE CloseSharedEmbedding
  <2>1. /\ pc = "close_embedding" /\ pc' = "summarize" /\ open' = open \ {"embedding"}
        /\ stuck \subseteq stuck'
    BY <1>12 DEF CloseSharedEmbedding, Close
  <2>2. LeftOpen \subseteq LeftOpen'
    BY <1>1, <2>1, LeftOpenGrows
  <2> QED
    BY <2>1, <2>2 DEF OpenInv, Busy, Idle
<1>13. CASE Summarize
  <2>1. /\ pc = "summarize" /\ pc' = "ended" /\ open' = open /\ stuck' = stuck
    BY <1>13 DEF Summarize, Raise, End
  <2>2. LeftOpen \subseteq LeftOpen'
    BY <1>1, <2>1, LeftOpenGrows
  <2> QED
    BY <2>1, <2>2 DEF OpenInv, Busy, Idle
<1>14. CASE pc = "ended" /\ UNCHANGED runVars
  <2>1. LeftOpen \subseteq LeftOpen'
    BY <1>1, <1>14, LeftOpenGrows
  <2> QED
    BY <1>1, <1>14, <2>1 DEF OpenInv, Busy, Idle
<1> QED
  BY <1>3, <1>4, <1>5, <1>6, <1>7, <1>8, <1>9, <1>10, <1>11, <1>12, <1>13, <1>14
     DEF Next, RunNext, ComparisonNext

(***************************************************************************)
(* What is paid for and what is stored                                     *)
(***************************************************************************)
\* Which steps change what, besides the control.
LEMMA StepsLocal ==
  ASSUME Next
  PROVE  /\ raised => raised'
         /\ \/ UNCHANGED spending
            \/ EmbedDocument \/ EvaluateQuestion \/ ProbeDeletion \/ BuildReport
         /\ \/ UNCHANGED <<contents, round>>
            \/ UpsertDocument \/ CommitDocument \/ RollBackDocument \/ BuildSearch
            \/ ProbeDeletion \/ BuildReport
<1> USE DEF runVars, inputs, contents, spending, results, conclusions, comparison, Goto, Fail,
       Raise, End
<1>1. CASE LoadInputs \/ OpenStores \/ LoadComparison \/ OpenComparison \/ Summarize \/ Retrieve
           \/ AllAnswered \/ LeaveDirectoryFirst \/ LeaveDirectory
  BY <1>1 DEF LoadInputs, OpenStores, LoadComparison, OpenComparison, Summarize, Retrieve,
     AllAnswered, LeaveDirectoryFirst, LeaveDirectory
<1>2. CASE \/ EmbedDocument \/ UpsertDocument \/ CommitDocument \/ RollBackDocument
           \/ BuildSearch \/ EvaluateQuestion \/ ProbeDeletion \/ Generate
  <2>1. CASE EmbedDocument \/ EvaluateQuestion \/ Generate
    BY <2>1 DEF EmbedDocument, EvaluateQuestion, Generate
  <2>2. CASE UpsertDocument \/ CommitDocument \/ RollBackDocument \/ BuildSearch
    BY <2>2 DEF UpsertDocument, CommitDocument, RollBackDocument, BuildSearch
  <2>3. CASE ProbeDeletion
    BY <2>3 DEF ProbeDeletion
  <2> QED
    BY <1>2, <2>1, <2>2, <2>3
<1>3. CASE CloseEmbedding \/ CloseStore \/ CloseProvider \/ CloseSharedEmbedding
  BY <1>3 DEF CloseEmbedding, CloseStore, CloseProvider, CloseSharedEmbedding, Close
<1>4. CASE BuildReport
  BY <1>4 DEF BuildReport
<1>5. CASE Decide
  BY <1>5 DEF Decide
<1>6. CASE pc = "ended" /\ UNCHANGED runVars
  BY <1>6
<1> QED
  BY <1>1, <1>2, <1>3, <1>4, <1>5, <1>6 DEF Next, RunNext, ComparisonNext

\* A text that is not remembered was not paid for, so it is paid for once.
LEMMA PaysOnce ==
  ASSUME PaidInv, ~raised, NEW texts, Pay(Missing(texts))
  PROVE  /\ paid' \in [Texts -> {0, 1}]
         /\ \A t \in Texts : paid'[t] = 1 => t \in cache \/ (Caching /\ t \in texts)
<1>1. /\ paid' = [t \in Texts |-> IF Caching /\ t \in Missing(texts) THEN paid[t] + 1 ELSE paid[t]]
      /\ \A t \in Texts : paid[t] \in {0, 1} /\ (t \notin cache => paid[t] = 0)
  BY DEF PaidInv, Pay
<1>2. \A t \in Missing(texts) : t \in texts /\ t \notin cache
  BY DEF Missing
<1>3. \A t \in Texts : /\ paid'[t] \in {0, 1}
                       /\ paid'[t] = 1 => t \in cache \/ (Caching /\ t \in texts)
  BY <1>1, <1>2
<1> QED
  BY <1>1, <1>3

LEMMA PaidKept ==
  ASSUME StepsInv, PaidInv, Next
  PROVE  PaidInv'
<1>1. (raised => raised') /\ Texts' = Texts
  BY StepsLocal, GivenKept DEF Texts
<1>2. CASE UNCHANGED spending
  BY <1>1, <1>2 DEF PaidInv, spending
<1>3. CASE EmbedDocument
  <2> DEFINE texts == {TextOf[c] : c \in ChunksOf(NextDocument)}
  <2>1. ~raised
    BY <1>3 DEF EmbedDocument, StepsInv, Leaving
  <2>2. CASE raised' /\ UNCHANGED spending
    BY <1>1, <2>2 DEF PaidInv, spending
  <2>3. CASE raised' /\ Pay(Missing(texts))
    BY <1>1, <2>1, <2>3, PaysOnce DEF PaidInv
  <2>4. CASE Pay(Missing(texts)) /\ cache' = IF Caching THEN cache \union texts ELSE cache
    <3> HIDE DEF texts
    <3>1. /\ paid' \in [Texts -> {0, 1}]
          /\ \A t \in Texts : paid'[t] = 1 => t \in cache \/ (Caching /\ t \in texts)
      BY <2>1, <2>4, PaysOnce
    <3> QED
      BY <1>1, <2>4, <3>1 DEF PaidInv
  <2> QED
    BY <1>3, <2>2, <2>3, <2>4 DEF EmbedDocument, Fail
<1>4. CASE EvaluateQuestion
  <2> DEFINE text == questions[Asked].text
  <2>1. ~raised
    BY <1>4 DEF EvaluateQuestion, StepsInv, Leaving
  <2>2. CASE EmbedTwice(text)
    <3>1. /\ paid' = [paid EXCEPT ![text] = @ + IF ~Caching THEN 0
                         ELSE One(text \notin cache) + One(text \notin cache')]
          /\ cache' = IF Caching THEN cache \union {text} ELSE cache
      BY <2>2 DEF EmbedTwice, Remember
    <3> HIDE DEF text
    <3>2. \A t \in Texts : paid[t] \in {0, 1} /\ (t \notin cache => paid[t] = 0)
      BY <2>1 DEF PaidInv
    <3>3. CASE ~Caching
      <4>1. paid' = [paid EXCEPT ![text] = @ + 0] /\ cache' = cache
        BY <3>1, <3>3
      <4>2. \A t \in Texts : paid'[t] = paid[t]
        BY <3>2, <4>1 DEF PaidInv
      <4>3. paid' \in [Texts -> {0, 1}]
        BY <3>2, <4>1, <4>2 DEF PaidInv
      <4> QED
        BY <1>1, <2>1, <4>1, <4>2, <4>3 DEF PaidInv
    <3>4. CASE Caching
      <4>1. text \in cache' /\ cache \subseteq cache'
        BY <3>1, <3>4
      <4>2. paid' = [paid EXCEPT ![text] = @ + (One(text \notin cache) + 0)]
        BY <3>1, <3>4, <4>1 DEF One
      <4>3. \A t \in Texts : paid'[t] \in {0, 1} /\ (paid'[t] = 1 => t \in cache')
        BY <2>1, <3>2, <4>1, <4>2 DEF One, PaidInv
      <4>4. paid' \in [Texts -> {0, 1}]
        BY <4>2, <4>3 DEF PaidInv
      <4> QED
        BY <1>1, <4>3, <4>4 DEF PaidInv
    <3> QED
      BY <3>3, <3>4
  <2>3. CASE raised' /\ Pay(Missing({text}))
    BY <1>1, <2>1, <2>3, PaysOnce DEF PaidInv
  <2>4. CASE UNCHANGED spending
    BY <1>2, <2>4
  <2> QED
    BY <1>4, <2>2, <2>3, <2>4 DEF EvaluateQuestion, Fail, spending
<1>5. CASE ProbeDeletion
  <2>1. ~raised
    BY <1>5 DEF ProbeDeletion, StepsInv, Leaving
  <2>2. CASE Pay(Missing({ProbeText})) /\ cache' = Remember(ProbeText)
    <3>1. /\ paid' \in [Texts -> {0, 1}]
          /\ \A t \in Texts : paid'[t] = 1 => t \in cache \/ (Caching /\ t \in {ProbeText})
      BY <2>1, <2>2, PaysOnce
    <3> QED
      BY <1>1, <2>2, <3>1 DEF PaidInv, Remember
  <2>3. CASE UNCHANGED spending
    BY <1>2, <2>3
  <2> QED
    BY <1>5, <2>2, <2>3 DEF ProbeDeletion
<1>6. CASE BuildReport
  <2>1. CASE paid' = [t \in Texts |-> 0]
    BY <1>1, <2>1 DEF PaidInv
  <2> QED
    BY <1>2, <1>6, <2>1 DEF BuildReport, NextRound
<1> QED
  BY <1>2, <1>3, <1>4, <1>5, <1>6, StepsLocal

\* Where a step comes from, before anything is closed.
LEMMA ComesFrom ==
  ASSUME LoadedInv, Next
  PROVE  /\ pc' # "load"
         /\ pc' = "open" => pc = "load" \/ BuildReport
         /\ pc' = "ingest" => pc \in {"open", "commit"}
         /\ pc' = "upsert" => pc = "ingest"
         /\ pc' = "commit" => pc = "upsert"
         /\ pc' = "question" => BuildSearch \/ pc \in {"question", "generate"}
         /\ pc' = "generate" => Retrieve \/ pc = "generate"
<1> USE DEF Goto, Fail, Raise, End
<1>1. CASE LoadInputs \/ OpenStores \/ LoadComparison \/ OpenComparison
  BY <1>1 DEF LoadInputs, OpenStores, LoadComparison, OpenComparison
<1>2. CASE \/ EmbedDocument \/ UpsertDocument \/ CommitDocument \/ RollBackDocument
           \/ BuildSearch \/ EvaluateQuestion \/ ProbeDeletion \/ Retrieve \/ Generate
  <2>1. CASE EmbedDocument \/ EvaluateQuestion \/ Generate
    BY <2>1 DEF EmbedDocument, EvaluateQuestion, Generate
  <2>2. CASE UpsertDocument \/ CommitDocument \/ RollBackDocument \/ BuildSearch
    BY <2>2 DEF UpsertDocument, CommitDocument, RollBackDocument, BuildSearch
  <2>3. CASE ProbeDeletion \/ Retrieve
    BY <2>3 DEF ProbeDeletion, Retrieve
  <2> QED
    BY <1>2, <2>1, <2>2, <2>3
<1>3. CASE CloseEmbedding \/ CloseStore \/ CloseProvider \/ CloseSharedEmbedding
  BY <1>3 DEF CloseEmbedding, CloseStore, CloseProvider, CloseSharedEmbedding, Close
<1>4. CASE AllAnswered \/ LeaveDirectory \/ LeaveDirectoryFirst \/ Summarize
  BY <1>4 DEF AllAnswered, LeaveDirectory, LeaveDirectoryFirst, Summarize
<1>5. CASE BuildReport
  BY <1>5 DEF BuildReport, NextRound
<1>6. CASE Decide
  BY <1>6, DecideEnds
<1>7. CASE pc = "ended" /\ UNCHANGED runVars
  BY <1>7 DEF runVars
<1> QED
  BY <1>1, <1>2, <1>3, <1>4, <1>5, <1>6, <1>7 DEF Next, RunNext, ComparisonNext

LEMMA StoredKept ==
  ASSUME StepsInv, LoadedInv, StoredInv, Next
  PROVE  StoredInv'
<1>1. (raised => raised') /\ program' = program
  BY StepsLocal, GivenKept
<1>2. Strategies' = Strategies
  BY <1>1 DEF Strategies
<1> USE DEF inputs, contents, Goto, Fail, Raise, End
<1>3. CASE UNCHANGED <<contents, round>> /\ ~BuildSearch /\ (BuildReport => pc' # "open")
  <2>1. Strategy' = Strategy
    BY <1>2, <1>3 DEF Strategy
  <2>2. UNCHANGED <<ingested, stored, recorded, indexed>>
    BY <1>3
  <2>3. pc' \notin {"ingest", "upsert", "commit", "question", "generate"}
          \/ pc \in {"open", "ingest", "upsert", "commit", "question", "generate"}
    <3>1. Retrieve => pc = "question"
      BY DEF Retrieve
    <3> QED
      BY <1>3, <3>1, ComesFrom
  <2>4. pc' \in {"load", "open"} => pc = "load"
    BY <1>3, ComesFrom
  <2>5. pc' \in {"question", "generate"} => pc \in {"question", "generate"}
    <3>1. Retrieve => pc = "question"
      BY DEF Retrieve
    <3> QED
      BY <1>3, <3>1, ComesFrom
  <2> QED
    BY <1>1, <2>1, <2>2, <2>3, <2>4, <2>5 DEF StoredInv
<1>4. CASE UpsertDocument \/ CommitDocument
  BY <1>1, <1>2, <1>4 DEF UpsertDocument, CommitDocument, StoredInv
<1>5. CASE RollBackDocument
  BY <1>1, <1>5 DEF RollBackDocument, StoredInv
<1>6. CASE BuildSearch
  BY <1>1, <1>2, <1>6 DEF BuildSearch, StoredInv, Strategy
<1>7. CASE ProbeDeletion
  BY <1>1, <1>7 DEF ProbeDeletion, StoredInv
<1>8. CASE BuildReport
  <2>1. CASE UNCHANGED <<contents, round>> /\ pc' # "open"
    <3>1. ~BuildSearch
      BY <1>8 DEF BuildReport, BuildSearch
    <3> QED
      BY <1>3, <2>1, <3>1
  <2>2. CASE NextRound
    BY <2>2 DEF NextRound, StoredInv
  <2> QED
    BY <1>8, <2>1, <2>2 DEF BuildReport
<1> QED
  BY <1>3, <1>4, <1>5, <1>6, <1>7, <1>8, StepsLocal

(***************************************************************************)
(* The turns of the providers                                              *)
(***************************************************************************)
\* The questions that a provider has answered: the recorded ones, and the current
\* one before the others have.
LEMMA AnsweredQuestions ==
  ASSUME LoadedInv, RowsInv, program = "llm", NEW i \in DOMAIN providers
  PROVE  /\ Len(rows) \in Nat /\ DOMAIN rows = 1..Len(rows)
         /\ DOMAIN providers = 1..Len(providers) /\ Len(providers) \in Nat
         /\ ~(pc = "generate" /\ i < turn) => Answered(i) = 1..Len(rows)
         /\ pc = "generate" /\ i < turn => /\ Answered(i) = 1..(Len(rows) + 1)
                                           /\ i \in DOMAIN answered
                                           /\ OutcomeOf(Len(rows) + 1, i) = answered[i]
         /\ \A n \in 1..Len(rows) : OutcomeOf(n, i) = rows[n][i]
<1>1. /\ rows \in Seq(Seq(Outcomes)) /\ providers \in Seq(Range(providers))
      /\ pc = "generate" => turn \in DOMAIN providers /\ Answers(answered, turn - 1)
  BY ProvidersApart DEF RowsInv
<1>2. /\ Len(rows) \in Nat /\ DOMAIN rows = 1..Len(rows)
      /\ DOMAIN providers = 1..Len(providers) /\ Len(providers) \in Nat
  BY <1>1
<1>3. ~(pc = "generate" /\ i < turn) => Answered(i) = 1..Len(rows)
  <2> SUFFICES ASSUME ~(pc = "generate" /\ i < turn) PROVE Answered(i) = 1..Len(rows)
    OBVIOUS
  <2>1. Answered(i) = 1..(Len(rows) + 0)
    BY DEF Answered, One
  <2>2. Len(rows) + 0 = Len(rows)
    BY <1>2
  <2> QED
    BY <2>1, <2>2, Zenon
<1>4. ASSUME pc = "generate", i < turn
      PROVE  /\ Answered(i) = 1..(Len(rows) + 1)
             /\ i \in DOMAIN answered
             /\ OutcomeOf(Len(rows) + 1, i) = answered[i]
  <2>1. i \in 1..(turn - 1) /\ Len(answered) = turn - 1 /\ answered \in Seq(Outcomes)
    BY <1>1, <1>2, <1>4 DEF Answers
  <2>2. i \in DOMAIN answered
    BY <2>1
  <2> QED
    BY <1>2, <1>4, <2>2 DEF Answered, One, OutcomeOf
<1>5. \A n \in 1..Len(rows) : OutcomeOf(n, i) = rows[n][i]
  BY <1>2 DEF OutcomeOf
<1> QED
  BY <1>2, <1>3, <1>4, <1>5

LEMMA TurnsTaken ==
  ASSUME LoadedInv, RowsInv, TalliesInv, program = "llm", ~raised, pc # "ended"
  PROVE  TakeTurns
<1> SUFFICES ASSUME NEW i \in DOMAIN providers, NEW j \in DOMAIN providers,
                    i < j, IsInjective(providers)
             PROVE  totals[providers[i]].calls - totals[providers[j]].calls \in {0, 1}
  BY DEF TakeTurns
<1> DEFINE C(k) == {n \in Answered(k) : OutcomeOf(n, k).called}
           m == Len(rows)
<1>1. /\ totals[providers[i]].calls = Cardinality(C(i))
      /\ totals[providers[j]].calls = Cardinality(C(j))
  BY DEF TalliesInv
<1>2. /\ m \in Nat /\ DOMAIN rows = 1..m
      /\ DOMAIN providers = 1..Len(providers) /\ Len(providers) \in Nat
  BY AnsweredQuestions
<1>3. \A n \in 1..m : OutcomeOf(n, i).called <=> OutcomeOf(n, j).called
  <2> TAKE n \in 1..m
  <2>1. OutcomeOf(n, i) = rows[n][i] /\ OutcomeOf(n, j) = rows[n][j]
    BY AnsweredQuestions
  <2>2. Answers(rows[n], Len(providers))
    BY <1>2 DEF RowsInv
  <2> QED
    BY <1>2, <2>1, <2>2 DEF Answers
<1>4. pc = "generate" => turn \in 1..Len(providers)
  BY <1>2 DEF RowsInv
<1>5. C(j) \subseteq C(i) /\ C(i) \subseteq C(j) \union {m + 1} /\ IsFiniteSet(C(j))
  <2>1. CASE pc = "generate" /\ j < turn
    <3>1. i < turn
      BY <1>2, <1>4, <2>1
    <3>2. /\ Answered(i) = 1..(m + 1) /\ Answered(j) = 1..(m + 1)
          /\ OutcomeOf(m + 1, i) = answered[i] /\ OutcomeOf(m + 1, j) = answered[j]
          /\ i \in DOMAIN answered /\ j \in DOMAIN answered
      BY <2>1, <3>1, AnsweredQuestions
    <3>3. answered[i].called <=> answered[j].called
      BY <2>1, <3>2 DEF RowsInv
    <3>4. IsFiniteSet(1..(m + 1))
      BY <1>2, FS_Interval
    <3>5. C(j) \subseteq 1..(m + 1)
      BY <3>2
    <3>6. \A n \in 1..(m + 1) : n \in 1..m \/ n = m + 1
      BY <1>2
    <3>7. \A n \in 1..(m + 1) : OutcomeOf(n, i).called <=> OutcomeOf(n, j).called
      BY <1>3, <3>2, <3>3, <3>6
    <3>8. C(i) = C(j)
      BY <3>2, <3>7
    <3> QED
      BY <3>4, <3>5, <3>8, FS_Subset
  <2>2. CASE ~(pc = "generate" /\ j < turn)
    <3>1. Answered(j) = 1..m
      BY <2>2, AnsweredQuestions
    <3>2. Answered(i) = 1..m \/ Answered(i) = 1..(m + 1)
      BY AnsweredQuestions
    <3>3. \A n \in 1..(m + 1) : n \in 1..m \/ n = m + 1
      BY <1>2
    <3>4. \A n \in 1..m : n \in 1..(m + 1)
      BY <1>2
    <3>5. IsFiniteSet(1..m)
      BY <1>2, FS_Interval
    <3>6. C(j) \subseteq 1..m
      BY <3>1
    <3>7. C(j) \subseteq C(i)
      BY <1>3, <3>1, <3>2, <3>4
    <3>8. C(i) \subseteq C(j) \union {m + 1}
      BY <1>3, <3>1, <3>2, <3>3
    <3> QED
      BY <3>5, <3>6, <3>7, <3>8, FS_Subset
  <2> QED
    BY <2>1, <2>2
<1> HIDE DEF C
<1> QED
  BY <1>1, <1>5, OneMore

\* One more question is counted if it passes the test.
LEMMA Tallied ==
  ASSUME NEW m \in Nat, NEW S, NEW T, S \subseteq 1..m, T \subseteq 1..(m + 1),
         \A n \in 1..m : n \in S <=> n \in T
  PROVE  Cardinality(S) \in Nat /\ Cardinality(T) = Cardinality(S) + One(m + 1 \in T)
<1>1. IsFiniteSet(S)
  <2>1. IsFiniteSet(1..m)
    BY FS_Interval
  <2> QED
    BY <2>1, FS_Subset
<1>2. \A n \in 1..(m + 1) : n \in 1..m \/ n = m + 1
  OBVIOUS
<1>3. m + 1 \notin S
  OBVIOUS
<1>4. S \subseteq T /\ T \subseteq S \union {m + 1}
  BY <1>2
<1>5. /\ Cardinality(S) \in Nat
      /\ m + 1 \in T => Cardinality(T) = Cardinality(S) + 1
      /\ m + 1 \notin T => Cardinality(T) = Cardinality(S)
  BY <1>1, <1>3, <1>4, OneMore
<1> QED
  BY <1>5 DEF One

LEMMA OutcomeTyped ==
  ASSUME NEW g \in Generations, NEW p \in Range(providers), NEW q
  PROVE  /\ Outcome(q, p, g) \in Outcomes /\ Outcome(q, p, g).provider = p
         /\ Outcome(q, p, g).called <=> found # <<>>
         /\ Outcome(q, p, g).usage => Outcome(q, p, g).called
<1>1. /\ g.called \in BOOLEAN /\ g.usage \in BOOLEAN
      /\ g.called <=> found # <<>>
      /\ g.usage => g.called
  BY DEF Generations
<1>2. Behaves(q, g) \in [of : {0, 1}, total : {0, 1}]
  BY DEF Behaves, Rate, One
<1> QED
  BY <1>1, <1>2 DEF Outcome, Outcomes, Rate, One

LEMMA AddTyped ==
  ASSUME NEW total \in Totals, NEW o \in Outcomes
  PROVE  /\ Add(total, o) \in Totals
         /\ Add(total, o).calls = total.calls + One(o.called)
         /\ Add(total, o).usages = total.usages + One(o.usage)
         /\ Add(total, o).behavior.of = total.behavior.of + o.behavior.of
         /\ Add(total, o).markers.total = total.markers.total + o.markers.total
BY DEF Add, Totals, Outcomes, Plus, Rate, One

\* Only the questions and the answers change the results of a comparison.
LEMMA ComparisonSteps ==
  ASSUME StepsInv, LoadedInv, Next, program = "llm"
  PROVE  /\ \/ Retrieve \/ Generate
            \/ pc # "generate" /\ pc' # "generate" /\ UNCHANGED <<rows, totals>>
         /\ pc' \in Leaving \union {"closing"} /\ ~raised'
              => AllAnswered \/ pc \in Leaving \union {"closing"}
         /\ pc' \in {"load", "open", "ingest", "upsert", "commit"}
              => pc \in {"load", "open", "ingest", "upsert", "commit"} /\ ~Retrieve /\ ~Generate
         /\ decision'.status = "compared"
              => decision.status = "compared" \/ (Summarize /\ ~raised)
<1> USE DEF Leaving, runVars, inputs, contents, spending, results, conclusions, comparison,
       Goto, Fail, Raise, End, StepsInv
<1>1. CASE /\ \/ EmbedDocument \/ UpsertDocument \/ CommitDocument \/ RollBackDocument
              \/ BuildSearch \/ CloseStore
           /\ UNCHANGED comparison
  <2>1. CASE EmbedDocument \/ UpsertDocument \/ CommitDocument
    BY <1>1, <2>1 DEF EmbedDocument, UpsertDocument, CommitDocument, Retrieve, Generate
  <2>2. CASE RollBackDocument \/ BuildSearch \/ CloseStore
    BY <1>1, <2>2 DEF RollBackDocument, BuildSearch, CloseStore, Close, Retrieve, Generate
  <2> QED
    BY <1>1, <2>1, <2>2
<1>2. CASE LoadComparison \/ OpenComparison
  BY <1>2 DEF LoadComparison, OpenComparison, Retrieve, Generate
<1>3. CASE Retrieve \/ Generate
  BY <1>3 DEF Retrieve, Generate
<1>4. CASE LeaveDirectoryFirst \/ CloseProvider \/ CloseSharedEmbedding
  BY <1>4 DEF LeaveDirectoryFirst, CloseProvider, CloseSharedEmbedding, Close
<1>5. CASE AllAnswered \/ Summarize
  BY <1>5 DEF AllAnswered, Summarize
<1>6. CASE pc = "ended" /\ UNCHANGED <<runVars, comparison>>
  BY <1>6
<1> QED
  BY <1>1, <1>2, <1>3, <1>4, <1>5, <1>6
     DEF Next, RunNext, ComparisonNext, LoadInputs, OpenStores, EvaluateQuestion, ProbeDeletion,
         CloseEmbedding, LeaveDirectory, BuildReport, Decide

\* An answer counts for the provider whose turn it is, and moves nobody else's.
LEMMA AnswersMoved ==
  ASSUME LoadedInv, RowsInv, program = "llm", pc = "generate", UNCHANGED providers,
         NEW o, NEW m \in Nat, m = Len(rows), answered' = Append(answered, o), turn' = turn + 1,
         \/ turn < Len(providers) /\ pc' = "generate" /\ rows' = rows
         \/ turn = Len(providers) /\ pc' = "question" /\ rows' = Append(rows, answered'),
         NEW i \in DOMAIN providers
  PROVE  /\ i # turn => /\ Answered(i)' = Answered(i)
                        /\ \A n \in Answered(i) : OutcomeOf(n, i)' = OutcomeOf(n, i)
         /\ i = turn => /\ Answered(i) = 1..m /\ Answered(i)' = 1..(m + 1)
                        /\ \A n \in 1..m : OutcomeOf(n, i)' = OutcomeOf(n, i)
                        /\ OutcomeOf(m + 1, i)' = o
<1>1. /\ rows \in Seq(Seq(Outcomes)) /\ providers \in Seq(Range(providers))
      /\ answered \in Seq(Outcomes) /\ Len(answered) = turn - 1
      /\ turn \in 1..Len(providers) /\ Len(providers) \in Nat
  BY ProvidersApart DEF RowsInv, Answers
<1>2. i \in 1..Len(providers) /\ i \in Int /\ turn \in Int
  BY <1>1
<1>3. \A k \in 1..(turn - 1) : (answered')[k] = answered[k]
  BY <1>1
<1>4. (answered')[turn] = o
  BY <1>1
<1>5. CASE turn < Len(providers) /\ pc' = "generate" /\ rows' = rows
  <2>1. Answered(i)' = 1..(m + One(i < turn + 1)) /\ Answered(i) = 1..(m + One(i < turn))
    BY <1>5 DEF Answered
  <2>2. \A n : /\ OutcomeOf(n, i)' = IF n <= m THEN rows[n][i] ELSE (answered')[i]
               /\ OutcomeOf(n, i) = IF n <= m THEN rows[n][i] ELSE answered[i]
    BY <1>5 DEF OutcomeOf
  <2>3. CASE i < turn
    <3>1. Answered(i)' = 1..(m + 1) /\ Answered(i) = 1..(m + 1)
      BY <1>2, <2>1, <2>3 DEF One
    <3>2. (answered')[i] = answered[i]
      BY <1>1, <1>2, <1>3, <2>3
    <3> QED
      BY <1>2, <2>2, <2>3, <3>1, <3>2
  <2>4. CASE i = turn
    <3>1. Answered(i)' = 1..(m + 1) /\ Answered(i) = 1..m
      BY <1>2, <2>1, <2>4 DEF One
    <3>2. \A n \in 1..m : n <= m
      OBVIOUS
    <3>3. ~(m + 1 <= m)
      OBVIOUS
    <3> QED
      BY <1>4, <2>2, <2>4, <3>1, <3>2, <3>3
  <2>5. CASE i > turn
    <3>1. Answered(i)' = 1..m /\ Answered(i) = 1..m
      BY <1>2, <2>1, <2>5 DEF One
    <3> QED
      BY <1>2, <2>2, <2>5, <3>1
  <2> QED
    BY <1>2, <2>3, <2>4, <2>5
<1>6. CASE turn = Len(providers) /\ pc' = "question" /\ rows' = Append(rows, answered')
  <2>1. /\ Len(rows') = m + 1 /\ (rows')[m + 1] = answered'
        /\ \A n \in 1..m : (rows')[n] = rows[n]
    BY <1>1, <1>6
  <2>2. Answered(i)' = 1..(m + 1) /\ Answered(i) = 1..(m + One(i < turn))
    BY <1>6, <2>1 DEF Answered, One
  <2>3. \A n \in 1..(m + 1) :
          /\ OutcomeOf(n, i)' = (rows')[n][i]
          /\ OutcomeOf(n, i) = IF n <= m THEN rows[n][i] ELSE answered[i]
    BY <2>1 DEF OutcomeOf
  <2>4. \A n \in 1..m : n \in 1..(m + 1) /\ OutcomeOf(n, i)' = OutcomeOf(n, i)
    BY <2>1, <2>3
  <2>5. /\ m + 1 \in 1..(m + 1) /\ ~(m + 1 <= m)
        /\ OutcomeOf(m + 1, i)' = (answered')[i] /\ OutcomeOf(m + 1, i) = answered[i]
    <3>1. m + 1 \in 1..(m + 1) /\ ~(m + 1 <= m)
      OBVIOUS
    <3> QED
      BY <2>1, <2>3, <3>1
  <2>6. CASE i < turn
    <3>1. Answered(i) = 1..(m + 1)
      BY <2>2, <2>6 DEF One
    <3>2. i \in 1..(turn - 1)
      BY <1>1, <1>2, <2>6
    <3>4. OutcomeOf(m + 1, i)' = OutcomeOf(m + 1, i)
      BY <1>3, <2>5, <3>2
    <3>3. \A n \in 1..(m + 1) : n \in 1..m \/ n = m + 1
      OBVIOUS
    <3>5. \A n \in 1..(m + 1) : OutcomeOf(n, i)' = OutcomeOf(n, i)
      BY <2>4, <3>3, <3>4
    <3>6. Answered(i)' = Answered(i)
      BY <2>2, <3>1
    <3> QED
      BY <1>2, <2>6, <3>1, <3>5, <3>6
  <2>7. CASE i = turn
    <3>1. Answered(i) = 1..m
      BY <1>2, <2>2, <2>7 DEF One
    <3> QED
      BY <1>4, <2>2, <2>4, <2>5, <2>7, <3>1
  <2> QED
    BY <1>2, <1>6, <2>6, <2>7
<1> QED
  BY <1>5, <1>6

LEMMA GenerateKept ==
  ASSUME StepsInv, LoadedInv, RowsInv, TalliesInv, Generate
  PROVE  RowsInv' /\ TalliesInv'
<1>1. /\ program = "llm" /\ ~raised /\ pc = "generate" /\ decision.status # "compared"
      /\ UNCHANGED <<program, questions, providers, decision, found>>
  BY DEF Generate, StepsInv, Leaving, Undecided, inputs, conclusions
<1>2. /\ rows \in Seq(Seq(Outcomes)) /\ totals \in [Range(providers) -> Totals]
      /\ providers \in Seq(Range(providers)) /\ turn \in 1..Len(providers)
      /\ Len(providers) \in Nat /\ DOMAIN providers = 1..Len(providers)
      /\ answered \in Seq(Outcomes) /\ Len(answered) = turn - 1 /\ Len(rows) \in Nat
      /\ Len(rows) < Len(questions)
      /\ \A i \in DOMAIN answered : answered[i].called <=> found # <<>>
  BY <1>1, ProvidersApart DEF RowsInv, Answers
<1>5. /\ turn \in Nat /\ turn - 1 \in Nat /\ (turn < Len(providers) \/ turn = Len(providers))
      /\ \A i \in 1..turn : i = turn \/ i \in 1..(turn - 1)
      /\ (turn + 1) - 1 = turn /\ (turn < Len(providers) => turn + 1 \in 1..Len(providers))
  <2>1. turn \in 1..Len(providers) /\ Len(providers) \in Nat
    BY <1>2
  <2> QED
    BY <2>1
<1>3. CASE Fail /\ UNCHANGED <<totals, answered, turn, rows>>
  <2>1. RowsInv'
    BY <1>1, <1>3 DEF RowsInv, Answers, Outcomes, Fail, Leaving
  <2> QED
    BY <1>1, <1>3, <2>1 DEF TalliesInv, Fail
<1>4. CASE \E g \in Generations :
             LET q == questions[Asked]
                 outcome == Outcome(q, providers[turn], g)
             IN /\ totals' = [totals EXCEPT ![providers[turn]] = Add(@, outcome)]
                /\ answered' = Append(answered, outcome)
                /\ turn' = turn + 1
                /\ IF turn < Len(providers) THEN Goto("generate") /\ UNCHANGED rows
                   ELSE rows' = Append(rows, answered') /\ Goto("question")
  <2> DEFINE p == providers[turn]
  <2>0. PICK m \in Nat : m = Len(rows)
    BY <1>2
  <2>1. PICK g \in Generations :
          /\ totals' = [totals EXCEPT ![p] = Add(@, Outcome(questions[Asked], p, g))]
          /\ answered' = Append(answered, Outcome(questions[Asked], p, g))
          /\ turn' = turn + 1
          /\ IF turn < Len(providers) THEN Goto("generate") /\ UNCHANGED rows
             ELSE rows' = Append(rows, answered') /\ Goto("question")
    BY <1>4
  <2>10. PICK o : o = Outcome(questions[Asked], p, g)
    OBVIOUS
  <2>2. p \in Range(providers)
    BY <1>2 DEF Range
  <2>3. /\ o \in Outcomes /\ o.provider = p
        /\ o.called <=> found # <<>>
        /\ o.usage => o.called
    BY <2>2, <2>10, OutcomeTyped
  <2>4. /\ totals' = [totals EXCEPT ![p] = Add(@, o)]
        /\ answered' = Append(answered, o) /\ turn' = turn + 1
        /\ \/ turn < Len(providers) /\ pc' = "generate" /\ rows' = rows
           \/ turn = Len(providers) /\ pc' = "question" /\ rows' = Append(rows, answered')
    <3> HIDE DEF p
    <3> QED
      BY <1>5, <2>1, <2>10 DEF Goto
  <2>5. totals[p] \in Totals
    BY <1>2, <2>2
  <2> HIDE DEF p
  <2>6. /\ Add(totals[p], o) \in Totals
        /\ Add(totals[p], o).calls = totals[p].calls + One(o.called)
        /\ Add(totals[p], o).usages = totals[p].usages + One(o.usage)
        /\ Add(totals[p], o).behavior.of = totals[p].behavior.of + o.behavior.of
        /\ Add(totals[p], o).markers.total = totals[p].markers.total + o.markers.total
    BY <2>3, <2>5, AddTyped
  <2>7. /\ totals' \in [Range(providers) -> Totals] /\ totals'[p] = Add(totals[p], o)
        /\ \A r \in Range(providers) : r # p => totals'[r] = totals[r]
    BY <1>2, <2>2, <2>4, <2>6
  <2>8. /\ answered' \in Seq(Outcomes) /\ Len(answered') = turn
        /\ (answered')[turn] = o /\ \A i \in 1..(turn - 1) : (answered')[i] = answered[i]
    <3>1. answered \in Seq(Outcomes) /\ Len(answered) = turn - 1
      BY <1>2
    <3>2. answered' = Append(answered, o)
      BY <2>4
    <3> QED
      BY <1>5, <2>3, <3>1, <3>2
  <2>11. \A i \in 1..turn : (answered')[i].called <=> found # <<>>
    <3>1. DOMAIN answered = 1..(turn - 1)
      BY <1>2
    <3> QED
      BY <1>2, <1>5, <2>3, <2>8, <3>1
  <2>12. Answers(answered', turn)
    <3>1. Answers(answered, turn - 1)
      BY <1>1 DEF RowsInv
    <3>2. \A i \in 1..turn : (answered')[i].provider = providers[i]
      BY <1>5, <2>3, <2>8, <3>1 DEF Answers, p
    <3>3. \A i \in 1..turn : (answered')[i].usage => (answered')[i].called
      BY <1>5, <2>3, <2>8, <3>1 DEF Answers
    <3>4. 1 \in 1..turn
      BY <1>2
    <3> QED
      BY <2>8, <2>11, <3>2, <3>3, <3>4 DEF Answers
  <2>13. RowsInv'
    <3>1. Outcomes' = Outcomes /\ Range(providers') = Range(providers)
      BY <1>1 DEF Outcomes
    <3>2. \A list, size : Answers(list, size) <=> Answers(list, size)'
      BY <1>1, <3>1 DEF Answers
    <3>3. CASE turn < Len(providers) /\ pc' = "generate" /\ rows' = rows
      <4>1. turn' \in DOMAIN providers' /\ turn' - 1 = turn
        BY <1>1, <1>2, <1>5, <2>4, <3>3
      <4>2. \A i \in DOMAIN (answered') : (answered')[i].called <=> found' # <<>>
        BY <1>1, <2>8, <2>11
      <4>3. (\A n \in DOMAIN rows : Answers(rows[n], Len(providers)))'
        BY <1>1, <3>2, <3>3 DEF RowsInv
      <4>4. Answers(answered, turn - 1)'
        BY <2>12, <3>2, <4>1
      <4> QED
        BY <1>1, <1>2, <2>7, <3>1, <3>3, <4>1, <4>2, <4>3, <4>4 DEF RowsInv, Leaving
    <3>4. CASE turn = Len(providers) /\ pc' = "question" /\ rows' = Append(rows, answered')
      <4>1. rows' \in Seq(Seq(Outcomes)) /\ Len(rows') = m + 1
        BY <1>2, <2>0, <2>8, <3>4
      <4>2. \A n \in DOMAIN (rows') : \/ n \in DOMAIN rows /\ (rows')[n] = rows[n]
                                      \/ (rows')[n] = answered'
        BY <1>2, <2>8, <3>4
      <4>3. (\A n \in DOMAIN rows : Answers(rows[n], Len(providers)))'
        BY <1>1, <2>12, <3>2, <3>4, <4>2 DEF RowsInv
      <4>4. Len(rows') <= Len(questions')
        BY <1>1, <1>2, <2>0, <4>1
      <4> QED
        BY <1>1, <2>7, <3>1, <3>4, <4>1, <4>3, <4>4 DEF RowsInv, Leaving
    <3> QED
      BY <2>4, <3>3, <3>4
  <2>14. TalliesInv'
    <3> SUFFICES ASSUME NEW i \in DOMAIN providers, IsInjective(providers)
                 PROVE  LET total == totals'[providers[i]]
                        IN /\ total.calls = Cardinality({n \in Answered(i)' : OutcomeOf(n, i)'.called})
                           /\ total.usages = Cardinality({n \in Answered(i)' : OutcomeOf(n, i)'.usage})
                           /\ total.behavior.of
                                = Cardinality({n \in Answered(i)' : OutcomeOf(n, i)'.behavior.of = 1})
                           /\ total.markers.total
                                = Cardinality({n \in Answered(i)' : OutcomeOf(n, i)'.markers.total = 1})
      BY <1>1 DEF TalliesInv
    <3>1. LET total == totals[providers[i]]
          IN /\ total.calls = Cardinality({n \in Answered(i) : OutcomeOf(n, i).called})
             /\ total.usages = Cardinality({n \in Answered(i) : OutcomeOf(n, i).usage})
             /\ total.behavior.of
                  = Cardinality({n \in Answered(i) : OutcomeOf(n, i).behavior.of = 1})
             /\ total.markers.total
                  = Cardinality({n \in Answered(i) : OutcomeOf(n, i).markers.total = 1})
      BY <1>1 DEF TalliesInv
    <3>2. /\ i # turn => /\ Answered(i)' = Answered(i)
                         /\ \A n \in Answered(i) : OutcomeOf(n, i)' = OutcomeOf(n, i)
          /\ i = turn => /\ Answered(i) = 1..m /\ Answered(i)' = 1..(m + 1)
                         /\ \A n \in 1..m : OutcomeOf(n, i)' = OutcomeOf(n, i)
                         /\ OutcomeOf(m + 1, i)' = o
      BY <1>1, <2>0, <2>4, AnswersMoved
    <3>3. CASE i # turn
      <4>1. providers[i] \in Range(providers) /\ providers[i] # p
        BY <1>2, <3>3 DEF Range, IsInjective, p
      <4>2. totals'[providers[i]] = totals[providers[i]]
        BY <2>7, <4>1
      <4>3. /\ {n \in Answered(i)' : OutcomeOf(n, i)'.called} = {n \in Answered(i) : OutcomeOf(n, i).called}
            /\ {n \in Answered(i)' : OutcomeOf(n, i)'.usage} = {n \in Answered(i) : OutcomeOf(n, i).usage}
            /\ {n \in Answered(i)' : OutcomeOf(n, i)'.behavior.of = 1}
                 = {n \in Answered(i) : OutcomeOf(n, i).behavior.of = 1}
            /\ {n \in Answered(i)' : OutcomeOf(n, i)'.markers.total = 1}
                 = {n \in Answered(i) : OutcomeOf(n, i).markers.total = 1}
        BY <3>2, <3>3
      <4> QED
        BY <3>1, <4>2, <4>3
    <3>4. CASE i = turn
      <4> DEFINE S1 == {n \in Answered(i) : OutcomeOf(n, i).called}
                 T1 == {n \in Answered(i)' : OutcomeOf(n, i)'.called}
                 S2 == {n \in Answered(i) : OutcomeOf(n, i).usage}
                 T2 == {n \in Answered(i)' : OutcomeOf(n, i)'.usage}
                 S3 == {n \in Answered(i) : OutcomeOf(n, i).behavior.of = 1}
                 T3 == {n \in Answered(i)' : OutcomeOf(n, i)'.behavior.of = 1}
                 S4 == {n \in Answered(i) : OutcomeOf(n, i).markers.total = 1}
                 T4 == {n \in Answered(i)' : OutcomeOf(n, i)'.markers.total = 1}
      <4>1. providers[i] = p
        BY <3>4 DEF p
      <4>2. /\ Answered(i) = 1..m /\ Answered(i)' = 1..(m + 1)
            /\ \A n \in 1..m : n \in 1..(m + 1) /\ OutcomeOf(n, i)' = OutcomeOf(n, i)
            /\ m + 1 \in 1..(m + 1) /\ OutcomeOf(m + 1, i)' = o
        BY <3>2, <3>4
      <4>3. /\ S1 \subseteq 1..m /\ T1 \subseteq 1..(m + 1) /\ (\A n \in 1..m : n \in S1 <=> n \in T1)
            /\ m + 1 \in T1 <=> o.called
        BY <4>2
      <4>4. /\ S2 \subseteq 1..m /\ T2 \subseteq 1..(m + 1) /\ (\A n \in 1..m : n \in S2 <=> n \in T2)
            /\ m + 1 \in T2 <=> o.usage
        BY <4>2
      <4>5. /\ S3 \subseteq 1..m /\ T3 \subseteq 1..(m + 1) /\ (\A n \in 1..m : n \in S3 <=> n \in T3)
            /\ m + 1 \in T3 <=> o.behavior.of = 1
        BY <4>2
      <4>6. /\ S4 \subseteq 1..m /\ T4 \subseteq 1..(m + 1) /\ (\A n \in 1..m : n \in S4 <=> n \in T4)
            /\ m + 1 \in T4 <=> o.markers.total = 1
        BY <4>2
      <4>7. /\ totals[p].calls = Cardinality(S1) /\ totals[p].usages = Cardinality(S2)
            /\ totals[p].behavior.of = Cardinality(S3) /\ totals[p].markers.total = Cardinality(S4)
        BY <3>1, <4>1
      <4>8. o.behavior.of = One(o.behavior.of = 1) /\ o.markers.total = One(o.markers.total = 1)
        BY <2>3 DEF Outcomes, One
      <4> HIDE DEF S1, T1, S2, T2, S3, T3, S4, T4
      <4>9. Cardinality(T1) = Cardinality(S1) + One(o.called)
        BY <4>3, Tallied DEF One
      <4>10. Cardinality(T2) = Cardinality(S2) + One(o.usage)
        BY <4>4, Tallied DEF One
      <4>11. Cardinality(T3) = Cardinality(S3) + One(o.behavior.of = 1)
        BY <4>5, Tallied DEF One
      <4>12. Cardinality(T4) = Cardinality(S4) + One(o.markers.total = 1)
        BY <4>6, Tallied DEF One
      <4>13. /\ totals'[p].calls = Cardinality(T1) /\ totals'[p].usages = Cardinality(T2)
             /\ totals'[p].behavior.of = Cardinality(T3) /\ totals'[p].markers.total = Cardinality(T4)
        BY <2>6, <2>7, <4>7, <4>8, <4>9, <4>10, <4>11, <4>12
      <4> QED
        BY <4>1, <4>13 DEF T1, T2, T3, T4
    <3> QED
      BY <3>3, <3>4
  <2> QED
    BY <2>13, <2>14
<1> QED
  BY <1>3, <1>4 DEF Generate

\* The tallies stay the same while nobody is about to answer, before and after.
LEMMA TalliesStay ==
  ASSUME RowsInv, TalliesInv, UNCHANGED <<program, providers, rows, totals>>,
         pc # "generate", pc' = "generate" => turn' = 1,
         program' = "llm" /\ ((~raised' /\ pc' # "ended") \/ decision'.status = "compared")
           => (~raised /\ pc # "ended") \/ decision.status = "compared",
         providers \in Seq(Range(providers))
  PROVE  TalliesInv'
<1> SUFFICES ASSUME program = "llm", (~raised /\ pc # "ended") \/ decision.status = "compared",
                    NEW i \in DOMAIN providers, IsInjective(providers)
             PROVE  LET total == totals[providers[i]]
                    IN /\ total.calls = Cardinality({n \in Answered(i)' : OutcomeOf(n, i)'.called})
                       /\ total.usages = Cardinality({n \in Answered(i)' : OutcomeOf(n, i)'.usage})
                       /\ total.behavior.of
                            = Cardinality({n \in Answered(i)' : OutcomeOf(n, i)'.behavior.of = 1})
                       /\ total.markers.total
                            = Cardinality({n \in Answered(i)' : OutcomeOf(n, i)'.markers.total = 1})
  BY DEF TalliesInv
<1>1. LET total == totals[providers[i]]
      IN /\ total.calls = Cardinality({n \in Answered(i) : OutcomeOf(n, i).called})
         /\ total.usages = Cardinality({n \in Answered(i) : OutcomeOf(n, i).usage})
         /\ total.behavior.of
              = Cardinality({n \in Answered(i) : OutcomeOf(n, i).behavior.of = 1})
         /\ total.markers.total
              = Cardinality({n \in Answered(i) : OutcomeOf(n, i).markers.total = 1})
  BY DEF TalliesInv
<1>2. Len(rows) \in Nat /\ i \in Nat /\ i >= 1
  BY DEF RowsInv
<1>3. Answered(i) = 1..(Len(rows) + 0)
  BY DEF Answered, One
<1>4. Answered(i)' = 1..(Len(rows) + 0)
  <2>1. ~(pc' = "generate" /\ i < turn')
    BY <1>2
  <2> QED
    BY <2>1 DEF Answered, One
<1>5. \A n \in 1..(Len(rows) + 0) : OutcomeOf(n, i)' = OutcomeOf(n, i)
  BY <1>2 DEF OutcomeOf
<1>6. /\ {n \in Answered(i)' : OutcomeOf(n, i)'.called} = {n \in Answered(i) : OutcomeOf(n, i).called}
      /\ {n \in Answered(i)' : OutcomeOf(n, i)'.usage} = {n \in Answered(i) : OutcomeOf(n, i).usage}
      /\ {n \in Answered(i)' : OutcomeOf(n, i)'.behavior.of = 1}
           = {n \in Answered(i) : OutcomeOf(n, i).behavior.of = 1}
      /\ {n \in Answered(i)' : OutcomeOf(n, i)'.markers.total = 1}
           = {n \in Answered(i) : OutcomeOf(n, i).markers.total = 1}
  BY <1>3, <1>4, <1>5
<1> QED
  BY <1>1, <1>6

LEMMA ResultsKept ==
  ASSUME StepsInv, LoadedInv, RowsInv, TalliesInv, Next
  PROVE  RowsInv' /\ TalliesInv'
<1>1. /\ UNCHANGED <<program, questions, providers>> /\ (raised => raised')
      /\ pc = "ended" => UNCHANGED vars
  BY GivenKept, StepsLocal, FirstAndLast
<1>2. CASE program # "llm"
  BY <1>1, <1>2 DEF RowsInv, TalliesInv
<1>3. CASE Generate
  BY <1>3, GenerateKept
<1>4. CASE program = "llm" /\ ~Generate
  <2>1. /\ Len(rows) \in Nat /\ Len(questions) \in Nat /\ Len(rows) <= Len(questions)
        /\ DOMAIN questions = 1..Len(questions)
        /\ providers \in Seq(Range(providers)) /\ Len(providers) >= 0
    BY <1>4, ProvidersApart, QuestionsAssumption DEF RowsInv, LoadedInv
  <2>2. /\ pc # "generate" /\ UNCHANGED <<rows, totals>>
        /\ Retrieve \/ pc' # "generate"
    BY <1>4, ComparisonSteps DEF Retrieve, results
  <2>3. Outcomes' = Outcomes /\ \A list, size : Answers(list, size) <=> Answers(list, size)'
    BY <1>1 DEF Answers, Outcomes
  <2>4. pc' = "generate" =>
          turn' = 1 /\ answered' = <<>> /\ 1 \in DOMAIN providers /\ Len(rows) < Len(questions)
    <3> SUFFICES ASSUME pc' = "generate"
                 PROVE  turn' = 1 /\ answered' = <<>> /\ 1 \in DOMAIN providers
                        /\ Len(rows) < Len(questions)
      OBVIOUS
    <3>1. turn' = 1 /\ answered' = <<>> /\ Asked \in DOMAIN questions
      BY <2>2 DEF Retrieve, Fail
    <3>2. Len(rows) < Len(questions)
      BY <2>1, <3>1 DEF Asked
    <3>3. Len(providers) >= 2
      BY <1>4, <2>2 DEF Retrieve, LoadedInv
    <3> QED
      BY <2>1, <3>1, <3>2, <3>3
  <2>5. Answers(<<>>, 0)
    <3>1. <<>> \in Seq(Outcomes) /\ Len(<<>>) = 0 /\ 1..0 = {}
      OBVIOUS
    <3> QED
      BY <3>1 DEF Answers
  <2>6. pc' \in Leaving \union {"closing"} /\ ~raised' => Len(rows) = Len(questions)
    <3>1. AllAnswered => Len(rows) = Len(questions)
      BY <2>1 DEF AllAnswered, Asked
    <3> QED
      BY <1>1, <1>4, <3>1, ComparisonSteps DEF RowsInv
  <2>7. RowsInv'
    <3>1. totals' \in [Range(providers') -> Totals] /\ rows' \in Seq(Seq(Outcomes'))
      BY <1>1, <1>4, <2>2, <2>3 DEF RowsInv
    <3>2. (\A n \in DOMAIN rows : Answers(rows[n], Len(providers)))'
      BY <1>1, <1>4, <2>2, <2>3 DEF RowsInv
    <3>3. pc' \in {"load", "open", "ingest", "upsert", "commit"} => rows' = <<>>
      BY <1>4, <2>2, ComparisonSteps DEF RowsInv
    <3>4. pc' = "generate" => /\ turn' \in DOMAIN (providers') /\ Answers(answered, turn - 1)'
                              /\ \A j \in DOMAIN (answered') :
                                   (answered')[j].called <=> found' # <<>>
                              /\ Len(rows') < Len(questions')
      <4> SUFFICES ASSUME pc' = "generate"
                   PROVE  /\ turn' \in DOMAIN (providers') /\ Answers(answered, turn - 1)'
                          /\ \A j \in DOMAIN (answered') :
                               (answered')[j].called <=> found' # <<>>
                          /\ Len(rows') < Len(questions')
        OBVIOUS
      <4>1. turn' - 1 = 0 /\ DOMAIN (answered') = {}
        BY <2>4
      <4>2. Answers(answered, turn - 1)'
        BY <2>3, <2>4, <2>5, <4>1
      <4> QED
        BY <1>1, <2>2, <2>4, <4>1, <4>2
    <3> QED
      BY <1>1, <2>1, <2>2, <2>6, <3>1, <3>2, <3>3, <3>4 DEF RowsInv
  <2>8. TalliesInv'
    <3>1. (~raised' /\ pc' # "ended") \/ decision'.status = "compared"
            => (~raised /\ pc # "ended") \/ decision.status = "compared"
      BY <1>1, <1>4, ComparisonSteps DEF Summarize, vars, runVars
    <3> QED
      BY <1>1, <2>1, <2>2, <2>4, <3>1, TalliesStay
  <2> QED
    BY <2>7, <2>8
<1> QED
  BY <1>2, <1>3, <1>4

LEMMA TurnsFollow ==
  LoadedInv /\ RowsInv /\ TalliesInv /\ program = "llm" /\ ~raised /\ pc # "ended" => TakeTurns
BY TurnsTaken

LEMMA TurnsKept ==
  ASSUME StepsInv, LoadedInv, RowsInv, TalliesInv, program = "llm" => TakeTurns, Next
  PROVE  (program = "llm" => TakeTurns)'
<1>1. /\ UNCHANGED <<program, questions, providers>> /\ LoadedInv' /\ RowsInv' /\ TalliesInv'
  BY GivenKept, LoadedKept, ResultsKept
<1>3. (LoadedInv /\ RowsInv /\ TalliesInv /\ program = "llm" /\ ~raised /\ pc # "ended"
         => TakeTurns)'
  BY TurnsFollow, PTL
<1>4. CASE program = "llm" /\ ~(~raised' /\ pc' # "ended")
  <2>1. ~raised /\ Generate => UNCHANGED totals
    BY <1>4 DEF Generate, Goto, Fail
  <2>2. Generate => ~raised
    BY DEF Generate, StepsInv, Leaving
  <2>3. UNCHANGED totals
    BY <1>4, <2>1, <2>2, ComparisonSteps DEF Retrieve
  <2> QED
    BY <1>1, <1>4, <2>3 DEF TakeTurns
<1> QED
  BY <1>1, <1>3, <1>4

\* Only a comparison ends in one.
LEMMA OthersDecide ==
  ASSUME StepsInv, LoadedInv, Next, program # "llm"
  PROVE  decision'.status = "compared" => decision.status = "compared"
<1> USE DEF StepsInv, inputs, contents, results, conclusions, comparison, runVars, Goto, Fail,
       Raise, End
<1>1. CASE LoadInputs \/ OpenStores \/ LeaveDirectory
  BY <1>1 DEF LoadInputs, OpenStores, LeaveDirectory
<1>2. CASE EmbedDocument \/ UpsertDocument \/ CommitDocument \/ RollBackDocument
  BY <1>2 DEF EmbedDocument, UpsertDocument, CommitDocument, RollBackDocument
<1>3. CASE BuildSearch \/ EvaluateQuestion \/ ProbeDeletion \/ CloseEmbedding \/ CloseStore
  <2>1. UNCHANGED decision
    BY <1>3 DEF BuildSearch, EvaluateQuestion, ProbeDeletion, CloseEmbedding, CloseStore
  <2> QED
    BY <2>1
<1>4. CASE BuildReport
  BY <1>4 DEF BuildReport, NextRound
<1>5. CASE Decide
  BY <1>5, DecideEnds
<1>6. CASE pc = "ended" /\ UNCHANGED runVars
  BY <1>6
<1> QED
  BY <1>1, <1>2, <1>3, <1>4, <1>5, <1>6
     DEF Next, RunNext, ComparisonNext, LoadComparison, OpenComparison, Retrieve, Generate,
         AllAnswered, LeaveDirectoryFirst, CloseProvider, CloseSharedEmbedding, Summarize

LEMMA ComparedKept ==
  ASSUME StepsInv, LoadedInv, RowsInv, ComparedInv, Next
  PROVE  ComparedInv'
<1> SUFFICES ASSUME decision'.status = "compared"
             PROVE  ComparedInv'
  BY DEF ComparedInv
<1>1. /\ UNCHANGED <<program, questions, providers>>
      /\ pc = "ended" => UNCHANGED vars
  BY GivenKept, FirstAndLast
<1>2. CASE decision.status = "compared"
  <2>1. UNCHANGED <<pc, raised, rows, totals, decision>>
    BY <1>1, <1>2 DEF ComparedInv, vars, runVars, results, conclusions, comparison
  <2>2. \A p : Summary(p)' = Summary(p)
    BY <2>1 DEF Summary
  <2> QED
    BY <1>1, <1>2, <2>1, <2>2 DEF ComparedInv
<1>3. CASE Summarize /\ ~raised /\ program = "llm"
  <2>1. /\ pc = "summarize" /\ pc' = "ended" /\ UNCHANGED <<raised, rows, totals>>
        /\ decision' = [status |-> "compared",
                        summaries |-> [p \in Range(providers) |-> Summary(p)]]
    BY <1>3 DEF Summarize, End, results, comparison
  <2>2. \A p : Summary(p)' = Summary(p)
    BY <2>1 DEF Summary
  <2>3. IsInjective(providers) /\ Len(rows) = Len(questions)
    BY <1>3, <2>1 DEF LoadedInv, RowsInv, Leaving
  <2> QED
    BY <1>1, <1>3, <2>1, <2>2, <2>3 DEF ComparedInv
<1> QED
  BY <1>2, <1>3, ComparisonSteps, OthersDecide

(***************************************************************************)
(* The invariant                                                           *)
(***************************************************************************)
LEMMA InitInv ==
  ASSUME Init
  PROVE  IInv
<1> USE DEF Init, RunInit
<1>1. StepsInv
  BY DEF StepsInv, Idle, Busy, Leaving
<1>2. LoadedInv
  BY DEF LoadedInv
<1>3. OpenInv
  BY DEF OpenInv, Idle, Busy, Given
<1>4. PaidInv
  BY DEF PaidInv
<1>5. RowsInv
  <2>1. totals \in [Range(providers) -> Totals]
    BY DEF NoTotals, Totals, Rate
  <2>2. rows \in Seq(Seq(Outcomes)) /\ DOMAIN rows = {} /\ Len(rows) = 0
    OBVIOUS
  <2>3. program = "llm" => Len(questions) \in Nat
    BY QuestionsAssumption
  <2> QED
    BY <2>1, <2>2, <2>3 DEF RowsInv, Leaving
<1>6. TalliesInv
  <2>1. \A i \in DOMAIN providers : totals[providers[i]] = NoTotals
    BY DEF Range
  <2>2. \A i : Answered(i) = {}
    <3>1. \A i : Answered(i) = 1..0
      BY DEF Answered, One
    <3> QED
      BY <3>1
  <2>3. \A i \in DOMAIN providers :
          /\ {n \in Answered(i) : OutcomeOf(n, i).called} = {}
          /\ {n \in Answered(i) : OutcomeOf(n, i).usage} = {}
          /\ {n \in Answered(i) : OutcomeOf(n, i).behavior.of = 1} = {}
          /\ {n \in Answered(i) : OutcomeOf(n, i).markers.total = 1} = {}
    BY <2>2
  <2>4. Cardinality({}) = 0
    BY FS_EmptySet
  <2>5. /\ NoTotals.calls = 0 /\ NoTotals.usages = 0
        /\ NoTotals.behavior.of = 0 /\ NoTotals.markers.total = 0
    BY DEF NoTotals, Rate
  <2> QED
    BY <2>1, <2>3, <2>4, <2>5 DEF TalliesInv
<1>7. program = "llm" => TakeTurns
  <2>1. \A i \in DOMAIN providers : totals[providers[i]].calls = 0
    BY DEF NoTotals, Range
  <2> QED
    BY <2>1 DEF TakeTurns
<1>8. ComparedInv
  BY DEF ComparedInv, Undecided
<1>9. StoredInv
  BY DEF StoredInv
<1> QED
  BY <1>1, <1>2, <1>3, <1>4, <1>5, <1>6, <1>7, <1>8, <1>9 DEF IInv

LEMMA StepKeepsInv ==
  ASSUME IInv, [Next]_vars
  PROVE  IInv'
<1>1. CASE Next
  <2> USE <1>1 DEF IInv
  <2>1. StepsInv' /\ LoadedInv' /\ OpenInv' /\ PaidInv'
    BY StepsKept, LoadedKept, OpenKept, PaidKept
  <2>2. RowsInv' /\ TalliesInv' /\ (program = "llm" => TakeTurns)'
    BY ResultsKept, TurnsKept
  <2>3. ComparedInv' /\ StoredInv'
    BY ComparedKept, StoredKept
  <2> QED
    BY <2>1, <2>2, <2>3
<1>2. CASE UNCHANGED vars
  <2> USE <1>2 DEF vars, runVars, inputs, contents, spending, results, conclusions, comparison
  <2>1. StepsInv' /\ LoadedInv' /\ PaidInv' /\ StoredInv'
    BY DEF IInv, StepsInv, LoadedInv, PaidInv, Texts, StoredInv, Strategy, Strategies
  <2>2. OpenInv' /\ ComparedInv'
    BY DEF IInv, OpenInv, Given, LeftOpen, ComparedInv, Summary
  <2>3. RowsInv' /\ (program = "llm" => TakeTurns)'
    BY DEF IInv, RowsInv, TakeTurns, Answers, Outcomes
  <2>4. TalliesInv'
    <3>1. \A i : Answered(i)' = Answered(i) /\ \A n : OutcomeOf(n, i)' = OutcomeOf(n, i)
      BY DEF Answered, OutcomeOf
    <3> QED
      BY <3>1 DEF IInv, TalliesInv
  <2> QED
    BY <2>1, <2>2, <2>3, <2>4 DEF IInv
<1> QED
  BY <1>1, <1>2

\* The conjuncts of IInv hold in every evaluation and comparison.
THEOREM Invariance == Spec => []IInv
BY InitInv, StepKeepsInv, PTL DEF Spec

(***************************************************************************)
(* The properties                                                          *)
(***************************************************************************)
\* The store is closed before its directory is removed, and in the end nothing
\* is open but what the code of the closings leaves open, whatever raised, and
\* what was given or made before the try that is never reached: see LLMComparison.
THEOREM Released == Spec => []ResourcesReleased
<1>1. ASSUME IInv PROVE ResourcesReleased
  <2>1. /\ StepsInv /\ OpenInv /\ providers \in Seq(Range(providers))
        /\ Range(providers) \intersect Shared = {}
    BY <1>1, ProvidersApart DEF IInv
  <2>6. Given \subseteq {"embedding"} \union Range(providers)
    BY DEF Given
  <2>2. \A k \in DOMAIN providers : providers[k] # "store"
    BY <2>1 DEF Range, Shared
  <2>3. "store" \notin LeftOpen
    BY <2>2 DEF LeftOpen
  <2>4. "store" \in open => "directory" \in open
    <3>1. CASE pc \in Idle \union Busy \union {"close_store", "leave_directory"}
      BY <2>1, <2>6, <3>1 DEF OpenInv, Shared, Idle, Busy
    <3>2. CASE pc = "close_llm"
      <4>1. \A j \in turn..Len(providers) : j \in DOMAIN providers
        BY <2>1, <3>2 DEF OpenInv
      <4> QED
        BY <2>1, <2>2, <3>2, <4>1 DEF OpenInv
    <3>3. CASE pc \in {"close_embedding", "summarize", "ended"}
      BY <2>1, <2>3, <3>3 DEF OpenInv, Shared
    <3> QED
      BY <2>1, <3>1, <3>2, <3>3 DEF StepsInv, Leaving
  <2>5. ASSUME pc = "ended", NEW r \in open
        PROVE  \/ /\ decision.status = "raised" /\ ~raised /\ ingested = {}
                  /\ r \in {"embedding"} \union Range(providers)
               \/ \E i, j \in DOMAIN providers :
                    i < j /\ providers[i] \in stuck /\ providers[j] = r
    <3>1. CASE r \in LeftOpen
      <4>1. PICK j \in DOMAIN providers : /\ \E i \in 1..(j - 1) : providers[i] \in stuck
                                          /\ r = providers[j]
        BY <3>1 DEF LeftOpen
      <4>2. PICK i \in 1..(j - 1) : providers[i] \in stuck
        BY <4>1
      <4>3. i \in DOMAIN providers /\ i < j
        BY <2>1
      <4> QED
        BY <4>1, <4>2, <4>3
    <3> QED
      BY <2>1, <2>5, <3>1 DEF OpenInv
  <2> QED
    BY <2>4, <2>5 DEF ResourcesReleased
<1> QED
  BY <1>1, Invariance, PTL

\* No text is sent twice to a paid provider within a round, whatever texts the
\* chunks and the questions share, and the contracts leave no question without
\* the evidence that the metrics divide by.
THEOREM WorkIsPaidOnce == Spec => []PaidWorkIsScored
<1>1. ASSUME IInv PROVE PaidWorkIsScored
  <2>1. \A t \in Texts : paid[t] <= 1
    <3>1. \A t \in Texts : paid[t] \in {0, 1}
      BY <1>1 DEF IInv, PaidInv
    <3> QED
      BY <3>1
  <2>2. ASSUME pc = "question", program # "llm", NEW n \in DOMAIN questions
        PROVE  Scorable(questions[n])
    <3>1. ValidContract(questions[n])
      BY <1>1, <2>2 DEF IInv, LoadedInv
    <3>2. CASE questions[n].behavior = "answer"
      BY <3>1, <3>2 DEF ValidContract, BehaviorDefined, Scorable
    <3>3. CASE questions[n].behavior = "clarify"
      <4>1. Len(questions[n].evidence) >= 2
        BY <3>1, <3>3 DEF ValidContract, BehaviorDefined
      <4>2. Len(<<>>) = 0
        OBVIOUS
      <4>3. questions[n].evidence # <<>>
        BY <4>1, <4>2
      <4> QED
        BY <4>3 DEF Scorable
    <3> QED
      BY <3>2, <3>3 DEF Scorable
  <2> QED
    BY <2>1, <2>2 DEF PaidWorkIsScored
<1> QED
  BY <1>1, Invariance, PTL

\* The question results of the i-th provider are as many as the questions.
LEMMA SameCount ==
  ASSUME NEW A, NEW B, IsFiniteSet(A), NEW i,
         \A at \in B : at[1] \in A /\ at = <<at[1], i>>, \A n \in A : <<n, i>> \in B
  PROVE  Cardinality(B) = Cardinality(A)
<1> DEFINE f == [n \in A |-> <<n, i>>]
<1>1. f \in Injection(A, B)
  BY DEF Injection, IsInjective
<1>2. f \in Surjection(A, B)
  BY DEF Surjection
<1>3. ExistsBijection(A, B)
  BY <1>1, <1>2 DEF ExistsBijection, Bijection
<1> QED
  BY <1>3, FS_Bijection

LEMMA RecordedIsAnswered ==
  ASSUME LoadedInv, RowsInv, program = "llm", IsInjective(providers), pc # "generate",
         NEW i \in DOMAIN providers
  PROVE  /\ IsFiniteSet(Answered(i))
         /\ \A n \in Answered(i) : /\ <<n, i>> \in Recorded(providers[i])
                                   /\ rows[n][i] = OutcomeOf(n, i)
         /\ \A at \in Recorded(providers[i]) : at[1] \in Answered(i) /\ at = <<at[1], i>>
<1>1. /\ Len(rows) \in Nat /\ DOMAIN rows = 1..Len(rows)
      /\ Answered(i) = 1..Len(rows)
      /\ \A n \in 1..Len(rows) : OutcomeOf(n, i) = rows[n][i]
  BY AnsweredQuestions
<1>2. \A n \in DOMAIN rows, k \in DOMAIN providers : rows[n][k].provider = providers[k]
  BY AnsweredQuestions DEF RowsInv, Answers
<1>3. IsFiniteSet(1..Len(rows))
  <2>1. Len(rows) \in Int /\ 1 \in Int
    BY <1>1
  <2> QED
    BY <2>1, FS_Interval
<1>4. \A n \in Answered(i) : <<n, i>> \in Recorded(providers[i])
  BY <1>1, <1>2 DEF Recorded
<1>5. ASSUME NEW at \in Recorded(providers[i])
      PROVE  at[1] \in Answered(i) /\ at = <<at[1], i>>
  <2>1. /\ at \in (DOMAIN rows) \X (DOMAIN providers)
        /\ rows[at[1]][at[2]].provider = providers[i]
    BY DEF Recorded
  <2>2. at = <<at[1], at[2]>> /\ at[1] \in DOMAIN rows /\ at[2] \in DOMAIN providers
    BY <2>1
  <2>3. at[2] = i
    BY <1>2, <2>1, <2>2 DEF IsInjective
  <2> QED
    BY <1>1, <2>2, <2>3
<1> QED
  BY <1>1, <1>3, <1>4, <1>5

\* The providers are compared on the same work: nobody is more than a question
\* ahead, and what a summary counts is what the question results show.
THEOREM Fairness == Spec => []ComparisonIsFair
<1>1. ASSUME IInv PROVE ComparisonIsFair
  <2>1. StepsInv /\ LoadedInv /\ RowsInv /\ TalliesInv /\ ComparedInv
    BY <1>1 DEF IInv
  <2>2. program = "llm" => TakeTurns
    BY <1>1 DEF IInv
  <2>3. ASSUME program = "llm", decision.status = "compared", NEW p \in Range(providers)
        PROVE  LET summary == decision.summaries[p]
               IN /\ summary.calls = CountRecorded(p, LAMBDA o : o.called)
                  /\ summary.behavior.of = CountRecorded(p, LAMBDA o : o.behavior.of = 1)
                  /\ summary.markers.total = CountRecorded(p, LAMBDA o : o.markers.total = 1)
                  /\ summary.costed => CountRecorded(p, LAMBDA o : o.called /\ ~o.usage) = 0
    <3>1. /\ pc = "ended" /\ IsInjective(providers)
          /\ decision.summaries[p] = Summary(p)
      BY <2>1, <2>3 DEF ComparedInv
    <3>2. PICK i \in DOMAIN providers : p = providers[i]
      BY <2>3 DEF Range
    <3> DEFINE called == {n \in Answered(i) : OutcomeOf(n, i).called}
               usage == {n \in Answered(i) : OutcomeOf(n, i).usage}
               right == {n \in Answered(i) : OutcomeOf(n, i).behavior.of = 1}
               marked == {n \in Answered(i) : OutcomeOf(n, i).markers.total = 1}
               free == {n \in Answered(i) : OutcomeOf(n, i).called /\ ~OutcomeOf(n, i).usage}
    <3>3. /\ totals[p].calls = Cardinality(called) /\ totals[p].usages = Cardinality(usage)
          /\ totals[p].behavior.of = Cardinality(right)
          /\ totals[p].markers.total = Cardinality(marked)
      BY <2>1, <2>3, <3>1, <3>2 DEF TalliesInv
    <3>4. /\ IsFiniteSet(Answered(i))
          /\ \A n \in Answered(i) : /\ <<n, i>> \in Recorded(p)
                                    /\ rows[n][i] = OutcomeOf(n, i)
          /\ \A at \in Recorded(p) : at[1] \in Answered(i) /\ at = <<at[1], i>>
      BY <2>1, <2>3, <3>1, <3>2, RecordedIsAnswered
    <3>5. \A at \in Recorded(p) : rows[at[1]][at[2]] = OutcomeOf(at[1], i)
      BY <3>4
    <3>6. /\ IsFiniteSet(called) /\ IsFiniteSet(usage) /\ IsFiniteSet(right)
          /\ IsFiniteSet(marked) /\ IsFiniteSet(free)
      BY <3>4, FS_Subset
    <3>7. CountRecorded(p, LAMBDA o : o.called) = Cardinality(called)
      <4> DEFINE B == {at \in Recorded(p) : rows[at[1]][at[2]].called}
      <4>1. /\ \A at \in B : at[1] \in called /\ at = <<at[1], i>>
            /\ \A n \in called : <<n, i>> \in B
        BY <3>4, <3>5
      <4>2. Cardinality(B) = Cardinality(called)
        <5> HIDE DEF B, called
        <5> QED
          BY <3>6, <4>1, SameCount
      <4> QED
        BY <4>2 DEF CountRecorded
    <3>8. CountRecorded(p, LAMBDA o : o.behavior.of = 1) = Cardinality(right)
      <4> DEFINE B == {at \in Recorded(p) : rows[at[1]][at[2]].behavior.of = 1}
      <4>1. /\ \A at \in B : at[1] \in right /\ at = <<at[1], i>>
            /\ \A n \in right : <<n, i>> \in B
        BY <3>4, <3>5
      <4>2. Cardinality(B) = Cardinality(right)
        <5> HIDE DEF B, right
        <5> QED
          BY <3>6, <4>1, SameCount
      <4> QED
        BY <4>2 DEF CountRecorded
    <3>9. CountRecorded(p, LAMBDA o : o.markers.total = 1) = Cardinality(marked)
      <4> DEFINE B == {at \in Recorded(p) : rows[at[1]][at[2]].markers.total = 1}
      <4>1. /\ \A at \in B : at[1] \in marked /\ at = <<at[1], i>>
            /\ \A n \in marked : <<n, i>> \in B
        BY <3>4, <3>5
      <4>2. Cardinality(B) = Cardinality(marked)
        <5> HIDE DEF B, marked
        <5> QED
          BY <3>6, <4>1, SameCount
      <4> QED
        BY <4>2 DEF CountRecorded
    <3>10. CountRecorded(p, LAMBDA o : o.called /\ ~o.usage) = Cardinality(free)
      <4> DEFINE B == {at \in Recorded(p) : rows[at[1]][at[2]].called /\ ~rows[at[1]][at[2]].usage}
      <4>1. /\ \A at \in B : at[1] \in free /\ at = <<at[1], i>>
            /\ \A n \in free : <<n, i>> \in B
        BY <3>4, <3>5
      <4>2. Cardinality(B) = Cardinality(free)
        <5> HIDE DEF B, free
        <5> QED
          BY <3>6, <4>1, SameCount
      <4> QED
        BY <4>2 DEF CountRecorded
    <3>11. totals[p].usages = totals[p].calls => Cardinality(free) = 0
      <4>1. usage \subseteq called
        <5>1. \A n \in Answered(i) : OutcomeOf(n, i).usage => OutcomeOf(n, i).called
          <6> TAKE n \in Answered(i)
          <6>1. n \in DOMAIN rows /\ OutcomeOf(n, i) = rows[n][i]
            BY <3>4 DEF Recorded
          <6>2. Answers(rows[n], Len(providers))
            BY <2>1, <2>3, <6>1 DEF RowsInv
          <6>3. i \in 1..Len(providers)
            BY <2>1, <2>3, AnsweredQuestions
          <6> QED
            BY <6>1, <6>2, <6>3 DEF Answers
        <5> QED
          BY <5>1
      <4>2. ASSUME totals[p].usages = totals[p].calls PROVE usage = called
        <5>1. Cardinality(usage) = Cardinality(called)
          BY <3>3, <4>2
        <5> HIDE DEF usage, called
        <5> QED
          BY <3>6, <4>1, <5>1, FS_Subset
      <4>3. usage = called => free = {}
        OBVIOUS
      <4> QED
        BY <4>2, <4>3, FS_EmptySet
    <3>12. /\ Summary(p).calls = totals[p].calls /\ Summary(p).behavior = totals[p].behavior
           /\ Summary(p).markers = totals[p].markers
           /\ Summary(p).costed => totals[p].usages = totals[p].calls
      BY DEF Summary
    <3> HIDE DEF called, usage, right, marked, free
    <3>13. decision.summaries[p].costed => Cardinality(free) = 0
      BY <3>1, <3>11, <3>12
    <3> QED
      BY <3>1, <3>3, <3>7, <3>8, <3>9, <3>10, <3>12, <3>13
  <2>4. decision.status = "compared" => Len(rows) = Len(questions)
    BY <2>1 DEF ComparedInv
  <2> QED
    BY <2>2, <2>3, <2>4 DEF ComparisonIsFair
<1> QED
  BY <1>1, Invariance, PTL

(***************************************************************************)
(* Reciprocal rank fusion does not depend on the order of the rankings     *)
(***************************************************************************)
\* The score of a chunk is the sum of its shares in the two rankings.
LEMMA FusedOfTwo ==
  ASSUME NEW D, NEW L, NEW c
  PROVE  FusedScore(<<D, L>>, c)
           = Share(RankConstant, MaxTopK, RankOf(D, c)) + Share(RankConstant, MaxTopK, RankOf(L, c))
<1> DEFINE S == {1, 2}
           lists == <<D, L>>
           h == [r \in S |-> Share(RankConstant, MaxTopK, RankOf(lists[r], c))]
           Loop(it) == [s \in SUBSET DOMAIN lists |->
                          IF s = {} THEN 0
                          ELSE LET x == CHOOSE x \in s : TRUE
                               IN Share(RankConstant, MaxTopK, RankOf(lists[x], c)) + it[s \ {x}]]
           iter == CHOOSE it : it = Loop(it)
           pick == [s \in (SUBSET S) \ {{}} |-> CHOOSE x \in s : TRUE]
           step == [x \in S \X Nat |-> h[x[1]] + x[2]]
<1>1. FusedScore(<<D, L>>, c) = iter[DOMAIN lists]
  BY DEF FusedScore, MapThenSumSet, MapThenFoldSet
<1>2. DOMAIN lists = S /\ lists[1] = D /\ lists[2] = L
  OBVIOUS
<1>3. h \in [S -> Nat]
  <2>1. \A rank : Share(RankConstant, MaxTopK, rank) \in Nat
    BY HybridAssumption, ShareTyped
  <2> QED
    BY <2>1
<1>4. IsFiniteSet(S)
  <2>1. S = 1..2
    OBVIOUS
  <2>2. 1 \in Int /\ 2 \in Int
    OBVIOUS
  <2> HIDE DEF S
  <2> QED
    BY <2>1, <2>2, FS_Interval
<1>5. Picks(pick, S)
  BY DEF Picks
<1>6. \E f \in [SUBSET S -> Nat] : Folds(f, S, 0, pick, step)
  <2> DEFINE A == Nat
             zero == 0
  <2>1. step \in [S \X A -> A] /\ zero \in A
    BY <1>3
  <2> HIDE DEF S, pick, step, A, zero
  <2>2. \E f \in [SUBSET S -> A] : Folds(f, S, zero, pick, step)
    BY <1>4, <1>5, <2>1, FoldExists
  <2> QED
    BY <2>2 DEF A, zero
<1>7. PICK f \in [SUBSET S -> Nat] : Folds(f, S, 0, pick, step)
  BY <1>6
<1>8. f = Loop(f)
  <2>1. ASSUME NEW s \in SUBSET S, s # {}
        PROVE  f[s] = LET x == CHOOSE x \in s : TRUE
                      IN Share(RankConstant, MaxTopK, RankOf(lists[x], c)) + f[s \ {x}]
    <3> DEFINE x == CHOOSE x \in s : TRUE
    <3>1. pick[s] = x /\ x \in S
      BY <2>1
    <3>2. f[s] = step[<<pick[s], f[s \ {pick[s]}]>>]
      BY <1>7, <2>1 DEF Folds, Folded
    <3>3. f[s \ {x}] \in Nat
      BY <1>7
    <3>4. step[<<x, f[s \ {x}]>>] = h[x] + f[s \ {x}]
      <4>1. <<x, f[s \ {x}]>> \in S \X Nat
        <5> HIDE DEF x, S
        <5> QED
          BY <3>1, <3>3
      <4> HIDE DEF x, h
      <4> QED
        BY <4>1
    <3>5. h[x] = Share(RankConstant, MaxTopK, RankOf(lists[x], c))
      BY <3>1
    <3> HIDE DEF step, pick, h
    <3> QED
      BY <3>1, <3>2, <3>4, <3>5
  <2>2. f[{}] = 0
    BY <1>7 DEF Folds, Folded
  <2> HIDE DEF S, lists
  <2> QED
    BY <1>2, <1>7, <2>1, <2>2
<1>9. iter = Loop(iter)
  <2> HIDE DEF Loop
  <2> QED
    BY <1>8
<1> HIDE DEF iter
<1>10. \A s \in SUBSET S : iter[s] = IF s = {} THEN 0
                                    ELSE h[CHOOSE x \in s : TRUE] + iter[s \ {CHOOSE x \in s : TRUE}]
  BY <1>2, <1>9
<1> HIDE DEF lists, Loop, h
<1>11. iter[{}] = 0 /\ h[1] \in Nat /\ h[2] \in Nat
  BY <1>3, <1>10
<1>12. iter[{1}] = h[1]
  <2>1. (CHOOSE x \in {1} : TRUE) = 1 /\ {1} \ {1} = {} /\ {1} \in SUBSET S /\ {1} # {}
    OBVIOUS
  <2>2. iter[{1}] = h[1] + 0
    <3>1. iter[{1}] = h[CHOOSE x \in {1} : TRUE] + iter[{1} \ {CHOOSE x \in {1} : TRUE}]
      BY <1>10, <2>1
    <3> QED
      BY <1>11, <2>1, <3>1
  <2> QED
    BY <1>11, <2>2
<1>13. iter[{2}] = h[2]
  <2>1. (CHOOSE x \in {2} : TRUE) = 2 /\ {2} \ {2} = {} /\ {2} \in SUBSET S /\ {2} # {}
    OBVIOUS
  <2>2. iter[{2}] = h[2] + 0
    <3>1. iter[{2}] = h[CHOOSE x \in {2} : TRUE] + iter[{2} \ {CHOOSE x \in {2} : TRUE}]
      BY <1>10, <2>1
    <3> QED
      BY <1>11, <2>1, <3>1
  <2> QED
    BY <1>11, <2>2
<1>14. iter[S] = h[1] + h[2]
  <2> DEFINE x == CHOOSE x \in S : TRUE
  <2>1. x \in S /\ S \in SUBSET S /\ S # {}
    OBVIOUS
  <2>2. iter[S] = h[x] + iter[S \ {x}]
    <3> HIDE DEF S
    <3> QED
      BY <1>10, <2>1
  <2>3. CASE x = 1
    <3>1. S \ {1} = {2}
      OBVIOUS
    <3>2. iter[S] = h[1] + iter[{2}]
      BY <2>2, <2>3, <3>1
    <3> HIDE DEF x, S
    <3> QED
      BY <1>11, <1>13, <3>2
  <2>4. CASE x = 2
    <3>1. S \ {2} = {1}
      OBVIOUS
    <3>2. iter[S] = h[2] + iter[{1}]
      BY <2>2, <2>4, <3>1
    <3> HIDE DEF x, S
    <3> QED
      BY <1>11, <1>12, <3>2
  <2> HIDE DEF x
  <2> QED
    BY <2>1, <2>3, <2>4
<1> QED
  BY <1>1, <1>2, <1>14 DEF h

LEMMA FusionIsSymmetric ==
  ASSUME NEW D, NEW L, NEW limit
  PROVE  Fuse(<<D, L>>, limit) = Fuse(Reverse(<<D, L>>), limit)
<1>1. Reverse(<<D, L>>) = <<L, D>>
  BY DEF Reverse
<1>2. FusedChunks(<<D, L>>) = FusedChunks(<<L, D>>)
  BY DEF FusedChunks
<1>3. \A c : FusedScore(<<D, L>>, c) = FusedScore(<<L, D>>, c)
  <2> TAKE c
  <2> DEFINE a == Share(RankConstant, MaxTopK, RankOf(D, c))
             b == Share(RankConstant, MaxTopK, RankOf(L, c))
  <2>1. a \in Nat /\ b \in Nat
    BY HybridAssumption, ShareTyped
  <2>2. FusedScore(<<D, L>>, c) = a + b /\ FusedScore(<<L, D>>, c) = b + a
    BY FusedOfTwo
  <2> HIDE DEF a, b
  <2> QED
    BY <2>1, <2>2
<1>4. [c \in FusedChunks(<<D, L>>) |-> FusedScore(<<D, L>>, c)]
        = [c \in FusedChunks(<<L, D>>) |-> FusedScore(<<L, D>>, c)]
  BY <1>2, <1>3
<1> QED
  BY <1>1, <1>4 DEF Fuse

\* Both halves of a hybrid search see the same chunks, and their fused ranking
\* does not depend on which comes first: see EvaluationRun.
THEOREM HybridFair == Spec => []HybridIsFair
<1>1. ASSUME IInv PROVE HybridIsFair
  <2>1. StoredInv
    BY <1>1 DEF IInv
  <2>2. pc = "question" /\ Strategy = "hybrid" => indexed = stored
    BY <2>1 DEF StoredInv
  <2>3. \A query, scope :
          LET lists == Candidates(query, stored, indexed, scope, TopK)
          IN Fuse(lists, TopK) = Fuse(Reverse(lists), TopK)
    BY FusionIsSymmetric DEF Candidates
  <2> QED
    BY <2>1, <2>2, <2>3 DEF HybridIsFair, StoredInv
<1> QED
  BY <1>1, Invariance, PTL

(***************************************************************************)
(* A report recounts its rows                                              *)
(***************************************************************************)
CategoryTotals(report) ==
  MapThenSumSet(LAMBDA c : report.categories[c].total, DOMAIN report.categories)
CategoryPasses(report) ==
  MapThenSumSet(LAMBDA c : report.categories[c].passed, DOMAIN report.categories)

LEMMA TotalsAdd ==
  ASSUME NEW report, NEW C, C = DOMAIN report.categories, IsFiniteSet(C),
         NEW number, \A c \in C : number[c] = report.categories[c].total /\ number[c] \in Nat
  PROVE  \E it : Sums(it, C, number) /\ CategoryTotals(report) = it[C]
<1> DEFINE Loop(it) == [s \in SUBSET DOMAIN report.categories |->
                          IF s = {} THEN 0
                          ELSE LET x == CHOOSE x \in s : TRUE
                               IN report.categories[x].total + it[s \ {x}]]
           iter == CHOOSE it : it = Loop(it)
<1>1. CategoryTotals(report) = iter[DOMAIN report.categories]
  BY DEF CategoryTotals, MapThenSumSet, MapThenFoldSet
<1>2. \A it : Sums(it, C, number) <=> it = Loop(it)
  BY DEF Sums
<1>3. \E it : Sums(it, C, number)
  BY NaturalsSum
<1>4. Sums(iter, C, number)
  <2> HIDE DEF Loop
  <2> QED
    BY <1>2, <1>3
<1> QED
  BY <1>1, <1>4

LEMMA PassesAdd ==
  ASSUME NEW report, NEW C, C = DOMAIN report.categories, IsFiniteSet(C),
         NEW number, \A c \in C : number[c] = report.categories[c].passed /\ number[c] \in Nat
  PROVE  \E it : Sums(it, C, number) /\ CategoryPasses(report) = it[C]
<1> DEFINE Loop(it) == [s \in SUBSET DOMAIN report.categories |->
                          IF s = {} THEN 0
                          ELSE LET x == CHOOSE x \in s : TRUE
                               IN report.categories[x].passed + it[s \ {x}]]
           iter == CHOOSE it : it = Loop(it)
<1>1. CategoryPasses(report) = iter[DOMAIN report.categories]
  BY DEF CategoryPasses, MapThenSumSet, MapThenFoldSet
<1>2. \A it : Sums(it, C, number) <=> it = Loop(it)
  BY DEF Sums
<1>3. \E it : Sums(it, C, number)
  BY NaturalsSum
<1>4. Sums(iter, C, number)
  <2> HIDE DEF Loop
  <2> QED
    BY <1>2, <1>3
<1> QED
  BY <1>1, <1>4

\* The categories add up to the rows, and their passed rows to those that passed.
LEMMA CategoriesAddUp ==
  ASSUME NEW rws, IsFiniteSet(DOMAIN rws), NEW report, report.categories = CategoryMetrics(rws),
         report.bad = Cardinality(BadCases(rws))
  PROVE  /\ Cardinality(DOMAIN rws) = CategoryTotals(report)
         /\ Cardinality(DOMAIN rws) - report.bad = CategoryPasses(report)
<1> DEFINE category == [n \in DOMAIN rws |-> rws[n].category]
           C == DOMAIN report.categories
           D == DOMAIN rws
           part == [c \in C |-> {n \in D : rws[n].category = c}]
           good == {n \in D : Passed(rws[n])}
           goodPart == [c \in C |-> {n \in part[c] : Passed(rws[n])}]
<1>11. C = DOMAIN report.categories
  OBVIOUS
<1>1. C = {category[n] : n \in D}
  BY DEF CategoryMetrics
<1>2. IsFiniteSet(C)
  <2>1. IsFiniteSet({category[n] : n \in D})
    <3> HIDE DEF category
    <3>1. DOMAIN category = D
      BY DEF category
    <3> QED
      BY <3>1, ImageFinite
  <2> QED
    BY <1>1, <2>1
<1>3. \A c \in C : /\ report.categories[c].total = Cardinality(part[c])
                   /\ report.categories[c].passed = Cardinality(goodPart[c])
  <2> SUFFICES ASSUME NEW c \in C
               PROVE  /\ report.categories[c].total = Cardinality(part[c])
                      /\ report.categories[c].passed = Cardinality(goodPart[c])
    OBVIOUS
  <2> DEFINE S == Select(rws, LAMBDA r : r.category = c)
  <2>1. S = part[c] /\ {n \in S : Passed(rws[n])} = goodPart[c]
    BY DEF Select
  <2>2. c \in {rws[n].category : n \in DOMAIN rws}
    BY <1>1
  <2>3. /\ report.categories[c].total = Cardinality(S)
        /\ report.categories[c].passed = Cardinality({n \in S : Passed(rws[n])})
    BY <2>2 DEF CategoryMetrics
  <2> HIDE DEF S, part, goodPart
  <2> QED
    BY <2>1, <2>3
<1>4. /\ \A c \in C : part[c] \subseteq D /\ goodPart[c] \subseteq good
      /\ \A n \in D : \E c \in C : n \in part[c]
      /\ \A n \in good : \E c \in C : n \in goodPart[c]
      /\ \A c, e \in C : c # e => part[c] \intersect part[e] = {} /\ goodPart[c] \intersect goodPart[e] = {}
  <2>1. \A n \in D : category[n] \in C /\ n \in part[category[n]]
    BY <1>1
  <2> QED
    BY <2>1
<1>5. good \subseteq D /\ BadCases(rws) = D \ good
  BY DEF BadCases, Select
<1> HIDE DEF C, part, goodPart, good, category
<1>6. /\ \A c \in C : Cardinality(part[c]) \in Nat /\ Cardinality(goodPart[c]) \in Nat
      /\ IsFiniteSet(good)
  <2>1. IsFiniteSet(good)
    BY <1>5, FS_Subset
  <2>2. \A c \in C : IsFiniteSet(part[c]) /\ IsFiniteSet(goodPart[c])
    <3> HIDE DEF D
    <3>1. IsFiniteSet(D)
      BY DEF D
    <3> QED
      BY <1>4, <2>1, <3>1, FS_Subset
  <2> QED
    BY <2>1, <2>2, FS_CardinalityType
<1> DEFINE number == [c \in C |-> report.categories[c].total]
           passes == [c \in C |-> report.categories[c].passed]
<1>7. \A c \in C : /\ number[c] = report.categories[c].total /\ number[c] \in Nat
                   /\ number[c] = Cardinality(part[c])
                   /\ passes[c] = report.categories[c].passed /\ passes[c] \in Nat
                   /\ passes[c] = Cardinality(goodPart[c])
  <2> SUFFICES ASSUME NEW c \in C
               PROVE  /\ number[c] = report.categories[c].total /\ number[c] \in Nat
                      /\ number[c] = Cardinality(part[c])
                      /\ passes[c] = report.categories[c].passed /\ passes[c] \in Nat
                      /\ passes[c] = Cardinality(goodPart[c])
    OBVIOUS
  <2>1. number[c] = report.categories[c].total /\ passes[c] = report.categories[c].passed
    OBVIOUS
  <2> QED
    BY <1>3, <1>6, <2>1
<1>12. IsFiniteSet(D)
  OBVIOUS
<1> HIDE DEF number, passes, D
<1>8. CategoryTotals(report) = Cardinality(D)
  <2>1. PICK it : Sums(it, C, number) /\ CategoryTotals(report) = it[C]
    BY <1>11, <1>2, <1>7, TotalsAdd
  <2>2. it[C] = Cardinality(D)
    <3>1. \A c \in C : part[c] \subseteq D /\ number[c] = Cardinality(part[c])
      BY <1>4, <1>7
    <3>2. \A x \in D : \E c \in C : x \in part[c]
      BY <1>4
    <3>3. \A c, e \in C : c # e => part[c] \intersect part[e] = {}
      BY <1>4
    <3>4. IsFiniteSet(D)
      BY <1>6, <1>12
    <3> QED
      BY <1>2, <2>1, <3>1, <3>2, <3>3, <3>4, PartsSum
  <2> QED
    BY <2>1, <2>2
<1>9. CategoryPasses(report) = Cardinality(good)
  <2>1. PICK it : Sums(it, C, passes) /\ CategoryPasses(report) = it[C]
    BY <1>11, <1>2, <1>7, PassesAdd
  <2>2. it[C] = Cardinality(good)
    <3>1. \A c \in C : goodPart[c] \subseteq good /\ passes[c] = Cardinality(goodPart[c])
      BY <1>4, <1>7
    <3>2. \A x \in good : \E c \in C : x \in goodPart[c]
      BY <1>4
    <3>3. \A c, e \in C : c # e => goodPart[c] \intersect goodPart[e] = {}
      BY <1>4
    <3>4. IsFiniteSet(good)
      BY <1>6, <1>12
    <3> QED
      BY <1>2, <2>1, <3>1, <3>2, <3>3, <3>4, PartsSum
  <2> QED
    BY <2>1, <2>2
<1>10. Cardinality(D) - Cardinality(D \ good) = Cardinality(good)
  <2>1. Cardinality(D \ good) = Cardinality(D) - Cardinality(D \intersect good)
    BY <1>12, FS_Difference
  <2>2. D \intersect good = good
    BY <1>5
  <2>3. Cardinality(D) \in Nat /\ Cardinality(good) \in Nat
    BY <1>6, <1>12, FS_CardinalityType
  <2> QED
    BY <2>1, <2>2, <2>3
<1> QED
  BY <1>5, <1>8, <1>9, <1>10 DEF D

\* The rows so far are those of the questions so far.
LEMMA RowsAreASequence ==
  ASSUME LoadedInv, RowsOfSearchInv
  PROVE  /\ rows \in Seq(Range(rows)) /\ Len(rows) \in Nat /\ Len(rows) <= Len(questions)
         /\ DOMAIN rows = 1..Len(rows) /\ DOMAIN questions = 1..Len(questions)
         /\ Len(questions) \in Nat
         /\ \A n \in DOMAIN rows : rows[n] = RowOfSearch(n)
         /\ IsFiniteSet(DOMAIN rows) /\ Cardinality(DOMAIN rows) = Len(rows)
<1>1. questions \in Seq(Range(questions))
  BY QuestionsAssumption DEF LoadedInv
<1>2. Len(questions) \in Nat /\ DOMAIN questions = 1..Len(questions)
  BY <1>1
<1>3. PICK asked \in 0..Len(questions) : rows = [n \in 1..asked |-> RowOfSearch(n)]
  BY DEF RowsOfSearchInv
<1>4. asked \in Nat /\ asked <= Len(questions)
  BY <1>2, <1>3
<1>5. DOMAIN rows = 1..asked /\ \A n \in 1..asked : rows[n] = RowOfSearch(n)
  BY <1>3
<1>6. rows \in Seq(Range(rows)) /\ Len(rows) = asked
  <2> DEFINE S == Range(rows)
  <2>1. \A n \in 1..asked : rows[n] \in S
    BY <1>5 DEF Range
  <2>2. rows = [n \in 1..asked |-> rows[n]]
    BY <1>3
  <2> HIDE DEF S
  <2>3. rows \in Seq(S)
    BY <1>4, <2>1, <2>2
  <2>4. Len(rows) = asked
    BY <1>4, <1>5, <2>3
  <2> QED
    BY <2>3, <2>4 DEF S
<1>7. IsFiniteSet(1..asked) /\ Cardinality(1..asked) = asked
  <2>1. asked \in Int /\ 1 \in Int
    BY <1>4
  <2> QED
    BY <1>4, <2>1, FS_Interval
<1> QED
  BY <1>2, <1>4, <1>5, <1>6, <1>7

LEMMA FailedOnce ==
  ASSUME LoadedInv, RowsOfSearchInv, NEW k \in DOMAIN CounterFailure,
         RateAtLeast(counters[k], 100)
  PROVE  Cardinality(Failing(rows, CounterFailure[k])) = 0
<1> DEFINE S == Failing(rows, CounterFailure[k])
<1>1. S \subseteq DOMAIN rows
  BY DEF Failing
<1>2. counters[k].total - counters[k].of = Cardinality(S)
  BY DEF RowsOfSearchInv
<1>3. counters[k] \in [of : Nat, total : Nat]
  BY DEF RowsOfSearchInv
<1> HIDE DEF S
<1>4. Cardinality(S) \in Nat
  BY <1>1, RowsAreASequence, FS_Subset, FS_CardinalityType
<1>5. counters[k].of \in Nat /\ counters[k].total \in Nat
  BY <1>3
<1>6. counters[k].total <= counters[k].of
  BY <1>5 DEF RateAtLeast
<1>7. Cardinality(S) = 0
  BY <1>2, <1>4, <1>5, <1>6
<1> QED
  BY <1>7 DEF S

LEMMA PassedChecks ==
  ASSUME Report(questions, ingested, counters, rows, deleted).passed
  PROVE  /\ RateAtLeast(counters.multi, 100) /\ RateAtLeast(counters.scope, 100)
         /\ RateAtLeast(counters.citation, 100) /\ RateAtLeast(counters.pages, 100)
<1>1. FailedChecks(questions, ingested, counters, rows, deleted) = {}
  BY DEF Report
<1> QED
  BY <1>1 DEF FailedChecks

LEMMA Recounted ==
  ASSUME LoadedInv, RowsOfSearchInv
  PROVE  RecountAgrees(Report(questions, ingested, counters, rows, deleted))
<1> DEFINE report == Report(questions, ingested, counters, rows, deleted)
<1>1. /\ report.rows = rows /\ report.counters = counters
      /\ report.categories = CategoryMetrics(rows) /\ report.bad = Cardinality(BadCases(rows))
  BY DEF Report
<1>2. report.passed => \A k \in {"multi", "scope", "citation", "pages"} : RateAtLeast(counters[k], 100)
  BY PassedChecks
<1> HIDE DEF report
<1>3. /\ Cardinality(DOMAIN rows) = CategoryTotals(report)
      /\ Cardinality(DOMAIN rows) - report.bad = CategoryPasses(report)
  BY <1>1, RowsAreASequence, CategoriesAddUp
<1>4. DOMAIN report.counters = DOMAIN CounterFailure
  BY <1>1 DEF RowsOfSearchInv
<1>5. \A k \in DOMAIN CounterFailure :
        report.counters[k].total - report.counters[k].of = FailedWith(report, CounterFailure[k])
  <2>1. \A failure : FailedWith(report, failure) = Cardinality(Failing(rows, failure))
    BY <1>1 DEF FailedWith, Failing, Select
  <2> QED
    BY <1>1, <2>1 DEF RowsOfSearchInv
<1>6. ASSUME report.passed, NEW k \in {"multi", "scope", "citation", "pages"}
      PROVE  FailedWith(report, CounterFailure[k]) = 0
  <2>1. k \in DOMAIN CounterFailure
    BY DEF CounterFailure
  <2>2. Cardinality(Failing(rows, CounterFailure[k])) = 0
    BY <1>2, <1>6, <2>1, FailedOnce
  <2> QED
    BY <1>1, <2>2 DEF FailedWith, Failing, Select
<1>7. RecountAgrees(report)
  BY <1>1, <1>3, <1>4, <1>5, <1>6, RowsAreASequence DEF RecountAgrees, CategoryTotals, CategoryPasses
<1> QED
  BY <1>7 DEF report

(***************************************************************************)
(* Counting one more question                                              *)
(***************************************************************************)
LEMMA FailureHasCase ==
  ASSUME NEW q, NEW hits, NEW k \in DOMAIN CounterFailure,
         CounterFailure[k] \in Failures(q, hits, hits)
  PROVE  CounterCases(q)[k]
<1>1. k \in {"top5", "multi", "scope", "unanswerable", "citation", "clarification", "pages"}
  BY DEF CounterFailure
<1>2. ASSUME k = "top5" PROVE CounterCases(q)[k]
  <2>1. "expected_source_missing" \in Failures(q, hits, hits)
    BY <1>2 DEF CounterFailure
  <2>2. q.answerable
    BY <2>1 DEF Failures
  <2> QED
    BY <1>2, <2>2 DEF CounterCases
<1>3. ASSUME k = "multi" PROVE CounterCases(q)[k]
  <2>1. "insufficient_expected_chunks" \in Failures(q, hits, hits)
    BY <1>3 DEF CounterFailure
  <2>2. q.category = "multi_chunk"
    BY <2>1 DEF Failures
  <2> QED
    BY <1>3, <2>2 DEF CounterCases
<1>4. ASSUME k = "scope" PROVE CounterCases(q)[k]
  <2>1. "out_of_scope_result" \in Failures(q, hits, hits)
    BY <1>4 DEF CounterFailure
  <2>2. q.category = "scope_isolation"
    BY <2>1 DEF Failures
  <2> QED
    BY <1>4, <2>2 DEF CounterCases
<1>5. ASSUME k = "unanswerable" PROVE CounterCases(q)[k]
  <2>1. "unsupported_answer" \in Failures(q, hits, hits)
    BY <1>5 DEF CounterFailure
  <2>2. q.behavior = "refuse"
    BY <2>1 DEF Failures
  <2> QED
    BY <1>5, <2>2 DEF CounterCases
<1>6. ASSUME k = "citation" PROVE CounterCases(q)[k]
  <2>1. "citation_mismatch" \in Failures(q, hits, hits)
    BY <1>6 DEF CounterFailure
  <2>2. q.answerable
    BY <2>1 DEF Failures
  <2> QED
    BY <1>6, <2>2 DEF CounterCases
<1>7. ASSUME k = "clarification" PROVE CounterCases(q)[k]
  <2>1. "clarification_not_supported" \in Failures(q, hits, hits)
    BY <1>7 DEF CounterFailure
  <2>2. q.behavior = "clarify"
    BY <2>1 DEF Failures
  <2> QED
    BY <1>7, <2>2 DEF CounterCases
<1>8. ASSUME k = "pages" PROVE CounterCases(q)[k]
  <2>1. "expected_page_missing" \in Failures(q, hits, hits)
    BY <1>8 DEF CounterFailure
  <2>2. Pages(q) # {}
    BY <2>1 DEF Failures
  <2> QED
    BY <1>8, <2>2 DEF CounterCases
<1> QED
  BY <1>1, <1>2, <1>3, <1>4, <1>5, <1>6, <1>7, <1>8

LEMMA CountedOnce ==
  ASSUME LoadedInv, RowsOfSearchInv, NEW q, NEW hits, NEW row, row = RowOf(q, hits, hits),
         NEW more, more = Append(rows, row), NEW k \in DOMAIN CounterFailure
  PROVE  /\ Count(counters, q, row) \in [DOMAIN CounterFailure -> [of : Nat, total : Nat]]
         /\ Count(counters, q, row)[k].total - Count(counters, q, row)[k].of
              = Cardinality(Failing(more, CounterFailure[k]))
<1> DEFINE next == Count(counters, q, row)
           S == Failing(rows, CounterFailure[k])
           T == Failing(more, CounterFailure[k])
           x == Len(rows) + 1
           case == CounterCases(q)[k]
           failed == CounterFailure[k] \in row.failures
<1>1. /\ counters \in [DOMAIN CounterFailure -> [of : Nat, total : Nat]]
      /\ counters[k].total - counters[k].of = Cardinality(S)
  BY DEF RowsOfSearchInv
<1>2. next \in [DOMAIN CounterFailure -> [of : Nat, total : Nat]]
  <2> SUFFICES ASSUME NEW j \in DOMAIN CounterFailure
               PROVE  Count(counters, q, row)[j] \in [of : Nat, total : Nat]
    BY <1>1 DEF Count
  <2>1. counters[j].of \in Nat /\ counters[j].total \in Nat
    BY <1>1
  <2>2. \A truth : One(truth) \in Nat
    BY DEF One
  <2> QED
    BY <1>1, <2>1, <2>2 DEF Count, Rate
<1>3. failed => case
  BY FailureHasCase DEF RowOf
<1>4. next[k].total - next[k].of = Cardinality(S) + One(failed)
  <2>1. counters[k].of \in Nat /\ counters[k].total \in Nat
    BY <1>1
  <2>2. /\ next[k].of = counters[k].of + One(case /\ ~failed)
        /\ next[k].total = counters[k].total + One(case)
    BY <1>1 DEF Count, Rate
  <2>3. One(case) - One(case /\ ~failed) = One(failed)
    BY <1>3 DEF One
  <2>4. One(case) \in Nat /\ One(case /\ ~failed) \in Nat /\ One(failed) \in Nat
    BY DEF One
  <2> HIDE DEF next, S, case, failed
  <2> QED
    BY <1>1, <2>1, <2>2, <2>3, <2>4
<1>5. Cardinality(T) = Cardinality(S) + One(failed)
  <2>1. /\ rows \in Seq(Range(rows)) /\ Len(rows) \in Nat /\ DOMAIN rows = 1..Len(rows)
        /\ IsFiniteSet(DOMAIN rows)
    BY RowsAreASequence
  <2>2. /\ DOMAIN more = 1..x /\ more[x] = row
        /\ \A n \in 1..Len(rows) : more[n] = rows[n]
    BY <2>1 DEF Range
  <2>3. S \subseteq T /\ T \subseteq S \union {x} /\ (x \in T \ S <=> failed)
    BY <2>1, <2>2 DEF Failing
  <2>4. IsFiniteSet(S)
    BY <2>1, FS_Subset DEF Failing
  <2> HIDE DEF S, T, x
  <2> QED
    BY <2>3, <2>4, OneMore DEF One
<1> QED
  BY <1>2, <1>4, <1>5

(***************************************************************************)
(* The corpus of a round                                                   *)
(***************************************************************************)
LEMMA OwnSteps ==
  ASSUME StepsInv, program # "llm", Next
  PROVE  /\ \/ LoadInputs \/ OpenStores \/ EmbedDocument \/ UpsertDocument \/ CommitDocument
            \/ RollBackDocument \/ BuildSearch \/ EvaluateQuestion \/ ProbeDeletion
            \/ CloseEmbedding \/ CloseStore \/ LeaveDirectory \/ BuildReport \/ Decide
            \/ pc = "ended" /\ UNCHANGED runVars
         /\ UNCHANGED <<program, questions>>
<1>1. ~ComparisonNext
  BY DEF ComparisonNext, LoadComparison, OpenComparison, Retrieve, Generate, AllAnswered,
         LeaveDirectoryFirst, CloseProvider, CloseSharedEmbedding, Summarize, StepsInv
<1>2. UNCHANGED <<program, questions>>
  BY GivenKept
<1> QED
  BY <1>1, <1>2 DEF Next, RunNext

LEMMA NextOfMissing ==
  ASSUME ingested \subseteq Documents, ingested # Documents
  PROVE  NextDocument \in Documents \ ingested
<1> DEFINE S == Documents \ ingested
<1>1. S \in SUBSET Nat /\ S # {}
  BY MetricsAssumption
<1>2. PICK x \in S : \A y \in S : ~ (<<y, x>> \in OpToRel(<, Nat))
  <2> HIDE DEF S
  <2> QED
    BY <1>1, WFMin, NatLessThanWellFounded
<1>3. \A y \in S : x =< y
  <2> SUFFICES ASSUME NEW y \in S PROVE x =< y
    OBVIOUS
  <2>1. x \in Nat /\ y \in Nat
    BY <1>1
  <2>2. ~(y < x)
    BY <1>2, <2>1 DEF OpToRel
  <2> QED
    BY <2>1, <2>2
<1> HIDE DEF S
<1>4. Min(S) \in S
  BY <1>2, <1>3 DEF Min
<1> QED
  BY <1>4 DEF S, NextDocument

LEMMA CorpusKept ==
  ASSUME StepsInv, LoadedInv, StoredInv, program # "llm", CorpusInv, Next
  PROVE  CorpusInv'
<1> USE DEF CorpusInv, StepsInv, runVars, inputs, contents, spending, results, conclusions, Goto,
        Fail, Raise, End
<1>1. CASE LoadInputs
  BY <1>1 DEF LoadInputs
<1>2. CASE OpenStores
  <2>1. stored = {} /\ ingested = {} /\ pc = "open"
    BY <1>2 DEF OpenStores, StoredInv
  <2>2. ChunksIn(ingested) = {}
    BY <2>1 DEF ChunksIn
  <2>3. pc' \in {"ended", "ingest"} /\ UNCHANGED contents
    BY <1>2 DEF OpenStores
  <2> QED
    BY <2>1, <2>2, <2>3 DEF ChunksIn
<1>3. CASE EmbedDocument
  BY <1>3 DEF EmbedDocument, ChunksIn
<1>4. CASE UpsertDocument
  <2>1. pc = "upsert" /\ pc' \in {"commit", "rollback"} /\ UNCHANGED <<ingested, indexed>>
    BY <1>4 DEF UpsertDocument
  <2>2. pc' = "commit" => stored' = stored \union ChunksOf(NextDocument)
    BY <1>4 DEF UpsertDocument
  <2>3. ChunksIn(ingested) \union ChunksOf(NextDocument) = ChunksIn(ingested \union {NextDocument})
    BY DEF ChunksIn, ChunksOf
  <2>4. NextDocument' = NextDocument
    BY <2>1 DEF NextDocument
  <2> QED
    BY <2>1, <2>2, <2>3, <2>4 DEF ChunksIn
<1>5. CASE CommitDocument
  <2>1. pc = "commit" /\ pc' \in {"ingest", "rollback"} /\ UNCHANGED <<stored, indexed>>
    BY <1>5 DEF CommitDocument
  <2>2. ingested' \in {ingested, ingested \union {NextDocument}}
    BY <1>5 DEF CommitDocument
  <2>3. pc' = "ingest" => ingested' = ingested \union {NextDocument}
    BY <1>5 DEF CommitDocument
  <2>4. NextDocument \in Documents
    BY <2>1, NextOfMissing
  <2>5. pc' = "ingest" => stored' = ChunksIn(ingested')
    BY <2>1, <2>3
  <2>6. ChunksIn(ingested)' = ChunksIn(ingested')
    BY DEF ChunksIn
  <2> QED
    BY <2>1, <2>2, <2>4, <2>5, <2>6
<1>6. CASE RollBackDocument
  BY <1>6 DEF RollBackDocument
<1>7. CASE BuildSearch
  <2>1. pc = "ingest" /\ pc' = "question" /\ ingested = Documents /\ UNCHANGED <<ingested, stored>>
    BY <1>7 DEF BuildSearch
  <2>2. indexed' \in {recorded, {}}
    BY <1>7 DEF BuildSearch
  <2>3. recorded \subseteq Chunks
    BY <2>1 DEF StoredInv, ChunksIn
  <2> QED
    BY <2>1, <2>2, <2>3 DEF ChunksIn
<1>8. CASE EvaluateQuestion
  BY <1>8 DEF EvaluateQuestion, ChunksIn
<1>9. CASE ProbeDeletion
  BY <1>9 DEF ProbeDeletion
<1>10. CASE CloseEmbedding \/ CloseStore \/ LeaveDirectory
  <2>1. pc' \in {"close_store", "leave_directory", "ended", "report"} /\ UNCHANGED contents
    BY <1>10 DEF CloseEmbedding, CloseStore, LeaveDirectory, Close
  <2> QED
    BY <2>1
<1>11. CASE BuildReport
  BY <1>11 DEF BuildReport, NextRound
<1>12. CASE Decide
  BY <1>12, DecideEnds
<1>13. CASE pc = "ended" /\ UNCHANGED runVars
  BY <1>13
<1> QED
  BY OwnSteps, <1>1, <1>2, <1>3, <1>4, <1>5, <1>6, <1>7, <1>8, <1>9, <1>10, <1>11, <1>12, <1>13

\* Searching the stored corpus and searching all chunks is the same.
LEMMA SearchOfCorpus ==
  ASSUME NEW n, ScopeOf(questions[n]) \subseteq Documents, NEW t
  PROVE  Search(n, ChunksIn(Documents), t) = Search(n, Chunks, t)
<1> DEFINE scope == ScopeOf(questions[n])
<1>1. {c \in ChunksIn(Documents) : DocumentOf[c] \in scope} = {c \in Chunks : DocumentOf[c] \in scope}
  BY DEF ChunksIn
<1> HIDE DEF scope
<1>2. ASSUME NEW similarity, NEW limit, NEW threshold
      PROVE  DenseSearch(similarity, ChunksIn(Documents), scope, limit, threshold)
               = DenseSearch(similarity, Chunks, scope, limit, threshold)
  BY <1>1 DEF DenseSearch
<1> QED
  BY <1>2 DEF Search, HybridSearch, Candidates, scope

(***************************************************************************)
(* The rows are what searches of the whole corpus make of the questions    *)
(***************************************************************************)
LEMMA NothingCounted ==
  ASSUME NEW k \in DOMAIN CounterFailure
  PROVE  /\ NoCounts \in [DOMAIN CounterFailure -> [of : Nat, total : Nat]]
         /\ NoCounts[k].total - NoCounts[k].of
              = Cardinality(Failing(<<>>, CounterFailure[k]))
<1>1. Failing(<<>>, CounterFailure[k]) = {}
  BY DEF Failing
<1>2. NoCounts[k] = Rate(0, 0)
  BY DEF NoCounts
<1>3. NoCounts \in [DOMAIN CounterFailure -> [of : Nat, total : Nat]]
  BY DEF NoCounts, Rate
<1> QED
  BY <1>1, <1>2, <1>3, FS_EmptySet DEF Rate

\* While rows are recorded, nothing that they depend on changes.
LEMMA RowsStay ==
  ASSUME LoadedInv, RowsOfSearchInv, UNCHANGED <<program, questions, rows, counters>>,
         rows = <<>> \/ UNCHANGED <<queries, round, indexed>>,
         pc' \notin {"load", "ended"} => ValidManifest(questions),
         rows # <<>> \/ pc' \notin {"load", "ended"} => queries' \in QueryLists,
         pc' \in {"load", "open", "ingest", "upsert", "commit", "rollback"} => rows = <<>>
  PROVE  RowsOfSearchInv'
<1>1. \E asked \in 0..Len(questions') : rows' = [n \in 1..asked |-> RowOfSearch(n)']
  <2>1. CASE rows = <<>>
    <3>1. 0 \in 0..Len(questions)
      BY RowsAreASequence
    <3>2. <<>> = [n \in 1..0 |-> RowOfSearch(n)']
      OBVIOUS
    <3> QED
      BY <2>1, <3>1, <3>2
  <2>2. CASE UNCHANGED <<queries, round, indexed>>
    <3>1. \A n : RowOfSearch(n)' = RowOfSearch(n)
      BY <2>2 DEF RowOfSearch, Search, Strategy, Strategies, Minimum
    <3>2. PICK asked \in 0..Len(questions) : rows = [n \in 1..asked |-> RowOfSearch(n)]
      BY DEF RowsOfSearchInv
    <3>3. rows' = [n \in 1..asked |-> RowOfSearch(n)']
      BY <3>1, <3>2
    <3> QED
      BY <3>2, <3>3
  <2> QED
    BY <2>1, <2>2
<1>2. \A n \in DOMAIN rows' : ValidContract(questions'[n])
  BY DEF RowsOfSearchInv
<1>3. /\ counters' \in [DOMAIN CounterFailure -> [of : Nat, total : Nat]]
      /\ \A k \in DOMAIN CounterFailure :
           counters'[k].total - counters'[k].of
             = Cardinality(Failing(rows', CounterFailure[k]))
  BY DEF RowsOfSearchInv
<1> QED
  BY <1>1, <1>2, <1>3 DEF RowsOfSearchInv

\* A round starts without rows.
LEMMA RowsStart ==
  ASSUME LoadedInv, RowsOfSearchInv, UNCHANGED <<program, questions>>, pc \notin {"load", "ended"},
         UNCHANGED queries, rows' = <<>>, counters' = NoCounts
  PROVE  RowsOfSearchInv'
<1>1. \E asked \in 0..Len(questions') : rows' = [n \in 1..asked |-> RowOfSearch(n)']
  <2>1. 0 \in 0..Len(questions)
    BY RowsAreASequence
  <2>2. <<>> = [n \in 1..0 |-> RowOfSearch(n)']
    OBVIOUS
  <2> QED
    BY <2>1, <2>2
<1>2. ValidManifest(questions) /\ queries \in QueryLists
  BY DEF RowsOfSearchInv
<1>3. /\ NoCounts \in [DOMAIN CounterFailure -> [of : Nat, total : Nat]]
      /\ \A k \in DOMAIN CounterFailure :
           NoCounts[k].total - NoCounts[k].of
             = Cardinality(Failing(<<>>, CounterFailure[k]))
  <2>1. "top5" \in DOMAIN CounterFailure
    BY DEF CounterFailure
  <2>2. NoCounts \in [DOMAIN CounterFailure -> [of : Nat, total : Nat]]
    BY <2>1, NothingCounted
  <2> QED
    BY <2>2, NothingCounted
<1>4. DOMAIN rows' = {}
  OBVIOUS
<1> QED
  BY <1>1, <1>2, <1>3, <1>4 DEF RowsOfSearchInv

\* A question adds the row of its search.
LEMMA RowAdded ==
  ASSUME LoadedInv, CorpusInv, RowsOfSearchInv, pc = "question", program # "llm",
         UNCHANGED <<inputs, round, indexed>>, pc' = "question", Asked \in DOMAIN questions,
         LET q == questions[Asked]
             hits == Search(Asked, stored, ThresholdOf(q, Minimum))
         IN /\ rows' = Append(rows, RowOf(q, hits, hits))
            /\ counters' = Count(counters, q, RowOf(q, hits, hits))
  PROVE  RowsOfSearchInv'
<1> DEFINE q == questions[Asked]
           hits == Search(Asked, stored, ThresholdOf(q, Minimum))
           row == RowOf(q, hits, hits)
<1>1. ValidManifest(questions) /\ queries \in QueryLists /\ ValidContract(q)
  BY DEF RowsOfSearchInv, LoadedInv
<1>2. row = RowOfSearch(Asked)
  <2>1. ScopeOf(q) \subseteq Documents
    BY <1>1 DEF ValidManifest, ScopeOf
  <2>2. stored = ChunksIn(Documents)
    BY DEF CorpusInv
  <2> QED
    BY <2>1, <2>2, SearchOfCorpus DEF RowOfSearch
<1>3. rows' = Append(rows, row) /\ counters' = Count(counters, q, row)
  OBVIOUS
<1>4. row = RowOf(q, hits, hits)
  OBVIOUS
<1> HIDE DEF row, hits
<1>5. /\ rows \in Seq(Range(rows)) /\ Len(rows) \in Nat /\ DOMAIN rows = 1..Len(rows)
      /\ DOMAIN questions = 1..Len(questions) /\ Len(questions) \in Nat
      /\ \A n \in DOMAIN rows : rows[n] = RowOfSearch(n)
  BY RowsAreASequence
<1>6. \A n : RowOfSearch(n)' = RowOfSearch(n)
  BY DEF RowOfSearch, Search, Strategy, Strategies, Minimum, inputs
<1>7. rows' = [n \in 1..Asked |-> RowOfSearch(n)]
  <2>1. /\ DOMAIN rows' = 1..Asked /\ rows'[Asked] = row
        /\ \A n \in 1..Len(rows) : rows'[n] = rows[n]
        /\ rows' = [n \in DOMAIN rows' |-> rows'[n]]
    BY <1>3, <1>5 DEF Asked, Range
  <2>2. \A n \in 1..Asked : rows'[n] = RowOfSearch(n)
    BY <1>2, <1>5, <2>1 DEF Asked
  <2> QED
    BY <2>1, <2>2
<1>8. \E asked \in 0..Len(questions') : rows' = [n \in 1..asked |-> RowOfSearch(n)']
  <2>1. Asked \in 0..Len(questions')
    BY <1>5 DEF inputs, Asked
  <2>2. rows' = [n \in 1..Asked |-> RowOfSearch(n)']
    BY <1>6, <1>7
  <2> QED
    BY <2>1, <2>2
<1>9. \A n \in DOMAIN rows' : ValidContract(questions'[n])
  <2>1. DOMAIN rows' = 1..Asked /\ \A n \in 1..Asked : n \in DOMAIN rows \/ n = Asked
    BY <1>5, <1>7 DEF Asked
  <2>2. \A n \in DOMAIN rows : ValidContract(questions[n])
    BY DEF RowsOfSearchInv
  <2> QED
    BY <1>1, <2>1, <2>2 DEF inputs
<1>10. /\ counters' \in [DOMAIN CounterFailure -> [of : Nat, total : Nat]]
       /\ \A k \in DOMAIN CounterFailure :
            counters'[k].total - counters'[k].of
              = Cardinality(Failing(rows', CounterFailure[k]))
  <2>1. "top5" \in DOMAIN CounterFailure
    BY DEF CounterFailure
  <2>2. \A k \in DOMAIN CounterFailure :
          /\ counters' \in [DOMAIN CounterFailure -> [of : Nat, total : Nat]]
          /\ counters'[k].total - counters'[k].of
               = Cardinality(Failing(rows', CounterFailure[k]))
    <3> HIDE DEF q
    <3> TAKE k \in DOMAIN CounterFailure
    <3> DEFINE more == rows'
    <3>2. more = Append(rows, row)
      BY <1>3
    <3> HIDE DEF more
    <3>1. /\ Count(counters, q, row) \in [DOMAIN CounterFailure -> [of : Nat, total : Nat]]
          /\ Count(counters, q, row)[k].total - Count(counters, q, row)[k].of
               = Cardinality(Failing(more, CounterFailure[k]))
      BY <1>4, <3>2, CountedOnce
    <3> QED
      BY <1>3, <3>1 DEF more
  <2> QED
    BY <2>1, <2>2
<1> QED
  BY <1>1, <1>8, <1>9, <1>10 DEF RowsOfSearchInv, inputs

LEMMA RowsOfSearchKept ==
  ASSUME StepsInv, LoadedInv, program # "llm", CorpusInv, RowsOfSearchInv, Next
  PROVE  RowsOfSearchInv'
<1> USE DEF runVars, inputs, contents, spending, results, conclusions, Goto, Fail, Raise, End
<1>1. UNCHANGED <<program, questions>>
  BY GivenKept
<1> DEFINE early == {"load", "open", "ingest", "upsert", "commit", "rollback"}
<1>2. /\ pc \notin {"load", "ended"} => ValidManifest(questions) /\ queries \in QueryLists
      /\ pc \in early => rows = <<>>
      /\ rows # <<>> => queries \in QueryLists
  BY DEF RowsOfSearchInv
<1>3. CASE LoadInputs
  <2>1. /\ UNCHANGED <<program, questions, rows, counters>> /\ rows = <<>>
        /\ pc' \notin {"load", "ended"} => ValidManifest(questions) /\ queries' \in QueryLists
        /\ rows = <<>>
    BY <1>2, <1>3 DEF LoadInputs, QueriesOf
  <2> QED
    BY <2>1, RowsStay
<1>4. CASE \/ OpenStores \/ EmbedDocument \/ UpsertDocument \/ CommitDocument \/ RollBackDocument
           \/ BuildSearch
  <2>1. pc \in early \ {"load"} /\ UNCHANGED <<rows, counters, queries>>
    BY <1>4 DEF OpenStores, EmbedDocument, UpsertDocument, CommitDocument, RollBackDocument,
                BuildSearch
  <2>2. rows = <<>> /\ ValidManifest(questions) /\ queries' \in QueryLists
    BY <1>2, <2>1
  <2> QED
    BY <1>1, <2>1, <2>2, RowsStay
<1>5. CASE EvaluateQuestion
  <2>1. pc = "question" /\ UNCHANGED <<inputs, round, indexed>> /\ Asked \in DOMAIN questions
    BY <1>5 DEF EvaluateQuestion
  <2>2. CASE rows' = rows /\ counters' = counters /\ pc' = "closing"
    <3>1. pc' \notin early
      BY <2>2
    <3> QED
      BY <1>1, <1>2, <2>1, <2>2, <3>1, RowsStay
  <2>3. CASE /\ pc' = "question"
             /\ LET q == questions[Asked]
                    hits == Search(Asked, stored, ThresholdOf(q, Minimum))
                IN /\ rows' = Append(rows, RowOf(q, hits, hits))
                   /\ counters' = Count(counters, q, RowOf(q, hits, hits))
    BY <2>1, <2>3, RowAdded
  <2> QED
    BY <1>5, <2>2, <2>3 DEF EvaluateQuestion
<1>6. CASE ProbeDeletion
  <2>1. pc = "question" /\ pc' = "closing" /\ UNCHANGED <<inputs, round, indexed, rows, counters>>
    BY <1>6 DEF ProbeDeletion
  <2> QED
    BY <1>1, <1>2, <2>1, RowsStay
<1>7. CASE CloseEmbedding \/ CloseStore \/ LeaveDirectory
  <2>1. /\ pc \in {"closing", "close_store", "leave_directory"}
        /\ pc' \in {"close_store", "leave_directory", "report", "ended"}
        /\ UNCHANGED <<inputs, round, indexed, rows, counters>>
    BY <1>7 DEF CloseEmbedding, CloseStore, LeaveDirectory, Close
  <2> QED
    BY <1>1, <1>2, <2>1, RowsStay
<1>8. CASE BuildReport
  <2>1. pc = "report" /\ UNCHANGED inputs
    BY <1>8 DEF BuildReport
  <2>2. CASE NextRound
    BY <1>1, <2>1, <2>2, RowsStart DEF NextRound
  <2>3. CASE ~NextRound
    <3>1. pc' \in {"ended", "decide"} /\ UNCHANGED <<round, indexed, rows, counters>>
      BY <1>8, <2>3 DEF BuildReport
    <3> QED
      BY <1>1, <1>2, <2>1, <3>1, RowsStay
  <2> QED
    BY <2>2, <2>3
<1>9. CASE Decide
  <2>1. /\ pc = "decide" /\ pc' = "ended"
        /\ UNCHANGED <<inputs, round, contents, results>>
    BY <1>9, DecideEnds
  <2> QED
    BY <1>1, <1>2, <2>1, RowsStay
<1>10. CASE pc = "ended" /\ UNCHANGED runVars
  BY <1>1, <1>2, <1>10, RowsStay
<1> QED
  BY OwnSteps, <1>3, <1>4, <1>5, <1>6, <1>7, <1>8, <1>9, <1>10

(***************************************************************************)
(* The sweep of the thresholds replays the searches                        *)
(***************************************************************************)
LEMMA RoundedClose ==
  ASSUME NEW s \in Int, NEW t \in Int, t % 2 = 0
  PROVE  /\ Rounded(s) \in Int
         /\ s >= t => Rounded(s) >= t
         /\ Rounded(s) >= t => s >= t - 1
<1> DEFINE low == s \div 2
           half == t \div 2
<1>1. /\ low \in Int /\ s % 2 \in {0, 1} /\ s = (2 * low) + (s % 2)
      /\ half \in Int /\ t = 2 * half
  OBVIOUS
<1>2. Rounded(s) \in {2 * low, 2 * (low + 1)} /\ (s % 2 = 0 => Rounded(s) = 2 * low)
  BY DEF Rounded
<1> HIDE DEF low, half
<1> QED
  BY <1>1, <1>2

\* What is kept are the hits that score enough.
LEMMA KeptHits ==
  ASSUME NEW base, base \in Seq(Range(base)), \A i \in DOMAIN base : base[i].score \in Int, NEW t \in Int
  PROVE  /\ AtLeast(base, t) \in Seq(Range(base))
         /\ \A i \in DOMAIN AtLeast(base, t) :
              \E j \in DOMAIN base : AtLeast(base, t)[i] = base[j] /\ base[j].score >= t
         /\ \A j \in DOMAIN base :
              base[j].score >= t => \E i \in DOMAIN AtLeast(base, t) : AtLeast(base, t)[i] = base[j]
<1> DEFINE places == {j \in DOMAIN base : base[j].score >= t}
           X == Range(base)
           kept == Keep(base, places)
<1>1. AtLeast(base, t) = kept
  BY DEF AtLeast
<1>2. places \in SUBSET DOMAIN base /\ base \in Seq(X)
  OBVIOUS
<1>3. \A j \in DOMAIN base : j \in places <=> base[j].score >= t
  OBVIOUS
<1> HIDE DEF places, X
<1>4. /\ kept \in Seq(X)
      /\ \E at \in [1..Len(kept) -> places] :
           /\ \A n \in 1..Len(kept) : kept[n] = base[at[n]]
           /\ \A p \in places : \E n \in 1..Len(kept) : at[n] = p
  BY <1>2, KeepsPlaces
<1> HIDE DEF kept
<1>5. DOMAIN kept = 1..Len(kept)
  BY <1>4
<1>6. \A i \in DOMAIN kept : \E j \in DOMAIN base : kept[i] = base[j] /\ base[j].score >= t
  BY <1>2, <1>3, <1>4, <1>5
<1>7. ASSUME NEW j \in DOMAIN base, base[j].score >= t
      PROVE  \E i \in DOMAIN kept : kept[i] = base[j]
  <2>1. j \in places
    BY <1>3, <1>7
  <2> QED
    BY <1>4, <1>5, <2>1
<1> QED
  BY <1>1, <1>4, <1>6, <1>7 DEF X

LEMMA RetainedHits ==
  ASSUME NEW row, row.results \in Seq(Range(row.results)), NEW t \in Int,
         \A i \in DOMAIN row.results : row.results[i].score \in Int
  PROVE  /\ Retained(row, t) \in Seq(Range(row.results))
         /\ Retained(row, t) # <<>> <=> \E i \in DOMAIN row.results : row.results[i].score >= t
<1> DEFINE base == row.results
<1>1. Retained(row, t) = AtLeast(base, t)
  BY DEF Retained, AtLeast
<1>2. base \in Seq(Range(base)) /\ \A i \in DOMAIN base : base[i].score \in Int
  OBVIOUS
<1> HIDE DEF base
<1>3. /\ AtLeast(base, t) \in Seq(Range(base))
      /\ \A i \in DOMAIN AtLeast(base, t) :
           \E j \in DOMAIN base : AtLeast(base, t)[i] = base[j] /\ base[j].score >= t
      /\ \A j \in DOMAIN base :
           base[j].score >= t => \E i \in DOMAIN AtLeast(base, t) : AtLeast(base, t)[i] = base[j]
  BY <1>2, KeptHits
<1> DEFINE kept == AtLeast(base, t)
<1>4. kept \in Seq(Range(base))
  BY <1>3
<1>5. kept # <<>> <=> \E i \in DOMAIN kept : TRUE
  <2> HIDE DEF kept
  <2>1. kept = <<>> <=> Len(kept) = 0
    BY <1>4
  <2>2. Len(kept) \in Nat /\ DOMAIN kept = 1..Len(kept)
    BY <1>4
  <2>3. Len(kept) # 0 => 1 \in 1..Len(kept)
    BY <2>2
  <2> QED
    BY <2>1, <2>2, <2>3
<1>6. kept # <<>> <=> \E j \in DOMAIN base : base[j].score >= t
  BY <1>3, <1>5
<1> QED
  BY <1>1, <1>4, <1>6 DEF base

\* The entry of a question that was searched for with the threshold "searched"
\* tells of a candidate threshold, above it, what a search with it would find.
LEMMA RowReplays ==
  ASSUME NEW base, base \in Seq(Range(base)), \A i \in DOMAIN base : base[i].score \in Int,
         NEW searched \in Int, NEW t \in Nat, t % 2 = 0, searched <= t,
         NEW q, NEW row, row = RowOf(q, AtLeast(base, searched), AtLeast(base, searched))
  PROVE  /\ AtLeast(base, t) # <<>> => Retained(row, t) # <<>>
         /\ Retained(row, t) # <<>> => AtLeast(base, t - 1) # <<>>
<1> DEFINE hits == AtLeast(base, searched)
           kept == AtLeast(base, t)
           below == t - 1
           wide == AtLeast(base, below)
<1>11. t \in Int /\ searched \in Int
  OBVIOUS
<1>1. /\ hits \in Seq(Range(base))
      /\ \A i \in DOMAIN hits : \E j \in DOMAIN base : hits[i] = base[j] /\ base[j].score >= searched
      /\ \A j \in DOMAIN base : base[j].score >= searched => \E i \in DOMAIN hits : hits[i] = base[j]
  BY KeptHits
<1>2. /\ kept \in Seq(Range(base))
      /\ \A i \in DOMAIN kept : \E j \in DOMAIN base : kept[i] = base[j] /\ base[j].score >= t
  BY <1>11, KeptHits
<1>10. below \in Int
  OBVIOUS
<1>3. \A j \in DOMAIN base : base[j].score >= below => \E i \in DOMAIN wide : wide[i] = base[j]
  <2> HIDE DEF below
  <2> QED
    BY <1>10, KeptHits
<1>4. /\ DOMAIN row.results = DOMAIN hits
      /\ \A i \in DOMAIN hits : row.results[i].score = Rounded(hits[i].score)
      /\ row.results = [i \in DOMAIN hits |-> row.results[i]]
  BY DEF RowOf
<1>5. row.results \in Seq(Range(row.results))
  <2> DEFINE list == row.results
  <2>1. DOMAIN hits = 1..Len(hits) /\ Len(hits) \in Nat
    BY <1>1
  <2>2. \A i \in DOMAIN hits : list[i] \in Range(list)
    BY <1>4 DEF Range
  <2> HIDE DEF list, hits
  <2>3. list = [i \in 1..Len(hits) |-> list[i]]
    BY <1>4, <2>1 DEF list
  <2>4. list \in Seq(Range(list))
    BY <2>1, <2>2, <2>3
  <2> QED
    BY <2>4 DEF list
<1>9. \A i \in DOMAIN hits : hits[i].score \in Int /\ Rounded(hits[i].score) \in Int
  <2> SUFFICES ASSUME NEW i \in DOMAIN hits
               PROVE  hits[i].score \in Int /\ Rounded(hits[i].score) \in Int
    OBVIOUS
  <2>1. hits[i].score \in Int
    <3> HIDE DEF hits
    <3> QED
      BY <1>1
  <2> QED
    BY <1>11, <2>1, RoundedClose
<1> HIDE DEF hits, kept, wide, below
<1>6. Retained(row, t) # <<>> <=> \E i \in DOMAIN hits : Rounded(hits[i].score) >= t
  <2>1. \A i \in DOMAIN row.results : row.results[i].score \in Int
    BY <1>4, <1>9
  <2>2. Retained(row, t) # <<>> <=> \E i \in DOMAIN row.results : row.results[i].score >= t
    BY <1>5, <1>11, <2>1, RetainedHits
  <2> QED
    BY <1>4, <2>2
<1>7. ASSUME kept # <<>> PROVE Retained(row, t) # <<>>
  <2>1. 1 \in DOMAIN kept
    BY <1>2, <1>7
  <2>2. PICK j \in DOMAIN base : base[j].score >= t
    BY <1>2, <2>1
  <2>3. base[j].score \in Int /\ base[j].score >= searched
    BY <2>2
  <2>4. PICK i \in DOMAIN hits : hits[i] = base[j]
    BY <1>1, <2>3
  <2>6. t \in Int
    OBVIOUS
  <2>5. Rounded(base[j].score) >= t
    BY <2>2, <2>3, <2>6, RoundedClose
  <2> QED
    BY <1>6, <2>4, <2>5
<1>8. ASSUME Retained(row, t) # <<>> PROVE wide # <<>>
  <2>1. PICK i \in DOMAIN hits : Rounded(hits[i].score) >= t
    BY <1>6, <1>8
  <2>2. PICK j \in DOMAIN base : hits[i] = base[j] /\ base[j].score >= searched
    BY <1>1
  <2>3. base[j].score \in Int
    BY <2>2
  <2>7. t \in Int
    OBVIOUS
  <2>4. base[j].score >= t - 1
    BY <2>1, <2>2, <2>3, <2>7, RoundedClose
  <2>5. base[j].score >= below
    BY <2>2, <2>3, <2>4 DEF below
  <2>6. DOMAIN wide # {}
    BY <1>3, <2>5
  <2> QED
    BY <2>6
<1> QED
  BY <1>7, <1>8 DEF kept, wide, below

(***************************************************************************)
(* What the searches return                                                *)
(***************************************************************************)
Hits == Seq([chunk : Chunks, score : Int])

LEMMA HitTyped ==
  ASSUME NEW hits \in Hits
  PROVE  /\ DOMAIN hits = 1..Len(hits) /\ Len(hits) \in Nat
         /\ \A i \in DOMAIN hits : hits[i].chunk \in Chunks /\ hits[i].score \in Int
<1> DEFINE X == [chunk : Chunks, score : Int]
<1>1. hits \in Seq(X)
  BY DEF Hits
<1>2. \A x \in X : x.chunk \in Chunks /\ x.score \in Int
  OBVIOUS
<1> HIDE DEF X
<1>3. DOMAIN hits = 1..Len(hits) /\ Len(hits) \in Nat /\ \A i \in 1..Len(hits) : hits[i] \in X
  BY <1>1, ElementOfSeq
<1> QED
  BY <1>2, <1>3

LEMMA HitsBuilt ==
  ASSUME NEW hits, NEW size \in Nat, NEW made, hits = [i \in 1..size |-> made[i]],
         \A i \in 1..size : made[i] \in [chunk : Chunks, score : Int]
  PROVE  hits \in Hits
<1> DEFINE X == [chunk : Chunks, score : Int]
<1>1. \A i \in 1..size : made[i] \in X
  OBVIOUS
<1> HIDE DEF X
<1>2. hits \in Seq(X)
  BY <1>1
<1> QED
  BY <1>2 DEF Hits, X

LEMMA ChunksSorted ==
  ASSUME NEW S \in SUBSET Chunks, NEW key,
         \A c \in S : key[c] \in Seq(Int) /\ Len(key[c]) = 2 /\ key[c][2] \in {c, -c}
                        /\ \A b \in S : key[b][2] = key[c][2] => b = c
  PROVE  Sorted(S, key) \in Seq(Chunks) /\ Sorted(S, key) \in Seq(S)
<1> DEFINE keys == {s \in Seq(Int) : Len(s) = 2}
           wide == 0
<1>1. IsFiniteSet(S)
  BY HybridAssumption, FS_Subset
<1>2. Keyed(keys, wide)
  BY DEF Keyed
<1>3. \A x \in S : key[x] \in keys
  OBVIOUS
<1>4. \A x, y \in S : key[x] = key[y] => x = y
  OBVIOUS
<1> HIDE DEF keys, wide
<1>5. Cardinality(S) \in Nat /\ Sorted(S, key) \in [1..Cardinality(S) -> S]
  BY <1>1, <1>2, <1>3, <1>4, SortedByKey
<1> QED
  BY <1>5

LEMMA HitsListed ==
  ASSUME NEW order \in Seq(Chunks), NEW score, \A i \in DOMAIN order : score[order[i]] \in Int
  PROVE  ScoredHits(order, score) \in Hits
<1>1. \A i \in DOMAIN order : Hit(order[i], score[order[i]]) \in [chunk : Chunks, score : Int]
  BY DEF Hit
<1>2. DOMAIN order = 1..Len(order) /\ Len(order) \in Nat
  OBVIOUS
<1> QED
  BY <1>1, <1>2 DEF ScoredHits, Hits

LEMMA PrefixIsHits ==
  ASSUME NEW hits \in Hits, NEW limit \in Nat
  PROVE  Prefix(hits, limit) \in Hits
BY PrefixKeeps DEF Hits

LEMMA KeptIsHits ==
  ASSUME NEW hits \in Hits, NEW t
  PROVE  AtLeast(hits, t) \in Hits
<1> DEFINE places == {i \in DOMAIN hits : hits[i].score >= t}
           X == [chunk : Chunks, score : Int]
<1>1. hits \in Seq(X) /\ places \in SUBSET DOMAIN hits
  BY DEF Hits
<1> HIDE DEF places, X
<1>2. Keep(hits, places) \in Seq(X)
  BY <1>1, KeepsPlaces
<1> QED
  BY <1>2 DEF AtLeast, Hits, places, X

\* What the dense search would return without a threshold.
DenseBase(similarity, chunks, scope, limit) ==
  LET scoped == {c \in chunks : DocumentOf[c] \in scope}
      order == Sorted(scoped, [c \in scoped |-> <<-similarity[c], -c>>])
  IN ScoredHits(Prefix(order, limit), similarity)

LEMMA DenseHits ==
  ASSUME NEW similarity, \A c \in Chunks : similarity[c] \in Int, NEW chunks \in SUBSET Chunks,
         NEW scope, NEW limit \in Nat
  PROVE  /\ DenseBase(similarity, chunks, scope, limit) \in Hits
         /\ \A t : DenseSearch(similarity, chunks, scope, limit, t)
                     = AtLeast(DenseBase(similarity, chunks, scope, limit), t)
<1> DEFINE scoped == {c \in chunks : DocumentOf[c] \in scope}
           key == [c \in scoped |-> <<-similarity[c], -c>>]
           order == Sorted(scoped, key)
           best == Prefix(order, limit)
<1>1. scoped \in SUBSET Chunks
  OBVIOUS
<1>2. \A c \in scoped : /\ key[c] \in Seq(Int) /\ Len(key[c]) = 2 /\ key[c][2] = -c
                        /\ c \in Nat
  <2> SUFFICES ASSUME NEW c \in scoped
               PROVE  /\ key[c] \in Seq(Int) /\ Len(key[c]) = 2 /\ key[c][2] = -c
                      /\ c \in Nat
    OBVIOUS
  <2>1. similarity[c] \in Int /\ c \in Nat
    BY HybridAssumption
  <2>2. -similarity[c] \in Int /\ -c \in Int
    BY <2>1
  <2>3. key[c] = <<-similarity[c], -c>>
    OBVIOUS
  <2> HIDE DEF key
  <2> QED
    BY <2>1, <2>2, <2>3
<1>3. \A b, c \in scoped : key[b][2] = key[c][2] => b = c
  <2> HIDE DEF scoped, key
  <2> QED
    BY <1>2
<1>4. order \in Seq(Chunks)
  <2> HIDE DEF scoped, key
  <2> QED
    BY <1>1, <1>2, <1>3, ChunksSorted
<1> HIDE DEF order
<1>5. best \in Seq(Chunks)
  BY <1>4, PrefixKeeps
<1> HIDE DEF best
<1>6. ScoredHits(best, similarity) \in Hits
  <2>1. \A i \in DOMAIN best : best[i] \in Chunks
    BY <1>5
  <2> QED
    BY <1>5, <2>1, HitsListed
<1>7. DenseBase(similarity, chunks, scope, limit) = ScoredHits(best, similarity)
  BY DEF DenseBase, best, order
<1> QED
  BY <1>6, <1>7 DEF DenseSearch, best, order

LEMMA LexicalHits ==
  ASSUME NEW weight, \A c \in Chunks : weight[c] \in Int, NEW chunks \in SUBSET Chunks,
         NEW scope, NEW limit \in Nat
  PROVE  LexicalSearch(weight, chunks, scope, limit) \in Hits
<1> DEFINE scored == {c \in chunks : DocumentOf[c] \in scope /\ weight[c] > 0}
           key == [c \in scored |-> <<-weight[c], c>>]
           order == Sorted(scored, key)
<1>1. scored \in SUBSET Chunks
  OBVIOUS
<1>2. \A c \in scored : key[c] \in Seq(Int) /\ Len(key[c]) = 2 /\ key[c][2] = c
  <2> SUFFICES ASSUME NEW c \in scored
               PROVE  key[c] \in Seq(Int) /\ Len(key[c]) = 2 /\ key[c][2] = c
    OBVIOUS
  <2>1. weight[c] \in Int /\ c \in Int
    BY HybridAssumption
  <2>2. -weight[c] \in Int
    BY <2>1
  <2>3. key[c] = <<-weight[c], c>>
    OBVIOUS
  <2> HIDE DEF key
  <2> QED
    BY <2>1, <2>2, <2>3
<1>3. order \in Seq(Chunks)
  <2> HIDE DEF scored, key
  <2> QED
    BY <1>1, <1>2, ChunksSorted
<1>4. LexicalSearch(weight, chunks, scope, limit) = Prefix(ScoredHits(order, weight), limit)
  BY DEF LexicalSearch
<1> HIDE DEF order
<1>5. \A i \in DOMAIN order : order[i] \in Chunks
  BY <1>3
<1>6. ScoredHits(order, weight) \in Hits
  BY <1>3, <1>5, HitsListed
<1> QED
  BY <1>4, <1>6, PrefixIsHits

LEMMA FusedHits ==
  ASSUME NEW D \in Hits, NEW L \in Hits, NEW limit \in Nat
  PROVE  Fuse(<<D, L>>, limit) \in Hits
<1> DEFINE fused == FusedChunks(<<D, L>>)
           score == [c \in fused |-> FusedScore(<<D, L>>, c)]
           key == [c \in fused |-> <<-score[c], c>>]
           order == Sorted(fused, key)
           best == Prefix(order, limit)
<1>1. fused \in SUBSET Chunks
  <2>1. HitChunks(D) \subseteq Chunks /\ HitChunks(L) \subseteq Chunks
    BY HitTyped DEF HitChunks
  <2>2. fused = HitChunks(D) \union HitChunks(L)
    <3>1. DOMAIN <<D, L>> = {1, 2} /\ <<D, L>>[1] = D /\ <<D, L>>[2] = L
      OBVIOUS
    <3> QED
      BY <3>1 DEF FusedChunks
  <2> QED
    BY <2>1, <2>2
<1>2. \A c \in fused : score[c] \in Int
  <2>1. \A c : FusedScore(<<D, L>>, c) \in Nat
    <3> TAKE c
    <3> DEFINE a == Share(RankConstant, MaxTopK, RankOf(D, c))
               b == Share(RankConstant, MaxTopK, RankOf(L, c))
    <3>1. a \in Nat /\ b \in Nat
      BY HybridAssumption, ShareTyped
    <3>2. FusedScore(<<D, L>>, c) = a + b
      BY FusedOfTwo
    <3> HIDE DEF a, b
    <3> QED
      BY <3>1, <3>2
  <2> QED
    BY <2>1
<1>3. Fuse(<<D, L>>, limit) = ScoredHits(best, score)
  <2>1. DOMAIN score = fused
    OBVIOUS
  <2>2. Fuse(<<D, L>>, limit) = Ranked(score, limit)
    BY DEF Fuse
  <2>3. Ranked(score, limit)
          = ScoredHits(Prefix(Sorted(DOMAIN score, [c \in DOMAIN score |-> <<-score[c], c>>]), limit), score)
    BY DEF Ranked
  <2> HIDE DEF score, fused
  <2> QED
    BY <2>1, <2>2, <2>3
<1> HIDE DEF fused, score
<1>4. \A c \in fused : key[c] \in Seq(Int) /\ Len(key[c]) = 2 /\ key[c][2] = c
  <2> SUFFICES ASSUME NEW c \in fused
               PROVE  key[c] \in Seq(Int) /\ Len(key[c]) = 2 /\ key[c][2] = c
    OBVIOUS
  <2>1. score[c] \in Int /\ c \in Int
    BY <1>1, <1>2, HybridAssumption
  <2>2. -score[c] \in Int
    BY <2>1
  <2>3. key[c] = <<-score[c], c>>
    OBVIOUS
  <2> HIDE DEF key
  <2> QED
    BY <2>1, <2>2, <2>3
<1>5. order \in Seq(Chunks) /\ order \in Seq(fused)
  <2> HIDE DEF key
  <2> QED
    BY <1>1, <1>4, ChunksSorted
<1> HIDE DEF order
<1>6. best \in Seq(fused) /\ best \in Seq(Chunks)
  BY <1>5, PrefixKeeps
<1> HIDE DEF best
<1>7. \A i \in DOMAIN best : score[best[i]] \in Int
  BY <1>2, <1>6
<1>8. ScoredHits(best, score) \in Hits
  BY <1>6, <1>7, HitsListed
<1> QED
  BY <1>3, <1>8

LEMMA DivInt ==
  ASSUME NEW m \in Int, NEW n \in Nat \ {0}
  PROVE  m \div n \in Int
OBVIOUS

LEMMA NormalizedHits ==
  ASSUME NEW hits \in Hits
  PROVE  Normalize(hits) \in Hits
<1> DEFINE best == 2 * Share(RankConstant, MaxTopK, 1)
           part(i) == (FullScore * hits[i].score) \div best
<1>1. best \in Nat \ {0}
  <2> DEFINE share == Share(RankConstant, MaxTopK, 1)
  <2>1. share \in Nat /\ share # 0
    BY HybridAssumption, ShareTyped
  <2> HIDE DEF share
  <2>2. 2 * share \in Nat \ {0}
    BY <2>1
  <2> QED
    BY <2>2 DEF share
<1>2. \A i \in DOMAIN hits : hits[i].chunk \in Chunks /\ part(i) \in Int
  <2> SUFFICES ASSUME NEW i \in DOMAIN hits PROVE hits[i].chunk \in Chunks /\ part(i) \in Int
    OBVIOUS
  <2>1. hits[i].chunk \in Chunks /\ hits[i].score \in Int
    BY HitTyped
  <2>2. FullScore * hits[i].score \in Int
    BY <2>1, HybridAssumption
  <2> HIDE DEF best
  <2> QED
    BY <1>1, <2>1, <2>2, DivInt
<1> HIDE DEF best, part
<1>3. \A i \in DOMAIN hits : Min({part(i), FullScore}) \in Int
  <2> TAKE i \in DOMAIN hits
  <2>1. part(i) \in Int /\ FullScore \in Int
    BY <1>2, HybridAssumption
  <2>2. \E x \in {part(i), FullScore} : \A y \in {part(i), FullScore} : x =< y
    BY <2>1
  <2>3. Min({part(i), FullScore}) \in {part(i), FullScore}
    BY <2>2 DEF Min
  <2> QED
    BY <2>1, <2>3
<1>4. Normalize(hits) = [i \in DOMAIN hits |-> Hit(hits[i].chunk, Min({part(i), FullScore}))]
  BY DEF Normalize, part, best
<1>5. DOMAIN hits = 1..Len(hits) /\ Len(hits) \in Nat
  BY HitTyped
<1>6. \A i \in DOMAIN hits :
        Hit(hits[i].chunk, Min({part(i), FullScore})) \in [chunk : Chunks, score : Int]
  BY <1>2, <1>3 DEF Hit
<1> DEFINE made == Normalize(hits)
<1>7. /\ made = [i \in 1..Len(hits) |-> made[i]]
      /\ \A i \in 1..Len(hits) : made[i] \in [chunk : Chunks, score : Int]
  BY <1>4, <1>5, <1>6
<1> HIDE DEF made
<1>8. made \in Hits
  BY <1>5, <1>7, HitsBuilt
<1> QED
  BY <1>8 DEF made

\* A search keeps what scores enough of one list, whatever its threshold.
LEMMA SearchKeeps ==
  ASSUME LoadedInv, indexed \subseteq Chunks, queries \in QueryLists, NEW n \in DOMAIN questions
  PROVE  \E base \in Hits : \A t : Search(n, Chunks, t) = AtLeast(base, t)
<1> DEFINE scope == ScopeOf(questions[n])
           query == queries[n]
           limit == CandidateLimit(TopK)
<1>1. n \in DOMAIN queries
  BY QuestionsAssumption DEF LoadedInv
<1>2. \A c \in Chunks : query.similarity[c] \in Int /\ query.weight[c] \in Int
  <2>1. /\ query.similarity \in [Chunks -> NoThreshold..FullScore]
        /\ query.weight \in [Chunks -> Int]
    BY <1>1, QuestionsAssumption DEF LoadedInv
  <2> HIDE DEF query
  <2> QED
    BY <2>1
<1>3. TopK \in Nat /\ limit \in Nat
  <2>1. TopK \in Nat /\ MaxTopK \in Nat /\ Multiplier \in Nat
    BY MetricsAssumption, HybridAssumption
  <2>2. TopK * Multiplier \in Nat
    BY <2>1
  <2> DEFINE product == TopK * Multiplier
             larger == Max({TopK, product})
  <2>3. larger \in Nat
    <3> HIDE DEF product
    <3>1. product \in Nat
      BY <2>2 DEF product
    <3>2. \E x \in {TopK, product} : \A y \in {TopK, product} : x >= y
      BY <2>1, <3>1
    <3>3. Max({TopK, product}) \in {TopK, product}
      BY <3>2 DEF Max
    <3> QED
      BY <2>1, <3>1, <3>3
  <2> HIDE DEF larger
  <2>4. \E x \in {larger, MaxTopK} : \A y \in {larger, MaxTopK} : x =< y
    BY <2>1, <2>3
  <2>5. Min({larger, MaxTopK}) \in {larger, MaxTopK}
    BY <2>4 DEF Min
  <2>6. limit = Min({larger, MaxTopK})
    BY DEF CandidateLimit, larger
  <2> QED
    BY <2>1, <2>3, <2>5, <2>6
<1> HIDE DEF limit, query, scope
<1>4. CASE Strategy = "hybrid"
  <2> DEFINE D == DenseSearch(query.similarity, Chunks, scope, limit, NoThreshold)
             L == LexicalSearch(query.weight, indexed, scope, limit)
             fused == Fuse(<<D, L>>, TopK)
             base == Normalize(fused)
  <2>1. D \in Hits
    <3> DEFINE dense == DenseBase(query.similarity, Chunks, scope, limit)
    <3>1. dense \in Hits /\ D = AtLeast(dense, NoThreshold)
      BY <1>2, <1>3, DenseHits
    <3> HIDE DEF dense, D
    <3> QED
      BY <3>1, KeptIsHits
  <2>2. L \in Hits
    BY <1>2, <1>3, LexicalHits
  <2>3. Candidates(query, Chunks, indexed, scope, TopK) = <<D, L>>
    BY DEF Candidates, limit
  <2>4. \A t : Search(n, Chunks, t) = AtLeast(base, t)
    BY <1>4, <2>3 DEF Search, HybridSearch, query, scope
  <2> HIDE DEF D, L
  <2>5. fused \in Hits
    BY <1>3, <2>1, <2>2, FusedHits
  <2> HIDE DEF fused
  <2>6. base \in Hits
    BY <2>5, NormalizedHits
  <2> QED
    BY <2>4, <2>6
<1>5. CASE Strategy # "hybrid"
  <2> DEFINE base == DenseBase(query.similarity, Chunks, scope, TopK)
  <2>1. /\ base \in Hits
        /\ \A t : DenseSearch(query.similarity, Chunks, scope, TopK, t) = AtLeast(base, t)
    BY <1>2, <1>3, DenseHits
  <2>2. \A t : Search(n, Chunks, t) = AtLeast(base, t)
    BY <1>5, <2>1 DEF Search, query, scope
  <2> QED
    BY <2>1, <2>2
<1> QED
  BY <1>4, <1>5

\* The floor of a program is a candidate, and no refusal is tested above it.
LEMMA FloorTyped ==
  ASSUME LoadedInv, program # "llm"
  PROVE  /\ Minimum \in Nat /\ Minimum \in Candidate(Minimum) /\ FullScore \in Nat
         /\ \A t \in Candidate(Minimum) : t \in Nat /\ t % 2 = 0 /\ t >= Minimum
         /\ \A q : ThresholdOf(q, Minimum) \in {NoThreshold, Minimum}
         /\ NoThreshold \in Int /\ NoThreshold <= 0
<1>1. Minimum \in 0..FullScore /\ Minimum % 2 = 0 /\ FullScore \in Nat
  BY RunAssumption, HybridAssumption DEF LoadedInv, Minimum
<1> QED
  BY <1>1 DEF Candidate, ThresholdOf, NoThreshold

LEMMA SweepIsReplay ==
  ASSUME LoadedInv, program # "llm", RowsOfSearchInv, indexed \subseteq Chunks
  PROVE  SweepReplays(rows)
<1> SUFFICES ASSUME NEW t \in Candidate(Minimum), NEW n \in DOMAIN rows
             PROVE  /\ Search(n, Chunks, t) # <<>> => Retained(rows[n], t) # <<>>
                    /\ Retained(rows[n], t) # <<>> => Search(n, Chunks, t - 1) # <<>>
  BY DEF SweepReplays
<1>1. /\ n \in DOMAIN questions /\ rows # <<>> /\ rows[n] = RowOfSearch(n)
  BY RowsAreASequence
<1>2. queries \in QueryLists
  BY <1>1 DEF RowsOfSearchInv
<1>3. PICK base \in Hits : \A s : Search(n, Chunks, s) = AtLeast(base, s)
  BY <1>1, <1>2, SearchKeeps
<1> DEFINE searched == ThresholdOf(questions[n], Minimum)
           below == t - 1
<1>4. searched \in Int /\ t \in Nat /\ t % 2 = 0 /\ searched <= t
  BY FloorTyped
<1>5. rows[n] = RowOf(questions[n], AtLeast(base, searched), AtLeast(base, searched))
  BY <1>1, <1>3 DEF RowOfSearch
<1> HIDE DEF searched
<1>6. base \in Seq(Range(base)) /\ \A i \in DOMAIN base : base[i].score \in Int
  <2>1. /\ DOMAIN base = 1..Len(base) /\ Len(base) \in Nat
        /\ \A i \in DOMAIN base : base[i].score \in Int
    BY HitTyped
  <2>2. base = [i \in 1..Len(base) |-> base[i]]
    BY <2>1 DEF Hits
  <2>3. \A i \in 1..Len(base) : base[i] \in Range(base)
    BY <2>1 DEF Range
  <2> QED
    BY <2>1, <2>2, <2>3
<1>7. /\ AtLeast(base, t) # <<>> => Retained(rows[n], t) # <<>>
      /\ Retained(rows[n], t) # <<>> => AtLeast(base, below) # <<>>
  BY <1>4, <1>5, <1>6, RowReplays
<1> QED
  BY <1>3, <1>7

(***************************************************************************)
(* The recommended threshold                                               *)
(***************************************************************************)
LEMMA HarmonicTyped ==
  ASSUME NEW a, NEW b, a.of \in Nat, b.of \in Nat, a.total \in Nat \ {0}, b.total \in Nat \ {0}
  PROVE  Harmonic(a, b) \in Int
<1> DEFINE left == a.of * b.total
           right == b.of * a.total
           scale == (2 * 10000 * left) * right
           size == ((left + right) * a.total) * b.total
<1>1. left \in Nat /\ right \in Nat
  OBVIOUS
<1>2. Harmonic(a, b) = IF left + right = 0 THEN 0 ELSE scale \div size
  BY DEF Harmonic
<1> HIDE DEF left, right
<1>3. scale \in Int
  BY <1>1
<1>4. left + right # 0 => size \in Nat \ {0}
  <2> SUFFICES ASSUME left + right # 0 PROVE size \in Nat \ {0}
    OBVIOUS
  <2>1. left + right \in Nat \ {0}
    BY <1>1
  <2>2. (left + right) * a.total \in Nat \ {0}
    BY <2>1, ProductPositive
  <2> QED
    BY <2>2, ProductPositive
<1> HIDE DEF scale, size
<1>5. left + right # 0 => scale \div size \in Int
  BY <1>3, <1>4, DivInt
<1> QED
  BY <1>2, <1>5

MatchedAt(rws, t, n) == Cardinality(UNION {r.numbers : r \in Range(Retained(rws[n], t))})
RecallSum(rws, t, S) ==
  MapThenSumSet(LAMBDA n : (Units * MatchedAt(rws, t, n)) \div rws[n].evidence, S)

LEMMA RecallSumTyped ==
  ASSUME NEW S, IsFiniteSet(S), NEW rws, NEW t,
         \A n \in S : (Units * MatchedAt(rws, t, n)) \div rws[n].evidence \in Nat
  PROVE  RecallSum(rws, t, S) \in Nat
<1> DEFINE number == [n \in S |-> (Units * MatchedAt(rws, t, n)) \div rws[n].evidence]
           Loop(it) == [s \in SUBSET S |->
                          IF s = {} THEN 0
                          ELSE LET x == CHOOSE x \in s : TRUE
                               IN (Units * MatchedAt(rws, t, x)) \div rws[x].evidence + it[s \ {x}]]
           iter == CHOOSE it : it = Loop(it)
<1>1. RecallSum(rws, t, S) = iter[S]
  BY DEF RecallSum, MapThenSumSet, MapThenFoldSet
<1>2. \A it : Sums(it, S, number) <=> it = Loop(it)
  BY DEF Sums
<1>3. \A n \in S : number[n] \in Nat
  OBVIOUS
<1> HIDE DEF number
<1>4. PICK it : Sums(it, S, number) /\ it[S] \in Nat
  BY <1>3, NaturalsSum
<1>5. Sums(iter, S, number)
  <2> HIDE DEF Loop
  <2> QED
    BY <1>2, <1>4
<1> HIDE DEF iter
<1>6. iter[S] = it[S]
  BY <1>4, <1>5, SumsAgree
<1> QED
  BY <1>1, <1>4, <1>6

\* No more evidence is matched than the question has.
LEMMA MatchedTyped ==
  ASSUME NEW q, q.evidence \in Seq(Range(q.evidence)), NEW hits \in Hits,
         NEW rws, NEW n, rws[n] = RowOf(q, hits, hits), NEW t
  PROVE  MatchedAt(rws, t, n) \in Nat
<1> DEFINE row == rws[n]
           D == DOMAIN q.evidence
           X == {r \in Range(row.results) : r.numbers \subseteq D}
           list == row.results
           places == {i \in DOMAIN list : list[i].score >= t}
           kept == Retained(row, t)
           all == UNION {r.numbers : r \in Range(kept)}
<1>1. IsFiniteSet(D)
  <2>1. D = 1..Len(q.evidence) /\ Len(q.evidence) \in Nat
    OBVIOUS
  <2>2. Len(q.evidence) \in Int /\ 1 \in Int
    BY <2>1
  <2> HIDE DEF D
  <2> QED
    BY <2>1, <2>2, FS_Interval
<1>2. /\ DOMAIN list = 1..Len(hits) /\ Len(hits) \in Nat
      /\ \A i \in DOMAIN list : list[i].numbers \subseteq D
      /\ list = [i \in DOMAIN list |-> list[i]]
  BY HitTyped DEF RowOf
<1>3. list \in Seq(X)
  <2>1. \A i \in DOMAIN list : list[i] \in Range(list)
    BY DEF Range
  <2>2. \A i \in DOMAIN list : list[i] \in X
    BY <1>2, <2>1
  <2>3. list = [i \in 1..Len(hits) |-> list[i]]
    BY <1>2
  <2> HIDE DEF list, X
  <2> QED
    BY <1>2, <2>2, <2>3
<1>4. kept = Keep(list, places) /\ places \in SUBSET DOMAIN list
  BY DEF Retained
<1>5. \A r \in X : r.numbers \subseteq D
  OBVIOUS
<1> HIDE DEF X, list, places, D
<1>6. kept \in Seq(X)
  BY <1>3, <1>4, KeepsPlaces
<1> HIDE DEF kept
<1>7. \A r \in Range(kept) : r \in X
  BY <1>6 DEF Range
<1>8. all \subseteq D
  BY <1>5, <1>7
<1> HIDE DEF all
<1>9. Cardinality(all) \in Nat
  BY <1>1, <1>8, FS_Subset, FS_CardinalityType
<1> QED
  BY <1>9 DEF MatchedAt, all, kept

LEMMA DivNat ==
  ASSUME NEW m \in Nat, NEW n \in Nat \ {0}
  PROVE  m \div n \in Nat
OBVIOUS

Keyable(r) ==
  /\ r.balanced \in Int /\ r.rejection.of \in Int /\ r.recall.of \in Int
  /\ r.refused.of \in Int /\ r.refused.total \in Int

LEMMA AtThresholdTyped ==
  ASSUME LoadedInv, program # "llm", RowsOfSearchInv, indexed \subseteq Chunks, Sweepable(rows),
         NEW t
  PROVE  Keyable(AtThreshold(rows, t)) /\ AtThreshold(rows, t).threshold = t
<1> DEFINE answer == Select(rows, LAMBDA r : r.behavior = "answer")
           refuse == Select(rows, LAMBDA r : r.behavior = "refuse")
           matched(n) == MatchedAt(rows, t, n)
           recall == Rate(RecallSum(rows, t, answer), Units * Cardinality(answer))
           rejected == {n \in refuse : Retained(rows[n], t) = <<>>}
           kept == {n \in answer : Retained(rows[n], t) # <<>>}
           rejection == Rate(Cardinality(rejected), Cardinality(refuse))
           at == AtThreshold(rows, t)
<1>1. at = [threshold |-> t, recall |-> recall, rejection |-> rejection,
            refused |-> Rate(Cardinality(answer) - Cardinality(kept), Cardinality(answer)),
            balanced |-> Harmonic(recall, rejection)]
  BY DEF AtThreshold, RecallSum, MatchedAt
<1>2. /\ answer \subseteq DOMAIN rows /\ refuse \subseteq DOMAIN rows
      /\ answer # {} /\ refuse # {} /\ rejected \subseteq refuse /\ kept \subseteq answer
  BY DEF Select, Sweepable
<1>3. \A n \in answer : rows[n].behavior = "answer"
  BY DEF Select
<1> HIDE DEF answer, refuse, rejected, kept
<1>4. /\ IsFiniteSet(answer) /\ IsFiniteSet(refuse) /\ IsFiniteSet(rejected) /\ IsFiniteSet(kept)
  <2>1. IsFiniteSet(DOMAIN rows)
    BY RowsAreASequence
  <2>2. IsFiniteSet(answer) /\ IsFiniteSet(refuse)
    BY <1>2, <2>1, FS_Subset
  <2> QED
    BY <1>2, <2>2, FS_Subset
<1>5. /\ Cardinality(answer) \in Nat \ {0} /\ Cardinality(refuse) \in Nat \ {0}
      /\ Cardinality(rejected) \in Nat /\ Cardinality(kept) \in Nat
  BY <1>2, <1>4, FS_CardinalityType, FS_EmptySet
<1>6. \A n \in answer : (Units * matched(n)) \div rows[n].evidence \in Nat
  <2> SUFFICES ASSUME NEW n \in answer
               PROVE  (Units * MatchedAt(rows, t, n)) \div rows[n].evidence \in Nat
    OBVIOUS
  <2> DEFINE q == questions[n]
             hits == Search(n, Chunks, ThresholdOf(q, Minimum))
  <2>1. /\ n \in DOMAIN rows /\ n \in DOMAIN questions /\ rows # <<>>
        /\ rows[n] = RowOfSearch(n)
    BY <1>2, RowsAreASequence
  <2>2. rows[n] = RowOf(q, hits, hits)
    BY <2>1 DEF RowOfSearch
  <2>3. queries \in QueryLists /\ ValidContract(q)
    BY <2>1 DEF RowsOfSearchInv
  <2>4. q.evidence \in Seq(Range(q.evidence))
    <3>1. \A e \in Range(questions) : e.evidence \in Seq(Range(e.evidence))
      BY QuestionsAssumption DEF LoadedInv
    <3>2. q \in Range(questions)
      BY <2>1 DEF Range
    <3> QED
      BY <3>1, <3>2
  <2>5. hits \in Hits
    <3>1. PICK base \in Hits : \A s : Search(n, Chunks, s) = AtLeast(base, s)
      BY <2>1, <2>3, SearchKeeps
    <3>2. hits = AtLeast(base, ThresholdOf(q, Minimum))
      BY <3>1
    <3> HIDE DEF hits
    <3> QED
      BY <3>2, KeptIsHits
  <2>6. q.behavior = "answer" /\ rows[n].evidence = Len(q.evidence)
    BY <1>3, <2>2 DEF RowOf
  <2>7. q.evidence # <<>>
    BY <2>3, <2>6 DEF ValidContract, BehaviorDefined
  <2>8. rows[n].evidence \in Nat \ {0}
    BY <2>4, <2>6, <2>7
  <2> HIDE DEF q, hits
  <2>9. MatchedAt(rows, t, n) \in Nat
    BY <2>2, <2>4, <2>5, MatchedTyped
  <2>10. Units * MatchedAt(rows, t, n) \in Nat
    BY <2>9 DEF Units
  <2> QED
    BY <2>8, <2>10, DivNat
<1>7. recall.of \in Nat /\ recall.total \in Nat \ {0}
  <2>1. RecallSum(rows, t, answer) \in Nat
    BY <1>4, <1>6, RecallSumTyped
  <2>2. Units * Cardinality(answer) \in Nat \ {0}
    BY <1>5 DEF Units
  <2> QED
    BY <2>1, <2>2 DEF Rate
<1>8. rejection.of \in Nat /\ rejection.total \in Nat \ {0}
  BY <1>5 DEF Rate
<1> HIDE DEF recall, rejection
<1>9. Harmonic(recall, rejection) \in Int
  BY <1>7, <1>8, HarmonicTyped
<1> HIDE DEF at
<1>10. Keyable(at) /\ at.threshold = t
  BY <1>1, <1>5, <1>7, <1>8, <1>9 DEF Keyable, Rate
<1> QED
  BY <1>10 DEF at

\* The recommended threshold is one of the candidates.
LEMMA RecommendedExists ==
  ASSUME LoadedInv, program # "llm", RowsOfSearchInv, indexed \subseteq Chunks, Sweepable(rows)
  PROVE  Keyable(Recommended(rows, Minimum))
<1> DEFINE Key(r) == <<-r.balanced, -r.rejection.of, -r.recall.of, r.refused.of, r.threshold>>
           C == Candidate(Minimum)
           f == [t \in C |-> AtThreshold(rows, t)]
           sweep == {AtThreshold(rows, t) : t \in C}
           key == [r \in sweep |-> Key(r)]
           keys == {s \in Seq(Int) : Len(s) = 5}
           wide == 0
<1>1. /\ Minimum \in Nat /\ Minimum \in C /\ FullScore \in Nat
      /\ \A t \in C : t \in Nat
  BY FloorTyped
<1>2. IsFiniteSet(C)
  <2>1. C \subseteq Minimum..FullScore
    BY DEF Candidate
  <2>2. IsFiniteSet(Minimum..FullScore)
    <3>1. Minimum \in Int /\ FullScore \in Int
      BY <1>1
    <3> QED
      BY <3>1, FS_Interval
  <2> HIDE DEF C
  <2> QED
    BY <2>1, <2>2, FS_Subset
<1> HIDE DEF C
<1>3. IsFiniteSet(sweep) /\ sweep # {}
  <2>1. sweep = {f[t] : t \in C} /\ DOMAIN f = C
    OBVIOUS
  <2>2. IsFiniteSet({f[t] : t \in C})
    <3> HIDE DEF f
    <3> QED
      BY <1>2, <2>1, ImageFinite
  <2> QED
    BY <1>1, <2>1, <2>2
<1>4. \A r \in sweep : Keyable(r) /\ r.threshold \in C /\ r = AtThreshold(rows, r.threshold)
  <2> SUFFICES ASSUME NEW t \in C
               PROVE  LET r == AtThreshold(rows, t)
                      IN Keyable(r) /\ r.threshold \in C /\ r = AtThreshold(rows, r.threshold)
    OBVIOUS
  <2> QED
    BY AtThresholdTyped
<1> HIDE DEF sweep
<1>5. \A r \in sweep : key[r] \in keys
  <2> SUFFICES ASSUME NEW r \in sweep PROVE Key(r) \in keys
    OBVIOUS
  <2>1. /\ -r.balanced \in Int /\ -r.rejection.of \in Int /\ -r.recall.of \in Int
        /\ r.refused.of \in Int /\ r.threshold \in Int
    <3>1. /\ r.balanced \in Int /\ r.rejection.of \in Int /\ r.recall.of \in Int
          /\ r.refused.of \in Int
      BY <1>4 DEF Keyable
    <3>2. r.threshold \in Int
      <4>1. r.threshold \in C
        BY <1>4
      <4>2. \A t \in C : t \in Int
        BY <1>1
      <4> QED
        BY <4>1, <4>2
    <3> QED
      BY <3>1, <3>2
  <2> QED
    BY <2>1
<1>6. \A r, s \in sweep : key[r] = key[s] => r = s
  <2> SUFFICES ASSUME NEW r \in sweep, NEW s \in sweep, Key(r) = Key(s) PROVE r = s
    OBVIOUS
  <2>1. Key(r)[5] = r.threshold /\ Key(s)[5] = s.threshold
    OBVIOUS
  <2>2. r.threshold = s.threshold
    BY <2>1
  <2> QED
    BY <1>4, <2>2
<1>7. Keyed(keys, wide)
  BY DEF Keyed
<1>8. \E r \in sweep : \A s \in sweep \ {r} : LexBefore(Key(r), Key(s))
  <2>1. \E r \in sweep : \A s \in sweep \ {r} : LexBefore(key[r], key[s])
    <3> HIDE DEF key, keys, wide
    <3> QED
      BY <1>3, <1>5, <1>6, <1>7, LeastByKey
  <2> HIDE DEF Key
  <2> QED
    BY <2>1
<1>9. Recommended(rows, Minimum) = CHOOSE r \in sweep : \A s \in sweep \ {r} : LexBefore(Key(r), Key(s))
  BY DEF Recommended, sweep, C
<1> HIDE DEF Key
<1>10. Recommended(rows, Minimum) \in sweep
  BY <1>8, <1>9
<1> QED
  BY <1>4, <1>10

(***************************************************************************)
(* The reports and the decision                                            *)
(***************************************************************************)
LEMMA DecisionsAgree ==
  ASSUME NEW dense, NEW hybrid, NEW at, Keyable(at)
  PROVE  ChangeRecommended(dense, hybrid, at)
           <=> DecisionReasons(dense, hybrid, at) = {"requires_real_semantic_provider_validation"}
<1> DEFINE final == "requires_real_semantic_provider_validation"
           A == Improves(hybrid.recall, dense.recall)
           B == Improves(dense.mrr, hybrid.mrr)
           C == RateAtLeast(at.rejection, 85)
           over == 100 * at.refused.of > 5 * at.refused.total
           tests == [hybrid_did_not_improve_evidence_recall |-> ~A,
                     hybrid_reduced_mrr |-> B,
                     candidate_threshold_misses_refusal_gate |-> ~C,
                     candidate_threshold_rejects_too_many_answerable_questions |-> over]
           reasons == {r \in DOMAIN tests : tests[r]}
<1>1. 100 * at.refused.of <= 5 * at.refused.total <=> ~over
  BY DEF Keyable
<1>2. ChangeRecommended(dense, hybrid, at) <=> (A /\ ~B /\ C /\ ~over)
  <2> HIDE DEF over
  <2> QED
    BY <1>1 DEF ChangeRecommended
<1>3. DecisionReasons(dense, hybrid, at) = IF reasons = {} THEN {final} ELSE reasons
  BY DEF DecisionReasons
<1> HIDE DEF A, B, C, over
<1>4. reasons = {} <=> (A /\ ~B /\ C /\ ~over)
  <2>1. DOMAIN tests = {"hybrid_did_not_improve_evidence_recall", "hybrid_reduced_mrr",
                        "candidate_threshold_misses_refusal_gate",
                        "candidate_threshold_rejects_too_many_answerable_questions"}
    OBVIOUS
  <2>2. /\ tests.hybrid_did_not_improve_evidence_recall <=> ~A
        /\ tests.hybrid_reduced_mrr <=> B
        /\ tests.candidate_threshold_misses_refusal_gate <=> ~C
        /\ tests.candidate_threshold_rejects_too_many_answerable_questions <=> over
    OBVIOUS
  <2> HIDE DEF tests
  <2> QED
    BY <2>1, <2>2
<1>5. final \notin reasons
  OBVIOUS
<1> HIDE DEF reasons
<1> QED
  BY <1>2, <1>3, <1>4, <1>5

\* Only BuildReport makes a report.
LEMMA ReportsStay ==
  ASSUME StepsInv, LoadedInv, Next, ~BuildReport
  PROVE  UNCHANGED reports /\ pc' # "decide"
<1> USE DEF StepsInv, runVars, inputs, contents, spending, results, conclusions, comparison, Goto,
        Fail, Raise, End
<1>1. CASE LoadInputs \/ OpenStores
  BY <1>1 DEF LoadInputs, OpenStores
<1>2. CASE EmbedDocument \/ UpsertDocument \/ CommitDocument \/ RollBackDocument
  BY <1>2 DEF EmbedDocument, UpsertDocument, CommitDocument, RollBackDocument
<1>3. CASE BuildSearch \/ EvaluateQuestion \/ ProbeDeletion
  BY <1>3 DEF BuildSearch, EvaluateQuestion, ProbeDeletion
<1>4. CASE CloseEmbedding \/ CloseStore \/ LeaveDirectory
  BY <1>4 DEF CloseEmbedding, CloseStore, LeaveDirectory, Close
<1>5. CASE Decide
  BY <1>5, DecideEnds
<1>6. CASE pc = "ended" /\ UNCHANGED runVars
  BY <1>6
<1>7. CASE LoadComparison \/ OpenComparison \/ Retrieve \/ Generate \/ AllAnswered
  BY <1>7 DEF LoadComparison, OpenComparison, Retrieve, Generate, AllAnswered
<1>8. CASE LeaveDirectoryFirst \/ CloseProvider \/ CloseSharedEmbedding \/ Summarize
  BY <1>8 DEF LeaveDirectoryFirst, CloseProvider, CloseSharedEmbedding, Summarize, Close
<1> QED
  BY <1>1, <1>2, <1>3, <1>4, <1>5, <1>6, <1>7, <1>8 DEF Next, RunNext, ComparisonNext

\* Only Decide comes to an analysis, and nothing happens after it.
LEMMA AnalysisStays ==
  ASSUME StepsInv, LoadedInv, Next, ~Decide, decision'.status = "analysed"
  PROVE  UNCHANGED vars
<1> USE DEF StepsInv, runVars, inputs, contents, spending, results, conclusions, comparison, Goto,
        Fail, Raise, End
<1> SUFFICES decision' = decision
  BY FirstAndLast DEF Undecided
<1>1. CASE LoadInputs \/ OpenStores
  BY <1>1 DEF LoadInputs, OpenStores
<1>2. CASE EmbedDocument \/ UpsertDocument \/ CommitDocument \/ RollBackDocument
  BY <1>2 DEF EmbedDocument, UpsertDocument, CommitDocument, RollBackDocument
<1>3. CASE BuildSearch \/ EvaluateQuestion \/ ProbeDeletion
  BY <1>3 DEF BuildSearch, EvaluateQuestion, ProbeDeletion
<1>4. CASE CloseEmbedding \/ CloseStore \/ LeaveDirectory
  BY <1>4 DEF CloseEmbedding, CloseStore, LeaveDirectory, Close
<1>5. CASE BuildReport
  BY <1>5 DEF BuildReport, NextRound
<1>6. CASE pc = "ended" /\ UNCHANGED runVars
  BY <1>6
<1>7. CASE LoadComparison \/ OpenComparison \/ Retrieve \/ Generate \/ AllAnswered
  BY <1>7 DEF LoadComparison, OpenComparison, Retrieve, Generate, AllAnswered
<1>8. CASE LeaveDirectoryFirst \/ CloseProvider \/ CloseSharedEmbedding \/ Summarize
  BY <1>8 DEF LeaveDirectoryFirst, CloseProvider, CloseSharedEmbedding, Summarize, Close
<1> QED
  BY <1>1, <1>2, <1>3, <1>4, <1>5, <1>6, <1>7, <1>8 DEF Next, RunNext, ComparisonNext

LEMMA ReportsKept ==
  ASSUME StepsInv, LoadedInv, ReportInv, Next
  PROVE  /\ reports' \in Seq(Range(reports'))
         /\ \A n \in DOMAIN reports' : RecountAgrees(reports'[n])
         /\ pc' = "decide" => reports' # <<>> /\ Last(reports').rows = rows'
<1>1. reports \in Seq(Range(reports)) /\ \A n \in DOMAIN reports : RecountAgrees(reports[n])
  BY DEF ReportInv, ReportIsTrue
<1>2. CASE ~BuildReport
  BY <1>1, <1>2, ReportsStay
<1>3. CASE BuildReport
  <2> DEFINE report == Report(questions, ingested, counters, rows, deleted)
             size == Len(reports)
             more == Append(reports, report)
  <2>1. program # "llm" /\ reports' = more
    BY <1>3 DEF BuildReport
  <2>2. RecountAgrees(report)
    BY <2>1, Recounted DEF ReportInv
  <2>3. report.rows = rows
    BY DEF Report
  <2>4. pc' = "decide" => rows' = rows
    BY <1>3 DEF BuildReport, NextRound, results, Raise, End
  <2> HIDE DEF report
  <2>5. /\ size \in Nat /\ DOMAIN reports = 1..size
        /\ DOMAIN more = 1..(size + 1) /\ Len(more) = size + 1 /\ more[size + 1] = report
        /\ \A n \in 1..size : more[n] = reports[n]
        /\ more = [n \in 1..(size + 1) |-> more[n]]
    <3> DEFINE X == Range(reports) \union {report}
    <3>1. size \in Nat /\ DOMAIN reports = 1..size
      BY <1>1
    <3>2. reports \in Seq(X) /\ report \in X
      <4>1. \A n \in 1..size : reports[n] \in X
        BY <3>1 DEF Range
      <4> HIDE DEF X
      <4>2. reports = [n \in 1..size |-> reports[n]]
        BY <1>1
      <4>3. reports \in Seq(X)
        BY <3>1, <4>1, <4>2
      <4> QED
        BY <4>3 DEF X
    <3> HIDE DEF X
    <3>3. more \in Seq(X) /\ Len(more) = size + 1
      BY <3>1, <3>2
    <3>4. DOMAIN more = 1..(size + 1) /\ more[size + 1] = report
      BY <3>1, <3>2, <3>3
    <3>5. \A n \in 1..size : more[n] = reports[n]
      BY <3>1, <3>2
    <3> HIDE DEF more
    <3>6. more = [n \in 1..(size + 1) |-> more[n]]
      BY <3>3, <3>4
    <3> QED
      BY <3>1, <3>3, <3>4, <3>5, <3>6
  <2> HIDE DEF more, size
  <2>6. \A n \in DOMAIN more : RecountAgrees(more[n])
    <3> SUFFICES ASSUME NEW n \in 1..(size + 1) PROVE RecountAgrees(more[n])
      BY <2>5
    <3>1. n \in 1..size \/ n = size + 1
      BY <2>5
    <3> QED
      BY <1>1, <2>2, <2>5, <3>1
  <2>7. more \in Seq(Range(more))
    <3>1. \A n \in 1..(size + 1) : more[n] \in Range(more)
      BY <2>5 DEF Range
    <3>2. size + 1 \in Nat
      BY <2>5
    <3> DEFINE X == Range(more)
    <3> HIDE DEF X
    <3>3. more \in Seq(X)
      BY <2>5, <3>1, <3>2 DEF X
    <3> QED
      BY <3>3 DEF X
  <2>8. more # <<>> /\ Last(more) = report
    BY <2>5 DEF Last
  <2> QED
    BY <2>1, <2>3, <2>4, <2>6, <2>7, <2>8
<1> QED
  BY <1>2, <1>3

\* What Decide concludes rests on the rows of the last report.
LEMMA DecisionIsTrue ==
  ASSUME StepsInv, LoadedInv, ReportInv, Next
  PROVE  decision'.status = "analysed" =>
           /\ program # "llm"
           /\ SweepReplays(Last(reports).rows)' /\ UNCHANGED reports
           /\ program = "hybrid" =>
                (decision'.promoted
                   <=> decision'.reasons = {"requires_real_semantic_provider_validation"})
<1> SUFFICES ASSUME decision'.status = "analysed"
             PROVE  /\ program # "llm"
                    /\ SweepReplays(Last(reports).rows)' /\ UNCHANGED reports
                    /\ program = "hybrid" =>
                         (decision'.promoted
                            <=> decision'.reasons = {"requires_real_semantic_provider_validation"})
  OBVIOUS
<1>1. UNCHANGED <<program, questions, queries, round, indexed, reports>>
        => (SweepReplays(Last(reports).rows)' <=> SweepReplays(Last(reports).rows))
  BY DEF SweepReplays, Search, Strategy, Strategies, Minimum
<1>2. CASE ~Decide
  <2>1. UNCHANGED vars
    BY <1>2, AnalysisStays
  <2>2. UNCHANGED <<program, questions, queries, round, indexed, reports, decision>>
    BY <2>1 DEF vars, runVars, inputs, contents, conclusions
  <2>3. ReportIsTrue /\ decision.status = "analysed"
    BY <2>2 DEF ReportInv
  <2>4. program # "llm"
    BY <2>3 DEF ReportInv
  <2> QED
    BY <1>1, <2>2, <2>3, <2>4 DEF ReportIsTrue
<1>3. CASE Decide
  <2>1. /\ pc = "decide" /\ program # "llm"
        /\ UNCHANGED <<program, questions, queries, round, indexed, reports>>
    BY <1>3, DecideEnds DEF Decide, inputs, contents
  <2>2. RowsOfSearchInv /\ CorpusInv /\ Last(reports).rows = rows
    BY <2>1 DEF ReportInv
  <2>3. SweepReplays(Last(reports).rows)
    BY <2>1, <2>2, SweepIsReplay DEF CorpusInv
  <2>4. ASSUME program = "hybrid"
        PROVE  decision'.promoted
                 <=> decision'.reasons = {"requires_real_semantic_provider_validation"}
    <3> DEFINE at == Recommended(Last(reports).rows, Minimum)
               promoted == ChangeRecommended(reports[1], Last(reports), at)
               reasons == DecisionReasons(reports[1], Last(reports), at)
    <3>1. EndHybrid
      BY <1>3, <2>4 DEF Decide
    <3>2. Sweepable(Last(reports).rows) /\ decision' = Analysis(promoted, reasons)
      BY <3>1 DEF EndHybrid, End, Raise
    <3>3. Keyable(at)
      BY <2>1, <2>2, <3>2, RecommendedExists DEF CorpusInv
    <3> HIDE DEF at
    <3>4. promoted <=> reasons = {"requires_real_semantic_provider_validation"}
      BY <3>3, DecisionsAgree
    <3>5. decision'.promoted = promoted /\ decision'.reasons = reasons
      BY <3>2 DEF Analysis
    <3> HIDE DEF promoted, reasons
    <3> QED
      BY <3>4, <3>5
  <2> QED
    BY <1>1, <2>1, <2>3, <2>4
<1> QED
  BY <1>2, <1>3

LEMMA ReportInit ==
  ASSUME Init
  PROVE  ReportInv
<1> USE DEF Init, RunInit
<1>1. CorpusInv
  BY DEF CorpusInv
<1>2. Len(questions) \in Nat
  <2>1. questions \in Seq(Range(questions))
    BY QuestionsAssumption
  <2> QED
    BY <2>1
<1>3. RowsOfSearchInv
  <2>1. \E asked \in 0..Len(questions) : rows = [n \in 1..asked |-> RowOfSearch(n)]
    <3>1. 0 \in 0..Len(questions)
      BY <1>2
    <3>2. <<>> = [n \in 1..0 |-> RowOfSearch(n)]
      OBVIOUS
    <3> QED
      BY <3>1, <3>2
  <2>2. DOMAIN rows = {}
    OBVIOUS
  <2>3. /\ NoCounts \in [DOMAIN CounterFailure -> [of : Nat, total : Nat]]
        /\ \A k \in DOMAIN CounterFailure :
             NoCounts[k].total - NoCounts[k].of = Cardinality(Failing(<<>>, CounterFailure[k]))
    <3>1. "top5" \in DOMAIN CounterFailure
      BY DEF CounterFailure
    <3> QED
      BY <3>1, NothingCounted
  <2> QED
    BY <2>1, <2>2, <2>3 DEF RowsOfSearchInv
<1>4. ReportIsTrue /\ decision.status # "analysed"
  BY DEF ReportIsTrue, Undecided
<1>5. reports = <<>> /\ reports \in Seq(Range(reports))
  OBVIOUS
<1> QED
  BY <1>1, <1>3, <1>4, <1>5 DEF ReportInv

LEMMA ReportStep ==
  ASSUME IInv, ReportInv, [Next]_vars
  PROVE  ReportInv'
<1>1. CASE Next
  <2>1. StepsInv /\ LoadedInv /\ StoredInv
    BY DEF IInv
  <2>2. program' = program
    BY <1>1, GivenKept
  <2>3. program # "llm" => CorpusInv' /\ RowsOfSearchInv'
    BY <1>1, <2>1, CorpusKept, RowsOfSearchKept DEF ReportInv
  <2>4. /\ reports' \in Seq(Range(reports'))
        /\ \A n \in DOMAIN reports' : RecountAgrees(reports'[n])
        /\ pc' = "decide" => reports' # <<>> /\ Last(reports').rows = rows'
    BY <1>1, <2>1, ReportsKept
  <2>5. decision'.status = "analysed" =>
          /\ program # "llm"
          /\ SweepReplays(Last(reports).rows)' /\ UNCHANGED reports
          /\ program = "hybrid" =>
               (decision'.promoted
                  <=> decision'.reasons = {"requires_real_semantic_provider_validation"})
    BY <1>1, <2>1, DecisionIsTrue
  <2>6. program = "llm" => reports' = <<>>
    <3> SUFFICES ASSUME program = "llm" PROVE reports' = <<>>
      OBVIOUS
    <3>1. reports = <<>> /\ ~BuildReport
      BY DEF ReportInv, BuildReport
    <3> QED
      BY <1>1, <2>1, <3>1, ReportsStay
  <2>7. ReportIsTrue'
    BY <2>2, <2>4, <2>5 DEF ReportIsTrue
  <2> QED
    BY <2>2, <2>3, <2>4, <2>5, <2>6, <2>7 DEF ReportInv
<1>2. CASE UNCHANGED vars
  <2>1. UNCHANGED <<program, questions, queries, pc, round, ingested, stored, indexed, rows,
                    counters, reports, decision>>
    BY <1>2 DEF vars, runVars, inputs, contents, results, conclusions
  <2>2. \A swept : SweepReplays(swept)' <=> SweepReplays(swept)
    BY <2>1 DEF SweepReplays, Search, Strategy, Strategies, Minimum
  <2>3. ReportIsTrue'
    BY <2>1, <2>2 DEF ReportInv, ReportIsTrue
  <2>4. CorpusInv => CorpusInv'
    BY <2>1 DEF CorpusInv, NextDocument
  <2>5. RowsOfSearchInv => RowsOfSearchInv'
    <3>1. \A n : RowOfSearch(n)' = RowOfSearch(n)
      BY <2>1 DEF RowOfSearch, Search, Strategy, Strategies, Minimum
    <3> QED
      BY <2>1, <3>1 DEF RowsOfSearchInv
  <2> QED
    BY <2>1, <2>3, <2>4, <2>5 DEF ReportInv
<1> QED
  BY <1>1, <1>2

\* The corpus is stored as it was ingested, and the rows of a round are what
\* searches of all of it make of the questions so far: see LLMComparison.
THEOREM ReportInvariance == Spec => []ReportInv
BY ReportInit, ReportStep, Invariance, PTL DEF Spec

\* The counters, categories and gates of every report are the recount of its
\* question results, the threshold sweep finds what searches with its thresholds
\* would find, and a change of production is recommended exactly if no reason is
\* given against it: see EvaluationRun.
THEOREM ReportsTrue == Spec => []ReportIsTrue
<1>1. ReportInv => ReportIsTrue
  BY DEF ReportInv
<1> QED
  BY <1>1, ReportInvariance, PTL

=============================================================================
