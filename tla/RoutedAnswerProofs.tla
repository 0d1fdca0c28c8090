------------------------ MODULE RoutedAnswerProofs ------------------------
(***************************************************************************)
(* That a request of RoutedAnswer ends with a valid, grounded result, for  *)
(* every question, top_k, threshold and set of chunks, and that what the   *)
(* report of R6RoutingEvaluation counts apart agrees, for every dataset.   *)
(*                                                                         *)
(* The merge of the two rounds is a loop over the second; that it drops    *)
(* every chunk it has seen is shown by induction over that loop.  A row of *)
(* the confusion matrix is summed by a fold over the labels.               *)
(***************************************************************************)
EXTENDS R6RoutingEvaluation, SetFolds, SequenceTheorems, TLAPS

(***************************************************************************)
(* The two rounds                                                          *)
(***************************************************************************)
\* _merge_rounds: no chunk of the second round is taken twice.
LEMMA MergedDistinct ==
  ASSUME NEW one \in Seq(Results), NEW two \in Seq(Results), Distinct(one)
  PROVE  MergeRounds(one, two) \in Seq(Results) /\ Distinct(MergeRounds(one, two))
<1> DEFINE Seen(m, n) == n > Len(two) \/ two[n].chunk \in ChunksOf(m)
           Loop(m) == [n \in Nat |-> IF n = 0 THEN one
                                     ELSE IF Seen(m[n - 1], n) THEN m[n - 1]
                                     ELSE Append(m[n - 1], two[n])]
           step == [x \in Seq(Results) \X Nat |->
                      IF x[2] = 0 \/ Seen(x[1], x[2]) THEN x[1] ELSE Append(x[1], two[x[2]])]
           merged == CHOOSE m : m = Loop(m)
<1>1. step \in [Seq(Results) \X Nat -> Seq(Results)]
  <2> SUFFICES ASSUME NEW x \in Seq(Results) \X Nat, x[2] # 0, ~Seen(x[1], x[2])
               PROVE  Append(x[1], two[x[2]]) \in Seq(Results)
    OBVIOUS
  <2>1. two[x[2]] \in Results
    OBVIOUS
  <2> QED
    BY <2>1
<1>2. \E m : m = Loop(m)
  <2>1. PICK f \in [Nat -> Seq(Results)] : Recurs(f, one, step)
    <3> DEFINE A == Seq(Results)
    <3>1. one \in A /\ step \in [A \X Nat -> A]
      BY <1>1
    <3> HIDE DEF step, A
    <3>2. \E f \in [Nat -> A] : Recurs(f, one, step)
      BY <3>1, FunctionExists
    <3> QED
      BY <3>2 DEF A
  <2>2. ASSUME NEW n \in Nat, n # 0
        PROVE  f[n] = IF Seen(f[n - 1], n) THEN f[n - 1] ELSE Append(f[n - 1], two[n])
    <3>1. <<f[n - 1], n>> \in Seq(Results) \X Nat
      <4>1. n - 1 \in Nat
        BY <2>2
      <4> QED
        BY <2>1, <4>1
    <3> HIDE DEF Seen
    <3>2. step[<<f[n - 1], n>>]
            = IF Seen(f[n - 1], n) THEN f[n - 1] ELSE Append(f[n - 1], two[n])
      BY <3>1, <2>2
    <3> HIDE DEF step
    <3> QED
      BY <3>2, <2>1, <2>2 DEF Recurs
  <2> HIDE DEF Seen
  <2>3. f[0] = one
    BY <2>1 DEF Recurs
  <2>4. f = Loop(f)
    BY <2>1, <2>2, <2>3
  <2> QED
    BY <2>4
<1>3. merged = Loop(merged)
  BY <1>2
<1>4. MergeRounds(one, two) = merged[Len(two)]
  BY DEF MergeRounds
<1> HIDE DEF merged
<1> DEFINE Good == {n \in Nat : merged[n] \in Seq(Results) /\ Distinct(merged[n])}
<1>5. 0 \in Good
  BY <1>3
<1>6. ASSUME NEW n \in Nat, n \in Good PROVE n + 1 \in Good
  <2> DEFINE m == merged[n]
  <2>1. m \in Seq(Results) /\ Distinct(m)
    BY <1>6
  <2>2. merged[n + 1] = IF Seen(m, n + 1) THEN m ELSE Append(m, two[n + 1])
    <3> HIDE DEF Seen
    <3>1. n + 1 \in Nat /\ n + 1 # 0 /\ (n + 1) - 1 = n
      OBVIOUS
    <3> QED
      BY <1>3, <3>1
  <2> HIDE DEF m
  <2>3. ASSUME Seen(m, n + 1)
        PROVE  merged[n + 1] \in Seq(Results) /\ Distinct(merged[n + 1])
    BY <2>1, <2>2, <2>3
  <2>4. ASSUME ~Seen(m, n + 1)
        PROVE  merged[n + 1] \in Seq(Results) /\ Distinct(merged[n + 1])
    <3>1. two[n + 1] \in Results /\ \A i \in DOMAIN m : m[i].chunk # two[n + 1].chunk
      BY <2>4 DEF ChunksOf
    <3>2. Append(m, two[n + 1]) \in Seq(Results) /\ Distinct(Append(m, two[n + 1]))
      BY <3>1, <2>1 DEF Distinct
    <3> QED
      BY <3>2, <2>2, <2>4
  <2>5. merged[n + 1] \in Seq(Results) /\ Distinct(merged[n + 1])
    BY <2>3, <2>4
  <2> QED
    BY <2>5
<1> HIDE DEF Good
<1>7. Nat \subseteq Good
  BY <1>5, <1>6, NatInductive
<1> QED
  BY <1>7, <1>4 DEF Good

\* What a search returns is a sequence of results with distinct chunks.
LEMMA FoundDistinct ==
  ASSUME TypeOK, NEW found \in Found
  PROVE  found \in Seq(Results) /\ Distinct(found)
<1>1. PICK m \in 0..topK : found \in [1..m -> Results]
  BY DEF Found, SeqOf
<1>2. m \in Nat
  BY TopKsAssumption DEF TypeOK
<1>3. found \in Seq(Results) /\ DOMAIN found = 1..m
  BY <1>1, <1>2
<1>4. Distinct(found)
  BY <1>2, <1>3 DEF Found, OrderedUnique, Distinct
<1> QED
  BY <1>3, <1>4

(***************************************************************************)
(* The rules                                                               *)
(***************************************************************************)
LEMMA RulesInOrder ==
  /\ DOMAIN Rules = 1..7
  /\ \A i \in 1..4 : Rules[i] \in Range(RefusalRules)
  /\ \A i \in 5..7 : Rules[i] \in DirectReasons
  /\ \A r \in Range(RefusalRules) : \E i \in 1..4 : Rules[i] = r
  /\ \A r \in DirectReasons : \E i \in 5..7 : Rules[i] = r
<1> DEFINE helps == <<"greeting", "capability_help", "usage_help">>
           Names == {"secret_request", "scope_bypass", "evidence_bypass", "unsupported_action",
                     "greeting", "capability_help", "usage_help"}
<1>1. RefusalRules \in Seq(Names) /\ Len(RefusalRules) = 4
  BY DEF RefusalRules
<1>2. /\ helps \in Seq(Names) /\ Len(helps) = 3
      /\ helps[1] = "greeting" /\ helps[2] = "capability_help" /\ helps[3] = "usage_help"
  OBVIOUS
<1>3. Rules = RefusalRules \o helps
  BY DEF Rules
<1> HIDE DEF helps, Names
<1>4. /\ Rules \in Seq(Names) /\ Len(Rules) = 7
      /\ \A i \in 1..7 : Rules[i] = IF i <= 4 THEN RefusalRules[i] ELSE helps[i - 4]
  <2> DEFINE both == RefusalRules \o helps
  <2>1. /\ both \in Seq(Names)
        /\ Len(both) = Len(RefusalRules) + Len(helps)
        /\ \A i \in 1..(Len(RefusalRules) + Len(helps)) :
             both[i] = IF i <= Len(RefusalRules) THEN RefusalRules[i]
                       ELSE helps[i - Len(RefusalRules)]
    BY <1>1, <1>2, ConcatProperties, Zenon
  <2> HIDE DEF both
  <2>2. /\ Len(both) = 7
        /\ \A i \in 1..7 : both[i] = IF i <= 4 THEN RefusalRules[i] ELSE helps[i - 4]
    BY <2>1, <1>1, <1>2
  <2> QED
    BY <2>1, <2>2, <1>3 DEF both
<1>5. /\ DOMAIN Rules = 1..7
      /\ \A i \in 1..4 : Rules[i] = RefusalRules[i]
      /\ \A i \in 5..7 : Rules[i] = helps[i - 4]
  BY <1>4
<1>6. DOMAIN RefusalRules = 1..4
  BY <1>1
<1>7. Rules[5] = "greeting" /\ Rules[6] = "capability_help" /\ Rules[7] = "usage_help"
  BY <1>5, <1>2
<1>8. \A i \in 5..7 : i = 5 \/ i = 6 \/ i = 7
  OBVIOUS
<1> QED
  BY <1>5, <1>6, <1>7, <1>8 DEF DirectReasons, Range

LEMMA FirstMatch ==
  ASSUME NEW S, S \subseteq Nat, S # {}
  PROVE  Min(S) \in S /\ \A i \in S : Min(S) <= i
<1>1. PICK x \in S : \A y \in S : ~ (<<y, x>> \in OpToRel(<, Nat))
  BY WFMin, NatLessThanWellFounded
<1>2. \A y \in S : ~(y < x)
  BY <1>1 DEF OpToRel
<1>3. \A y \in S : x <= y
  BY <1>2
<1> QED
  BY <1>3 DEF Min

\* A question is refused if any refusal rule matches it, and only what no rule
\* matches is searched for.
LEMMA RouteFollowsRules ==
  ASSUME NEW q \in Questions
  PROVE  /\ RouteOf(q) \in Reasons
         /\ Route(RouteOf(q)) \in {"direct_answer", "refuse", "retrieve"}
         /\ q.matches \intersect Range(RefusalRules) # {} => Route(RouteOf(q)) = "refuse"
         /\ q.matches # {} => Route(RouteOf(q)) # "retrieve"
<1> DEFINE matching == {i \in DOMAIN Rules : Rules[i] \in q.matches}
<1>1. Range(RefusalRules) \intersect DirectReasons = {}
  BY DEF Range, RefusalRules, DirectReasons
<1>2. q.matches \subseteq Range(RefusalRules) \union DirectReasons
  BY DEF Questions, DirectReasons
<1>3. "retrieve_default" \notin Range(RefusalRules) \union DirectReasons
  BY DEF Range, RefusalRules, DirectReasons
<1>4. CASE matching = {}
  <2>1. RouteOf(q) = "retrieve_default"
    BY <1>4 DEF RouteOf
  <2>2. q.matches = {}
    BY <1>2, <1>4, RulesInOrder
  <2> QED
    BY <2>1, <2>2, <1>3 DEF Reasons, Route
<1>5. CASE matching # {}
  <2> DEFINE i == Min(matching)
  <2>1. RouteOf(q) = Rules[i]
    BY <1>5 DEF RouteOf
  <2>2. i \in matching /\ \A j \in matching : i <= j
    <3>1. matching \subseteq Nat
      BY RulesInOrder
    <3> HIDE DEF matching
    <3> QED
      BY <3>1, <1>5, FirstMatch
  <2> HIDE DEF i
  <2>3. CASE i \in 1..4
    <3>1. RouteOf(q) \in Range(RefusalRules)
      BY <2>1, <2>3, RulesInOrder
    <3> QED
      BY <3>1, <1>1 DEF Reasons, Route
  <2>4. CASE i \in 5..7
    <3>1. RouteOf(q) \in DirectReasons
      BY <2>1, <2>4, RulesInOrder
    <3>2. q.matches \intersect Range(RefusalRules) = {}
      <4> SUFFICES ASSUME NEW r \in Range(RefusalRules), r \in q.matches PROVE FALSE
        OBVIOUS
      <4>1. PICK j \in 1..4 : Rules[j] = r
        BY RulesInOrder
      <4>2. j \in matching
        BY <4>1, RulesInOrder
      <4> QED
        BY <4>2, <2>2, <2>4
    <3> QED
      BY <3>1, <3>2 DEF Reasons, Route
  <2> QED
    BY <2>2, <2>3, <2>4, RulesInOrder
<1> QED
  BY <1>4, <1>5

(***************************************************************************)
(* The invariant                                                           *)
(***************************************************************************)
LEMMA InitInvariant == Init => IInv
<1> SUFFICES ASSUME Init PROVE IInv
  OBVIOUS
<1>1. TypeOK
  BY DEF Init, TypeOK
<1>2. StepInv /\ RoutingInv /\ ReturnedInv
  BY DEF Init, StepInv, RoutingInv, ReturnedInv, Searching, Untouched
<1>3. EvidenceInv
  BY DEF Init, EvidenceInv, Distinct
<1> QED
  BY <1>1, <1>2, <1>3 DEF IInv

\* A sequence of results is a list of citations, and of one that is built with a
\* count of at least its length.
LEMMA ReturnedResult ==
  ASSUME NEW citations \in Seq(Results), NEW count \in Nat, NEW attempts \in 0..2,
         NEW rewritten, rewritten \in BOOLEAN, NEW stop \in Stops,
         Return(citations, count, attempts, rewritten, stop),
         Route(reason') \in {"direct_answer", "refuse", "retrieve"}
  PROVE  /\ result' \in RoutedAnswerResult
         /\ result' # NoResult
         /\ pc' = "returned"
         /\ result'.citations = citations /\ result'.count = count
         /\ result'.route = Route(reason') /\ result'.attempts = attempts
         /\ result'.rewritten = rewritten /\ result'.stop = stop
<1>1. "none" \notin Stops
  BY DEF Stops
<1> QED
  BY <1>1 DEF Return, RoutedAnswerResult, NoResult

LEMMA RaiseStep ==
  ASSUME IInv, Raise, UNCHANGED request, pc \in Searching \/ (pc = "route" /\ question.blank)
  PROVE  IInv'
<1>1. TypeOK'
  BY DEF IInv, TypeOK, Raise, request
<1>2. StepInv'
  BY DEF IInv, StepInv, Raise, request, Searching, Untouched
<1>3. RoutingInv'
  BY DEF IInv, RoutingInv, Raise, request, Searching, Untouched
<1>4. EvidenceInv'
  BY DEF IInv, StepInv, EvidenceInv, Raise, request, Searching, Untouched, Distinct, ShouldRetry,
         Insufficient, Relevant, Required
<1>5. ReturnedInv'
  BY DEF ReturnedInv, Raise
<1> QED
  BY <1>1, <1>2, <1>3, <1>4, <1>5 DEF IInv

LEMMA RouteStep == IInv /\ RouteQuestion => IInv'
<1> SUFFICES ASSUME IInv, RouteQuestion PROVE IInv'
  OBVIOUS
<1>1. CASE question.blank /\ Raise
  BY <1>1, RaiseStep DEF RouteQuestion
<1> SUFFICES ASSUME ~question.blank, reason' = RouteOf(question),
                    UNCHANGED <<first, evidence, calls, asked>>
             PROVE  IInv'
  BY <1>1 DEF RouteQuestion
<1>2. /\ UNCHANGED request /\ UNCHANGED <<question, topK, filtered, scoped, available>>
      /\ pc = "route" /\ Untouched
      /\ result = NoResult /\ question \in Questions /\ first \in Seq(Results)
  BY DEF RouteQuestion, IInv, TypeOK, StepInv, request
<1>3. /\ reason' \in Reasons
      /\ Route(reason') \in {"direct_answer", "refuse", "retrieve"}
  BY <1>2, RouteFollowsRules
<1>4. <<>> \in Seq(Results) /\ Len(<<>>) = 0
  OBVIOUS
<1>5. CASE pc' \in {"first", "raised"} /\ result' = result /\ Route(reason') = "retrieve"
  <2>1. TypeOK'
    BY <1>2, <1>3, <1>5 DEF IInv, TypeOK
  <2>2. StepInv'
    BY <1>2, <1>3, <1>5 DEF StepInv, Searching, Untouched
  <2>3. RoutingInv'
    BY <1>2, <1>3, <1>5 DEF RoutingInv, Searching, Untouched
  <2>4. EvidenceInv'
    BY <1>2, <1>5 DEF IInv, EvidenceInv, Distinct, Untouched
  <2>5. ReturnedInv'
    BY <1>5 DEF ReturnedInv
  <2> QED
    BY <2>1, <2>2, <2>3, <2>4, <2>5 DEF IInv
<1>6. ASSUME NEW stop \in {"direct_answer", "router_refusal", "no_document_scope"},
             Return(<<>>, 0, 0, FALSE, stop),
             Route(reason') = "refuse" => stop = "router_refusal",
             Route(reason') = "direct_answer" => stop = "direct_answer"
      PROVE  IInv'
  <2>1. /\ result' \in RoutedAnswerResult /\ result' # NoResult /\ pc' = "returned"
        /\ result'.citations = <<>> /\ result'.count = 0 /\ result'.attempts = 0
        /\ ~result'.rewritten /\ result'.stop = stop
    <3>1. stop \in Stops /\ 0 \in 0..2 /\ 0 \in Nat /\ FALSE \in BOOLEAN
      BY DEF Stops
    <3> DEFINE empty == <<>>
               no == FALSE
    <3>2. empty \in Seq(Results) /\ Return(empty, 0, 0, no, stop) /\ no \in BOOLEAN
      BY <1>4, <1>6
    <3> HIDE DEF empty, no
    <3>3. /\ result' \in RoutedAnswerResult /\ result' # NoResult /\ pc' = "returned"
          /\ result'.citations = empty /\ result'.count = 0 /\ result'.attempts = 0
          /\ result'.rewritten = no /\ result'.stop = stop
      BY <1>3, <3>1, <3>2, ReturnedResult
    <3> QED
      BY <3>3 DEF empty, no
  <2>2. TypeOK'
    BY <1>2, <1>3, <2>1 DEF IInv, TypeOK
  <2>3. StepInv'
    BY <1>2, <2>1 DEF StepInv, Searching, Untouched
  <2>4. RoutingInv'
    BY <1>2, <1>3, <1>6, <2>1 DEF RoutingInv, Searching, Untouched
  <2>5. EvidenceInv'
    BY <1>2, <2>1 DEF IInv, EvidenceInv, Distinct, Untouched
  <2>6. ReturnedInv'
    BY <1>2, <1>4, <1>6, <2>1 DEF ReturnedInv, Untouched
  <2> QED
    BY <2>2, <2>3, <2>4, <2>5, <2>6 DEF IInv
<1> QED
  BY <1>3, <1>5, <1>6 DEF RouteQuestion

LEMMA FirstStep == IInv /\ SearchFirst => IInv'
<1> SUFFICES ASSUME IInv, SearchFirst PROVE IInv'
  OBVIOUS
<1>1. CASE Raise
  BY <1>1, RaiseStep DEF SearchFirst, FirstSearch, Searching
<1>2. ASSUME NEW found \in Found, first' = found, calls' = calls + 1, pc' = "assess",
             UNCHANGED <<reason, evidence, asked, result>>
      PROVE  IInv'
  <2>1. found \in Seq(Results) /\ Distinct(found)
    BY FoundDistinct DEF IInv
  <2>2. /\ pc = "first" /\ UNCHANGED <<question, topK, filtered, scoped, available>>
        /\ calls = 0 /\ asked = 0 /\ reason = RouteOf(question) /\ result = NoResult
    BY DEF SearchFirst, FirstSearch, IInv, StepInv, Untouched, Searching, request
  <2>3. TypeOK'
    BY <1>2, <2>1, <2>2 DEF IInv, TypeOK
  <2>4. StepInv'
    BY <1>2, <2>2 DEF StepInv, Searching, Untouched
  <2>5. RoutingInv'
    BY <1>2, <2>2 DEF IInv, RoutingInv, Searching, Untouched
  <2>6. EvidenceInv'
    BY <1>2, <2>1, <2>2 DEF IInv, EvidenceInv, Distinct
  <2>7. ReturnedInv'
    BY <1>2 DEF ReturnedInv
  <2> QED
    BY <2>3, <2>4, <2>5, <2>6, <2>7 DEF IInv
<1> QED
  BY <1>1, <1>2 DEF SearchFirst, FirstSearch

\* The result of a request that ends without asking the LLM after a search.
LEMMA NoEvidenceStep ==
  ASSUME IInv, pc \in {"assess", "second"}, UNCHANGED <<request, reason, first, evidence, asked>>,
         NEW count \in Nat, NEW rewritten, rewritten \in BOOLEAN,
         NEW stop \in {"no_safe_rewrite", "retry_exhausted"},
         calls' \in {1, 2}, rewritten => calls' = 2,
         calls' = 2 => ShouldRetry(first), calls' = 1 => ~HasRewrite(question),
         Return(<<>>, count, calls', rewritten, stop)
  PROVE  IInv'
<1>1. /\ UNCHANGED <<question, topK, filtered, scoped, available>>
      /\ asked = 0 /\ reason = RouteOf(question)
      /\ Route(RouteOf(question)) = "retrieve"
  BY DEF IInv, StepInv, RoutingInv, Searching, request
<1>2. /\ result' \in RoutedAnswerResult /\ result' # NoResult /\ pc' = "returned"
      /\ result'.citations = <<>> /\ result'.count = count /\ result'.attempts = calls'
      /\ result'.rewritten = rewritten /\ result'.stop = stop /\ result'.route = "retrieve"
  <2> DEFINE empty == <<>>
             made == calls'
  <2>1. empty \in Seq(Results) /\ Return(empty, count, made, rewritten, stop)
    OBVIOUS
  <2>2. stop \in Stops /\ made \in 0..2 /\ Route(reason') = "retrieve"
    BY <1>1 DEF Stops
  <2> HIDE DEF empty, made
  <2>3. /\ result' \in RoutedAnswerResult /\ result' # NoResult /\ pc' = "returned"
        /\ result'.citations = empty /\ result'.count = count /\ result'.attempts = made
        /\ result'.rewritten = rewritten /\ result'.stop = stop /\ result'.route = "retrieve"
    BY <2>1, <2>2, ReturnedResult
  <2> QED
    BY <2>3 DEF empty, made
<1>3. ShouldRetry(first)' = ShouldRetry(first) /\ HasRewrite(question)' = HasRewrite(question)
  BY <1>1 DEF ShouldRetry, Insufficient, Relevant, Required
<1>4. TypeOK'
  BY <1>1, <1>2 DEF IInv, TypeOK
<1>5. StepInv'
  BY <1>1, <1>2 DEF StepInv, Searching
<1>6. RoutingInv'
  BY <1>1, <1>2 DEF RoutingInv, Searching
<1>7. EvidenceInv'
  BY <1>1, <1>2 DEF IInv, EvidenceInv, Distinct
<1>8. ReturnedInv'
  <2>1. Len(result'.citations) <= result'.count
    BY <1>2
  <2> QED
    BY <1>1, <1>2, <1>3, <2>1 DEF ReturnedInv
<1> QED
  BY <1>4, <1>5, <1>6, <1>7, <1>8 DEF IInv

\* The step to the generation, from the evidence of one round or of two.
LEMMA ToGenerate ==
  ASSUME IInv, pc \in {"assess", "second"}, UNCHANGED <<request, reason, first, asked, result>>,
         evidence' \in Seq(Results), Distinct(evidence'), pc' = "generate",
         calls' \in {1, 2}, ~ShouldRetry(evidence'),
         calls' = 1 => evidence' = first, calls' = 2 => ShouldRetry(first)
  PROVE  IInv'
<1>1. /\ UNCHANGED <<question, topK, filtered, scoped, available>>
      /\ asked = 0 /\ reason = RouteOf(question) /\ result = NoResult
      /\ Route(RouteOf(question)) = "retrieve"
  BY DEF IInv, StepInv, RoutingInv, Searching, request
<1>2. TypeOK'
  BY <1>1 DEF IInv, TypeOK
<1>3. StepInv'
  BY <1>1 DEF StepInv, Searching
<1>4. RoutingInv'
  BY <1>1 DEF RoutingInv, Searching
<1>5. EvidenceInv'
  BY <1>1 DEF IInv, EvidenceInv, Distinct, ShouldRetry, Insufficient, Relevant, Required
<1>6. ReturnedInv'
  BY DEF ReturnedInv
<1> QED
  BY <1>2, <1>3, <1>4, <1>5, <1>6 DEF IInv

LEMMA AssessStep == IInv /\ AssessFirst => IInv'
<1> SUFFICES ASSUME IInv, AssessFirst PROVE IInv'
  OBVIOUS
<1>1. /\ pc = "assess" /\ UNCHANGED <<request, reason, first, calls, asked>>
      /\ UNCHANGED <<question, topK, filtered, scoped, available>>
      /\ calls = 1 /\ asked = 0 /\ reason = RouteOf(question) /\ result = NoResult
      /\ first \in Seq(Results) /\ Distinct(first)
  BY DEF AssessFirst, IInv, TypeOK, StepInv, EvidenceInv, Searching, request
<1>2. CASE ~ShouldRetry(first) /\ evidence' = first /\ pc' = "generate" /\ result' = result
  BY <1>1, <1>2, ToGenerate
<1>3. CASE /\ ShouldRetry(first) /\ HasRewrite(question) /\ pc' = "second"
           /\ UNCHANGED <<evidence, result>>
  <2>1. ShouldRetry(first)' /\ HasRewrite(question)'
    BY <1>1, <1>3 DEF ShouldRetry, Insufficient, Relevant, Required
  <2>2. TypeOK'
    BY <1>1, <1>3 DEF IInv, TypeOK
  <2>3. StepInv'
    BY <1>1, <1>3, <2>1 DEF IInv, StepInv, Searching
  <2>4. RoutingInv'
    BY <1>1, <1>3 DEF IInv, RoutingInv, Searching
  <2>5. EvidenceInv'
    BY <1>1, <1>3 DEF IInv, EvidenceInv, Distinct
  <2>6. ReturnedInv'
    BY <1>3 DEF ReturnedInv
  <2> QED
    BY <2>2, <2>3, <2>4, <2>5, <2>6 DEF IInv
<1>4. CASE /\ ShouldRetry(first) /\ ~HasRewrite(question) /\ UNCHANGED <<reason, evidence>>
           /\ Return(<<>>, Len(first), 1, FALSE, "no_safe_rewrite")
  <2> DEFINE count == Len(first)
             no == FALSE
  <2>1. count \in Nat /\ no \in BOOLEAN /\ ~no /\ calls' = 1
        /\ Return(<<>>, count, calls', no, "no_safe_rewrite")
    <3>1. count \in Nat /\ no \in BOOLEAN /\ ~no
      BY <1>1
    <3>2. calls' = 1
      BY <1>1
    <3> QED
      BY <1>4, <3>1, <3>2 DEF Return
  <2> HIDE DEF count, no
  <2> QED
    BY <1>1, <1>4, <2>1, NoEvidenceStep
<1> QED
  BY <1>2, <1>3, <1>4 DEF AssessFirst

LEMMA SecondStep == IInv /\ SearchSecond => IInv'
<1> SUFFICES ASSUME IInv, SearchSecond PROVE IInv'
  OBVIOUS
<1>1. /\ pc = "second" /\ UNCHANGED request
      /\ calls = 1 /\ asked = 0 /\ ShouldRetry(first) /\ result = NoResult
      /\ first \in Seq(Results) /\ Distinct(first)
  BY DEF SearchSecond, SecondSearch, IInv, TypeOK, StepInv, EvidenceInv
<1>2. CASE Raise
  BY <1>1, <1>2, RaiseStep DEF Searching
<1>3. ASSUME NEW found \in Found, calls' = calls + 1, UNCHANGED <<first, asked>>,
             \/ /\ ~ShouldRetry(MergeRounds(first, found))
                /\ evidence' = MergeRounds(first, found)
                /\ pc' = "generate"
                /\ UNCHANGED <<reason, result>>
             \/ /\ UNCHANGED <<reason, evidence>>
                /\ Return(<<>>, Len(MergeRounds(first, found)), 2, TRUE, "retry_exhausted")
      PROVE  IInv'
  <2> DEFINE merged == MergeRounds(first, found)
  <2>1. merged \in Seq(Results) /\ Distinct(merged)
    BY <1>1, FoundDistinct, MergedDistinct DEF IInv
  <2> HIDE DEF merged
  <2>2. CASE /\ ~ShouldRetry(merged) /\ evidence' = merged /\ pc' = "generate"
             /\ UNCHANGED <<reason, result>>
    BY <1>1, <1>3, <2>1, <2>2, ToGenerate
  <2>3. CASE /\ UNCHANGED <<reason, evidence>>
             /\ Return(<<>>, Len(merged), 2, TRUE, "retry_exhausted")
    <3> DEFINE count == Len(merged)
               yes == TRUE
    <3>1. count \in Nat /\ yes \in BOOLEAN /\ calls' = 2
          /\ Return(<<>>, count, calls', yes, "retry_exhausted")
      <4>1. count \in Nat /\ yes \in BOOLEAN
        BY <2>1
      <4>2. calls' = 2
        BY <1>1, <1>3
      <4> QED
        BY <2>3, <4>1, <4>2 DEF Return
    <3> HIDE DEF count, yes
    <3> QED
      BY <1>1, <1>3, <2>3, <3>1, NoEvidenceStep
  <2> QED
    BY <1>3, <2>2, <2>3 DEF merged
<1> QED
  BY <1>2, <1>3 DEF SearchSecond, SecondSearch

LEMMA GenerateStep == IInv /\ Generate => IInv'
<1> SUFFICES ASSUME IInv, Generate PROVE IInv'
  OBVIOUS
<1>1. /\ pc = "generate" /\ UNCHANGED <<question, topK, filtered, scoped, available>>
      /\ UNCHANGED request
      /\ calls \in {1, 2} /\ asked = 0 /\ reason = RouteOf(question)
      /\ Route(RouteOf(question)) = "retrieve"
      /\ evidence \in Seq(Results)
  BY DEF Generate, IInv, TypeOK, StepInv, RoutingInv, EvidenceInv, Searching, request
<1>2. CASE Raise
  BY <1>1, <1>2, RaiseStep DEF Searching
<1>3. ASSUME NEW citations \in {evidence, <<>>}, asked' = asked + 1,
             UNCHANGED <<reason, first, evidence, calls>>,
             Return(citations, Len(evidence), calls, calls = 2,
                    CASE citations = <<>> -> "generator_refusal"
                      [] citations # <<>> /\ calls = 1 -> "sufficient_evidence_first_pass"
                      [] OTHER -> "retry_succeeded")
      PROVE  IInv'
  <2> DEFINE count == Len(evidence)
             rewritten == (calls = 2)
             stop == CASE citations = <<>> -> "generator_refusal"
                       [] citations # <<>> /\ calls = 1 -> "sufficient_evidence_first_pass"
                       [] OTHER -> "retry_succeeded"
  <2>1. /\ citations \in Seq(Results) /\ Len(citations) <= count /\ count \in Nat
        /\ rewritten \in BOOLEAN /\ (rewritten => calls = 2) /\ stop \in Stops
        /\ calls \in 0..2
        /\ citations # <<>> => citations = evidence
        /\ citations # <<>> <=> stop \in {"sufficient_evidence_first_pass", "retry_succeeded"}
    <3>1. citations \in Seq(Results) /\ Len(citations) <= count /\ count \in Nat
      <4>1. count \in Nat
        BY <1>1
      <4>2. CASE citations = evidence
        BY <1>1, <4>1, <4>2
      <4>3. CASE citations = <<>>
        <5>1. Len(citations) = 0 /\ citations \in Seq(Results)
          BY <4>3
        <5> QED
          BY <4>1, <5>1
      <4> QED
        BY <4>1, <4>2, <4>3
    <3>2. rewritten \in BOOLEAN /\ (rewritten => calls = 2) /\ calls \in 0..2
      BY <1>1
    <3>3. stop \in Stops
      BY DEF Stops
    <3>4. citations # <<>> => citations = evidence
      OBVIOUS
    <3>5. citations # <<>> <=> stop \in {"sufficient_evidence_first_pass", "retry_succeeded"}
      OBVIOUS
    <3> HIDE DEF count, rewritten, stop
    <3> QED
      BY <3>1, <3>2, <3>3, <3>4, <3>5
  <2>2. Route(reason') = "retrieve" /\ Return(citations, count, calls, rewritten, stop)
    BY <1>1, <1>3
  <2> HIDE DEF count, rewritten, stop
  <2>3. /\ result' \in RoutedAnswerResult /\ result' # NoResult /\ pc' = "returned"
        /\ result'.citations = citations /\ result'.count = count /\ result'.attempts = calls
        /\ result'.rewritten = rewritten /\ result'.stop = stop /\ result'.route = "retrieve"
    BY <2>1, <2>2, ReturnedResult
  <2>4. /\ ~ShouldRetry(evidence)
        /\ calls = 1 => ~ShouldRetry(first)
        /\ calls = 2 => ShouldRetry(first)
    BY <1>1 DEF IInv, EvidenceInv
  <2>5. /\ ~ShouldRetry(evidence)'
        /\ calls = 1 => ~ShouldRetry(first)'
        /\ calls = 2 => ShouldRetry(first)'
    BY <1>1, <1>3, <2>4 DEF ShouldRetry, Insufficient, Relevant, Required
  <2>6. TypeOK'
    BY <1>1, <1>3, <2>3 DEF IInv, TypeOK
  <2>7. StepInv'
    BY <1>1, <2>3 DEF StepInv, Searching
  <2>8. RoutingInv'
    BY <1>1, <2>3 DEF RoutingInv, Searching
  <2>9. EvidenceInv'
    BY <1>1, <1>3, <2>3, <2>5 DEF IInv, EvidenceInv, Distinct
  <2>10. ReturnedInv'
    BY <1>1, <1>3, <2>1, <2>3, <2>5 DEF ReturnedInv
  <2> QED
    BY <2>6, <2>7, <2>8, <2>9, <2>10 DEF IInv
<1> QED
  BY <1>2, <1>3 DEF Generate, GeneratedCitations

\* Every request keeps what IInv says of its step, its route and its evidence.
THEOREM Invariance == Spec => []IInv
<1>1. IInv /\ [Next]_vars => IInv'
  <2> SUFFICES ASSUME IInv, [Next]_vars PROVE IInv'
    OBVIOUS
  <2>1. CASE UNCHANGED vars
    <3>1. /\ UNCHANGED <<question, topK, filtered, scoped, available>>
          /\ UNCHANGED <<pc, reason, first, evidence, calls, asked, result>>
      BY <2>1 DEF vars, request
    <3> QED
      BY <3>1 DEF IInv, TypeOK, StepInv, RoutingInv, EvidenceInv, ReturnedInv, Searching,
                  Untouched, Distinct, ShouldRetry, Insufficient, Relevant, Required
  <2>2. CASE Next
    BY <2>1, <2>2, RouteStep, FirstStep, AssessStep, SecondStep, GenerateStep DEF Next, Done
  <2> QED
    BY <2>1, <2>2
<1> QED
  BY InitInvariant, <1>1, PTL DEF Spec

(***************************************************************************)
(* The properties                                                          *)
(***************************************************************************)
\* Every result that _execute builds passes RoutedAnswerResult.__post_init__,
\* reports the searches that were made, and a second search was made exactly when
\* the first found too little and there was another query.
THEOREM ResultsValid == Spec => []ResultIsValid
<1>1. IInv => ResultIsValid
  <2> SUFFICES ASSUME IInv, pc = "returned"
               PROVE  /\ Len(result.citations) <= result.count
                      /\ result.attempts <= 2
                      /\ result.route # "retrieve" =>
                           result.count = 0 /\ result.attempts = 0 /\ ~result.rewritten
                      /\ result.rewritten => result.attempts = 2
                      /\ result.attempts = calls
                      /\ calls = 2 => ShouldRetry(first)
                      /\ calls = 1 /\ ShouldRetry(first) => ~HasRewrite(question)
    BY DEF ResultIsValid
  <2>1. calls \in 0..2
    BY DEF IInv, TypeOK
  <2> QED
    BY <2>1 DEF IInv, ReturnedInv, Untouched
<1> QED
  BY <1>1, Invariance, PTL

\* A question that a refusal rule matches ends refused, and one that any rule
\* matches ends without a search, without the LLM and whatever is configured.
THEOREM RulesComeFirst == Spec => []BoundaryFirst
<1>1. IInv => BoundaryFirst
  <2> SUFFICES ASSUME IInv, pc \in {"returned", "raised"}, ~question.blank
               PROVE  /\ question.matches \intersect Range(RefusalRules) # {}
                           => result # NoResult /\ result.stop = "router_refusal"
                      /\ question.matches # {} => pc = "returned" /\ calls = 0 /\ asked = 0
    BY DEF BoundaryFirst
  <2>1. question \in Questions
    BY DEF IInv, TypeOK
  <2>2. question.matches \intersect Range(RefusalRules) # {} => question.matches # {}
    OBVIOUS
  <2>3. ASSUME question.matches # {}
        PROVE  /\ pc = "returned" /\ Untouched /\ result # NoResult
               /\ Route(RouteOf(question)) = "refuse" => result.stop = "router_refusal"
    <3>1. Route(RouteOf(question)) # "retrieve"
      BY <2>1, <2>3, RouteFollowsRules
    <3> QED
      BY <3>1 DEF IInv, StepInv, RoutingInv
  <2> QED
    BY <2>1, <2>2, <2>3, RouteFollowsRules DEF Untouched
<1> QED
  BY <1>1, Invariance, PTL

LEMMA RelevantCounts ==
  ASSUME NEW results \in Seq(Results), NEW cut
  PROVE  Relevant(results, cut) \in Nat
<1> DEFINE S == {i \in DOMAIN results : cut => results[i].score >= Threshold}
<1>1. IsFiniteSet(1..Len(results))
  BY FS_Interval
<1>2. S \subseteq 1..Len(results)
  OBVIOUS
<1> HIDE DEF S
<1>3. IsFiniteSet(S)
  BY <1>1, <1>2, FS_Subset
<1>4. Cardinality(S) \in Nat
  BY <1>3, FS_CardinalityType
<1> QED
  BY <1>4 DEF S, Relevant

\* The LLM is asked at most once and with enough evidence, and what it answers
\* cites every chunk of that evidence once, whichever rounds found it.
THEOREM AnswersGrounded == Spec => []AnswersAreGrounded
<1>1. IInv => AnswersAreGrounded
  <2> SUFFICES ASSUME IInv PROVE AnswersAreGrounded
    OBVIOUS
  <2>1. asked \in 0..1 /\ evidence \in Seq(Results) /\ topK \in Nat
    BY TopKsAssumption DEF IInv, TypeOK
  <2>2. asked > 0 => Relevant(evidence, filtered) >= Required(topK)
    <3>1. Relevant(evidence, filtered) \in Nat
      BY <2>1, RelevantCounts
    <3>2. Required(topK) \in Nat
      BY <2>1 DEF Required
    <3>3. asked > 0 => ~(Relevant(evidence, filtered) < Required(topK))
      BY DEF IInv, EvidenceInv, ShouldRetry, Insufficient
    <3> QED
      BY <3>1, <3>2, <3>3
  <2>3. ASSUME pc = "returned"
        PROVE  /\ \A i, j \in DOMAIN result.citations :
                    result.citations[i].chunk = result.citations[j].chunk => i = j
               /\ result.citations # <<>> <=>
                    result.stop \in {"sufficient_evidence_first_pass", "retry_succeeded"}
               /\ result.citations # <<>> => asked = 1 /\ result.citations = evidence
    <3>1. result.citations = evidence \/ result.citations = <<>>
      BY <2>3 DEF IInv, ReturnedInv
    <3>2. Distinct(evidence) /\ Distinct(<<>>)
      BY DEF IInv, EvidenceInv, Distinct
    <3>3. Distinct(result.citations)
      BY <3>1, <3>2
    <3> QED
      BY <2>3, <3>3 DEF IInv, ReturnedInv, Distinct
  <2> QED
    BY <2>2, <2>3 DEF AnswersAreGrounded
<1> QED
  BY <1>1, Invariance, PTL

(***************************************************************************)
(* The evaluation                                                          *)
(***************************************************************************)
LEMMA RouteLabelled ==
  ASSUME NEW r
  PROVE  Route(r) \in Range(RouteLabels)
<1>1. /\ RouteLabels[1] = "retrieve" /\ RouteLabels[2] = "direct_answer"
      /\ RouteLabels[3] = "refuse" /\ DOMAIN RouteLabels = {1, 2, 3}
  BY DEF RouteLabels
<1>2. {"retrieve", "direct_answer", "refuse"} \subseteq Range(RouteLabels)
  BY <1>1, Zenon DEF Range
<1>3. Route(r) \in {"retrieve", "direct_answer", "refuse"}
  BY DEF Route
<1> QED
  BY <1>2, <1>3

\* What changes the predictions and where the evaluation is.
LEMMA EvaluationSteps ==
  ASSUME EvaluationNext, stage # "request"
  PROVE  /\ UNCHANGED <<samples, cases, legacy>> /\ stage' # "request"
         /\ UNCHANGED <<predicted, violations>> \/ RouteSample
         /\ stage' \in {"retry", "probe", "answer", "reported"} =>
              stage \in {"retry", "probe", "answer", "reported"} \/ RouteSample
<1> USE DEF dataset, scores, probing, evaluationVars
<1>1. CASE RouteSample
  BY <1>1 DEF RouteSample
<1>2. CASE LoadAssets \/ AssessCase \/ RecordProbe
  BY <1>2 DEF LoadAssets, AssessCase, RecordProbe
<1>3. CASE StartProbe \/ AnswerProbe
  BY <1>3 DEF StartProbe, AnswerProbe
<1>4. CASE BuildReport
  BY <1>4 DEF BuildReport
<1>5. CASE stage \in {"raised", "reported"} /\ UNCHANGED evaluationVars
  BY <1>5
<1> QED
  BY <1>1, <1>2, <1>3, <1>4, <1>5 DEF EvaluationNext

\* The facts answered without a search, counted as the router predicts.
LEMMA ScoresKept ==
  ASSUME ScoresInv, EvaluationNext, stage # "request"
  PROVE  ScoresInv'
<1>1. UNCHANGED <<samples, cases, legacy>>
  BY EvaluationSteps
<1>2. /\ samples \in Seq(Range(samples)) /\ predicted \in Seq(Range(RouteLabels))
      /\ Len(predicted) \in Nat /\ Len(samples) \in Nat /\ Len(predicted) <= Len(samples)
      /\ DOMAIN predicted = 1..Len(predicted)
  BY DEF ScoresInv
<1>3. CASE UNCHANGED <<predicted, violations>> /\ ~RouteSample
  <2>1. stage' \in {"retry", "probe", "answer", "reported"} => Len(predicted) = Len(samples)
    BY <1>3, EvaluationSteps DEF ScoresInv
  <2>2. samples' = samples /\ predicted' = predicted /\ violations' = violations
    BY <1>1, <1>3
  <2>3. \A n : RouteOfSample(n)' = RouteOfSample(n)
    BY <2>2 DEF RouteOfSample
  <2> QED
    BY <2>1, <2>2, <2>3 DEF ScoresInv
<1>4. CASE RouteSample
  <2>1. CASE UNCHANGED <<predicted, violations>>
    <3>1. stage' \in {"retry", "probe", "answer", "reported"} => Len(predicted) = Len(samples)
      BY <1>4 DEF RouteSample
    <3>2. samples' = samples /\ predicted' = predicted /\ violations' = violations
      BY <1>1, <2>1
    <3>3. \A n : RouteOfSample(n)' = RouteOfSample(n)
      BY <3>2 DEF RouteOfSample
    <3> QED
      BY <3>1, <3>2, <3>3 DEF ScoresInv
  <2>2. CASE ~UNCHANGED <<predicted, violations>>
    <3> DEFINE n == Len(predicted) + 1
               guess == RouteOfSample(n)
               wrong(p) == {k \in DOMAIN p : samples[k].route = "retrieve"
                                             /\ p[k] = "direct_answer"}
    <3>1. /\ stage = "route" /\ stage' = stage /\ Len(predicted) # Len(samples)
          /\ predicted' = Append(predicted, guess)
          /\ violations' = IF samples[n].route = "retrieve" /\ guess = "direct_answer"
                           THEN violations + 1 ELSE violations
      BY <1>4, <2>2 DEF RouteSample, RouteOfSample
    <3>2. guess \in Range(RouteLabels)
      BY RouteLabelled DEF RouteOfSample
    <3> HIDE DEF guess
    <3>3. /\ predicted' \in Seq(Range(RouteLabels)) /\ Len(predicted') = n
          /\ DOMAIN predicted' = (DOMAIN predicted) \union {n} /\ n \notin DOMAIN predicted
          /\ predicted'[n] = guess /\ \A k \in DOMAIN predicted : predicted'[k] = predicted[k]
      BY <1>2, <3>1, <3>2
    <3>4. \A k : RouteOfSample(k)' = RouteOfSample(k)
      BY <1>1 DEF RouteOfSample
    <3>5. \A k \in DOMAIN predicted' : predicted'[k] = RouteOfSample(k)'
      BY <3>3, <3>4 DEF ScoresInv, guess
    <3>6. violations = Cardinality(wrong(predicted)) /\ IsFiniteSet(wrong(predicted))
      <4>1. violations = Cardinality(wrong(predicted))
        BY DEF ScoresInv
      <4>2. IsFiniteSet(DOMAIN predicted)
        BY <1>2, FS_Interval
      <4>3. IsFiniteSet(wrong(predicted))
        BY <4>2, FS_Subset
      <4> QED
        BY <4>1, <4>3
    <3>7. /\ wrong(predicted) \subseteq wrong(predicted')
          /\ wrong(predicted') \subseteq wrong(predicted) \union {n}
          /\ n \in wrong(predicted') \ wrong(predicted)
               <=> samples[n].route = "retrieve" /\ guess = "direct_answer"
      BY <3>3
    <3>8. violations' = Cardinality(wrong(predicted'))
      <4> HIDE DEF wrong, n
      <4> QED
        BY <3>1, <3>6, <3>7, OneMore
    <3>9. n <= Len(samples)
      BY <1>2, <3>1
    <3> QED
      BY <1>1, <1>2, <3>1, <3>3, <3>5, <3>8, <3>9 DEF ScoresInv
  <2> QED
    BY <2>1, <2>2
<1> QED
  BY <1>3, <1>4, EvaluationSteps

\* A step of the service under a probe: it searches only if the route says so,
\* at most twice, and tells of every search.
LEMMA ServiceAnswers ==
  ASSUME ServiceInv, AnswerProbe
  PROVE  ServiceInv'
<1>1. /\ stage = "answer" /\ stage' = stage /\ pc' # "raised"
      /\ UNCHANGED <<samples, predicted, probed, question, scoped>>
  BY DEF AnswerProbe, dataset, scores, probing, RouteQuestion, FirstSearch, AssessFirst,
         SecondSearch, request
<1>2. RouteOfSample(probed) = Route(RouteOf(question)) /\ RouteOfSample(probed)' = RouteOfSample(probed)
  BY <1>1 DEF ServiceInv, RouteOfSample
<1>3. /\ probed' > 0 /\ samples'[probed'].route = "retrieve"
      /\ question' = samples'[probed'].question /\ scoped'
  BY <1>1 DEF ServiceInv
<1> DEFINE Going ==
      /\ pc' \in {"route", "first", "assess", "second", "generate", "returned"}
      /\ pc' \in {"route", "first"} => calls' = 0
      /\ pc' \in {"assess", "second"} => calls' = 1
      /\ pc' \in {"first", "assess", "second"} => RouteOfSample(probed) = "retrieve"
      /\ pc' = "returned" =>
           /\ calls' \in 0..2 /\ result'.attempts = calls' /\ result'.stop \in Stops
           /\ calls' > 0 <=> RouteOfSample(probed) = "retrieve"
<1> SUFFICES Going
  <2> HIDE DEF Going
  <2>1. RouteOfSample(probed)' = RouteOfSample(probed)
    BY <1>2
  <2> QED
    BY <1>3, <2>1 DEF ServiceInv, Going
<1>4. CASE RouteQuestion
  <2>1. pc = "route" /\ calls = 0 /\ scoped
    BY <1>1, <1>4 DEF RouteQuestion, ServiceInv
  <2>2. reason' = RouteOf(question) /\ calls' = 0
    BY <1>1, <1>4, <2>1 DEF RouteQuestion, Raise
  <2>3. CASE Route(reason') = "retrieve"
    <3>1. pc' = "first"
      BY <1>1, <1>4, <2>1, <2>3 DEF RouteQuestion, Raise
    <3> QED
      BY <1>2, <2>2, <2>3, <3>1
  <2>4. CASE Route(reason') # "retrieve"
    <3>1. /\ pc' = "returned" /\ result'.attempts = 0
          /\ result'.stop \in {"direct_answer", "router_refusal"}
      BY <1>1, <1>4, <2>1, <2>4 DEF RouteQuestion, Raise, Return
    <3> QED
      BY <1>2, <2>2, <2>4, <3>1 DEF Stops
  <2> QED
    BY <2>3, <2>4
<1>5. CASE FirstSearch({<<>>})
  <2>1. pc = "first" /\ pc' = "assess" /\ calls' = calls + 1
    BY <1>1, <1>5 DEF FirstSearch, Raise
  <2>2. calls = 0 /\ RouteOfSample(probed) = "retrieve"
    BY <1>1, <2>1 DEF ServiceInv
  <2> QED
    BY <2>1, <2>2
<1>6. CASE AssessFirst
  <2>1. pc = "assess" /\ calls' = calls
    BY <1>6 DEF AssessFirst
  <2>2. calls = 1 /\ RouteOfSample(probed) = "retrieve"
    BY <1>1, <2>1 DEF ServiceInv
  <2>3. \/ pc' \in {"generate", "second"}
        \/ pc' = "returned" /\ result'.attempts = 1 /\ result'.stop = "no_safe_rewrite"
    BY <1>6 DEF AssessFirst, Return
  <2> QED
    BY <2>1, <2>2, <2>3 DEF Stops
<1>7. CASE SecondSearch({<<>>})
  <2>1. pc = "second" /\ calls' = calls + 1
    BY <1>1, <1>7 DEF SecondSearch, Raise
  <2>2. calls = 1 /\ RouteOfSample(probed) = "retrieve"
    BY <1>1, <2>1 DEF ServiceInv
  <2>3. \/ pc' = "generate"
        \/ pc' = "returned" /\ result'.attempts = 2 /\ result'.stop = "retry_exhausted"
    BY <1>1, <1>7 DEF SecondSearch, Raise, Return
  <2> QED
    BY <2>1, <2>2, <2>3 DEF Stops
<1> QED
  BY <1>4, <1>5, <1>6, <1>7 DEF AnswerProbe

LEMMA ServiceKept ==
  ASSUME ProbesInv, ServiceInv, EvaluationNext, stage # "request"
  PROVE  ServiceInv'
<1>1. CASE AnswerProbe
  BY <1>1, ServiceAnswers
<1>2. CASE StartProbe
  <2> SUFFICES ASSUME stage' = "answer" PROVE ServiceInv'
    BY DEF ServiceInv
  <2>1. /\ stage = "probe" /\ probed' = probed + 1 /\ samples' = samples
        /\ samples[probed'].route = "retrieve" /\ question' = samples[probed'].question
        /\ scoped' = TRUE /\ pc' = "route" /\ calls' = 0
    BY <1>2 DEF StartProbe, dataset
  <2>2. probed' > 0
    BY <2>1 DEF ProbesInv
  <2> QED
    BY <2>1, <2>2 DEF ServiceInv
<1>3. CASE ~AnswerProbe /\ ~StartProbe
  <2>1. stage' # "answer"
    BY <1>3 DEF EvaluationNext, LoadAssets, RouteSample, AssessCase, RecordProbe, BuildReport,
                evaluationVars
  <2> QED
    BY <2>1 DEF ServiceInv
<1> QED
  BY <1>1, <1>2, <1>3

LEMMA AnsweredFinite ==
  ASSUME ScoresInv, ProbesInv
  PROVE  IsFiniteSet(Answered) /\ Answered \subseteq DOMAIN samples
<1>1. IsFiniteSet(1..probed) /\ 1..probed \subseteq DOMAIN samples
  <2>1. /\ samples \in Seq(Range(samples)) /\ Len(samples) \in Nat
        /\ probed \in 0..Len(samples)
    BY DEF ScoresInv, ProbesInv
  <2>2. probed \in Int /\ 1 \in Int /\ 1..probed \subseteq 1..Len(samples)
    BY <2>1
  <2>3. IsFiniteSet(1..probed)
    BY <2>2, FS_Interval
  <2>4. DOMAIN samples = 1..Len(samples)
    BY <2>1
  <2> QED
    BY <2>2, <2>3, <2>4
<1>2. Answered \subseteq 1..probed
  BY DEF Answered
<1> QED
  BY <1>1, <1>2, FS_Subset

\* One probe for each sample that should retrieve, and a search in each of those
\* that the router sends there.
LEMMA ProbesKept ==
  ASSUME ScoresInv, ProbesInv, ServiceInv, EvaluationNext, stage # "request"
  PROVE  ProbesInv'
<1> DEFINE searched(p) == {n \in DOMAIN p : p[n].calls > 0}
           routed(S) == {n \in S : RouteOfSample(n) = "retrieve"}
<1>1. UNCHANGED samples /\ \A n : RouteOfSample(n)' = RouteOfSample(n)
  BY EvaluationSteps DEF RouteOfSample
<1>2. ASSUME UNCHANGED probes, Answered' = Answered, probed' \in 0..Len(samples)
      PROVE  ProbesInv'
  <2>1. routed(Answered)' = routed(Answered) /\ searched(probes)' = searched(probes)
    BY <1>1, <1>2
  <2> HIDE DEF routed, searched
  <2>2. Cardinality(searched(probes)) = Cardinality(routed(Answered))
    BY DEF ProbesInv, routed, searched
  <2>3. Cardinality(searched(probes))' = Cardinality(routed(Answered))'
    BY <1>2, <2>1, <2>2
  <2>4. samples' = samples /\ probes' = probes
    BY <1>1, <1>2
  <2> QED
    BY <1>2, <2>3, <2>4 DEF ProbesInv, routed, searched
<1>3. CASE StartProbe
  <2>1. /\ stage = "probe" /\ probed' = probed + 1 /\ probed < Len(samples)
        /\ stage' = IF samples[probed'].route = "retrieve" THEN "answer" ELSE "probe"
        /\ UNCHANGED probes
    BY <1>3 DEF StartProbe
  <2>2. probed \in Nat /\ Len(samples) \in Nat
    BY DEF ScoresInv, ProbesInv
  <2>3. ASSUME NEW n \in 1..probed' PROVE n \in Answered' <=> n \in Answered
    BY <1>1, <2>1, <2>2 DEF Answered
  <2>4. Answered' \subseteq 1..probed' /\ Answered \subseteq 1..probed'
    BY <2>1, <2>2 DEF Answered
  <2>5. Answered' = Answered
    BY <2>3, <2>4
  <2> QED
    BY <1>2, <2>1, <2>2, <2>5
<1>4. CASE RecordProbe
  <2>1. /\ stage = "answer" /\ stage' = "probe" /\ pc = "returned" /\ probed' = probed
        /\ probes' = Append(probes, [calls |-> calls, attempts |-> result.attempts,
                                     stop |-> result.stop])
    BY <1>4 DEF RecordProbe
  <2>2. /\ probed > 0 /\ samples[probed].route = "retrieve" /\ probed \in 0..Len(samples)
        /\ calls \in 0..2 /\ result.attempts = calls /\ result.stop \in Stops
        /\ calls > 0 <=> RouteOfSample(probed) = "retrieve"
    BY <2>1 DEF ServiceInv, ProbesInv
  <2> DEFINE probe == [calls |-> calls, attempts |-> result.attempts, stop |-> result.stop]
             Probe == [calls : 0..2, attempts : 0..2, stop : Stops]
             last == Len(probes) + 1
  <2>3. probe \in Probe /\ probe.attempts = probe.calls /\ probe.calls = calls
    BY <2>2
  <2> HIDE DEF probe, Probe
  <2>4. probes \in Seq(Probe) /\ Len(probes) \in Nat /\ probes' = Append(probes, probe)
    BY <2>1 DEF ProbesInv, probe, Probe
  <2>5. /\ probes' \in Seq(Probe) /\ Len(probes') = last
        /\ DOMAIN probes' = DOMAIN probes \union {last} /\ last \notin DOMAIN probes
        /\ probes'[last] = probe /\ \A n \in DOMAIN probes : probes'[n] = probes[n]
    BY <2>3, <2>4
  <2>6. Answered' = Answered \union {probed} /\ probed \notin Answered
    <3>1. probed \in 1..probed /\ probed \notin Answered
      BY <2>1, <2>2 DEF Answered
    <3>2. ASSUME NEW n \in 1..probed PROVE n \in Answered' <=> n \in Answered \/ n = probed
      BY <1>1, <2>1, <2>2 DEF Answered
    <3>3. Answered' \subseteq 1..probed /\ Answered \subseteq 1..probed
      BY <2>1 DEF Answered
    <3> QED
      BY <3>1, <3>2, <3>3
  <2>7. /\ IsFiniteSet(Answered) /\ IsFiniteSet(searched(probes)) /\ IsFiniteSet(routed(Answered))
    <3>1. IsFiniteSet(DOMAIN probes)
      BY <2>4, FS_Interval
    <3>2. IsFiniteSet(searched(probes))
      BY <3>1, FS_Subset
    <3>3. IsFiniteSet(Answered)
      BY AnsweredFinite
    <3>4. IsFiniteSet(routed(Answered))
      BY <3>3, FS_Subset
    <3> QED
      BY <3>2, <3>3, <3>4
  <2>8. Cardinality(Answered') = Cardinality(Answered) + 1
    BY <2>6, <2>7, OneMore
  <2>9. Len(probes') = Cardinality(Answered')
    BY <2>5, <2>8 DEF ProbesInv
  <2>10. /\ searched(probes) \subseteq searched(probes')
         /\ searched(probes') \subseteq searched(probes) \union {last}
         /\ last \in searched(probes') \ searched(probes) <=> calls > 0
    BY <2>3, <2>5
  <2>11. /\ routed(Answered) \subseteq routed(Answered')
         /\ routed(Answered') \subseteq routed(Answered) \union {probed}
         /\ probed \in routed(Answered') \ routed(Answered) <=> RouteOfSample(probed) = "retrieve"
    BY <2>6
  <2>12. Cardinality(searched(probes)) = Cardinality(routed(Answered))
    BY DEF ProbesInv
  <2>13. Cardinality(searched(probes')) = Cardinality(routed(Answered'))
    <3> HIDE DEF searched, routed, last
    <3>1. Cardinality(searched(probes'))
            = Cardinality(searched(probes)) + IF calls > 0 THEN 1 ELSE 0
      BY <2>7, <2>10, OneMore
    <3>2. Cardinality(routed(Answered'))
            = Cardinality(routed(Answered)) + IF calls > 0 THEN 1 ELSE 0
      BY <2>2, <2>7, <2>11, OneMore
    <3> QED
      BY <2>12, <3>1, <3>2
  <2>14. routed(Answered)' = routed(Answered') /\ searched(probes)' = searched(probes')
    BY <1>1
  <2>15. \A n \in DOMAIN probes' : probes'[n].attempts = probes'[n].calls
    BY <2>3, <2>5 DEF ProbesInv
  <2>16. probed' \in 0..Len(samples')
    BY <1>1, <2>1, <2>2
  <2>17. Cardinality(searched(probes)') = Cardinality(routed(Answered)')
    BY <2>13, <2>14
  <2> HIDE DEF last
  <2> QED
    BY <2>5, <2>9, <2>15, <2>16, <2>17 DEF ProbesInv, Probe
<1>5. CASE ~StartProbe /\ ~RecordProbe
  <2>1. UNCHANGED <<probed, probes>> /\ (stage = "answer" <=> stage' = "answer")
    BY <1>5 DEF EvaluationNext, LoadAssets, RouteSample, AssessCase, AnswerProbe, BuildReport,
                probing, evaluationVars
  <2>2. Answered' = Answered
    BY <1>1, <2>1 DEF Answered
  <2>3. probed' \in 0..Len(samples)
    BY <2>1 DEF ProbesInv
  <2> QED
    BY <1>2, <2>1, <2>2, <2>3
<1> QED
  BY <1>3, <1>4, <1>5

\* A row of the confusion matrix adds up to the samples with its label.
LEMMA RowAdded ==
  ASSUME NEW expected, IsFiniteSet(DOMAIN expected), NEW guesses, NEW labels,
         IsFiniteSet(Range(labels)), \A n \in DOMAIN expected : guesses[n] \in Range(labels),
         NEW actual \in Range(labels)
  PROVE  Total(Confusion(expected, guesses, labels)[actual])
           = Cardinality({n \in DOMAIN expected : expected[n] = actual})
<1> DEFINE C == Range(labels)
           D == {n \in DOMAIN expected : expected[n] = actual}
           row == Confusion(expected, guesses, labels)[actual]
<1>1. /\ DOMAIN row = C
      /\ \A c \in C : row[c] = Cardinality({n \in DOMAIN expected :
                                              expected[n] = actual /\ guesses[n] = c})
  BY DEF Confusion
<1>2. \A c \in C : row[c] = Cardinality({n \in D : guesses[n] = c})
  <2> HIDE DEF row, C
  <2> TAKE c \in C
  <2>1. {n \in DOMAIN expected : expected[n] = actual /\ guesses[n] = c}
          = {n \in D : guesses[n] = c}
    OBVIOUS
  <2> HIDE DEF D
  <2> QED
    BY <1>1, <2>1
<1>3. IsFiniteSet(D) /\ IsFiniteSet(C) /\ \A n \in D : guesses[n] \in C
  BY FS_Subset
<1> DEFINE part == [c \in C |-> {n \in D : guesses[n] = c}]
           one(s) == CHOOSE x \in s : TRUE
           Loop(it) == [s \in SUBSET DOMAIN row |->
                          IF s = {} THEN 0 ELSE row[one(s)] + it[s \ {one(s)}]]
           iter == CHOOSE it : it = Loop(it)
<1>4. /\ \A c \in C : part[c] \subseteq D /\ row[c] = Cardinality(part[c])
      /\ \A n \in D : \E c \in C : n \in part[c]
      /\ \A c, e \in C : c # e => part[c] \intersect part[e] = {}
  <2> HIDE DEF row, C, D
  <2> QED
    BY <1>2, <1>3
<1> HIDE DEF C, D, part
<1>5. Total(row) = iter[DOMAIN row]
  BY DEF Total, FoldFunction, FoldFunctionOnSet, MapThenFoldSet
<1> HIDE DEF row
<1>6. \A it : Sums(it, C, row) <=> it = Loop(it)
  BY <1>1 DEF Sums
<1> HIDE DEF Loop
<1>7. \E it : Sums(it, C, row)
  BY <1>3, <1>4, PartsAdd
<1>8. Sums(iter, C, row)
  BY <1>6, <1>7
<1> HIDE DEF iter
<1>9. iter[C] = Cardinality(D)
  BY <1>3, <1>4, <1>8, PartsSum
<1> QED
  BY <1>1, <1>5, <1>9 DEF row, D

\* The protocol accepts no fact that is answered without a search.
LEMMA NoViolationAccepted ==
  ASSUME NEW routing, NEW retry, Rejections(routing, retry) = {}
  PROVE  violations <= 0
<1> DEFINE checks ==
        [routing_accuracy |-> routing.accuracy >= Acceptance.accuracy,
         routing_macro_f1 |-> routing.macroF1 >= Acceptance.macroF1,
         business_fact_direct_answer_violation |-> violations <= Acceptance.violations,
         retry_trigger_accuracy |-> retry.accuracy >= Acceptance.retryAccuracy,
         retry_trigger_precision |-> retry.precision["retry"] >= Acceptance.retryPrecision,
         retry_trigger_recall |-> retry.recall["retry"] >= Acceptance.retryRecall,
         retrieval_call_limit |-> breaches <= Acceptance.breaches,
         legacy_v1_answer_regression |-> legacy <= Acceptance.regressions]
<1>1. {name \in DOMAIN checks : ~checks[name]} = {}
  BY DEF Rejections
<1>2. "business_fact_direct_answer_violation" \in DOMAIN checks
  OBVIOUS
<1>3. checks["business_fact_direct_answer_violation"] = (violations <= Acceptance.violations)
  OBVIOUS
<1> HIDE DEF checks
<1>4. violations <= Acceptance.violations
  BY <1>1, <1>2, <1>3
<1> QED
  BY <1>4, AcceptanceAssumption

LEMMA LabelsGiven ==
  /\ IsFiniteSet(Range(RouteLabels))
  /\ "retrieve" \in Range(RouteLabels) /\ "direct_answer" \in Range(RouteLabels)
<1>1. /\ RouteLabels[1] = "retrieve" /\ RouteLabels[2] = "direct_answer"
      /\ DOMAIN RouteLabels = 1..3
  BY DEF RouteLabels
<1>2. 1 \in DOMAIN RouteLabels /\ 2 \in DOMAIN RouteLabels /\ IsFiniteSet(DOMAIN RouteLabels)
  <2>1. 1 \in Int /\ 3 \in Int
    OBVIOUS
  <2>2. IsFiniteSet(1..3)
    BY <2>1, FS_Interval
  <2> QED
    BY <1>1, <2>2
<1>3. Range(RouteLabels) = {RouteLabels[x] : x \in DOMAIN RouteLabels}
  BY DEF Range
<1>4. IsFiniteSet(Range(RouteLabels))
  BY <1>2, <1>3, ImageFinite
<1> QED
  BY <1>1, <1>2, <1>4, Zenon DEF Range

LEMMA ReportBuilt ==
  ASSUME ScoresInv, ProbesInv, BuildReport
  PROVE  ReportAgrees'
<1> DEFINE expected == [n \in DOMAIN samples |-> samples[n].route]
           other == [n \in DOMAIN cases |-> RetryLabel(cases[n].retry)]
           routing == Metrics(expected, predicted, RouteLabels)
           retry == Metrics(other, retried, RetryLabels)
           failed == Rejections(routing, retry)
           matrix == Confusion(expected, predicted, RouteLabels)
           searched == {n \in DOMAIN probes : probes[n].calls > 0}
           facts == {n \in DOMAIN samples : samples[n].route = "retrieve"}
           wrong == {n \in facts : predicted[n] = "direct_answer"}
<1>1. /\ report' = [status |-> IF failed = {} THEN "passed" ELSE "failed",
                    routing |-> routing, retry |-> retry, failed |-> failed]
      /\ UNCHANGED <<samples, predicted, violations, probes>>
      /\ stage = "probe" /\ probed = Len(samples)
  BY DEF BuildReport, dataset, scores, probing
<1>2. /\ samples \in Seq(Range(samples)) /\ predicted \in Seq(Range(RouteLabels))
      /\ Len(predicted) = Len(samples) /\ DOMAIN samples = 1..Len(samples)
      /\ DOMAIN predicted = DOMAIN samples /\ IsFiniteSet(DOMAIN samples)
      /\ Len(samples) \in Nat
  <2>1. /\ samples \in Seq(Range(samples)) /\ predicted \in Seq(Range(RouteLabels))
        /\ Len(predicted) = Len(samples) /\ DOMAIN samples = 1..Len(samples)
        /\ DOMAIN predicted = DOMAIN samples /\ Len(samples) \in Nat
    BY <1>1 DEF ScoresInv
  <2> QED
    BY <2>1, FS_Interval
<1>3. routing.matrix = matrix /\ routing.support["retrieve"] = Total(matrix["retrieve"])
  BY LabelsGiven DEF Metrics
<1>4. /\ matrix["retrieve"]["direct_answer"] = Cardinality(wrong)
      /\ matrix["retrieve"]["retrieve"] = Cardinality({n \in facts : predicted[n] = "retrieve"})
  <2>1. \A g \in Range(RouteLabels) :
          matrix["retrieve"][g] = Cardinality({n \in DOMAIN expected :
                                                 expected[n] = "retrieve" /\ predicted[n] = g})
    BY LabelsGiven DEF Confusion
  <2>2. \A g : {n \in DOMAIN expected : expected[n] = "retrieve" /\ predicted[n] = g}
                 = {n \in facts : predicted[n] = g}
    OBVIOUS
  <2> HIDE DEF matrix, expected, facts
  <2> QED
    BY <2>1, <2>2, LabelsGiven
<1>5. Total(matrix["retrieve"]) = Cardinality(facts)
  <2>1. \A n \in DOMAIN expected : predicted[n] \in Range(RouteLabels)
    BY <1>2
  <2>2. DOMAIN expected = DOMAIN samples
           /\ facts = {n \in DOMAIN expected : expected[n] = "retrieve"}
    OBVIOUS
  <2> HIDE DEF expected, facts
  <2> QED
    BY <1>2, <2>1, <2>2, LabelsGiven, RowAdded
<1>6. Answered = facts
  BY <1>1, <1>2 DEF Answered
<1>7. violations = Cardinality(wrong) /\ Len(probes) = Cardinality(facts)
  <2>1. wrong = {n \in DOMAIN predicted :
                   samples[n].route = "retrieve" /\ predicted[n] = "direct_answer"}
    BY <1>2
  <2> HIDE DEF wrong, facts
  <2> QED
    BY <1>6, <2>1 DEF ScoresInv, ProbesInv
<1>8. Cardinality(searched) = Cardinality({n \in facts : predicted[n] = "retrieve"})
  <2>1. {n \in Answered : RouteOfSample(n) = "retrieve"} = {n \in facts : predicted[n] = "retrieve"}
    BY <1>2, <1>6 DEF ScoresInv
  <2> HIDE DEF facts, searched
  <2> QED
    BY <2>1 DEF ProbesInv, searched
<1>9. \A n \in DOMAIN probes : probes[n].attempts = probes[n].calls /\ probes[n].calls <= 2
  <2> TAKE n \in DOMAIN probes
  <2> DEFINE Probe == [calls : 0..2, attempts : 0..2, stop : Stops]
  <2>1. probes[n] \in Probe
    <3>1. probes \in Seq(Probe)
      BY DEF ProbesInv
    <3> HIDE DEF Probe
    <3> QED
      BY <3>1, ElementOfSeq
  <2>2. probes[n].calls \in 0..2
    BY <2>1
  <2> QED
    BY <2>2 DEF ProbesInv
<1>10. failed = {} => \A n \in DOMAIN samples :
                        samples[n].route = "retrieve" => predicted[n] # "direct_answer"
  <2> SUFFICES ASSUME failed = {} PROVE wrong = {}
    OBVIOUS
  <2>1. violations <= 0
    <3> HIDE DEF routing, retry
    <3> QED
      BY NoViolationAccepted
  <2>2. IsFiniteSet(wrong)
    BY <1>2, FS_Subset
  <2> HIDE DEF wrong
  <2>3. Cardinality(wrong) \in Nat
    BY <2>2, FS_CardinalityType
  <2>4. Cardinality(wrong) = 0
    BY <1>7, <2>1, <2>3
  <2> QED
    BY <2>2, <2>4, FS_EmptySet
<1>11. /\ report'.routing = routing
       /\ report'.status = "passed" => failed = {}
  <2> HIDE DEF routing, retry, failed
  <2> QED
    BY <1>1
<1> HIDE DEF routing, retry, failed, matrix, wrong, facts
<1> QED
  BY <1>1, <1>3, <1>4, <1>5, <1>7, <1>8, <1>9, <1>10, <1>11 DEF ReportAgrees, searched

\* An evaluation scores every sample as the service would route it, probes the
\* service on each that should retrieve, and counts what it did.
THEOREM EvaluationInvariance == EvaluationSpec => []EvaluationInv
<1>1. EvaluationInit => EvaluationInv
  <2> SUFFICES ASSUME EvaluationInit PROVE EvaluationInv
    OBVIOUS
  <2>1. /\ stage \in {"request", "load"} /\ predicted = <<>> /\ violations = 0
        /\ probed = 0 /\ probes = <<>> /\ report = NoReport
        /\ stage = "load" => samples \in Datasets
    BY DEF EvaluationInit
  <2>2. Cardinality({}) = 0
    BY FS_EmptySet
  <2>3. ASSUME stage = "load" PROVE ScoresInv /\ ProbesInv /\ ServiceInv
    <3>1. samples \in Seq(Range(samples)) /\ Len(samples) \in Nat
      BY <2>1, <2>3, DatasetsAssumption
    <3>2. {n \in DOMAIN predicted :
             samples[n].route = "retrieve" /\ predicted[n] = "direct_answer"} = {}
      BY <2>1
    <3>3. ScoresInv
      BY <2>1, <2>2, <2>3, <3>1, <3>2 DEF ScoresInv
    <3>4. /\ Answered = {} /\ {n \in DOMAIN probes : probes[n].calls > 0} = {}
          /\ {n \in Answered : RouteOfSample(n) = "retrieve"} = {}
      BY <2>1 DEF Answered
    <3>5. ProbesInv
      BY <2>1, <2>2, <3>1, <3>4 DEF ProbesInv
    <3> QED
      BY <2>3, <3>3, <3>5 DEF ServiceInv
  <2> QED
    BY <2>1, <2>3 DEF EvaluationInv, ReportAgrees
<1>2. EvaluationInv /\ [EvaluationNext]_evaluationVars => EvaluationInv'
  <2> SUFFICES ASSUME EvaluationInv, [EvaluationNext]_evaluationVars PROVE EvaluationInv'
    OBVIOUS
  <2>1. CASE UNCHANGED evaluationVars
    <3>1. /\ UNCHANGED <<stage, samples, predicted, violations, probed, probes, report>>
          /\ UNCHANGED <<question, scoped, pc, calls, result>>
      BY <2>1 DEF evaluationVars, vars, request, dataset, scores, probing
    <3> QED
      BY <3>1 DEF EvaluationInv, ReportAgrees, ScoresInv, ProbesInv, ServiceInv, Answered,
                  RouteOfSample
  <2>2. CASE stage = "request" /\ EvaluationNext
    <3>1. stage' = stage /\ report' = report /\ report = NoReport
      BY <2>2 DEF EvaluationInv, EvaluationNext, LoadAssets, RouteSample, AssessCase, StartProbe,
                  AnswerProbe, RecordProbe, BuildReport
    <3> QED
      BY <2>2, <3>1 DEF EvaluationInv, ReportAgrees
  <2>3. CASE stage # "request" /\ EvaluationNext
    <3>1. ScoresInv /\ ProbesInv /\ ServiceInv
      BY <2>3 DEF EvaluationInv
    <3>2. ScoresInv' /\ ProbesInv' /\ ServiceInv'
      BY <2>3, <3>1, ScoresKept, ProbesKept, ServiceKept
    <3>3. CASE BuildReport
      <4>1. ReportAgrees' /\ stage' = "reported"
        BY <3>1, <3>3, ReportBuilt DEF BuildReport
      <4> QED
        BY <3>2, <4>1 DEF EvaluationInv
    <3>4. CASE stage \in {"raised", "reported"} /\ UNCHANGED evaluationVars
      BY <2>1, <3>4
    <3>5. CASE LoadAssets \/ RouteSample \/ AssessCase \/ StartProbe \/ AnswerProbe \/ RecordProbe
      <4>1. /\ report' = report /\ report = NoReport
            /\ stage' \in {"route", "retry", "probe", "answer", "raised"}
        BY <3>5 DEF EvaluationInv, LoadAssets, RouteSample, AssessCase, StartProbe, AnswerProbe,
                    RecordProbe
      <4> QED
        BY <3>2, <4>1 DEF EvaluationInv, ReportAgrees
    <3> QED
      BY <2>3, <3>3, <3>4, <3>5 DEF EvaluationNext
  <2> QED
    BY <2>1, <2>2, <2>3
<1> QED
  BY <1>1, <1>2, PTL DEF EvaluationSpec

\* What a report counts apart agrees, for every dataset and acceptance that
\* allows no violation: it has a probe for each sample that should retrieve, a
\* search for those the router sends there, and no fact answered without one if
\* it passed.
THEOREM ReportsAgree == EvaluationSpec => []ReportAgrees
<1>1. EvaluationInv => ReportAgrees
  BY DEF EvaluationInv
<1> QED
  BY <1>1, EvaluationInvariance, PTL
=============================================================================
