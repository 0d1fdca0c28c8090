---------------------------- MODULE MCEvaluation ----------------------------
(***************************************************************************)
(* LLMComparison, and with it EvaluationRun, for TLC: a TXT document with  *)
(* the chunks 1 and 2 and a PDF with one chunk on each of its two pages.   *)
(* The chunks 1 and 4 have the same text.                                  *)
(***************************************************************************)
EXTENDS LLMComparison

MCDocumentOf == <<1, 1, 2, 2>>
MCPageOf == <<0, 0, 1, 2>>
MCPageCount == <<0, 2>>
MCTextOf == <<"a", "b", "c", "a">>

MCFloor == [baseline |-> 2, semantic |-> 2, hybrid |-> 0, latency |-> 2]

\* The report of Passing can pass.
MCExpected ==
  [documents |-> 2, questions |-> 3,
   categories |-> [c \in Categories |->
                     IF c \in {"multi_chunk", "scope_isolation", "unanswerable"} THEN 1 ELSE 0]]

Snippet(document, page, chunks) == [document |-> document, page |-> page, chunks |-> chunks]
InText == Snippet(1, 0, {1, 2})
OnFirstPage == Snippet(2, 1, {3})
OnSecondPage == Snippet(2, 2, {4})
OffThePage == Snippet(2, 3, {})

\* Its text is its number, or one that others have.
Question(id, category, scope, behavior, evidence, minimum) ==
  [id |-> id, category |-> category, text |-> <<"d", "e", "f">>[id], scope |-> scope, answerable |-> behavior = "answer",
   behavior |-> behavior, answer |-> behavior = "answer", evidence |-> evidence,
   minimum |-> minimum]

Direct(id, scope) == Question(id, "direct", scope, "answer", <<InText>>, 0)
Multi == Question(1, "multi_chunk", Everything, "answer", <<OnFirstPage, OnSecondPage>>, 2)
Scoped == Question(2, "scope_isolation", <<1>>, "answer", <<InText>>, 0)
Refused == Question(3, "unanswerable", Everything, "refuse", <<>>, 0)
Ambiguous == Question(1, "ambiguous", <<1, 2>>, "clarify", <<InText, OnFirstPage>>, 0)

\* The contract accepts what the search does not: a name twice, too long a text.
Repeating == Question(2, "scope_isolation", <<1, 1>>, "answer", <<InText>>, 0)
Wordy == [Refused EXCEPT !.text = "long"]
MCTooLong == {"long"}

\* A question in the words of another one, and one in those of the chunk 2.
Again == [Refused EXCEPT !.text = Multi.text]
Quoting == [Scoped EXCEPT !.text = "b"]

Passing == <<Multi, Scoped, Refused>>

\* Single questions as a file may have them, most of them invalid.
RawQuestions ==
  [id : {1}, category : Categories, text : {"d"}, scope : {Everything, <<Wildcard, 1>>},
   answerable : BOOLEAN, behavior : {"answer", "refuse", "clarify"}, answer : BOOLEAN,
   evidence : {<<>>, <<InText>>, <<InText, InText>>}, minimum : {0, 2}]

Short == {<<Direct(1, Everything), Refused>>, <<Direct(1, <<3>>)>>, <<Ambiguous>>,
          <<Multi, Repeating>>, <<Wordy>>}
           \union {<<q>> : q \in RawQuestions}

Long == {Passing, <<Ambiguous, Scoped, Refused>>, <<Refused, Refused>>, <<Direct(1, <<2>>)>>,
         <<Multi, Quoting, Again>>,
         <<Question(1, "direct", Everything, "answer", <<OffThePage>>, 0)>>}

MCQuestionLists ==
  [p \in {"baseline", "semantic", "hybrid", "latency", "llm"} |->
     IF p = "llm" THEN Short ELSE Short \union Long]

\* What a question makes of the four chunks: ByMeaning finds the two pages by
\* their vectors and the TXT by its terms, Tied turns the two rankings against
\* each other, Vague is below the threshold of the baseline.
ByMeaning == [similarity |-> <<1, 0, 4, 3>>, weight |-> <<2, 1, 0, 0>>]
Tied == [similarity |-> <<3, 2, 1, 0>>, weight |-> <<0, 0, 1, 2>>]
Vague == [similarity |-> <<1, 1, -1, 0>>, weight |-> <<0, 0, 0, 1>>]

\* With the last list a report of Passing passes.
MCQueryLists ==
  {<<q, r, q>> : q, r \in {ByMeaning, Tied, Vague}} \union {<<ByMeaning, Tied, Vague>>}

MCProviderLists == {<<"openai", "deepseek">>, <<"openai", "openai">>, <<"openai">>}
=============================================================================
