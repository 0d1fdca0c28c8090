SPECIFICATION Spec

CONSTANTS
  Chunks = {1, 2, 3, 4}
  DocumentOf <- MCDocumentOf
  RankConstant = 60
  Multiplier = 2
  MaxTopK = 3
  FullScore = 4
  Documents = {1, 2}
  PageCount <- MCPageCount
  PageOf <- MCPageOf
  TopK = 2
  TooLong <- MCTooLong
  MaxSelected = 2
  Expected <- MCExpected
  Programs = {"baseline", "semantic", "hybrid", "latency", "llm"}
  TextOf <- MCTextOf
  ProbeText = "probe"
  QuestionLists <- MCQuestionLists
  QueryLists <- MCQueryLists
  Probed = 1
  Floor <- MCFloor
  Warmup = 1
  ProviderLists <- MCProviderLists
  Priced = {"openai"}

INVARIANTS
  ReportIsTrue
  HybridIsFair
  PaidWorkIsScored
  ComparisonIsFair
  ResourcesReleased
