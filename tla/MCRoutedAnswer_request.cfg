SPECIFICATION EvaluationSpec
CONSTANTS
  Chunks <- SmallChunks
  Scores <- SmallScores
  Threshold = 1
  TopKs <- SmallTopKs
  Datasets <- SmallDatasets
  RetryCases <- SmallRetryCases
  Regressions = {0, 1}
  ProbeTopK = 5
  Acceptance <- ProtocolAcceptance
INVARIANTS
  ResultIsValid
  BoundaryFirst
  AnswersAreGrounded
  ReportAgrees
