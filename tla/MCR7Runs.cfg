SPECIFICATION RunsSpec
CONSTANTS
  i1 = i1
  i2 = i2
  Invocations = {i1, i2}
  BatchSize = 2
  MaxTexts <- TextLimit
  MaxRequests <- RequestLimit
  MaxTokens <- TokenLimit
  QuestionCount = 2
  Chunks = {1, 2, 3, 4}
  DocumentOf <- SourceOf
  Allowed = {1}
  Scores = {0, 1, 2}
  ScoreThreshold = 1
  TopK = 2
  Edges <- Triangle
  Thresholds = {0, 1, 2}
  Rankings <- SampleRankings
SYMMETRY Symmetry
INVARIANTS
  PaidWithinApproval
  TrajectoriesFitReport
  ArtifactsAgree
  ExportIsComplete
