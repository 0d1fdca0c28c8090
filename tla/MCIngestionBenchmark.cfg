SPECIFICATION BenchmarkSpec
CONSTANTS
  p1 = p1
  p2 = p2
  None = None
  Documents <- Uploads8
  Contents <- Uploads8
  Sha256 <- DigestOf
  Parts = {p1, p2}
  LateWrites = FALSE
  Requests = {}
  MaxRestarts = 0
  WarmupSamples = 1
  SingleSamples = 1
  BatchRounds = 2
  BatchSize = 2
  SearchLimits = {1, 2}
INVARIANTS
  ReportedRecoveryPassed
PROPERTIES
  OneWorkerAtATime
