SPECIFICATION Spec
CONSTANTS
  None = None
  Calls = {w1, w2}
  Paths = {t1, t2}
  Lengths <- SmallLengths
  MaxUploadBytes = 2
  BufferSize = 2
INVARIANTS
  PublishedIsWhole
  DiskIsBounded
  OutcomeIsTrue
PROPERTIES
  NeverReplaced
