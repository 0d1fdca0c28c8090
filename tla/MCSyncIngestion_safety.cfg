SPECIFICATION Spec
CONSTANTS
  d1 = d1
  d2 = d2
  c1 = c1
  c2 = c2
  r1 = r1
  r2 = r2
  p1 = p1
  p2 = p2
  None = None
  Documents = {d1, d2}
  Contents = {c1, c2}
  Sha256 <- SharedSha256
  Parts = {p1, p2}
  LateWrites = TRUE
  Requests = {r1, r2}
INVARIANTS
  NoOrphanVectors
  DeletionCanBeRepeated
  CreatedIsServed
