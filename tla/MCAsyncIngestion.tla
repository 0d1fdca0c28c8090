-------------------------- MODULE MCAsyncIngestion --------------------------
(***************************************************************************)
(* Small instances of AsyncIngestion for TLC.                              *)
(***************************************************************************)
EXTENDS AsyncIngestion, TLC

CONSTANTS d1, d2, c1, c2, r1, r2, p1, p2

\* Every upload has bytes of its own, so that both jobs can wait at once.
DistinctSha256 == (d1 :> c1) @@ (d2 :> c2)

\* A bound: requests outlive their timeout only beside a single submission.
LateBesideOne == timedOut => \E d \in Documents : submitPc[d] = "new"
=============================================================================
