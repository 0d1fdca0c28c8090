---------------------------- MODULE MCAsyncServing ----------------------------
(***************************************************************************)
(* Small instances of AsyncServing for TLC.                                *)
(***************************************************************************)
EXTENDS AsyncServing, TLC

CONSTANTS d1, d2, c1, c2, r1, r2, q1, q2, p1, p2

OneSha256 == d1 :> c1
=============================================================================
