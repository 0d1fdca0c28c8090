---------------------------- MODULE MCFileStorage ----------------------------
(***************************************************************************)
(* A small instance of FileStorage for TLC: two calls, with one            *)
(* destination or two, of every length from none to two beyond the limit.  *)
(***************************************************************************)
EXTENDS FileStorage

SmallLengths == 0..4
=============================================================================
