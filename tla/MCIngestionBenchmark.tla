------------------------ MODULE MCIngestionBenchmark ------------------------
(***************************************************************************)
(* A small instance of IngestionBenchmark for TLC.                         *)
(***************************************************************************)
EXTENDS IngestionBenchmark

CONSTANTS p1, p2

Uploads8 == 1..8
ASSUME ConfigHolds == ConfigAssumption

DigestOf == [d \in Uploads8 |-> d]
=============================================================================
