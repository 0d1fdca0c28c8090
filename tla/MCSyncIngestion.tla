--------------------------- MODULE MCSyncIngestion --------------------------
(***************************************************************************)
(* Small instances of SyncIngestion for TLC.                               *)
(***************************************************************************)
EXTENDS SyncIngestion, TLC

CONSTANTS d1, d2, c1, c2, r1, r2, p1, p2

\* Both requests carry the same bytes: the second insert conflicts until the
\* first document is deleted.
SharedSha256 == (d1 :> c1) @@ (d2 :> c1)

OneSha256 == d1 :> c1
=============================================================================
