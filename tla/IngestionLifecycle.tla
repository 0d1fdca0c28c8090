------------------------- MODULE IngestionLifecycle -------------------------
(***************************************************************************)
(* What V2 ingestion promises its clients (docs/r23_design.md, section 3): *)
(* an accepted upload waits, is worked on by a single Worker, possibly     *)
(* again after a restart, ends ready or failed once and for all, and       *)
(* disappears only through a deletion that found it ended.                 *)
(***************************************************************************)
EXTENDS Uploads

VARIABLE phase

Phases == {"none", "pending", "running", "ready", "failed", "condemned", "deleted"}

Init == phase = [d \in Documents |-> "none"]

Move(d, from, to) == phase[d] = from /\ phase' = [phase EXCEPT ![d] = to]

\* Two rows never hold the same bytes at the same time.
Accept(d) ==
  /\ \A e \in Documents :
       phase[e] \notin {"none", "deleted"} => Sha256[e] # Sha256[d]
  /\ Move(d, "none", "pending")

\* The single Worker works on one document at a time.
Start(d) ==
  /\ \A e \in Documents : phase[e] # "running"
  /\ Move(d, "pending", "running")

Requeue(d) == Move(d, "running", "pending")

Finish(d) == Move(d, "running", "ready") \/ Move(d, "running", "failed")

Condemn(d) == Move(d, "ready", "condemned") \/ Move(d, "failed", "condemned")

Remove(d) == Move(d, "condemned", "deleted")

Next ==
  \E d \in Documents :
    Accept(d) \/ Start(d) \/ Requeue(d) \/ Finish(d) \/ Condemn(d) \/ Remove(d)

Spec == Init /\ [][Next]_phase
=============================================================================
