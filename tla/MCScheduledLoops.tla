-------------------------- MODULE MCScheduledLoops --------------------------
(* Small instances of ScheduledLoops for TLC.                              *)
EXTENDS ScheduledLoops, TLC

CONSTANTS p1, p2, op, r1, r2

Interchangeable == Permutations({p1, p2}) \cup Permutations({r1, r2})

(* A reload finds the definitions as they were, the last loop gone, or     *)
(* (first configuration) a loop switched off.                              *)
Reconfigured == {[l \in Loop |-> "enabled"],
                 [l \in Loop |-> IF l = 1 THEN "enabled" ELSE "absent"]}
=============================================================================
