---------------------------- MODULE MCReminders ----------------------------
(* Small instances of Reminders for TLC.                                   *)
EXTENDS Reminders, TLC

CONSTANTS r1, r2, e1, e2, e3

Interchangeable == Permutations({r1, r2}) \cup Permutations({e1, e2, e3})
=============================================================================
