-------------------------- MODULE MCTaskLifecycle --------------------------
(* A small instance of TaskLifecycle for TLC: rooms are taken as they come *)
(* and none is special; nor is a provisioning process.                     *)
EXTENDS TaskLifecycle, TLC

Alike == Permutations(Room) \cup Permutations(Provisioner)
=============================================================================
