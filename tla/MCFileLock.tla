----------------------------- MODULE MCFileLock -----------------------------
(* Three calls in three processes.                                         *)
EXTENDS FileLock, TLC

CONSTANTS c1, c2, c3

Interchangeable == Permutations({c1, c2, c3})
=============================================================================
