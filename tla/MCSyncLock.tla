----------------------------- MODULE MCSyncLock -----------------------------
(* Three contenders, in the order of their file names.                     *)
EXTENDS SyncLock

Never == 0         \* no claim has this token
=============================================================================
