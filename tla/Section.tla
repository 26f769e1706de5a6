------------------------------- MODULE Section -------------------------------
(***************************************************************************)
(* What a lock promises: one contender at a time.  It is the abstract      *)
(* specification that SyncLock implements, and the form in which FileLock  *)
(* uses it.  A contender that dies inside has left: nobody waits for it.   *)
(***************************************************************************)
CONSTANTS
    Contender,     \* calls that want the section
    Free           \* inside, when nobody is

VARIABLE inside    \* who is in the section

Init == inside = Free

Enter(c) == inside = Free /\ inside' = c
Leave(c) == inside = c /\ inside' = Free

Next == \E c \in Contender : Enter(c) \/ Leave(c)

Spec == Init /\ [][Next]_inside
=============================================================================
