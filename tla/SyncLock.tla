------------------------------ MODULE SyncLock ------------------------------
(***************************************************************************)
(* withSynchronousFileLock of src/src/atomic-file.ts: Lamport's bakery on  *)
(* a directory of claim files.  Every call has a file of its own, named by *)
(* a token that is never used again; replaceFileAtomically makes a read    *)
(* see the old or the new contents.  A step is one operation on the        *)
(* directory: a listing, the read of one file, a publication, a removal.   *)
(*                                                                         *)
(* The caller's process blocks meanwhile, so a contender stands for one    *)
(* call and for the process that makes it; the process may die at any      *)
(* step and leaves its file behind.  Who reads the file of a dead process  *)
(* removes it: the boot id and the start time in the file tell a reused    *)
(* pid.  The ticket stays far below 2^53.                                  *)
(***************************************************************************)
EXTENDS Naturals

CONSTANTS
    Claim,         \* the tokens, ordered as their file names are
    Free           \* no claim

ASSUME ClaimAssumption == Claim \subseteq Nat /\ Free \notin Claim

VARIABLES
    entry,         \* the file of each claim: none, choosing, or ticket
    num,           \* the ticket in it; 0 while choosing
    pc,            \* where each call is
    todo,          \* the listed files it has still to read
    top,           \* the highest ticket it has read
    ahead          \* some claim it has read goes first; these three are
                   \* locals, reset when the call no longer looks at them

files == <<entry, num>>
vars  == <<files, pc, todo, top, ahead>>

Moves(c, to) == pc' = [pc EXCEPT ![c] = to]

Removes(c) == entry' = [entry EXCEPT ![c] = "none"] /\ num' = [num EXCEPT ![c] = 0]

Forgets(c) ==
    todo' = [todo EXCEPT ![c] = {}] /\ top' = [top EXCEPT ![c] = 0]
    /\ ahead' = [ahead EXCEPT ![c] = FALSE]

(* readdirSync: the other claims in the directory.                         *)
Listed(c) == {d \in Claim \ {c} : entry[d] # "none"}

(* mutant: nobody looks whether the process of a claim still runs.         *)
AliveAlways(d) == d \in Claim

Alive(d) == pc[d] # "dead"

(* mutant: equal tickets are not told apart by name.                       *)
PrecedesByTicket(d, c) == entry[d] = "choosing" \/ num[d] < num[c]

(* d's claim, as it is read, goes before c's.                              *)
Precedes(d, c) ==
    \/ entry[d] = "choosing"
    \/ num[d] < num[c]
    \/ num[d] = num[c] /\ d < c

-----------------------------------------------------------------------------
(* The claim is published before the others are looked at.                 *)
Announce(c) ==
    /\ pc[c] = "idle"
    /\ entry' = [entry EXCEPT ![c] = "choosing"] /\ num' = [num EXCEPT ![c] = 0]
    /\ Moves(c, "list")
    /\ UNCHANGED <<todo, top, ahead>>

ListTickets(c) ==
    /\ pc[c] = "list"
    /\ todo' = [todo EXCEPT ![c] = Listed(c)] /\ top' = [top EXCEPT ![c] = 0]
    /\ Moves(c, "read")
    /\ UNCHANGED <<files, ahead>>

(* claims(): a dead contender's file is removed, a missing one skipped.    *)
Reads(c, d) ==
    /\ d \in todo[c]
    /\ todo' = [todo EXCEPT ![c] = @ \ {d}]
    /\ IF Alive(d) THEN UNCHANGED files ELSE Removes(d)
    /\ UNCHANGED pc

Counts(d) == Alive(d) /\ entry[d] # "none"

ReadTicket(c, d) ==
    /\ pc[c] = "read" /\ Reads(c, d)
    /\ top' = IF Counts(d) /\ num[d] > top[c] THEN [top EXCEPT ![c] = num[d]] ELSE top
    /\ UNCHANGED ahead

TakeTicket(c) ==
    /\ pc[c] = "read" /\ todo[c] = {}
    /\ entry' = [entry EXCEPT ![c] = "ticket"] /\ num' = [num EXCEPT ![c] = top[c] + 1]
    /\ Moves(c, "scan") /\ Forgets(c)

ScanClaims(c) ==
    /\ pc[c] = "scan"
    /\ todo' = [todo EXCEPT ![c] = Listed(c)] /\ ahead' = [ahead EXCEPT ![c] = FALSE]
    /\ Moves(c, "check")
    /\ UNCHANGED <<files, top>>

CheckClaim(c, d) ==
    /\ pc[c] = "check" /\ Reads(c, d)
    /\ ahead' = IF Counts(d) /\ Precedes(d, c) THEN [ahead EXCEPT ![c] = TRUE] ELSE ahead
    /\ UNCHANGED top

(* The whole list has been read: work, or wait and look again.             *)
Decide(c) ==
    /\ pc[c] = "check" /\ todo[c] = {}
    /\ Moves(c, IF ahead[c] THEN "scan" ELSE "work") /\ Forgets(c)
    /\ UNCHANGED files

(* The deadline has passed, or a file operation threw.                     *)
GiveUp(c) ==
    /\ pc[c] \in {"list", "read", "scan", "check"}
    /\ Moves(c, "quit") /\ Forgets(c)
    /\ UNCHANGED files

WorkEnds(c) ==
    /\ pc[c] = "work"
    /\ Moves(c, "leave")
    /\ UNCHANGED <<files, todo, top, ahead>>

(* finally: its own file only.                                             *)
Leave(c) ==
    /\ pc[c] \in {"leave", "quit"}
    /\ Removes(c)
    /\ Moves(c, "gone")
    /\ UNCHANGED <<todo, top, ahead>>

Die(c) ==
    /\ pc[c] \notin {"idle", "gone", "dead"}
    /\ Moves(c, "dead") /\ Forgets(c)
    /\ UNCHANGED files

-----------------------------------------------------------------------------
Init ==
    /\ entry = [c \in Claim |-> "none"] /\ num = [c \in Claim |-> 0]
    /\ pc = [c \in Claim |-> "idle"] /\ todo = [c \in Claim |-> {}]
    /\ top = [c \in Claim |-> 0] /\ ahead = [c \in Claim |-> FALSE]

Proceeds(c) ==
    \/ ListTickets(c) \/ TakeTicket(c) \/ ScanClaims(c) \/ Decide(c)
    \/ WorkEnds(c) \/ Leave(c)
    \/ \E d \in Claim : ReadTicket(c, d) \/ CheckClaim(c, d)

Next == \E c \in Claim : Announce(c) \/ Proceeds(c) \/ GiveUp(c) \/ Die(c)

Spec == Init /\ [][Next]_vars

-----------------------------------------------------------------------------
Place == {"idle", "list", "read", "scan", "check", "work", "leave", "quit", "gone", "dead"}

TypeOK ==
    /\ entry \in [Claim -> {"none", "choosing", "ticket"}] /\ num \in [Claim -> Nat]
    /\ pc \in [Claim -> Place] /\ todo \in [Claim -> SUBSET Claim]
    /\ top \in [Claim -> Nat] /\ ahead \in [Claim -> BOOLEAN]

(* Two calls never do their work at the same time, whoever dies and        *)
(* whichever claims the others find, remove or miss (withSynchronousFile-  *)
(* Lock; reclaimDeadHolder relies on it).                                  *)
MutualExclusion == \A c, d \in Claim : pc[c] = "work" /\ pc[d] = "work" => c = d

Inside == IF \E c \in Claim : pc[c] = "work"
          THEN CHOOSE c \in Claim : pc[c] = "work" ELSE Free

TheSection == INSTANCE Section WITH Contender <- Claim, inside <- Inside

(* The bakery implements the section.                                      *)
ImplementsSection == TheSection!Spec

-----------------------------------------------------------------------------
(* A live process goes on to its next step; it need not begin a call, and  *)
(* nothing makes it give up or die.                                        *)
Fairness == \A c \in Claim : WF_vars(Proceeds(c))

FairSpec == Spec /\ Fairness

(* No call waits for ever on others, on dead ones or on a cycle: without   *)
(* its deadline it would still get in.                                     *)
GetsIn == \A c \in Claim : (pc[c] = "list") ~> (pc[c] \in {"work", "quit", "dead"})
=============================================================================
