------------------------------ MODULE FileLock ------------------------------
(***************************************************************************)
(* withFileLock of src/src/atomic-file.ts: a lock that is a directory with *)
(* two files, owner.json and ts, in the order of its single file           *)
(* operations.  A call prepares a private directory and renames it to the  *)
(* lock's path, which succeeds when nothing or an empty directory is       *)
(* there.  A call that is turned away reads whose lock it is, and may      *)
(* reclaim it inside a section that excludes other reclaimers; SyncLock    *)
(* shows that the section excludes.                                        *)
(*                                                                         *)
(* Time is left open: a stamp that is read may be old or not.  A call that *)
(* sleeps does not try again before it has waited twice as long as makes a *)
(* stamp old: what it did in between changed nothing, and is as if it had  *)
(* begun later.  Each call is made by a process of its own, which may die  *)
(* at any step; the boot id and start time in owner.json tell a reused     *)
(* pid.  Locks of releases that did not write them are not modelled.       *)
(***************************************************************************)
CONSTANTS
    Contender,     \* calls of withFileLock, each with its token
    Nobody         \* no call: a file that is not there, a free section

ASSUME ContenderAssumption == Nobody \notin Contender

VARIABLES
    owner, stamp,  \* whose owner.json, whose ts it contains
    section,       \* who is in the reclaim section
    pc,            \* where each call is
    sawOwner, sawStamp,  \* what a call turned away has observed
    aged, waited,  \* the stamp it read may be old; it has waited long
    children,      \* the files rmSync has listed and not yet removed
    blind          \* history: a lock was reclaimed that showed no owner

lock     == <<owner, stamp>>
observed == <<sawOwner, sawStamp, aged>>
vars     == <<lock, section, pc, observed, waited, children, blind>>

Reclaim == INSTANCE Section WITH Free <- Nobody, inside <- section

Moves(c, to) == pc' = [pc EXCEPT ![c] = to]

Empty == owner = Nobody /\ stamp = Nobody

Alive(c) == pc[c] # "dead"

-----------------------------------------------------------------------------
(* Claiming.                                                               *)

Call(c) ==
    /\ pc[c] = "idle" /\ Moves(c, "claim")
    /\ UNCHANGED <<lock, section, observed, waited, children, blind>>

(* renameSync: taken, or turned away by a directory that is not empty.     *)
Publish(c) ==
    /\ pc[c] = "claim"
    /\ IF Empty
       THEN /\ owner' = c /\ stamp' = c /\ Moves(c, "hold")
            /\ waited' = [waited EXCEPT ![c] = FALSE]
       ELSE UNCHANGED <<lock, waited>> /\ Moves(c, "observe")
    /\ UNCHANGED <<section, observed, children, blind>>

(* holder(): owner.json, then ts.                                          *)
ObserveOwner(c) ==
    /\ pc[c] = "observe" /\ Moves(c, "observe stamp")
    /\ sawOwner' = [sawOwner EXCEPT ![c] = owner]
    /\ UNCHANGED <<lock, section, sawStamp, aged, waited, children, blind>>

ObserveStamp(c) ==
    /\ pc[c] = "observe stamp" /\ Moves(c, "read age")
    /\ sawStamp' = [sawStamp EXCEPT ![c] = stamp]
    /\ UNCHANGED <<lock, section, sawOwner, aged, waited, children, blind>>

(* ts is read again, for its age: any lock may be old.                     *)
ReadAge(c) ==
    /\ pc[c] = "read age" /\ Moves(c, "judge")
    /\ aged' = [aged EXCEPT ![c] = stamp # Nobody]
    /\ UNCHANGED <<lock, section, sawOwner, sawStamp, waited, children, blind>>

(* mutant: the age of the lock alone decides.                              *)
OwnerAliveNever == FALSE

(* owner.json is read again: does its process run?                         *)
OwnerAlive == owner # Nobody /\ Alive(owner)

(* mutant: a lock that shows no owner is left alone.                       *)
ReclaimsOwned(c) == ~OwnerAlive /\ (aged[c] \/ waited[c]) /\ sawOwner[c] # Nobody

Reclaims(c) == ~OwnerAlive /\ (aged[c] \/ waited[c])

JudgeStale(c) ==
    /\ pc[c] = "judge" /\ Reclaims(c) /\ Moves(c, "queue")
    /\ UNCHANGED <<lock, section, observed, waited, children, blind>>

(* What was observed is of no use any more.                                *)
Forgets(c) ==
    /\ sawOwner' = [sawOwner EXCEPT ![c] = Nobody]
    /\ sawStamp' = [sawStamp EXCEPT ![c] = Nobody]
    /\ aged' = [aged EXCEPT ![c] = FALSE]

(* Sleep and try again; also when the section could not be had in time.    *)
Sleep(c) ==
    /\ pc[c] = "queue" \/ (pc[c] = "judge" /\ ~(Reclaims(c) /\ waited[c]))
    /\ Moves(c, "claim") /\ Forgets(c)
    /\ waited' = [waited EXCEPT ![c] = TRUE]
    /\ UNCHANGED <<lock, section, children, blind>>

-----------------------------------------------------------------------------
(* Reclaiming.                                                             *)

EnterSection(c) ==
    /\ pc[c] = "queue" /\ Reclaim!Enter(c) /\ Moves(c, "reread")
    /\ UNCHANGED <<lock, observed, waited, children, blind>>

LeaveSection(c, to) == Reclaim!Leave(c) /\ Moves(c, to) /\ Forgets(c)

(* mutant: what is there now is not compared with what was observed.       *)
StillIsAlways(c, file, saw) == c \in Contender

StillIs(c, file, saw) == file = saw[c]

(* holder() again, inside the section.                                     *)
RereadOwner(c) ==
    /\ pc[c] = "reread"
    /\ \/ /\ StillIs(c, owner, sawOwner)
          /\ Moves(c, "reread stamp") /\ UNCHANGED <<section, observed>>
       \/ ~StillIs(c, owner, sawOwner) /\ LeaveSection(c, "claim")
    /\ UNCHANGED <<lock, waited, children, blind>>

RereadStamp(c) ==
    /\ pc[c] = "reread stamp"
    /\ \/ /\ StillIs(c, stamp, sawStamp)
          /\ Moves(c, "remove") /\ UNCHANGED <<section, observed>>
          /\ blind' = (blind \/ sawOwner[c] = Nobody)
       \/ ~StillIs(c, stamp, sawStamp) /\ LeaveSection(c, "claim") /\ UNCHANGED blind
    /\ UNCHANGED <<lock, waited, children>>

-----------------------------------------------------------------------------
(* rmSync of the lock, by its holder or by a reclaimer: list the files,    *)
(* unlink each, remove the directory.  Whatever has the name of a listed   *)
(* file goes.                                                              *)

ListFiles(c) ==
    /\ pc[c] = "remove" /\ Moves(c, "unlink")
    /\ children' = [children EXCEPT ![c] =
            {f \in {"owner", "stamp"} : IF f = "owner" THEN owner # Nobody ELSE stamp # Nobody}]
    /\ UNCHANGED <<lock, section, observed, waited, blind>>

(* mutant: the file is emptied and stays in the directory.                 *)
GoneEmptied == "emptied"

Gone == Nobody

Unlink(c, f) ==
    /\ pc[c] = "unlink" /\ f \in children[c]
    /\ children' = [children EXCEPT ![c] = @ \ {f}]
    /\ owner' = (IF f = "owner" THEN Gone ELSE owner)
    /\ stamp' = (IF f = "stamp" THEN Gone ELSE stamp)
    /\ UNCHANGED <<section, pc, observed, waited, blind>>

(* The directory goes if it is empty; nobody can tell an empty one from    *)
(* none.  If a new lock has been renamed into its place, a release         *)
(* swallows the error and a reclaim may throw it.                          *)
RemoveDir(c) ==
    /\ pc[c] = "unlink" /\ children[c] = {}
    /\ IF section = c
       THEN \/ LeaveSection(c, "claim")
            \/ ~Empty /\ LeaveSection(c, "failed")
       ELSE Moves(c, "gone") /\ UNCHANGED <<section, observed>>
    /\ UNCHANGED <<lock, waited, children, blind>>

-----------------------------------------------------------------------------
WorkEnds(c) ==
    /\ pc[c] = "hold" /\ Moves(c, "release")
    /\ UNCHANGED <<lock, section, observed, waited, children, blind>>

(* finally: a lock whose ownership cannot be proved is left alone.         *)
ReadToken(c) ==
    /\ pc[c] = "release"
    /\ Moves(c, IF owner = c THEN "remove" ELSE "gone")
    /\ UNCHANGED <<lock, section, observed, waited, children, blind>>

Die(c) ==
    /\ pc[c] \notin {"idle", "dead"} /\ Moves(c, "dead")
    /\ section' = (IF section = c THEN Nobody ELSE section)
    /\ children' = [children EXCEPT ![c] = {}]
    /\ waited' = [waited EXCEPT ![c] = FALSE] /\ Forgets(c)
    /\ UNCHANGED <<lock, blind>>

-----------------------------------------------------------------------------
Init ==
    /\ owner = Nobody /\ stamp = Nobody
    /\ section = Nobody
    /\ pc = [c \in Contender |-> "idle"]
    /\ sawOwner = [c \in Contender |-> Nobody] /\ sawStamp = [c \in Contender |-> Nobody]
    /\ aged = [c \in Contender |-> FALSE] /\ waited = [c \in Contender |-> FALSE]
    /\ children = [c \in Contender |-> {}]
    /\ blind = FALSE

Proceeds(c) ==
    \/ Publish(c) \/ ObserveOwner(c) \/ ObserveStamp(c) \/ ReadAge(c) \/ Sleep(c)
    \/ RereadOwner(c) \/ RereadStamp(c)
    \/ ListFiles(c) \/ (\E f \in {"owner", "stamp"} : Unlink(c, f)) \/ RemoveDir(c)
    \/ WorkEnds(c) \/ ReadToken(c)

Next ==
    \E c \in Contender :
        Call(c) \/ Proceeds(c) \/ JudgeStale(c) \/ EnterSection(c) \/ Die(c)

Spec == Init /\ [][Next]_vars

-----------------------------------------------------------------------------
Place == {"idle", "claim", "observe", "observe stamp", "read age", "judge", "queue", "reread",
          "reread stamp", "remove", "unlink", "hold", "release", "gone", "failed", "dead"}

Someone == Contender \cup {Nobody}

TypeOK ==
    /\ blind \in BOOLEAN
    /\ owner \in Someone /\ stamp \in Someone /\ section \in Someone
    /\ pc \in [Contender -> Place]
    /\ sawOwner \in [Contender -> Someone] /\ sawStamp \in [Contender -> Someone]
    /\ aged \in [Contender -> BOOLEAN] /\ waited \in [Contender -> BOOLEAN]
    /\ children \in [Contender -> SUBSET {"owner", "stamp"}]

(* At most one call runs its function (withFileLock: run fn holding a      *)
(* cross-process lock; reclaimDeadHolder: a reclaimer cannot delete the    *)
(* lock a faster contender has since claimed).                             *)
OneHolder == \A c, d \in Contender : pc[c] = "hold" /\ pc[d] = "hold" => c = d

(* Only a reclaim that found no owner to compare with can break that.      *)
OneHolderUnlessBlind == ~blind => OneHolder

(* Until then nobody but its holder takes a file out of a living holder's  *)
(* lock: not a late reclaimer, and not the removal that a faster one or an *)
(* earlier holder has begun and not finished.                              *)
HolderIsSpared ==
    [][~blind' => \A c \in Contender :
        pc[c] = "hold" /\ pc'[c] = "hold" => UNCHANGED <<owner, stamp>>]_vars

Holder == IF \E c \in Contender : pc[c] = "hold"
          THEN CHOOSE c \in Contender : pc[c] = "hold" ELSE Nobody

Held == INSTANCE Section WITH Free <- Nobody, inside <- Holder

(* Until then the lock is a section as well: a function begins only when   *)
(* nobody's runs, and ends before another begins.                          *)
SectionUnlessBlind == Held!Init /\ [][~blind' => Held!Next \/ UNCHANGED Holder]_vars

-----------------------------------------------------------------------------
(* A live process goes on, its function returns, and who wants the section *)
(* has it in the end.  Nothing makes a call begin or a process die.        *)
Fairness ==
    \A c \in Contender :
        WF_vars(Proceeds(c) \/ JudgeStale(c)) /\ SF_vars(EnterSection(c))

FairSpec == Spec /\ Fairness

(* No call waits for ever, whichever holder or reclaimer dies, and at      *)
(* whatever point of claiming, releasing or removing the lock.             *)
GetsLock ==
    \A c \in Contender : (pc[c] = "claim") ~> (pc[c] \in {"hold", "failed", "dead"})
=============================================================================
