---------------------------- MODULE TaskLifecycle ----------------------------
(***************************************************************************)
(* One task of Fleet, its rooms and their members, from start to erasure   *)
(* (src/src/rooms-tasks, src/src/application/task-room-service.ts).  Four  *)
(* kinds of worker processes share it: provisioning publishes a room and   *)
(* launches members, settlement closes the room of a finished or cancelled *)
(* task, deletion erases the task with everything it owns, and room        *)
(* deletion erases one room.  They meet in the records on disk, under a    *)
(* lock per task and a lock per room, and any of them may fail or die      *)
(* between two awaits and be started again.                                *)
(*                                                                         *)
(* A step is what a worker does between two awaits.  The members' own      *)
(* processes, their identities at the ours daemon and the rooms at Cowork  *)
(* are external.  The two locks are those of module FileLock, taken here   *)
(* as exclusive and as freed by the death of their holder.                 *)
(***************************************************************************)
EXTENDS Integers

CONSTANTS
    Room,          \* bound: the room ids Cowork may hand out
    Member,        \* the member names of the task's template
    Provisioner,   \* the processes that start or resume the task
    None,          \* no room, no member, no holder
    MaxMishaps     \* bound: failed steps, dead workers, dead members

ASSUME LifecycleAssumption ==
    /\ None \notin Room \cup Member \cup Provisioner
    /\ {"settle", "delete", "room"} \cap (Provisioner \cup {None}) = {}
    /\ MaxMishaps \in Nat

VARIABLES
    taskState,     \* the state of the task record, or "absent"
    intent,        \* terminal_intent
    asked,         \* a request to end the task, made and not yet accepted
    linked,        \* room_id of the task
    roles,         \* member_roles of the task
    deleting,      \* deletion is pending
    cursor,        \* deletion.members: a phase, and the room of the CID
    absent,        \* deletion.absent_members
    room,          \* per room its record: state, saga and close phase in one
    seat,          \* per room and member, its seat in the record
    remote,        \* per room, what Cowork holds
    launching,     \* per member, the room a spawn under way is for
    agent,         \* per member, its state directory and supervisor
    owner,         \* per member, the room that launch was for
    identity,      \* per member, the room whose launch made its identity
    at, tgt, seen, who,  \* per worker: its place, room, members done, member
    taskLock, roomLock,  \* who holds them
    mishaps,
    orphan         \* history: rooms made at Cowork whose maker did not live to record

taskVars  == <<taskState, intent, asked, linked, roles>>
delVars   == <<deleting, cursor, absent>>
roomVars  == <<room, seat>>
agentVars == <<launching, agent, owner, identity>>
workVars  == <<at, tgt, seen, who>>
lockVars  == <<taskLock, roomLock>>
mishapVars == <<mishaps, orphan>>
vars == <<taskVars, delVars, roomVars, remote, agentVars, workVars, lockVars, mishapVars>>

Closer == {"settle", "delete", "room"}
Worker == Provisioner \cup Closer
Terminal == {"done", "cancelled"}
Cancellable == {"backlog", "provisioning", "active", "review"}
Live == taskState # "absent"
NoIntent == [status |-> "none", kind |-> "none", room |-> None]
NoAsk == [kind |-> "none", room |-> None]
NoCursor == [phase |-> "none", room |-> None]
NoSeat == [launch |-> "none", known |-> FALSE, retire |-> "no", exact |-> FALSE]
Records == {r \in Room : room[r] # "none"}
Seats(r) == {m \in Member : seat[r][m] # NoSeat}
Mishap == mishaps < MaxMishaps /\ mishaps' = mishaps + 1
IsOpen(r) == room[r] \in {"owner", "members", "active"}

Init ==
    /\ taskState = "backlog" /\ intent = NoIntent /\ asked = NoAsk
    /\ linked = None /\ roles = {}
    /\ deleting = FALSE /\ cursor = [m \in Member |-> NoCursor] /\ absent = {}
    /\ room = [r \in Room |-> "none"]
    /\ seat = [r \in Room |-> [m \in Member |-> NoSeat]]
    /\ remote = [r \in Room |-> "none"]
    /\ launching = [m \in Member |-> None] /\ agent = [m \in Member |-> "none"]
    /\ owner = [m \in Member |-> None] /\ identity = [m \in Member |-> None]
    /\ at = [w \in Worker |-> "idle"] /\ tgt = [w \in Worker |-> None]
    /\ seen = [w \in Worker |-> {}] /\ who = [w \in Worker |-> None]
    /\ taskLock = None /\ roomLock = [r \in Room |-> None]
    /\ mishaps = 0 /\ orphan = {}

-----------------------------------------------------------------------------
(* Places of a worker and its locks.                                       *)

GoesOn(w, place) == at' = [at EXCEPT ![w] = place] /\ UNCHANGED <<tgt, seen, who>>
GoesFor(w, r, place) ==
    /\ at' = [at EXCEPT ![w] = place] /\ tgt' = [tgt EXCEPT ![w] = r]
    /\ seen' = [seen EXCEPT ![w] = {}] /\ UNCHANGED who
Done(w, m, place) ==
    /\ at' = [at EXCEPT ![w] = place] /\ seen' = [seen EXCEPT ![w] = @ \cup {m}]
    /\ who' = [who EXCEPT ![w] = None] /\ UNCHANGED tgt
Handles(w, m, place) ==
    /\ at' = [at EXCEPT ![w] = place] /\ who' = [who EXCEPT ![w] = m]
    /\ UNCHANGED <<tgt, seen>>

LockTask(w) == taskLock = None /\ taskLock' = w /\ UNCHANGED roomLock
LockRoom(w, r) ==
    roomLock[r] = None /\ roomLock' = [roomLock EXCEPT ![r] = w] /\ UNCHANGED taskLock
FreeRoom(w) ==
    /\ roomLock' = [r \in Room |-> IF roomLock[r] = w THEN None ELSE roomLock[r]]
    /\ UNCHANGED taskLock
FreeAll(w) ==
    /\ taskLock' = IF taskLock = w THEN None ELSE taskLock
    /\ roomLock' = [r \in Room |-> IF roomLock[r] = w THEN None ELSE roomLock[r]]

(* A worker returns or throws: it is idle again and holds nothing.         *)
Ends(w) ==
    /\ at' = [at EXCEPT ![w] = "idle"] /\ tgt' = [tgt EXCEPT ![w] = None]
    /\ seen' = [seen EXCEPT ![w] = {}] /\ who' = [who EXCEPT ![w] = None]
    /\ FreeAll(w)

-----------------------------------------------------------------------------
(* The operator.                                                           *)

(* cancelTask, completeTask and finishTask read the task, and its room,    *)
(* before they wait for the task's lock.  A task is done with or without   *)
(* its room, as the configuration says.                                    *)
AskTerminal(kind) ==
    /\ asked = NoAsk /\ Live
    /\ \/ kind = "cancelled" /\ taskState \in Cancellable
          /\ asked' = [kind |-> kind, room |-> linked]
       \/ kind = "done" /\ taskState = "review"
          /\ \E r \in {linked, None} : asked' = [kind |-> kind, room |-> r]
    /\ UNCHANGED <<taskState, intent, linked, roles, delVars, roomVars, remote,
                   agentVars, workVars, lockVars, mishapVars>>

MayBegin ==
    /\ Live /\ ~deleting /\ intent = NoIntent
    /\ IF asked.kind = "done" THEN taskState = "review" ELSE taskState \in Cancellable
    /\ asked.room \in {None, linked}

(* acceptTaskTerminalIntent: without a room the task ends at once.         *)
AcceptTerminal ==
    /\ asked # NoAsk /\ taskLock = None
    /\ asked' = NoAsk
    /\ IF ~MayBegin THEN UNCHANGED <<taskState, intent>>
       ELSE IF asked.room = None
       THEN /\ taskState' = asked.kind
            /\ intent' = [status |-> "settled", kind |-> asked.kind, room |-> None]
       ELSE /\ intent' = [status |-> "pending", kind |-> asked.kind, room |-> asked.room]
            /\ UNCHANGED taskState
    /\ UNCHANGED <<linked, roles, delVars, roomVars, remote, agentVars, workVars,
                   lockVars, mishapVars>>

ReviewTask ==
    /\ taskState = "active" /\ ~deleting /\ intent.status # "pending"
    /\ taskState' = "review"
    /\ UNCHANGED <<intent, asked, linked, roles, delVars, roomVars, remote, agentVars,
                   workVars, lockVars, mishapVars>>

(* acceptTaskDeletion: the recorded members become cursors.                *)
AcceptDeletion ==
    /\ Live /\ ~deleting /\ taskLock = None
    /\ deleting' = TRUE
    /\ cursor' = [m \in Member |->
                     IF m \in roles THEN [phase |-> "no", room |-> linked] ELSE NoCursor]
    /\ UNCHANGED <<absent, taskVars, roomVars, remote, agentVars, workVars, lockVars, mishapVars>>

-----------------------------------------------------------------------------
(* Provisioning.                                                           *)

(* ensureTaskWork and continueTaskProvisioning, up to the first lock.      *)
ProvisionStart(p) ==
    /\ at[p] = "idle" /\ Live /\ taskState \notin Terminal
    /\ \/ taskState = "backlog" /\ ~deleting /\ intent.status # "pending"
          /\ taskState' = "provisioning"
       \/ taskState # "backlog" /\ UNCHANGED taskState
    /\ \/ linked = None /\ GoesOn(p, "publish")
       \/ /\ linked # None /\ taskState = "provisioning"
          /\ room[linked] \in {"owner", "members"}
          /\ GoesFor(p, linked, room[linked])
    /\ UNCHANGED <<intent, asked, linked, roles, delVars, roomVars, remote, agentVars,
                   lockVars, mishapVars>>

(* updateTaskRoom.                                                         *)
Links(r) ==
    IF intent.status = "pending" THEN UNCHANGED linked ELSE linked' = r

(* publishRoom, before it creates anything: a room record of the task is   *)
(* used again, and more than one, or a recorded room without a record, is  *)
(* refused.                                                                *)
Publish(p) ==
    /\ at[p] = "publish" /\ taskLock = None
    /\ \/ /\ ~Live \/ deleting \/ (linked # None /\ room[linked] = "none")
             \/ (linked = None /\ \E r, s \in Records : r # s)
          /\ Ends(p) /\ UNCHANGED linked
       \/ /\ Live /\ ~deleting
          /\ \E r \in Records : (linked = r \/ (linked = None /\ Records = {r})) /\ Links(r)
          /\ Ends(p)
       \/ /\ Live /\ ~deleting /\ linked = None /\ Records = {}
          /\ LockTask(p) /\ GoesOn(p, "create") /\ UNCHANGED linked
    /\ UNCHANGED <<taskState, intent, asked, roles, delVars, roomVars, remote, agentVars,
                   mishapVars>>

(* cowork.createRoom.                                                      *)
CreateRemote(p, r) ==
    /\ at[p] = "create" /\ remote[r] = "none"
    /\ remote' = [remote EXCEPT ![r] = "open"]
    /\ GoesFor(p, r, "record")
    /\ UNCHANGED <<taskVars, delVars, roomVars, agentVars, lockVars, mishapVars>>

(* Cowork refuses a room once there are as many as it may hand out.        *)
RoomRefused(p) ==
    /\ at[p] = "create" /\ \A r \in Room : remote[r] # "none"
    /\ Ends(p)
    /\ UNCHANGED <<taskVars, delVars, roomVars, remote, agentVars, mishapVars>>

(* createRoomRecord, advanceSaga and the link run without an await between *)
(* them; a process that dies there leaves a record that no task names.     *)
RecordRoom(p) ==
    /\ at[p] = "record"
    /\ room' = [room EXCEPT ![tgt[p]] = "owner"]
    /\ \/ /\ Links(tgt[p]) /\ UNCHANGED mishapVars
          /\ IF intent.status = "pending" THEN Ends(p)
             ELSE FreeAll(p) /\ GoesOn(p, "owner")
       \/ Mishap /\ Ends(p) /\ UNCHANGED <<linked, orphan>>
    /\ UNCHANGED <<taskState, intent, asked, roles, delVars, seat, remote, agentVars>>

(* The owner is attached outside of any lock.                              *)
AttachOwner(p) ==
    /\ at[p] = "owner"
    /\ room' = [room EXCEPT ![tgt[p]] = IF @ = "owner" THEN "members" ELSE @]
    /\ IF room[tgt[p]] = "none" THEN Ends(p) ELSE GoesOn(p, "members") /\ UNCHANGED lockVars
    /\ UNCHANGED <<taskVars, delVars, seat, remote, agentVars, mishapVars>>

(* provisionMembers waits for the task's lock, then for the room's.        *)
ProvisionMembers(p) ==
    /\ at[p] = "members" /\ LockTask(p) /\ GoesOn(p, "admit")
    /\ UNCHANGED <<taskVars, delVars, roomVars, remote, agentVars, mishapVars>>

(* Mutant: the fence of a pending deletion is forgotten.                   *)
MayProvisionUnfenced(r) == Live /\ intent = NoIntent /\ IsOpen(r)

MayProvision(r) == Live /\ ~deleting /\ intent = NoIntent /\ IsOpen(r)

(* Seats are published pending, unless they are there already.             *)
Published(r) ==
    [m \in Member |-> IF seat[r][m] = NoSeat
        THEN [NoSeat EXCEPT !.launch = "pending"] ELSE seat[r][m]]

Admit(p) ==
    /\ at[p] = "admit" /\ roomLock[tgt[p]] = None
    /\ IF MayProvision(tgt[p])
       THEN /\ LockRoom(p, tgt[p]) /\ GoesOn(p, "launch")
            /\ room' = [room EXCEPT ![tgt[p]] = IF @ = "owner" THEN "members" ELSE @]
            /\ seat' = [seat EXCEPT ![tgt[p]] = Published(tgt[p])]
       ELSE Ends(p) /\ UNCHANGED roomVars
    /\ UNCHANGED <<taskVars, delVars, remote, agentVars, mishapVars>>

(* taskSupervisorMayRun: the proof of ownership, and the fence.            *)
IsProven(m) ==
    /\ Live /\ owner[m] \in Records /\ linked \in {None, owner[m]}
    /\ seat[owner[m]][m].launch \in {"intent", "launched", "failed"}
MayRun(m) ==
    /\ IsProven(m) /\ ~deleting /\ intent = NoIntent /\ IsOpen(owner[m])
    /\ seat[owner[m]][m].retire = "no"
    /\ taskState \in {"provisioning", "active", "review"}

(* retainRunningLaunch: a launch that is there is kept, and resumed if it  *)
(* has stopped.                                                            *)
Retain(p, m) ==
    LET r == tgt[p] IN
    /\ at[p] = "launch" /\ m \notin seen[p]
    /\ seat[r][m].launch \in {"intent", "launched", "failed"} /\ agent[m] # "none"
    /\ IF owner[m] = r /\ (agent[m] = "running" \/ (agent[m] = "stopped" /\ MayRun(m)))
       THEN /\ agent' = [agent EXCEPT ![m] = "running"]
            /\ seat' = [seat EXCEPT ![r][m].launch = "launched"]
            /\ Done(p, m, "launch") /\ UNCHANGED lockVars
       ELSE Ends(p) /\ UNCHANGED <<agent, seat>>
    /\ UNCHANGED <<taskVars, delVars, room, remote, launching, owner, identity, mishapVars>>

(* A launched member of a task that is missing is never launched again,    *)
(* nor one that was intended, unless its archive is found.                 *)
RefuseMissing(p, m) ==
    /\ at[p] = "launch" /\ m \notin seen[p]
    /\ seat[tgt[p]][m].launch \in {"intent", "launched"} /\ agent[m] = "none"
    /\ Ends(p)
    /\ UNCHANGED <<taskVars, delVars, roomVars, remote, agentVars, mishapVars>>

(* launchMember, once an invite is issued: the intent is on disk before    *)
(* the spawn.                                                              *)
LaunchMember(p, m) ==
    LET r == tgt[p] IN
    /\ at[p] = "launch" /\ m \notin seen[p]
    /\ seat[r][m].launch = "pending"
       \/ (seat[r][m].launch \in {"intent", "failed"} /\ agent[m] = "none")
    /\ IF remote[r] = "open" /\ launching[m] = None /\ MayProvision(r)
       THEN /\ seat' = [seat EXCEPT ![r][m].launch = "intent"]
            /\ launching' = [launching EXCEPT ![m] = r]
            /\ Handles(p, m, "spawn") /\ UNCHANGED lockVars
       ELSE Ends(p) /\ UNCHANGED <<seat, launching>>
    /\ UNCHANGED <<taskVars, delVars, room, remote, agent, owner, identity, mishapVars>>

Spawned(p) ==
    LET r == tgt[p] m == who[p] IN
    /\ at[p] = "spawn" /\ launching[m] = None /\ agent[m] # "made"
    /\ IF agent[m] # "none" /\ owner[m] = r
       THEN /\ seat' = [seat EXCEPT ![r][m].launch = "launched"]
            /\ Done(p, m, "launch") /\ UNCHANGED lockVars
       ELSE seat' = [seat EXCEPT ![r][m].launch = "failed"] /\ Ends(p)
    /\ UNCHANGED <<taskVars, delVars, room, remote, agentVars, mishapVars>>

(* reconcileMemberSeats, and the end of provisionMembersUnlocked when      *)
(* every member has taken its seat; at the deadline it is left waiting.    *)
Joined(r) == {m \in Member : identity[m] = r /\ remote[r] = "open"}
Reconciled(r) ==
    [m \in Member |-> [seat[r][m] EXCEPT !.known = @ \/ m \in Joined(r)]]

AwaitSeats(p) ==
    LET r == tgt[p] IN
    /\ at[p] = "launch" /\ seen[p] = Member
    /\ seat' = [seat EXCEPT ![r] = Reconciled(r)]
    /\ \/ UNCHANGED <<room, roles, taskState>>
       \/ /\ Joined(r) = Member /\ \A m \in Member : agent[m] = "running"
          /\ roles' = Member
          /\ room' = [room EXCEPT ![r] = "active"]
          /\ taskState' = IF taskState = "provisioning" THEN "active" ELSE taskState
    /\ Ends(p)
    /\ UNCHANGED <<intent, asked, linked, delVars, remote, agentVars, mishapVars>>

-----------------------------------------------------------------------------
(* Closing a room: settlement, deletion and room deletion share it.        *)

BeginRoomClose(r) ==
    room' = [room EXCEPT ![r] = IF IsOpen(r) THEN "retiring" ELSE @]

(* Mutant: a settlement only closes the room.                              *)
AfterCloseOnly(c) ==
    CASE c = "delete" -> "import" [] c = "settle" -> "finish" [] OTHER -> "erase"

(* What follows the close.                                                 *)
After(c) == IF c = "delete" THEN "import" ELSE "erase"

(* A room without a record is only deleted at Cowork, and by room deletion *)
(* alone: the look at the record and the lock, when free, are one step.    *)
CloseUnrecorded(c) ==
    /\ at[c] = "close" /\ room[tgt[c]] = "none" /\ roomLock[tgt[c]] = None
    /\ IF c = "room" THEN LockRoom(c, tgt[c]) /\ GoesOn(c, "wipe") ELSE Ends(c)
    /\ UNCHANGED <<taskVars, delVars, roomVars, remote, agentVars, mishapVars>>

(* A room that is closed already is only looked at again.                  *)
CloseAgain(c) ==
    /\ at[c] = "close" /\ room[tgt[c]] = "closed" /\ roomLock[tgt[c]] = None
    /\ IF \A m \in Seats(tgt[c]) : agent[m] = "none" /\ identity[m] = None
       THEN GoesOn(c, After(c)) /\ UNCHANGED lockVars ELSE Ends(c)
    /\ UNCHANGED <<taskVars, delVars, roomVars, remote, agentVars, mishapVars>>

(* recoverMemberCids: a seat whose CID is not on record gets it from its   *)
(* launch, or from the room at Cowork.                                     *)
Recovered(r) ==
    [m \in Member |-> IF m \in Seats(r)
        THEN [seat[r][m] EXCEPT !.known = @ \/ identity[m] = r] ELSE seat[r][m]]

(* The head of closeManagedRoom; a close begun before goes on.             *)
CloseRoom(c) ==
    /\ at[c] = "close" /\ room[tgt[c]] \notin {"none", "closed"}
    /\ LockRoom(c, tgt[c]) /\ BeginRoomClose(tgt[c])
    /\ IF room[tgt[c]] = "unlisting" THEN GoesOn(c, "unlist") /\ UNCHANGED seat
       ELSE /\ GoesFor(c, tgt[c], "retire")
            /\ seat' = [seat EXCEPT ![tgt[c]] = Recovered(tgt[c])]
    /\ UNCHANGED <<taskVars, delVars, remote, agentVars, mishapVars>>

(* retireMember: what a member's seat says of how far it has come decides  *)
(* where its retirement resumes.                                           *)
Retiring(c, m) == at[c] = "retire" /\ m \in Seats(tgt[c]) \ seen[c]
Advance(c, m, phase) == seat' = [seat EXCEPT ![tgt[c]][m].retire = phase]

(* A retired member is looked at again.                                    *)
Recheck(c, m) ==
    /\ Retiring(c, m) /\ seat[tgt[c]][m].retire = "gone"
    /\ IF agent[m] = "none" /\ identity[m] = None
       THEN Done(c, m, "retire") /\ UNCHANGED lockVars
       ELSE Ends(c)
    /\ UNCHANGED <<taskVars, delVars, roomVars, remote, agentVars, mishapVars>>

(* inspectMember and secureStoppedTempArchive: the supervisor must be that *)
(* of the recorded launch, as long as it is there.  A directory that was   *)
(* left, or is not yet given, its supervisor's metadata is refused.        *)
Foreign(c, m) ==
    LET s == seat[tgt[c]][m] IN
    CASE s.retire = "no" -> \/ s.launch = "pending" \/ agent[m] \in {"bare", "made"}
                            \/ s.launch = "launched" /\ owner[m] # tgt[c]
      [] s.retire = "stop" -> agent[m] = "bare"
      [] s.retire = "stopped" -> agent[m] # "stopped"
      [] OTHER -> FALSE

Found(c, m) ==
    seat' = [seat EXCEPT ![tgt[c]][m] = [@ EXCEPT !.retire = "stop", !.exact = TRUE]]

Inspect(c, m) ==
    LET s == seat[tgt[c]][m] IN
    /\ Retiring(c, m) /\ agent[m] # "none"
    /\ \/ Foreign(c, m) /\ Ends(c) /\ UNCHANGED seat
       \/ /\ s.retire = "no" /\ (agent[m] = "made" \/ ~Foreign(c, m))
          /\ Found(c, m) /\ UNCHANGED <<workVars, lockVars>>
    /\ UNCHANGED <<taskVars, delVars, room, remote, agentVars, mishapVars>>

(* requestStop and waitForLivenessAbsent.                                  *)
StopMember(c, m) ==
    /\ Retiring(c, m) /\ seat[tgt[c]][m].retire = "stop" /\ agent[m] \notin {"none", "bare"}
    /\ agent' = [agent EXCEPT ![m] = "stopped"]
    /\ Advance(c, m, "stopped")
    /\ UNCHANGED <<taskVars, delVars, room, remote, launching, owner, identity, workVars,
                   lockVars, mishapVars>>

(* secureStoppedTempArchive; its record follows.                           *)
ArchiveMember(c, m) ==
    /\ Retiring(c, m) /\ seat[tgt[c]][m].retire = "stopped" /\ agent[m] = "stopped"
    /\ agent' = [agent EXCEPT ![m] = "none"]
    /\ Handles(c, m, "archived")
    /\ UNCHANGED <<taskVars, delVars, roomVars, remote, launching, owner, identity,
                   lockVars, mishapVars>>

RecordArchive(c) ==
    /\ at[c] = "archived" /\ Advance(c, who[c], "archived") /\ GoesOn(c, "retire")
    /\ UNCHANGED <<taskVars, delVars, room, remote, agentVars, lockVars, mishapVars>>

(* releaseRetainedMemberRuntime: what is there of a launch, its directory  *)
(* or the archive its launch_id leads to, must lead to a runtime of the    *)
(* recorded CID.  A launched member without a CID is refused, and so is    *)
(* one with a CID whose launch was never recorded.                         *)
MayRelease(m, s) ==
    IF identity[m] = None THEN s.launch = "launched" => s.known ELSE s.launch = "launched"

(* removeExactMemberIdentity: an identity of the member's name is removed  *)
(* only if its CID is the recorded one.                                    *)
MayRemove(m, s, r) ==
    /\ identity[m] = None \/ (s.known /\ identity[m] = r)
    /\ (agent[m] = "none" /\ MayRelease(m, s)) \/ agent[m] \in {"bare", "made"}

(* A late launch in the member's place is another launch than the recorded *)
(* one, and refused as soon as its directory tells.                        *)
RemoveIdentity(c, m) ==
    LET s == seat[tgt[c]][m] r == tgt[c] IN
    /\ Retiring(c, m) /\ s.retire # "gone"
    /\ s.retire = "archived" \/ agent[m] = "none"
    /\ \/ /\ MayRemove(m, s, r) /\ identity' = [identity EXCEPT ![m] = None]
          /\ Handles(c, m, "unnamed") /\ UNCHANGED lockVars
       \/ (~MayRemove(m, s, r) \/ agent[m] # "none") /\ Ends(c) /\ UNCHANGED identity
    /\ UNCHANGED <<taskVars, delVars, roomVars, remote, launching, agent, owner, mishapVars>>

RecordGone(c) ==
    LET r == tgt[c] m == who[c] IN
    /\ at[c] = "unnamed"
    /\ IF seat[r][m].retire = "no" /\ agent[m] # "none"
       THEN Ends(c) /\ UNCHANGED seat
       ELSE Advance(c, m, "gone") /\ Done(c, m, "retire") /\ UNCHANGED lockVars
    /\ UNCHANGED <<taskVars, delVars, room, remote, agentVars, mishapVars>>

(* Mutant: the room is unlisted while some members are still retiring.     *)
UnlistsEarly(c) ==
    /\ at[c] = "retire"
    /\ room' = [room EXCEPT ![tgt[c]] = "unlisting"] /\ GoesOn(c, "unlist")
    /\ UNCHANGED <<taskVars, delVars, seat, remote, agentVars, lockVars, mishapVars>>

AllRetired(c) ==
    /\ at[c] = "retire" /\ Seats(tgt[c]) \subseteq seen[c]
    /\ room' = [room EXCEPT ![tgt[c]] = "unlisting"] /\ GoesOn(c, "unlist")
    /\ UNCHANGED <<taskVars, delVars, seat, remote, agentVars, lockVars, mishapVars>>

(* cowork.closeRoom; a room Cowork does not know is closed enough.         *)
CloseRemote(c) ==
    /\ at[c] = "unlist" /\ GoesOn(c, "shut")
    /\ remote' = [remote EXCEPT ![tgt[c]] = IF @ = "open" THEN "closed" ELSE @]
    /\ UNCHANGED <<taskVars, delVars, roomVars, agentVars, lockVars, mishapVars>>

RecordClosed(c) ==
    /\ at[c] = "shut" /\ room' = [room EXCEPT ![tgt[c]] = "closed"]
    /\ FreeRoom(c) /\ GoesOn(c, After(c))
    /\ UNCHANGED <<taskVars, delVars, seat, remote, agentVars, mishapVars>>

-----------------------------------------------------------------------------
(* deleteManagedRoom, after the close.                                     *)

Unlisted(r) == remote' = [remote EXCEPT ![r] = IF @ = "none" THEN @ ELSE "deleted"]
Unrecorded(r) ==
    /\ room' = [room EXCEPT ![r] = "none"]
    /\ seat' = [seat EXCEPT ![r] = [m \in Member |-> NoSeat]]

EraseRoom(c) ==
    /\ at[c] = "erase" /\ LockRoom(c, tgt[c]) /\ GoesOn(c, "wipe")
    /\ UNCHANGED <<taskVars, delVars, roomVars, remote, agentVars, mishapVars>>

DeleteRemote(c) ==
    /\ at[c] = "wipe" /\ Unlisted(tgt[c]) /\ GoesOn(c, "drop")
    /\ UNCHANGED <<taskVars, delVars, roomVars, agentVars, lockVars, mishapVars>>

(* Mutant: the record goes and the task keeps its link.                    *)
KeepsLink(r) == UNCHANGED <<linked, roles>>

(* detachDeletedRoom leaves a task alone that is being deleted.            *)
Detaches(r) ==
    IF linked = r /\ room[r] # "none" /\ ~deleting
    THEN linked' = None /\ roles' = {} ELSE UNCHANGED <<linked, roles>>

(* The link is cut, then the record goes; the worker may die in between.   *)
DropRecord(c) ==
    /\ at[c] = "drop" /\ Detaches(tgt[c])
    /\ \/ /\ Unrecorded(tgt[c]) /\ UNCHANGED mishapVars
          /\ IF c = "settle" THEN FreeRoom(c) /\ GoesOn(c, "finish") ELSE Ends(c)
       \/ Mishap /\ Ends(c) /\ UNCHANGED <<roomVars, orphan>>
    /\ UNCHANGED <<taskState, intent, asked, delVars, remote, agentVars>>

(* requestRoomDeletion accepts the close and starts a worker; a room       *)
(* without a record gets a worker too.                                     *)
RoomDeletion(r) ==
    /\ at["room"] = "idle" /\ remote[r] # "none" /\ GoesFor("room", r, "close")
    /\ \/ room[r] # "none" /\ roomLock[r] = None /\ BeginRoomClose(r)
       \/ room[r] = "none" /\ remote[r] # "deleted" /\ UNCHANGED room
    /\ UNCHANGED <<taskVars, delVars, seat, remote, agentVars, lockVars, mishapVars>>

-----------------------------------------------------------------------------
(* Settling a terminal intent.                                             *)

(* Mutant: any intent is settled, even one never accepted.                 *)
SettleAnything ==
    /\ at["settle"] = "idle" /\ ~deleting
    /\ LockTask("settle")
    /\ IF intent.room \in Records THEN GoesFor("settle", intent.room, "close")
       ELSE GoesOn("settle", "finish")
    /\ UNCHANGED <<taskVars, delVars, roomVars, remote, agentVars, mishapVars>>

SettleStart ==
    /\ at["settle"] = "idle" /\ intent.status = "pending" /\ ~deleting
    /\ LockTask("settle")
    /\ IF intent.room \in Records THEN GoesFor("settle", intent.room, "close")
       ELSE GoesOn("settle", "finish")
    /\ UNCHANGED <<taskVars, delVars, roomVars, remote, agentVars, mishapVars>>

FinishIntent ==
    /\ at["settle"] = "finish" /\ Ends("settle")
    /\ taskState' = intent.kind /\ intent' = [intent EXCEPT !.status = "settled"]
    /\ UNCHANGED <<asked, linked, roles, delVars, roomVars, remote, agentVars, mishapVars>>

-----------------------------------------------------------------------------
(* Settling a deletion.                                                    *)

DeleteStart ==
    /\ at["delete"] = "idle" /\ deleting
    /\ LockTask("delete") /\ GoesOn("delete", "scan")
    /\ UNCHANGED <<taskVars, delVars, roomVars, remote, agentVars, mishapVars>>

(* A record of the task is closed next; the members whose CID is known     *)
(* get their cursors first (upsertTaskDeletionMembersFromSeats).           *)
Known(r) == {m \in Member : seat[r][m].known}
ConflictsWith(r) == \E m \in Known(r) : cursor[m].room \notin {None, r}

(* Mutant: a cursor that is there already starts again.                    *)
UpsertsAnew(r) ==
    cursor' = [m \in Member |->
                  IF m \in Known(r) THEN [phase |-> "no", room |-> r] ELSE cursor[m]]

Upserts(r) ==
    cursor' = [m \in Member |-> IF m \in Known(r) /\ cursor[m] = NoCursor
                  THEN [phase |-> "no", room |-> r] ELSE cursor[m]]

ScanRecord(r) ==
    /\ at["delete"] = "scan" /\ r \in Records
    /\ IF ConflictsWith(r) THEN Ends("delete") /\ UNCHANGED cursor
       ELSE Upserts(r) /\ GoesFor("delete", r, "close") /\ UNCHANGED lockVars
    /\ UNCHANGED <<taskVars, deleting, absent, roomVars, remote, agentVars, mishapVars>>

ScanDone ==
    /\ at["delete"] = "scan" /\ Records = {} /\ GoesFor("delete", None, "cursors")
    /\ UNCHANGED <<taskVars, delVars, roomVars, remote, agentVars, lockVars, mishapVars>>

(* importTaskDeletionRetirementEvidence: what the room has proved goes to  *)
(* the task before the room and its record are deleted.  A record that is  *)
(* gone proves nothing.  A member without a CID is absent if it never had  *)
(* a directory, or if its archive is that of its recorded launch           *)
(* (proveArchivedAbsence): one that was found running on a bare intent has *)
(* no launch to compare with.                                              *)
Unproven(r) == \E m \in Seats(r) \ Known(r) : seat[r][m].exact /\ seat[r][m].launch # "launched"

ImportEvidence ==
    LET r == tgt["delete"] IN
    /\ at["delete"] = "import"
    /\ IF room[r] = "none" \/ (\E m \in Seats(r) : seat[r][m].retire # "gone")
             \/ Unproven(r) \/ ConflictsWith(r)
       THEN Ends("delete") /\ UNCHANGED <<cursor, absent>>
       ELSE /\ cursor' = [m \in Member |->
                  IF m \in Known(r) THEN [phase |-> "gone", room |-> r] ELSE cursor[m]]
            /\ absent' = absent \cup (Seats(r) \ Known(r))
            /\ GoesOn("delete", "unroom") /\ UNCHANGED lockVars
    /\ UNCHANGED <<taskVars, deleting, roomVars, remote, agentVars, mishapVars>>

(* Mutant: the room is left to the cleanup of the one the task names.      *)
LeaveRoomOfTask ==
    /\ at["delete"] = "unroom" /\ Unrecorded(tgt["delete"]) /\ GoesFor("delete", None, "scan")
    /\ UNCHANGED <<taskVars, delVars, remote, agentVars, lockVars, mishapVars>>

DeleteRoomOfTask ==
    /\ at["delete"] = "unroom" /\ Unlisted(tgt["delete"]) /\ GoesOn("delete", "unrecord")
    /\ UNCHANGED <<taskVars, delVars, roomVars, agentVars, lockVars, mishapVars>>

DropRecordOfTask ==
    /\ at["delete"] = "unrecord" /\ Unrecorded(tgt["delete"])
    /\ GoesFor("delete", None, "scan")
    /\ UNCHANGED <<taskVars, delVars, remote, agentVars, lockVars, mishapVars>>

(* retireCursorMember: the same evidence, resumed from the cursor, for a   *)
(* member whose room record is gone.                                       *)
Resumes(m) == at["delete"] = "cursors" /\ cursor[m] # NoCursor /\ m \notin seen["delete"]
Marks(m, phase) == cursor' = [cursor EXCEPT ![m].phase = phase]

CursorRecheck(m) ==
    /\ Resumes(m) /\ cursor[m].phase = "gone"
    /\ IF agent[m] = "none" /\ identity[m] # cursor[m].room
       THEN Done("delete", m, "cursors") /\ UNCHANGED lockVars
       ELSE Ends("delete")
    /\ UNCHANGED <<taskVars, delVars, roomVars, remote, agentVars, mishapVars>>

(* A member without a state directory is absent once its CID is not        *)
(* listed.  That a cursor stops and archives a member serves records of    *)
(* earlier versions: here a record goes after its members.                 *)
CursorRemove(m) ==
    /\ Resumes(m) /\ cursor[m].phase # "gone" /\ agent[m] = "none"
    /\ identity' = [identity EXCEPT ![m] = IF @ = cursor[m].room THEN None ELSE @]
    /\ Handles("delete", m, "cleared")
    /\ UNCHANGED <<taskVars, delVars, roomVars, remote, launching, agent, owner, lockVars,
                   mishapVars>>

CursorGone ==
    /\ at["delete"] = "cleared" /\ Marks(who["delete"], "gone")
    /\ Done("delete", who["delete"], "cursors")
    /\ UNCHANGED <<taskVars, deleting, absent, roomVars, remote, agentVars, lockVars,
                   mishapVars>>

(* A room the task recorded and that has no record is deleted at Cowork;   *)
(* then the task's lock is let go.                                         *)
CleanupDone ==
    /\ at["delete"] = "cursors"
    /\ \A m \in Member : cursor[m] = NoCursor \/ m \in seen["delete"]
    /\ IF linked # None /\ room[linked] = "none" THEN Unlisted(linked) ELSE UNCHANGED remote
    /\ FreeAll("delete") /\ GoesOn("delete", "final")
    /\ UNCHANGED <<taskVars, delVars, roomVars, agentVars, mishapVars>>

(* finalize checks again, under the lock, before the task is unlinked.     *)
MayUnlink ==
    /\ deleting /\ Records = {}
    /\ \A m \in Member : cursor[m].phase \in {"none", "gone"}
    /\ \A m \in absent : agent[m] = "none" /\ identity[m] = None

UnlinkTask ==
    /\ at["delete"] = "final" /\ taskLock = None /\ Ends("delete")
    /\ IF MayUnlink
       THEN /\ taskState' = "absent" /\ intent' = NoIntent /\ linked' = None
            /\ roles' = {} /\ deleting' = FALSE /\ absent' = {}
            /\ cursor' = [m \in Member |-> NoCursor]
       ELSE UNCHANGED <<taskState, intent, linked, roles, delVars>>
    /\ UNCHANGED <<asked, roomVars, remote, agentVars, mishapVars>>

-----------------------------------------------------------------------------
(* The members' processes.                                                 *)

(* spawnTemp: the state directory, unless the name is taken.               *)
Launch(m) ==
    /\ launching[m] # None /\ launching' = [launching EXCEPT ![m] = None]
    /\ IF agent[m] = "none"
       THEN /\ agent' = [agent EXCEPT ![m] = "made"]
            /\ owner' = [owner EXCEPT ![m] = launching[m]]
       ELSE UNCHANGED <<agent, owner>>
    /\ UNCHANGED <<taskVars, delVars, roomVars, remote, identity, workVars, lockVars, mishapVars>>

(* The supervisor asks whether it may run.  Without a proof the spawn is   *)
(* rolled back to an archive, or the started process dies.                 *)
Run(m) ==
    /\ agent[m] = "made"
    /\ \/ MayRun(m) /\ agent' = [agent EXCEPT ![m] = "running"]
       \/ ~MayRun(m) /\ agent' = [agent EXCEPT ![m] = "stopped"]
       \/ ~IsProven(m) /\ agent' = [agent EXCEPT ![m] = "none"]
    /\ UNCHANGED <<taskVars, delVars, roomVars, remote, launching, owner, identity, workVars,
                   lockVars, mishapVars>>

(* It makes its identity and takes its seat with it.                       *)
Join(m) ==
    /\ agent[m] = "running" /\ identity[m] = None
    /\ identity' = [identity EXCEPT ![m] = owner[m]]
    /\ UNCHANGED <<taskVars, delVars, roomVars, remote, launching, agent, owner, workVars,
                   lockVars, mishapVars>>

(* It leaves when the fence says so, and dies at any time.                 *)
Leave(m) ==
    /\ agent[m] = "running" /\ agent' = [agent EXCEPT ![m] = "stopped"]
    /\ \/ ~MayRun(m) /\ UNCHANGED mishapVars
       \/ Mishap /\ UNCHANGED orphan
    /\ UNCHANGED <<taskVars, delVars, roomVars, remote, launching, owner, identity, workVars,
                   lockVars>>

-----------------------------------------------------------------------------
(* What goes wrong.                                                        *)

(* A spawn that its caller gives up goes on, in the proxy's process or     *)
(* with the parent supervisor it was registered with; or it ends, is       *)
(* archived, or leaves its directory.  Nothing cleans up one that has no   *)
(* metadata yet.                                                           *)
SpawnLost(m, left) ==
    \/ UNCHANGED <<launching, agent>>
    \/ /\ launching' = [launching EXCEPT ![m] = None]
       /\ \E rest \in left : agent' = [agent EXCEPT ![m] = IF @ = "made" THEN rest ELSE @]

(* A step of a worker throws, or times out.                                *)
StepFails(w) ==
    /\ at[w] # "idle" /\ Mishap /\ Ends(w)
    /\ orphan' = IF at[w] = "record" THEN orphan \cup {tgt[w]} ELSE orphan
    /\ IF at[w] = "spawn"
       THEN SpawnLost(who[w], {"none", "bare"}) /\ seat' = [seat EXCEPT ![tgt[w]][who[w]].launch = "failed"]
       ELSE UNCHANGED <<launching, agent, seat>>
    /\ UNCHANGED <<taskVars, delVars, room, remote, owner, identity>>

(* A worker dies, and what it was launching itself stays where it was.     *)
WorkerDies(w) ==
    /\ at[w] # "idle" /\ Mishap /\ Ends(w)
    /\ orphan' = IF at[w] = "record" THEN orphan \cup {tgt[w]} ELSE orphan
    /\ IF at[w] = "spawn"
       THEN SpawnLost(who[w], {"none", "bare", "stopped"})
       ELSE UNCHANGED <<launching, agent>>
    /\ UNCHANGED <<taskVars, delVars, roomVars, remote, owner, identity>>

-----------------------------------------------------------------------------

Operates ==
    \/ \E kind \in Terminal : AskTerminal(kind)
    \/ AcceptTerminal \/ ReviewTask \/ AcceptDeletion
    \/ \E r \in Room : RoomDeletion(r)

Provisions(p) ==
    \/ ProvisionStart(p) \/ Publish(p) \/ \E r \in Room : CreateRemote(p, r)
    \/ RoomRefused(p) \/ RecordRoom(p) \/ AttachOwner(p) \/ ProvisionMembers(p) \/ Admit(p)
    \/ \E m \in Member : Retain(p, m) \/ RefuseMissing(p, m) \/ LaunchMember(p, m)
    \/ Spawned(p) \/ AwaitSeats(p)

Closes(c) ==
    \/ CloseUnrecorded(c) \/ CloseAgain(c) \/ CloseRoom(c) \/ RecordArchive(c) \/ RecordGone(c) \/ AllRetired(c)
    \/ \E m \in Member : \/ Recheck(c, m) \/ Inspect(c, m) \/ StopMember(c, m)
                         \/ ArchiveMember(c, m) \/ RemoveIdentity(c, m)
    \/ CloseRemote(c) \/ RecordClosed(c)

Erases(c) == EraseRoom(c) \/ DeleteRemote(c) \/ DropRecord(c)

Deletes ==
    \/ DeleteStart \/ \E r \in Room : ScanRecord(r)
    \/ ScanDone \/ ImportEvidence \/ DeleteRoomOfTask \/ DropRecordOfTask
    \/ \E m \in Member : CursorRecheck(m) \/ CursorRemove(m)
    \/ CursorGone \/ CleanupDone \/ UnlinkTask

Settles == SettleStart \/ FinishIntent

Works(w) ==
    \/ w \in Provisioner /\ Provisions(w)
    \/ w \in Closer /\ Closes(w)
    \/ w \in {"settle", "room"} /\ Erases(w)
    \/ w = "settle" /\ Settles
    \/ w = "delete" /\ Deletes

Runs(m) == Launch(m) \/ Run(m) \/ Join(m)

Next ==
    \/ Operates
    \/ \E w \in Worker : Works(w)
    \/ \E m \in Member : Runs(m) \/ Leave(m)
    \/ \E w \in Worker : StepFails(w) \/ WorkerDies(w)

Spec == Init /\ [][Next]_vars

-----------------------------------------------------------------------------
(* Properties.                                                             *)

(* Type invariant of the records, the members, the workers and the locks.  *)
Phase == {"no", "stop", "stopped", "archived", "gone"}
Place == {"idle", "publish", "create", "record", "owner", "members", "admit", "launch",
          "spawn", "close", "retire", "archived", "unnamed", "unlist", "shut", "erase",
          "wipe", "drop", "finish", "scan", "import", "unroom", "unrecord", "cursors",
          "cleared", "final"}
RoomOrNone == Room \cup {None}
TaskOK ==
    /\ taskState \in Cancellable \cup Terminal \cup {"absent"}
    /\ intent \in [status : {"none", "pending", "settled"}, kind : Terminal \cup {"none"},
                   room : RoomOrNone]
    /\ asked \in [kind : Terminal \cup {"none"}, room : RoomOrNone]
    /\ linked \in RoomOrNone /\ roles \subseteq Member
DeletionOK ==
    /\ deleting \in BOOLEAN /\ absent \subseteq Member
    /\ cursor \in [Member -> [phase : Phase \cup {"none"}, room : RoomOrNone]]
RoomOK ==
    /\ room \in [Room -> {"none", "owner", "members", "active", "retiring", "unlisting",
                          "closed"}]
    /\ remote \in [Room -> {"none", "open", "closed", "deleted"}]
SeatRecord == [launch : {"none", "pending", "intent", "launched", "failed"},
               known : BOOLEAN, retire : Phase, exact : BOOLEAN]
SeatOK == seat \in [Room -> [Member -> SeatRecord]]
AgentOK ==
    /\ launching \in [Member -> RoomOrNone]
    /\ agent \in [Member -> {"none", "bare", "made", "running", "stopped"}]
    /\ owner \in [Member -> RoomOrNone] /\ identity \in [Member -> RoomOrNone]
WorkOK ==
    /\ at \in [Worker -> Place] /\ tgt \in [Worker -> RoomOrNone]
    /\ seen \in [Worker -> SUBSET Member] /\ who \in [Worker -> Member \cup {None}]
    /\ taskLock \in Worker \cup {None} /\ roomLock \in [Room -> Worker \cup {None}]
MishapOK == mishaps \in 0..MaxMishaps /\ orphan \subseteq RoomOrNone
TypeOK == TaskOK /\ DeletionOK /\ RoomOK /\ SeatOK /\ AgentOK /\ WorkOK /\ MishapOK

(* A task has one room record at most, however many processes start and    *)
(* resume it and wherever one of them died (publishRoom: never create a    *)
(* second room).                                                           *)
OneRoom == \A r, s \in Records : r = s

(* A task that is not being deleted never names a room that has no record: *)
(* the record is made before the link, and the link is cut before the      *)
(* record goes.                                                            *)
LinkIsHeld == linked # None /\ ~deleting => linked \in Records

RoomOfTask == OneRoom /\ LinkIsHeld

(* The members a room answers for: they left an identity, or they run.     *)
Answers(r, m) == identity[m] = r \/ (agent[m] = "running" /\ owner[m] = r)

(* Once a record, a seat or a cursor says that a member is gone, it stays  *)
(* gone: no late spawn, resumed launch or second worker brings it back,    *)
(* and a record is not dropped before its members are gone.                *)
GoneStaysGone ==
    \A m \in Member :
        /\ \A r \in Room : r \notin Records \/ seat[r][m].retire = "gone" => ~Answers(r, m)
        /\ cursor[m].phase = "gone" => ~Answers(cursor[m].room, m)

(* An erased task leaves nothing behind: no record, no room at Cowork, no  *)
(* member running and no identity.  The one exception is a room whose      *)
(* maker died between its creation and its record.                         *)
NothingLeft ==
    ~Live => /\ Records = {}
             /\ \A r \in Room \ orphan : remote[r] \in {"none", "deleted"}
             /\ \A m \in Member : agent[m] # "running" /\ identity[m] = None

(* A terminal intent that names a room settles when that room, its record  *)
(* and its members are gone, and not before.                               *)
SettledIsClosed ==
    intent.status = "settled" /\ intent.room # None =>
        /\ intent.room \notin Records /\ remote[intent.room] = "deleted"
        /\ \A m \in Member : identity[m] # intent.room

(* Once a deletion is accepted nothing new is made for the task: no room,  *)
(* no record, no spawn; and no member starts to run.                       *)
DeletionFences ==
    [][deleting =>
        /\ \A r \in Room : /\ remote'[r] = "open" => remote[r] = "open"
                           /\ room'[r] # "none" => room[r] # "none"
        /\ \A m \in Member : /\ launching'[m] \in {launching[m], None}
                             /\ agent'[m] = "running" => agent[m] = "running"]_vars

(* A room that is closing is never opened again, and its evidence never    *)
(* moves back while its record lasts.                                      *)
Step(phase) == CASE phase = "no" -> 0 [] phase = "stop" -> 1 [] phase = "stopped" -> 2
                 [] phase = "archived" -> 3 [] phase = "gone" -> 4 [] OTHER -> -1
CloseGoesForward ==
    [][/\ \A r \in Records : ~IsOpen(r) => room'[r] = "none" \/ ~IsOpen(r)'
       /\ \A r \in Records, m \in Member : room'[r] # "none" =>
             Step(seat'[r][m].retire) >= Step(seat[r][m].retire)
       /\ \A m \in Member : deleting' =>
             Step(cursor'[m].phase) >= Step(cursor[m].phase)]_vars
=============================================================================
