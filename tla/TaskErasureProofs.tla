------------------------- MODULE TaskErasureProofs -------------------------
(***************************************************************************)
(* What TaskLifecycle promises of the end of a task, for any number of     *)
(* rooms, members and provisioning processes, and however many of them     *)
(* fail: a member found gone stays gone, an erased task leaves nothing     *)
(* behind, and a settled intent has closed its room.                       *)
(*                                                                         *)
(* The stronger invariant EInv adds to that of TaskLifecycleProofs who may *)
(* still be about.  Whoever runs or has an identity was launched for a     *)
(* recorded room and is not retired there; a room is unlisted only when    *)
(* its seats are retired; what is open or closed at Cowork is recorded, or *)
(* about to be, or was lost with its maker; and a worker that erases has   *)
(* proved what it erases gone.  A lemma per action shows that each part    *)
(* survives it: first the parts that mention nothing the action changes,   *)
(* then the others.                                                        *)
(***************************************************************************)
EXTENDS TaskLifecycleProofs

USE LifecycleAssumption

-----------------------------------------------------------------------------
(* Member m was launched for the recorded room r and is not retired there. *)
Serves(r, m) ==
    /\ r \in Records /\ seat[r][m].launch \in {"intent", "launched", "failed"}
    /\ seat[r][m].retire # "gone"

(* Whoever left an identity serves the room it was made for; whoever runs  *)
(* has at most been told to stop.                                          *)
Served ==
    \A m \in Member :
        /\ identity[m] # None => Serves(identity[m], m)
        /\ agent[m] = "running" =>
             Serves(owner[m], m) /\ seat[owner[m]][m].retire \in {"no", "stop"}

(* A room without a record has no seats, an open one retires nobody, and   *)
(* one that is unlisted or closed has retired everybody it knew.           *)
Seated ==
    \A r \in Room, m \in Member :
        /\ room[r] = "none" => seat[r][m] = NoSeat
        /\ IsOpen(r) => seat[r][m].retire = "no"
        /\ room[r] \in {"unlisting", "closed"} =>
             seat[r][m] = NoSeat \/ seat[r][m].retire = "gone"

(* What a closer has seen so far of the room it closes: the members it is  *)
(* done with are gone, the one at hand has no name left, and a room to be  *)
(* unlisted has been archived.                                             *)
Proved(c) ==
    /\ at[c] # "spawn"
    /\ at[c] \in {"retire", "archived", "unnamed"} =>
         /\ room[tgt[c]] = "retiring"
         /\ \A m \in seen[c] : seat[tgt[c]][m].retire = "gone"
    /\ at[c] = "unnamed" => ~Answers(tgt[c], who[c])
    /\ at[c] \in {"unlist", "shut"} => room[tgt[c]] = "unlisting"

Retired == \A c \in Closer : Proved(c)

(* The cursors of a deletion name rooms, and one that says gone is right,  *)
(* as is the deletion about to say so.                                     *)
Cursors ==
    /\ \A m \in Member :
         /\ cursor[m] # NoCursor => cursor[m].room \in Room
         /\ cursor[m].phase = "gone" => ~Answers(cursor[m].room, m)
    /\ at["delete"] = "cleared" =>
         /\ cursor[who["delete"]] # NoCursor
         /\ ~Answers(cursor[who["delete"]].room, who["delete"])

(* A task with roles has a room, and a provisioner works for the room of   *)
(* the task as long as both are there.                                     *)
Linking ==
    /\ roles # {} => linked # None
    /\ \A p \in Provisioner :
         at[p] \in {"owner", "members", "admit", "launch", "spawn"} /\ IsOpen(tgt[p]) =>
             linked = tgt[p] \/ remote[tgt[p]] = "deleted"

(* A room fresh from Cowork is in the hands of the one who asked for it.   *)
Making ==
    \A p, q \in Provisioner : at[p] = "record" /\ tgt[q] = tgt[p] => q = p

(* What Cowork holds is on record, about to be, or lost with its maker.    *)
Kept ==
    \A r \in Room : remote[r] \in {"open", "closed"} =>
        \/ r \in orphan \cup Records
        \/ \E p \in Provisioner : at[p] = "record" /\ tgt[p] = r

(* A room Cowork has not made yet is known to nobody.                      *)
Fetched ==
    \A r \in Room : remote[r] = "none" =>
        /\ r \notin Records /\ linked # r /\ intent.room # r
        /\ \A w \in Worker : tgt[w] # r

(* A task that is erased has no recorded room.                             *)
Unlinked == ~Live => Records = {}

(* Room r is off the records and deleted at Cowork.                        *)
Erased(r) == r # None => r \notin Records /\ remote[r] = "deleted"

(* Settlement works on the room of the intent, and when it has finished,   *)
(* or is about to, that room is erased.                                    *)
Settling ==
    /\ at["settle"] \notin {"idle", "finish"} => tgt["settle"] = intent.room
    /\ at["settle"] = "finish" \/ intent.status = "settled" => Erased(intent.room)
    /\ intent.room # None => intent.room \in Records \/ remote[intent.room] = "deleted"
    /\ \A p \in Provisioner : at[p] = "record" => tgt[p] # intent.room

(* Who erases a room has closed it, or found it without seats, and drops   *)
(* its record only after Cowork has deleted it.                            *)
Erasing ==
    /\ \A c \in Closer :
         /\ at[c] = "drop" => remote[tgt[c]] = "deleted"
         /\ at[c] \in {"wipe", "drop"} =>
              room[tgt[c]] \in {"none", "closed"} \/ \A m \in Member : seat[tgt[c]][m] = NoSeat
         /\ at[c] = "erase" =>
              /\ room[tgt[c]] \in {"none", "closed"}
              /\ \A p \in Provisioner : at[p] = "record" => tgt[p] # tgt[c]
    /\ at["delete"] = "unrecord" => remote[tgt["delete"]] = "deleted"

EInv ==
    /\ IInv /\ Served /\ Seated /\ Retired /\ Cursors /\ Linking /\ Making /\ Kept
    /\ Fetched /\ Unlinked /\ Settling /\ Erasing

-----------------------------------------------------------------------------
(* What happens to the seats of room r when its members are launched or    *)
(* looked for: nothing is retired, and who was launched still is.          *)
Launches(r) ==
    \A s \in Room, n \in Member :
        /\ s # r => seat'[s][n] = seat[s][n]
        /\ seat'[s][n].retire = seat[s][n].retire
        /\ seat[s][n].launch \in {"intent", "launched", "failed"} =>
               seat'[s][n].launch \in {"intent", "launched", "failed"}

(* What happens to the seats when one of them is retired to a phase.       *)
Retires(r, m, phase) ==
    \A s \in Room, n \in Member :
        /\ s # r \/ n # m => seat'[s][n] = seat[s][n]
        /\ seat'[s][n].launch = seat[s][n].launch
        /\ s = r /\ n = m => seat'[s][n].retire = phase

(* What happens when the record of room r goes with its seats.             *)
Drops(r) ==
    \A s \in Room :
        /\ room'[s] = IF s = r THEN "none" ELSE room[s]
        /\ \A n \in Member : seat'[s][n] = IF s = r THEN NoSeat ELSE seat[s][n]

(* The record and the seats change in one of these ways.                   *)
LEMMA DropsOf ==
    ASSUME RoomOK, SeatOK, NEW r, Unrecorded(r)
    PROVE  Drops(r)
  BY DEF RoomOK, SeatOK, Unrecorded, Drops

LEMMA LaunchOf ==
    ASSUME SeatOK, NEW r, NEW m, NEW v \in {"intent", "launched", "failed"},
           seat' = [seat EXCEPT ![r][m].launch = v]
    PROVE  Launches(r)
<1> SUFFICES ASSUME NEW s \in Room, NEW n \in Member
             PROVE  /\ s # r => seat'[s][n] = seat[s][n]
                    /\ seat'[s][n].retire = seat[s][n].retire
                    /\ seat[s][n].launch \in {"intent", "launched", "failed"} =>
                           seat'[s][n].launch \in {"intent", "launched", "failed"}
  BY DEF Launches
<1>1. seat[s] \in [Member -> SeatRecord] /\ seat[s][n] \in SeatRecord
  BY DEF SeatOK
<1>2. seat'[s][n] = IF s = r /\ n = m THEN [seat[s][n] EXCEPT !.launch = v] ELSE seat[s][n]
  BY <1>1 DEF SeatOK
<1> QED BY <1>1, <1>2 DEF SeatRecord

LEMMA RowOf ==
    ASSUME SeatOK, NEW r \in Room, NEW g, seat' = [seat EXCEPT ![r] = g],
           \A m \in Member :
               /\ g[m].retire = seat[r][m].retire
               /\ seat[r][m].launch \in {"intent", "launched", "failed"} =>
                      g[m].launch \in {"intent", "launched", "failed"}
    PROVE  Launches(r)
  BY DEF SeatOK, Launches

LEMMA RetirementOf ==
    ASSUME SeatOK, NEW c, NEW m, NEW v, Advance(c, m, v)
    PROVE  Retires(tgt[c], m, v)
<1> SUFFICES ASSUME NEW s \in Room, NEW n \in Member
             PROVE  /\ s # tgt[c] \/ n # m => seat'[s][n] = seat[s][n]
                    /\ seat'[s][n].launch = seat[s][n].launch
                    /\ s = tgt[c] /\ n = m => seat'[s][n].retire = v
  BY DEF Retires
<1>1. seat[s] \in [Member -> SeatRecord] /\ seat[s][n] \in SeatRecord
  BY DEF SeatOK
<1>2. seat'[s][n] = IF s = tgt[c] /\ n = m THEN [seat[s][n] EXCEPT !.retire = v]
                   ELSE seat[s][n]
  BY <1>1 DEF SeatOK, Advance
<1> QED BY <1>1, <1>2 DEF SeatRecord

LEMMA FoundRetires ==
    ASSUME SeatOK, NEW c, NEW m, Found(c, m)
    PROVE  Retires(tgt[c], m, "stop")
BY SeatFound DEF Retires

(* Two workers that hold rooms hold different ones.                        *)
LEMMA Apart ==
    ASSUME Locked, NEW v \in Worker, NEW w \in Worker, v # w, HoldsRoom(v), HoldsRoom(w)
    PROVE  tgt[v] # tgt[w]
  BY DEF Locked

(* What a closer has proved of its room stands while the room, the seats   *)
(* it has seen and its own place do.                                       *)
Stands(c) ==
    /\ UNCHANGED <<at[c], tgt[c], seen[c], who[c]>>
    /\ HoldsRoom(c) =>
         /\ UNCHANGED room[tgt[c]]
         /\ \A m \in Member : seat[tgt[c]][m].retire = "gone" =>
                seat'[tgt[c]][m].retire = "gone"
         /\ at[c] = "unnamed" /\ Answers(tgt[c], who[c])' => Answers(tgt[c], who[c])

LEMMA StandsProved ==
    ASSUME TypeOK, NEW c \in Closer, Proved(c), Stands(c)
    PROVE  Proved(c)'
  BY DEF TypeOK, WorkOK, Worker, Closer, Proved, Stands, HoldsRoom

-----------------------------------------------------------------------------
(* The operator keeps it.                                                  *)
LEMMA AskTerminalHolds ==
    ASSUME EInv, NEW kind \in Terminal, AskTerminal(kind)
    PROVE  EInv'
<1>1. IInv'
  BY AskTerminalKeeps DEF EInv
<1>2. Served' /\ Seated' /\ Retired' /\ Cursors' /\ Linking' /\ Making' /\ Kept' /\ Fetched'
           /\ Unlinked' /\ Settling' /\ Erasing'
  BY DEF EInv, AskTerminal, delVars, roomVars, agentVars, workVars, mishapVars, Served,
       Serves, Records, Seated, IsOpen, Retired, Proved, Answers, Cursors, Linking, Making,
       Kept, Fetched, Unlinked, Live, Settling, Erased, Erasing
<1> QED BY <1>1, <1>2 DEF EInv

LEMMA AcceptTerminalHolds ==
    ASSUME EInv, AcceptTerminal
    PROVE  EInv'
<1>1. IInv'
  BY AcceptTerminalKeeps DEF EInv
<1>2. Served' /\ Seated' /\ Retired' /\ Cursors' /\ Linking' /\ Making' /\ Kept' /\ Erasing'
  BY DEF EInv, AcceptTerminal, delVars, roomVars, agentVars, workVars, mishapVars, Served,
       Serves, Records, Seated, IsOpen, Retired, Proved, Answers, Cursors, Linking, Making,
       Kept, Erasing
<1>3. Fetched'
  BY DEF EInv, Fetched, Records, AcceptTerminal, MayBegin, roomVars, workVars
<1>4. Unlinked'
  BY DEF EInv, IInv, Unlinked, Live, Records, Asked, Terminal, AcceptTerminal, roomVars
<1>5. Settling'
  BY DEF EInv, IInv, Settling, Erased, Records, Worker, Closer, Locked, HoldsTask,
       RoomOfTask, LinkIsHeld, AcceptTerminal, MayBegin, roomVars, workVars
<1> QED BY <1>1, <1>2, <1>3, <1>4, <1>5 DEF EInv

LEMMA ReviewTaskHolds ==
    ASSUME EInv, ReviewTask
    PROVE  EInv'
<1>1. IInv'
  BY ReviewTaskKeeps DEF EInv
<1>2. Served' /\ Seated' /\ Retired' /\ Cursors' /\ Linking' /\ Making' /\ Kept' /\ Fetched'
           /\ Settling' /\ Erasing'
  BY DEF EInv, ReviewTask, delVars, roomVars, agentVars, workVars, mishapVars, Served,
       Serves, Records, Seated, IsOpen, Retired, Proved, Answers, Cursors, Linking, Making,
       Kept, Fetched, Settling, Erased, Erasing
<1>3. Unlinked'
  BY DEF EInv, Unlinked, Live, ReviewTask
<1> QED BY <1>1, <1>2, <1>3 DEF EInv

LEMMA AcceptDeletionHolds ==
    ASSUME EInv, AcceptDeletion
    PROVE  EInv'
<1>1. IInv'
  BY AcceptDeletionKeeps DEF EInv
<1>2. Served' /\ Seated' /\ Retired' /\ Linking' /\ Making' /\ Kept' /\ Fetched' /\
           Unlinked' /\ Settling' /\ Erasing'
  BY DEF EInv, AcceptDeletion, taskVars, roomVars, agentVars, workVars, mishapVars, Served,
       Serves, Records, Seated, IsOpen, Retired, Proved, Answers, Linking, Making, Kept,
       Fetched, Unlinked, Live, Settling, Erased, Erasing
<1>3. Cursors'
  BY DEF Linking, TaskOK, EInv, IInv, TypeOK, Cursors, Worker, Closer, Locked, HoldsTask,
       NoCursor, RoomOrNone, AcceptDeletion, workVars
<1> QED BY <1>1, <1>2, <1>3 DEF EInv

LEMMA RoomDeletionHolds ==
    ASSUME EInv, NEW r \in Room, RoomDeletion(r)
    PROVE  EInv'
<1>1. IInv'
  BY RoomDeletionKeeps DEF EInv
<1>2. Served'
  BY DEF EInv, IInv, TypeOK, Served, Serves, Records, RoomOK, RoomDeletion, BeginRoomClose,
       taskVars, delVars, agentVars, mishapVars
<1>3. Seated'
  BY DEF EInv, IInv, TypeOK, Seated, IsOpen, RoomOK, RoomDeletion, BeginRoomClose
<1>4. Retired'
  BY DEF EInv, IInv, TypeOK, Retired, Proved, Answers, Worker, Closer, RoomOK, Locked,
       HoldsRoom, RoomDeletion, GoesFor, BeginRoomClose, agentVars
<1>5. Cursors'
  BY DEF EInv, Cursors, Answers, RoomDeletion, GoesFor, delVars, agentVars
<1>6. Linking'
  BY DEF EInv, IInv, TypeOK, Linking, IsOpen, Worker, RoomOK, Locked, HoldsRoom, Handled,
       RoomDeletion, GoesFor, BeginRoomClose, taskVars
<1>7. Making'
  BY DEF EInv, Making, RoomDeletion, GoesFor
<1>8. Kept'
  BY DEF EInv, IInv, TypeOK, Kept, Records, RoomOK, RoomDeletion, GoesFor, BeginRoomClose,
       mishapVars
<1>9. Fetched'
  BY DEF EInv, IInv, TypeOK, Fetched, Records, RoomOK, RoomDeletion, GoesFor,
       BeginRoomClose, taskVars
<1>10. Unlinked'
  BY DEF EInv, Unlinked, Live, Records, RoomDeletion, taskVars
<1>11. Settling'
  BY DEF EInv, IInv, TypeOK, Settling, Erased, Records, RoomOK, RoomDeletion, GoesFor,
       BeginRoomClose, taskVars
<1>12. Erasing'
  BY DEF EInv, IInv, TypeOK, Erasing, Worker, RoomOK, Locked, HoldsRoom, Handled, IsOpen,
       RoomDeletion, GoesFor, BeginRoomClose
<1> QED BY <1>1, <1>2, <1>3, <1>4, <1>5, <1>6, <1>7, <1>8, <1>9, <1>10, <1>11, <1>12 DEF
     EInv

-----------------------------------------------------------------------------
(* So does provisioning.                                                   *)
LEMMA ProvisionStartHolds ==
    ASSUME EInv, NEW p \in Provisioner, ProvisionStart(p)
    PROVE  EInv'
<1>1. IInv'
  BY ProvisionStartKeeps DEF EInv
<1>2. Served' /\ Seated'
  BY DEF EInv, ProvisionStart, roomVars, agentVars, Served, Serves, Records, Seated, IsOpen
<1>3. Retired'
  BY DEF EInv, IInv, TypeOK, Retired, Proved, Answers, WorkOK, Worker, ProvisionStart,
       GoesOn, GoesFor, roomVars, agentVars
<1>4. Cursors'
  BY DEF EInv, IInv, TypeOK, Cursors, Answers, WorkOK, Worker, Closer, ProvisionStart,
       GoesOn, GoesFor, delVars, agentVars
<1>5. Linking'
  BY DEF EInv, IInv, TypeOK, Linking, IsOpen, WorkOK, Worker, ProvisionStart, GoesOn,
       GoesFor, roomVars
<1>6. Making'
  BY DEF EInv, IInv, TypeOK, Making, WorkOK, Worker, RoomOfTask, LinkIsHeld, Publishing,
       ProvisionStart, GoesOn, GoesFor
<1>7. Kept'
  BY DEF EInv, IInv, TypeOK, Kept, Records, WorkOK, Worker, ProvisionStart, GoesOn, GoesFor,
       roomVars, mishapVars
<1>8. Fetched'
  BY DEF EInv, IInv, TypeOK, Fetched, Records, WorkOK, ProvisionStart, GoesOn, GoesFor,
       roomVars
<1>9. Unlinked'
  BY DEF EInv, Unlinked, Live, ProvisionStart
<1>10. Settling'
  BY DEF EInv, IInv, TypeOK, Settling, Erased, Records, WorkOK, Worker, Closer,
       ProvisionStart, GoesOn, GoesFor, roomVars
<1>11. Erasing'
  BY DEF EInv, IInv, TypeOK, Erasing, WorkOK, Worker, Closer, ProvisionStart, GoesOn,
       GoesFor, roomVars
<1> QED BY <1>1, <1>2, <1>3, <1>4, <1>5, <1>6, <1>7, <1>8, <1>9, <1>10, <1>11 DEF EInv

LEMMA PublishHolds ==
    ASSUME EInv, NEW p \in Provisioner, Publish(p)
    PROVE  EInv'
<1>1. IInv'
  BY PublishKeeps DEF EInv
<1>2. Served' /\ Seated' /\ Unlinked'
  BY DEF EInv, Publish, roomVars, agentVars, Served, Serves, Records, Seated, IsOpen,
       Unlinked, Live
<1>3. Retired'
  BY DEF EInv, IInv, TypeOK, Retired, Proved, Answers, WorkOK, Worker, Publish, Ends,
       GoesOn, roomVars, agentVars
<1>4. Cursors'
  BY DEF EInv, IInv, TypeOK, Cursors, Answers, WorkOK, Worker, Closer, Publish, Ends,
       GoesOn, delVars, agentVars
<1>5. Linking'
  BY DEF EInv, IInv, TypeOK, Linking, IsOpen, WorkOK, Worker, Locked, HoldsTask, Handled,
       Publish, Ends, Links, GoesOn, roomVars
<1>6. Making'
  BY DEF EInv, IInv, TypeOK, Making, WorkOK, Worker, Locked, HoldsTask, Publish, Ends,
       GoesOn
<1>7. Kept'
  BY DEF EInv, IInv, TypeOK, Kept, Records, WorkOK, Worker, Publish, Ends, GoesOn, roomVars,
       mishapVars
<1>8. Fetched'
  BY DEF EInv, IInv, TypeOK, Fetched, Records, WorkOK, Publish, Ends, Links, GoesOn,
       roomVars
<1>9. Settling'
  BY DEF EInv, IInv, TypeOK, Settling, Erased, Records, WorkOK, Worker, Closer, Publish,
       Ends, GoesOn, roomVars
<1>10. Erasing'
  BY DEF EInv, IInv, TypeOK, Erasing, WorkOK, Worker, Closer, Publish, Ends, GoesOn,
       roomVars
<1> QED BY <1>1, <1>2, <1>3, <1>4, <1>5, <1>6, <1>7, <1>8, <1>9, <1>10 DEF EInv

LEMMA CreateRemoteHolds ==
    ASSUME EInv, NEW p \in Provisioner, NEW r \in Room, CreateRemote(p, r)
    PROVE  EInv'
<1>1. IInv'
  BY CreateRemoteKeeps DEF EInv
<1>2. Served' /\ Seated' /\ Unlinked'
  BY DEF EInv, CreateRemote, taskVars, roomVars, agentVars, Served, Serves, Records, Seated,
       IsOpen, Unlinked, Live
<1>3. Retired'
  BY DEF EInv, Retired, Proved, Answers, CreateRemote, GoesFor, roomVars, agentVars
<1>4. Cursors'
  BY DEF EInv, Cursors, Answers, CreateRemote, GoesFor, delVars, agentVars
<1>5. Linking'
  BY DEF EInv, Linking, IsOpen, CreateRemote, GoesFor, taskVars, roomVars
<1>6. Making'
  BY DEF EInv, IInv, TypeOK, Making, WorkOK, Worker, Fetched, CreateRemote, GoesFor
<1>7. Kept'
  BY DEF EInv, IInv, TypeOK, Kept, Records, WorkOK, Worker, CreateRemote, GoesFor, roomVars,
       mishapVars
<1>8. Fetched'
  BY DEF EInv, IInv, TypeOK, Fetched, Records, RoomOK, CreateRemote, GoesFor, taskVars,
       roomVars
<1>9. Settling'
  BY DEF EInv, IInv, TypeOK, Settling, Erased, Records, WorkOK, Fetched, RoomOfTask, TaskOK,
       CreateRemote, GoesFor, taskVars, delVars, roomVars
<1>10. Erasing'
  BY DEF EInv, IInv, TypeOK, Erasing, WorkOK, Worker, Fetched, Closing, CreateRemote,
       GoesFor, roomVars, mishapVars
<1> QED BY <1>1, <1>2, <1>3, <1>4, <1>5, <1>6, <1>7, <1>8, <1>9, <1>10 DEF EInv

LEMMA RoomRefusedHolds ==
    ASSUME EInv, NEW p \in Provisioner, RoomRefused(p)
    PROVE  EInv'
<1>1. IInv'
  BY RoomRefusedKeeps DEF EInv
<1>2. Served' /\ Seated' /\ Unlinked'
  BY DEF EInv, RoomRefused, taskVars, roomVars, agentVars, Served, Serves, Records, Seated,
       IsOpen, Unlinked, Live
<1>3. Retired'
  BY DEF EInv, Retired, Proved, Answers, RoomRefused, Ends, roomVars, agentVars
<1>4. Cursors'
  BY DEF EInv, Cursors, Answers, RoomRefused, Ends, delVars, agentVars
<1>5. Linking'
  BY DEF EInv, Linking, IsOpen, RoomRefused, Ends, taskVars, roomVars
<1>6. Making'
  BY DEF EInv, IInv, Making, Worker, Locked, HoldsTask, RoomRefused, Ends
<1>7. Kept'
  BY DEF EInv, Kept, Records, RoomRefused, Ends, roomVars, mishapVars
<1>8. Fetched'
  BY DEF EInv, Fetched, RoomRefused
<1>9. Settling'
  BY DEF EInv, Settling, Erased, Records, RoomRefused, Ends, taskVars, roomVars
<1>10. Erasing'
  BY DEF EInv, Erasing, RoomRefused, Ends, roomVars
<1> QED BY <1>1, <1>2, <1>3, <1>4, <1>5, <1>6, <1>7, <1>8, <1>9, <1>10 DEF EInv

LEMMA RecordRoomHolds ==
    ASSUME EInv, NEW p \in Provisioner, RecordRoom(p)
    PROVE  EInv'
<1>1. IInv'
  BY RecordRoomKeeps DEF EInv
<1>2. Served'
  BY DEF EInv, Served, Serves, Records, RecordRoom, agentVars
<1>3. Seated'
  <2>1. \A r \in Room : room[r] = "none"
    BY DEF EInv, IInv, Publishing, Records, RecordRoom
  <2> QED BY <2>1 DEF EInv, Seated, IsOpen, NoSeat, IInv, TypeOK, RoomOK, RecordRoom
<1>4. Retired'
  <2>1. \A r \in Room : room[r] = "none"
    BY DEF EInv, IInv, Publishing, Records, RecordRoom
  <2>2. \A d \in Closer : tgt[d] \in Room => at[d] \notin
           {"retire", "archived", "unnamed", "unlist", "shut"}
    BY <2>1 DEF EInv, Retired, Proved
  <2>3. \A d \in Closer : at'[d] = at[d] /\ at[d] \notin
           {"spawn", "retire", "archived", "unnamed", "unlist", "shut"}
    BY <2>2 DEF EInv, Retired, Proved, IInv, TypeOK, WorkOK, Worker, Closer, Locked,
         HoldsRoom, RecordRoom, Ends, GoesOn
  <2> QED BY <2>3 DEF Retired, Proved
<1>5. Cursors'
  BY DEF EInv, IInv, TypeOK, Cursors, Answers, WorkOK, Worker, Closer, RecordRoom, Ends,
       GoesOn, delVars, agentVars
<1>6. Linking'
  BY DEF EInv, IInv, TypeOK, Linking, IsOpen, WorkOK, Worker, Locked, HoldsTask, Handled,
       Making, RoomOfTask, LinkIsHeld, Publishing, RecordRoom, Links, Ends, GoesOn
<1>7. Making'
  BY DEF EInv, IInv, TypeOK, Making, WorkOK, Worker, Locked, HoldsTask, RecordRoom, Ends,
       GoesOn
<1>8. Kept'
  BY DEF EInv, IInv, TypeOK, Kept, Records, WorkOK, Worker, RoomOK, RecordRoom, Ends,
       GoesOn, mishapVars
<1>9. Fetched'
  BY DEF EInv, IInv, TypeOK, Fetched, Records, WorkOK, Worker, RecordRoom, Links, Ends,
       GoesOn
<1>10. Unlinked'
  BY DEF EInv, IInv, Unlinked, Live, Publishing, RecordRoom
<1>11. Settling'
  BY DEF EInv, IInv, TypeOK, Settling, Erased, Records, WorkOK, Worker, Closer, RecordRoom,
       Ends, GoesOn
<1>12. Erasing'
  BY DEF EInv, IInv, TypeOK, Erasing, WorkOK, Worker, Closer, RoomOK, Records, Seated,
       Publishing, RecordRoom, Ends, GoesOn
<1> QED BY <1>1, <1>2, <1>3, <1>4, <1>5, <1>6, <1>7, <1>8, <1>9, <1>10, <1>11, <1>12 DEF
     EInv

LEMMA AttachOwnerHolds ==
    ASSUME EInv, NEW p \in Provisioner, AttachOwner(p)
    PROVE  EInv'
<1>1. IInv'
  BY AttachOwnerKeeps DEF EInv
<1>2. Served'
  BY DEF EInv, Served, Serves, Records, AttachOwner, agentVars
<1>3. Seated'
  BY DEF EInv, Seated, IsOpen, AttachOwner
<1>4. Retired'
  BY DEF EInv, IInv, TypeOK, Retired, Proved, Answers, WorkOK, Worker, AttachOwner, Ends,
       GoesOn, agentVars
<1>5. Cursors'
  BY DEF EInv, IInv, TypeOK, Cursors, Answers, WorkOK, Worker, Closer, AttachOwner, Ends,
       GoesOn, delVars, agentVars
<1>6. Linking'
  BY DEF EInv, IInv, TypeOK, Linking, IsOpen, WorkOK, Worker, AttachOwner, Ends, GoesOn,
       taskVars
<1>7. Making'
  BY DEF EInv, IInv, TypeOK, Making, WorkOK, Worker, Handled, AttachOwner, Ends, GoesOn
<1>8. Kept'
  BY DEF EInv, IInv, TypeOK, Kept, Records, WorkOK, Worker, AttachOwner, Ends, GoesOn,
       mishapVars
<1>9. Fetched'
  BY DEF EInv, IInv, TypeOK, Fetched, Records, WorkOK, AttachOwner, Ends, GoesOn, taskVars
<1>10. Unlinked'
  BY DEF EInv, Unlinked, Live, Records, AttachOwner, taskVars
<1>11. Settling'
  BY DEF EInv, IInv, TypeOK, Settling, Erased, Records, WorkOK, Worker, Closer, AttachOwner,
       Ends, GoesOn, taskVars
<1>12. Erasing'
  BY DEF EInv, IInv, TypeOK, Erasing, WorkOK, Worker, Closer, AttachOwner, Ends, GoesOn
<1> QED BY <1>1, <1>2, <1>3, <1>4, <1>5, <1>6, <1>7, <1>8, <1>9, <1>10, <1>11, <1>12 DEF
     EInv

LEMMA ProvisionMembersHolds ==
    ASSUME EInv, NEW p \in Provisioner, ProvisionMembers(p)
    PROVE  EInv'
<1>1. IInv'
  BY ProvisionMembersKeeps DEF EInv
<1>2. Served' /\ Seated' /\ Fetched' /\ Unlinked'
  BY DEF EInv, ProvisionMembers, GoesOn, taskVars, roomVars, agentVars, Served, Serves,
       Records, Seated, IsOpen, Fetched, Unlinked, Live
<1>3. Retired'
  BY DEF EInv, Retired, Proved, Answers, ProvisionMembers, GoesOn, roomVars, agentVars
<1>4. Cursors'
  BY DEF EInv, Cursors, Answers, ProvisionMembers, GoesOn, delVars, agentVars
<1>5. Linking'
  BY DEF EInv, Linking, IsOpen, ProvisionMembers, GoesOn, taskVars, roomVars
<1>6. Making'
  BY DEF EInv, Making, ProvisionMembers, GoesOn
<1>7. Kept'
  BY DEF EInv, Kept, Records, ProvisionMembers, GoesOn, roomVars, mishapVars
<1>8. Settling'
  BY DEF EInv, Settling, Erased, Records, ProvisionMembers, GoesOn, taskVars, roomVars
<1>9. Erasing'
  BY DEF EInv, Erasing, ProvisionMembers, GoesOn, roomVars
<1> QED BY <1>1, <1>2, <1>3, <1>4, <1>5, <1>6, <1>7, <1>8, <1>9 DEF EInv

LEMMA AdmitHolds ==
    ASSUME EInv, NEW p \in Provisioner, Admit(p)
    PROVE  EInv'
<1>1. IInv'
  BY AdmitKeeps DEF EInv
<1>2. Launches(tgt[p])
  <2>1. tgt[p] \in Room
    BY DEF EInv, IInv, Handled, Worker, Admit
  <2>2. \A m \in Member :
           /\ Published(tgt[p])[m].retire = seat[tgt[p]][m].retire
           /\ seat[tgt[p]][m].launch \in {"intent", "launched", "failed"} =>
                  Published(tgt[p])[m].launch \in {"intent", "launched", "failed"}
    BY DEF Published, NoSeat
  <2>3. seat' = seat \/ seat' = [seat EXCEPT ![tgt[p]] = Published(tgt[p])]
    BY DEF Admit, roomVars
  <2> QED BY <2>1, <2>2, <2>3, RowOf DEF EInv, IInv, TypeOK, Launches
<1>3. Served'
  <2>1. \A r \in Records : r \in Records'
    BY DEF EInv, IInv, TypeOK, RoomOK, Records, Admit, roomVars
  <2>2. \A r \in Room, n \in Member : Serves(r, n) => Serves(r, n)'
    BY <1>2, <2>1 DEF Serves, Launches
  <2>3. \A r \in Room, n \in Member : seat'[r][n].retire = seat[r][n].retire
    BY <1>2 DEF Launches
  <2>4. UNCHANGED <<agent, identity, owner>>
    BY DEF Admit, agentVars
  <2> QED BY <2>2, <2>3, <2>4 DEF EInv, Served, Serves, Records
<1>4. Seated'
  BY <1>2 DEF Launches, IsOpen, EInv, IInv, TypeOK, Seated, RoomOK, Admit, MayProvision,
       roomVars
<1>5. Retired'
  <2>1. \A d \in Closer : UNCHANGED <<at[d], tgt[d], seen[d], who[d]>>
    BY DEF EInv, IInv, TypeOK, WorkOK, Worker, Closer, Admit, LockRoom, GoesOn, Ends
  <2>2. \A d \in Closer : HoldsRoom(d) => tgt[d] \in Room /\ roomLock[tgt[d]] = d
    BY DEF EInv, IInv, Locked, Worker
  <2>3. \A d \in Closer : HoldsRoom(d) => tgt[d] # tgt[p]
    BY <2>2 DEF Admit, Closer
  <2>4. \A d \in Closer : Stands(d)
    BY <1>2, <2>1, <2>2, <2>3 DEF EInv, IInv, TypeOK, RoomOK, AgentOK, Worker, Handled,
         Stands, Launches, Answers, Admit, roomVars, agentVars
  <2> QED BY <2>4, StandsProved DEF EInv, IInv, Retired
<1>6. Cursors'
  BY DEF EInv, IInv, TypeOK, Cursors, Answers, WorkOK, Worker, Closer, Admit, GoesOn, Ends,
       delVars, agentVars
<1>7. Linking'
  BY DEF EInv, IInv, TypeOK, Linking, IsOpen, WorkOK, Worker, RoomOK, Locked, HoldsTask,
       Handled, Admit, GoesOn, Ends, taskVars, roomVars
<1>8. Making'
  BY DEF EInv, IInv, TypeOK, Making, WorkOK, Worker, Locked, HoldsTask, Admit, GoesOn, Ends
<1>9. Kept'
  BY DEF EInv, IInv, TypeOK, Kept, Records, WorkOK, Worker, RoomOK, Admit, GoesOn, Ends,
       roomVars, mishapVars
<1>10. Fetched'
  BY DEF EInv, IInv, TypeOK, Fetched, Records, WorkOK, RoomOK, Admit, GoesOn, Ends,
       taskVars, roomVars
<1>11. Unlinked'
  BY DEF EInv, Unlinked, Live, Records, Admit, MayProvision, taskVars, roomVars
<1>12. Settling'
  BY DEF EInv, IInv, TypeOK, Settling, Erased, Records, WorkOK, Worker, Closer, RoomOK,
       Admit, GoesOn, Ends, taskVars, roomVars
<1>13. Erasing'
  BY <1>2 DEF Launches, EInv, IInv, TypeOK, Erasing, WorkOK, Worker, Closer, RoomOK, Locked,
       HoldsTask, HoldsRoom, Handled, Admit, GoesOn, Ends, taskVars, roomVars, mishapVars
<1> QED BY <1>1, <1>2, <1>3, <1>4, <1>5, <1>6, <1>7, <1>8, <1>9, <1>10, <1>11, <1>12, <1>13
     DEF EInv

LEMMA RetainHolds ==
    ASSUME EInv, NEW p \in Provisioner, NEW m \in Member, Retain(p, m)
    PROVE  EInv'
<1>1. IInv'
  BY RetainKeeps DEF EInv
<1>2. Unlinked'
  BY DEF EInv, Retain, taskVars, Unlinked, Live, Records
<1>3. Launches(tgt[p])
  <2>1. seat' = seat \/ \E v \in {"intent", "launched", "failed"} :
           seat' = [seat EXCEPT ![tgt[p]][m].launch = v]
    BY DEF Retain
  <2> QED BY <2>1, LaunchOf DEF EInv, IInv, TypeOK, Launches
<1>4. Served'
  <2>1. \A r \in Room, n \in Member : Serves(r, n) => Serves(r, n)'
    BY <1>3 DEF Serves, Records, Launches, Retain
  <2>2. \A r \in Room, n \in Member : seat'[r][n].retire = seat[r][n].retire
    BY <1>3 DEF Launches
  <2>3. UNCHANGED <<agent, identity, owner>> \/
        /\ UNCHANGED <<identity, owner>> /\ agent' = [agent EXCEPT ![m] = "running"]
        /\ owner[m] = tgt[p]
    BY DEF Retain
  <2>4. Serves(tgt[p], m) /\ seat[tgt[p]][m].retire = "no"
    BY DEF EInv, IInv, Opened, IsOpen, Locked, HoldsRoom, Worker, Seated, Serves, Records,
         Retain
  <2> QED BY <2>1, <2>2, <2>3, <2>4 DEF EInv, IInv, TypeOK, AgentOK, Served, Serves,
         Records
<1>5. Seated'
  BY <1>3 DEF Launches, IsOpen, EInv, IInv, Seated, Opened, Retain
<1>6. Retired'
  <2>1. \A d \in Closer : UNCHANGED <<at[d], tgt[d], seen[d], who[d]>>
    BY DEF EInv, IInv, TypeOK, WorkOK, Worker, Closer, Retain, Done, Ends
  <2>2. \A d \in Closer : HoldsRoom(d) => tgt[d] \in Room /\ tgt[d] # tgt[p]
    BY Apart DEF EInv, IInv, Locked, HoldsRoom, Worker, Closer, Retain
  <2>3. \A d \in Closer : Stands(d)
    BY <1>3, <2>1, <2>2 DEF EInv, IInv, TypeOK, RoomOK, AgentOK, Worker, Handled, Stands,
         Launches, Answers, Retain, agentVars
  <2> QED BY <2>3, StandsProved DEF EInv, IInv, Retired
<1>7. Cursors'
  BY DEF EInv, IInv, TypeOK, Cursors, Answers, WorkOK, Worker, Closer, Handled, NoCursor,
       AgentOK, Fresh, Retain, MayRun, Done, Ends, taskVars, delVars
<1>8. Linking'
  BY DEF EInv, IInv, TypeOK, Linking, IsOpen, WorkOK, Worker, Retain, Done, Ends, taskVars
<1>9. Making'
  BY DEF EInv, IInv, TypeOK, Making, WorkOK, Worker, Locked, HoldsTask, Retain, Done, Ends
<1>10. Kept'
  BY DEF EInv, IInv, TypeOK, Kept, Records, WorkOK, Worker, Retain, Done, Ends, mishapVars
<1>11. Fetched'
  BY DEF EInv, IInv, TypeOK, Fetched, Records, WorkOK, Retain, Done, Ends, taskVars
<1>12. Settling'
  BY DEF EInv, IInv, TypeOK, Settling, Erased, Records, WorkOK, Worker, Closer, Retain,
       Done, Ends, taskVars
<1>13. Erasing'
  BY <1>3 DEF Launches, EInv, IInv, TypeOK, Erasing, WorkOK, Worker, Closer, Locked,
       HoldsTask, HoldsRoom, Handled, RoomOrNone, Seated, Retain, IsProven, Done, Ends
<1> QED BY <1>1, <1>2, <1>3, <1>4, <1>5, <1>6, <1>7, <1>8, <1>9, <1>10, <1>11, <1>12, <1>13
     DEF EInv

LEMMA RefuseMissingHolds ==
    ASSUME EInv, NEW p \in Provisioner, NEW m \in Member, RefuseMissing(p, m)
    PROVE  EInv'
<1>1. IInv'
  BY RefuseMissingKeeps DEF EInv
<1>2. Served' /\ Seated' /\ Unlinked'
  BY DEF EInv, RefuseMissing, taskVars, roomVars, agentVars, Served, Serves, Records,
       Seated, IsOpen, Unlinked, Live
<1>3. Retired'
  BY DEF EInv, Retired, Proved, Answers, RefuseMissing, Ends, roomVars, agentVars
<1>4. Cursors'
  BY DEF EInv, Cursors, Answers, RefuseMissing, Ends, delVars, agentVars
<1>5. Linking'
  BY DEF EInv, IInv, TypeOK, Linking, IsOpen, WorkOK, RefuseMissing, Ends, taskVars,
       roomVars
<1>6. Making'
  BY DEF EInv, IInv, Making, Worker, Locked, HoldsTask, RefuseMissing, Ends
<1>7. Kept'
  BY DEF EInv, Kept, Records, RefuseMissing, Ends, roomVars, mishapVars
<1>8. Fetched'
  BY DEF EInv, Fetched, Records, RefuseMissing, Ends, taskVars, roomVars
<1>9. Settling'
  BY DEF EInv, Settling, Erased, Records, RefuseMissing, Ends, taskVars, roomVars
<1>10. Erasing'
  BY DEF EInv, Erasing, RefuseMissing, Ends, roomVars
<1> QED BY <1>1, <1>2, <1>3, <1>4, <1>5, <1>6, <1>7, <1>8, <1>9, <1>10 DEF EInv

LEMMA LaunchMemberHolds ==
    ASSUME EInv, NEW p \in Provisioner, NEW m \in Member, LaunchMember(p, m)
    PROVE  EInv'
<1>1. IInv'
  BY LaunchMemberKeeps DEF EInv
<1>2. Unlinked'
  BY DEF EInv, LaunchMember, taskVars, Unlinked, Live, Records
<1>3. Launches(tgt[p])
  <2>1. seat' = seat \/ \E v \in {"intent", "launched", "failed"} :
           seat' = [seat EXCEPT ![tgt[p]][m].launch = v]
    BY DEF LaunchMember
  <2> QED BY <2>1, LaunchOf DEF EInv, IInv, TypeOK, Launches
<1>4. Served'
  <2>1. \A r \in Room, n \in Member : Serves(r, n) => Serves(r, n)'
    BY <1>3 DEF Serves, Records, Launches, LaunchMember
  <2>2. \A r \in Room, n \in Member : seat'[r][n].retire = seat[r][n].retire
    BY <1>3 DEF Launches
  <2>3. UNCHANGED <<agent, identity, owner>>
    BY DEF LaunchMember, agentVars
  <2> QED BY <2>1, <2>2, <2>3 DEF EInv, Served, Serves, Records
<1>5. Seated'
  BY <1>3 DEF Launches, IsOpen, EInv, Seated, LaunchMember, MayProvision
<1>6. Retired'
  BY <1>3 DEF Launches, EInv, IInv, TypeOK, Retired, Proved, Answers, WorkOK, Worker,
       Closer, Locked, HoldsRoom, LaunchMember, Handles, Ends
<1>7. Cursors'
  BY DEF EInv, IInv, TypeOK, Cursors, Answers, WorkOK, Worker, Closer, LaunchMember,
       Handles, Ends, delVars
<1>8. Linking'
  BY DEF EInv, IInv, TypeOK, Linking, IsOpen, WorkOK, Worker, LaunchMember, Handles, Ends,
       taskVars
<1>9. Making'
  BY DEF EInv, IInv, TypeOK, Making, WorkOK, Worker, Locked, HoldsTask, LaunchMember,
       Handles, Ends
<1>10. Kept'
  BY DEF EInv, IInv, TypeOK, Kept, Records, WorkOK, Worker, LaunchMember, Handles, Ends,
       mishapVars
<1>11. Fetched'
  BY DEF EInv, IInv, TypeOK, Fetched, Records, WorkOK, LaunchMember, Handles, Ends, taskVars
<1>12. Settling'
  BY DEF EInv, IInv, TypeOK, Settling, Erased, Records, WorkOK, Worker, Closer,
       LaunchMember, Handles, Ends, taskVars
<1>13. Erasing'
  BY <1>3 DEF Launches, EInv, IInv, TypeOK, Erasing, WorkOK, Worker, Closer, Locked,
       HoldsTask, HoldsRoom, LaunchMember, NoIntent, Handles, Ends
<1> QED BY <1>1, <1>2, <1>3, <1>4, <1>5, <1>6, <1>7, <1>8, <1>9, <1>10, <1>11, <1>12, <1>13
     DEF EInv

LEMMA SpawnedHolds ==
    ASSUME EInv, NEW p \in Provisioner, Spawned(p)
    PROVE  EInv'
<1>1. IInv'
  BY SpawnedKeeps DEF EInv
<1>2. Unlinked'
  BY DEF EInv, Spawned, taskVars, Unlinked, Live, Records
<1>3. Launches(tgt[p])
  <2>1. seat' = seat \/ \E v \in {"intent", "launched", "failed"} :
           seat' = [seat EXCEPT ![tgt[p]][who[p]].launch = v]
    BY DEF Spawned
  <2> QED BY <2>1, LaunchOf DEF EInv, IInv, TypeOK, Launches
<1>4. Served'
  <2>1. \A r \in Room, n \in Member : Serves(r, n) => Serves(r, n)'
    BY <1>3 DEF Serves, Records, Launches, Spawned
  <2>2. \A r \in Room, n \in Member : seat'[r][n].retire = seat[r][n].retire
    BY <1>3 DEF Launches
  <2>3. UNCHANGED <<agent, identity, owner>>
    BY DEF Spawned, agentVars
  <2> QED BY <2>1, <2>2, <2>3 DEF EInv, Served, Serves, Records
<1>5. Seated'
  BY <1>3 DEF Launches, IsOpen, EInv, IInv, Seated, Opened, Spawned
<1>6. Retired'
  <2>1. \A d \in Closer : UNCHANGED <<at[d], tgt[d], seen[d], who[d]>>
    BY DEF EInv, IInv, TypeOK, WorkOK, Worker, Closer, Spawned, Done, Ends
  <2>2. \A d \in Closer : HoldsRoom(d) => tgt[d] \in Room /\ tgt[d] # tgt[p]
    BY Apart DEF EInv, IInv, Locked, HoldsRoom, Worker, Closer, Spawned
  <2>3. \A d \in Closer : Stands(d)
    BY <1>3, <2>1, <2>2 DEF EInv, IInv, TypeOK, RoomOK, AgentOK, Worker, Handled, Stands,
         Launches, Answers, Spawned, agentVars
  <2> QED BY <2>3, StandsProved DEF EInv, IInv, Retired
<1>7. Cursors'
  BY DEF EInv, IInv, TypeOK, Cursors, Answers, WorkOK, Worker, Closer, Spawned, Done, Ends,
       delVars, agentVars
<1>8. Linking'
  BY DEF EInv, IInv, TypeOK, Linking, IsOpen, WorkOK, Worker, Spawned, Done, Ends, taskVars
<1>9. Making'
  BY DEF EInv, IInv, TypeOK, Making, WorkOK, Worker, Locked, HoldsTask, Spawned, Done, Ends
<1>10. Kept'
  BY DEF EInv, IInv, TypeOK, Kept, Records, WorkOK, Worker, Spawned, Done, Ends, mishapVars
<1>11. Fetched'
  BY DEF EInv, IInv, TypeOK, Fetched, Records, WorkOK, Spawned, Done, Ends, taskVars
<1>12. Settling'
  BY DEF EInv, IInv, TypeOK, Settling, Erased, Records, WorkOK, Worker, Closer, Spawned,
       Done, Ends, taskVars
<1>13. Erasing'
  BY <1>3 DEF Launches, EInv, IInv, TypeOK, Erasing, WorkOK, Worker, Closer, Locked,
       HoldsTask, HoldsRoom, RoomOrNone, Opened, Spawned, Done, Ends
<1> QED BY <1>1, <1>2, <1>3, <1>4, <1>5, <1>6, <1>7, <1>8, <1>9, <1>10, <1>11, <1>12, <1>13
     DEF EInv

LEMMA AwaitSeatsHolds ==
    ASSUME EInv, NEW p \in Provisioner, AwaitSeats(p)
    PROVE  EInv'
<1>1. IInv'
  BY AwaitSeatsKeeps DEF EInv
<1>2. Launches(tgt[p])
  <2>1. tgt[p] \in Room
    BY DEF EInv, IInv, Locked, HoldsRoom, Worker, AwaitSeats
  <2>2. \A m \in Member : seat[tgt[p]][m] \in SeatRecord
    BY <2>1 DEF EInv, IInv, TypeOK, SeatOK
  <2>3. \A m \in Member :
           /\ Reconciled(tgt[p])[m].retire = seat[tgt[p]][m].retire
           /\ Reconciled(tgt[p])[m].launch = seat[tgt[p]][m].launch
    BY <2>2 DEF Reconciled, SeatRecord
  <2>4. seat' = seat \/ seat' = [seat EXCEPT ![tgt[p]] = Reconciled(tgt[p])]
    BY DEF AwaitSeats
  <2> QED BY <2>1, <2>3, <2>4, RowOf DEF EInv, IInv, TypeOK, Launches
<1>3. Served'
  BY <1>2 DEF Launches, EInv, IInv, TypeOK, Served, Serves, Records, RoomOK, AwaitSeats,
       agentVars
<1>4. Seated'
  <2>1. IsOpen(tgt[p])
    BY DEF EInv, IInv, Opened, AwaitSeats
  <2>2. \A r \in Room : room'[r] = room[r] \/ (r = tgt[p] /\ room'[r] = "active")
    BY DEF EInv, IInv, TypeOK, RoomOK, AwaitSeats
  <2>3. \A r \in Room \ {tgt[p]} : \A m \in Member : seat'[r][m] = seat[r][m]
    BY <1>2 DEF Launches
  <2>4. \A r \in Room, m \in Member : seat'[r][m].retire = seat[r][m].retire
    BY <1>2 DEF Launches
  <2> QED BY <2>1, <2>2, <2>3, <2>4 DEF EInv, Seated, IsOpen
<1>5. Retired'
  <2>1. IsOpen(tgt[p])
    BY DEF EInv, IInv, Opened, AwaitSeats
  <2>2. \A c \in Closer : UNCHANGED <<at[c], tgt[c], seen[c], who[c]>>
    BY DEF EInv, IInv, TypeOK, WorkOK, Worker, Closer, AwaitSeats, Ends
  <2>3. \A c \in Closer : HoldsRoom(c) =>
           tgt[c] \in Room /\ (room[tgt[c]] \in {"retiring", "unlisting"} => room'[tgt[c]] = room[tgt[c]])
    BY <2>1 DEF EInv, IInv, TypeOK, RoomOK, Locked, Worker, IsOpen, AwaitSeats
  <2>4. \A r \in Room, m \in Member : seat'[r][m].retire = seat[r][m].retire
    BY <1>2 DEF Launches
  <2>5. \A r, m : Answers(r, m)' <=> Answers(r, m)
    BY DEF AwaitSeats, agentVars, Answers
  <2> QED BY <2>2, <2>3, <2>4, <2>5 DEF EInv, IInv, TypeOK, WorkOK, Worker, Retired, Proved, HoldsRoom
<1>6. Cursors'
  BY DEF EInv, Cursors, Answers, AwaitSeats, Ends, delVars, agentVars
<1>7. Linking'
  <2>1. linked' = linked /\ remote' = remote /\ tgt[p] \in Room /\ IsOpen(tgt[p])
    BY DEF EInv, IInv, Locked, HoldsRoom, Opened, Worker, AwaitSeats
  <2>2. roles' # {} => linked' # None
    <3>1. CASE roles' = roles
      BY <2>1, <3>1 DEF EInv, Linking
    <3>2. CASE Joined(tgt[p]) = Member /\ roles' = Member
      BY <2>1, <3>2 DEF EInv, Linking, Joined, AwaitSeats
    <3> QED BY <3>1, <3>2 DEF AwaitSeats
  <2>3. \A r \in Room : room'[r] \in {"owner", "members", "active"} => IsOpen(r)
    BY <2>1 DEF EInv, IInv, TypeOK, RoomOK, IsOpen, AwaitSeats
  <2>4. \A q \in Provisioner :
           at'[q] \in {"owner", "members", "admit", "launch", "spawn"} =>
               at[q] = at'[q] /\ tgt'[q] = tgt[q] /\ tgt[q] \in Room
    BY DEF EInv, IInv, TypeOK, WorkOK, Worker, AwaitSeats, Ends, Handled, Locked,
         HoldsRoom
  <2> QED BY <2>1, <2>2, <2>3, <2>4 DEF EInv, Linking, IsOpen
<1>8. Making'
  BY DEF EInv, IInv, Making, Worker, Locked, HoldsTask, AwaitSeats, Ends
<1>9. Kept'
  BY DEF EInv, IInv, TypeOK, Kept, Records, RoomOK, AwaitSeats, Ends, mishapVars
<1>10. Fetched'
  BY DEF EInv, IInv, TypeOK, Fetched, Records, Worker, RoomOK, AwaitSeats, Ends
<1>11. Unlinked'
  BY DEF EInv, IInv, TypeOK, Unlinked, Live, Records, RoomOK, IsOpen, Opened, AwaitSeats
<1>12. Settling'
  BY DEF EInv, IInv, TypeOK, Settling, Erased, Records, RoomOK, IsOpen, Opened, LinkIsHeld,
       TaskOK, AwaitSeats, Reconciled, Ends
<1>13. Erasing'
  BY <1>2 DEF Launches, IsOpen, EInv, IInv, TypeOK, Erasing, WorkOK, Worker, Closer, RoomOK,
       Locked, HoldsTask, HoldsRoom, Handled, Records, RoomOrNone, Seated, Fetched,
       Publishing, Closing, Opened, AwaitSeats, Reconciled, Joined, Ends
<1> QED BY <1>1, <1>2, <1>3, <1>4, <1>5, <1>6, <1>7, <1>8, <1>9, <1>10, <1>11, <1>12, <1>13
     DEF EInv

-----------------------------------------------------------------------------
(* So does a close.                                                        *)
LEMMA CloseUnrecordedHolds ==
    ASSUME EInv, NEW c \in Closer, CloseUnrecorded(c)
    PROVE  EInv'
<1>1. IInv'
  BY CloseUnrecordedKeeps DEF EInv
<1>2. Served' /\ Seated' /\ Unlinked'
  BY DEF EInv, CloseUnrecorded, taskVars, roomVars, agentVars, Served, Serves, Records,
       Seated, IsOpen, Unlinked, Live
<1>3. Retired'
  BY DEF EInv, IInv, TypeOK, Retired, Proved, Answers, WorkOK, Worker, CloseUnrecorded,
       GoesOn, Ends, roomVars, agentVars
<1>4. Cursors'
  BY DEF EInv, IInv, TypeOK, Cursors, Answers, WorkOK, Worker, Closer, CloseUnrecorded,
       GoesOn, Ends, delVars, agentVars
<1>5. Linking'
  BY DEF EInv, IInv, TypeOK, Linking, IsOpen, WorkOK, Worker, CloseUnrecorded, GoesOn, Ends,
       taskVars, roomVars
<1>6. Making'
  BY DEF EInv, IInv, TypeOK, Making, WorkOK, Worker, Closer, CloseUnrecorded, GoesOn, Ends
<1>7. Kept'
  BY DEF EInv, IInv, TypeOK, Kept, Records, WorkOK, Worker, CloseUnrecorded, GoesOn, Ends,
       roomVars, mishapVars
<1>8. Fetched'
  BY DEF EInv, IInv, TypeOK, Fetched, Records, WorkOK, CloseUnrecorded, GoesOn, Ends,
       taskVars, roomVars
<1>9. Settling'
  BY DEF EInv, IInv, TypeOK, Settling, Erased, Records, WorkOK, Worker, Closer,
       CloseUnrecorded, GoesOn, Ends, taskVars, roomVars
<1>10. Erasing'
  BY DEF EInv, IInv, TypeOK, Erasing, WorkOK, Worker, Closer, CloseUnrecorded, GoesOn, Ends,
       roomVars
<1> QED BY <1>1, <1>2, <1>3, <1>4, <1>5, <1>6, <1>7, <1>8, <1>9, <1>10 DEF EInv

LEMMA CloseAgainHolds ==
    ASSUME EInv, NEW c \in Closer, CloseAgain(c)
    PROVE  EInv'
<1>1. IInv'
  BY CloseAgainKeeps DEF EInv
<1>2. Served' /\ Seated' /\ Unlinked'
  BY DEF EInv, CloseAgain, taskVars, roomVars, agentVars, Served, Serves, Records, Seated,
       IsOpen, Unlinked, Live
<1>3. Retired'
  BY DEF EInv, IInv, TypeOK, Retired, Proved, Answers, WorkOK, Worker, CloseAgain, GoesOn,
       After, Ends, roomVars, agentVars
<1>4. Cursors'
  BY DEF EInv, IInv, TypeOK, Cursors, Answers, WorkOK, Worker, Closer, CloseAgain, GoesOn,
       After, Ends, delVars, agentVars
<1>5. Linking'
  BY DEF EInv, IInv, TypeOK, Linking, IsOpen, WorkOK, Worker, CloseAgain, GoesOn, Ends,
       taskVars, roomVars
<1>6. Making'
  BY DEF EInv, IInv, TypeOK, Making, WorkOK, Worker, Closer, CloseAgain, GoesOn, Ends
<1>7. Kept'
  BY DEF EInv, IInv, TypeOK, Kept, Records, WorkOK, Worker, CloseAgain, GoesOn, Ends,
       roomVars, mishapVars
<1>8. Fetched'
  BY DEF EInv, IInv, TypeOK, Fetched, Records, WorkOK, CloseAgain, GoesOn, Ends, taskVars,
       roomVars
<1>9. Settling'
  BY DEF EInv, IInv, TypeOK, Settling, Erased, Records, WorkOK, Worker, Closer, CloseAgain,
       GoesOn, After, Ends, taskVars, roomVars
<1>10. Erasing'
  BY DEF EInv, IInv, TypeOK, Erasing, WorkOK, Worker, Closer, Handled, Records, Publishing,
       CloseAgain, GoesOn, After, Ends, delVars, roomVars
<1> QED BY <1>1, <1>2, <1>3, <1>4, <1>5, <1>6, <1>7, <1>8, <1>9, <1>10 DEF EInv

LEMMA CloseRoomHolds ==
    ASSUME EInv, NEW c \in Closer, CloseRoom(c)
    PROVE  EInv'
<1>1. IInv'
  BY CloseRoomKeeps DEF EInv
<1>2. Launches(tgt[c])
  <2>1. tgt[c] \in Room
    BY DEF EInv, IInv, Handled, Worker, CloseRoom
  <2>2. \A m \in Member : seat[tgt[c]][m] \in SeatRecord
    BY <2>1 DEF EInv, IInv, TypeOK, SeatOK
  <2>3. \A m \in Member :
           /\ Recovered(tgt[c])[m].retire = seat[tgt[c]][m].retire
           /\ Recovered(tgt[c])[m].launch = seat[tgt[c]][m].launch
    BY <2>2 DEF Recovered, SeatRecord
  <2>4. seat' = seat \/ seat' = [seat EXCEPT ![tgt[c]] = Recovered(tgt[c])]
    BY DEF CloseRoom
  <2> QED BY <2>1, <2>3, <2>4, RowOf DEF EInv, IInv, TypeOK, Launches
<1>3. Served'
  BY <1>2 DEF Launches, EInv, Served, Serves, Records, CloseRoom, BeginRoomClose, agentVars
<1>4. Seated'
  BY <1>2 DEF Launches, IsOpen, EInv, Seated, CloseRoom, BeginRoomClose
<1>5. Retired'
  <2>1. \A d \in Closer : d # c => UNCHANGED <<at[d], tgt[d], seen[d], who[d]>>
    BY DEF EInv, IInv, TypeOK, WorkOK, Worker, Closer, CloseRoom, GoesFor, GoesOn
  <2>2. \A d \in Closer : d # c /\ HoldsRoom(d) => tgt[d] \in Room /\ tgt[d] # tgt[c]
    BY DEF EInv, IInv, Locked, Worker, Closer, CloseRoom, LockRoom
  <2>3. \A d \in Closer : d # c => Stands(d)
    BY <1>2, <2>1, <2>2 DEF EInv, IInv, TypeOK, RoomOK, Worker, Handled, Stands, Launches,
         Answers, CloseRoom, agentVars, BeginRoomClose
  <2>4. Proved(c)'
    BY <1>2 DEF EInv, IInv, TypeOK, WorkOK, RoomOK, Worker, Closer, Handled, Proved,
         IsOpen, CloseRoom, BeginRoomClose, GoesFor, GoesOn
  <2> QED BY <2>3, <2>4, StandsProved DEF EInv, IInv, Retired
<1>6. Cursors'
  BY DEF EInv, IInv, TypeOK, Cursors, Answers, WorkOK, Worker, Closer, CloseRoom, GoesOn,
       GoesFor, NoSeat, taskVars, delVars, agentVars
<1>7. Linking'
  BY DEF EInv, IInv, TypeOK, Linking, IsOpen, WorkOK, Worker, CloseRoom, BeginRoomClose,
       GoesOn, GoesFor, taskVars
<1>8. Making'
  BY DEF EInv, IInv, TypeOK, Making, WorkOK, Worker, CloseRoom, GoesOn, GoesFor
<1>9. Kept'
  BY DEF EInv, IInv, TypeOK, Kept, Records, WorkOK, Worker, CloseRoom, BeginRoomClose,
       GoesOn, GoesFor, mishapVars
<1>10. Fetched'
  BY DEF EInv, IInv, TypeOK, Fetched, Records, WorkOK, CloseRoom, BeginRoomClose, GoesOn,
       GoesFor, taskVars
<1>11. Unlinked'
  BY DEF EInv, Unlinked, Live, Records, CloseRoom, BeginRoomClose, taskVars
<1>12. Settling'
  BY DEF EInv, IInv, TypeOK, Settling, Erased, Records, WorkOK, Worker, Closer, CloseRoom,
       BeginRoomClose, GoesOn, GoesFor, taskVars
<1>13. Erasing'
  BY <1>2 DEF Launches, IsOpen, EInv, IInv, TypeOK, Erasing, WorkOK, Worker, Closer, RoomOK,
       Locked, HoldsTask, HoldsRoom, Records, RoomOrNone, Seated, Fetched, Publishing,
       Closing, Opened, CloseRoom, LockRoom, BeginRoomClose, GoesOn, GoesFor, Recovered,
       NoSeat, taskVars, delVars, agentVars, mishapVars
<1> QED BY <1>1, <1>2, <1>3, <1>4, <1>5, <1>6, <1>7, <1>8, <1>9, <1>10, <1>11, <1>12, <1>13
     DEF EInv

LEMMA RecordArchiveHolds ==
    ASSUME EInv, NEW c \in Closer, RecordArchive(c)
    PROVE  EInv'
<1>1. IInv'
  BY RecordArchiveKeeps DEF EInv
<1>2. Fetched' /\ Unlinked'
  BY DEF EInv, RecordArchive, GoesOn, taskVars, Fetched, Records, Unlinked, Live
<1>3. Retires(tgt[c], who[c], "archived")
  BY RetirementOf DEF EInv, IInv, TypeOK, RecordArchive
<1>4. Served'
  <2>1. \A r \in Room, n \in Member : Serves(r, n) => Serves(r, n)'
    BY <1>3 DEF Serves, Records, Retires, RecordArchive
  <2>2. tgt[c] \in Room /\ who[c] \in Member /\ seat[tgt[c]][who[c]].retire = "stopped"
    BY DEF EInv, IInv, Archiving, Locked, HoldsRoom, Worker, RecordArchive
  <2>3. \A r \in Room, n \in Member : seat[r][n].retire \in {"no", "stop"} =>
           seat'[r][n].retire = seat[r][n].retire
    BY <1>3, <2>2 DEF Retires
  <2>4. UNCHANGED <<agent, identity, owner>>
    BY DEF RecordArchive, agentVars
  <2> QED BY <2>1, <2>3, <2>4 DEF EInv, Served, Serves, Records
<1>5. Seated'
  BY <1>3 DEF Retires, IsOpen, EInv, Seated, Retired, Proved, RecordArchive, GoesOn,
       taskVars, delVars, agentVars, lockVars, mishapVars
<1>6. Retired'
  BY DEF EInv, IInv, Retired, Proved, Answers, WorkOK, Worker, RoomOK, Locked, HoldsTask,
       HoldsRoom, Handled, Served, Serves, Records, Seated, Opened, Closing, Archiving,
       AgentOK, RecordArchive, Advance, GoesOn, taskVars, delVars, agentVars, lockVars,
       mishapVars
<1>7. Cursors'
  BY DEF EInv, Cursors, Answers, RecordArchive, GoesOn, delVars, agentVars
<1>8. Linking'
  BY DEF EInv, Linking, IsOpen, RecordArchive, GoesOn, taskVars
<1>9. Making'
  BY DEF EInv, Making, RecordArchive, GoesOn
<1>10. Kept'
  BY DEF EInv, Kept, Records, RecordArchive, GoesOn, mishapVars
<1>11. Settling'
  BY DEF EInv, Settling, Erased, Records, RecordArchive, GoesOn, taskVars
<1>12. Erasing'
  <2>1. \A d \in Closer : d # c /\ HoldsRoom(d) => tgt[d] \in Room /\ tgt[d] # tgt[c]
    BY Apart DEF EInv, IInv, Locked, HoldsRoom, Worker, RecordArchive
  <2>2. \A d \in Closer : d # c /\ at[d] \in {"wipe", "drop"} =>
           \A n \in Member : seat'[tgt[d]][n] = seat[tgt[d]][n]
    BY <1>3, <2>1 DEF HoldsRoom, Retires
  <2> QED BY <2>2 DEF EInv, IInv, TypeOK, WorkOK, Worker, Closer, Erasing, RecordArchive,
         GoesOn
<1> QED BY <1>1, <1>2, <1>3, <1>4, <1>5, <1>6, <1>7, <1>8, <1>9, <1>10, <1>11, <1>12 DEF
     EInv

LEMMA RecordGoneHolds ==
    ASSUME EInv, NEW c \in Closer, RecordGone(c)
    PROVE  EInv'
<1>1. IInv'
  BY RecordGoneKeeps DEF EInv
<1>2. Unlinked'
  BY DEF EInv, RecordGone, taskVars, Unlinked, Live, Records
<1>3. seat' = seat \/ Retires(tgt[c], who[c], "gone")
  BY RetirementOf DEF EInv, IInv, TypeOK, RecordGone
<1>4. Served'
  <2>1. UNCHANGED <<agent, identity, owner, room>>
    BY DEF RecordGone, agentVars
  <2>2. ~Answers(tgt[c], who[c])
    BY DEF EInv, Retired, Proved, RecordGone
  <2>3. \A r \in Room, n \in Member : Answers(r, n) => seat'[r][n] = seat[r][n]
    BY <1>3, <2>2 DEF Retires
  <2> QED BY <2>1, <2>3 DEF EInv, Served, Serves, Records, Answers
<1>5. Seated'
  BY <1>3 DEF Retires, IsOpen, EInv, IInv, Seated, Closing, RecordGone, FreeAll
<1>6. Retired'
  <2>1. \A d \in Closer : d # c => UNCHANGED <<at[d], tgt[d], seen[d], who[d]>>
    BY DEF EInv, IInv, TypeOK, WorkOK, Worker, Closer, RecordGone, Done, Ends, GoesOn
  <2>2. \A d \in Closer : d # c /\ HoldsRoom(d) => tgt[d] \in Room /\ tgt[d] # tgt[c]
    BY Apart DEF EInv, IInv, Locked, HoldsRoom, Worker, RecordGone
  <2>3. \A d \in Closer : d # c => Stands(d)
    BY <1>3, <2>1, <2>2 DEF EInv, IInv, TypeOK, RoomOK, Worker, Handled, Stands, Retires,
         Answers, RecordGone, agentVars
  <2>4. Proved(c)'
    <3>1. tgt[c] \in Room /\ who[c] \in Member /\ seen[c] \subseteq Member /\ Proved(c)
      BY DEF EInv, IInv, TypeOK, WorkOK, Locked, HoldsRoom, Handled, Worker, Retired,
           RecordGone
    <3>2. CASE Ends(c)
      BY <3>2 DEF EInv, IInv, TypeOK, WorkOK, Worker, Proved, Ends
    <3>3. CASE Done(c, who[c], "retire") /\ Retires(tgt[c], who[c], "gone")
      BY <3>1, <3>3 DEF EInv, IInv, TypeOK, WorkOK, Worker, Proved, Retires, Done,
           RecordGone
    <3>4. Ends(c) \/ (Done(c, who[c], "retire") /\ Retires(tgt[c], who[c], "gone"))
      BY RetirementOf DEF EInv, IInv, TypeOK, RecordGone
    <3> QED BY <3>2, <3>3, <3>4
  <2> QED BY <2>3, <2>4, StandsProved DEF EInv, IInv, Retired
<1>7. Cursors'
  BY DEF EInv, IInv, TypeOK, Cursors, Answers, WorkOK, Worker, Closer, RecordGone, Ends,
       Done, delVars, agentVars
<1>8. Linking'
  BY DEF EInv, IInv, TypeOK, Linking, IsOpen, WorkOK, Worker, RecordGone, Ends, Done,
       taskVars
<1>9. Making'
  BY DEF EInv, IInv, TypeOK, Making, WorkOK, Worker, Closer, RecordGone, Ends, Done
<1>10. Kept'
  BY DEF EInv, IInv, TypeOK, Kept, Records, WorkOK, Worker, RecordGone, Ends, Done,
       mishapVars
<1>11. Fetched'
  BY DEF EInv, IInv, TypeOK, Fetched, Records, WorkOK, RecordGone, Ends, Done, taskVars
<1>12. Settling'
  BY DEF EInv, IInv, TypeOK, Settling, Erased, Records, WorkOK, Worker, Closer, RecordGone,
       Ends, Done, taskVars
<1>13. Erasing'
  BY <1>3 DEF Retires, EInv, IInv, TypeOK, Erasing, WorkOK, Worker, Closer, Locked,
       HoldsRoom, RecordGone, Ends, FreeAll, Done, taskVars
<1> QED BY <1>1, <1>2, <1>3, <1>4, <1>5, <1>6, <1>7, <1>8, <1>9, <1>10, <1>11, <1>12, <1>13
     DEF EInv

LEMMA AllRetiredHolds ==
    ASSUME EInv, NEW c \in Closer, AllRetired(c)
    PROVE  EInv'
<1>1. IInv'
  BY AllRetiredKeeps DEF EInv
<1>2. Served'
  BY DEF EInv, Served, Serves, Records, AllRetired, agentVars
<1>3. Seated'
  BY DEF EInv, Seated, IsOpen, Retired, Proved, AllRetired, Seats
<1>4. Retired'
  BY DEF EInv, IInv, TypeOK, Retired, Proved, Answers, WorkOK, Worker, RoomOK, Locked,
       HoldsRoom, AllRetired, GoesOn, agentVars
<1>5. Cursors'
  BY DEF EInv, Cursors, Answers, AllRetired, GoesOn, delVars, agentVars
<1>6. Linking'
  BY DEF EInv, Linking, IsOpen, AllRetired, GoesOn, taskVars
<1>7. Making'
  BY DEF EInv, Making, AllRetired, GoesOn
<1>8. Kept'
  BY DEF EInv, Kept, Records, AllRetired, GoesOn, mishapVars
<1>9. Fetched'
  BY DEF EInv, Fetched, Records, Worker, AllRetired, GoesOn, taskVars
<1>10. Unlinked'
  BY DEF EInv, IInv, Unlinked, Live, Records, Closing, AllRetired, taskVars
<1>11. Settling'
  BY DEF EInv, IInv, Settling, Erased, Records, Closing, AllRetired, GoesOn, taskVars
<1>12. Erasing'
  BY DEF EInv, IInv, Erasing, Closing, AllRetired, GoesOn
<1> QED BY <1>1, <1>2, <1>3, <1>4, <1>5, <1>6, <1>7, <1>8, <1>9, <1>10, <1>11, <1>12 DEF
     EInv

LEMMA RecheckHolds ==
    ASSUME EInv, NEW c \in Closer, NEW m \in Member, Recheck(c, m)
    PROVE  EInv'
<1>1. IInv'
  BY RecheckKeeps DEF EInv
<1>2. Served' /\ Seated' /\ Unlinked'
  BY DEF EInv, Recheck, taskVars, roomVars, agentVars, Served, Serves, Records, Seated,
       IsOpen, Unlinked, Live
<1>3. Retired'
  BY DEF EInv, IInv, TypeOK, Retired, Proved, Answers, WorkOK, Worker, Recheck, Retiring,
       Done, Ends, roomVars, agentVars
<1>4. Cursors'
  BY DEF EInv, IInv, TypeOK, Cursors, Answers, WorkOK, Worker, Closer, Recheck, Done, Ends,
       delVars, agentVars
<1>5. Linking'
  BY DEF EInv, IInv, TypeOK, Linking, IsOpen, WorkOK, Worker, Recheck, Done, Ends, taskVars,
       roomVars
<1>6. Making'
  BY DEF EInv, IInv, TypeOK, Making, WorkOK, Worker, Closer, Recheck, Done, Ends
<1>7. Kept'
  BY DEF EInv, IInv, TypeOK, Kept, Records, WorkOK, Worker, Closer, Recheck, Done, Ends,
       roomVars, mishapVars
<1>8. Fetched'
  BY DEF EInv, IInv, TypeOK, Fetched, Records, WorkOK, Recheck, Done, Ends, taskVars,
       roomVars
<1>9. Settling'
  BY DEF EInv, IInv, TypeOK, Settling, Erased, Records, WorkOK, Worker, Closer, Recheck,
       Retiring, Done, Ends, taskVars, roomVars
<1>10. Erasing'
  BY DEF EInv, IInv, TypeOK, Erasing, WorkOK, Worker, Closer, Recheck, Done, Ends, roomVars
<1> QED BY <1>1, <1>2, <1>3, <1>4, <1>5, <1>6, <1>7, <1>8, <1>9, <1>10 DEF EInv

LEMMA InspectHolds ==
    ASSUME EInv, NEW c \in Closer, NEW m \in Member, Inspect(c, m)
    PROVE  EInv'
<1>1. IInv'
  BY InspectKeeps DEF EInv
<1>2. Unlinked'
  BY DEF EInv, Inspect, taskVars, Unlinked, Live, Records
<1>3. seat' = seat \/ Retires(tgt[c], m, "stop")
  BY FoundRetires DEF EInv, IInv, TypeOK, Inspect
<1>4. Served'
  BY <1>3 DEF Retires, EInv, Served, Serves, Records, Inspect, Ends, agentVars
<1>5. Seated'
  BY <1>3 DEF Retires, IsOpen, EInv, Seated, Opened, Retired, Proved, Inspect, Retiring,
       FreeAll, Advance
<1>6. Retired'
  <2>1. \A d \in Closer : d # c => UNCHANGED <<at[d], tgt[d], seen[d], who[d]>>
    BY DEF EInv, IInv, TypeOK, WorkOK, Worker, Closer, Inspect, workVars, Ends, Retiring
  <2>2. \A d \in Closer : d # c /\ HoldsRoom(d) => tgt[d] \in Room /\ tgt[d] # tgt[c]
    BY Apart DEF EInv, IInv, Locked, HoldsRoom, Worker, Inspect, Retiring
  <2>3. \A d \in Closer : d # c => Stands(d)
    BY <1>3, <2>1, <2>2 DEF EInv, IInv, TypeOK, RoomOK, Worker, Handled, Stands, Retires,
         Answers, Inspect, agentVars
  <2>4. Proved(c)'
    <3>1. tgt[c] \in Room /\ seen[c] \subseteq Member /\ Proved(c) /\ m \notin seen[c]
      BY DEF EInv, IInv, TypeOK, WorkOK, Locked, HoldsRoom, Worker, Retired, Retiring,
           Inspect
    <3>2. CASE Ends(c)
      BY <3>2 DEF EInv, IInv, TypeOK, WorkOK, Worker, Proved, Ends
    <3>3. CASE UNCHANGED workVars
      BY <1>3, <3>1, <3>3 DEF Proved, Retires, workVars, Retiring, Inspect
    <3> QED BY <3>2, <3>3 DEF Inspect
  <2> QED BY <2>3, <2>4, StandsProved DEF EInv, IInv, Retired
<1>7. Cursors'
  BY DEF EInv, IInv, TypeOK, Cursors, Answers, WorkOK, Worker, Closer, Inspect, Ends,
       delVars, agentVars, workVars
<1>8. Linking'
  BY DEF EInv, IInv, TypeOK, Linking, IsOpen, WorkOK, Worker, Inspect, Ends, taskVars,
       workVars
<1>9. Making'
  BY DEF EInv, IInv, TypeOK, Making, WorkOK, Worker, Closer, Inspect, Ends, workVars
<1>10. Kept'
  BY DEF EInv, IInv, TypeOK, Kept, Records, WorkOK, Worker, Closer, Inspect, Ends, workVars,
       mishapVars
<1>11. Fetched'
  BY DEF EInv, IInv, TypeOK, Fetched, Records, WorkOK, Inspect, Ends, taskVars, workVars
<1>12. Settling'
  BY DEF EInv, IInv, TypeOK, Settling, Erased, Records, WorkOK, Worker, Closer, Inspect,
       Ends, taskVars, workVars
<1>13. Erasing'
  BY <1>3 DEF Retires, EInv, IInv, TypeOK, Erasing, WorkOK, Worker, Closer, Locked,
       HoldsTask, HoldsRoom, Inspect, Retiring, Seats, Ends, taskVars, agentVars, workVars,
       mishapVars
<1> QED BY <1>1, <1>2, <1>3, <1>4, <1>5, <1>6, <1>7, <1>8, <1>9, <1>10, <1>11, <1>12, <1>13
     DEF EInv

LEMMA StopMemberHolds ==
    ASSUME EInv, NEW c \in Closer, NEW m \in Member, StopMember(c, m)
    PROVE  EInv'
<1>1. IInv'
  BY StopMemberKeeps DEF EInv
<1>2. Linking' /\ Making' /\ Kept' /\ Fetched' /\ Unlinked' /\ Settling'
  BY DEF EInv, StopMember, taskVars, workVars, mishapVars, Linking, IsOpen, Making, Kept,
       Records, Fetched, Unlinked, Live, Settling, Erased
<1>3. Retires(tgt[c], m, "stopped")
  BY RetirementOf DEF EInv, IInv, TypeOK, StopMember
<1>4. Served'
  BY <1>3 DEF Retires, EInv, IInv, TypeOK, Served, Serves, Records, AgentOK, StopMember
<1>5. Seated'
  BY <1>3 DEF Retires, IsOpen, EInv, Seated, StopMember, Retiring, Seats, taskVars
<1>6. Retired'
  BY DEF EInv, Retired, Proved, Answers, StopMember, Advance, workVars
<1>7. Cursors'
  BY DEF EInv, Cursors, Answers, StopMember, delVars, workVars
<1>8. Erasing'
  BY DEF EInv, Erasing, StopMember, Retiring, Seats, Advance, workVars
<1> QED BY <1>1, <1>2, <1>3, <1>4, <1>5, <1>6, <1>7, <1>8 DEF EInv

LEMMA ArchiveMemberHolds ==
    ASSUME EInv, NEW c \in Closer, NEW m \in Member, ArchiveMember(c, m)
    PROVE  EInv'
<1>1. IInv'
  BY ArchiveMemberKeeps DEF EInv
<1>2. Seated' /\ Fetched' /\ Unlinked'
  BY DEF EInv, ArchiveMember, Handles, taskVars, roomVars, Seated, IsOpen, Fetched, Records,
       Unlinked, Live
<1>3. Served'
  BY DEF EInv, Served, Serves, Records, ArchiveMember, roomVars
<1>4. Retired'
  BY DEF EInv, Retired, Proved, Answers, ArchiveMember, Retiring, Handles, roomVars
<1>5. Cursors'
  BY DEF EInv, Cursors, Answers, ArchiveMember, Retiring, Handles, delVars
<1>6. Linking'
  BY DEF EInv, Linking, IsOpen, ArchiveMember, Handles, taskVars, roomVars
<1>7. Making'
  BY DEF EInv, Making, ArchiveMember, Handles
<1>8. Kept'
  BY DEF EInv, Kept, Records, ArchiveMember, Retiring, Handles, roomVars, mishapVars
<1>9. Settling'
  BY DEF EInv, Settling, Erased, Records, ArchiveMember, Retiring, Handles, taskVars,
       roomVars
<1>10. Erasing'
  BY DEF EInv, Erasing, ArchiveMember, Handles, roomVars
<1> QED BY <1>1, <1>2, <1>3, <1>4, <1>5, <1>6, <1>7, <1>8, <1>9, <1>10 DEF EInv

LEMMA RemoveIdentityHolds ==
    ASSUME EInv, NEW c \in Closer, NEW m \in Member, RemoveIdentity(c, m)
    PROVE  EInv'
<1>1. IInv'
  BY RemoveIdentityKeeps DEF EInv
<1>2. Seated' /\ Unlinked'
  BY DEF EInv, RemoveIdentity, taskVars, roomVars, Seated, IsOpen, Unlinked, Live, Records
<1>3. Served'
  BY DEF EInv, IInv, TypeOK, Served, Serves, Records, Locked, RoomOrNone, IsOpen, AgentOK,
       Retired, Proved, Erasing, Closing, RemoveIdentity, Retiring, Seats, NoSeat,
       MayRemove, Handles, Ends, FreeAll, taskVars, delVars, roomVars, lockVars, mishapVars
<1>4. Retired'
  <2>1. \A d \in Closer : d # c => UNCHANGED <<at[d], tgt[d], seen[d], who[d]>>
    BY DEF EInv, IInv, TypeOK, WorkOK, Worker, Closer, RemoveIdentity, Handles, Ends
  <2>2. UNCHANGED <<room, seat, agent, owner>>
    BY DEF RemoveIdentity, roomVars
  <2>3. \A n \in Member : identity'[n] \in {identity[n], None}
    BY DEF EInv, IInv, TypeOK, AgentOK, RemoveIdentity
  <2>4. \A d \in Closer : d # c => Stands(d)
    BY <2>1, <2>2, <2>3 DEF EInv, IInv, Locked, Worker, Handled, Stands, Answers
  <2>5. Proved(c) /\ at[c] = "retire" /\ tgt[c] \in Room
    BY DEF EInv, IInv, Locked, HoldsRoom, Worker, Retired, RemoveIdentity, Retiring
  <2>6. Proved(c)'
    <3>1. CASE Ends(c)
      BY <3>1 DEF EInv, IInv, TypeOK, WorkOK, Worker, Proved, Ends
    <3>2. CASE Handles(c, m, "unnamed") /\ identity' = [identity EXCEPT ![m] = None]
      <4>1. ~(agent[m] = "running" /\ owner[m] = tgt[c])
        BY DEF EInv, Served, RemoveIdentity
      <4>2. agent'[m] = agent[m] /\ owner'[m] = owner[m] /\ identity'[m] = None
        BY <2>2, <3>2 DEF EInv, IInv, TypeOK, AgentOK
      <4>3. /\ at'[c] = "unnamed" /\ tgt'[c] = tgt[c] /\ seen'[c] = seen[c] /\ who'[c] = m
        BY <3>2 DEF EInv, IInv, TypeOK, WorkOK, Worker, Handles
      <4> QED BY <2>2, <2>5, <4>1, <4>2, <4>3 DEF Proved, Answers
    <3> QED BY <3>1, <3>2 DEF RemoveIdentity
  <2> QED BY <2>4, <2>6, StandsProved DEF EInv, IInv, Retired
<1>5. Cursors'
  BY DEF EInv, IInv, TypeOK, Cursors, Answers, WorkOK, Worker, Closer, Handled, NoCursor,
       AgentOK, RemoveIdentity, MayRemove, Handles, Ends, FreeAll, delVars, roomVars,
       mishapVars
<1>6. Linking'
  BY DEF EInv, IInv, TypeOK, Linking, IsOpen, WorkOK, Worker, RemoveIdentity, Handles, Ends,
       taskVars, roomVars
<1>7. Making'
  BY DEF EInv, IInv, TypeOK, Making, WorkOK, Worker, Closer, RemoveIdentity, Handles, Ends
<1>8. Kept'
  BY DEF EInv, IInv, TypeOK, Kept, Records, WorkOK, Worker, Closer, RemoveIdentity, Handles,
       Ends, roomVars, mishapVars
<1>9. Fetched'
  BY DEF EInv, IInv, TypeOK, Fetched, Records, WorkOK, RemoveIdentity, Handles, Ends,
       taskVars, roomVars
<1>10. Settling'
  BY DEF EInv, IInv, TypeOK, Settling, Erased, Records, WorkOK, Worker, Closer,
       RemoveIdentity, Retiring, Handles, Ends, taskVars, roomVars
<1>11. Erasing'
  BY DEF EInv, IInv, TypeOK, Erasing, WorkOK, Worker, Closer, RemoveIdentity, Handles, Ends,
       roomVars
<1> QED BY <1>1, <1>2, <1>3, <1>4, <1>5, <1>6, <1>7, <1>8, <1>9, <1>10, <1>11 DEF EInv

LEMMA CloseRemoteHolds ==
    ASSUME EInv, NEW c \in Closer, CloseRemote(c)
    PROVE  EInv'
<1>1. IInv'
  BY CloseRemoteKeeps DEF EInv
<1>2. Served' /\ Seated' /\ Unlinked'
  BY DEF EInv, CloseRemote, taskVars, roomVars, agentVars, Served, Serves, Records, Seated,
       IsOpen, Unlinked, Live
<1>3. Retired'
  BY DEF EInv, Retired, Proved, Answers, CloseRemote, GoesOn, roomVars, agentVars
<1>4. Cursors'
  BY DEF EInv, Cursors, Answers, CloseRemote, GoesOn, delVars, agentVars
<1>5. Linking'
  BY DEF EInv, Linking, IsOpen, CloseRemote, GoesOn, taskVars, roomVars
<1>6. Making'
  BY DEF EInv, Making, CloseRemote, GoesOn
<1>7. Kept'
  BY DEF EInv, Kept, Records, CloseRemote, GoesOn, roomVars, mishapVars
<1>8. Fetched'
  BY DEF EInv, Fetched, Records, CloseRemote, GoesOn, taskVars, roomVars
<1>9. Settling'
  BY DEF EInv, Settling, Erased, Records, CloseRemote, GoesOn, taskVars, roomVars
<1>10. Erasing'
  BY DEF EInv, Erasing, CloseRemote, GoesOn, roomVars
<1> QED BY <1>1, <1>2, <1>3, <1>4, <1>5, <1>6, <1>7, <1>8, <1>9, <1>10 DEF EInv

LEMMA RecordClosedHolds ==
    ASSUME EInv, NEW c \in Closer, RecordClosed(c)
    PROVE  EInv'
<1>1. IInv'
  BY RecordClosedKeeps DEF EInv
<1>2. Served'
  BY DEF EInv, Served, Serves, Records, RecordClosed, agentVars
<1>3. Seated'
  BY DEF EInv, Seated, IsOpen, Retired, Proved, RecordClosed
<1>4. Retired'
  BY DEF EInv, IInv, TypeOK, Retired, Proved, Answers, WorkOK, Worker, Locked, HoldsRoom,
       RecordClosed, GoesOn, After, agentVars
<1>5. Cursors'
  BY DEF EInv, Cursors, Answers, RecordClosed, GoesOn, After, delVars, agentVars
<1>6. Linking'
  BY DEF EInv, Linking, IsOpen, RecordClosed, GoesOn, After, taskVars
<1>7. Making'
  BY DEF EInv, Making, RecordClosed, GoesOn, After
<1>8. Kept'
  BY DEF EInv, Kept, Records, RecordClosed, GoesOn, mishapVars
<1>9. Fetched'
  BY DEF EInv, Fetched, Records, Worker, RecordClosed, GoesOn, taskVars
<1>10. Unlinked'
  BY DEF EInv, IInv, Unlinked, Live, Records, Closing, RecordClosed, taskVars
<1>11. Settling'
  BY DEF EInv, IInv, Settling, Erased, Records, Closing, RoomOfTask, RecordClosed, FreeRoom,
       GoesOn, After, taskVars, delVars, agentVars
<1>12. Erasing'
  BY DEF EInv, IInv, TypeOK, Erasing, WorkOK, RoomOK, Locked, HoldsRoom, Records,
       Publishing, Closing, RecordClosed, GoesOn, After
<1> QED BY <1>1, <1>2, <1>3, <1>4, <1>5, <1>6, <1>7, <1>8, <1>9, <1>10, <1>11, <1>12 DEF
     EInv

-----------------------------------------------------------------------------
(* So does the erasure of a closed room.                                   *)
LEMMA EraseRoomHolds ==
    ASSUME EInv, NEW c \in {"settle", "room"}, EraseRoom(c)
    PROVE  EInv'
<1>1. IInv'
  BY EraseRoomKeeps DEF EInv
<1>2. Served' /\ Seated' /\ Fetched' /\ Unlinked'
  BY DEF EInv, EraseRoom, GoesOn, taskVars, roomVars, agentVars, Served, Serves, Records,
       Seated, IsOpen, Fetched, Unlinked, Live
<1>3. Retired'
  BY DEF EInv, Retired, Proved, Answers, EraseRoom, GoesOn, roomVars, agentVars
<1>4. Cursors'
  BY DEF EInv, Cursors, Answers, EraseRoom, GoesOn, delVars, agentVars
<1>5. Linking'
  BY DEF EInv, Linking, IsOpen, EraseRoom, GoesOn, taskVars, roomVars
<1>6. Making'
  BY DEF EInv, Making, EraseRoom, GoesOn
<1>7. Kept'
  BY DEF EInv, Kept, Records, EraseRoom, GoesOn, roomVars, mishapVars
<1>8. Settling'
  BY DEF EInv, Settling, Erased, Records, EraseRoom, GoesOn, taskVars, roomVars
<1>9. Erasing'
  BY DEF EInv, Erasing, EraseRoom, GoesOn, roomVars
<1> QED BY <1>1, <1>2, <1>3, <1>4, <1>5, <1>6, <1>7, <1>8, <1>9 DEF EInv

LEMMA DeleteRemoteHolds ==
    ASSUME EInv, NEW c \in {"settle", "room"}, DeleteRemote(c)
    PROVE  EInv'
<1>1. IInv'
  BY DeleteRemoteKeeps DEF EInv
<1>2. Served' /\ Seated' /\ Unlinked'
  BY DEF EInv, DeleteRemote, taskVars, roomVars, agentVars, Served, Serves, Records, Seated,
       IsOpen, Unlinked, Live
<1>3. Retired'
  BY DEF EInv, Retired, Proved, Answers, DeleteRemote, GoesOn, roomVars, agentVars
<1>4. Cursors'
  BY DEF EInv, Cursors, Answers, DeleteRemote, GoesOn, delVars, agentVars
<1>5. Linking'
  BY DEF EInv, Linking, IsOpen, DeleteRemote, Unlisted, GoesOn, taskVars, roomVars
<1>6. Making'
  BY DEF EInv, Making, DeleteRemote, GoesOn
<1>7. Kept'
  BY DEF EInv, Kept, Records, DeleteRemote, Unlisted, GoesOn, roomVars, mishapVars
<1>8. Fetched'
  BY DEF EInv, Fetched, Records, DeleteRemote, Unlisted, GoesOn, taskVars, roomVars
<1>9. Settling'
  BY DEF EInv, Settling, Erased, Records, DeleteRemote, Unlisted, GoesOn, taskVars, roomVars
<1>10. Erasing'
  BY DEF EInv, IInv, TypeOK, Erasing, WorkOK, RoomOK, Locked, HoldsRoom, Fetched,
       DeleteRemote, Unlisted, GoesOn, delVars, roomVars, mishapVars
<1> QED BY <1>1, <1>2, <1>3, <1>4, <1>5, <1>6, <1>7, <1>8, <1>9, <1>10 DEF EInv

LEMMA DropRecordHolds ==
    ASSUME EInv, NEW c \in {"settle", "room"}, DropRecord(c)
    PROVE  EInv'
<1>1. IInv'
  BY DropRecordKeeps DEF EInv
<1>2. UNCHANGED <<room, seat>> \/ Drops(tgt[c])
  BY DropsOf DEF EInv, IInv, TypeOK, DropRecord, roomVars
<1>3. Served'
  <2>1. \A n \in Member : ~Serves(tgt[c], n)
    BY DEF EInv, Erasing, Seated, Serves, Records, NoSeat, IInv, Closing, Closer,
         DropRecord
  <2>2. UNCHANGED <<agent, identity, owner>>
    BY DEF DropRecord, agentVars
  <2> QED BY <1>2, <2>1, <2>2 DEF EInv, Served, Serves, Records, Drops
<1>4. Seated'
  BY <1>2 DEF EInv, Seated, IsOpen, Drops, NoSeat
<1>5. Retired'
  <2>1. \A d \in Closer : d # c => UNCHANGED <<at[d], tgt[d], seen[d], who[d]>>
    BY DEF EInv, IInv, TypeOK, WorkOK, Worker, Closer, DropRecord, GoesOn, Ends
  <2>2. \A d \in Closer : d # c /\ HoldsRoom(d) => tgt[d] \in Room /\ tgt[d] # tgt[c]
    BY Apart DEF EInv, IInv, Locked, HoldsRoom, Worker, Closer, DropRecord
  <2>3. UNCHANGED <<agent, identity, owner>>
    BY DEF DropRecord, agentVars
  <2>4. \A d \in Closer : d # c => Stands(d)
    BY <1>2, <2>1, <2>2, <2>3 DEF EInv, IInv, Worker, Handled, Stands, Drops, Answers
  <2>5. Proved(c)'
    BY DEF EInv, IInv, TypeOK, WorkOK, Worker, Closer, Proved, DropRecord, GoesOn, Ends
  <2> QED BY <2>4, <2>5, StandsProved DEF EInv, IInv, Retired
<1>6. Cursors'
  BY DEF EInv, IInv, TypeOK, Cursors, Answers, WorkOK, Worker, Closer, DropRecord, GoesOn,
       Ends, delVars, agentVars
<1>7. Linking'
  BY DEF EInv, IInv, TypeOK, Linking, IsOpen, WorkOK, Worker, Closer, RoomOK, Locked,
       HoldsRoom, Handled, Erasing, DropRecord, Detaches, Unrecorded, GoesOn, Ends, FreeAll,
       delVars, roomVars, mishapVars
<1>8. Making'
  BY DEF EInv, IInv, TypeOK, Making, WorkOK, Worker, DropRecord, GoesOn, Ends
<1>9. Kept'
  BY DEF EInv, IInv, TypeOK, Kept, Records, WorkOK, Worker, Closer, RoomOK, Locked,
       HoldsTask, Erasing, DropRecord, Unrecorded, Ends, roomVars, mishapVars
<1>10. Fetched'
  BY DEF EInv, IInv, TypeOK, Fetched, Records, WorkOK, RoomOK, DropRecord, Detaches,
       Unrecorded, GoesOn, Ends, roomVars
<1>11. Unlinked'
  BY DEF EInv, IInv, TypeOK, Unlinked, Live, Records, RoomOK, DropRecord, Unrecorded,
       roomVars
<1>12. Settling'
  BY DEF EInv, IInv, TypeOK, Settling, Erased, Records, WorkOK, Worker, Closer, RoomOK,
       Erasing, DropRecord, Unrecorded, NoSeat, GoesOn, Ends, FreeAll, delVars, roomVars,
       agentVars, mishapVars
<1>13. Erasing'
  <2>1. \A d \in Closer : d # c => UNCHANGED <<at[d], tgt[d]>>
    BY DEF EInv, IInv, TypeOK, WorkOK, Worker, Closer, DropRecord, GoesOn, Ends
  <2>2. \A p \in Provisioner : UNCHANGED <<at[p], tgt[p]>>
    BY DEF EInv, IInv, TypeOK, WorkOK, Worker, Closer, DropRecord, GoesOn, Ends
  <2>3. at'[c] \in {"idle", "finish"} /\ remote' = remote
    BY DEF EInv, IInv, TypeOK, WorkOK, Worker, Closer, DropRecord, GoesOn, Ends
  <2>4. \A d \in Closer : at[d] \in {"wipe", "drop", "erase"} => tgt[d] \in Room
    BY DEF EInv, IInv, Locked, HoldsRoom, Handled, Worker
  <2> QED BY <1>2, <2>1, <2>2, <2>3, <2>4 DEF EInv, Erasing, Drops, Closer
<1> QED BY <1>1, <1>2, <1>3, <1>4, <1>5, <1>6, <1>7, <1>8, <1>9, <1>10, <1>11, <1>12, <1>13
     DEF EInv

-----------------------------------------------------------------------------
(* So does a settlement.                                                   *)
LEMMA SettleStartHolds ==
    ASSUME EInv, SettleStart
    PROVE  EInv'
<1>1. IInv'
  BY SettleStartKeeps DEF EInv
<1>2. Served' /\ Seated' /\ Unlinked'
  BY DEF EInv, SettleStart, taskVars, roomVars, agentVars, Served, Serves, Records, Seated,
       IsOpen, Unlinked, Live
<1>3. Retired'
  BY DEF EInv, IInv, TypeOK, Retired, Proved, Answers, WorkOK, Worker, SettleStart, GoesFor,
       GoesOn, roomVars, agentVars
<1>4. Cursors'
  BY DEF EInv, IInv, TypeOK, Cursors, Answers, WorkOK, Worker, Closer, SettleStart, GoesFor,
       GoesOn, delVars, agentVars
<1>5. Linking'
  BY DEF EInv, IInv, TypeOK, Linking, IsOpen, WorkOK, Worker, SettleStart, GoesFor, GoesOn,
       taskVars, roomVars
<1>6. Making'
  BY DEF EInv, IInv, TypeOK, Making, WorkOK, Worker, SettleStart, GoesFor, GoesOn
<1>7. Kept'
  BY DEF EInv, IInv, TypeOK, Kept, Records, WorkOK, Worker, SettleStart, GoesFor, GoesOn,
       roomVars, mishapVars
<1>8. Fetched'
  BY DEF EInv, IInv, TypeOK, Fetched, Records, WorkOK, SettleStart, GoesFor, GoesOn,
       taskVars, roomVars
<1>9. Settling'
  BY DEF EInv, IInv, TypeOK, Settling, Erased, Records, WorkOK, Worker, SettleStart,
       GoesFor, GoesOn, taskVars, roomVars
<1>10. Erasing'
  BY DEF EInv, IInv, TypeOK, Erasing, WorkOK, Worker, Closer, SettleStart, GoesFor, GoesOn,
       roomVars
<1> QED BY <1>1, <1>2, <1>3, <1>4, <1>5, <1>6, <1>7, <1>8, <1>9, <1>10 DEF EInv

LEMMA FinishIntentHolds ==
    ASSUME EInv, FinishIntent
    PROVE  EInv'
<1>1. IInv'
  BY FinishIntentKeeps DEF EInv
<1>2. Served' /\ Seated'
  BY DEF EInv, FinishIntent, roomVars, agentVars, Served, Serves, Records, Seated, IsOpen
<1>3. Retired'
  BY DEF EInv, Retired, Proved, Answers, FinishIntent, Ends, roomVars, agentVars
<1>4. Cursors'
  BY DEF EInv, Cursors, Answers, FinishIntent, Ends, delVars, agentVars
<1>5. Linking'
  BY DEF EInv, Linking, IsOpen, FinishIntent, Ends, roomVars
<1>6. Making'
  BY DEF EInv, Making, FinishIntent, Ends
<1>7. Kept'
  BY DEF EInv, Kept, Records, FinishIntent, Ends, roomVars, mishapVars
<1>8. Fetched'
  BY DEF EInv, Fetched, Records, FinishIntent, Ends, roomVars
<1>9. Unlinked'
  BY DEF EInv, IInv, Unlinked, Live, Asked, Terminal, FinishIntent
<1>10. Settling'
  BY DEF EInv, Settling, Erased, Records, FinishIntent, Ends, roomVars
<1>11. Erasing'
  BY DEF EInv, Erasing, FinishIntent, Ends, roomVars
<1> QED BY <1>1, <1>2, <1>3, <1>4, <1>5, <1>6, <1>7, <1>8, <1>9, <1>10, <1>11 DEF EInv

-----------------------------------------------------------------------------
(* So does a deletion.                                                     *)
LEMMA DeleteStartHolds ==
    ASSUME EInv, DeleteStart
    PROVE  EInv'
<1>1. IInv'
  BY DeleteStartKeeps DEF EInv
<1>2. Served' /\ Seated' /\ Fetched' /\ Unlinked'
  BY DEF EInv, DeleteStart, GoesOn, taskVars, roomVars, agentVars, Served, Serves, Records,
       Seated, IsOpen, Fetched, Unlinked, Live
<1>3. Retired'
  BY DEF EInv, Retired, Proved, Answers, DeleteStart, GoesOn, roomVars, agentVars
<1>4. Cursors'
  BY DEF EInv, Cursors, Answers, DeleteStart, GoesOn, delVars, agentVars
<1>5. Linking'
  BY DEF EInv, Linking, IsOpen, DeleteStart, GoesOn, taskVars, roomVars
<1>6. Making'
  BY DEF EInv, Making, DeleteStart, GoesOn
<1>7. Kept'
  BY DEF EInv, Kept, Records, DeleteStart, GoesOn, roomVars, mishapVars
<1>8. Settling'
  BY DEF EInv, Settling, Erased, Records, DeleteStart, GoesOn, taskVars, roomVars
<1>9. Erasing'
  BY DEF EInv, Erasing, DeleteStart, GoesOn, roomVars
<1> QED BY <1>1, <1>2, <1>3, <1>4, <1>5, <1>6, <1>7, <1>8, <1>9 DEF EInv

LEMMA ScanRecordHolds ==
    ASSUME EInv, NEW r \in Room, ScanRecord(r)
    PROVE  EInv'
<1>1. IInv'
  BY ScanRecordKeeps DEF EInv
<1>2. Served' /\ Seated' /\ Unlinked'
  BY DEF EInv, ScanRecord, taskVars, roomVars, agentVars, Served, Serves, Records, Seated,
       IsOpen, Unlinked, Live
<1>3. Retired'
  BY DEF EInv, IInv, TypeOK, Retired, Proved, Answers, WorkOK, Worker, ScanRecord, Ends,
       GoesFor, roomVars, agentVars
<1>4. Cursors'
  BY DEF EInv, IInv, TypeOK, Cursors, Answers, WorkOK, ScanRecord, Ends, Upserts, GoesFor,
       agentVars
<1>5. Linking'
  BY DEF EInv, IInv, TypeOK, Linking, IsOpen, WorkOK, Worker, ScanRecord, Ends, GoesFor,
       taskVars, roomVars
<1>6. Making'
  BY DEF EInv, IInv, TypeOK, Making, WorkOK, Worker, ScanRecord, Ends, GoesFor
<1>7. Kept'
  BY DEF EInv, IInv, TypeOK, Kept, Records, WorkOK, Worker, ScanRecord, Ends, GoesFor,
       roomVars, mishapVars
<1>8. Fetched'
  BY DEF EInv, IInv, TypeOK, Fetched, Records, WorkOK, ScanRecord, Ends, GoesFor, taskVars,
       roomVars
<1>9. Settling'
  BY DEF EInv, IInv, TypeOK, Settling, Erased, Records, WorkOK, Worker, Closer, ScanRecord,
       Ends, GoesFor, taskVars, roomVars
<1>10. Erasing'
  BY DEF EInv, IInv, TypeOK, Erasing, WorkOK, Worker, ScanRecord, Ends, GoesFor, roomVars
<1> QED BY <1>1, <1>2, <1>3, <1>4, <1>5, <1>6, <1>7, <1>8, <1>9, <1>10 DEF EInv

LEMMA ScanDoneHolds ==
    ASSUME EInv, ScanDone
    PROVE  EInv'
<1>1. IInv'
  BY ScanDoneKeeps DEF EInv
<1>2. Served' /\ Seated' /\ Unlinked'
  BY DEF EInv, ScanDone, roomVars, agentVars, Served, Serves, Records, Seated, IsOpen,
       Unlinked
<1>3. Retired'
  BY DEF EInv, IInv, Retired, Proved, Worker, Locked, HoldsRoom, Serves, Records, Seated,
       Opened, Closing, Archiving, AgentOK, ScanDone, GoesFor, taskVars, delVars
<1>4. Cursors'
  BY DEF EInv, Cursors, Answers, ScanDone, GoesFor, delVars, agentVars
<1>5. Linking'
  BY DEF EInv, Linking, IsOpen, ScanDone, GoesFor, taskVars, roomVars
<1>6. Making'
  BY DEF EInv, Making, ScanDone, GoesFor
<1>7. Kept'
  BY DEF EInv, Kept, ScanDone, GoesFor, mishapVars
<1>8. Fetched'
  BY DEF EInv, Fetched, Records, ScanDone, GoesFor, taskVars, roomVars
<1>9. Settling'
  BY DEF EInv, Settling, Erased, Records, ScanDone, GoesFor, taskVars, roomVars
<1>10. Erasing'
  BY DEF EInv, Erasing, ScanDone, GoesFor, roomVars
<1> QED BY <1>1, <1>2, <1>3, <1>4, <1>5, <1>6, <1>7, <1>8, <1>9, <1>10 DEF EInv

LEMMA ImportEvidenceHolds ==
    ASSUME EInv, ImportEvidence
    PROVE  EInv'
<1>1. IInv'
  BY ImportEvidenceKeeps DEF EInv
<1>2. Served' /\ Seated' /\ Unlinked'
  BY DEF EInv, ImportEvidence, taskVars, roomVars, agentVars, Served, Serves, Records,
       Seated, IsOpen, Unlinked, Live
<1>3. Retired'
  BY DEF EInv, IInv, TypeOK, Retired, Proved, Answers, WorkOK, Worker, ImportEvidence, Ends,
       GoesOn, roomVars, agentVars
<1>4. Cursors'
  <2>1. tgt["delete"] \in Room
    BY DEF EInv, IInv, Closing, ImportEvidence
  <2>2. UNCHANGED <<agent, identity, owner>> /\ at'["delete"] # "cleared"
    BY DEF ImportEvidence, agentVars, EInv, IInv, TypeOK, WorkOK, Worker, Closer, GoesOn,
         Ends
  <2>3. CASE cursor' = cursor
    BY <2>2, <2>3 DEF EInv, Cursors, Answers
  <2>4. CASE cursor' # cursor
    <3>1. \A m \in Seats(tgt["delete"]) : seat[tgt["delete"]][m].retire = "gone"
      BY <2>4 DEF ImportEvidence
    <3>2. Known(tgt["delete"]) \subseteq Seats(tgt["delete"])
      BY DEF Known, Seats, NoSeat
    <3>3. \A m \in Known(tgt["delete"]) : ~Answers(tgt["delete"], m)
      BY <2>1, <3>1, <3>2 DEF EInv, Served, Serves, Answers, Seats
    <3>4. \A m \in Member : cursor'[m] =
             IF m \in Known(tgt["delete"]) THEN [phase |-> "gone", room |-> tgt["delete"]]
             ELSE cursor[m]
      BY <2>4 DEF ImportEvidence
    <3> QED BY <2>1, <2>2, <3>3, <3>4 DEF EInv, Cursors, Answers, Known
  <2> QED BY <2>3, <2>4
<1>5. Linking'
  BY DEF EInv, IInv, TypeOK, Linking, IsOpen, WorkOK, Worker, ImportEvidence, Ends, GoesOn,
       taskVars, roomVars
<1>6. Making'
  BY DEF EInv, IInv, TypeOK, Making, WorkOK, Worker, ImportEvidence, Ends, GoesOn
<1>7. Kept'
  BY DEF EInv, IInv, TypeOK, Kept, Records, WorkOK, Worker, ImportEvidence, Ends, GoesOn,
       roomVars, mishapVars
<1>8. Fetched'
  BY DEF EInv, IInv, TypeOK, Fetched, Records, WorkOK, ImportEvidence, Ends, GoesOn,
       taskVars, roomVars
<1>9. Settling'
  BY DEF EInv, IInv, TypeOK, Settling, Erased, Records, WorkOK, Worker, Closer,
       ImportEvidence, Ends, GoesOn, taskVars, roomVars
<1>10. Erasing'
  BY DEF EInv, IInv, TypeOK, Erasing, WorkOK, Worker, ImportEvidence, Ends, GoesOn, roomVars
<1> QED BY <1>1, <1>2, <1>3, <1>4, <1>5, <1>6, <1>7, <1>8, <1>9, <1>10 DEF EInv

LEMMA DeleteRoomOfTaskHolds ==
    ASSUME EInv, DeleteRoomOfTask
    PROVE  EInv'
<1>1. IInv'
  BY DeleteRoomOfTaskKeeps DEF EInv
<1>2. Served' /\ Seated' /\ Unlinked'
  BY DEF EInv, DeleteRoomOfTask, taskVars, roomVars, agentVars, Served, Serves, Records,
       Seated, IsOpen, Unlinked, Live
<1>3. Retired'
  BY DEF EInv, Retired, Proved, Answers, DeleteRoomOfTask, GoesOn, roomVars, agentVars
<1>4. Cursors'
  BY DEF EInv, Cursors, Answers, DeleteRoomOfTask, GoesOn, delVars, agentVars
<1>5. Linking'
  BY DEF EInv, Linking, IsOpen, DeleteRoomOfTask, Unlisted, GoesOn, taskVars, roomVars
<1>6. Making'
  BY DEF EInv, Making, DeleteRoomOfTask, GoesOn
<1>7. Kept'
  BY DEF EInv, Kept, Records, DeleteRoomOfTask, Unlisted, GoesOn, roomVars, mishapVars
<1>8. Fetched'
  BY DEF EInv, Fetched, Records, DeleteRoomOfTask, Unlisted, GoesOn, taskVars, roomVars
<1>9. Settling'
  BY DEF EInv, Settling, Erased, Records, DeleteRoomOfTask, Unlisted, GoesOn, taskVars,
       roomVars
<1>10. Erasing'
  BY DEF EInv, IInv, TypeOK, Erasing, WorkOK, RoomOK, Fetched, Closing, DeleteRoomOfTask,
       Unlisted, GoesOn, delVars, roomVars
<1> QED BY <1>1, <1>2, <1>3, <1>4, <1>5, <1>6, <1>7, <1>8, <1>9, <1>10 DEF EInv

LEMMA DropRecordOfTaskHolds ==
    ASSUME EInv, DropRecordOfTask
    PROVE  EInv'
<1>1. IInv'
  BY DropRecordOfTaskKeeps DEF EInv
<1>2. Drops(tgt["delete"])
  BY DropsOf DEF EInv, IInv, TypeOK, DropRecordOfTask
<1>3. Served'
  BY DEF EInv, IInv, Served, Serves, Records, Seated, Erasing, Closing, DropRecordOfTask,
       Unrecorded, NoSeat, taskVars, delVars, agentVars, lockVars, mishapVars
<1>4. Seated'
  BY <1>2 DEF EInv, Seated, IsOpen, Drops, NoSeat
<1>5. Retired'
  BY DEF EInv, IInv, Retired, Proved, Answers, Records, Opened, Closing, Archiving, AgentOK,
       DropRecordOfTask, Unrecorded, NoSeat, GoesFor, taskVars, delVars, agentVars,
       lockVars, mishapVars
<1>6. Cursors'
  BY DEF EInv, Cursors, Answers, DropRecordOfTask, GoesFor, delVars, agentVars
<1>7. Linking'
  BY DEF EInv, Linking, IsOpen, DropRecordOfTask, Unrecorded, GoesFor, taskVars
<1>8. Making'
  BY DEF EInv, Making, DropRecordOfTask, GoesFor
<1>9. Kept'
  BY DEF EInv, IInv, Kept, Records, Worker, Closer, Locked, HoldsTask, Erasing,
       DropRecordOfTask, Unrecorded, mishapVars
<1>10. Fetched'
  BY DEF EInv, Fetched, Records, DropRecordOfTask, Unrecorded, GoesFor, taskVars
<1>11. Unlinked'
  BY DEF EInv, Unlinked, Live, Records, DropRecordOfTask, Unrecorded, taskVars
<1>12. Settling'
  BY DEF EInv, Settling, Erased, Records, Fetched, Erasing, Publishing, TaskOK,
       DropRecordOfTask, Unrecorded, GoesFor, taskVars
<1>13. Erasing'
  BY DEF EInv, IInv, TypeOK, Erasing, WorkOK, DropRecordOfTask, Unrecorded, GoesFor
<1> QED BY <1>1, <1>2, <1>3, <1>4, <1>5, <1>6, <1>7, <1>8, <1>9, <1>10, <1>11, <1>12, <1>13
     DEF EInv

LEMMA CursorRecheckHolds ==
    ASSUME EInv, NEW m \in Member, CursorRecheck(m)
    PROVE  EInv'
<1>1. IInv'
  BY CursorRecheckKeeps DEF EInv
<1>2. Served' /\ Seated' /\ Unlinked'
  BY DEF EInv, CursorRecheck, taskVars, roomVars, agentVars, Served, Serves, Records,
       Seated, IsOpen, Unlinked, Live
<1>3. Retired'
  BY DEF EInv, IInv, TypeOK, Retired, Proved, Answers, WorkOK, Worker, CursorRecheck, Done,
       Ends, roomVars, agentVars
<1>4. Cursors'
  BY DEF EInv, IInv, TypeOK, Cursors, Answers, WorkOK, CursorRecheck, Done, Ends, delVars,
       agentVars
<1>5. Linking'
  BY DEF EInv, IInv, TypeOK, Linking, IsOpen, WorkOK, Worker, CursorRecheck, Done, Ends,
       taskVars, roomVars
<1>6. Making'
  BY DEF EInv, IInv, TypeOK, Making, WorkOK, Worker, CursorRecheck, Done, Ends
<1>7. Kept'
  BY DEF EInv, IInv, TypeOK, Kept, Records, WorkOK, Worker, CursorRecheck, Done, Ends,
       roomVars, mishapVars
<1>8. Fetched'
  BY DEF EInv, IInv, TypeOK, Fetched, Records, WorkOK, CursorRecheck, Done, Ends, taskVars,
       roomVars
<1>9. Settling'
  BY DEF EInv, IInv, TypeOK, Settling, Erased, Records, WorkOK, Worker, Closer,
       CursorRecheck, Done, Ends, taskVars, roomVars
<1>10. Erasing'
  BY DEF EInv, IInv, TypeOK, Erasing, WorkOK, Worker, CursorRecheck, Done, Ends, roomVars
<1> QED BY <1>1, <1>2, <1>3, <1>4, <1>5, <1>6, <1>7, <1>8, <1>9, <1>10 DEF EInv

LEMMA CursorRemoveHolds ==
    ASSUME EInv, NEW m \in Member, CursorRemove(m)
    PROVE  EInv'
<1>1. IInv'
  BY CursorRemoveKeeps DEF EInv
<1>2. Seated' /\ Fetched' /\ Unlinked'
  BY DEF EInv, CursorRemove, Handles, taskVars, roomVars, Seated, IsOpen, Fetched, Records,
       Unlinked, Live
<1>3. Served'
  BY DEF EInv, Served, Serves, Records, CursorRemove, taskVars, roomVars, mishapVars
<1>4. Retired'
  BY DEF EInv, IInv, TypeOK, Retired, Proved, Answers, WorkOK, Worker, Locked, HoldsRoom,
       CursorRemove, Handles, taskVars, roomVars
<1>5. Cursors'
  BY DEF EInv, IInv, TypeOK, Cursors, Answers, WorkOK, AgentOK, Records, CursorRemove,
       Resumes, Handles, taskVars, delVars, mishapVars
<1>6. Linking'
  BY DEF EInv, Linking, IsOpen, CursorRemove, Handles, taskVars, roomVars
<1>7. Making'
  BY DEF EInv, Making, CursorRemove, Handles
<1>8. Kept'
  BY DEF EInv, Kept, Records, CursorRemove, Handles, roomVars, mishapVars
<1>9. Settling'
  BY DEF EInv, Settling, Erased, Records, CursorRemove, Handles, taskVars, roomVars
<1>10. Erasing'
  BY DEF EInv, Erasing, CursorRemove, Handles, roomVars
<1> QED BY <1>1, <1>2, <1>3, <1>4, <1>5, <1>6, <1>7, <1>8, <1>9, <1>10 DEF EInv

LEMMA CursorGoneHolds ==
    ASSUME EInv, CursorGone
    PROVE  EInv'
<1>1. IInv'
  BY CursorGoneKeeps DEF EInv
<1>2. Served' /\ Seated' /\ Fetched' /\ Unlinked'
  BY DEF EInv, CursorGone, Done, taskVars, roomVars, agentVars, Served, Serves, Records,
       Seated, IsOpen, Fetched, Unlinked, Live
<1>3. Retired'
  BY DEF EInv, Retired, Proved, Answers, CursorGone, Done, roomVars, agentVars
<1>4. Cursors'
  BY DEF EInv, IInv, TypeOK, Cursors, Answers, WorkOK, Worker, Closer, CursorGone, Marks,
       Done, agentVars
<1>5. Linking'
  BY DEF EInv, Linking, IsOpen, CursorGone, Done, taskVars, roomVars
<1>6. Making'
  BY DEF EInv, Making, CursorGone, Done
<1>7. Kept'
  BY DEF EInv, Kept, Records, CursorGone, Done, roomVars, mishapVars
<1>8. Settling'
  BY DEF EInv, Settling, Erased, Records, CursorGone, Done, taskVars, roomVars
<1>9. Erasing'
  BY DEF EInv, Erasing, CursorGone, Done, roomVars
<1> QED BY <1>1, <1>2, <1>3, <1>4, <1>5, <1>6, <1>7, <1>8, <1>9 DEF EInv

LEMMA CleanupDoneHolds ==
    ASSUME EInv, CleanupDone
    PROVE  EInv'
<1>1. IInv'
  BY CleanupDoneKeeps DEF EInv
<1>2. Served' /\ Seated' /\ Unlinked'
  BY DEF EInv, CleanupDone, taskVars, roomVars, agentVars, Served, Serves, Records, Seated,
       IsOpen, Unlinked, Live
<1>3. Retired'
  BY DEF EInv, Retired, Proved, Answers, CleanupDone, GoesOn, roomVars, agentVars
<1>4. Cursors'
  BY DEF EInv, Cursors, Answers, CleanupDone, GoesOn, delVars, agentVars
<1>5. Linking'
  BY DEF EInv, IInv, TypeOK, Linking, IsOpen, Worker, Closer, RoomOK, Locked, HoldsTask,
       Handled, CleanupDone, Unlisted, GoesOn, taskVars, roomVars
<1>6. Making'
  BY DEF EInv, Making, CleanupDone, GoesOn
<1>7. Kept'
  BY DEF EInv, IInv, TypeOK, Kept, Records, RoomOK, CleanupDone, Unlisted, GoesOn, roomVars,
       mishapVars
<1>8. Fetched'
  BY DEF EInv, IInv, TypeOK, Fetched, Records, RoomOK, CleanupDone, Unlisted, GoesOn,
       taskVars, roomVars
<1>9. Settling'
  BY DEF EInv, IInv, TypeOK, Settling, Erased, Records, RoomOK, RoomOrNone, TaskOK,
       CleanupDone, Unlisted, GoesOn, taskVars, roomVars
<1>10. Erasing'
  BY DEF EInv, IInv, TypeOK, Erasing, Worker, RoomOK, Locked, HoldsRoom, CleanupDone,
       Unlisted, GoesOn, roomVars
<1> QED BY <1>1, <1>2, <1>3, <1>4, <1>5, <1>6, <1>7, <1>8, <1>9, <1>10 DEF EInv

LEMMA UnlinkTaskHolds ==
    ASSUME EInv, UnlinkTask
    PROVE  EInv'
<1>1. IInv'
  BY UnlinkTaskKeeps DEF EInv
<1>2. Served' /\ Seated'
  BY DEF EInv, UnlinkTask, roomVars, agentVars, Served, Serves, Records, Seated, IsOpen
<1>3. Retired'
  BY DEF EInv, Retired, Proved, Answers, UnlinkTask, Ends, roomVars, agentVars
<1>4. Cursors'
  <2>1. UNCHANGED <<agent, identity, owner>> /\ at'["delete"] # "cleared"
    BY DEF UnlinkTask, agentVars, EInv, IInv, TypeOK, WorkOK, Worker, Closer, Ends
  <2>2. cursor' = cursor \/ cursor' = [m \in Member |-> NoCursor]
    BY DEF UnlinkTask, delVars
  <2> QED BY <2>1, <2>2 DEF EInv, Cursors, Answers, NoCursor
<1>5. Linking'
  BY DEF EInv, IInv, Linking, IsOpen, Worker, Locked, HoldsTask, Handled, Records,
       UnlinkTask, Ends, MayUnlink, roomVars
<1>6. Making'
  BY DEF EInv, Making, UnlinkTask, Ends
<1>7. Kept'
  BY DEF EInv, Kept, Records, UnlinkTask, Ends, roomVars, mishapVars
<1>8. Fetched'
  BY DEF EInv, Fetched, Records, UnlinkTask, Ends, NoIntent, roomVars
<1>9. Unlinked'
  BY DEF EInv, Unlinked, Live, Records, UnlinkTask, MayUnlink, roomVars
<1>10. Settling'
  BY DEF EInv, IInv, Settling, Erased, Records, Worker, Closer, Locked, HoldsTask,
       UnlinkTask, Ends, NoIntent, roomVars
<1>11. Erasing'
  BY DEF EInv, Erasing, UnlinkTask, Ends, roomVars
<1> QED BY <1>1, <1>2, <1>3, <1>4, <1>5, <1>6, <1>7, <1>8, <1>9, <1>10, <1>11 DEF EInv

-----------------------------------------------------------------------------
(* So do the members.                                                      *)
LEMMA LaunchHolds ==
    ASSUME EInv, NEW m \in Member, Launch(m)
    PROVE  EInv'
<1>1. IInv'
  BY LaunchKeeps DEF EInv
<1>2. Seated' /\ Linking' /\ Making' /\ Kept' /\ Fetched' /\ Unlinked' /\ Settling' /\
           Erasing'
  BY DEF EInv, Launch, taskVars, roomVars, workVars, mishapVars, Seated, IsOpen, Linking,
       Making, Kept, Records, Fetched, Unlinked, Live, Settling, Erased, Erasing
<1>3. Served'
  BY DEF EInv, IInv, TypeOK, Served, Serves, Records, HoldsRoom, Handled, Seated, IsOpen,
       AgentOK, Erasing, Closing, Launch, delVars, roomVars, workVars, mishapVars
<1>4. Retired'
  BY DEF EInv, IInv, TypeOK, Retired, Proved, Answers, Worker, Handled, Seated, Closing,
       AgentOK, Launch, delVars, roomVars, workVars, lockVars, mishapVars
<1>5. Cursors'
  <2>1. UNCHANGED <<cursor, at, who, identity>>
    BY DEF Launch, delVars, workVars
  <2>2. \A n \in Member : agent'[n] = "running" => agent[n] = "running" /\ owner'[n] = owner[n]
    BY DEF EInv, IInv, TypeOK, AgentOK, Launch
  <2>3. at["delete"] = "cleared" => who["delete"] \in Member
    BY DEF EInv, IInv, Handled, Worker, Closer
  <2> QED BY <2>1, <2>2, <2>3 DEF EInv, Cursors, Answers
<1> QED BY <1>1, <1>2, <1>3, <1>4, <1>5 DEF EInv

LEMMA RunHolds ==
    ASSUME EInv, NEW m \in Member, Run(m)
    PROVE  EInv'
<1>1. IInv'
  BY RunKeeps DEF EInv
<1>2. Seated' /\ Linking' /\ Making' /\ Kept' /\ Fetched' /\ Unlinked' /\ Settling' /\
           Erasing'
  BY DEF EInv, Run, taskVars, roomVars, workVars, mishapVars, Seated, IsOpen, Linking,
       Making, Kept, Records, Fetched, Unlinked, Live, Settling, Erased, Erasing
<1>3. Served'
  BY DEF EInv, IInv, TypeOK, Served, Serves, Records, AgentOK, Run, MayRun, IsProven,
       roomVars
<1>4. Retired'
  <2>1. \A r : room[r] = "retiring" /\ Answers(r, m)' => Answers(r, m)
    BY DEF EInv, IInv, TypeOK, AgentOK, Answers, Run, MayRun, IsOpen
  <2>2. \A r : \A n \in Member : n # m /\ Answers(r, n)' => Answers(r, n)
    BY DEF EInv, IInv, TypeOK, AgentOK, Answers, Run
  <2>3. \A c \in Closer : at[c] = "unnamed" => who[c] \in Member
    BY DEF EInv, IInv, Handled, Worker, Closer
  <2> QED BY <2>1, <2>2, <2>3 DEF EInv, Retired, Proved, Run, roomVars, workVars
<1>5. Cursors'
  BY DEF EInv, IInv, TypeOK, Cursors, Answers, Worker, Closer, Handled, NoCursor, AgentOK,
       Fresh, Run, MayRun, IsOpen, taskVars, delVars, roomVars, workVars, lockVars,
       mishapVars
<1> QED BY <1>1, <1>2, <1>3, <1>4, <1>5 DEF EInv

LEMMA JoinHolds ==
    ASSUME EInv, NEW m \in Member, Join(m)
    PROVE  EInv'
<1>1. IInv'
  BY JoinKeeps DEF EInv
<1>2. Seated' /\ Linking' /\ Making' /\ Kept' /\ Fetched' /\ Unlinked' /\ Settling' /\
           Erasing'
  BY DEF EInv, Join, taskVars, roomVars, workVars, mishapVars, Seated, IsOpen, Linking,
       Making, Kept, Records, Fetched, Unlinked, Live, Settling, Erased, Erasing
<1>3. Served'
  BY DEF EInv, Served, Serves, Records, Join, roomVars
<1>4. Retired'
  BY DEF EInv, Retired, Proved, Answers, Join, roomVars, workVars
<1>5. Cursors'
  BY DEF EInv, Cursors, Answers, Join, delVars, workVars
<1> QED BY <1>1, <1>2, <1>3, <1>4, <1>5 DEF EInv

LEMMA LeaveHolds ==
    ASSUME EInv, NEW m \in Member, Leave(m)
    PROVE  EInv'
<1>1. IInv'
  BY LeaveKeeps DEF EInv
<1>2. Seated' /\ Linking' /\ Making' /\ Kept' /\ Fetched' /\ Unlinked' /\ Settling' /\
           Erasing'
  BY DEF EInv, Leave, taskVars, roomVars, workVars, mishapVars, Seated, IsOpen, Linking,
       Making, Kept, Records, Fetched, Unlinked, Live, Settling, Erased, Erasing
<1>3. Served'
  BY DEF EInv, Served, Serves, Records, Leave, taskVars, roomVars
<1>4. Retired'
  BY DEF EInv, Retired, Proved, Answers, Leave, roomVars, workVars
<1>5. Cursors'
  BY DEF EInv, Cursors, Answers, Leave, delVars, workVars
<1> QED BY <1>1, <1>2, <1>3, <1>4, <1>5 DEF EInv

-----------------------------------------------------------------------------
(* So do the mishaps.                                                      *)
LEMMA StepFailsHolds ==
    ASSUME EInv, NEW w \in Worker, StepFails(w)
    PROVE  EInv'
<1>1. IInv'
  BY StepFailsKeeps DEF EInv
<1>2. Unlinked'
  BY DEF EInv, StepFails, taskVars, Unlinked, Live, Records
<1>3. Launches(tgt[w])
  <2>1. seat' = seat \/ \E v \in {"intent", "launched", "failed"} :
           seat' = [seat EXCEPT ![tgt[w]][who[w]].launch = v]
    BY DEF StepFails
  <2> QED BY <2>1, LaunchOf DEF EInv, IInv, TypeOK, Launches
<1>4. Served'
  <2>1. \A m \in Member : agent'[m] = "running" => agent[m] = "running"
    BY DEF EInv, IInv, TypeOK, AgentOK, StepFails, SpawnLost
  <2>2. \A r \in Room, m \in Member : Serves(r, m) => Serves(r, m)'
    BY <1>3 DEF Launches, Serves, Records, StepFails
  <2> QED BY <1>3, <2>1, <2>2 DEF EInv, Launches, Served, Serves, Records, StepFails
<1>5. Seated'
  <2>1. \A r \in Room, n \in Member : seat'[r][n].retire = seat[r][n].retire
    BY <1>3 DEF Launches
  <2>2. at[w] = "spawn" => w \in Provisioner /\ IsOpen(tgt[w])
    BY DEF EInv, IInv, Opened, Retired, Proved, Worker
  <2>3. \A r \in Room : room[r] \in {"none", "unlisting", "closed"} =>
           \A n \in Member : seat'[r][n] = seat[r][n]
    BY <1>3, <2>2 DEF IsOpen, Launches, StepFails
  <2> QED BY <2>1, <2>3 DEF EInv, Seated, IsOpen, StepFails
<1>6. Retired'
  <2>1. \A d \in Closer : d # w => UNCHANGED <<at[d], tgt[d], seen[d], who[d]>>
    BY DEF EInv, IInv, TypeOK, WorkOK, Worker, Closer, StepFails, Ends
  <2>2. \A d \in Closer, n \in Member : HoldsRoom(d) =>
           seat'[tgt[d]][n].retire = seat[tgt[d]][n].retire
    BY <1>3 DEF EInv, IInv, Locked, Worker, Launches
  <2>3. \A n \in Member : agent'[n] = "running" => agent[n] = "running"
    BY DEF EInv, IInv, TypeOK, AgentOK, StepFails, SpawnLost
  <2>4. \A d \in Closer : d # w => Stands(d)
    BY <2>1, <2>2, <2>3 DEF EInv, IInv, Worker, Handled, Stands, Answers, StepFails
  <2>5. w \in Closer => Proved(w)'
    BY DEF EInv, IInv, TypeOK, WorkOK, Worker, Closer, Proved, StepFails, Ends
  <2> QED BY <2>4, <2>5, StandsProved DEF EInv, IInv, Retired
<1>7. Cursors'
  BY DEF IsOpen, EInv, IInv, TypeOK, Cursors, Answers, WorkOK, Worker, Closer, RoomOK,
       Locked, HoldsTask, HoldsRoom, Handled, NoCursor, RoomOrNone, AgentOK, Accepted,
       Fresh, DeletionOK, Served, Serves, Records, StepFails, Mishap, Ends, FreeAll,
       SpawnLost, taskVars, delVars
<1>8. Linking'
  BY DEF EInv, IInv, TypeOK, Linking, IsOpen, WorkOK, StepFails, Ends, taskVars
<1>9. Making'
  BY DEF EInv, IInv, TypeOK, Making, WorkOK, Worker, HoldsRoom, Handled, StepFails, Ends
<1>10. Kept'
  BY DEF EInv, Kept, Records, StepFails, Ends
<1>11. Fetched'
  BY DEF EInv, Fetched, Records, StepFails, Ends, taskVars
<1>12. Settling'
  BY DEF EInv, IInv, TypeOK, Settling, Erased, Records, WorkOK, StepFails, Ends, taskVars
<1>13. Erasing'
  <2>1. \A v \in Worker : at'[v] # "idle" => UNCHANGED <<at[v], tgt[v]>>
    BY DEF EInv, IInv, TypeOK, WorkOK, StepFails, Ends
  <2>2. UNCHANGED <<room, remote>>
    BY DEF StepFails
  <2>3. \A d \in Closer : d # w /\ at[d] \in {"wipe", "drop"} =>
           \A n \in Member : seat'[tgt[d]][n] = seat[tgt[d]][n]
    <3>1. at[w] = "spawn" => w \in Provisioner
      BY DEF EInv, Retired, Proved, Worker
    <3>2. \A d \in Closer : d # w /\ at[d] \in {"wipe", "drop"} =>
             tgt[d] \in Room /\ (at[w] = "spawn" => tgt[d] # tgt[w])
      BY <3>1, Apart DEF EInv, IInv, Locked, HoldsRoom, Worker
    <3> QED BY <1>3, <3>2 DEF Launches, StepFails
  <2>4. at'[w] = "idle"
    BY DEF EInv, IInv, TypeOK, WorkOK, StepFails, Ends
  <2> QED BY <2>1, <2>2, <2>3, <2>4 DEF EInv, Erasing, Worker, Closer
<1> QED BY <1>1, <1>2, <1>3, <1>4, <1>5, <1>6, <1>7, <1>8, <1>9, <1>10, <1>11, <1>12, <1>13
     DEF EInv

LEMMA WorkerDiesHolds ==
    ASSUME EInv, NEW w \in Worker, WorkerDies(w)
    PROVE  EInv'
<1>1. IInv'
  BY WorkerDiesKeeps DEF EInv
<1>2. Seated' /\ Unlinked'
  BY DEF EInv, WorkerDies, taskVars, roomVars, Seated, IsOpen, Unlinked, Live, Records
<1>3. Served'
  BY DEF EInv, IInv, TypeOK, Served, Serves, Records, AgentOK, WorkerDies, Mishap, Ends,
       FreeAll, SpawnLost, taskVars, delVars, roomVars
<1>4. Retired'
  BY DEF EInv, IInv, TypeOK, Retired, Proved, Answers, WorkOK, Worker, Handled, Seated,
       Opened, AgentOK, WorkerDies, Mishap, Ends, FreeAll, SpawnLost, taskVars, delVars,
       roomVars
<1>5. Cursors'
  BY DEF EInv, IInv, TypeOK, Cursors, Answers, WorkOK, Worker, Closer, Handled, AgentOK,
       WorkerDies, Ends, SpawnLost, delVars
<1>6. Linking'
  BY DEF EInv, IInv, TypeOK, Linking, IsOpen, WorkOK, WorkerDies, Ends, taskVars, roomVars
<1>7. Making'
  BY DEF EInv, IInv, TypeOK, Making, WorkOK, Worker, Handled, WorkerDies, Ends
<1>8. Kept'
  BY DEF EInv, Kept, Records, WorkerDies, Ends, roomVars
<1>9. Fetched'
  BY DEF EInv, Fetched, Records, WorkerDies, Ends, taskVars, roomVars
<1>10. Settling'
  BY DEF EInv, IInv, TypeOK, Settling, Erased, Records, WorkOK, WorkerDies, Ends, taskVars,
       roomVars
<1>11. Erasing'
  BY DEF EInv, IInv, TypeOK, Erasing, WorkOK, WorkerDies, Ends, roomVars
<1> QED BY <1>1, <1>2, <1>3, <1>4, <1>5, <1>6, <1>7, <1>8, <1>9, <1>10, <1>11 DEF EInv

-----------------------------------------------------------------------------
(* The steps together, by who takes them.                                  *)
LEMMA OperatesHold ==
    ASSUME EInv, Operates
    PROVE  EInv'
<1>1. ASSUME NEW kind \in Terminal, AskTerminal(kind) PROVE EInv'
  BY <1>1, AskTerminalHolds
<1>2. CASE AcceptTerminal
  BY <1>2, AcceptTerminalHolds
<1>3. CASE ReviewTask
  BY <1>3, ReviewTaskHolds
<1>4. CASE AcceptDeletion
  BY <1>4, AcceptDeletionHolds
<1>5. ASSUME NEW r \in Room, RoomDeletion(r) PROVE EInv'
  BY <1>5, RoomDeletionHolds
<1> QED BY <1>1, <1>2, <1>3, <1>4, <1>5 DEF Operates

LEMMA ProvisionsHold ==
    ASSUME EInv, NEW p \in Provisioner, Provisions(p)
    PROVE  EInv'
<1>1. CASE ProvisionStart(p)
  BY <1>1, ProvisionStartHolds
<1>2. CASE Publish(p)
  BY <1>2, PublishHolds
<1>3. ASSUME NEW r \in Room, CreateRemote(p, r) PROVE EInv'
  BY <1>3, CreateRemoteHolds
<1>4. CASE RoomRefused(p)
  BY <1>4, RoomRefusedHolds
<1>5. CASE RecordRoom(p)
  BY <1>5, RecordRoomHolds
<1>6. CASE AttachOwner(p)
  BY <1>6, AttachOwnerHolds
<1>7. CASE ProvisionMembers(p)
  BY <1>7, ProvisionMembersHolds
<1>8. CASE Admit(p)
  BY <1>8, AdmitHolds
<1>9. ASSUME NEW m \in Member, Retain(p, m) PROVE EInv'
  BY <1>9, RetainHolds
<1>10. ASSUME NEW m \in Member, RefuseMissing(p, m) PROVE EInv'
  BY <1>10, RefuseMissingHolds
<1>11. ASSUME NEW m \in Member, LaunchMember(p, m) PROVE EInv'
  BY <1>11, LaunchMemberHolds
<1>12. CASE Spawned(p)
  BY <1>12, SpawnedHolds
<1>13. CASE AwaitSeats(p)
  BY <1>13, AwaitSeatsHolds
<1> QED BY <1>1, <1>2, <1>3, <1>4, <1>5, <1>6, <1>7, <1>8, <1>9, <1>10, <1>11, <1>12, <1>13
     DEF Provisions

LEMMA ClosesHold ==
    ASSUME EInv, NEW c \in Closer, Closes(c)
    PROVE  EInv'
<1>1. CASE CloseUnrecorded(c)
  BY <1>1, CloseUnrecordedHolds
<1>2. CASE CloseAgain(c)
  BY <1>2, CloseAgainHolds
<1>3. CASE CloseRoom(c)
  BY <1>3, CloseRoomHolds
<1>4. CASE RecordArchive(c)
  BY <1>4, RecordArchiveHolds
<1>5. CASE RecordGone(c)
  BY <1>5, RecordGoneHolds
<1>6. CASE AllRetired(c)
  BY <1>6, AllRetiredHolds
<1>7. ASSUME NEW m \in Member, Recheck(c, m) PROVE EInv'
  BY <1>7, RecheckHolds
<1>8. ASSUME NEW m \in Member, Inspect(c, m) PROVE EInv'
  BY <1>8, InspectHolds
<1>9. ASSUME NEW m \in Member, StopMember(c, m) PROVE EInv'
  BY <1>9, StopMemberHolds
<1>10. ASSUME NEW m \in Member, ArchiveMember(c, m) PROVE EInv'
  BY <1>10, ArchiveMemberHolds
<1>11. ASSUME NEW m \in Member, RemoveIdentity(c, m) PROVE EInv'
  BY <1>11, RemoveIdentityHolds
<1>12. CASE CloseRemote(c)
  BY <1>12, CloseRemoteHolds
<1>13. CASE RecordClosed(c)
  BY <1>13, RecordClosedHolds
<1> QED BY <1>1, <1>2, <1>3, <1>4, <1>5, <1>6, <1>7, <1>8, <1>9, <1>10, <1>11, <1>12, <1>13
     DEF Closes

LEMMA ErasesHold ==
    ASSUME EInv, NEW c \in {"settle", "room"}, Erases(c)
    PROVE  EInv'
<1>1. CASE EraseRoom(c)
  BY <1>1, EraseRoomHolds
<1>2. CASE DeleteRemote(c)
  BY <1>2, DeleteRemoteHolds
<1>3. CASE DropRecord(c)
  BY <1>3, DropRecordHolds
<1> QED BY <1>1, <1>2, <1>3 DEF Erases

LEMMA SettlesHold ==
    ASSUME EInv, Settles
    PROVE  EInv'
<1>1. CASE SettleStart
  BY <1>1, SettleStartHolds
<1>2. CASE FinishIntent
  BY <1>2, FinishIntentHolds
<1> QED BY <1>1, <1>2 DEF Settles

LEMMA DeletesHold ==
    ASSUME EInv, Deletes
    PROVE  EInv'
<1>1. CASE DeleteStart
  BY <1>1, DeleteStartHolds
<1>2. ASSUME NEW r \in Room, ScanRecord(r) PROVE EInv'
  BY <1>2, ScanRecordHolds
<1>3. CASE ScanDone
  BY <1>3, ScanDoneHolds
<1>4. CASE ImportEvidence
  BY <1>4, ImportEvidenceHolds
<1>5. CASE DeleteRoomOfTask
  BY <1>5, DeleteRoomOfTaskHolds
<1>6. CASE DropRecordOfTask
  BY <1>6, DropRecordOfTaskHolds
<1>7. ASSUME NEW m \in Member, CursorRecheck(m) PROVE EInv'
  BY <1>7, CursorRecheckHolds
<1>8. ASSUME NEW m \in Member, CursorRemove(m) PROVE EInv'
  BY <1>8, CursorRemoveHolds
<1>9. CASE CursorGone
  BY <1>9, CursorGoneHolds
<1>10. CASE CleanupDone
  BY <1>10, CleanupDoneHolds
<1>11. CASE UnlinkTask
  BY <1>11, UnlinkTaskHolds
<1> QED BY <1>1, <1>2, <1>3, <1>4, <1>5, <1>6, <1>7, <1>8, <1>9, <1>10, <1>11 DEF Deletes

LEMMA RunsHold ==
    ASSUME EInv, NEW m \in Member, Runs(m) \/ Leave(m)
    PROVE  EInv'
<1>1. CASE Launch(m)
  BY <1>1, LaunchHolds
<1>2. CASE Run(m)
  BY <1>2, RunHolds
<1>3. CASE Join(m)
  BY <1>3, JoinHolds
<1>4. CASE Leave(m)
  BY <1>4, LeaveHolds
<1> QED BY <1>1, <1>2, <1>3, <1>4 DEF Runs

LEMMA FailsHold ==
    ASSUME EInv, NEW w \in Worker, StepFails(w) \/ WorkerDies(w)
    PROVE  EInv'
<1>1. CASE StepFails(w)
  BY <1>1, StepFailsHolds
<1>2. CASE WorkerDies(w)
  BY <1>2, WorkerDiesHolds
<1> QED BY <1>1, <1>2
(* Initially no room is there, no member and no worker at work.            *)
LEMMA InitErasure ==
    ASSUME Init PROVE EInv
<1>1. IInv
  BY InitHolds
<1>2. Served /\ Seated /\ Cursors /\ Linking
  BY DEF Init, Served, Seated, NoSeat, Cursors, NoCursor, Linking, Closer, Worker, IsOpen
<1>3. Retired /\ Making /\ Kept /\ Fetched /\ Unlinked
  BY DEF Init, Retired, Proved, Making, Kept, Fetched, Unlinked, Records, Live, NoIntent,
         Closer, Worker
<1>4. Settling /\ Erasing
  BY DEF Init, Settling, Erased, Erasing, NoIntent, Closer, Worker
<1> QED BY <1>1, <1>2, <1>3, <1>4 DEF EInv

LEMMA StutteringErasure ==
    ASSUME EInv, UNCHANGED vars PROVE EInv'
<1>1. IInv'
  BY Stuttering DEF EInv
<1>2. Served' /\ Seated' /\ Retired' /\ Cursors' /\ Linking'
  BY DEF EInv, vars, taskVars, delVars, roomVars, agentVars, workVars, Served, Serves,
         Records, Seated, IsOpen, Retired, Proved, Answers, Cursors, Linking
<1>3. Making' /\ Kept' /\ Fetched' /\ Unlinked' /\ Settling' /\ Erasing'
  BY DEF EInv, vars, taskVars, delVars, roomVars, workVars, mishapVars, Making, Kept,
         Records, Fetched, Unlinked, Live, Settling, Erased, Erasing
<1> QED BY <1>1, <1>2, <1>3 DEF EInv

-----------------------------------------------------------------------------
(* Every reachable state satisfies the stronger inductive invariant.       *)
THEOREM Erasure == Spec => []EInv
<1>1. ASSUME EInv, Next PROVE EInv'
  <2>1. ASSUME NEW w \in Worker, Works(w) PROVE EInv'
    BY <1>1, <2>1, ProvisionsHold, ClosesHold, ErasesHold, SettlesHold, DeletesHold DEF
         Works
  <2> QED BY <1>1, <2>1, OperatesHold, RunsHold, FailsHold DEF Next
<1> QED BY InitErasure, StutteringErasure, <1>1, PTL DEF Spec

(* Once a record, a seat or a cursor says that a member is gone, it stays  *)
(* gone: whoever runs or left an identity is launched for a recorded room  *)
(* and not retired there, and no spawn, resumed launch or second closer    *)
(* changes that.                                                           *)
THEOREM GoneForGood == Spec => []GoneStaysGone
<1>1. EInv => GoneStaysGone
  BY DEF EInv, GoneStaysGone, Answers, Served, Serves, Cursors
<1> QED BY Erasure, <1>1, PTL

(* An erased task leaves no record, no room at Cowork, no running member   *)
(* and no identity, but for a room whose maker died before its record.     *)
THEOREM ErasedLeavesNothing == Spec => []NothingLeft
<1>1. EInv => NothingLeft
  <2> SUFFICES ASSUME EInv, ~Live PROVE
        /\ Records = {}
        /\ \A r \in Room \ orphan : remote[r] \in {"none", "deleted"}
        /\ \A m \in Member : agent[m] # "running" /\ identity[m] = None
    BY DEF NothingLeft
  <2>1. Records = {}
    BY DEF EInv, Unlinked
  <2>2. \A p \in Provisioner : at[p] # "record"
    BY DEF EInv, IInv, Publishing
  <2>3. \A r \in Room \ orphan : remote[r] \in {"none", "deleted"}
    BY <2>1, <2>2 DEF EInv, Kept, IInv, TypeOK, RoomOK, Records
  <2> QED BY <2>1, <2>3 DEF EInv, Served, Serves
<1> QED BY Erasure, <1>1, PTL

(* A terminal intent that names a room is settled only when the room is    *)
(* deleted at Cowork, its record is dropped and no identity made for it is *)
(* left.                                                                   *)
THEOREM SettlesClosed == Spec => []SettledIsClosed
<1>1. EInv => SettledIsClosed
  BY DEF EInv, SettledIsClosed, Settling, Erased, Served, Serves
<1> QED BY Erasure, <1>1, PTL
=============================================================================
