------------------------- MODULE TaskLifecycleProofs -------------------------
(***************************************************************************)
(* What holds of TaskLifecycle for any number of rooms, members and        *)
(* provisioning processes, and however many of them fail: its types, the   *)
(* one room of a task, the fence of an accepted deletion, and the          *)
(* direction in which a close moves.                                       *)
(*                                                                         *)
(* The inductive invariant ties the places of the workers to the locks     *)
(* they hold and to the records: a worker that makes a room holds the      *)
(* lock of the task and saw no record and no deletion; one that launches   *)
(* members holds the lock of an open room; one that closes holds the lock  *)
(* of a room whose record says so.                                         *)
(***************************************************************************)
EXTENDS TaskLifecycle, TLAPS

-----------------------------------------------------------------------------
(* What a change of one field leaves of a seat's type.                     *)
LEMMA SeatLaunch ==
    ASSUME SeatOK, NEW r, NEW m,
           NEW v \in {"none", "pending", "intent", "launched", "failed"},
           seat' = [seat EXCEPT ![r][m].launch = v]
    PROVE  SeatOK'
<1>1. r \in Room /\ m \in Member => [seat[r][m] EXCEPT !.launch = v] \in SeatRecord
  <2>1. r \in Room /\ m \in Member => seat[r][m] \in SeatRecord
    BY DEF SeatOK
  <2> QED BY <2>1 DEF SeatRecord
<1>2. r \in Room => [seat[r] EXCEPT ![m].launch = v] \in [Member -> SeatRecord]
  BY <1>1 DEF SeatOK
<1> QED BY <1>2 DEF SeatOK

LEMMA SeatRetire ==
    ASSUME SeatOK, NEW r, NEW m, NEW v \in Phase,
           seat' = [seat EXCEPT ![r][m].retire = v]
    PROVE  SeatOK'
<1>1. r \in Room /\ m \in Member => [seat[r][m] EXCEPT !.retire = v] \in SeatRecord
  <2>1. r \in Room /\ m \in Member => seat[r][m] \in SeatRecord
    BY DEF SeatOK
  <2> QED BY <2>1 DEF SeatRecord
<1>2. r \in Room => [seat[r] EXCEPT ![m].retire = v] \in [Member -> SeatRecord]
  BY <1>1 DEF SeatOK
<1> QED BY <1>2 DEF SeatOK

LEMMA SeatKnown ==
    ASSUME NEW s \in SeatRecord, NEW b \in BOOLEAN
    PROVE  [s EXCEPT !.known = b] \in SeatRecord
  BY DEF SeatRecord

LEMMA SeatRow ==
    ASSUME SeatOK, NEW r \in Room, NEW g \in [Member -> SeatRecord],
           seat' = [seat EXCEPT ![r] = g]
    PROVE  SeatOK'
  BY DEF SeatOK

LEMMA NoSeatOK == NoSeat \in SeatRecord /\ [NoSeat EXCEPT !.launch = "pending"] \in SeatRecord
  BY DEF NoSeat, SeatRecord, Phase

(* A member that an inspection found keeps its launch.                     *)
LEMMA SeatFound ==
    ASSUME SeatOK, NEW c, NEW m, Found(c, m)
    PROVE  /\ SeatOK'
           /\ \A s \in Room, n \in Member :
                 /\ s # tgt[c] \/ n # m => seat'[s][n] = seat[s][n]
                 /\ seat'[s][n].launch = seat[s][n].launch
                 /\ s = tgt[c] /\ n = m => seat'[s][n].retire = "stop"
<1>1. \A s \in Room, n \in Member :
         seat[s] \in [Member -> SeatRecord] /\ seat[s][n] \in SeatRecord
  BY DEF SeatOK
<1>2. \A s \in Room, n \in Member :
         seat'[s][n] = IF s = tgt[c] /\ n = m
            THEN [seat[s][n] EXCEPT !.retire = "stop", !.exact = TRUE] ELSE seat[s][n]
  BY <1>1 DEF SeatOK, Found
<1>3. ASSUME NEW s \in Room, NEW n \in Member PROVE seat'[s][n] \in SeatRecord
  <2>1. seat[s][n] \in SeatRecord
    BY <1>1
  <2>2. [seat[s][n] EXCEPT !.retire = "stop", !.exact = TRUE] \in SeatRecord
    BY <2>1 DEF SeatRecord, Phase
  <2> QED BY <1>2, <2>1, <2>2
<1>4. seat' \in [Room -> [Member -> SeatRecord]]
  <2>1. seat' = [s \in Room |-> seat'[s]]
    BY DEF SeatOK, Found
  <2>2. \A s \in Room : seat'[s] = [n \in Member |-> seat'[s][n]]
    BY <1>1 DEF SeatOK, Found
  <2>3. \A s \in Room : seat'[s] \in [Member -> SeatRecord]
    BY <1>3, <2>2
  <2> QED BY <2>1, <2>3
<1>5. ASSUME NEW s \in Room, NEW n \in Member
      PROVE  /\ s # tgt[c] \/ n # m => seat'[s][n] = seat[s][n]
             /\ seat'[s][n].launch = seat[s][n].launch
             /\ s = tgt[c] /\ n = m => seat'[s][n].retire = "stop"
  <2>1. seat[s][n] \in SeatRecord
    BY <1>1
  <2>2. /\ [seat[s][n] EXCEPT !.retire = "stop", !.exact = TRUE].launch = seat[s][n].launch
        /\ [seat[s][n] EXCEPT !.retire = "stop", !.exact = TRUE].retire = "stop"
    BY <2>1 DEF SeatRecord
  <2>3. CASE s = tgt[c] /\ n = m
    BY <1>2, <2>2, <2>3
  <2>4. CASE ~(s = tgt[c] /\ n = m)
    BY <1>2, <2>4
  <2> QED BY <2>3, <2>4
<1> QED BY <1>4, <1>5 DEF SeatOK

USE LifecycleAssumption

(* Where a worker holds the task's lock, and where its room's.             *)
HoldsTask(w) ==
    \/ w \in Provisioner /\ at[w] \in {"create", "record", "admit", "launch", "spawn"}
    \/ w = "settle" /\ at[w] # "idle"
    \/ w = "delete" /\ at[w] \notin {"idle", "final"}
HoldsRoom(w) ==
    \/ w \in Provisioner /\ at[w] \in {"launch", "spawn"}
    \/ w \in Closer /\ at[w] \in {"retire", "archived", "unnamed", "unlist", "shut", "wipe", "drop"}
(* A worker holds the locks its place says it does.                        *)
Locked ==
    \A w \in Worker :
        /\ HoldsTask(w) => taskLock = w
        /\ HoldsRoom(w) => tgt[w] \in Room /\ roomLock[tgt[w]] = w
(* An intent has a kind once there is one, and a settlement has an intent. *)
Asked ==
    /\ asked # NoAsk => asked.kind \in Terminal
    /\ intent.status = "pending" => intent.kind \in Terminal
    /\ at["settle"] # "idle" => intent.status = "pending"
Accepted == at["delete"] # "idle" => deleting
(* Under the task's lock, while a room is made: no record, no deletion.    *)
Publishing ==
    \A p \in Provisioner : at[p] \in {"create", "record"} =>
        Records = {} /\ ~deleting /\ Live
Opened == \A p \in Provisioner : at[p] \in {"launch", "spawn"} => IsOpen(tgt[p])
(* The place of a closer says how far the record of its room has come.     *)
Closing ==
    /\ \A c \in Closer : at[c] \in {"retire", "archived", "unnamed", "unlist", "shut"} =>
           room[tgt[c]] \in {"retiring", "unlisting"}
    /\ at["delete"] \in {"import", "unroom", "unrecord"} =>
           tgt["delete"] \in Room /\ room[tgt["delete"]] \in {"closed", "none"}
(* A worker that handles a room or a member has one.                       *)
Handled ==
    \A w \in Worker :
        /\ at[w] \in {"spawn", "archived", "unnamed", "cleared"} => who[w] \in Member
        /\ at[w] \in {"record", "owner", "members", "admit", "close", "erase"} => tgt[w] \in Room
(* An archive is made of a stopped member, and not yet recorded.           *)
Archiving ==
    \A c \in Closer : at[c] = "archived" =>
        who[c] \in Member /\ seat[tgt[c]][who[c]].retire = "stopped"
Fresh == ~deleting => \A m \in Member : cursor[m] = NoCursor
IInv == /\ TypeOK /\ Locked /\ Asked /\ Accepted /\ Publishing /\ Opened /\ Closing /\ Handled
        /\ RoomOfTask /\ Archiving /\ Fresh

-----------------------------------------------------------------------------
(* The operator keeps the invariant.                                       *)
LEMMA AskTerminalKeeps ==
    ASSUME IInv, NEW kind \in Terminal, AskTerminal(kind)
    PROVE  IInv'
<1>1. UNCHANGED <<taskState, intent, linked, roles, delVars, roomVars, remote, agentVars,
                  workVars, lockVars, mishapVars>>
  BY DEF AskTerminal
<1>2. /\ DeletionOK' /\ RoomOK' /\ SeatOK' /\ AgentOK' /\ WorkOK' /\ MishapOK' /\ Locked'
      /\ Accepted' /\ Publishing' /\ Opened' /\ Closing' /\ Handled' /\ RoomOfTask'
      /\ Archiving' /\ Fresh'
  BY <1>1 DEF IInv, TypeOK, delVars, roomVars, agentVars, workVars, lockVars, mishapVars,
       DeletionOK, RoomOK, SeatOK, AgentOK, WorkOK, MishapOK, Locked, HoldsTask, HoldsRoom,
       Accepted, Publishing, Records, Live, Opened, IsOpen, Closing, Handled, RoomOfTask,
       OneRoom, LinkIsHeld, Archiving, Fresh
<1>3. TaskOK'
  BY DEF IInv, TypeOK, TaskOK, Terminal, RoomOrNone, AskTerminal
<1>4. Asked'
  BY DEF IInv, TypeOK, Asked, WorkOK, Worker, AskTerminal, workVars
<1> QED BY <1>2, <1>3, <1>4 DEF IInv, TypeOK

LEMMA AcceptTerminalKeeps ==
    ASSUME IInv, AcceptTerminal
    PROVE  IInv'
<1>1. UNCHANGED <<linked, roles, delVars, roomVars, remote, agentVars, workVars, lockVars,
                  mishapVars>>
  BY DEF AcceptTerminal
<1>2. /\ DeletionOK' /\ RoomOK' /\ SeatOK' /\ AgentOK' /\ WorkOK' /\ MishapOK' /\ Locked'
      /\ Accepted' /\ Opened' /\ Closing' /\ Handled' /\ RoomOfTask' /\ Archiving' /\ Fresh'
  BY <1>1 DEF IInv, TypeOK, delVars, roomVars, agentVars, workVars, lockVars, mishapVars,
       DeletionOK, RoomOK, SeatOK, AgentOK, WorkOK, MishapOK, Locked, HoldsTask, HoldsRoom,
       Accepted, Opened, IsOpen, Closing, Handled, RoomOfTask, OneRoom, LinkIsHeld, Records,
       Archiving, Fresh
<1>3. TaskOK'
  BY DEF IInv, TypeOK, TaskOK, Cancellable, Terminal, RoomOrNone, AcceptTerminal, NoAsk,
       MayBegin, Live, NoIntent
<1>4. Asked'
  BY DEF IInv, TypeOK, Asked, WorkOK, Worker, AcceptTerminal, NoAsk, MayBegin, Live,
       NoIntent, Cancellable, workVars
<1>5. Publishing'
  BY DEF IInv, TypeOK, Publishing, Records, Live, WorkOK, Worker, Closer, RoomOK, Locked,
       HoldsTask, AcceptTerminal, NoAsk, MayBegin, NoIntent, Cancellable, delVars, roomVars,
       workVars
<1> QED BY <1>2, <1>3, <1>4, <1>5 DEF IInv, TypeOK

LEMMA ReviewTaskKeeps ==
    ASSUME IInv, ReviewTask
    PROVE  IInv'
<1>1. UNCHANGED <<intent, asked, linked, roles, delVars, roomVars, remote, agentVars,
                  workVars, lockVars, mishapVars>>
  BY DEF ReviewTask
<1>2. /\ DeletionOK' /\ RoomOK' /\ SeatOK' /\ AgentOK' /\ WorkOK' /\ MishapOK' /\ Locked'
      /\ Asked' /\ Accepted' /\ Opened' /\ Closing' /\ Handled' /\ RoomOfTask' /\ Archiving'
      /\ Fresh'
  BY <1>1 DEF IInv, TypeOK, delVars, roomVars, agentVars, workVars, lockVars, mishapVars,
       DeletionOK, RoomOK, SeatOK, AgentOK, WorkOK, MishapOK, Locked, HoldsTask, HoldsRoom,
       Asked, Accepted, Opened, IsOpen, Closing, Handled, RoomOfTask, OneRoom, LinkIsHeld,
       Records, Archiving, Fresh
<1>3. TaskOK'
  BY DEF IInv, TypeOK, TaskOK, Cancellable, Terminal, RoomOrNone, ReviewTask
<1>4. Publishing'
  BY DEF IInv, TypeOK, Publishing, Records, Live, WorkOK, Worker, RoomOK, ReviewTask,
       delVars, roomVars, workVars
<1> QED BY <1>2, <1>3, <1>4 DEF IInv, TypeOK

LEMMA AcceptDeletionKeeps ==
    ASSUME IInv, AcceptDeletion
    PROVE  IInv'
<1>1. UNCHANGED <<absent, taskVars, roomVars, remote, agentVars, workVars, lockVars,
                  mishapVars>>
  BY DEF AcceptDeletion
<1>2. /\ TaskOK' /\ RoomOK' /\ SeatOK' /\ AgentOK' /\ WorkOK' /\ MishapOK' /\ Locked'
      /\ Asked' /\ Opened' /\ Closing' /\ Handled' /\ Archiving'
  BY <1>1 DEF IInv, TypeOK, taskVars, roomVars, agentVars, workVars, lockVars, mishapVars,
       TaskOK, RoomOK, SeatOK, AgentOK, WorkOK, MishapOK, Locked, HoldsTask, HoldsRoom,
       Asked, Opened, IsOpen, Closing, Handled, Archiving
<1>3. DeletionOK'
  BY DEF IInv, TypeOK, DeletionOK, Phase, RoomOrNone, AcceptDeletion, Live, NoCursor, TaskOK
<1>4. Accepted'
  BY DEF IInv, TypeOK, Accepted, WorkOK, Worker, Closer, AcceptDeletion, workVars
<1>5. Publishing'
  BY DEF IInv, TypeOK, Publishing, Records, Live, WorkOK, Worker, Closer, RoomOK, Locked,
       HoldsTask, AcceptDeletion, NoCursor, taskVars, roomVars, workVars
<1>6. RoomOfTask'
  BY DEF IInv, TypeOK, RoomOfTask, OneRoom, LinkIsHeld, Records, RoomOK, AcceptDeletion,
       taskVars, roomVars
<1>7. Fresh'
  BY DEF IInv, TypeOK, Fresh, DeletionOK, AcceptDeletion
<1> QED BY <1>2, <1>3, <1>4, <1>5, <1>6, <1>7 DEF IInv, TypeOK

LEMMA RoomDeletionKeeps ==
    ASSUME IInv, NEW r \in Room, RoomDeletion(r)
    PROVE  IInv'
<1>1. UNCHANGED <<taskVars, delVars, seat, remote, agentVars, lockVars, mishapVars>>
  BY DEF RoomDeletion
<1>2. TaskOK' /\ DeletionOK' /\ SeatOK' /\ AgentOK' /\ MishapOK' /\ Fresh'
  BY <1>1 DEF IInv, TypeOK, taskVars, delVars, agentVars, lockVars, mishapVars, TaskOK,
       DeletionOK, SeatOK, AgentOK, MishapOK, Fresh
<1>3. RoomOK'
  BY DEF IInv, TypeOK, RoomOK, RoomDeletion, BeginRoomClose
<1>4. WorkOK'
  BY DEF IInv, TypeOK, WorkOK, Worker, Place, Closer, RoomOrNone, RoomDeletion, GoesFor,
       lockVars
<1>5. Locked'
  BY DEF IInv, TypeOK, Locked, HoldsTask, HoldsRoom, RoomDeletion, GoesFor, lockVars
<1>6. Asked'
  BY DEF IInv, TypeOK, Asked, WorkOK, Worker, RoomDeletion, GoesFor, taskVars
<1>7. Accepted'
  BY DEF IInv, TypeOK, Accepted, WorkOK, Worker, Closer, RoomDeletion, GoesFor, delVars
<1>8. Publishing'
  BY DEF IInv, TypeOK, Publishing, Records, Live, WorkOK, Worker, RoomOK, RoomDeletion,
       GoesFor, BeginRoomClose, taskVars, delVars
<1>9. Opened'
  BY DEF IInv, TypeOK, Opened, WorkOK, Worker, IsOpen, RoomOK, Locked, HoldsRoom,
       RoomDeletion, GoesFor, BeginRoomClose
<1>10. Closing'
  BY DEF IInv, TypeOK, Closing, WorkOK, Worker, Closer, RoomOK, Locked, HoldsRoom,
       HoldsTask, RoomDeletion, GoesFor, BeginRoomClose, IsOpen
<1>11. Handled'
  BY DEF IInv, TypeOK, Handled, WorkOK, Worker, RoomDeletion, GoesFor
<1>12. RoomOfTask'
  BY DEF IInv, TypeOK, RoomOfTask, OneRoom, LinkIsHeld, Records, RoomOK, RoomDeletion,
       BeginRoomClose, taskVars, delVars
<1>13. Archiving'
  BY DEF IInv, TypeOK, Archiving, WorkOK, Worker, Closer, RoomDeletion, GoesFor
<1> QED BY <1>2, <1>3, <1>4, <1>5, <1>6, <1>7, <1>8, <1>9, <1>10, <1>11, <1>12, <1>13 DEF
     IInv, TypeOK

-----------------------------------------------------------------------------
(* So does provisioning.                                                   *)
LEMMA ProvisionStartKeeps ==
    ASSUME IInv, NEW p \in Provisioner, ProvisionStart(p)
    PROVE  IInv'
<1>1. UNCHANGED <<intent, asked, linked, roles, delVars, roomVars, remote, agentVars,
                  lockVars, mishapVars>>
  BY DEF ProvisionStart
<1>2. DeletionOK' /\ RoomOK' /\ SeatOK' /\ AgentOK' /\ MishapOK' /\ RoomOfTask' /\ Fresh'
  BY <1>1 DEF IInv, TypeOK, delVars, roomVars, agentVars, lockVars, mishapVars, DeletionOK,
       RoomOK, SeatOK, AgentOK, MishapOK, RoomOfTask, OneRoom, LinkIsHeld, Records, Fresh
<1>3. TaskOK'
  BY DEF IInv, TypeOK, TaskOK, Cancellable, RoomOrNone, ProvisionStart
<1>4. WorkOK'
  BY DEF IInv, TypeOK, WorkOK, Worker, Place, Closer, RoomOrNone, ProvisionStart, GoesOn,
       GoesFor, lockVars, TaskOK
<1>5. Locked'
  BY DEF IInv, TypeOK, Locked, HoldsTask, HoldsRoom, Worker, Closer, WorkOK, ProvisionStart,
       Live, Terminal, GoesOn, GoesFor, lockVars
<1>6. Asked'
  BY DEF IInv, TypeOK, Asked, TaskOK, WorkOK, Worker, Closer, ProvisionStart, Live,
       Terminal, GoesOn, GoesFor
<1>7. Accepted'
  BY DEF IInv, TypeOK, Accepted, WorkOK, Worker, Closer, ProvisionStart, GoesOn, GoesFor,
       delVars
<1>8. Publishing'
  BY DEF IInv, TypeOK, Publishing, Records, Live, WorkOK, Worker, RoomOK, ProvisionStart,
       Terminal, GoesOn, GoesFor, delVars, roomVars
<1>9. Opened'
  BY DEF IInv, TypeOK, Opened, WorkOK, Worker, IsOpen, RoomOK, Locked, HoldsRoom,
       ProvisionStart, GoesOn, GoesFor, roomVars
<1>10. Closing'
  BY DEF IInv, TypeOK, Closing, WorkOK, Worker, Closer, RoomOK, ProvisionStart, GoesOn,
       GoesFor, roomVars
<1>11. Handled'
  BY DEF IInv, TypeOK, Handled, WorkOK, Worker, Closer, Locked, HoldsRoom, ProvisionStart,
       Live, Terminal, GoesOn, GoesFor, TaskOK, RoomOrNone
<1>12. Archiving'
  BY DEF IInv, TypeOK, Archiving, WorkOK, Worker, Closer, ProvisionStart, GoesOn, GoesFor,
       roomVars
<1> QED BY <1>2, <1>3, <1>4, <1>5, <1>6, <1>7, <1>8, <1>9, <1>10, <1>11, <1>12 DEF IInv,
     TypeOK

LEMMA PublishKeeps ==
    ASSUME IInv, NEW p \in Provisioner, Publish(p)
    PROVE  IInv'
<1>1. UNCHANGED <<taskState, intent, asked, roles, delVars, roomVars, remote, agentVars,
                  mishapVars>>
  BY DEF Publish
<1>2. DeletionOK' /\ RoomOK' /\ SeatOK' /\ AgentOK' /\ MishapOK' /\ Fresh'
  BY <1>1 DEF IInv, TypeOK, delVars, roomVars, agentVars, mishapVars, DeletionOK, RoomOK,
       SeatOK, AgentOK, MishapOK, Fresh
<1>3. TaskOK'
  BY DEF IInv, TypeOK, TaskOK, Cancellable, Terminal, RoomOrNone, Publish, Live, Records,
       Links
<1>4. WorkOK'
  BY DEF IInv, TypeOK, WorkOK, Worker, Place, Closer, RoomOrNone, Publish, Ends, FreeAll,
       LockTask, GoesOn
<1>5. Locked'
  BY DEF IInv, TypeOK, Locked, HoldsTask, HoldsRoom, Worker, Closer, WorkOK, Publish, Live,
       Records, Ends, FreeAll, LockTask, GoesOn
<1>6. Asked'
  BY DEF IInv, TypeOK, Asked, TaskOK, WorkOK, Worker, Closer, Publish, Live, Records, Ends,
       GoesOn
<1>7. Accepted'
  BY DEF IInv, TypeOK, Accepted, WorkOK, Worker, Closer, Publish, Ends, GoesOn, delVars
<1>8. Publishing'
  BY DEF IInv, TypeOK, Publishing, Records, Live, WorkOK, Worker, RoomOK, Publish, Ends,
       GoesOn, delVars, roomVars
<1>9. Opened'
  BY DEF IInv, TypeOK, Opened, WorkOK, Worker, IsOpen, RoomOK, Locked, HoldsRoom, Publish,
       Ends, GoesOn, roomVars
<1>10. Closing'
  BY DEF IInv, TypeOK, Closing, WorkOK, Worker, Closer, RoomOK, Publish, Ends, GoesOn,
       roomVars
<1>11. Handled'
  BY DEF IInv, TypeOK, Handled, WorkOK, Worker, Publish, Ends, GoesOn
<1>12. RoomOfTask'
  BY DEF IInv, TypeOK, RoomOfTask, OneRoom, LinkIsHeld, Records, RoomOK, Publish, Live,
       Links, delVars, roomVars
<1>13. Archiving'
  BY DEF IInv, TypeOK, Archiving, WorkOK, Worker, Closer, Publish, Ends, GoesOn, roomVars
<1> QED BY <1>2, <1>3, <1>4, <1>5, <1>6, <1>7, <1>8, <1>9, <1>10, <1>11, <1>12, <1>13 DEF
     IInv, TypeOK

LEMMA RoomRefusedKeeps ==
    ASSUME IInv, NEW p \in Provisioner, RoomRefused(p)
    PROVE  IInv'
<1>1. UNCHANGED <<taskVars, delVars, roomVars, remote, agentVars, mishapVars>>
  BY DEF RoomRefused
<1>2. /\ TaskOK' /\ DeletionOK' /\ RoomOK' /\ SeatOK' /\ AgentOK' /\ MishapOK'
      /\ RoomOfTask' /\ Fresh'
  BY <1>1 DEF IInv, TypeOK, taskVars, delVars, roomVars, agentVars, mishapVars, TaskOK,
       DeletionOK, RoomOK, SeatOK, AgentOK, MishapOK, RoomOfTask, OneRoom, LinkIsHeld,
       Records, Fresh
<1>3. WorkOK'
  BY DEF IInv, TypeOK, WorkOK, Worker, Place, Closer, RoomOrNone, RoomRefused, Ends, FreeAll
<1>4. Locked'
  BY DEF IInv, TypeOK, Locked, HoldsTask, HoldsRoom, Worker, Closer, WorkOK, RoomRefused,
       Ends, FreeAll
<1>5. Asked'
  BY DEF IInv, TypeOK, Asked, WorkOK, Worker, RoomRefused, Ends, taskVars
<1>6. Accepted'
  BY DEF IInv, TypeOK, Accepted, WorkOK, Worker, Closer, RoomRefused, Ends, delVars
<1>7. Publishing'
  BY DEF IInv, TypeOK, Publishing, Records, Live, WorkOK, Worker, RoomOK, RoomRefused, Ends,
       taskVars, delVars, roomVars
<1>8. Opened'
  BY DEF IInv, TypeOK, Opened, WorkOK, Worker, IsOpen, RoomOK, Locked, HoldsRoom,
       RoomRefused, Ends, roomVars
<1>9. Closing'
  BY DEF IInv, TypeOK, Closing, WorkOK, Worker, Closer, RoomOK, RoomRefused, Ends, roomVars
<1>10. Handled'
  BY DEF IInv, TypeOK, Handled, WorkOK, Worker, RoomRefused, Ends
<1>11. Archiving'
  BY DEF IInv, TypeOK, Archiving, WorkOK, Worker, Closer, RoomRefused, Ends, roomVars
<1> QED BY <1>2, <1>3, <1>4, <1>5, <1>6, <1>7, <1>8, <1>9, <1>10, <1>11 DEF IInv, TypeOK

LEMMA RecordRoomKeeps ==
    ASSUME IInv, NEW p \in Provisioner, RecordRoom(p)
    PROVE  IInv'
<1>1. UNCHANGED <<taskState, intent, asked, roles, delVars, seat, remote, agentVars>>
  BY DEF RecordRoom
<1>2. DeletionOK' /\ SeatOK' /\ AgentOK' /\ Fresh'
  BY <1>1 DEF IInv, TypeOK, delVars, agentVars, DeletionOK, SeatOK, AgentOK, Fresh
<1>3. TaskOK'
  BY DEF IInv, TypeOK, TaskOK, Cancellable, Terminal, RoomOrNone, RecordRoom, Links, WorkOK,
       Worker
<1>4. RoomOK'
  BY DEF IInv, TypeOK, RoomOK, RecordRoom
<1>5. WorkOK'
  BY DEF IInv, TypeOK, WorkOK, Worker, Place, Closer, RoomOrNone, RecordRoom, Ends, FreeAll,
       GoesOn
<1>6. MishapOK'
  BY DEF IInv, TypeOK, MishapOK, RoomOrNone, RecordRoom, mishapVars, Mishap
<1>7. Locked'
  BY DEF IInv, TypeOK, Locked, HoldsTask, HoldsRoom, Worker, Closer, WorkOK, RecordRoom,
       Ends, FreeAll, GoesOn
<1>8. Asked'
  BY DEF IInv, TypeOK, Asked, TaskOK, WorkOK, Worker, Closer, RecordRoom, Ends, GoesOn
<1>9. Accepted'
  BY DEF IInv, TypeOK, Accepted, WorkOK, Worker, Closer, RecordRoom, Ends, GoesOn, delVars
<1>10. Publishing'
  BY DEF IInv, TypeOK, Publishing, Records, Live, WorkOK, Worker, Closer, RoomOK, Locked,
       HoldsTask, RecordRoom, Ends, GoesOn, delVars
<1>11. Opened'
  BY DEF IInv, TypeOK, Opened, WorkOK, Worker, IsOpen, RoomOK, Locked, HoldsRoom,
       RecordRoom, Ends, GoesOn
<1>12. Closing'
  <2>1. Records = {} /\ taskLock = p /\ tgt[p] \in Room
    BY DEF IInv, RecordRoom, Publishing, Locked, HoldsTask, Handled, Worker
  <2>2. at["delete"] \notin {"import", "unroom", "unrecord"}
    BY <2>1 DEF IInv, Locked, HoldsTask, Worker, Closer
  <2>3. \A c \in Closer : at[c] \notin {"retire", "archived", "unnamed", "unlist", "shut"}
    BY <2>1 DEF IInv, Closing, Records, Locked, HoldsRoom, Worker
  <2>4. \A c \in Closer : at'[c] = at[c]
    BY DEF IInv, TypeOK, WorkOK, Worker, RecordRoom, GoesOn, Ends, Closer
  <2> QED BY <2>2, <2>3, <2>4 DEF Closing, Closer
<1>13. Handled'
  BY DEF IInv, TypeOK, Handled, WorkOK, Worker, RecordRoom, Ends, GoesOn
<1>14. RoomOfTask'
  <2>1. Records = {} /\ ~deleting /\ tgt[p] \in Room
    BY DEF IInv, RecordRoom, Publishing, Handled, Worker
  <2>2. room' = [room EXCEPT ![tgt[p]] = "owner"]
    BY DEF RecordRoom
  <2>3. Records' = {tgt[p]}
    BY <2>1, <2>2 DEF IInv, TypeOK, RoomOK, Records
  <2>4. linked = None
    BY <2>1 DEF IInv, RoomOfTask, LinkIsHeld
  <2>5. linked' \in {None, tgt[p]}
    BY <2>4 DEF RecordRoom, Links
  <2> QED BY <2>3, <2>5 DEF RoomOfTask, OneRoom, LinkIsHeld
<1>15. Archiving'
  BY DEF IInv, TypeOK, Archiving, WorkOK, Worker, Closer, RecordRoom, Ends, GoesOn
<1> QED BY <1>2, <1>3, <1>4, <1>5, <1>6, <1>7, <1>8, <1>9, <1>10, <1>11, <1>12, <1>13,
     <1>14, <1>15 DEF IInv, TypeOK

LEMMA AttachOwnerKeeps ==
    ASSUME IInv, NEW p \in Provisioner, AttachOwner(p)
    PROVE  IInv'
<1>1. UNCHANGED <<taskVars, delVars, seat, remote, agentVars, mishapVars>>
  BY DEF AttachOwner
<1>2. TaskOK' /\ DeletionOK' /\ SeatOK' /\ AgentOK' /\ MishapOK' /\ Fresh'
  BY <1>1 DEF IInv, TypeOK, taskVars, delVars, agentVars, mishapVars, TaskOK, DeletionOK,
       SeatOK, AgentOK, MishapOK, Fresh
<1>3. RoomOK'
  BY DEF IInv, TypeOK, RoomOK, AttachOwner
<1>4. WorkOK'
  BY DEF IInv, TypeOK, WorkOK, Worker, Place, Closer, RoomOrNone, AttachOwner, Ends,
       FreeAll, GoesOn, lockVars
<1>5. Locked'
  BY DEF IInv, TypeOK, Locked, HoldsTask, HoldsRoom, Worker, Closer, WorkOK, AttachOwner,
       Ends, FreeAll, GoesOn, lockVars
<1>6. Asked'
  BY DEF IInv, TypeOK, Asked, TaskOK, WorkOK, Worker, Closer, AttachOwner, Ends, GoesOn,
       taskVars
<1>7. Accepted'
  BY DEF IInv, TypeOK, Accepted, WorkOK, Worker, Closer, AttachOwner, Ends, GoesOn, delVars
<1>8. Publishing'
  BY DEF IInv, TypeOK, Publishing, Records, Live, WorkOK, Worker, RoomOK, AttachOwner, Ends,
       GoesOn, taskVars, delVars
<1>9. Opened'
  BY DEF IInv, TypeOK, Opened, WorkOK, Worker, IsOpen, RoomOK, Locked, HoldsRoom,
       AttachOwner, Ends, GoesOn
<1>10. Closing'
  BY DEF IInv, TypeOK, Closing, WorkOK, Worker, Closer, RoomOK, AttachOwner, Ends, GoesOn
<1>11. Handled'
  BY DEF IInv, TypeOK, Handled, WorkOK, Worker, AttachOwner, Ends, GoesOn
<1>12. RoomOfTask'
  BY DEF IInv, TypeOK, RoomOfTask, OneRoom, LinkIsHeld, Records, RoomOK, AttachOwner,
       taskVars, delVars
<1>13. Archiving'
  BY DEF IInv, TypeOK, Archiving, WorkOK, Worker, Closer, AttachOwner, Ends, GoesOn
<1> QED BY <1>2, <1>3, <1>4, <1>5, <1>6, <1>7, <1>8, <1>9, <1>10, <1>11, <1>12, <1>13 DEF
     IInv, TypeOK

LEMMA ProvisionMembersKeeps ==
    ASSUME IInv, NEW p \in Provisioner, ProvisionMembers(p)
    PROVE  IInv'
<1>1. UNCHANGED <<taskVars, delVars, roomVars, remote, agentVars, mishapVars>>
  BY DEF ProvisionMembers
<1>2. /\ TaskOK' /\ DeletionOK' /\ RoomOK' /\ SeatOK' /\ AgentOK' /\ MishapOK'
      /\ RoomOfTask' /\ Fresh'
  BY <1>1 DEF IInv, TypeOK, taskVars, delVars, roomVars, agentVars, mishapVars, TaskOK,
       DeletionOK, RoomOK, SeatOK, AgentOK, MishapOK, RoomOfTask, OneRoom, LinkIsHeld,
       Records, Fresh
<1>3. WorkOK'
  BY DEF IInv, TypeOK, WorkOK, Worker, Place, Closer, RoomOrNone, ProvisionMembers,
       LockTask, GoesOn
<1>4. Locked'
  BY DEF IInv, TypeOK, Locked, HoldsTask, HoldsRoom, ProvisionMembers, LockTask, GoesOn
<1>5. Asked'
  BY DEF IInv, TypeOK, Asked, WorkOK, Worker, ProvisionMembers, GoesOn, taskVars
<1>6. Accepted'
  BY DEF IInv, TypeOK, Accepted, WorkOK, Worker, Closer, ProvisionMembers, GoesOn, delVars
<1>7. Publishing'
  BY DEF IInv, TypeOK, Publishing, Records, Live, WorkOK, Worker, RoomOK, ProvisionMembers,
       GoesOn, taskVars, delVars, roomVars
<1>8. Opened'
  BY DEF IInv, TypeOK, Opened, WorkOK, Worker, IsOpen, RoomOK, Locked, HoldsRoom,
       ProvisionMembers, GoesOn, roomVars
<1>9. Closing'
  BY DEF IInv, TypeOK, Closing, WorkOK, Worker, Closer, RoomOK, ProvisionMembers, GoesOn,
       roomVars
<1>10. Handled'
  BY DEF IInv, TypeOK, Handled, WorkOK, Worker, ProvisionMembers, GoesOn
<1>11. Archiving'
  BY DEF IInv, TypeOK, Archiving, WorkOK, Worker, Closer, ProvisionMembers, GoesOn, roomVars
<1> QED BY <1>2, <1>3, <1>4, <1>5, <1>6, <1>7, <1>8, <1>9, <1>10, <1>11 DEF IInv, TypeOK

LEMMA AdmitKeeps ==
    ASSUME IInv, NEW p \in Provisioner, Admit(p)
    PROVE  IInv'
<1>1. UNCHANGED <<taskVars, delVars, remote, agentVars, mishapVars>>
  BY DEF Admit
<1>2. TaskOK' /\ DeletionOK' /\ AgentOK' /\ MishapOK' /\ Fresh'
  BY <1>1 DEF IInv, TypeOK, taskVars, delVars, agentVars, mishapVars, TaskOK, DeletionOK,
       AgentOK, MishapOK, Fresh
<1>3. RoomOK'
  BY DEF IInv, TypeOK, RoomOK, Admit, roomVars
<1>4. SeatOK'
  <2>1. Published(tgt[p]) \in [Member -> SeatRecord]
    BY NoSeatOK DEF IInv, TypeOK, SeatOK, Published, Admit, Handled, Worker
  <2> QED BY <2>1, SeatRow DEF IInv, TypeOK, SeatOK, Admit, Handled, Worker, roomVars
<1>5. WorkOK'
  BY DEF IInv, TypeOK, WorkOK, Worker, Place, Closer, RoomOrNone, Admit, LockRoom, GoesOn,
       Ends, FreeAll
<1>6. Locked'
  BY DEF IInv, TypeOK, Locked, HoldsTask, HoldsRoom, Worker, Closer, WorkOK, Admit,
       MayProvision, Live, NoIntent, IsOpen, LockRoom, GoesOn, Published, NoSeat, Ends,
       FreeAll, Handled
<1>7. Asked'
  BY DEF IInv, TypeOK, Asked, TaskOK, WorkOK, Worker, Closer, Admit, MayProvision, Live,
       NoIntent, IsOpen, GoesOn, Published, NoSeat, Ends, taskVars
<1>8. Accepted'
  BY DEF IInv, TypeOK, Accepted, WorkOK, Worker, Closer, Admit, GoesOn, Ends, delVars
<1>9. Publishing'
  BY DEF IInv, TypeOK, Publishing, Records, Live, WorkOK, Worker, RoomOK, Admit,
       MayProvision, NoIntent, IsOpen, GoesOn, Published, NoSeat, Ends, roomVars, taskVars,
       delVars
<1>10. Opened'
  BY DEF IInv, TypeOK, Opened, WorkOK, Worker, IsOpen, RoomOK, Locked, HoldsRoom, Admit,
       MayProvision, Live, NoIntent, GoesOn, Published, NoSeat, Ends, roomVars
<1>11. Closing'
  BY DEF IInv, TypeOK, Closing, WorkOK, Worker, Closer, RoomOK, Locked, HoldsRoom,
       HoldsTask, Admit, MayProvision, Live, NoIntent, IsOpen, GoesOn, Published, NoSeat,
       Ends, roomVars
<1>12. Handled'
  BY DEF IInv, TypeOK, Handled, WorkOK, Worker, Admit, GoesOn, Ends
<1>13. RoomOfTask'
  BY DEF IInv, TypeOK, RoomOfTask, OneRoom, LinkIsHeld, Records, RoomOK, Admit, roomVars,
       taskVars, delVars
<1>14. Archiving'
  <2> SUFFICES ASSUME NEW d \in Closer, at'[d] = "archived"
               PROVE  who'[d] \in Member /\ seat'[tgt'[d]][who'[d]].retire = "stopped"
    BY DEF Archiving
  <2>1. d # p /\ at[d] = "archived" /\ tgt'[d] = tgt[d] /\ who'[d] = who[d]
    BY DEF IInv, TypeOK, WorkOK, Worker, Closer, Locked, HoldsTask, Admit, Ends, GoesOn,
         GoesFor, Done, Handles
  <2>2. tgt[d] \in Room /\ (tgt[d] # tgt[p] \/ seat' = seat)
    BY <2>1 DEF IInv, Locked, HoldsRoom, Worker, Closer, Admit, LockRoom, roomVars
  <2>3. seat'[tgt[d]] = seat[tgt[d]]
    BY <2>2 DEF IInv, TypeOK, SeatOK, Admit, roomVars
  <2> QED BY <2>1, <2>3 DEF IInv, Archiving
<1> QED BY <1>2, <1>3, <1>4, <1>5, <1>6, <1>7, <1>8, <1>9, <1>10, <1>11, <1>12, <1>13, <1>14
     DEF IInv, TypeOK

LEMMA SpawnedKeeps ==
    ASSUME IInv, NEW p \in Provisioner, Spawned(p)
    PROVE  IInv'
<1>1. UNCHANGED <<taskVars, delVars, room, remote, agentVars, mishapVars>>
  BY DEF Spawned
<1>2. TaskOK' /\ DeletionOK' /\ RoomOK' /\ AgentOK' /\ MishapOK' /\ RoomOfTask' /\ Fresh'
  BY <1>1 DEF IInv, TypeOK, taskVars, delVars, agentVars, mishapVars, TaskOK, DeletionOK,
       RoomOK, AgentOK, MishapOK, RoomOfTask, OneRoom, LinkIsHeld, Records, Fresh
<1>3. SeatOK'
  <2>1. \/ seat' = [seat EXCEPT ![tgt[p]][who[p]].launch = "launched"]
        \/ seat' = [seat EXCEPT ![tgt[p]][who[p]].launch = "failed"]
    BY DEF Spawned
  <2> QED BY <2>1, SeatLaunch DEF IInv, TypeOK
<1>4. WorkOK'
  BY DEF IInv, TypeOK, WorkOK, Worker, Place, Closer, RoomOrNone, Spawned, Done, lockVars,
       Ends, FreeAll, Handled
<1>5. Locked'
  BY DEF IInv, TypeOK, Locked, HoldsTask, HoldsRoom, Worker, Closer, WorkOK, Spawned, Done,
       lockVars, Ends, FreeAll
<1>6. Asked'
  BY DEF IInv, TypeOK, Asked, TaskOK, WorkOK, Worker, Closer, Spawned, Done, Ends, taskVars
<1>7. Accepted'
  BY DEF IInv, TypeOK, Accepted, WorkOK, Worker, Closer, Spawned, Done, Ends, delVars
<1>8. Publishing'
  BY DEF IInv, TypeOK, Publishing, Records, Live, WorkOK, Worker, RoomOK, Spawned, Done,
       Ends, taskVars, delVars
<1>9. Opened'
  BY DEF IInv, TypeOK, Opened, WorkOK, Worker, IsOpen, RoomOK, Locked, HoldsRoom, Spawned,
       Done, Ends
<1>10. Closing'
  BY DEF IInv, TypeOK, Closing, WorkOK, Worker, Closer, RoomOK, Spawned, Done, Ends
<1>11. Handled'
  BY DEF IInv, TypeOK, Handled, WorkOK, Worker, Spawned, Done, Ends
<1>12. Archiving'
  <2> SUFFICES ASSUME NEW d \in Closer, at'[d] = "archived"
               PROVE  who'[d] \in Member /\ seat'[tgt'[d]][who'[d]].retire = "stopped"
    BY DEF Archiving
  <2>1. d # p /\ at[d] = "archived" /\ tgt'[d] = tgt[d] /\ who'[d] = who[d]
    BY DEF IInv, TypeOK, WorkOK, Worker, Closer, Locked, HoldsTask, Spawned, Ends, GoesOn,
         GoesFor, Done, Handles
  <2>2. tgt[d] \in Room /\ (tgt[d] # tgt[p] \/ seat' = seat)
    BY <2>1 DEF IInv, Locked, HoldsRoom, Worker, Closer, Spawned
  <2>3. seat'[tgt[d]] = seat[tgt[d]]
    BY <2>2 DEF IInv, TypeOK, SeatOK, Spawned
  <2> QED BY <2>1, <2>3 DEF IInv, Archiving
<1> QED BY <1>2, <1>3, <1>4, <1>5, <1>6, <1>7, <1>8, <1>9, <1>10, <1>11, <1>12 DEF IInv,
     TypeOK

LEMMA AwaitSeatsKeeps ==
    ASSUME IInv, NEW p \in Provisioner, AwaitSeats(p)
    PROVE  IInv'
<1>1. UNCHANGED <<intent, asked, linked, delVars, remote, agentVars, mishapVars>>
  BY DEF AwaitSeats
<1>2. DeletionOK' /\ AgentOK' /\ MishapOK' /\ Fresh'
  BY <1>1 DEF IInv, TypeOK, delVars, agentVars, mishapVars, DeletionOK, AgentOK, MishapOK,
       Fresh
<1>3. TaskOK'
  BY DEF IInv, TypeOK, TaskOK, Cancellable, Terminal, RoomOrNone, AwaitSeats
<1>4. RoomOK'
  BY DEF IInv, TypeOK, RoomOK, AwaitSeats
<1>5. SeatOK'
  <2>1. Reconciled(tgt[p]) \in [Member -> SeatRecord]
    <3>1. SUFFICES ASSUME NEW m \in Member
                   PROVE  Reconciled(tgt[p])[m] \in SeatRecord
      BY DEF Reconciled
    <3>2. seat[tgt[p]][m] \in SeatRecord
      BY DEF IInv, TypeOK, SeatOK, AwaitSeats, Locked, HoldsRoom, Worker
    <3> DEFINE b == seat[tgt[p]][m].known \/ m \in Joined(tgt[p])
    <3>3. b \in BOOLEAN
      OBVIOUS
    <3> QED BY <3>2, <3>3, SeatKnown DEF Reconciled
  <2> QED BY <2>1, SeatRow DEF IInv, TypeOK, SeatOK, AwaitSeats, Locked, HoldsRoom, Worker
<1>6. WorkOK'
  BY DEF IInv, TypeOK, WorkOK, Worker, Place, Closer, RoomOrNone, AwaitSeats, Ends, FreeAll
<1>7. Locked'
  BY DEF IInv, TypeOK, Locked, HoldsTask, HoldsRoom, Worker, Closer, WorkOK, AwaitSeats,
       Reconciled, Joined, Ends, FreeAll
<1>8. Asked'
  BY DEF IInv, TypeOK, Asked, WorkOK, Worker, AwaitSeats, Ends
<1>9. Accepted'
  BY DEF IInv, TypeOK, Accepted, WorkOK, Worker, Closer, AwaitSeats, Ends, delVars
<1>10. Publishing'
  BY DEF IInv, TypeOK, Publishing, Records, Live, WorkOK, Worker, Closer, RoomOK, Locked,
       HoldsTask, AwaitSeats, Reconciled, Joined, Ends, delVars, Opened, IsOpen
<1>11. Opened'
  BY DEF IInv, TypeOK, Opened, WorkOK, Worker, IsOpen, RoomOK, Locked, HoldsRoom,
       AwaitSeats, Ends
<1>12. Closing'
  BY DEF IInv, TypeOK, Closing, WorkOK, Worker, Closer, RoomOK, Locked, HoldsRoom,
       HoldsTask, AwaitSeats, Reconciled, Joined, Ends
<1>13. Handled'
  BY DEF IInv, TypeOK, Handled, WorkOK, Worker, AwaitSeats, Ends
<1>14. RoomOfTask'
  BY DEF IInv, TypeOK, RoomOfTask, OneRoom, LinkIsHeld, Records, RoomOK, TaskOK, Publishing,
       Accepted, AwaitSeats, Reconciled, Joined, delVars, Opened, IsOpen
<1>15. Archiving'
  BY DEF IInv, TypeOK, Archiving, WorkOK, Worker, Closer, AwaitSeats, Reconciled, Joined,
       Ends
<1> QED BY <1>2, <1>3, <1>4, <1>5, <1>6, <1>7, <1>8, <1>9, <1>10, <1>11, <1>12, <1>13,
     <1>14, <1>15 DEF IInv, TypeOK

LEMMA CreateRemoteKeeps ==
    ASSUME IInv, NEW p \in Provisioner, NEW r \in Room, CreateRemote(p, r)
    PROVE  IInv'
<1>1. UNCHANGED <<taskVars, delVars, roomVars, agentVars, lockVars, mishapVars>>
  BY DEF CreateRemote
<1>2. TaskOK' /\ DeletionOK' /\ SeatOK' /\ AgentOK' /\ MishapOK' /\ RoomOfTask' /\ Fresh'
  BY <1>1 DEF IInv, TypeOK, taskVars, delVars, roomVars, agentVars, lockVars, mishapVars,
       TaskOK, DeletionOK, SeatOK, AgentOK, MishapOK, RoomOfTask, OneRoom, LinkIsHeld,
       Records, Fresh
<1>3. RoomOK'
  BY DEF IInv, TypeOK, RoomOK, CreateRemote, roomVars
<1>4. WorkOK'
  BY DEF IInv, TypeOK, WorkOK, Worker, Place, Closer, RoomOrNone, CreateRemote, GoesFor,
       lockVars
<1>5. Locked'
  BY DEF IInv, TypeOK, Locked, HoldsTask, HoldsRoom, CreateRemote, GoesFor, lockVars
<1>6. Asked'
  BY DEF IInv, TypeOK, Asked, WorkOK, Worker, CreateRemote, GoesFor, taskVars
<1>7. Accepted'
  BY DEF IInv, TypeOK, Accepted, WorkOK, Worker, Closer, CreateRemote, GoesFor, delVars
<1>8. Publishing'
  BY DEF IInv, TypeOK, Publishing, Records, Live, WorkOK, Worker, RoomOK, CreateRemote,
       GoesFor, taskVars, delVars, roomVars
<1>9. Opened'
  BY DEF IInv, TypeOK, Opened, WorkOK, Worker, IsOpen, RoomOK, Locked, HoldsRoom,
       CreateRemote, GoesFor, roomVars
<1>10. Closing'
  BY DEF IInv, TypeOK, Closing, WorkOK, Worker, Closer, RoomOK, CreateRemote, GoesFor,
       roomVars
<1>11. Handled'
  BY DEF IInv, TypeOK, Handled, WorkOK, Worker, CreateRemote, GoesFor
<1>12. Archiving'
  BY DEF IInv, TypeOK, Archiving, WorkOK, Worker, Closer, CreateRemote, GoesFor, roomVars
<1> QED BY <1>2, <1>3, <1>4, <1>5, <1>6, <1>7, <1>8, <1>9, <1>10, <1>11, <1>12 DEF IInv,
     TypeOK

LEMMA RetainKeeps ==
    ASSUME IInv, NEW p \in Provisioner, NEW m \in Member, Retain(p, m)
    PROVE  IInv'
<1>1. UNCHANGED <<taskVars, delVars, room, remote, launching, owner, identity, mishapVars>>
  BY DEF Retain
<1>2. TaskOK' /\ DeletionOK' /\ RoomOK' /\ MishapOK' /\ RoomOfTask' /\ Fresh'
  BY <1>1 DEF IInv, TypeOK, taskVars, delVars, mishapVars, TaskOK, DeletionOK, RoomOK,
       MishapOK, RoomOfTask, OneRoom, LinkIsHeld, Records, Fresh
<1>3. SeatOK'
  <2>1. seat' = seat \/ seat' = [seat EXCEPT ![tgt[p]][m].launch = "launched"]
    BY DEF Retain
  <2> QED BY <2>1, SeatLaunch DEF IInv, TypeOK, SeatOK
<1>4. AgentOK'
  BY DEF IInv, TypeOK, AgentOK, RoomOrNone, Retain
<1>5. WorkOK'
  BY DEF IInv, TypeOK, WorkOK, Worker, Place, Closer, RoomOrNone, Retain, Done, lockVars,
       Ends, FreeAll
<1>6. Locked'
  BY DEF IInv, TypeOK, Locked, HoldsTask, HoldsRoom, Worker, Closer, WorkOK, Retain, MayRun,
       IsProven, Live, Records, NoIntent, IsOpen, Done, lockVars, Ends, FreeAll
<1>7. Asked'
  BY DEF IInv, TypeOK, Asked, TaskOK, WorkOK, Worker, Closer, Retain, MayRun, IsProven,
       Live, Records, NoIntent, IsOpen, Done, Ends, taskVars
<1>8. Accepted'
  BY DEF IInv, TypeOK, Accepted, WorkOK, Worker, Closer, Retain, Done, Ends, delVars
<1>9. Publishing'
  BY DEF IInv, TypeOK, Publishing, Records, Live, WorkOK, Worker, RoomOK, Retain, MayRun,
       IsProven, NoIntent, IsOpen, Done, Ends, taskVars, delVars
<1>10. Opened'
  BY DEF IInv, TypeOK, Opened, WorkOK, Worker, IsOpen, RoomOK, Locked, HoldsRoom, Retain,
       MayRun, IsProven, Live, Records, NoIntent, Done, Ends
<1>11. Closing'
  BY DEF IInv, TypeOK, Closing, WorkOK, Worker, Closer, RoomOK, Retain, Done, Ends
<1>12. Handled'
  BY DEF IInv, TypeOK, Handled, WorkOK, Worker, Retain, Done, Ends
<1>13. Archiving'
  <2> SUFFICES ASSUME NEW d \in Closer, at'[d] = "archived"
               PROVE  who'[d] \in Member /\ seat'[tgt'[d]][who'[d]].retire = "stopped"
    BY DEF Archiving
  <2>1. d # p /\ at[d] = "archived" /\ tgt'[d] = tgt[d] /\ who'[d] = who[d]
    BY DEF IInv, TypeOK, WorkOK, Worker, Closer, Locked, HoldsTask, Retain, Ends, GoesOn,
         GoesFor, Done, Handles
  <2>2. tgt[d] \in Room /\ (tgt[d] # tgt[p] \/ seat' = seat)
    BY <2>1 DEF IInv, Locked, HoldsRoom, Worker, Closer, Retain
  <2>3. seat'[tgt[d]] = seat[tgt[d]]
    BY <2>2 DEF IInv, TypeOK, SeatOK, Retain
  <2> QED BY <2>1, <2>3 DEF IInv, Archiving
<1> QED BY <1>2, <1>3, <1>4, <1>5, <1>6, <1>7, <1>8, <1>9, <1>10, <1>11, <1>12, <1>13 DEF
     IInv, TypeOK

LEMMA RefuseMissingKeeps ==
    ASSUME IInv, NEW p \in Provisioner, NEW m \in Member, RefuseMissing(p, m)
    PROVE  IInv'
<1>1. UNCHANGED <<taskVars, delVars, roomVars, remote, agentVars, mishapVars>>
  BY DEF RefuseMissing
<1>2. /\ TaskOK' /\ DeletionOK' /\ RoomOK' /\ SeatOK' /\ AgentOK' /\ MishapOK'
      /\ RoomOfTask' /\ Fresh'
  BY <1>1 DEF IInv, TypeOK, taskVars, delVars, roomVars, agentVars, mishapVars, TaskOK,
       DeletionOK, RoomOK, SeatOK, AgentOK, MishapOK, RoomOfTask, OneRoom, LinkIsHeld,
       Records, Fresh
<1>3. WorkOK'
  BY DEF IInv, TypeOK, WorkOK, Worker, Place, Closer, RoomOrNone, RefuseMissing, Ends,
       FreeAll
<1>4. Locked'
  BY DEF IInv, TypeOK, Locked, HoldsTask, HoldsRoom, Worker, Closer, WorkOK, RefuseMissing,
       Ends, FreeAll
<1>5. Asked'
  BY DEF IInv, TypeOK, Asked, WorkOK, Worker, RefuseMissing, Ends, taskVars
<1>6. Accepted'
  BY DEF IInv, TypeOK, Accepted, WorkOK, Worker, Closer, RefuseMissing, Ends, delVars
<1>7. Publishing'
  BY DEF IInv, TypeOK, Publishing, Records, Live, WorkOK, Worker, RoomOK, RefuseMissing,
       Ends, taskVars, delVars, roomVars
<1>8. Opened'
  BY DEF IInv, TypeOK, Opened, WorkOK, Worker, IsOpen, RoomOK, Locked, HoldsRoom,
       RefuseMissing, Ends, roomVars
<1>9. Closing'
  BY DEF IInv, TypeOK, Closing, WorkOK, Worker, Closer, RoomOK, RefuseMissing, Ends,
       roomVars
<1>10. Handled'
  BY DEF IInv, TypeOK, Handled, WorkOK, Worker, RefuseMissing, Ends
<1>11. Archiving'
  BY DEF IInv, TypeOK, Archiving, WorkOK, Worker, Closer, RefuseMissing, Ends, roomVars
<1> QED BY <1>2, <1>3, <1>4, <1>5, <1>6, <1>7, <1>8, <1>9, <1>10, <1>11 DEF IInv, TypeOK

LEMMA LaunchMemberKeeps ==
    ASSUME IInv, NEW p \in Provisioner, NEW m \in Member, LaunchMember(p, m)
    PROVE  IInv'
<1>1. UNCHANGED <<taskVars, delVars, room, remote, agent, owner, identity, mishapVars>>
  BY DEF LaunchMember
<1>2. TaskOK' /\ DeletionOK' /\ RoomOK' /\ MishapOK' /\ RoomOfTask' /\ Fresh'
  BY <1>1 DEF IInv, TypeOK, taskVars, delVars, mishapVars, TaskOK, DeletionOK, RoomOK,
       MishapOK, RoomOfTask, OneRoom, LinkIsHeld, Records, Fresh
<1>3. SeatOK'
  <2>1. seat' = seat \/ seat' = [seat EXCEPT ![tgt[p]][m].launch = "intent"]
    BY DEF LaunchMember
  <2> QED BY <2>1, SeatLaunch DEF IInv, TypeOK, SeatOK
<1>4. AgentOK'
  BY DEF IInv, TypeOK, AgentOK, RoomOrNone, LaunchMember, WorkOK, Worker
<1>5. WorkOK'
  BY DEF IInv, TypeOK, WorkOK, Worker, Place, Closer, RoomOrNone, LaunchMember, Handles,
       lockVars, Ends, FreeAll
<1>6. Locked'
  BY DEF IInv, TypeOK, Locked, HoldsTask, HoldsRoom, Worker, Closer, WorkOK, LaunchMember,
       MayProvision, Live, NoIntent, IsOpen, Handles, lockVars, Ends, FreeAll
<1>7. Asked'
  BY DEF IInv, TypeOK, Asked, TaskOK, WorkOK, Worker, Closer, LaunchMember, MayProvision,
       Live, NoIntent, IsOpen, Handles, Ends, taskVars
<1>8. Accepted'
  BY DEF IInv, TypeOK, Accepted, WorkOK, Worker, Closer, LaunchMember, Handles, Ends,
       delVars
<1>9. Publishing'
  BY DEF IInv, TypeOK, Publishing, Records, Live, WorkOK, Worker, RoomOK, LaunchMember,
       MayProvision, NoIntent, IsOpen, Handles, Ends, taskVars, delVars
<1>10. Opened'
  BY DEF IInv, TypeOK, Opened, WorkOK, Worker, IsOpen, RoomOK, Locked, HoldsRoom,
       LaunchMember, MayProvision, Live, NoIntent, Handles, Ends
<1>11. Closing'
  BY DEF IInv, TypeOK, Closing, WorkOK, Worker, Closer, RoomOK, LaunchMember, Handles, Ends
<1>12. Handled'
  BY DEF IInv, TypeOK, Handled, WorkOK, Worker, LaunchMember, Handles, Ends
<1>13. Archiving'
  <2> SUFFICES ASSUME NEW d \in Closer, at'[d] = "archived"
               PROVE  who'[d] \in Member /\ seat'[tgt'[d]][who'[d]].retire = "stopped"
    BY DEF Archiving
  <2>1. d # p /\ at[d] = "archived" /\ tgt'[d] = tgt[d] /\ who'[d] = who[d]
    BY DEF IInv, TypeOK, WorkOK, Worker, Closer, Locked, HoldsTask, LaunchMember, Ends,
         GoesOn, GoesFor, Done, Handles
  <2>2. tgt[d] \in Room /\ (tgt[d] # tgt[p] \/ seat' = seat)
    BY <2>1 DEF IInv, Locked, HoldsRoom, Worker, Closer, LaunchMember
  <2>3. seat'[tgt[d]] = seat[tgt[d]]
    BY <2>2 DEF IInv, TypeOK, SeatOK, LaunchMember
  <2> QED BY <2>1, <2>3 DEF IInv, Archiving
<1> QED BY <1>2, <1>3, <1>4, <1>5, <1>6, <1>7, <1>8, <1>9, <1>10, <1>11, <1>12, <1>13 DEF
     IInv, TypeOK

-----------------------------------------------------------------------------
(* So does every step of a close.                                          *)
LEMMA CloseUnrecordedKeeps ==
    ASSUME IInv, NEW c \in Closer, CloseUnrecorded(c)
    PROVE  IInv'
<1>1. UNCHANGED <<taskVars, delVars, roomVars, remote, agentVars, mishapVars>>
  BY DEF CloseUnrecorded
<1>2. /\ TaskOK' /\ DeletionOK' /\ RoomOK' /\ SeatOK' /\ AgentOK' /\ MishapOK'
      /\ RoomOfTask' /\ Fresh'
  BY <1>1 DEF IInv, TypeOK, taskVars, delVars, roomVars, agentVars, mishapVars, TaskOK,
       DeletionOK, RoomOK, SeatOK, AgentOK, MishapOK, RoomOfTask, OneRoom, LinkIsHeld,
       Records, Fresh
<1>3. WorkOK'
  BY DEF IInv, TypeOK, WorkOK, Worker, Place, Closer, RoomOrNone, CloseUnrecorded, LockRoom,
       GoesOn, Ends, FreeAll, Handled
<1>4. Locked'
  BY DEF IInv, TypeOK, Locked, HoldsTask, HoldsRoom, Worker, Closer, WorkOK,
       CloseUnrecorded, LockRoom, GoesOn, Ends, FreeAll, Handled
<1>5. Asked'
  BY DEF IInv, TypeOK, Asked, TaskOK, WorkOK, Worker, Closer, CloseUnrecorded, GoesOn, Ends,
       taskVars
<1>6. Accepted'
  BY DEF IInv, TypeOK, Accepted, WorkOK, Worker, Closer, CloseUnrecorded, GoesOn, Ends,
       delVars
<1>7. Publishing'
  BY DEF IInv, TypeOK, Publishing, Records, Live, WorkOK, Worker, RoomOK, CloseUnrecorded,
       GoesOn, Ends, taskVars, delVars, roomVars
<1>8. Opened'
  BY DEF IInv, TypeOK, Opened, WorkOK, Worker, IsOpen, RoomOK, Locked, HoldsRoom,
       CloseUnrecorded, GoesOn, Ends, roomVars
<1>9. Closing'
  BY DEF IInv, TypeOK, Closing, WorkOK, Worker, Closer, RoomOK, CloseUnrecorded, GoesOn,
       Ends, roomVars
<1>10. Handled'
  BY DEF IInv, TypeOK, Handled, WorkOK, Worker, CloseUnrecorded, GoesOn, Ends
<1>11. Archiving'
  BY DEF IInv, TypeOK, Archiving, WorkOK, Worker, Closer, CloseUnrecorded, GoesOn, Ends,
       roomVars
<1> QED BY <1>2, <1>3, <1>4, <1>5, <1>6, <1>7, <1>8, <1>9, <1>10, <1>11 DEF IInv, TypeOK

LEMMA CloseAgainKeeps ==
    ASSUME IInv, NEW c \in Closer, CloseAgain(c)
    PROVE  IInv'
<1>1. UNCHANGED <<taskVars, delVars, roomVars, remote, agentVars, mishapVars>>
  BY DEF CloseAgain
<1>2. /\ TaskOK' /\ DeletionOK' /\ RoomOK' /\ SeatOK' /\ AgentOK' /\ MishapOK'
      /\ RoomOfTask' /\ Fresh'
  BY <1>1 DEF IInv, TypeOK, taskVars, delVars, roomVars, agentVars, mishapVars, TaskOK,
       DeletionOK, RoomOK, SeatOK, AgentOK, MishapOK, RoomOfTask, OneRoom, LinkIsHeld,
       Records, Fresh
<1>3. WorkOK'
  BY DEF IInv, TypeOK, WorkOK, Worker, Place, Closer, RoomOrNone, CloseAgain, Seats, NoSeat,
       GoesOn, After, lockVars, Ends, FreeAll
<1>4. Locked'
  BY DEF IInv, TypeOK, Locked, HoldsTask, HoldsRoom, Worker, Closer, WorkOK, CloseAgain,
       Seats, NoSeat, GoesOn, After, lockVars, Ends, FreeAll
<1>5. Asked'
  BY DEF IInv, TypeOK, Asked, TaskOK, WorkOK, Worker, Closer, CloseAgain, Seats, NoSeat,
       GoesOn, After, Ends, taskVars
<1>6. Accepted'
  BY DEF IInv, TypeOK, Accepted, WorkOK, Worker, Closer, CloseAgain, GoesOn, Ends, delVars
<1>7. Publishing'
  BY DEF IInv, TypeOK, Publishing, Records, Live, WorkOK, Worker, RoomOK, CloseAgain, Seats,
       NoSeat, GoesOn, After, Ends, taskVars, delVars, roomVars
<1>8. Opened'
  BY DEF IInv, TypeOK, Opened, WorkOK, Worker, IsOpen, RoomOK, Locked, HoldsRoom,
       CloseAgain, Seats, NoSeat, GoesOn, After, Ends, roomVars
<1>9. Closing'
  BY DEF IInv, TypeOK, Closing, WorkOK, Worker, Closer, RoomOK, Locked, HoldsRoom,
       HoldsTask, CloseAgain, Seats, NoSeat, GoesOn, After, Ends, roomVars, Handled
<1>10. Handled'
  BY DEF IInv, TypeOK, Handled, WorkOK, Worker, CloseAgain, Seats, NoSeat, GoesOn, After,
       Ends
<1>11. Archiving'
  BY DEF IInv, TypeOK, Archiving, WorkOK, Worker, Closer, CloseAgain, Seats, NoSeat, GoesOn,
       After, Ends, roomVars
<1> QED BY <1>2, <1>3, <1>4, <1>5, <1>6, <1>7, <1>8, <1>9, <1>10, <1>11 DEF IInv, TypeOK

LEMMA CloseRoomKeeps ==
    ASSUME IInv, NEW c \in Closer, CloseRoom(c)
    PROVE  IInv'
<1>1. UNCHANGED <<taskVars, delVars, remote, agentVars, mishapVars>>
  BY DEF CloseRoom
<1>2. TaskOK' /\ DeletionOK' /\ AgentOK' /\ MishapOK' /\ Fresh'
  BY <1>1 DEF IInv, TypeOK, taskVars, delVars, agentVars, mishapVars, TaskOK, DeletionOK,
       AgentOK, MishapOK, Fresh
<1>3. RoomOK'
  BY DEF IInv, TypeOK, RoomOK, CloseRoom, BeginRoomClose
<1>4. SeatOK'
  <2>1. Recovered(tgt[c]) \in [Member -> SeatRecord]
    <3>1. SUFFICES ASSUME NEW m \in Member
                   PROVE  Recovered(tgt[c])[m] \in SeatRecord
      BY DEF Recovered
    <3>2. seat[tgt[c]][m] \in SeatRecord
      BY DEF IInv, TypeOK, SeatOK, CloseRoom, Handled, Worker
    <3> DEFINE b == seat[tgt[c]][m].known \/ identity[m] = tgt[c]
    <3>3. b \in BOOLEAN
      OBVIOUS
    <3> QED BY <3>2, <3>3, SeatKnown DEF Recovered
  <2> QED BY <2>1, SeatRow DEF IInv, TypeOK, SeatOK, CloseRoom, Handled, Worker
<1>5. WorkOK'
  BY DEF IInv, TypeOK, WorkOK, Worker, Place, Closer, RoomOrNone, CloseRoom, LockRoom,
       GoesOn, GoesFor, Handled
<1>6. Locked'
  BY DEF IInv, TypeOK, Locked, HoldsTask, HoldsRoom, Worker, Closer, WorkOK, CloseRoom,
       LockRoom, IsOpen, GoesOn, GoesFor, Recovered, Seats, NoSeat, Handled
<1>7. Asked'
  BY DEF IInv, TypeOK, Asked, TaskOK, WorkOK, Worker, Closer, CloseRoom, IsOpen, GoesOn,
       GoesFor, Recovered, Seats, NoSeat, taskVars
<1>8. Accepted'
  BY DEF IInv, TypeOK, Accepted, WorkOK, Worker, Closer, CloseRoom, GoesOn, GoesFor, delVars
<1>9. Publishing'
  BY DEF IInv, TypeOK, Publishing, Records, Live, WorkOK, Worker, RoomOK, CloseRoom,
       BeginRoomClose, GoesOn, GoesFor, taskVars, delVars
<1>10. Opened'
  BY DEF IInv, TypeOK, Opened, WorkOK, Worker, Closer, IsOpen, RoomOK, Locked, HoldsRoom,
       HoldsTask, CloseRoom, LockRoom, BeginRoomClose, GoesOn, GoesFor, Recovered, Seats,
       NoSeat, taskVars, delVars, agentVars, mishapVars, Handled
<1>11. Closing'
  BY DEF IInv, TypeOK, Closing, WorkOK, Worker, Closer, RoomOK, Locked, HoldsRoom,
       HoldsTask, CloseRoom, BeginRoomClose, IsOpen, GoesOn, GoesFor, Recovered, Seats,
       NoSeat, Handled
<1>12. Handled'
  BY DEF IInv, TypeOK, Handled, WorkOK, Worker, CloseRoom, GoesOn, GoesFor
<1>13. RoomOfTask'
  BY DEF IInv, TypeOK, RoomOfTask, OneRoom, LinkIsHeld, Records, RoomOK, CloseRoom,
       BeginRoomClose, taskVars, delVars
<1>14. Archiving'
  <2> SUFFICES ASSUME NEW d \in Closer, at'[d] = "archived"
               PROVE  who'[d] \in Member /\ seat'[tgt'[d]][who'[d]].retire = "stopped"
    BY DEF Archiving
  <2>1. d # c /\ at[d] = "archived" /\ tgt'[d] = tgt[d] /\ who'[d] = who[d]
    BY DEF IInv, TypeOK, WorkOK, Worker, Closer, Locked, HoldsTask, CloseRoom, Ends, GoesOn,
         GoesFor, Done, Handles
  <2>2. tgt[d] \in Room /\ (tgt[d] # tgt[c] \/ seat' = seat)
    BY <2>1, LifecycleAssumption DEF IInv, Locked, HoldsRoom, Worker, Closer, CloseRoom,
         LockRoom
  <2>3. seat'[tgt[d]] = seat[tgt[d]]
    BY <2>2 DEF IInv, TypeOK, SeatOK, CloseRoom
  <2> QED BY <2>1, <2>3 DEF IInv, Archiving
<1> QED BY <1>2, <1>3, <1>4, <1>5, <1>6, <1>7, <1>8, <1>9, <1>10, <1>11, <1>12, <1>13, <1>14
     DEF IInv, TypeOK

LEMMA RecordArchiveKeeps ==
    ASSUME IInv, NEW c \in Closer, RecordArchive(c)
    PROVE  IInv'
<1>1. UNCHANGED <<taskVars, delVars, room, remote, agentVars, lockVars, mishapVars>>
  BY DEF RecordArchive
<1>2. TaskOK' /\ DeletionOK' /\ RoomOK' /\ AgentOK' /\ MishapOK' /\ RoomOfTask' /\ Fresh'
  BY <1>1 DEF IInv, TypeOK, taskVars, delVars, agentVars, lockVars, mishapVars, TaskOK,
       DeletionOK, RoomOK, AgentOK, MishapOK, RoomOfTask, OneRoom, LinkIsHeld, Records,
       Fresh
<1>3. SeatOK'
  <2>1. seat' = [seat EXCEPT ![tgt[c]][who[c]].retire = "archived"]
    BY DEF RecordArchive, Advance
  <2> QED BY <2>1, SeatRetire DEF IInv, TypeOK, Phase
<1>4. WorkOK'
  BY DEF IInv, TypeOK, WorkOK, Worker, Place, Closer, RoomOrNone, RecordArchive, GoesOn,
       lockVars
<1>5. Locked'
  BY DEF IInv, TypeOK, Locked, HoldsTask, HoldsRoom, RecordArchive, GoesOn, lockVars
<1>6. Asked'
  BY DEF IInv, TypeOK, Asked, WorkOK, Worker, RecordArchive, GoesOn, taskVars
<1>7. Accepted'
  BY DEF IInv, TypeOK, Accepted, WorkOK, Worker, Closer, RecordArchive, GoesOn, delVars
<1>8. Publishing'
  BY DEF IInv, TypeOK, Publishing, Records, Live, WorkOK, Worker, RoomOK, RecordArchive,
       GoesOn, taskVars, delVars
<1>9. Opened'
  BY DEF IInv, TypeOK, Opened, WorkOK, Worker, IsOpen, RoomOK, Locked, HoldsRoom,
       RecordArchive, GoesOn
<1>10. Closing'
  BY DEF IInv, TypeOK, Closing, WorkOK, Worker, Closer, RoomOK, RecordArchive, GoesOn
<1>11. Handled'
  BY DEF IInv, TypeOK, Handled, WorkOK, Worker, RecordArchive, GoesOn
<1>12. Archiving'
  BY DEF IInv, TypeOK, Archiving, WorkOK, Worker, Closer, SeatOK, SeatRecord, Locked,
       HoldsRoom, Handled, RecordArchive, Advance, GoesOn
<1> QED BY <1>2, <1>3, <1>4, <1>5, <1>6, <1>7, <1>8, <1>9, <1>10, <1>11, <1>12 DEF IInv,
     TypeOK

LEMMA RecordGoneKeeps ==
    ASSUME IInv, NEW c \in Closer, RecordGone(c)
    PROVE  IInv'
<1>1. UNCHANGED <<taskVars, delVars, room, remote, agentVars, mishapVars>>
  BY DEF RecordGone
<1>2. TaskOK' /\ DeletionOK' /\ RoomOK' /\ AgentOK' /\ MishapOK' /\ RoomOfTask' /\ Fresh'
  BY <1>1 DEF IInv, TypeOK, taskVars, delVars, agentVars, mishapVars, TaskOK, DeletionOK,
       RoomOK, AgentOK, MishapOK, RoomOfTask, OneRoom, LinkIsHeld, Records, Fresh
<1>3. SeatOK'
  <2>1. seat' = seat \/ seat' = [seat EXCEPT ![tgt[c]][who[c]].retire = "gone"]
    BY DEF RecordGone, Advance
  <2> QED BY <2>1, SeatRetire DEF IInv, TypeOK, SeatOK, Phase
<1>4. WorkOK'
  BY DEF IInv, TypeOK, WorkOK, Worker, Place, Closer, RoomOrNone, RecordGone, Ends, FreeAll,
       Done, lockVars, Handled
<1>5. Locked'
  BY DEF IInv, TypeOK, Locked, HoldsTask, HoldsRoom, Worker, Closer, WorkOK, RecordGone,
       Ends, FreeAll, Done, lockVars
<1>6. Asked'
  BY DEF IInv, TypeOK, Asked, TaskOK, WorkOK, Worker, Closer, RecordGone, Ends, Done,
       taskVars
<1>7. Accepted'
  BY DEF IInv, TypeOK, Accepted, WorkOK, Worker, Closer, RecordGone, Ends, Done, delVars
<1>8. Publishing'
  BY DEF IInv, TypeOK, Publishing, Records, Live, WorkOK, Worker, RoomOK, RecordGone, Ends,
       Done, taskVars, delVars
<1>9. Opened'
  BY DEF IInv, TypeOK, Opened, WorkOK, Worker, IsOpen, RoomOK, Locked, HoldsRoom,
       RecordGone, Ends, Done
<1>10. Closing'
  BY DEF IInv, TypeOK, Closing, WorkOK, Worker, Closer, RoomOK, RecordGone, Ends, Done
<1>11. Handled'
  BY DEF IInv, TypeOK, Handled, WorkOK, Worker, RecordGone, Ends, Done
<1>12. Archiving'
  <2> SUFFICES ASSUME NEW d \in Closer, at'[d] = "archived"
               PROVE  who'[d] \in Member /\ seat'[tgt'[d]][who'[d]].retire = "stopped"
    BY DEF Archiving
  <2>1. d # c /\ at[d] = "archived" /\ tgt'[d] = tgt[d] /\ who'[d] = who[d]
    BY DEF IInv, TypeOK, WorkOK, Worker, Closer, Locked, HoldsTask, RecordGone, Ends,
         GoesOn, GoesFor, Done, Handles
  <2>2. tgt[d] \in Room /\ (tgt[d] # tgt[c] \/ seat' = seat)
    BY <2>1 DEF IInv, Locked, HoldsRoom, Worker, Closer, RecordGone
  <2>3. seat'[tgt[d]] = seat[tgt[d]]
    BY <2>2 DEF IInv, TypeOK, SeatOK, RecordGone, Advance
  <2> QED BY <2>1, <2>3 DEF IInv, Archiving
<1> QED BY <1>2, <1>3, <1>4, <1>5, <1>6, <1>7, <1>8, <1>9, <1>10, <1>11, <1>12 DEF IInv,
     TypeOK

LEMMA AllRetiredKeeps ==
    ASSUME IInv, NEW c \in Closer, AllRetired(c)
    PROVE  IInv'
<1>1. UNCHANGED <<taskVars, delVars, seat, remote, agentVars, lockVars, mishapVars>>
  BY DEF AllRetired
<1>2. TaskOK' /\ DeletionOK' /\ SeatOK' /\ AgentOK' /\ MishapOK' /\ Fresh'
  BY <1>1 DEF IInv, TypeOK, taskVars, delVars, agentVars, lockVars, mishapVars, TaskOK,
       DeletionOK, SeatOK, AgentOK, MishapOK, Fresh
<1>3. RoomOK'
  BY DEF IInv, TypeOK, RoomOK, AllRetired
<1>4. WorkOK'
  BY DEF IInv, TypeOK, WorkOK, Worker, Place, Closer, RoomOrNone, AllRetired, GoesOn,
       lockVars
<1>5. Locked'
  BY DEF IInv, TypeOK, Locked, HoldsTask, HoldsRoom, AllRetired, GoesOn, lockVars
<1>6. Asked'
  BY DEF IInv, TypeOK, Asked, WorkOK, Worker, AllRetired, GoesOn, taskVars
<1>7. Accepted'
  BY DEF IInv, TypeOK, Accepted, WorkOK, Worker, Closer, AllRetired, GoesOn, delVars
<1>8. Publishing'
  BY DEF IInv, TypeOK, Publishing, Records, Live, WorkOK, Worker, Closer, RoomOK, Locked,
       HoldsTask, AllRetired, Seats, NoSeat, GoesOn, taskVars, delVars, Closing
<1>9. Opened'
  BY DEF IInv, TypeOK, Opened, WorkOK, Worker, IsOpen, RoomOK, Locked, HoldsRoom,
       AllRetired, GoesOn
<1>10. Closing'
  BY DEF IInv, TypeOK, Closing, WorkOK, Worker, Closer, RoomOK, AllRetired, GoesOn
<1>11. Handled'
  BY DEF IInv, TypeOK, Handled, WorkOK, Worker, AllRetired, GoesOn
<1>12. RoomOfTask'
  BY DEF IInv, TypeOK, RoomOfTask, OneRoom, LinkIsHeld, Records, RoomOK, TaskOK, Publishing,
       Accepted, AllRetired, Seats, NoSeat, taskVars, delVars, Closing
<1>13. Archiving'
  BY DEF IInv, TypeOK, Archiving, WorkOK, Worker, Closer, AllRetired, GoesOn
<1> QED BY <1>2, <1>3, <1>4, <1>5, <1>6, <1>7, <1>8, <1>9, <1>10, <1>11, <1>12, <1>13 DEF
     IInv, TypeOK

LEMMA CloseRemoteKeeps ==
    ASSUME IInv, NEW c \in Closer, CloseRemote(c)
    PROVE  IInv'
<1>1. UNCHANGED <<taskVars, delVars, roomVars, agentVars, lockVars, mishapVars>>
  BY DEF CloseRemote
<1>2. TaskOK' /\ DeletionOK' /\ SeatOK' /\ AgentOK' /\ MishapOK' /\ RoomOfTask' /\ Fresh'
  BY <1>1 DEF IInv, TypeOK, taskVars, delVars, roomVars, agentVars, lockVars, mishapVars,
       TaskOK, DeletionOK, SeatOK, AgentOK, MishapOK, RoomOfTask, OneRoom, LinkIsHeld,
       Records, Fresh
<1>3. RoomOK'
  BY DEF IInv, TypeOK, RoomOK, CloseRemote, roomVars
<1>4. WorkOK'
  BY DEF IInv, TypeOK, WorkOK, Worker, Place, Closer, RoomOrNone, CloseRemote, GoesOn,
       lockVars
<1>5. Locked'
  BY DEF IInv, TypeOK, Locked, HoldsTask, HoldsRoom, CloseRemote, GoesOn, lockVars
<1>6. Asked'
  BY DEF IInv, TypeOK, Asked, WorkOK, Worker, CloseRemote, GoesOn, taskVars
<1>7. Accepted'
  BY DEF IInv, TypeOK, Accepted, WorkOK, Worker, Closer, CloseRemote, GoesOn, delVars
<1>8. Publishing'
  BY DEF IInv, TypeOK, Publishing, Records, Live, WorkOK, Worker, RoomOK, CloseRemote,
       GoesOn, taskVars, delVars, roomVars
<1>9. Opened'
  BY DEF IInv, TypeOK, Opened, WorkOK, Worker, IsOpen, RoomOK, Locked, HoldsRoom,
       CloseRemote, GoesOn, roomVars
<1>10. Closing'
  BY DEF IInv, TypeOK, Closing, WorkOK, Worker, Closer, RoomOK, CloseRemote, GoesOn,
       roomVars
<1>11. Handled'
  BY DEF IInv, TypeOK, Handled, WorkOK, Worker, CloseRemote, GoesOn
<1>12. Archiving'
  BY DEF IInv, TypeOK, Archiving, WorkOK, Worker, Closer, CloseRemote, GoesOn, roomVars
<1> QED BY <1>2, <1>3, <1>4, <1>5, <1>6, <1>7, <1>8, <1>9, <1>10, <1>11, <1>12 DEF IInv,
     TypeOK

LEMMA RecordClosedKeeps ==
    ASSUME IInv, NEW c \in Closer, RecordClosed(c)
    PROVE  IInv'
<1>1. UNCHANGED <<taskVars, delVars, seat, remote, agentVars, mishapVars>>
  BY DEF RecordClosed
<1>2. TaskOK' /\ DeletionOK' /\ SeatOK' /\ AgentOK' /\ MishapOK' /\ Fresh'
  BY <1>1 DEF IInv, TypeOK, taskVars, delVars, agentVars, mishapVars, TaskOK, DeletionOK,
       SeatOK, AgentOK, MishapOK, Fresh
<1>3. RoomOK'
  BY DEF IInv, TypeOK, RoomOK, RecordClosed
<1>4. WorkOK'
  BY DEF IInv, TypeOK, WorkOK, Worker, Place, Closer, RoomOrNone, RecordClosed, FreeRoom,
       GoesOn, After
<1>5. Locked'
  BY DEF IInv, TypeOK, Locked, HoldsTask, HoldsRoom, Worker, Closer, WorkOK, RecordClosed,
       FreeRoom, GoesOn, After
<1>6. Asked'
  BY DEF IInv, TypeOK, Asked, WorkOK, Worker, RecordClosed, GoesOn, taskVars
<1>7. Accepted'
  BY DEF IInv, TypeOK, Accepted, WorkOK, Worker, Closer, RecordClosed, GoesOn, delVars
<1>8. Publishing'
  BY DEF IInv, TypeOK, Publishing, Records, Live, WorkOK, Worker, Closer, RoomOK, Locked,
       HoldsTask, RecordClosed, GoesOn, After, taskVars, delVars, Closing
<1>9. Opened'
  BY DEF IInv, TypeOK, Opened, WorkOK, Worker, IsOpen, RoomOK, Locked, HoldsRoom,
       RecordClosed, GoesOn, After
<1>10. Closing'
  BY DEF IInv, TypeOK, Closing, WorkOK, Worker, Closer, RoomOK, Locked, HoldsRoom,
       HoldsTask, RecordClosed, GoesOn, After
<1>11. Handled'
  BY DEF IInv, TypeOK, Handled, WorkOK, Worker, Closer, Locked, HoldsRoom, RecordClosed,
       GoesOn, After
<1>12. RoomOfTask'
  BY DEF IInv, TypeOK, RoomOfTask, OneRoom, LinkIsHeld, Records, RoomOK, TaskOK, Publishing,
       Accepted, RecordClosed, After, taskVars, delVars, Closing
<1>13. Archiving'
  BY DEF IInv, TypeOK, Archiving, WorkOK, Worker, Closer, RecordClosed, GoesOn, After
<1> QED BY <1>2, <1>3, <1>4, <1>5, <1>6, <1>7, <1>8, <1>9, <1>10, <1>11, <1>12, <1>13 DEF
     IInv, TypeOK

LEMMA RecheckKeeps ==
    ASSUME IInv, NEW c \in Closer, NEW m \in Member, Recheck(c, m)
    PROVE  IInv'
<1>1. UNCHANGED <<taskVars, delVars, roomVars, remote, agentVars, mishapVars>>
  BY DEF Recheck
<1>2. /\ TaskOK' /\ DeletionOK' /\ RoomOK' /\ SeatOK' /\ AgentOK' /\ MishapOK'
      /\ RoomOfTask' /\ Fresh'
  BY <1>1 DEF IInv, TypeOK, taskVars, delVars, roomVars, agentVars, mishapVars, TaskOK,
       DeletionOK, RoomOK, SeatOK, AgentOK, MishapOK, RoomOfTask, OneRoom, LinkIsHeld,
       Records, Fresh
<1>3. WorkOK'
  BY DEF IInv, TypeOK, WorkOK, Worker, Place, Closer, RoomOrNone, Recheck, Done, lockVars,
       Ends, FreeAll
<1>4. Locked'
  BY DEF IInv, TypeOK, Locked, HoldsTask, HoldsRoom, Worker, Closer, WorkOK, Recheck,
       Retiring, Seats, NoSeat, Done, lockVars, Ends, FreeAll
<1>5. Asked'
  BY DEF IInv, TypeOK, Asked, TaskOK, WorkOK, Worker, Closer, Recheck, Retiring, Seats,
       NoSeat, Done, Ends, taskVars
<1>6. Accepted'
  BY DEF IInv, TypeOK, Accepted, WorkOK, Worker, Closer, Recheck, Retiring, Seats, NoSeat,
       Done, Ends, delVars
<1>7. Publishing'
  BY DEF IInv, TypeOK, Publishing, Records, Live, WorkOK, Worker, RoomOK, Recheck, Done,
       Ends, taskVars, delVars, roomVars
<1>8. Opened'
  BY DEF IInv, TypeOK, Opened, WorkOK, Worker, IsOpen, RoomOK, Locked, HoldsRoom, Recheck,
       Done, Ends, roomVars
<1>9. Closing'
  BY DEF IInv, TypeOK, Closing, WorkOK, Worker, Closer, RoomOK, Recheck, Retiring, Seats,
       NoSeat, Done, Ends, roomVars
<1>10. Handled'
  BY DEF IInv, TypeOK, Handled, WorkOK, Worker, Recheck, Done, Ends
<1>11. Archiving'
  BY DEF IInv, TypeOK, Archiving, WorkOK, Worker, Closer, Recheck, Done, Ends, roomVars
<1> QED BY <1>2, <1>3, <1>4, <1>5, <1>6, <1>7, <1>8, <1>9, <1>10, <1>11 DEF IInv, TypeOK

LEMMA InspectKeeps ==
    ASSUME IInv, NEW c \in Closer, NEW m \in Member, Inspect(c, m)
    PROVE  IInv'
<1>1. UNCHANGED <<taskVars, delVars, room, remote, agentVars, mishapVars>>
  BY DEF Inspect
<1>2. TaskOK' /\ DeletionOK' /\ RoomOK' /\ AgentOK' /\ MishapOK' /\ RoomOfTask' /\ Fresh'
  BY <1>1 DEF IInv, TypeOK, taskVars, delVars, agentVars, mishapVars, TaskOK, DeletionOK,
       RoomOK, AgentOK, MishapOK, RoomOfTask, OneRoom, LinkIsHeld, Records, Fresh
<1>3. SeatOK'
  <2>1. seat' = seat \/ Found(c, m)
    BY DEF Inspect
  <2> QED BY <2>1, SeatFound DEF IInv, TypeOK, SeatOK
<1>4. WorkOK'
  BY DEF IInv, TypeOK, WorkOK, Worker, Place, Closer, RoomOrNone, Inspect, Ends, FreeAll,
       workVars, lockVars
<1>5. Locked'
  BY DEF IInv, TypeOK, Locked, HoldsTask, HoldsRoom, Worker, Closer, WorkOK, Inspect,
       Retiring, Seats, NoSeat, Ends, FreeAll, workVars, lockVars
<1>6. Asked'
  BY DEF IInv, TypeOK, Asked, TaskOK, WorkOK, Worker, Closer, Inspect, Retiring, Seats,
       NoSeat, Ends, workVars, taskVars
<1>7. Accepted'
  BY DEF IInv, TypeOK, Accepted, WorkOK, Worker, Closer, Inspect, Ends, workVars, delVars
<1>8. Publishing'
  BY DEF IInv, TypeOK, Publishing, Records, Live, WorkOK, Worker, RoomOK, Inspect, Ends,
       workVars, taskVars, delVars
<1>9. Opened'
  BY DEF IInv, TypeOK, Opened, WorkOK, Worker, IsOpen, RoomOK, Locked, HoldsRoom, Inspect,
       Ends, workVars
<1>10. Closing'
  BY DEF IInv, TypeOK, Closing, WorkOK, Worker, Closer, RoomOK, Inspect, Ends, workVars
<1>11. Handled'
  BY DEF IInv, TypeOK, Handled, WorkOK, Worker, Inspect, Ends, workVars
<1>12. Archiving'
  <2> SUFFICES ASSUME NEW d \in Closer, at'[d] = "archived"
               PROVE  who'[d] \in Member /\ seat'[tgt'[d]][who'[d]].retire = "stopped"
    BY DEF Archiving
  <2>1. at[c] = "retire" /\ tgt[c] \in Room
    BY DEF IInv, Locked, HoldsRoom, Worker, Inspect, Retiring
  <2>2. at[d] = "archived" /\ tgt'[d] = tgt[d] /\ who'[d] = who[d]
    BY DEF IInv, TypeOK, WorkOK, Worker, Closer, Inspect, Ends, workVars
  <2>3. tgt[d] \in Room /\ tgt[d] # tgt[c]
    BY <2>1, <2>2 DEF IInv, Locked, HoldsRoom, Worker
  <2>4. seat'[tgt[d]] = seat[tgt[d]]
    BY <2>3 DEF IInv, TypeOK, SeatOK, Inspect, Found
  <2> QED BY <2>2, <2>4 DEF IInv, Archiving
<1> QED BY <1>2, <1>3, <1>4, <1>5, <1>6, <1>7, <1>8, <1>9, <1>10, <1>11, <1>12 DEF IInv,
     TypeOK

LEMMA StopMemberKeeps ==
    ASSUME IInv, NEW c \in Closer, NEW m \in Member, StopMember(c, m)
    PROVE  IInv'
<1>1. UNCHANGED <<taskVars, delVars, room, remote, launching, owner, identity, workVars,
                  lockVars, mishapVars>>
  BY DEF StopMember
<1>2. /\ TaskOK' /\ DeletionOK' /\ RoomOK' /\ WorkOK' /\ MishapOK' /\ Locked' /\ Asked'
      /\ Accepted' /\ Publishing' /\ Opened' /\ Closing' /\ Handled' /\ RoomOfTask'
      /\ Fresh'
  BY <1>1 DEF IInv, TypeOK, taskVars, delVars, workVars, lockVars, mishapVars, TaskOK,
       DeletionOK, RoomOK, WorkOK, MishapOK, Locked, HoldsTask, HoldsRoom, Asked, Accepted,
       Publishing, Records, Live, Opened, IsOpen, Closing, Handled, RoomOfTask, OneRoom,
       LinkIsHeld, Fresh
<1>3. SeatOK'
  <2>1. seat' = seat \/ seat' = [seat EXCEPT ![tgt[c]][m].retire = "stopped"]
    BY DEF StopMember, Advance
  <2> QED BY <2>1, SeatRetire DEF IInv, TypeOK, SeatOK, Phase
<1>4. AgentOK'
  BY DEF IInv, TypeOK, AgentOK, RoomOrNone, StopMember
<1>5. Archiving'
  BY DEF IInv, TypeOK, Archiving, WorkOK, Worker, Closer, StopMember, Advance, workVars
<1> QED BY <1>2, <1>3, <1>4, <1>5 DEF IInv, TypeOK

LEMMA ArchiveMemberKeeps ==
    ASSUME IInv, NEW c \in Closer, NEW m \in Member, ArchiveMember(c, m)
    PROVE  IInv'
<1>1. UNCHANGED <<taskVars, delVars, roomVars, remote, launching, owner, identity, lockVars,
                  mishapVars>>
  BY DEF ArchiveMember
<1>2. TaskOK' /\ DeletionOK' /\ RoomOK' /\ SeatOK' /\ MishapOK' /\ RoomOfTask' /\ Fresh'
  BY <1>1 DEF IInv, TypeOK, taskVars, delVars, roomVars, lockVars, mishapVars, TaskOK,
       DeletionOK, RoomOK, SeatOK, MishapOK, RoomOfTask, OneRoom, LinkIsHeld, Records, Fresh
<1>3. AgentOK'
  BY DEF IInv, TypeOK, AgentOK, RoomOrNone, ArchiveMember
<1>4. WorkOK'
  BY DEF IInv, TypeOK, WorkOK, Worker, Place, Closer, RoomOrNone, ArchiveMember, Handles,
       lockVars
<1>5. Locked'
  BY DEF IInv, TypeOK, Locked, HoldsTask, HoldsRoom, ArchiveMember, Retiring, Seats, NoSeat,
       Handles, lockVars
<1>6. Asked'
  BY DEF IInv, TypeOK, Asked, WorkOK, Worker, ArchiveMember, Retiring, Seats, NoSeat,
       Handles, taskVars
<1>7. Accepted'
  BY DEF IInv, TypeOK, Accepted, WorkOK, Worker, Closer, ArchiveMember, Retiring, Seats,
       NoSeat, Handles, delVars
<1>8. Publishing'
  BY DEF IInv, TypeOK, Publishing, Records, Live, WorkOK, Worker, RoomOK, ArchiveMember,
       Handles, taskVars, delVars, roomVars
<1>9. Opened'
  BY DEF IInv, TypeOK, Opened, WorkOK, Worker, IsOpen, RoomOK, Locked, HoldsRoom,
       ArchiveMember, Handles, roomVars
<1>10. Closing'
  BY DEF IInv, TypeOK, Closing, WorkOK, Worker, Closer, RoomOK, ArchiveMember, Retiring,
       Seats, NoSeat, Handles, roomVars
<1>11. Handled'
  BY DEF IInv, TypeOK, Handled, WorkOK, Worker, ArchiveMember, Handles
<1>12. Archiving'
  BY DEF IInv, TypeOK, Archiving, WorkOK, Worker, Closer, ArchiveMember, Handles, roomVars
<1> QED BY <1>2, <1>3, <1>4, <1>5, <1>6, <1>7, <1>8, <1>9, <1>10, <1>11, <1>12 DEF IInv,
     TypeOK

LEMMA RemoveIdentityKeeps ==
    ASSUME IInv, NEW c \in Closer, NEW m \in Member, RemoveIdentity(c, m)
    PROVE  IInv'
<1>1. UNCHANGED <<taskVars, delVars, roomVars, remote, launching, agent, owner, mishapVars>>
  BY DEF RemoveIdentity
<1>2. TaskOK' /\ DeletionOK' /\ RoomOK' /\ SeatOK' /\ MishapOK' /\ RoomOfTask' /\ Fresh'
  BY <1>1 DEF IInv, TypeOK, taskVars, delVars, roomVars, mishapVars, TaskOK, DeletionOK,
       RoomOK, SeatOK, MishapOK, RoomOfTask, OneRoom, LinkIsHeld, Records, Fresh
<1>3. AgentOK'
  BY DEF IInv, TypeOK, AgentOK, RoomOrNone, RemoveIdentity
<1>4. WorkOK'
  BY DEF IInv, TypeOK, WorkOK, Worker, Place, Closer, RoomOrNone, RemoveIdentity, Handles,
       lockVars, Ends, FreeAll
<1>5. Locked'
  BY DEF IInv, TypeOK, Locked, HoldsTask, HoldsRoom, Worker, Closer, WorkOK, RemoveIdentity,
       Retiring, Seats, NoSeat, MayRemove, Handles, lockVars, Ends, FreeAll
<1>6. Asked'
  BY DEF IInv, TypeOK, Asked, TaskOK, WorkOK, Worker, Closer, RemoveIdentity, Retiring,
       Seats, NoSeat, MayRemove, Handles, Ends, taskVars
<1>7. Accepted'
  BY DEF IInv, TypeOK, Accepted, WorkOK, Worker, Closer, RemoveIdentity, Retiring, Seats,
       NoSeat, MayRemove, Handles, Ends, delVars
<1>8. Publishing'
  BY DEF IInv, TypeOK, Publishing, Records, Live, WorkOK, Worker, RoomOK, RemoveIdentity,
       Handles, Ends, taskVars, delVars, roomVars
<1>9. Opened'
  BY DEF IInv, TypeOK, Opened, WorkOK, Worker, IsOpen, RoomOK, Locked, HoldsRoom,
       RemoveIdentity, Handles, Ends, roomVars
<1>10. Closing'
  BY DEF IInv, TypeOK, Closing, WorkOK, Worker, Closer, RoomOK, RemoveIdentity, Retiring,
       Seats, NoSeat, MayRemove, Handles, Ends, roomVars
<1>11. Handled'
  BY DEF IInv, TypeOK, Handled, WorkOK, Worker, RemoveIdentity, Handles, Ends
<1>12. Archiving'
  BY DEF IInv, TypeOK, Archiving, WorkOK, Worker, Closer, RemoveIdentity, Handles, Ends,
       roomVars
<1> QED BY <1>2, <1>3, <1>4, <1>5, <1>6, <1>7, <1>8, <1>9, <1>10, <1>11, <1>12 DEF IInv,
     TypeOK

-----------------------------------------------------------------------------
(* So does the deletion of a room after its close.                         *)
LEMMA EraseRoomKeeps ==
    ASSUME IInv, NEW c \in {"settle", "room"}, EraseRoom(c)
    PROVE  IInv'
<1>1. UNCHANGED <<taskVars, delVars, roomVars, remote, agentVars, mishapVars>>
  BY DEF EraseRoom
<1>2. /\ TaskOK' /\ DeletionOK' /\ RoomOK' /\ SeatOK' /\ AgentOK' /\ MishapOK'
      /\ RoomOfTask' /\ Fresh'
  BY <1>1 DEF IInv, TypeOK, taskVars, delVars, roomVars, agentVars, mishapVars, TaskOK,
       DeletionOK, RoomOK, SeatOK, AgentOK, MishapOK, RoomOfTask, OneRoom, LinkIsHeld,
       Records, Fresh
<1>3. WorkOK'
  BY DEF IInv, TypeOK, WorkOK, Worker, Place, Closer, RoomOrNone, EraseRoom, LockRoom,
       GoesOn
<1>4. Locked'
  BY DEF IInv, TypeOK, Locked, HoldsTask, HoldsRoom, Worker, Closer, WorkOK, EraseRoom,
       LockRoom, GoesOn, Handled
<1>5. Asked'
  BY DEF IInv, TypeOK, Asked, WorkOK, Worker, EraseRoom, GoesOn, taskVars
<1>6. Accepted'
  BY DEF IInv, TypeOK, Accepted, WorkOK, Worker, Closer, EraseRoom, GoesOn, delVars
<1>7. Publishing'
  BY DEF IInv, TypeOK, Publishing, Records, Live, WorkOK, Worker, RoomOK, EraseRoom, GoesOn,
       taskVars, delVars, roomVars
<1>8. Opened'
  BY DEF IInv, TypeOK, Opened, WorkOK, Worker, IsOpen, RoomOK, Locked, HoldsRoom, EraseRoom,
       GoesOn, roomVars
<1>9. Closing'
  BY DEF IInv, TypeOK, Closing, WorkOK, Worker, Closer, RoomOK, EraseRoom, GoesOn, roomVars
<1>10. Handled'
  BY DEF IInv, TypeOK, Handled, WorkOK, Worker, EraseRoom, GoesOn
<1>11. Archiving'
  BY DEF IInv, TypeOK, Archiving, WorkOK, Worker, Closer, EraseRoom, GoesOn, roomVars
<1> QED BY <1>2, <1>3, <1>4, <1>5, <1>6, <1>7, <1>8, <1>9, <1>10, <1>11 DEF IInv, TypeOK

LEMMA DeleteRemoteKeeps ==
    ASSUME IInv, NEW c \in {"settle", "room"}, DeleteRemote(c)
    PROVE  IInv'
<1>1. UNCHANGED <<taskVars, delVars, roomVars, agentVars, lockVars, mishapVars>>
  BY DEF DeleteRemote
<1>2. TaskOK' /\ DeletionOK' /\ SeatOK' /\ AgentOK' /\ MishapOK' /\ RoomOfTask' /\ Fresh'
  BY <1>1 DEF IInv, TypeOK, taskVars, delVars, roomVars, agentVars, lockVars, mishapVars,
       TaskOK, DeletionOK, SeatOK, AgentOK, MishapOK, RoomOfTask, OneRoom, LinkIsHeld,
       Records, Fresh
<1>3. RoomOK'
  BY DEF IInv, TypeOK, RoomOK, DeleteRemote, Unlisted, roomVars
<1>4. WorkOK'
  BY DEF IInv, TypeOK, WorkOK, Worker, Place, Closer, RoomOrNone, DeleteRemote, GoesOn,
       lockVars
<1>5. Locked'
  BY DEF IInv, TypeOK, Locked, HoldsTask, HoldsRoom, DeleteRemote, GoesOn, lockVars
<1>6. Asked'
  BY DEF IInv, TypeOK, Asked, WorkOK, Worker, DeleteRemote, GoesOn, taskVars
<1>7. Accepted'
  BY DEF IInv, TypeOK, Accepted, WorkOK, Worker, Closer, DeleteRemote, GoesOn, delVars
<1>8. Publishing'
  BY DEF IInv, TypeOK, Publishing, Records, Live, WorkOK, Worker, RoomOK, DeleteRemote,
       GoesOn, taskVars, delVars, roomVars
<1>9. Opened'
  BY DEF IInv, TypeOK, Opened, WorkOK, Worker, IsOpen, RoomOK, Locked, HoldsRoom,
       DeleteRemote, GoesOn, roomVars
<1>10. Closing'
  BY DEF IInv, TypeOK, Closing, WorkOK, Worker, Closer, RoomOK, DeleteRemote, GoesOn,
       roomVars
<1>11. Handled'
  BY DEF IInv, TypeOK, Handled, WorkOK, Worker, DeleteRemote, GoesOn
<1>12. Archiving'
  BY DEF IInv, TypeOK, Archiving, WorkOK, Worker, Closer, DeleteRemote, GoesOn, roomVars
<1> QED BY <1>2, <1>3, <1>4, <1>5, <1>6, <1>7, <1>8, <1>9, <1>10, <1>11, <1>12 DEF IInv,
     TypeOK

LEMMA DropRecordKeeps ==
    ASSUME IInv, NEW c \in {"settle", "room"}, DropRecord(c)
    PROVE  IInv'
<1>1. UNCHANGED <<taskState, intent, asked, delVars, remote, agentVars>>
  BY DEF DropRecord
<1>2. DeletionOK' /\ AgentOK' /\ Fresh'
  BY <1>1 DEF IInv, TypeOK, delVars, agentVars, DeletionOK, AgentOK, Fresh
<1>3. TaskOK'
  BY DEF IInv, TypeOK, TaskOK, Cancellable, Terminal, RoomOrNone, DropRecord, Detaches
<1>4. RoomOK'
  BY DEF IInv, TypeOK, RoomOK, DropRecord, Unrecorded, roomVars
<1>5. SeatOK'
  BY NoSeatOK DEF IInv, TypeOK, SeatOK, DropRecord, Unrecorded, roomVars
<1>6. WorkOK'
  BY DEF IInv, TypeOK, WorkOK, Worker, Place, Closer, RoomOrNone, DropRecord, FreeRoom,
       GoesOn, Ends, FreeAll
<1>7. MishapOK'
  BY DEF IInv, TypeOK, MishapOK, RoomOrNone, DropRecord, mishapVars, Mishap
<1>8. Locked'
  BY DEF IInv, TypeOK, Locked, HoldsTask, HoldsRoom, Worker, Closer, WorkOK, DropRecord,
       NoSeat, FreeRoom, GoesOn, Ends, FreeAll
<1>9. Asked'
  BY DEF IInv, TypeOK, Asked, TaskOK, WorkOK, Worker, Closer, DropRecord, NoSeat, GoesOn,
       Ends
<1>10. Accepted'
  BY DEF IInv, TypeOK, Accepted, WorkOK, Worker, Closer, DropRecord, GoesOn, Ends, delVars
<1>11. Publishing'
  BY DEF IInv, TypeOK, Publishing, Records, Live, WorkOK, Worker, RoomOK, DropRecord,
       Unrecorded, GoesOn, Ends, roomVars, delVars
<1>12. Opened'
  BY DEF IInv, TypeOK, Opened, WorkOK, Worker, Closer, IsOpen, RoomOK, Locked, HoldsRoom,
       HoldsTask, DropRecord, Unrecorded, NoSeat, GoesOn, Ends, roomVars
<1>13. Closing'
  BY DEF IInv, TypeOK, Closing, WorkOK, Worker, Closer, RoomOK, Locked, HoldsRoom,
       HoldsTask, DropRecord, Unrecorded, NoSeat, GoesOn, Ends, roomVars
<1>14. Handled'
  BY DEF IInv, TypeOK, Handled, WorkOK, Worker, DropRecord, GoesOn, Ends
<1>15. RoomOfTask'
  BY DEF IInv, TypeOK, RoomOfTask, OneRoom, LinkIsHeld, Records, RoomOK, DropRecord,
       Detaches, Unrecorded, roomVars, delVars
<1>16. Archiving'
  <2> SUFFICES ASSUME NEW d \in Closer, at'[d] = "archived"
               PROVE  who'[d] \in Member /\ seat'[tgt'[d]][who'[d]].retire = "stopped"
    BY DEF Archiving
  <2>1. d # c /\ at[d] = "archived" /\ tgt'[d] = tgt[d] /\ who'[d] = who[d]
    BY DEF IInv, TypeOK, WorkOK, Worker, Closer, Locked, HoldsTask, DropRecord, Ends,
         GoesOn, GoesFor, Done, Handles
  <2>2. tgt[d] \in Room /\ (tgt[d] # tgt[c] \/ seat' = seat)
    BY <2>1 DEF IInv, Locked, HoldsRoom, Worker, Closer, DropRecord, roomVars
  <2>3. seat'[tgt[d]] = seat[tgt[d]]
    BY <2>2 DEF IInv, TypeOK, SeatOK, DropRecord, Unrecorded, roomVars
  <2> QED BY <2>1, <2>3 DEF IInv, Archiving
<1> QED BY <1>2, <1>3, <1>4, <1>5, <1>6, <1>7, <1>8, <1>9, <1>10, <1>11, <1>12, <1>13,
     <1>14, <1>15, <1>16 DEF IInv, TypeOK

-----------------------------------------------------------------------------
(* So do a deletion's own steps, and those of a settlement.                *)
LEMMA DeleteStartKeeps ==
    ASSUME IInv, DeleteStart
    PROVE  IInv'
<1>1. UNCHANGED <<taskVars, delVars, roomVars, remote, agentVars, mishapVars>>
  BY DEF DeleteStart
<1>2. /\ TaskOK' /\ DeletionOK' /\ RoomOK' /\ SeatOK' /\ AgentOK' /\ MishapOK'
      /\ RoomOfTask' /\ Fresh'
  BY <1>1 DEF IInv, TypeOK, taskVars, delVars, roomVars, agentVars, mishapVars, TaskOK,
       DeletionOK, RoomOK, SeatOK, AgentOK, MishapOK, RoomOfTask, OneRoom, LinkIsHeld,
       Records, Fresh
<1>3. WorkOK'
  BY DEF IInv, TypeOK, WorkOK, Worker, Place, Closer, RoomOrNone, DeleteStart, LockTask,
       GoesOn
<1>4. Locked'
  BY DEF IInv, TypeOK, Locked, HoldsTask, HoldsRoom, DeleteStart, LockTask, GoesOn
<1>5. Asked'
  BY DEF IInv, TypeOK, Asked, WorkOK, Worker, DeleteStart, GoesOn, taskVars
<1>6. Accepted'
  BY DEF IInv, TypeOK, Accepted, WorkOK, Worker, Closer, DeleteStart, GoesOn, delVars
<1>7. Publishing'
  BY DEF IInv, TypeOK, Publishing, Records, Live, WorkOK, Worker, RoomOK, DeleteStart,
       GoesOn, taskVars, delVars, roomVars
<1>8. Opened'
  BY DEF IInv, TypeOK, Opened, WorkOK, Worker, IsOpen, RoomOK, Locked, HoldsRoom,
       DeleteStart, GoesOn, roomVars
<1>9. Closing'
  BY DEF IInv, TypeOK, Closing, WorkOK, Worker, Closer, RoomOK, DeleteStart, GoesOn,
       roomVars
<1>10. Handled'
  BY DEF IInv, TypeOK, Handled, WorkOK, Worker, DeleteStart, GoesOn
<1>11. Archiving'
  BY DEF IInv, TypeOK, Archiving, WorkOK, Worker, Closer, DeleteStart, GoesOn, roomVars
<1> QED BY <1>2, <1>3, <1>4, <1>5, <1>6, <1>7, <1>8, <1>9, <1>10, <1>11 DEF IInv, TypeOK

LEMMA ScanDoneKeeps ==
    ASSUME IInv, ScanDone
    PROVE  IInv'
<1>1. UNCHANGED <<taskVars, delVars, roomVars, remote, agentVars, lockVars, mishapVars>>
  BY DEF ScanDone
<1>2. /\ TaskOK' /\ DeletionOK' /\ RoomOK' /\ SeatOK' /\ AgentOK' /\ MishapOK'
      /\ RoomOfTask' /\ Fresh'
  BY <1>1 DEF IInv, TypeOK, taskVars, delVars, roomVars, agentVars, lockVars, mishapVars,
       TaskOK, DeletionOK, RoomOK, SeatOK, AgentOK, MishapOK, RoomOfTask, OneRoom,
       LinkIsHeld, Records, Fresh
<1>3. WorkOK'
  BY DEF IInv, TypeOK, WorkOK, Worker, Place, Closer, RoomOrNone, ScanDone, GoesFor,
       lockVars
<1>4. Locked'
  BY DEF IInv, TypeOK, Locked, HoldsTask, HoldsRoom, ScanDone, GoesFor, lockVars
<1>5. Asked'
  BY DEF IInv, TypeOK, Asked, WorkOK, Worker, ScanDone, GoesFor, taskVars
<1>6. Accepted'
  BY DEF IInv, TypeOK, Accepted, WorkOK, Worker, Closer, ScanDone, GoesFor, delVars
<1>7. Publishing'
  BY DEF IInv, TypeOK, Publishing, Records, Live, WorkOK, Worker, RoomOK, ScanDone, GoesFor,
       taskVars, delVars, roomVars
<1>8. Opened'
  BY DEF IInv, TypeOK, Opened, WorkOK, Worker, IsOpen, RoomOK, Locked, HoldsRoom, ScanDone,
       GoesFor, roomVars
<1>9. Closing'
  BY DEF IInv, TypeOK, Closing, WorkOK, Worker, Closer, RoomOK, ScanDone, GoesFor, roomVars
<1>10. Handled'
  BY DEF IInv, TypeOK, Handled, WorkOK, Worker, ScanDone, GoesFor
<1>11. Archiving'
  BY DEF IInv, TypeOK, Archiving, WorkOK, Worker, Closer, ScanDone, GoesFor, roomVars
<1> QED BY <1>2, <1>3, <1>4, <1>5, <1>6, <1>7, <1>8, <1>9, <1>10, <1>11 DEF IInv, TypeOK

LEMMA ImportEvidenceKeeps ==
    ASSUME IInv, ImportEvidence
    PROVE  IInv'
<1>1. UNCHANGED <<taskVars, deleting, roomVars, remote, agentVars, mishapVars>>
  BY DEF ImportEvidence
<1>2. TaskOK' /\ RoomOK' /\ SeatOK' /\ AgentOK' /\ MishapOK' /\ RoomOfTask'
  BY <1>1 DEF IInv, TypeOK, taskVars, roomVars, agentVars, mishapVars, TaskOK, RoomOK,
       SeatOK, AgentOK, MishapOK, RoomOfTask, OneRoom, LinkIsHeld, Records
<1>3. DeletionOK'
  <2>1. [phase |-> "gone", room |-> tgt["delete"]] \in [phase : Phase \cup {"none"}, room : RoomOrNone]
    BY DEF IInv, TypeOK, WorkOK, Worker, Closer, Phase
  <2> QED BY <2>1 DEF IInv, TypeOK, DeletionOK, ImportEvidence, Seats, Known
<1>4. WorkOK'
  BY DEF IInv, TypeOK, WorkOK, Worker, Place, Closer, RoomOrNone, ImportEvidence, Ends,
       FreeAll, GoesOn, lockVars
<1>5. Locked'
  BY DEF IInv, TypeOK, Locked, HoldsTask, HoldsRoom, Worker, Closer, WorkOK, ImportEvidence,
       Seats, NoSeat, ConflictsWith, Known, Ends, FreeAll, GoesOn, lockVars
<1>6. Asked'
  BY DEF IInv, TypeOK, Asked, TaskOK, WorkOK, Worker, Closer, ImportEvidence, Seats, NoSeat,
       ConflictsWith, Known, Ends, GoesOn, taskVars
<1>7. Accepted'
  BY DEF IInv, TypeOK, Accepted, WorkOK, Worker, Closer, ImportEvidence, Ends, GoesOn
<1>8. Publishing'
  BY DEF IInv, TypeOK, Publishing, Records, Live, WorkOK, Worker, RoomOK, ImportEvidence,
       Ends, GoesOn, taskVars, roomVars
<1>9. Opened'
  BY DEF IInv, TypeOK, Opened, WorkOK, Worker, IsOpen, RoomOK, Locked, HoldsRoom,
       ImportEvidence, Ends, GoesOn, roomVars
<1>10. Closing'
  BY DEF IInv, TypeOK, Closing, WorkOK, Worker, Closer, RoomOK, ImportEvidence, Ends,
       GoesOn, roomVars
<1>11. Handled'
  BY DEF IInv, TypeOK, Handled, WorkOK, Worker, ImportEvidence, Ends, GoesOn
<1>12. Archiving'
  BY DEF IInv, TypeOK, Archiving, WorkOK, Worker, Closer, ImportEvidence, Ends, GoesOn,
       roomVars
<1>13. Fresh'
  BY DEF IInv, TypeOK, Fresh, DeletionOK, Accepted, WorkOK, Worker, Closer, ImportEvidence,
       Seats, NoSeat, ConflictsWith, Known
<1> QED BY <1>2, <1>3, <1>4, <1>5, <1>6, <1>7, <1>8, <1>9, <1>10, <1>11, <1>12, <1>13 DEF
     IInv, TypeOK

LEMMA DeleteRoomOfTaskKeeps ==
    ASSUME IInv, DeleteRoomOfTask
    PROVE  IInv'
<1>1. UNCHANGED <<taskVars, delVars, roomVars, agentVars, lockVars, mishapVars>>
  BY DEF DeleteRoomOfTask
<1>2. TaskOK' /\ DeletionOK' /\ SeatOK' /\ AgentOK' /\ MishapOK' /\ RoomOfTask' /\ Fresh'
  BY <1>1 DEF IInv, TypeOK, taskVars, delVars, roomVars, agentVars, lockVars, mishapVars,
       TaskOK, DeletionOK, SeatOK, AgentOK, MishapOK, RoomOfTask, OneRoom, LinkIsHeld,
       Records, Fresh
<1>3. RoomOK'
  BY DEF IInv, TypeOK, RoomOK, DeleteRoomOfTask, Unlisted, roomVars
<1>4. WorkOK'
  BY DEF IInv, TypeOK, WorkOK, Worker, Place, Closer, RoomOrNone, DeleteRoomOfTask, GoesOn,
       lockVars
<1>5. Locked'
  BY DEF IInv, TypeOK, Locked, HoldsTask, HoldsRoom, DeleteRoomOfTask, GoesOn, lockVars
<1>6. Asked'
  BY DEF IInv, TypeOK, Asked, WorkOK, Worker, DeleteRoomOfTask, GoesOn, taskVars
<1>7. Accepted'
  BY DEF IInv, TypeOK, Accepted, WorkOK, Worker, Closer, DeleteRoomOfTask, GoesOn, delVars
<1>8. Publishing'
  BY DEF IInv, TypeOK, Publishing, Records, Live, WorkOK, Worker, RoomOK, DeleteRoomOfTask,
       GoesOn, taskVars, delVars, roomVars
<1>9. Opened'
  BY DEF IInv, TypeOK, Opened, WorkOK, Worker, IsOpen, RoomOK, Locked, HoldsRoom,
       DeleteRoomOfTask, GoesOn, roomVars
<1>10. Closing'
  BY DEF IInv, TypeOK, Closing, WorkOK, Worker, Closer, RoomOK, DeleteRoomOfTask, GoesOn,
       roomVars
<1>11. Handled'
  BY DEF IInv, TypeOK, Handled, WorkOK, Worker, DeleteRoomOfTask, GoesOn
<1>12. Archiving'
  BY DEF IInv, TypeOK, Archiving, WorkOK, Worker, Closer, DeleteRoomOfTask, GoesOn, roomVars
<1> QED BY <1>2, <1>3, <1>4, <1>5, <1>6, <1>7, <1>8, <1>9, <1>10, <1>11, <1>12 DEF IInv,
     TypeOK

LEMMA DropRecordOfTaskKeeps ==
    ASSUME IInv, DropRecordOfTask
    PROVE  IInv'
<1>1. UNCHANGED <<taskVars, delVars, remote, agentVars, lockVars, mishapVars>>
  BY DEF DropRecordOfTask
<1>2. TaskOK' /\ DeletionOK' /\ AgentOK' /\ MishapOK' /\ Fresh'
  BY <1>1 DEF IInv, TypeOK, taskVars, delVars, agentVars, lockVars, mishapVars, TaskOK,
       DeletionOK, AgentOK, MishapOK, Fresh
<1>3. RoomOK'
  BY DEF IInv, TypeOK, RoomOK, DropRecordOfTask, Unrecorded
<1>4. SeatOK'
  BY DEF IInv, TypeOK, SeatOK, Phase, SeatRecord, DropRecordOfTask, Unrecorded, NoSeat
<1>5. WorkOK'
  BY DEF IInv, TypeOK, WorkOK, Worker, Place, Closer, RoomOrNone, DropRecordOfTask, GoesFor,
       lockVars
<1>6. Locked'
  BY DEF IInv, TypeOK, Locked, HoldsTask, HoldsRoom, DropRecordOfTask, GoesFor, lockVars
<1>7. Asked'
  BY DEF IInv, TypeOK, Asked, WorkOK, Worker, DropRecordOfTask, GoesFor, taskVars
<1>8. Accepted'
  BY DEF IInv, TypeOK, Accepted, WorkOK, Worker, Closer, DropRecordOfTask, GoesFor, delVars
<1>9. Publishing'
  BY DEF IInv, TypeOK, Publishing, Records, Live, WorkOK, Worker, RoomOK, DropRecordOfTask,
       Unrecorded, GoesFor, taskVars, delVars
<1>10. Opened'
  BY DEF IInv, TypeOK, Opened, WorkOK, Worker, Closer, IsOpen, RoomOK, Locked, HoldsRoom,
       HoldsTask, DropRecordOfTask, Unrecorded, NoSeat, GoesFor
<1>11. Closing'
  BY DEF IInv, TypeOK, Closing, WorkOK, Worker, Closer, RoomOK, DropRecordOfTask,
       Unrecorded, GoesFor
<1>12. Handled'
  BY DEF IInv, TypeOK, Handled, WorkOK, Worker, DropRecordOfTask, GoesFor
<1>13. RoomOfTask'
  BY DEF IInv, TypeOK, RoomOfTask, OneRoom, LinkIsHeld, Records, RoomOK, TaskOK, Publishing,
       Accepted, DropRecordOfTask, Unrecorded, NoSeat, taskVars, delVars
<1>14. Archiving'
  <2> SUFFICES ASSUME NEW d \in Closer, at'[d] = "archived"
               PROVE  who'[d] \in Member /\ seat'[tgt'[d]][who'[d]].retire = "stopped"
    BY DEF Archiving
  <2>1. at[d] = "archived" /\ tgt'[d] = tgt[d] /\ who'[d] = who[d]
    BY DEF IInv, TypeOK, WorkOK, Worker, Closer, DropRecordOfTask, GoesFor
  <2>2. tgt[d] \in Room /\ room[tgt[d]] \in {"retiring", "unlisting"}
    BY <2>1 DEF IInv, Locked, HoldsRoom, Worker, Closing
  <2>3. tgt[d] # tgt["delete"]
    BY <2>2 DEF IInv, Closing, DropRecordOfTask
  <2>4. seat'[tgt[d]] = seat[tgt[d]]
    BY <2>2, <2>3 DEF IInv, TypeOK, SeatOK, DropRecordOfTask, Unrecorded
  <2> QED BY <2>1, <2>4 DEF IInv, Archiving
<1> QED BY <1>2, <1>3, <1>4, <1>5, <1>6, <1>7, <1>8, <1>9, <1>10, <1>11, <1>12, <1>13, <1>14
     DEF IInv, TypeOK

LEMMA CursorGoneKeeps ==
    ASSUME IInv, CursorGone
    PROVE  IInv'
<1>1. UNCHANGED <<taskVars, deleting, absent, roomVars, remote, agentVars, lockVars,
                  mishapVars>>
  BY DEF CursorGone
<1>2. TaskOK' /\ RoomOK' /\ SeatOK' /\ AgentOK' /\ MishapOK' /\ RoomOfTask'
  BY <1>1 DEF IInv, TypeOK, taskVars, roomVars, agentVars, lockVars, mishapVars, TaskOK,
       RoomOK, SeatOK, AgentOK, MishapOK, RoomOfTask, OneRoom, LinkIsHeld, Records
<1>3. DeletionOK'
  BY DEF IInv, TypeOK, DeletionOK, Phase, RoomOrNone, CursorGone, Marks
<1>4. WorkOK'
  BY DEF IInv, TypeOK, WorkOK, Worker, Place, Closer, RoomOrNone, CursorGone, Done,
       lockVars, Handled
<1>5. Locked'
  BY DEF IInv, TypeOK, Locked, HoldsTask, HoldsRoom, CursorGone, Done, lockVars
<1>6. Asked'
  BY DEF IInv, TypeOK, Asked, WorkOK, Worker, CursorGone, Done, taskVars
<1>7. Accepted'
  BY DEF IInv, TypeOK, Accepted, WorkOK, Worker, Closer, CursorGone, Done
<1>8. Publishing'
  BY DEF IInv, TypeOK, Publishing, Records, Live, WorkOK, Worker, RoomOK, CursorGone, Done,
       taskVars, roomVars
<1>9. Opened'
  BY DEF IInv, TypeOK, Opened, WorkOK, Worker, IsOpen, RoomOK, Locked, HoldsRoom,
       CursorGone, Done, roomVars
<1>10. Closing'
  BY DEF IInv, TypeOK, Closing, WorkOK, Worker, Closer, RoomOK, CursorGone, Done, roomVars
<1>11. Handled'
  BY DEF IInv, TypeOK, Handled, WorkOK, Worker, CursorGone, Done
<1>12. Archiving'
  BY DEF IInv, TypeOK, Archiving, WorkOK, Worker, Closer, CursorGone, Done, roomVars
<1>13. Fresh'
  BY DEF IInv, TypeOK, Fresh, DeletionOK, Accepted, WorkOK, Worker, Closer, CursorGone,
       Marks
<1> QED BY <1>2, <1>3, <1>4, <1>5, <1>6, <1>7, <1>8, <1>9, <1>10, <1>11, <1>12, <1>13 DEF
     IInv, TypeOK

LEMMA CleanupDoneKeeps ==
    ASSUME IInv, CleanupDone
    PROVE  IInv'
<1>1. UNCHANGED <<taskVars, delVars, roomVars, agentVars, mishapVars>>
  BY DEF CleanupDone
<1>2. TaskOK' /\ DeletionOK' /\ SeatOK' /\ AgentOK' /\ MishapOK' /\ RoomOfTask' /\ Fresh'
  BY <1>1 DEF IInv, TypeOK, taskVars, delVars, roomVars, agentVars, mishapVars, TaskOK,
       DeletionOK, SeatOK, AgentOK, MishapOK, RoomOfTask, OneRoom, LinkIsHeld, Records,
       Fresh
<1>3. RoomOK'
  BY DEF IInv, TypeOK, RoomOK, CleanupDone, Unlisted, roomVars
<1>4. WorkOK'
  BY DEF IInv, TypeOK, WorkOK, Worker, Place, Closer, RoomOrNone, CleanupDone, FreeAll,
       GoesOn
<1>5. Locked'
  BY DEF IInv, TypeOK, Locked, HoldsTask, HoldsRoom, Worker, Closer, WorkOK, CleanupDone,
       NoCursor, FreeAll, GoesOn
<1>6. Asked'
  BY DEF IInv, TypeOK, Asked, WorkOK, Worker, CleanupDone, GoesOn, taskVars
<1>7. Accepted'
  BY DEF IInv, TypeOK, Accepted, WorkOK, Worker, Closer, CleanupDone, GoesOn, delVars
<1>8. Publishing'
  BY DEF IInv, TypeOK, Publishing, Records, Live, WorkOK, Worker, RoomOK, CleanupDone,
       GoesOn, taskVars, delVars, roomVars
<1>9. Opened'
  BY DEF IInv, TypeOK, Opened, WorkOK, Worker, IsOpen, RoomOK, Locked, HoldsRoom,
       CleanupDone, GoesOn, roomVars
<1>10. Closing'
  BY DEF IInv, TypeOK, Closing, WorkOK, Worker, Closer, RoomOK, CleanupDone, GoesOn,
       roomVars
<1>11. Handled'
  BY DEF IInv, TypeOK, Handled, WorkOK, Worker, CleanupDone, GoesOn
<1>12. Archiving'
  BY DEF IInv, TypeOK, Archiving, WorkOK, Worker, Closer, CleanupDone, GoesOn, roomVars
<1> QED BY <1>2, <1>3, <1>4, <1>5, <1>6, <1>7, <1>8, <1>9, <1>10, <1>11, <1>12 DEF IInv,
     TypeOK

LEMMA UnlinkTaskKeeps ==
    ASSUME IInv, UnlinkTask
    PROVE  IInv'
<1>1. UNCHANGED <<asked, roomVars, remote, agentVars, mishapVars>>
  BY DEF UnlinkTask
<1>2. RoomOK' /\ SeatOK' /\ AgentOK' /\ MishapOK'
  BY <1>1 DEF IInv, TypeOK, roomVars, agentVars, mishapVars, RoomOK, SeatOK, AgentOK,
       MishapOK
<1>3. TaskOK'
  BY DEF IInv, TypeOK, TaskOK, Cancellable, Terminal, RoomOrNone, UnlinkTask, MayUnlink,
       Records, NoIntent, NoCursor
<1>4. DeletionOK'
  <2>1. NoCursor \in [phase : Phase \cup {"none"}, room : RoomOrNone]
    BY DEF NoCursor, RoomOrNone
  <2> QED BY <2>1 DEF IInv, TypeOK, DeletionOK, UnlinkTask, delVars
<1>5. WorkOK'
  BY DEF IInv, TypeOK, WorkOK, Worker, Place, Closer, RoomOrNone, UnlinkTask, Ends, FreeAll
<1>6. Locked'
  BY DEF IInv, TypeOK, Locked, HoldsTask, HoldsRoom, UnlinkTask, Ends, FreeAll
<1>7. Asked'
  BY DEF IInv, TypeOK, Asked, TaskOK, WorkOK, Worker, Closer, UnlinkTask, Ends, MayUnlink,
       Records, NoIntent, NoCursor, Locked, HoldsTask
<1>8. Accepted'
  BY DEF IInv, TypeOK, Accepted, WorkOK, Worker, Closer, UnlinkTask, Ends, delVars
<1>9. Publishing'
  BY DEF IInv, TypeOK, Publishing, Records, Live, WorkOK, Worker, RoomOK, UnlinkTask, Ends,
       MayUnlink, NoIntent, NoCursor, delVars, roomVars
<1>10. Opened'
  BY DEF IInv, TypeOK, Opened, WorkOK, Worker, IsOpen, RoomOK, Locked, HoldsRoom,
       UnlinkTask, Ends, roomVars
<1>11. Closing'
  BY DEF IInv, TypeOK, Closing, WorkOK, Worker, Closer, RoomOK, UnlinkTask, Ends, roomVars
<1>12. Handled'
  BY DEF IInv, TypeOK, Handled, WorkOK, Worker, UnlinkTask, Ends
<1>13. RoomOfTask'
  BY DEF IInv, TypeOK, RoomOfTask, OneRoom, LinkIsHeld, Records, RoomOK, UnlinkTask,
       MayUnlink, NoIntent, NoCursor, delVars, roomVars
<1>14. Archiving'
  BY DEF IInv, TypeOK, Archiving, WorkOK, Worker, Closer, UnlinkTask, Ends, roomVars
<1>15. Fresh'
  <2>1. deleting
    BY DEF IInv, Accepted, UnlinkTask
  <2>2. CASE MayUnlink
    BY <2>2 DEF UnlinkTask, Fresh
  <2>3. CASE ~MayUnlink
    BY <2>1, <2>3 DEF UnlinkTask, Fresh, delVars
  <2> QED BY <2>2, <2>3
<1> QED BY <1>2, <1>3, <1>4, <1>5, <1>6, <1>7, <1>8, <1>9, <1>10, <1>11, <1>12, <1>13,
     <1>14, <1>15 DEF IInv, TypeOK

LEMMA SettleStartKeeps ==
    ASSUME IInv, SettleStart
    PROVE  IInv'
<1>1. UNCHANGED <<taskVars, delVars, roomVars, remote, agentVars, mishapVars>>
  BY DEF SettleStart
<1>2. /\ TaskOK' /\ DeletionOK' /\ RoomOK' /\ SeatOK' /\ AgentOK' /\ MishapOK'
      /\ RoomOfTask' /\ Fresh'
  BY <1>1 DEF IInv, TypeOK, taskVars, delVars, roomVars, agentVars, mishapVars, TaskOK,
       DeletionOK, RoomOK, SeatOK, AgentOK, MishapOK, RoomOfTask, OneRoom, LinkIsHeld,
       Records, Fresh
<1>3. WorkOK'
  BY DEF IInv, TypeOK, WorkOK, Worker, Place, Closer, RoomOrNone, SettleStart, LockTask,
       Records, GoesFor, GoesOn
<1>4. Locked'
  BY DEF IInv, TypeOK, Locked, HoldsTask, HoldsRoom, Worker, Closer, WorkOK, SettleStart,
       LockTask, Records, GoesFor, GoesOn
<1>5. Asked'
  BY DEF IInv, TypeOK, Asked, WorkOK, Worker, SettleStart, GoesFor, GoesOn, taskVars
<1>6. Accepted'
  BY DEF IInv, TypeOK, Accepted, WorkOK, Worker, Closer, SettleStart, GoesFor, GoesOn,
       delVars
<1>7. Publishing'
  BY DEF IInv, TypeOK, Publishing, Records, Live, WorkOK, Worker, RoomOK, SettleStart,
       GoesFor, GoesOn, taskVars, delVars, roomVars
<1>8. Opened'
  BY DEF IInv, TypeOK, Opened, WorkOK, Worker, IsOpen, RoomOK, Locked, HoldsRoom,
       SettleStart, GoesFor, GoesOn, roomVars
<1>9. Closing'
  BY DEF IInv, TypeOK, Closing, WorkOK, Worker, Closer, RoomOK, SettleStart, GoesFor,
       GoesOn, roomVars
<1>10. Handled'
  BY DEF IInv, TypeOK, Handled, WorkOK, Worker, SettleStart, Records, GoesFor, GoesOn
<1>11. Archiving'
  BY DEF IInv, TypeOK, Archiving, WorkOK, Worker, Closer, SettleStart, GoesFor, GoesOn,
       roomVars
<1> QED BY <1>2, <1>3, <1>4, <1>5, <1>6, <1>7, <1>8, <1>9, <1>10, <1>11 DEF IInv, TypeOK

LEMMA FinishIntentKeeps ==
    ASSUME IInv, FinishIntent
    PROVE  IInv'
<1>1. UNCHANGED <<asked, linked, roles, delVars, roomVars, remote, agentVars, mishapVars>>
  BY DEF FinishIntent
<1>2. DeletionOK' /\ RoomOK' /\ SeatOK' /\ AgentOK' /\ MishapOK' /\ RoomOfTask' /\ Fresh'
  BY <1>1 DEF IInv, TypeOK, delVars, roomVars, agentVars, mishapVars, DeletionOK, RoomOK,
       SeatOK, AgentOK, MishapOK, RoomOfTask, OneRoom, LinkIsHeld, Records, Fresh
<1>3. TaskOK'
  BY DEF IInv, TypeOK, TaskOK, Cancellable, Terminal, RoomOrNone, FinishIntent, Asked
<1>4. WorkOK'
  BY DEF IInv, TypeOK, WorkOK, Worker, Place, Closer, RoomOrNone, FinishIntent, Ends,
       FreeAll
<1>5. Locked'
  BY DEF IInv, TypeOK, Locked, HoldsTask, HoldsRoom, Worker, Closer, WorkOK, FinishIntent,
       Ends, FreeAll
<1>6. Asked'
  BY DEF IInv, TypeOK, Asked, TaskOK, WorkOK, Worker, Closer, FinishIntent, Ends
<1>7. Accepted'
  BY DEF IInv, TypeOK, Accepted, WorkOK, Worker, Closer, FinishIntent, Ends, delVars
<1>8. Publishing'
  BY DEF IInv, TypeOK, Publishing, Records, Live, WorkOK, Worker, Closer, RoomOK, Locked,
       HoldsTask, FinishIntent, Ends, delVars, roomVars
<1>9. Opened'
  BY DEF IInv, TypeOK, Opened, WorkOK, Worker, IsOpen, RoomOK, Locked, HoldsRoom,
       FinishIntent, Ends, roomVars
<1>10. Closing'
  BY DEF IInv, TypeOK, Closing, WorkOK, Worker, Closer, RoomOK, FinishIntent, Ends, roomVars
<1>11. Handled'
  BY DEF IInv, TypeOK, Handled, WorkOK, Worker, FinishIntent, Ends
<1>12. Archiving'
  BY DEF IInv, TypeOK, Archiving, WorkOK, Worker, Closer, FinishIntent, Ends, roomVars
<1> QED BY <1>2, <1>3, <1>4, <1>5, <1>6, <1>7, <1>8, <1>9, <1>10, <1>11, <1>12 DEF IInv,
     TypeOK

LEMMA ScanRecordKeeps ==
    ASSUME IInv, NEW r \in Room, ScanRecord(r)
    PROVE  IInv'
<1>1. UNCHANGED <<taskVars, deleting, absent, roomVars, remote, agentVars, mishapVars>>
  BY DEF ScanRecord
<1>2. TaskOK' /\ RoomOK' /\ SeatOK' /\ AgentOK' /\ MishapOK' /\ RoomOfTask'
  BY <1>1 DEF IInv, TypeOK, taskVars, roomVars, agentVars, mishapVars, TaskOK, RoomOK,
       SeatOK, AgentOK, MishapOK, RoomOfTask, OneRoom, LinkIsHeld, Records
<1>3. DeletionOK'
  BY DEF IInv, TypeOK, DeletionOK, Phase, RoomOrNone, ScanRecord, Upserts
<1>4. WorkOK'
  BY DEF IInv, TypeOK, WorkOK, Worker, Place, Closer, RoomOrNone, ScanRecord, Ends, FreeAll,
       GoesFor, lockVars
<1>5. Locked'
  BY DEF IInv, TypeOK, Locked, HoldsTask, HoldsRoom, Worker, Closer, WorkOK, ScanRecord,
       Records, ConflictsWith, Known, Ends, FreeAll, NoCursor, GoesFor, lockVars
<1>6. Asked'
  BY DEF IInv, TypeOK, Asked, TaskOK, WorkOK, Worker, Closer, ScanRecord, Records,
       ConflictsWith, Known, Ends, NoCursor, GoesFor, taskVars
<1>7. Accepted'
  BY DEF IInv, TypeOK, Accepted, WorkOK, Worker, Closer, ScanRecord, Ends, GoesFor
<1>8. Publishing'
  BY DEF IInv, TypeOK, Publishing, Live, WorkOK, Worker, RoomOK, ScanRecord, Ends, GoesFor,
       taskVars, roomVars
<1>9. Opened'
  BY DEF IInv, TypeOK, Opened, WorkOK, Worker, IsOpen, RoomOK, Locked, HoldsRoom,
       ScanRecord, Ends, GoesFor, roomVars
<1>10. Closing'
  BY DEF IInv, TypeOK, Closing, WorkOK, Worker, Closer, RoomOK, ScanRecord, Ends, GoesFor,
       roomVars
<1>11. Handled'
  BY DEF IInv, TypeOK, Handled, WorkOK, Worker, ScanRecord, Ends, GoesFor
<1>12. Archiving'
  BY DEF IInv, TypeOK, Archiving, WorkOK, Worker, Closer, ScanRecord, Ends, GoesFor,
       roomVars
<1>13. Fresh'
  BY DEF IInv, TypeOK, Fresh, DeletionOK, Accepted, WorkOK, Worker, Closer, ScanRecord,
       Records, ConflictsWith, Known, Upserts, NoCursor
<1> QED BY <1>2, <1>3, <1>4, <1>5, <1>6, <1>7, <1>8, <1>9, <1>10, <1>11, <1>12, <1>13 DEF
     IInv, TypeOK

LEMMA CursorRecheckKeeps ==
    ASSUME IInv, NEW m \in Member, CursorRecheck(m)
    PROVE  IInv'
<1>1. UNCHANGED <<taskVars, delVars, roomVars, remote, agentVars, mishapVars>>
  BY DEF CursorRecheck
<1>2. /\ TaskOK' /\ DeletionOK' /\ RoomOK' /\ SeatOK' /\ AgentOK' /\ MishapOK'
      /\ RoomOfTask' /\ Fresh'
  BY <1>1 DEF IInv, TypeOK, taskVars, delVars, roomVars, agentVars, mishapVars, TaskOK,
       DeletionOK, RoomOK, SeatOK, AgentOK, MishapOK, RoomOfTask, OneRoom, LinkIsHeld,
       Records, Fresh
<1>3. WorkOK'
  BY DEF IInv, TypeOK, WorkOK, Worker, Place, Closer, RoomOrNone, CursorRecheck, Done,
       lockVars, Ends, FreeAll
<1>4. Locked'
  BY DEF IInv, TypeOK, Locked, HoldsTask, HoldsRoom, Worker, Closer, WorkOK, CursorRecheck,
       Resumes, NoCursor, Done, lockVars, Ends, FreeAll
<1>5. Asked'
  BY DEF IInv, TypeOK, Asked, TaskOK, WorkOK, Worker, Closer, CursorRecheck, Resumes,
       NoCursor, Done, Ends, taskVars
<1>6. Accepted'
  BY DEF IInv, TypeOK, Accepted, WorkOK, Worker, Closer, CursorRecheck, Resumes, NoCursor,
       Done, Ends, delVars
<1>7. Publishing'
  BY DEF IInv, TypeOK, Publishing, Records, Live, WorkOK, Worker, RoomOK, CursorRecheck,
       Done, Ends, taskVars, delVars, roomVars
<1>8. Opened'
  BY DEF IInv, TypeOK, Opened, WorkOK, Worker, IsOpen, RoomOK, Locked, HoldsRoom,
       CursorRecheck, Done, Ends, roomVars
<1>9. Closing'
  BY DEF IInv, TypeOK, Closing, WorkOK, Worker, Closer, RoomOK, CursorRecheck, Done, Ends,
       roomVars
<1>10. Handled'
  BY DEF IInv, TypeOK, Handled, WorkOK, Worker, CursorRecheck, Done, Ends
<1>11. Archiving'
  BY DEF IInv, TypeOK, Archiving, WorkOK, Worker, Closer, CursorRecheck, Done, Ends,
       roomVars
<1> QED BY <1>2, <1>3, <1>4, <1>5, <1>6, <1>7, <1>8, <1>9, <1>10, <1>11 DEF IInv, TypeOK

LEMMA CursorRemoveKeeps ==
    ASSUME IInv, NEW m \in Member, CursorRemove(m)
    PROVE  IInv'
<1>1. UNCHANGED <<taskVars, delVars, roomVars, remote, launching, agent, owner, lockVars,
                  mishapVars>>
  BY DEF CursorRemove
<1>2. TaskOK' /\ DeletionOK' /\ RoomOK' /\ SeatOK' /\ MishapOK' /\ RoomOfTask' /\ Fresh'
  BY <1>1 DEF IInv, TypeOK, taskVars, delVars, roomVars, lockVars, mishapVars, TaskOK,
       DeletionOK, RoomOK, SeatOK, MishapOK, RoomOfTask, OneRoom, LinkIsHeld, Records, Fresh
<1>3. AgentOK'
  BY DEF IInv, TypeOK, AgentOK, RoomOrNone, CursorRemove
<1>4. WorkOK'
  BY DEF IInv, TypeOK, WorkOK, Worker, Place, Closer, RoomOrNone, CursorRemove, Handles,
       lockVars
<1>5. Locked'
  BY DEF IInv, TypeOK, Locked, HoldsTask, HoldsRoom, CursorRemove, Resumes, NoCursor,
       Handles, lockVars
<1>6. Asked'
  BY DEF IInv, TypeOK, Asked, WorkOK, Worker, CursorRemove, Handles, taskVars
<1>7. Accepted'
  BY DEF IInv, TypeOK, Accepted, WorkOK, Worker, Closer, CursorRemove, Resumes, NoCursor,
       Handles, delVars
<1>8. Publishing'
  BY DEF IInv, TypeOK, Publishing, Records, Live, WorkOK, Worker, RoomOK, CursorRemove,
       Handles, taskVars, delVars, roomVars
<1>9. Opened'
  BY DEF IInv, TypeOK, Opened, WorkOK, Worker, IsOpen, RoomOK, Locked, HoldsRoom,
       CursorRemove, Handles, roomVars
<1>10. Closing'
  BY DEF IInv, TypeOK, Closing, WorkOK, Worker, Closer, RoomOK, CursorRemove, Handles,
       roomVars
<1>11. Handled'
  BY DEF IInv, TypeOK, Handled, WorkOK, Worker, CursorRemove, Handles
<1>12. Archiving'
  BY DEF IInv, TypeOK, Archiving, WorkOK, Worker, Closer, CursorRemove, Handles, roomVars
<1> QED BY <1>2, <1>3, <1>4, <1>5, <1>6, <1>7, <1>8, <1>9, <1>10, <1>11, <1>12 DEF IInv,
     TypeOK

-----------------------------------------------------------------------------
(* So do the members' processes.                                           *)
LEMMA LaunchKeeps ==
    ASSUME IInv, NEW m \in Member, Launch(m)
    PROVE  IInv'
<1>1. UNCHANGED <<taskVars, delVars, roomVars, remote, identity, workVars, lockVars,
                  mishapVars>>
  BY DEF Launch
<1>2. /\ TaskOK' /\ DeletionOK' /\ RoomOK' /\ SeatOK' /\ WorkOK' /\ MishapOK' /\ Locked'
      /\ Asked' /\ Accepted' /\ Publishing' /\ Opened' /\ Closing' /\ Handled'
      /\ RoomOfTask' /\ Archiving' /\ Fresh'
  BY <1>1 DEF IInv, TypeOK, taskVars, delVars, roomVars, workVars, lockVars, mishapVars,
       TaskOK, DeletionOK, RoomOK, SeatOK, WorkOK, MishapOK, Locked, HoldsTask, HoldsRoom,
       Asked, Accepted, Publishing, Records, Live, Opened, IsOpen, Closing, Handled,
       RoomOfTask, OneRoom, LinkIsHeld, Archiving, Fresh
<1>3. AgentOK'
  BY DEF IInv, TypeOK, AgentOK, RoomOrNone, Launch
<1> QED BY <1>2, <1>3 DEF IInv, TypeOK

LEMMA RunKeeps ==
    ASSUME IInv, NEW m \in Member, Run(m)
    PROVE  IInv'
<1>1. UNCHANGED <<taskVars, delVars, roomVars, remote, launching, owner, identity, workVars,
                  lockVars, mishapVars>>
  BY DEF Run
<1>2. /\ TaskOK' /\ DeletionOK' /\ RoomOK' /\ SeatOK' /\ WorkOK' /\ MishapOK' /\ Locked'
      /\ Asked' /\ Accepted' /\ Publishing' /\ Opened' /\ Closing' /\ Handled'
      /\ RoomOfTask' /\ Archiving' /\ Fresh'
  BY <1>1 DEF IInv, TypeOK, taskVars, delVars, roomVars, workVars, lockVars, mishapVars,
       TaskOK, DeletionOK, RoomOK, SeatOK, WorkOK, MishapOK, Locked, HoldsTask, HoldsRoom,
       Asked, Accepted, Publishing, Records, Live, Opened, IsOpen, Closing, Handled,
       RoomOfTask, OneRoom, LinkIsHeld, Archiving, Fresh
<1>3. AgentOK'
  BY DEF IInv, TypeOK, AgentOK, RoomOrNone, Run
<1> QED BY <1>2, <1>3 DEF IInv, TypeOK

LEMMA JoinKeeps ==
    ASSUME IInv, NEW m \in Member, Join(m)
    PROVE  IInv'
<1>1. UNCHANGED <<taskVars, delVars, roomVars, remote, launching, agent, owner, workVars,
                  lockVars, mishapVars>>
  BY DEF Join
<1>2. /\ TaskOK' /\ DeletionOK' /\ RoomOK' /\ SeatOK' /\ WorkOK' /\ MishapOK' /\ Locked'
      /\ Asked' /\ Accepted' /\ Publishing' /\ Opened' /\ Closing' /\ Handled'
      /\ RoomOfTask' /\ Archiving' /\ Fresh'
  BY <1>1 DEF IInv, TypeOK, taskVars, delVars, roomVars, workVars, lockVars, mishapVars,
       TaskOK, DeletionOK, RoomOK, SeatOK, WorkOK, MishapOK, Locked, HoldsTask, HoldsRoom,
       Asked, Accepted, Publishing, Records, Live, Opened, IsOpen, Closing, Handled,
       RoomOfTask, OneRoom, LinkIsHeld, Archiving, Fresh
<1>3. AgentOK'
  BY DEF IInv, TypeOK, AgentOK, RoomOrNone, Join
<1> QED BY <1>2, <1>3 DEF IInv, TypeOK

LEMMA LeaveKeeps ==
    ASSUME IInv, NEW m \in Member, Leave(m)
    PROVE  IInv'
<1>1. UNCHANGED <<taskVars, delVars, roomVars, remote, launching, owner, identity, workVars,
                  lockVars>>
  BY DEF Leave
<1>2. /\ TaskOK' /\ DeletionOK' /\ RoomOK' /\ SeatOK' /\ WorkOK' /\ Locked' /\ Asked'
      /\ Accepted' /\ Publishing' /\ Opened' /\ Closing' /\ Handled' /\ RoomOfTask'
      /\ Archiving' /\ Fresh'
  BY <1>1 DEF IInv, TypeOK, taskVars, delVars, roomVars, workVars, lockVars, TaskOK,
       DeletionOK, RoomOK, SeatOK, WorkOK, Locked, HoldsTask, HoldsRoom, Asked, Accepted,
       Publishing, Records, Live, Opened, IsOpen, Closing, Handled, RoomOfTask, OneRoom,
       LinkIsHeld, Archiving, Fresh
<1>3. AgentOK'
  BY DEF IInv, TypeOK, AgentOK, RoomOrNone, Leave
<1>4. MishapOK'
  BY DEF IInv, TypeOK, MishapOK, RoomOrNone, Leave, mishapVars, Mishap
<1> QED BY <1>2, <1>3, <1>4 DEF IInv, TypeOK

-----------------------------------------------------------------------------
(* So do the mishaps: a worker that fails or dies holds nothing any more.  *)
LEMMA StepFailsKeeps ==
    ASSUME IInv, NEW w \in Worker, StepFails(w)
    PROVE  IInv'
<1>1. UNCHANGED <<taskVars, delVars, room, remote, owner, identity>>
  BY DEF StepFails
<1>2. TaskOK' /\ DeletionOK' /\ RoomOK' /\ RoomOfTask' /\ Fresh'
  BY <1>1 DEF IInv, TypeOK, taskVars, delVars, TaskOK, DeletionOK, RoomOK, RoomOfTask,
       OneRoom, LinkIsHeld, Records, Fresh
<1>3. SeatOK'
  <2>1. seat' = seat \/ seat' = [seat EXCEPT ![tgt[w]][who[w]].launch = "failed"]
    BY DEF StepFails
  <2> QED BY <2>1, SeatLaunch DEF IInv, TypeOK, SeatOK
<1>4. AgentOK'
  BY DEF IInv, TypeOK, AgentOK, RoomOrNone, StepFails, SpawnLost
<1>5. WorkOK'
  BY DEF IInv, TypeOK, WorkOK, Worker, Place, Closer, RoomOrNone, StepFails, Ends, FreeAll
<1>6. MishapOK'
  BY DEF IInv, TypeOK, MishapOK, RoomOrNone, StepFails, Mishap, WorkOK, Worker
<1>7. Locked'
  BY DEF IInv, TypeOK, Locked, HoldsTask, HoldsRoom, Worker, Closer, WorkOK, StepFails,
       Ends, FreeAll
<1>8. Asked'
  BY DEF IInv, TypeOK, Asked, WorkOK, Worker, StepFails, Ends, taskVars
<1>9. Accepted'
  BY DEF IInv, TypeOK, Accepted, WorkOK, Worker, Closer, StepFails, Ends, delVars
<1>10. Publishing'
  BY DEF IInv, TypeOK, Publishing, Records, Live, WorkOK, Worker, RoomOK, StepFails, Ends,
       taskVars, delVars
<1>11. Opened'
  BY DEF IInv, TypeOK, Opened, WorkOK, Worker, IsOpen, RoomOK, Locked, HoldsRoom, StepFails,
       Ends
<1>12. Closing'
  BY DEF IInv, TypeOK, Closing, WorkOK, Worker, Closer, RoomOK, StepFails, Ends
<1>13. Handled'
  BY DEF IInv, TypeOK, Handled, WorkOK, Worker, StepFails, Ends
<1>14. Archiving'
  <2> SUFFICES ASSUME NEW d \in Closer, at'[d] = "archived"
               PROVE  who'[d] \in Member /\ seat'[tgt'[d]][who'[d]].retire = "stopped"
    BY DEF Archiving
  <2>1. d # w /\ at[d] = "archived" /\ tgt'[d] = tgt[d] /\ who'[d] = who[d]
    BY DEF IInv, TypeOK, WorkOK, Worker, Closer, StepFails, Ends
  <2>2. CASE at[w] = "spawn"
    <3>1. tgt[d] \in Room /\ who[d] \in Member
      BY <2>1 DEF IInv, Locked, HoldsRoom, Archiving, Worker
    <3>2. seat[tgt[d]] \in [Member -> SeatRecord] /\ seat[tgt[d]][who[d]] \in SeatRecord
      BY <3>1 DEF IInv, TypeOK, SeatOK
    <3>3. seat' = [seat EXCEPT ![tgt[w]][who[w]].launch = "failed"]
      BY <2>2 DEF StepFails
    <3>4. seat'[tgt[d]][who[d]] = IF tgt[d] = tgt[w] /\ who[d] = who[w]
            THEN [seat[tgt[d]][who[d]] EXCEPT !.launch = "failed"] ELSE seat[tgt[d]][who[d]]
      BY <3>1, <3>2, <3>3 DEF IInv, TypeOK, SeatOK
    <3>5. seat'[tgt[d]][who[d]].retire = seat[tgt[d]][who[d]].retire
      BY <3>2, <3>4 DEF SeatRecord
    <3> QED BY <2>1, <3>5 DEF IInv, Archiving
  <2>3. CASE at[w] # "spawn"
    BY <2>1, <2>3 DEF IInv, Archiving, StepFails
  <2> QED BY <2>2, <2>3
<1> QED BY <1>2, <1>3, <1>4, <1>5, <1>6, <1>7, <1>8, <1>9, <1>10, <1>11, <1>12, <1>13, <1>14
     DEF IInv, TypeOK

LEMMA WorkerDiesKeeps ==
    ASSUME IInv, NEW w \in Worker, WorkerDies(w)
    PROVE  IInv'
<1>1. UNCHANGED <<taskVars, delVars, roomVars, remote, owner, identity>>
  BY DEF WorkerDies
<1>2. TaskOK' /\ DeletionOK' /\ RoomOK' /\ SeatOK' /\ RoomOfTask' /\ Fresh'
  BY <1>1 DEF IInv, TypeOK, taskVars, delVars, roomVars, TaskOK, DeletionOK, RoomOK, SeatOK,
       RoomOfTask, OneRoom, LinkIsHeld, Records, Fresh
<1>3. AgentOK'
  BY DEF IInv, TypeOK, AgentOK, RoomOrNone, WorkerDies, SpawnLost
<1>4. WorkOK'
  BY DEF IInv, TypeOK, WorkOK, Worker, Place, Closer, RoomOrNone, WorkerDies, Ends, FreeAll
<1>5. MishapOK'
  BY DEF IInv, TypeOK, MishapOK, RoomOrNone, WorkerDies, Mishap, WorkOK, Worker
<1>6. Locked'
  BY DEF IInv, TypeOK, Locked, HoldsTask, HoldsRoom, Worker, Closer, WorkOK, WorkerDies,
       Ends, FreeAll
<1>7. Asked'
  BY DEF IInv, TypeOK, Asked, WorkOK, Worker, WorkerDies, Ends, taskVars
<1>8. Accepted'
  BY DEF IInv, TypeOK, Accepted, WorkOK, Worker, Closer, WorkerDies, Ends, delVars
<1>9. Publishing'
  BY DEF IInv, TypeOK, Publishing, Records, Live, WorkOK, Worker, RoomOK, WorkerDies, Ends,
       taskVars, delVars, roomVars
<1>10. Opened'
  BY DEF IInv, TypeOK, Opened, WorkOK, Worker, IsOpen, RoomOK, Locked, HoldsRoom,
       WorkerDies, Ends, roomVars
<1>11. Closing'
  BY DEF IInv, TypeOK, Closing, WorkOK, Worker, Closer, RoomOK, WorkerDies, Ends, roomVars
<1>12. Handled'
  BY DEF IInv, TypeOK, Handled, WorkOK, Worker, WorkerDies, Ends
<1>13. Archiving'
  BY DEF IInv, TypeOK, Archiving, WorkOK, Worker, Closer, WorkerDies, Ends, roomVars
<1> QED BY <1>2, <1>3, <1>4, <1>5, <1>6, <1>7, <1>8, <1>9, <1>10, <1>11, <1>12, <1>13 DEF
     IInv, TypeOK

-----------------------------------------------------------------------------
(* Initially every worker is idle, and the rest follows.                   *)
LEMMA InitHolds ==
    ASSUME Init PROVE IInv
<1>1. TaskOK /\ DeletionOK /\ RoomOK
  BY DEF Init, TaskOK, DeletionOK, RoomOK, Cancellable, Terminal, NoIntent, NoAsk, NoCursor,
         Phase, RoomOrNone
<1>2. SeatOK
  BY NoSeatOK DEF Init, SeatOK
<1>3. AgentOK /\ WorkOK /\ MishapOK
  BY DEF Init, AgentOK, WorkOK, MishapOK, RoomOrNone, Place
<1>4. \A w \in Worker : at[w] = "idle"
  BY DEF Init
<1>5. Locked
  BY <1>4 DEF Locked, HoldsTask, HoldsRoom, Worker, Closer
<1>6. Asked
  BY <1>4 DEF Init, Asked, NoIntent, NoAsk, Worker, Closer
<1>7. Accepted /\ Publishing /\ Opened /\ Closing /\ Handled /\ Archiving
  BY <1>4 DEF Accepted, Publishing, Opened, Closing, Handled, Archiving, Worker, Closer
<1>8. RoomOfTask /\ Fresh
  BY DEF Init, RoomOfTask, OneRoom, LinkIsHeld, Records, Fresh
<1> QED BY <1>1, <1>2, <1>3, <1>5, <1>6, <1>7, <1>8 DEF IInv, TypeOK

LEMMA Stuttering ==
    ASSUME IInv, UNCHANGED vars PROVE IInv'
<1>1. TaskOK' /\ DeletionOK' /\ RoomOK' /\ SeatOK' /\ AgentOK' /\ WorkOK' /\ MishapOK'
  BY DEF IInv, TypeOK, vars, taskVars, delVars, roomVars, agentVars, workVars, lockVars,
         mishapVars, TaskOK, DeletionOK, RoomOK, SeatOK, AgentOK, WorkOK, MishapOK
<1>2. Locked' /\ Asked' /\ Accepted' /\ Publishing' /\ Opened'
  BY DEF IInv, vars, taskVars, delVars, roomVars, workVars, lockVars, Locked, HoldsTask,
         HoldsRoom, Asked, Accepted, Publishing, Records, Live, Opened, IsOpen
<1>3. Closing' /\ Handled' /\ RoomOfTask' /\ Archiving' /\ Fresh'
  BY DEF IInv, vars, taskVars, delVars, roomVars, workVars, Closing, Handled, RoomOfTask,
         OneRoom, LinkIsHeld, Records, Archiving, Fresh
<1> QED BY <1>1, <1>2, <1>3 DEF IInv, TypeOK

-----------------------------------------------------------------------------
(* The steps together, by who takes them.                                  *)
LEMMA OperatesKeep ==
    ASSUME IInv, Operates
    PROVE  IInv'
<1>1. ASSUME NEW kind \in Terminal, AskTerminal(kind) PROVE IInv'
  BY <1>1, AskTerminalKeeps
<1>2. CASE AcceptTerminal
  BY <1>2, AcceptTerminalKeeps
<1>3. CASE ReviewTask
  BY <1>3, ReviewTaskKeeps
<1>4. CASE AcceptDeletion
  BY <1>4, AcceptDeletionKeeps
<1>5. ASSUME NEW r \in Room, RoomDeletion(r) PROVE IInv'
  BY <1>5, RoomDeletionKeeps
<1> QED BY <1>1, <1>2, <1>3, <1>4, <1>5 DEF Operates

LEMMA ProvisionsKeep ==
    ASSUME IInv, NEW p \in Provisioner, Provisions(p)
    PROVE  IInv'
<1>1. CASE ProvisionStart(p)
  BY <1>1, ProvisionStartKeeps
<1>2. CASE Publish(p)
  BY <1>2, PublishKeeps
<1>3. ASSUME NEW r \in Room, CreateRemote(p, r) PROVE IInv'
  BY <1>3, CreateRemoteKeeps
<1>4. CASE RoomRefused(p)
  BY <1>4, RoomRefusedKeeps
<1>5. CASE RecordRoom(p)
  BY <1>5, RecordRoomKeeps
<1>6. CASE AttachOwner(p)
  BY <1>6, AttachOwnerKeeps
<1>7. CASE ProvisionMembers(p)
  BY <1>7, ProvisionMembersKeeps
<1>8. CASE Admit(p)
  BY <1>8, AdmitKeeps
<1>9. ASSUME NEW m \in Member, Retain(p, m) PROVE IInv'
  BY <1>9, RetainKeeps
<1>10. ASSUME NEW m \in Member, RefuseMissing(p, m) PROVE IInv'
  BY <1>10, RefuseMissingKeeps
<1>11. ASSUME NEW m \in Member, LaunchMember(p, m) PROVE IInv'
  BY <1>11, LaunchMemberKeeps
<1>12. CASE Spawned(p)
  BY <1>12, SpawnedKeeps
<1>13. CASE AwaitSeats(p)
  BY <1>13, AwaitSeatsKeeps
<1> QED BY <1>1, <1>2, <1>3, <1>4, <1>5, <1>6, <1>7, <1>8, <1>9, <1>10, <1>11, <1>12, <1>13
     DEF Provisions

LEMMA ClosesKeep ==
    ASSUME IInv, NEW c \in Closer, Closes(c)
    PROVE  IInv'
<1>1. CASE CloseUnrecorded(c)
  BY <1>1, CloseUnrecordedKeeps
<1>2. CASE CloseAgain(c)
  BY <1>2, CloseAgainKeeps
<1>3. CASE CloseRoom(c)
  BY <1>3, CloseRoomKeeps
<1>4. CASE RecordArchive(c)
  BY <1>4, RecordArchiveKeeps
<1>5. CASE RecordGone(c)
  BY <1>5, RecordGoneKeeps
<1>6. CASE AllRetired(c)
  BY <1>6, AllRetiredKeeps
<1>7. ASSUME NEW m \in Member, Recheck(c, m) PROVE IInv'
  BY <1>7, RecheckKeeps
<1>8. ASSUME NEW m \in Member, Inspect(c, m) PROVE IInv'
  BY <1>8, InspectKeeps
<1>9. ASSUME NEW m \in Member, StopMember(c, m) PROVE IInv'
  BY <1>9, StopMemberKeeps
<1>10. ASSUME NEW m \in Member, ArchiveMember(c, m) PROVE IInv'
  BY <1>10, ArchiveMemberKeeps
<1>11. ASSUME NEW m \in Member, RemoveIdentity(c, m) PROVE IInv'
  BY <1>11, RemoveIdentityKeeps
<1>12. CASE CloseRemote(c)
  BY <1>12, CloseRemoteKeeps
<1>13. CASE RecordClosed(c)
  BY <1>13, RecordClosedKeeps
<1> QED BY <1>1, <1>2, <1>3, <1>4, <1>5, <1>6, <1>7, <1>8, <1>9, <1>10, <1>11, <1>12, <1>13
     DEF Closes

LEMMA ErasesKeep ==
    ASSUME IInv, NEW c \in {"settle", "room"}, Erases(c)
    PROVE  IInv'
<1>1. CASE EraseRoom(c)
  BY <1>1, EraseRoomKeeps
<1>2. CASE DeleteRemote(c)
  BY <1>2, DeleteRemoteKeeps
<1>3. CASE DropRecord(c)
  BY <1>3, DropRecordKeeps
<1> QED BY <1>1, <1>2, <1>3 DEF Erases

LEMMA SettlesKeep ==
    ASSUME IInv, Settles
    PROVE  IInv'
<1>1. CASE SettleStart
  BY <1>1, SettleStartKeeps
<1>2. CASE FinishIntent
  BY <1>2, FinishIntentKeeps
<1> QED BY <1>1, <1>2 DEF Settles

LEMMA DeletesKeep ==
    ASSUME IInv, Deletes
    PROVE  IInv'
<1>1. CASE DeleteStart
  BY <1>1, DeleteStartKeeps
<1>2. ASSUME NEW r \in Room, ScanRecord(r) PROVE IInv'
  BY <1>2, ScanRecordKeeps
<1>3. CASE ScanDone
  BY <1>3, ScanDoneKeeps
<1>4. CASE ImportEvidence
  BY <1>4, ImportEvidenceKeeps
<1>5. CASE DeleteRoomOfTask
  BY <1>5, DeleteRoomOfTaskKeeps
<1>6. CASE DropRecordOfTask
  BY <1>6, DropRecordOfTaskKeeps
<1>7. ASSUME NEW m \in Member, CursorRecheck(m) PROVE IInv'
  BY <1>7, CursorRecheckKeeps
<1>8. ASSUME NEW m \in Member, CursorRemove(m) PROVE IInv'
  BY <1>8, CursorRemoveKeeps
<1>9. CASE CursorGone
  BY <1>9, CursorGoneKeeps
<1>10. CASE CleanupDone
  BY <1>10, CleanupDoneKeeps
<1>11. CASE UnlinkTask
  BY <1>11, UnlinkTaskKeeps
<1> QED BY <1>1, <1>2, <1>3, <1>4, <1>5, <1>6, <1>7, <1>8, <1>9, <1>10, <1>11 DEF Deletes

LEMMA RunsKeep ==
    ASSUME IInv, NEW m \in Member, Runs(m) \/ Leave(m)
    PROVE  IInv'
<1>1. CASE Launch(m)
  BY <1>1, LaunchKeeps
<1>2. CASE Run(m)
  BY <1>2, RunKeeps
<1>3. CASE Join(m)
  BY <1>3, JoinKeeps
<1>4. CASE Leave(m)
  BY <1>4, LeaveKeeps
<1> QED BY <1>1, <1>2, <1>3, <1>4 DEF Runs

LEMMA FailsKeep ==
    ASSUME IInv, NEW w \in Worker, StepFails(w) \/ WorkerDies(w)
    PROVE  IInv'
<1>1. CASE StepFails(w)
  BY <1>1, StepFailsKeeps
<1>2. CASE WorkerDies(w)
  BY <1>2, WorkerDiesKeeps
<1> QED BY <1>1, <1>2

(* What DeletionFences says of a step.                                     *)
Fenced ==
    deleting =>
        /\ \A r \in Room : /\ remote'[r] = "open" => remote[r] = "open"
                           /\ room'[r] # "none" => room[r] # "none"
        /\ \A m \in Member : /\ launching'[m] \in {launching[m], None}
                             /\ agent'[m] = "running" => agent[m] = "running"

LEMMA OperatesFence ==
    ASSUME IInv, Operates
    PROVE  Fenced
<1>1. ASSUME NEW kind \in Terminal, AskTerminal(kind) PROVE Fenced
  BY <1>1 DEF AskTerminal, Fenced, roomVars, agentVars
<1>2. CASE AcceptTerminal
  BY <1>2 DEF AcceptTerminal, Fenced, roomVars, agentVars
<1>3. CASE ReviewTask
  BY <1>3 DEF ReviewTask, Fenced, roomVars, agentVars
<1>4. CASE AcceptDeletion
  BY <1>4 DEF AcceptDeletion, Fenced, roomVars, agentVars
<1>5. ASSUME NEW r \in Room, RoomDeletion(r) PROVE Fenced
  BY <1>5 DEF IInv, TypeOK, RoomOK, Fenced, RoomDeletion, BeginRoomClose, agentVars
<1> QED BY <1>1, <1>2, <1>3, <1>4, <1>5 DEF Operates

LEMMA ProvisionsFence ==
    ASSUME IInv, NEW p \in Provisioner, Provisions(p)
    PROVE  Fenced
<1>1. CASE ProvisionStart(p)
  BY <1>1 DEF ProvisionStart, Fenced, roomVars, agentVars
<1>2. CASE Publish(p)
  BY <1>2 DEF Publish, Fenced, roomVars, agentVars
<1>3. ASSUME NEW r \in Room, CreateRemote(p, r) PROVE Fenced
  BY <1>3 DEF IInv, TypeOK, RoomOK, Fenced, CreateRemote, roomVars, agentVars, Publishing
<1>4. CASE RoomRefused(p)
  BY <1>4 DEF RoomRefused, Fenced, roomVars, agentVars
<1>5. CASE RecordRoom(p)
  BY <1>5 DEF IInv, TypeOK, RoomOK, Fenced, RecordRoom, agentVars, Publishing
<1>6. CASE AttachOwner(p)
  BY <1>6 DEF IInv, TypeOK, RoomOK, Fenced, AttachOwner, agentVars
<1>7. CASE ProvisionMembers(p)
  BY <1>7 DEF ProvisionMembers, Fenced, roomVars, agentVars
<1>8. CASE Admit(p)
  BY <1>8 DEF IInv, TypeOK, RoomOK, Fenced, Admit, roomVars, agentVars
<1>9. ASSUME NEW m \in Member, Retain(p, m) PROVE Fenced
  BY <1>9 DEF IInv, TypeOK, RoomOK, AgentOK, WorkOK, Fenced, Retain, MayRun, IsProven, Live,
       Records, NoIntent, IsOpen
<1>10. ASSUME NEW m \in Member, RefuseMissing(p, m) PROVE Fenced
  BY <1>10 DEF RefuseMissing, Fenced, roomVars, agentVars
<1>11. ASSUME NEW m \in Member, LaunchMember(p, m) PROVE Fenced
  BY <1>11 DEF IInv, TypeOK, RoomOK, AgentOK, WorkOK, Fenced, LaunchMember, MayProvision,
       Live, NoIntent, IsOpen
<1>12. CASE Spawned(p)
  BY <1>12 DEF Spawned, Fenced, agentVars
<1>13. CASE AwaitSeats(p)
  BY <1>13 DEF IInv, TypeOK, RoomOK, Fenced, AwaitSeats, agentVars, Opened, IsOpen, Worker
<1> QED BY <1>1, <1>2, <1>3, <1>4, <1>5, <1>6, <1>7, <1>8, <1>9, <1>10, <1>11, <1>12, <1>13
     DEF Provisions

LEMMA ClosesFence ==
    ASSUME IInv, NEW c \in Closer, Closes(c)
    PROVE  Fenced
<1>1. CASE CloseUnrecorded(c)
  BY <1>1 DEF CloseUnrecorded, Fenced, roomVars, agentVars
<1>2. CASE CloseAgain(c)
  BY <1>2 DEF CloseAgain, Fenced, roomVars, agentVars
<1>3. CASE CloseRoom(c)
  BY <1>3 DEF IInv, TypeOK, RoomOK, Fenced, CloseRoom, BeginRoomClose, agentVars
<1>4. CASE RecordArchive(c)
  BY <1>4 DEF RecordArchive, Fenced, agentVars
<1>5. CASE RecordGone(c)
  BY <1>5 DEF RecordGone, Fenced, agentVars
<1>6. CASE AllRetired(c)
  BY <1>6 DEF IInv, TypeOK, RoomOK, Fenced, AllRetired, agentVars, Closing, Worker, Closer,
       Locked, HoldsRoom
<1>7. ASSUME NEW m \in Member, Recheck(c, m) PROVE Fenced
  BY <1>7 DEF Recheck, Fenced, roomVars, agentVars
<1>8. ASSUME NEW m \in Member, Inspect(c, m) PROVE Fenced
  BY <1>8 DEF Inspect, Fenced, agentVars
<1>9. ASSUME NEW m \in Member, StopMember(c, m) PROVE Fenced
  BY <1>9 DEF IInv, TypeOK, RoomOK, Fenced, StopMember
<1>10. ASSUME NEW m \in Member, ArchiveMember(c, m) PROVE Fenced
  BY <1>10 DEF IInv, TypeOK, RoomOK, Fenced, ArchiveMember, roomVars
<1>11. ASSUME NEW m \in Member, RemoveIdentity(c, m) PROVE Fenced
  BY <1>11 DEF RemoveIdentity, Fenced, roomVars
<1>12. CASE CloseRemote(c)
  BY <1>12 DEF IInv, TypeOK, RoomOK, Fenced, CloseRemote, roomVars, agentVars
<1>13. CASE RecordClosed(c)
  BY <1>13 DEF IInv, TypeOK, RoomOK, Fenced, RecordClosed, agentVars, Closing, Worker,
       Closer, Locked, HoldsRoom
<1> QED BY <1>1, <1>2, <1>3, <1>4, <1>5, <1>6, <1>7, <1>8, <1>9, <1>10, <1>11, <1>12, <1>13
     DEF Closes

LEMMA ErasesFence ==
    ASSUME IInv, NEW c \in {"settle", "room"}, Erases(c)
    PROVE  Fenced
<1>1. CASE EraseRoom(c)
  BY <1>1 DEF EraseRoom, Fenced, roomVars, agentVars
<1>2. CASE DeleteRemote(c)
  BY <1>2 DEF IInv, TypeOK, RoomOK, Fenced, DeleteRemote, Unlisted, roomVars, agentVars
<1>3. CASE DropRecord(c)
  BY <1>3 DEF IInv, TypeOK, RoomOK, Fenced, DropRecord, Unrecorded, roomVars, agentVars
<1> QED BY <1>1, <1>2, <1>3 DEF Erases

LEMMA SettlesFence ==
    ASSUME IInv, Settles
    PROVE  Fenced
<1>1. CASE SettleStart
  BY <1>1 DEF SettleStart, Fenced, roomVars, agentVars
<1>2. CASE FinishIntent
  BY <1>2 DEF FinishIntent, Fenced, roomVars, agentVars
<1> QED BY <1>1, <1>2 DEF Settles

LEMMA DeletesFence ==
    ASSUME IInv, Deletes
    PROVE  Fenced
<1>1. CASE DeleteStart
  BY <1>1 DEF DeleteStart, Fenced, roomVars, agentVars
<1>2. ASSUME NEW r \in Room, ScanRecord(r) PROVE Fenced
  BY <1>2 DEF ScanRecord, Fenced, roomVars, agentVars
<1>3. CASE ScanDone
  BY <1>3 DEF ScanDone, Fenced, roomVars, agentVars
<1>4. CASE ImportEvidence
  BY <1>4 DEF ImportEvidence, Fenced, roomVars, agentVars
<1>5. CASE DeleteRoomOfTask
  BY <1>5 DEF IInv, TypeOK, RoomOK, Fenced, DeleteRoomOfTask, Unlisted, roomVars, agentVars
<1>6. CASE DropRecordOfTask
  BY <1>6 DEF IInv, TypeOK, RoomOK, Fenced, DropRecordOfTask, Unrecorded, agentVars
<1>7. ASSUME NEW m \in Member, CursorRecheck(m) PROVE Fenced
  BY <1>7 DEF CursorRecheck, Fenced, roomVars, agentVars
<1>8. ASSUME NEW m \in Member, CursorRemove(m) PROVE Fenced
  BY <1>8 DEF CursorRemove, Fenced, roomVars
<1>9. CASE CursorGone
  BY <1>9 DEF CursorGone, Fenced, roomVars, agentVars
<1>10. CASE CleanupDone
  BY <1>10 DEF IInv, TypeOK, RoomOK, Fenced, CleanupDone, Unlisted, roomVars, agentVars
<1>11. CASE UnlinkTask
  BY <1>11 DEF UnlinkTask, Fenced, roomVars, agentVars
<1> QED BY <1>1, <1>2, <1>3, <1>4, <1>5, <1>6, <1>7, <1>8, <1>9, <1>10, <1>11 DEF Deletes

LEMMA RunsFence ==
    ASSUME IInv, NEW m \in Member, Runs(m) \/ Leave(m)
    PROVE  Fenced
<1>1. CASE Launch(m)
  BY <1>1 DEF IInv, TypeOK, RoomOK, AgentOK, WorkOK, Fenced, Launch, roomVars
<1>2. CASE Run(m)
  BY <1>2 DEF IInv, TypeOK, RoomOK, AgentOK, WorkOK, Fenced, Run, MayRun, IsProven, Live,
       Records, NoIntent, IsOpen, roomVars
<1>3. CASE Join(m)
  BY <1>3 DEF Join, Fenced, roomVars
<1>4. CASE Leave(m)
  BY <1>4 DEF IInv, TypeOK, RoomOK, Fenced, Leave, roomVars
<1> QED BY <1>1, <1>2, <1>3, <1>4 DEF Runs

LEMMA FailsFence ==
    ASSUME IInv, NEW w \in Worker, StepFails(w) \/ WorkerDies(w)
    PROVE  Fenced
<1>1. CASE StepFails(w)
  BY <1>1 DEF IInv, TypeOK, RoomOK, AgentOK, WorkOK, Fenced, StepFails, SpawnLost
<1>2. CASE WorkerDies(w)
  BY <1>2 DEF IInv, TypeOK, RoomOK, AgentOK, WorkOK, Fenced, WorkerDies, SpawnLost, roomVars
<1> QED BY <1>1, <1>2

(* How evidence moves: one phase at a time, or to the end.                 *)
Onward(old, new) ==
    \/ new = old \/ new = "gone" \/ old = "none" \/ (old = "no" /\ new = "stop")
    \/ (old = "stop" /\ new = "stopped") \/ (old = "stopped" /\ new = "archived")

LEMMA OnwardSteps ==
    ASSUME NEW old \in Phase \cup {"none"}, NEW new \in Phase \cup {"none"}, Onward(old, new)
    PROVE  Step(new) >= Step(old)
<1>1. /\ Step("none") = -1 /\ Step("no") = 0 /\ Step("stop") = 1 /\ Step("stopped") = 2
      /\ Step("archived") = 3 /\ Step("gone") = 4
  BY DEF Step
<1> QED BY <1>1 DEF Phase, Onward

LEMMA LaunchOnward ==
    ASSUME SeatOK, NEW r, NEW m, NEW v, seat' = [seat EXCEPT ![r][m].launch = v]
    PROVE  \A s \in Room, n \in Member : seat'[s][n].retire = seat[s][n].retire
<1> SUFFICES ASSUME NEW s \in Room, NEW n \in Member
             PROVE  seat'[s][n].retire = seat[s][n].retire
  OBVIOUS
<1>1. seat[s] \in [Member -> SeatRecord] /\ seat[s][n] \in SeatRecord
  BY DEF SeatOK
<1>2. seat'[s][n] = IF s = r /\ n = m THEN [seat[s][n] EXCEPT !.launch = v] ELSE seat[s][n]
  BY <1>1 DEF SeatOK
<1> QED BY <1>1, <1>2 DEF SeatRecord

LEMMA RetireOnward ==
    ASSUME SeatOK, NEW r, NEW m, NEW v, seat' = [seat EXCEPT ![r][m].retire = v],
           r \in Room /\ m \in Member => Onward(seat[r][m].retire, v)
    PROVE  \A s \in Room, n \in Member : Onward(seat[s][n].retire, seat'[s][n].retire)
<1> SUFFICES ASSUME NEW s \in Room, NEW n \in Member
             PROVE  Onward(seat[s][n].retire, seat'[s][n].retire)
  OBVIOUS
<1>1. seat[s] \in [Member -> SeatRecord] /\ seat[s][n] \in SeatRecord
  BY DEF SeatOK
<1>2. seat'[s][n] = IF s = r /\ n = m THEN [seat[s][n] EXCEPT !.retire = v] ELSE seat[s][n]
  BY <1>1 DEF SeatOK
<1>3. CASE s = r /\ n = m
  BY <1>1, <1>2, <1>3 DEF SeatRecord
<1>4. CASE ~(s = r /\ n = m)
  BY <1>2, <1>4 DEF Onward
<1> QED BY <1>3, <1>4

LEMMA RowOnward ==
    ASSUME SeatOK, NEW r \in Room, NEW g, seat' = [seat EXCEPT ![r] = g],
           \A m \in Member : g[m].retire = seat[r][m].retire
    PROVE  \A s \in Room, n \in Member : seat'[s][n].retire = seat[s][n].retire
  BY DEF SeatOK

(* What CloseGoesForward says of a step.                                   *)
Forward ==
    /\ \A r \in Records : ~IsOpen(r) => room'[r] = "none" \/ ~IsOpen(r)'
    /\ \A r \in Records, m \in Member : room'[r] # "none" =>
           Onward(seat[r][m].retire, seat'[r][m].retire)
    /\ \A m \in Member : deleting' => Onward(cursor[m].phase, cursor'[m].phase)

LEMMA OperatesForward ==
    ASSUME IInv, Operates
    PROVE  Forward
<1>1. ASSUME NEW kind \in Terminal, AskTerminal(kind) PROVE Forward
  BY <1>1 DEF AskTerminal, Forward, Onward, IsOpen, delVars, roomVars
<1>2. CASE AcceptTerminal
  BY <1>2 DEF AcceptTerminal, Forward, Onward, IsOpen, delVars, roomVars
<1>3. CASE ReviewTask
  BY <1>3 DEF ReviewTask, Forward, Onward, IsOpen, delVars, roomVars
<1>4. CASE AcceptDeletion
  BY <1>4 DEF IInv, TypeOK, RoomOK, SeatOK, SeatRecord, DeletionOK, WorkOK, Forward, Onward,
       Records, IsOpen, AcceptDeletion, Live, NoCursor, roomVars, Fresh
<1>5. ASSUME NEW r \in Room, RoomDeletion(r) PROVE Forward
  BY <1>5 DEF IInv, TypeOK, RoomOK, SeatOK, SeatRecord, DeletionOK, WorkOK, Forward, Onward,
       Records, IsOpen, RoomDeletion, BeginRoomClose, delVars
<1> QED BY <1>1, <1>2, <1>3, <1>4, <1>5 DEF Operates

LEMMA ProvisionsForward ==
    ASSUME IInv, NEW p \in Provisioner, Provisions(p)
    PROVE  Forward
<1>1. CASE ProvisionStart(p)
  BY <1>1 DEF ProvisionStart, Forward, Onward, IsOpen, delVars, roomVars
<1>2. CASE Publish(p)
  BY <1>2 DEF Publish, Forward, Onward, IsOpen, delVars, roomVars
<1>3. ASSUME NEW r \in Room, CreateRemote(p, r) PROVE Forward
  BY <1>3 DEF CreateRemote, Forward, Onward, IsOpen, delVars, roomVars
<1>4. CASE RoomRefused(p)
  BY <1>4 DEF RoomRefused, Forward, Onward, IsOpen, delVars, roomVars
<1>5. CASE RecordRoom(p)
  BY <1>5 DEF IInv, TypeOK, RoomOK, Forward, Onward, Records, IsOpen, RecordRoom, delVars,
       Publishing, Handled, Worker
<1>6. CASE AttachOwner(p)
  BY <1>6 DEF IInv, TypeOK, RoomOK, Forward, Onward, Records, IsOpen, AttachOwner, delVars
<1>7. CASE ProvisionMembers(p)
  BY <1>7 DEF ProvisionMembers, Forward, Onward, IsOpen, delVars, roomVars
<1>8. CASE Admit(p)
  <2>1. \A s \in Room, n \in Member : Onward(seat[s][n].retire, seat'[s][n].retire)
    <3>1. tgt[p] \in Room
      BY <1>8 DEF IInv, Handled, Worker, Admit
    <3>2. \A m \in Member : Published(tgt[p])[m].retire = seat[tgt[p]][m].retire
    BY <1>8 DEF Published, NoSeat
    <3>3. seat' = seat \/ seat' = [seat EXCEPT ![tgt[p]] = Published(tgt[p])]
      BY <1>8 DEF Admit, roomVars
    <3> QED BY <3>1, <3>2, <3>3, RowOnward DEF IInv, TypeOK, Onward
  <2>2. \A r \in Records : ~IsOpen(r) => room'[r] = "none" \/ ~IsOpen(r)'
    BY <1>8 DEF IInv, TypeOK, RoomOK, Records, IsOpen, Admit, roomVars, MayProvision
  <2> QED BY <1>8, <2>1, <2>2 DEF Forward, Onward, Records, Admit, delVars
<1>9. ASSUME NEW m \in Member, Retain(p, m) PROVE Forward
  <2>1. \A s \in Room, n \in Member : Onward(seat[s][n].retire, seat'[s][n].retire)
    <3>1. seat' = seat \/ seat' = [seat EXCEPT ![tgt[p]][m].launch = "launched"]
      BY <1>9 DEF Retain
    <3> QED BY <3>1, LaunchOnward DEF IInv, TypeOK, Onward
  <2>2. \A r \in Records : ~IsOpen(r) => room'[r] = "none" \/ ~IsOpen(r)'
    BY <1>9 DEF IInv, TypeOK, RoomOK, Records, IsOpen, Retain
  <2> QED BY <1>9, <2>1, <2>2 DEF Forward, Onward, Records, Retain, delVars
<1>10. ASSUME NEW m \in Member, RefuseMissing(p, m) PROVE Forward
  BY <1>10 DEF RefuseMissing, Forward, Onward, IsOpen, delVars, roomVars
<1>11. ASSUME NEW m \in Member, LaunchMember(p, m) PROVE Forward
  <2>1. \A s \in Room, n \in Member : Onward(seat[s][n].retire, seat'[s][n].retire)
    <3>1. seat' = seat \/ seat' = [seat EXCEPT ![tgt[p]][m].launch = "intent"]
      BY <1>11 DEF LaunchMember
    <3> QED BY <3>1, LaunchOnward DEF IInv, TypeOK, Onward
  <2>2. \A r \in Records : ~IsOpen(r) => room'[r] = "none" \/ ~IsOpen(r)'
    BY <1>11 DEF IInv, TypeOK, RoomOK, Records, IsOpen, LaunchMember
  <2> QED BY <1>11, <2>1, <2>2 DEF Forward, Onward, Records, LaunchMember, delVars
<1>12. CASE Spawned(p)
  <2>1. \A s \in Room, n \in Member : Onward(seat[s][n].retire, seat'[s][n].retire)
    <3>1. \/ seat' = [seat EXCEPT ![tgt[p]][who[p]].launch = "launched"]
          \/ seat' = [seat EXCEPT ![tgt[p]][who[p]].launch = "failed"]
      BY <1>12 DEF Spawned
    <3> QED BY <3>1, LaunchOnward DEF IInv, TypeOK, Onward
  <2>2. \A r \in Records : ~IsOpen(r) => room'[r] = "none" \/ ~IsOpen(r)'
    BY <1>12 DEF IInv, TypeOK, RoomOK, Records, IsOpen, Spawned
  <2> QED BY <1>12, <2>1, <2>2 DEF Forward, Onward, Records, Spawned, delVars
<1>13. CASE AwaitSeats(p)
  BY <1>13 DEF IInv, TypeOK, RoomOK, SeatOK, SeatRecord, DeletionOK, WorkOK, Forward,
       Onward, Records, IsOpen, AwaitSeats, Reconciled, Joined, delVars, Opened, Worker,
       Locked, HoldsRoom
<1> QED BY <1>1, <1>2, <1>3, <1>4, <1>5, <1>6, <1>7, <1>8, <1>9, <1>10, <1>11, <1>12, <1>13
     DEF Provisions

LEMMA ClosesForward ==
    ASSUME IInv, NEW c \in Closer, Closes(c)
    PROVE  Forward
<1>1. CASE CloseUnrecorded(c)
  BY <1>1 DEF CloseUnrecorded, Forward, Onward, IsOpen, delVars, roomVars
<1>2. CASE CloseAgain(c)
  BY <1>2 DEF CloseAgain, Forward, Onward, IsOpen, delVars, roomVars
<1>3. CASE CloseRoom(c)
  <2>1. \A s \in Room, n \in Member : Onward(seat[s][n].retire, seat'[s][n].retire)
    <3>1. tgt[c] \in Room
      BY <1>3 DEF IInv, Handled, Worker, CloseRoom
    <3>2. \A m \in Member : Recovered(tgt[c])[m].retire = seat[tgt[c]][m].retire
      BY <3>1 DEF IInv, TypeOK, SeatOK, SeatRecord, Recovered
    <3>3. seat' = seat \/ seat' = [seat EXCEPT ![tgt[c]] = Recovered(tgt[c])]
      BY <1>3 DEF CloseRoom
    <3> QED BY <3>1, <3>2, <3>3, RowOnward DEF IInv, TypeOK, Onward
  <2>2. \A r \in Records : ~IsOpen(r) => room'[r] = "none" \/ ~IsOpen(r)'
    BY <1>3 DEF IInv, TypeOK, RoomOK, Records, IsOpen, CloseRoom, BeginRoomClose
  <2> QED BY <1>3, <2>1, <2>2 DEF Forward, Onward, Records, CloseRoom, delVars
<1>4. CASE RecordArchive(c)
  BY <1>4 DEF IInv, TypeOK, RoomOK, Forward, Onward, Records, IsOpen, RecordArchive,
       Advance, delVars, Closing, Archiving, Worker, Closer, Locked, HoldsRoom
<1>5. CASE RecordGone(c)
  <2>1. \A s \in Room, n \in Member : Onward(seat[s][n].retire, seat'[s][n].retire)
    <3>1. seat' = seat \/ seat' = [seat EXCEPT ![tgt[c]][who[c]].retire = "gone"]
      BY <1>5 DEF RecordGone, Advance
    <3>2. Onward(seat[tgt[c]][who[c]].retire, "gone")
    BY <1>5 DEF Onward
    <3> QED BY <3>1, <3>2, RetireOnward DEF IInv, TypeOK, Onward
  <2>2. \A r \in Records : ~IsOpen(r) => room'[r] = "none" \/ ~IsOpen(r)'
    BY <1>5 DEF IInv, TypeOK, RoomOK, Records, IsOpen, RecordGone
  <2> QED BY <1>5, <2>1, <2>2 DEF Forward, Onward, Records, RecordGone, delVars
<1>6. CASE AllRetired(c)
  BY <1>6 DEF IInv, TypeOK, RoomOK, Forward, Onward, Records, IsOpen, AllRetired, delVars,
       Closing, Archiving, Worker, Closer, Locked, HoldsRoom
<1>7. ASSUME NEW m \in Member, Recheck(c, m) PROVE Forward
  BY <1>7 DEF Recheck, Forward, Onward, IsOpen, delVars, roomVars
<1>8. ASSUME NEW m \in Member, Inspect(c, m) PROVE Forward
  <2>1. \A s \in Room, n \in Member : Onward(seat[s][n].retire, seat'[s][n].retire)
    <3>1. CASE seat' = seat
      BY <3>1 DEF Onward
    <3>2. CASE Found(c, m) /\ seat[tgt[c]][m].retire = "no"
      BY <3>2, SeatFound DEF IInv, TypeOK, Onward
    <3> QED BY <1>8, <3>1, <3>2 DEF Inspect
  <2>2. \A r \in Records : ~IsOpen(r) => room'[r] = "none" \/ ~IsOpen(r)'
    BY <1>8 DEF IInv, TypeOK, RoomOK, Records, IsOpen, Inspect
  <2> QED BY <1>8, <2>1, <2>2 DEF Forward, Onward, Records, Inspect, delVars
<1>9. ASSUME NEW m \in Member, StopMember(c, m) PROVE Forward
  BY <1>9 DEF IInv, TypeOK, RoomOK, Forward, Onward, Records, IsOpen, StopMember, Advance,
       delVars, Closing, Archiving, Worker, Closer, Locked, HoldsRoom
<1>10. ASSUME NEW m \in Member, ArchiveMember(c, m) PROVE Forward
  BY <1>10 DEF ArchiveMember, Forward, Onward, IsOpen, delVars, roomVars
<1>11. ASSUME NEW m \in Member, RemoveIdentity(c, m) PROVE Forward
  BY <1>11 DEF RemoveIdentity, Forward, Onward, IsOpen, delVars, roomVars
<1>12. CASE CloseRemote(c)
  BY <1>12 DEF CloseRemote, Forward, Onward, IsOpen, delVars, roomVars
<1>13. CASE RecordClosed(c)
  BY <1>13 DEF IInv, TypeOK, RoomOK, Forward, Onward, Records, IsOpen, RecordClosed,
       delVars, Closing, Archiving, Worker, Closer, Locked, HoldsRoom
<1> QED BY <1>1, <1>2, <1>3, <1>4, <1>5, <1>6, <1>7, <1>8, <1>9, <1>10, <1>11, <1>12, <1>13
     DEF Closes

LEMMA ErasesForward ==
    ASSUME IInv, NEW c \in {"settle", "room"}, Erases(c)
    PROVE  Forward
<1>1. CASE EraseRoom(c)
  BY <1>1 DEF EraseRoom, Forward, Onward, IsOpen, delVars, roomVars
<1>2. CASE DeleteRemote(c)
  BY <1>2 DEF DeleteRemote, Forward, Onward, IsOpen, delVars, roomVars
<1>3. CASE DropRecord(c)
  BY <1>3 DEF IInv, TypeOK, RoomOK, SeatOK, SeatRecord, DeletionOK, WorkOK, Forward, Onward,
       Records, IsOpen, DropRecord, Unrecorded, NoSeat, roomVars, delVars
<1> QED BY <1>1, <1>2, <1>3 DEF Erases

LEMMA SettlesForward ==
    ASSUME IInv, Settles
    PROVE  Forward
<1>1. CASE SettleStart
  BY <1>1 DEF SettleStart, Forward, Onward, IsOpen, delVars, roomVars
<1>2. CASE FinishIntent
  BY <1>2 DEF FinishIntent, Forward, Onward, IsOpen, delVars, roomVars
<1> QED BY <1>1, <1>2 DEF Settles

LEMMA DeletesForward ==
    ASSUME IInv, Deletes
    PROVE  Forward
<1>1. CASE DeleteStart
  BY <1>1 DEF DeleteStart, Forward, Onward, IsOpen, delVars, roomVars
<1>2. ASSUME NEW r \in Room, ScanRecord(r) PROVE Forward
  BY <1>2 DEF IInv, TypeOK, RoomOK, SeatOK, SeatRecord, DeletionOK, WorkOK, Forward, Onward,
       Records, IsOpen, ScanRecord, ConflictsWith, Known, Upserts, NoCursor, roomVars
<1>3. CASE ScanDone
  BY <1>3 DEF ScanDone, Forward, Onward, IsOpen, delVars, roomVars
<1>4. CASE ImportEvidence
  BY <1>4 DEF IInv, TypeOK, RoomOK, Forward, Onward, Records, IsOpen, ImportEvidence,
       roomVars
<1>5. CASE DeleteRoomOfTask
  BY <1>5 DEF DeleteRoomOfTask, Forward, Onward, IsOpen, delVars, roomVars
<1>6. CASE DropRecordOfTask
  BY <1>6 DEF IInv, TypeOK, RoomOK, Forward, Onward, Records, IsOpen, DropRecordOfTask,
       Unrecorded, delVars
<1>7. ASSUME NEW m \in Member, CursorRecheck(m) PROVE Forward
  BY <1>7 DEF CursorRecheck, Forward, Onward, IsOpen, delVars, roomVars
<1>8. ASSUME NEW m \in Member, CursorRemove(m) PROVE Forward
  BY <1>8 DEF CursorRemove, Forward, Onward, IsOpen, delVars, roomVars
<1>9. CASE CursorGone
  BY <1>9 DEF IInv, TypeOK, RoomOK, Forward, Onward, Records, IsOpen, CursorGone, Marks,
       roomVars
<1>10. CASE CleanupDone
  BY <1>10 DEF CleanupDone, Forward, Onward, IsOpen, delVars, roomVars
<1>11. CASE UnlinkTask
  BY <1>11 DEF IInv, TypeOK, RoomOK, Forward, Onward, IsOpen, UnlinkTask, delVars, roomVars
<1> QED BY <1>1, <1>2, <1>3, <1>4, <1>5, <1>6, <1>7, <1>8, <1>9, <1>10, <1>11 DEF Deletes

LEMMA RunsForward ==
    ASSUME IInv, NEW m \in Member, Runs(m) \/ Leave(m)
    PROVE  Forward
<1>1. CASE Launch(m)
  BY <1>1 DEF Launch, Forward, Onward, IsOpen, delVars, roomVars
<1>2. CASE Run(m)
  BY <1>2 DEF Run, Forward, Onward, IsOpen, delVars, roomVars
<1>3. CASE Join(m)
  BY <1>3 DEF Join, Forward, Onward, IsOpen, delVars, roomVars
<1>4. CASE Leave(m)
  BY <1>4 DEF Leave, Forward, Onward, IsOpen, delVars, roomVars
<1> QED BY <1>1, <1>2, <1>3, <1>4 DEF Runs

LEMMA FailsForward ==
    ASSUME IInv, NEW w \in Worker, StepFails(w) \/ WorkerDies(w)
    PROVE  Forward
<1>1. CASE StepFails(w)
  <2>1. \A s \in Room, n \in Member : Onward(seat[s][n].retire, seat'[s][n].retire)
    <3>1. seat' = seat \/ seat' = [seat EXCEPT ![tgt[w]][who[w]].launch = "failed"]
      BY <1>1 DEF StepFails
    <3> QED BY <3>1, LaunchOnward DEF IInv, TypeOK, Onward
  <2>2. \A r \in Records : ~IsOpen(r) => room'[r] = "none" \/ ~IsOpen(r)'
    BY <1>1 DEF IInv, TypeOK, RoomOK, Records, IsOpen, StepFails
  <2> QED BY <1>1, <2>1, <2>2 DEF Forward, Onward, Records, StepFails, delVars
<1>2. CASE WorkerDies(w)
  BY <1>2 DEF WorkerDies, Forward, Onward, IsOpen, delVars, roomVars
<1> QED BY <1>1, <1>2

-----------------------------------------------------------------------------
(* Every reachable state satisfies the inductive invariant.                *)
THEOREM Invariance == Spec => []IInv
<1>1. ASSUME IInv, Next PROVE IInv'
  <2>1. ASSUME NEW w \in Worker, Works(w) PROVE IInv'
    BY <1>1, <2>1, ProvisionsKeep, ClosesKeep, ErasesKeep, SettlesKeep, DeletesKeep DEF
         Works
  <2> QED BY <1>1, <2>1, OperatesKeep, RunsKeep, FailsKeep DEF Next
<1> QED BY InitHolds, Stuttering, <1>1, PTL DEF Spec

(* The type invariant: records, members, workers and locks.                *)
THEOREM Typing == Spec => []TypeOK
<1>1. IInv => TypeOK
  BY DEF IInv
<1> QED BY Invariance, <1>1, PTL

(* A task has at most one room record, and one that is not being deleted   *)
(* names no room without a record: publishRoom looks for records and makes *)
(* one under the task's lock, and detachDeletedRoom cuts the link before   *)
(* the record goes.                                                        *)
THEOREM OneRoomOfTask == Spec => []RoomOfTask
<1>1. IInv => RoomOfTask
  BY DEF IInv
<1> QED BY Invariance, <1>1, PTL

(* Once a deletion is accepted nothing new is made for the task and no     *)
(* member starts to run: what was under way when it was accepted held the  *)
(* lock acceptance waits for, and everything after asks the fence again.   *)
THEOREM Fencing == Spec => DeletionFences
<1>1. ASSUME IInv, Next PROVE Fenced
  <2>1. ASSUME NEW w \in Worker, Works(w) PROVE Fenced
    BY <1>1, <2>1, ProvisionsFence, ClosesFence, ErasesFence, SettlesFence, DeletesFence DEF
         Works
  <2> QED BY <1>1, <2>1, OperatesFence, RunsFence, FailsFence DEF Next
<1>2. IInv /\ [Next]_vars => [Fenced]_vars
  BY <1>1
<1>3. DeletionFences <=> [][Fenced]_vars
  BY DEF DeletionFences, Fenced
<1> QED BY Invariance, <1>2, <1>3, PTL DEF Spec

(* A closing room never opens again, and neither its evidence nor the      *)
(* task's cursors move back: who writes a seat holds the room's lock, and  *)
(* only a room whose lock is held by a closer has evidence to lose.        *)
THEOREM ClosingGoesForward == Spec => CloseGoesForward
<1>1. ASSUME IInv, Next PROVE Forward
  <2>1. ASSUME NEW w \in Worker, Works(w) PROVE Forward
    BY <1>1, <2>1, ProvisionsForward, ClosesForward, ErasesForward, SettlesForward,
       DeletesForward DEF Works
  <2> QED BY <1>1, <2>1, OperatesForward, RunsForward, FailsForward DEF Next
<1>2. ASSUME TypeOK, TypeOK', Forward
      PROVE  /\ \A r \in Records : ~IsOpen(r) => room'[r] = "none" \/ ~IsOpen(r)'
             /\ \A r \in Records, m \in Member : room'[r] # "none" =>
                   Step(seat'[r][m].retire) >= Step(seat[r][m].retire)
             /\ \A m \in Member : deleting' =>
                   Step(cursor'[m].phase) >= Step(cursor[m].phase)
  <2>1. \A r \in Room, m \in Member :
           seat[r][m].retire \in Phase /\ seat'[r][m].retire \in Phase
    BY <1>2 DEF TypeOK, SeatOK, SeatRecord
  <2>2. \A m \in Member :
           cursor[m].phase \in Phase \cup {"none"} /\ cursor'[m].phase \in Phase \cup {"none"}
    BY <1>2 DEF TypeOK, DeletionOK
  <2> QED BY <1>2, <2>1, <2>2, OnwardSteps DEF Forward, Records
<1>3. TypeOK /\ TypeOK' /\ [Forward]_vars =>
      [/\ \A r \in Records : ~IsOpen(r) => room'[r] = "none" \/ ~IsOpen(r)'
       /\ \A r \in Records, m \in Member : room'[r] # "none" =>
             Step(seat'[r][m].retire) >= Step(seat[r][m].retire)
       /\ \A m \in Member : deleting' =>
             Step(cursor'[m].phase) >= Step(cursor[m].phase)]_vars
  BY <1>2
<1>4. IInv /\ [Next]_vars => [Forward]_vars
  BY <1>1
<1> QED BY Invariance, Typing, <1>3, <1>4, PTL DEF Spec, CloseGoesForward
=============================================================================
