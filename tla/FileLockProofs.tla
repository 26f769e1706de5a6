--------------------------- MODULE FileLockProofs ---------------------------
(***************************************************************************)
(* Of FileLock, for any set of calls: as long as no lock is reclaimed that *)
(* showed no owner, at most one call holds the lock, and only its holder   *)
(* removes it, whatever dies where and however removals overlap.           *)
(*                                                                         *)
(* The inductive invariant follows the two kinds of removal: a release     *)
(* has only files of its own call to unlink, a reclaim only files of a     *)
(* dead one.  It needs that a token never returns once it is gone, and     *)
(* that the two files in the directory are of one call.                    *)
(***************************************************************************)
EXTENDS FileLock, TLAPS

Content(f) == IF f = "owner" THEN owner ELSE stamp

(* The call has renamed its directory, or never will.                      *)
Published(c) ==
    \/ pc[c] \in {"hold", "release", "gone", "dead"}
    \/ pc[c] \in {"remove", "unlink"} /\ section # c

Places ==
    \A c \in Contender :
        /\ section = c => pc[c] \in {"reread", "reread stamp", "remove", "unlink"}
        /\ pc[c] \in {"reread", "reread stamp"} => section = c

Tokens ==
    /\ owner # Nobody => Published(owner)
    /\ stamp # Nobody => Published(stamp)
    /\ \A c \in Contender : sawOwner[c] # Nobody => Published(sawOwner[c])

OneWriter == owner # Nobody /\ stamp # Nobody => owner = stamp

(* A call that means to reclaim has found the owner it saw dead, or gone.  *)
Judged ==
    \A c \in Contender :
        /\ pc[c] \in {"queue", "reread", "reread stamp"}
        /\ sawOwner[c] # Nobody /\ owner = sawOwner[c]
        => pc[owner] = "dead"

Intact ==
    \A c \in Contender :
        pc[c] \in {"hold", "release"} \/ (pc[c] = "remove" /\ section # c)
        => owner = c /\ stamp = c

Rereads ==
    \A c \in Contender :
        pc[c] = "reread stamp" /\ sawOwner[c] # Nobody => owner = sawOwner[c]

(* What is left to unlink in a release, and in a reclaim.                  *)
ReleasesOwn ==
    \A c \in Contender : \A f \in children[c] :
        pc[c] = "unlink" /\ section # c => Content(f) = c

ReclaimsDead ==
    \A c \in Contender : section = c =>
        /\ pc[c] = "remove" => owner # Nobody /\ pc[owner] = "dead"
        /\ pc[c] = "unlink" =>
              \A f \in children[c] : Content(f) # Nobody /\ pc[Content(f)] = "dead"

Frame == TypeOK /\ Places /\ Tokens /\ OneWriter /\ Judged

Care == ~blind => Intact /\ Rereads /\ ReleasesOwn /\ ReclaimsDead

IInv == Frame /\ Care

-----------------------------------------------------------------------------
LEMMA InitIInv == Init => IInv
BY ContenderAssumption
   DEF Init, IInv, Frame, Care, TypeOK, Someone, Place, Places, Tokens, OneWriter, Judged,
       Intact, Rereads, ReleasesOwn, ReclaimsDead

LEMMA StepTypes == TypeOK /\ [Next]_vars => TypeOK'
<1> SUFFICES ASSUME TypeOK, [Next]_vars PROVE TypeOK'
    OBVIOUS
<1> USE DEF TypeOK, Moves, Someone, Place
<1>1. CASE UNCHANGED vars
    BY <1>1 DEF vars, lock, observed
<1>a. ASSUME NEW c \in Contender, Forgets(c)
      PROVE  /\ sawOwner' \in [Contender -> Someone] /\ sawStamp' \in [Contender -> Someone]
             /\ aged' \in [Contender -> BOOLEAN]
    BY <1>a DEF Forgets
<1>2. ASSUME NEW c \in Contender, Call(c) \/ WorkEnds(c) \/ ReadToken(c) \/ JudgeStale(c)
      PROVE TypeOK'
    BY <1>2 DEF Call, WorkEnds, ReadToken, JudgeStale, lock, observed
<1>3. ASSUME NEW c \in Contender, Publish(c) PROVE TypeOK'
    BY <1>3 DEF Publish, lock, observed
<1>4. ASSUME NEW c \in Contender, ObserveOwner(c) \/ ObserveStamp(c) PROVE TypeOK'
    <2>1. CASE ObserveOwner(c)
        BY <2>1 DEF ObserveOwner, lock
    <2>2. CASE ObserveStamp(c)
        BY <2>2 DEF ObserveStamp, lock
    <2> QED BY <1>4, <2>1, <2>2
<1>5. ASSUME NEW c \in Contender, ReadAge(c) PROVE TypeOK'
    BY <1>5 DEF ReadAge, lock
<1>6. ASSUME NEW c \in Contender, Sleep(c) PROVE TypeOK'
    BY <1>6, <1>a DEF Sleep, lock
<1>7. ASSUME NEW c \in Contender, EnterSection(c) PROVE TypeOK'
    BY <1>7 DEF EnterSection, Reclaim!Enter, lock, observed
<1>8. ASSUME NEW c \in Contender, RereadOwner(c) \/ RereadStamp(c) PROVE TypeOK'
    BY <1>8, <1>a DEF RereadOwner, RereadStamp, LeaveSection, Reclaim!Leave, lock, observed
<1>9. ASSUME NEW c \in Contender, ListFiles(c) PROVE TypeOK'
    BY <1>9 DEF ListFiles, lock, observed
<1>10. ASSUME NEW c \in Contender, NEW f \in {"owner", "stamp"}, Unlink(c, f) PROVE TypeOK'
    BY <1>10 DEF Unlink, Gone, observed
<1>11. ASSUME NEW c \in Contender, RemoveDir(c) PROVE TypeOK'
    BY <1>11, <1>a DEF RemoveDir, LeaveSection, Reclaim!Leave, lock, observed
<1>12. ASSUME NEW c \in Contender, Die(c) PROVE TypeOK'
    BY <1>12, <1>a DEF Die, lock
<1> QED
    BY <1>1, <1>2, <1>3, <1>4, <1>5, <1>6, <1>7, <1>8, <1>9, <1>10, <1>11, <1>12
       DEF Next, Proceeds

(* A token that has been published stays so, and no live call publishes    *)
(* twice.                                                                  *)
LEMMA PublishedStays ==
    ASSUME TypeOK, Places, Next, NEW x \in Contender, Published(x)
    PROVE Published(x)'
<1> USE ContenderAssumption DEF TypeOK, Moves, Published, Places
<1>2. ASSUME NEW c \in Contender, Call(c) \/ WorkEnds(c) \/ ReadToken(c) \/ JudgeStale(c)
      PROVE Published(x)'
    BY <1>2 DEF Call, WorkEnds, ReadToken, JudgeStale
<1>3. ASSUME NEW c \in Contender,
             Publish(c) \/ ObserveOwner(c) \/ ObserveStamp(c) \/ ReadAge(c) \/ Sleep(c)
      PROVE Published(x)'
    BY <1>3 DEF Publish, ObserveOwner, ObserveStamp, ReadAge, Sleep
<1>4. ASSUME NEW c \in Contender, EnterSection(c) PROVE Published(x)'
    BY <1>4 DEF EnterSection, Reclaim!Enter
<1>5. ASSUME NEW c \in Contender, RereadOwner(c) \/ RereadStamp(c) PROVE Published(x)'
    BY <1>5 DEF RereadOwner, RereadStamp, LeaveSection, Reclaim!Leave
<1>6. ASSUME NEW c \in Contender, ListFiles(c) PROVE Published(x)'
    BY <1>6 DEF ListFiles
<1>7. ASSUME NEW c \in Contender, NEW f \in {"owner", "stamp"}, Unlink(c, f)
      PROVE Published(x)'
    BY <1>7 DEF Unlink
<1>8. ASSUME NEW c \in Contender, RemoveDir(c) PROVE Published(x)'
    BY <1>8 DEF RemoveDir, LeaveSection, Reclaim!Leave
<1>9. ASSUME NEW c \in Contender, Die(c) PROVE Published(x)'
    BY <1>9 DEF Die
<1> QED
    BY <1>2, <1>3, <1>4, <1>5, <1>6, <1>7, <1>8, <1>9 DEF Next, Proceeds

(* What a step does to the lock's files: a whole lock where there was none, *)
(* or nothing new.                                                         *)
LEMMA Files ==
    ASSUME Next
    PROVE  \/ /\ Empty
              /\ \E c \in Contender : /\ pc[c] = "claim" /\ pc' = [pc EXCEPT ![c] = "hold"]
                                      /\ owner' = c /\ stamp' = c
                                      /\ UNCHANGED <<section, sawOwner, children, blind>>
           \/ owner' \in {owner, Nobody} /\ stamp' \in {stamp, Nobody}
<1>1. ASSUME NEW c \in Contender, Publish(c)
      PROVE  \/ /\ Empty
                /\ pc[c] = "claim" /\ pc' = [pc EXCEPT ![c] = "hold"]
                /\ owner' = c /\ stamp' = c
                /\ UNCHANGED <<section, sawOwner, children, blind>>
             \/ owner' = owner /\ stamp' = stamp
    BY <1>1 DEF Publish, Moves, lock, observed
<1>2. ASSUME NEW c \in Contender,
             \/ Call(c) \/ WorkEnds(c) \/ ReadToken(c) \/ JudgeStale(c)
             \/ ObserveOwner(c) \/ ObserveStamp(c) \/ ReadAge(c) \/ Sleep(c)
             \/ EnterSection(c) \/ RereadOwner(c) \/ RereadStamp(c)
             \/ ListFiles(c) \/ RemoveDir(c) \/ Die(c)
      PROVE  owner' = owner /\ stamp' = stamp
    BY <1>2 DEF Call, WorkEnds, ReadToken, JudgeStale, ObserveOwner, ObserveStamp, ReadAge,
                Sleep, EnterSection, RereadOwner, RereadStamp, ListFiles, RemoveDir, Die, lock
<1>3. ASSUME NEW c \in Contender, NEW f \in {"owner", "stamp"}, Unlink(c, f)
      PROVE  owner' \in {owner, Nobody} /\ stamp' \in {stamp, Nobody}
    BY <1>3 DEF Unlink, Gone
<1> QED
    BY <1>1, <1>2, <1>3 DEF Next, Proceeds

(* The calls that mean to reclaim.                                         *)
Means == {"queue", "reread", "reread stamp"}

(* What a step does to a call: the dead stay dead, an owner is seen only   *)
(* where it is, and one that means to reclaim has judged.                  *)
Looks(x) ==
    /\ pc[x] = "dead" => pc'[x] = "dead"
    /\ sawOwner'[x] \in {sawOwner[x], Nobody, owner}
    /\ pc'[x] \in Means =>
          /\ sawOwner'[x] = sawOwner[x]
          /\ pc[x] \in Means \/ ~OwnerAlive

LEMMA StepLooks ==
    ASSUME TypeOK, Next, NEW x \in Contender
    PROVE  Looks(x)
<1> USE DEF TypeOK, Moves, Looks, Means
<1>2. ASSUME NEW c \in Contender, Call(c) \/ WorkEnds(c) \/ ReadToken(c) \/ JudgeStale(c)
      PROVE Looks(x)
    BY <1>2 DEF Call, WorkEnds, ReadToken, JudgeStale, Reclaims, observed
<1>3. ASSUME NEW c \in Contender, Publish(c) \/ ListFiles(c) \/ EnterSection(c)
      PROVE Looks(x)
    BY <1>3 DEF Publish, ListFiles, EnterSection, observed
<1>4. ASSUME NEW c \in Contender,
             ObserveOwner(c) \/ ObserveStamp(c) \/ ReadAge(c) \/ Sleep(c)
      PROVE Looks(x)
    BY <1>4 DEF ObserveOwner, ObserveStamp, ReadAge, Sleep, Forgets
<1>5. ASSUME NEW c \in Contender, RereadOwner(c) \/ RereadStamp(c) PROVE Looks(x)
    BY <1>5 DEF RereadOwner, RereadStamp, LeaveSection, Forgets, observed
<1>6. ASSUME NEW c \in Contender, NEW f \in {"owner", "stamp"}, Unlink(c, f) PROVE Looks(x)
    BY <1>6 DEF Unlink, observed
<1>7. ASSUME NEW c \in Contender, RemoveDir(c) PROVE Looks(x)
    BY <1>7 DEF RemoveDir, LeaveSection, Forgets, observed
<1>8. ASSUME NEW c \in Contender, Die(c) PROVE Looks(x)
    BY <1>8 DEF Die, Forgets
<1> QED
    BY <1>2, <1>3, <1>4, <1>5, <1>6, <1>7, <1>8 DEF Next, Proceeds

Placed(x) ==
    /\ section = x => pc[x] \in {"reread", "reread stamp", "remove", "unlink"}
    /\ pc[x] \in {"reread", "reread stamp"} => section = x

LEMMA StepPlaces ==
    ASSUME TypeOK, Places, Next PROVE Places'
<1> SUFFICES ASSUME NEW x \in Contender PROVE Placed(x)'
    BY DEF Places, Placed
<1>1. \A y \in Contender : Placed(y)
    BY DEF Places, Placed
<1> USE ContenderAssumption, <1>1 DEF TypeOK, Moves, Placed
<1>2. ASSUME NEW c \in Contender, Call(c) \/ WorkEnds(c) \/ ReadToken(c) \/ JudgeStale(c)
      PROVE Placed(x)'
    BY <1>2 DEF Call, WorkEnds, ReadToken, JudgeStale
<1>3. ASSUME NEW c \in Contender,
             Publish(c) \/ ObserveOwner(c) \/ ObserveStamp(c) \/ ReadAge(c) \/ Sleep(c)
      PROVE Placed(x)'
    BY <1>3 DEF Publish, ObserveOwner, ObserveStamp, ReadAge, Sleep
<1>4. ASSUME NEW c \in Contender, EnterSection(c) PROVE Placed(x)'
    BY <1>4 DEF EnterSection, Reclaim!Enter
<1>5. ASSUME NEW c \in Contender, RereadOwner(c) \/ RereadStamp(c) PROVE Placed(x)'
    BY <1>5 DEF RereadOwner, RereadStamp, LeaveSection, Reclaim!Leave
<1>6. ASSUME NEW c \in Contender, ListFiles(c) PROVE Placed(x)'
    BY <1>6 DEF ListFiles
<1>7. ASSUME NEW c \in Contender, NEW f \in {"owner", "stamp"}, Unlink(c, f) PROVE Placed(x)'
    BY <1>7 DEF Unlink
<1>8. ASSUME NEW c \in Contender, RemoveDir(c) PROVE Placed(x)'
    BY <1>8 DEF RemoveDir, LeaveSection, Reclaim!Leave
<1>9. ASSUME NEW c \in Contender, Die(c) PROVE Placed(x)'
    BY <1>9 DEF Die
<1> QED
    BY <1>2, <1>3, <1>4, <1>5, <1>6, <1>7, <1>8, <1>9 DEF Next, Proceeds

LEMMA StepFrame == Frame /\ [Next]_vars => Frame'
<1> SUFFICES ASSUME Frame, [Next]_vars PROVE Frame'
    OBVIOUS
<1>t. TypeOK /\ TypeOK'
    BY StepTypes DEF Frame
<1>1. CASE UNCHANGED vars
    BY <1>1, <1>t DEF Frame, Places, Tokens, Published, OneWriter, Judged, vars, lock, observed
<1> SUFFICES ASSUME Next PROVE Frame'
    BY <1>1
<1>p. \A x \in Contender : Published(x) => Published(x)'
    BY PublishedStays DEF Frame
<1>l. \A x \in Contender : Looks(x)
    BY StepLooks DEF Frame
<1>s. owner \in Someone /\ stamp \in Someone /\ \A x \in Contender : sawOwner[x] \in Someone
    BY <1>t DEF TypeOK
<1>2. Places'
    BY StepPlaces DEF Frame
<1>3. Tokens'
    <2>1. \A x \in Contender : sawOwner'[x] # Nobody => Published(sawOwner[x])'
        BY <1>p, <1>l, <1>s DEF Looks, Frame, Tokens, Someone
    <2>2. (owner' # Nobody => Published(owner)') /\ (stamp' # Nobody => Published(stamp)')
        <3>1. CASE owner' \in {owner, Nobody} /\ stamp' \in {stamp, Nobody}
            BY <3>1, <1>p, <1>s DEF Frame, Tokens, Someone
        <3>2. ASSUME NEW c \in Contender, pc' = [pc EXCEPT ![c] = "hold"],
                     owner' = c, stamp' = c
              PROVE  Published(owner)' /\ Published(stamp)'
            BY <3>2, <1>t DEF Published, TypeOK
        <3> QED BY <3>1, <3>2, Files
    <2> QED BY <2>1, <2>2 DEF Tokens
<1>4. OneWriter'
    BY Files DEF Frame, OneWriter
<1>5. Judged'
    <2> SUFFICES ASSUME NEW x \in Contender, pc'[x] \in Means, sawOwner'[x] # Nobody,
                        owner' = sawOwner'[x]
                 PROVE  pc'[owner'] = "dead"
        BY DEF Judged, Means
    <2>1. sawOwner[x] = owner' /\ Published(owner') /\ owner' \in Contender
        BY <1>l, <1>s DEF Looks, Frame, Tokens, Someone
    <2>2. owner' = owner
        <3>1. ASSUME NEW c \in Contender, pc[c] = "claim", owner' = c PROVE FALSE
            BY <3>1, <2>1 DEF Published
        <3> QED BY <3>1, <2>1, Files, ContenderAssumption
    <2>3. pc[owner] = "dead"
        BY <2>1, <2>2, <1>l, ContenderAssumption DEF Looks, Frame, Judged, Means, OwnerAlive, Alive
    <2> QED BY <2>1, <2>2, <2>3, <1>l DEF Looks
<1> QED
    BY <1>t, <1>2, <1>3, <1>4, <1>5 DEF Frame

-----------------------------------------------------------------------------
(* A file that is there goes only when a reclaimer unlinks a dead call's,  *)
(* or a release its own.                                                   *)
Lost(f, y) ==
    \/ pc[y] = "dead" /\ section \in Contender /\ pc[section] = "unlink" /\ f \notin children'[section]
    \/ pc[y] = "unlink" /\ section # y /\ f \notin children'[y]

LEMMA Losses ==
    ASSUME Frame, ReleasesOwn, ReclaimsDead, Next
    PROVE  /\ owner # Nobody /\ owner' # owner => Lost("owner", owner)
           /\ stamp # Nobody /\ stamp' # stamp => Lost("stamp", stamp)
<1>1. ASSUME NEW c \in Contender, NEW f \in {"owner", "stamp"}, Unlink(c, f)
      PROVE  Lost(f, Content(f))
    <2>1. pc[c] = "unlink" /\ f \in children[c] /\ f \notin children'[c]
        BY <1>1 DEF Unlink, Frame, TypeOK
    <2>2. CASE section = c
        BY <2>1, <2>2 DEF ReclaimsDead, Lost
    <2>3. CASE section # c
        BY <2>1, <2>3 DEF ReleasesOwn, Lost
    <2> QED BY <2>2, <2>3
<1>2. ASSUME NEW c \in Contender, NEW f \in {"owner", "stamp"}, Unlink(c, f)
      PROVE  IF f = "owner" THEN stamp' = stamp ELSE owner' = owner
    BY <1>2 DEF Unlink
<1>3. ASSUME NEW c \in Contender, Publish(c)
      PROVE  (owner = Nobody /\ stamp = Nobody) \/ (owner' = owner /\ stamp' = stamp)
    BY <1>3 DEF Publish, Empty, lock
<1>4. ASSUME NEW c \in Contender,
             \/ Call(c) \/ WorkEnds(c) \/ ReadToken(c) \/ JudgeStale(c)
             \/ ObserveOwner(c) \/ ObserveStamp(c) \/ ReadAge(c) \/ Sleep(c)
             \/ EnterSection(c) \/ RereadOwner(c) \/ RereadStamp(c)
             \/ ListFiles(c) \/ RemoveDir(c) \/ Die(c)
      PROVE  owner' = owner /\ stamp' = stamp
    BY <1>4 DEF Call, WorkEnds, ReadToken, JudgeStale, ObserveOwner, ObserveStamp, ReadAge,
                Sleep, EnterSection, RereadOwner, RereadStamp, ListFiles, RemoveDir, Die, lock
<1> QED
    BY <1>1, <1>2, <1>3, <1>4 DEF Next, Proceeds, Content

(* The lock is whole and the call's own.                                   *)
Holding(x) == pc[x] \in {"hold", "release"} \/ (pc[x] = "remove" /\ section # x)

(* From where a step can bring a call to the places Care speaks of.        *)
Comes(x) ==
    /\ Holding(x)' => Holding(x) \/ (owner' = x /\ stamp' = x)
    /\ pc'[x] = "reread stamp" =>
          /\ sawOwner'[x] = sawOwner[x]
          /\ pc[x] = "reread stamp" \/ (pc[x] = "reread" /\ owner = sawOwner[x])
    /\ pc'[x] = "unlink" =>
          /\ section' = x <=> section = x
          /\ \A f \in children'[x] : \/ pc[x] = "unlink" /\ f \in children[x]
                                     \/ pc[x] = "remove" /\ Content(f) # Nobody
    /\ section' = x /\ pc'[x] = "remove" =>
          /\ section = x
          /\ pc[x] = "remove" \/ (pc[x] = "reread stamp" /\ (blind' \/ sawOwner[x] # Nobody))

LEMMA StepComes ==
    ASSUME TypeOK, Places, Next, NEW x \in Contender
    PROVE  Comes(x)
<1> USE ContenderAssumption DEF TypeOK, Moves, Comes, Holding, Places
<1>2. ASSUME NEW c \in Contender, Call(c) \/ WorkEnds(c) \/ ReadToken(c) \/ JudgeStale(c)
      PROVE Comes(x)
    BY <1>2 DEF Call, WorkEnds, ReadToken, JudgeStale, lock, observed
<1>3. ASSUME NEW c \in Contender, Publish(c) PROVE Comes(x)
    BY <1>3 DEF Publish, lock, observed
<1>4. ASSUME NEW c \in Contender,
             ObserveOwner(c) \/ ObserveStamp(c) \/ ReadAge(c) \/ Sleep(c)
      PROVE Comes(x)
    BY <1>4 DEF ObserveOwner, ObserveStamp, ReadAge, Sleep, Forgets, lock
<1>5. ASSUME NEW c \in Contender, EnterSection(c) PROVE Comes(x)
    BY <1>5 DEF EnterSection, Reclaim!Enter, observed
<1>6. ASSUME NEW c \in Contender, RereadOwner(c) PROVE Comes(x)
    BY <1>6 DEF RereadOwner, StillIs, LeaveSection, Reclaim!Leave, observed
<1>7. ASSUME NEW c \in Contender, RereadStamp(c) PROVE Comes(x)
    BY <1>7 DEF RereadStamp, LeaveSection, Reclaim!Leave, observed
<1>8. ASSUME NEW c \in Contender, ListFiles(c) PROVE Comes(x)
    <2>1. \A f \in children'[c] : Content(f) # Nobody
        BY <1>8 DEF ListFiles, Content
    <2> QED BY <1>8, <2>1 DEF ListFiles, lock, observed
<1>9. ASSUME NEW c \in Contender, NEW f \in {"owner", "stamp"}, Unlink(c, f) PROVE Comes(x)
    BY <1>9 DEF Unlink, observed
<1>10. ASSUME NEW c \in Contender, RemoveDir(c) PROVE Comes(x)
    BY <1>10 DEF RemoveDir, LeaveSection, Reclaim!Leave, observed
<1>11. ASSUME NEW c \in Contender, Die(c) PROVE Comes(x)
    BY <1>11 DEF Die, Forgets
<1> QED
    BY <1>2, <1>3, <1>4, <1>5, <1>6, <1>7, <1>8, <1>9, <1>10, <1>11 DEF Next, Proceeds

LEMMA BlindStays == TypeOK /\ [Next]_vars /\ blind => blind'
<1> SUFFICES ASSUME TypeOK, [Next]_vars, blind PROVE blind'
    OBVIOUS
<1>1. CASE UNCHANGED vars
    BY <1>1 DEF vars
<1>2. ASSUME NEW c \in Contender,
             \/ Call(c) \/ WorkEnds(c) \/ ReadToken(c) \/ JudgeStale(c) \/ Publish(c)
             \/ ObserveOwner(c) \/ ObserveStamp(c) \/ ReadAge(c) \/ Sleep(c)
             \/ EnterSection(c) \/ RereadOwner(c)
             \/ ListFiles(c) \/ RemoveDir(c) \/ Die(c) \/ \E f \in {"owner", "stamp"} : Unlink(c, f)
      PROVE  blind'
    BY <1>2 DEF Call, WorkEnds, ReadToken, JudgeStale, Publish, ObserveOwner, ObserveStamp,
                ReadAge, Sleep, EnterSection, RereadOwner, ListFiles, RemoveDir, Die, Unlink
<1>3. ASSUME NEW c \in Contender, RereadStamp(c) PROVE blind'
    BY <1>3 DEF RereadStamp
<1> QED
    BY <1>1, <1>2, <1>3 DEF Next, Proceeds

LEMMA StepCare == IInv /\ [Next]_vars => Care'
<1> SUFFICES ASSUME IInv, [Next]_vars, ~blind'
             PROVE  Intact' /\ Rereads' /\ ReleasesOwn' /\ ReclaimsDead'
    BY DEF Care
<1>a. Frame /\ TypeOK /\ Places /\ Judged /\ OneWriter
    BY DEF IInv, Frame
<1>b. Intact /\ Rereads /\ ReleasesOwn /\ ReclaimsDead
    BY <1>a, BlindStays DEF IInv, Care
<1>1. CASE UNCHANGED vars
    BY <1>1, <1>b DEF Intact, Rereads, ReleasesOwn, ReclaimsDead, Content, vars, lock, observed
<1> SUFFICES ASSUME Next PROVE Intact' /\ Rereads' /\ ReleasesOwn' /\ ReclaimsDead'
    BY <1>1
<1>c. \A x \in Contender : Comes(x) /\ Looks(x)
    BY <1>a, StepComes, StepLooks
<1>d. /\ owner # Nobody /\ owner' # owner => Lost("owner", owner)
      /\ stamp # Nobody /\ stamp' # stamp => Lost("stamp", stamp)
    BY <1>a, <1>b, Losses
<1>e. /\ owner \in Someone /\ stamp \in Someone
      /\ \A x \in Contender : children'[x] \subseteq {"owner", "stamp"}
    BY <1>a, StepTypes DEF TypeOK
<1>2. Intact'
    <2> SUFFICES ASSUME NEW x \in Contender, Holding(x)' PROVE owner' = x /\ stamp' = x
        BY DEF Intact, Holding
    <2>1. CASE Holding(x)
        <3>1. owner = x /\ stamp = x
            BY <2>1, <1>b DEF Intact, Holding
        <3> QED
            BY <2>1, <3>1, <1>d, ContenderAssumption DEF Lost, Holding
    <2> QED BY <2>1, <1>c DEF Comes
<1>3. Rereads'
    <2> SUFFICES ASSUME NEW x \in Contender, pc'[x] = "reread stamp", sawOwner'[x] # Nobody
                 PROVE  owner' = sawOwner'[x]
        BY DEF Rereads
    <2>1. owner = sawOwner'[x] /\ sawOwner'[x] = sawOwner[x] /\ pc[x] \in {"reread", "reread stamp"}
        BY <1>b, <1>c DEF Comes, Rereads
    <2>2. section = x /\ pc[owner] = "dead"
        BY <2>1, <1>a DEF Places, Judged
    <2> QED BY <2>1, <2>2, <1>d DEF Lost
<1>4. ReleasesOwn'
    <2> SUFFICES ASSUME NEW x \in Contender, NEW f \in children'[x], pc'[x] = "unlink",
                        section' # x
                 PROVE  (IF f = "owner" THEN owner' ELSE stamp') = x
        BY DEF ReleasesOwn, Content
    <2>1. section # x /\ (pc[x] = "remove" \/ (pc[x] = "unlink" /\ f \in children[x]))
        BY <1>c DEF Comes
    <2>2. Content(f) = x
        BY <2>1, <1>b DEF Intact, ReleasesOwn, Content
    <2>3. CASE f = "owner"
        BY <2>1, <2>2, <2>3, <1>d, ContenderAssumption DEF Content, Lost
    <2>4. CASE f = "stamp"
        BY <2>1, <2>2, <2>4, <1>d, ContenderAssumption DEF Content, Lost
    <2> QED BY <2>3, <2>4, <1>e
<1>5. ReclaimsDead'
    <2>1. ASSUME NEW x \in Contender, section' = x, pc'[x] = "remove"
          PROVE  owner' # Nobody /\ pc'[owner'] = "dead"
        <3>1. section = x /\ pc[x] \in {"remove", "reread stamp"}
            BY <2>1, <1>c DEF Comes
        <3>2. owner # Nobody /\ pc[owner] = "dead"
            <4>1. CASE pc[x] = "remove"
                BY <4>1, <3>1, <1>b DEF ReclaimsDead
            <4>2. CASE pc[x] = "reread stamp"
                BY <4>2, <2>1, <1>a, <1>b, <1>c DEF Comes, Rereads, Judged
            <4> QED BY <3>1, <4>1, <4>2
        <3>3. owner' = owner
            BY <3>1, <3>2, <1>d DEF Lost
        <3> QED BY <3>2, <3>3, <1>c, <1>e DEF Looks, Someone
    <2>2. ASSUME NEW x \in Contender, section' = x, pc'[x] = "unlink", NEW f \in children'[x]
          PROVE  (Content(f) # Nobody /\ pc[Content(f)] = "dead")'
        <3>1. /\ section = x
              /\ \/ pc[x] = "unlink" /\ f \in children[x]
                 \/ pc[x] = "remove" /\ Content(f) # Nobody
            BY <2>2, <1>c DEF Comes
        <3>2. Content(f) # Nobody /\ pc[Content(f)] = "dead"
            <4>1. CASE pc[x] = "unlink"
                BY <4>1, <3>1, <1>b DEF ReclaimsDead
            <4>2. CASE pc[x] = "remove"
                BY <4>2, <3>1, <1>a, <1>b DEF ReclaimsDead, OneWriter, Content
            <4> QED BY <3>1, <4>1, <4>2
        <3>3. Content(f)' = Content(f)
            <4>1. CASE f = "owner"
                BY <4>1, <3>1, <3>2, <2>2, <1>d DEF Content, Lost
            <4>2. CASE f = "stamp"
                BY <4>2, <3>1, <3>2, <2>2, <1>d DEF Content, Lost
            <4> QED BY <4>1, <4>2, <1>e
        <3>4. Content(f) \in Contender
            BY <3>2, <1>e DEF Content, Someone
        <3> QED BY <3>2, <3>3, <3>4, <1>c DEF Looks
    <2> QED BY <2>1, <2>2 DEF ReclaimsDead
<1> QED
    BY <1>2, <1>3, <1>4, <1>5

-----------------------------------------------------------------------------
(* The inductive invariant holds in every state.                           *)
THEOREM Invariance == Spec => []IInv
<1>1. IInv /\ [Next]_vars => IInv'
    BY StepFrame, StepCare DEF IInv
<1> QED
    BY <1>1, InitIInv, PTL DEF Spec

(* Every variable keeps its type.                                          *)
THEOREM Typing == Spec => []TypeOK
<1>1. IInv => TypeOK
    BY DEF IInv, Frame
<1> QED
    BY <1>1, Invariance, PTL

(* At most one call runs its function, unless a lock that showed no owner  *)
(* has been reclaimed (withFileLock).                                      *)
THEOREM Exclusion == Spec => []OneHolderUnlessBlind
<1>1. IInv => OneHolderUnlessBlind
    BY DEF IInv, Care, Intact, OneHolderUnlessBlind, OneHolder
<1> QED
    BY <1>1, Invariance, PTL

(* Until then no step of a release or a reclaim (the two rmSync calls)     *)
(* takes a file out of the lock of a call that runs its function.          *)
THEOREM Sparing == Spec => HolderIsSpared
<1>1. ASSUME IInv, [Next]_vars, ~blind', NEW c \in Contender, pc[c] = "hold", pc'[c] = "hold"
      PROVE  UNCHANGED <<owner, stamp>>
    <2>1. Frame /\ TypeOK /\ Intact /\ ReleasesOwn /\ ReclaimsDead
        BY <1>1, BlindStays DEF IInv, Frame, Care
    <2>2. owner = c /\ stamp = c
        BY <2>1, <1>1 DEF Intact
    <2>3. CASE UNCHANGED vars
        BY <2>3 DEF vars, lock
    <2>4. CASE Next
        BY <2>1, <2>2, <2>4, <1>1, Losses, ContenderAssumption DEF Lost
    <2> QED BY <1>1, <2>3, <2>4
<1>2. IInv /\ [Next]_vars =>
      [~blind' => \A c \in Contender :
          pc[c] = "hold" /\ pc'[c] = "hold" => UNCHANGED <<owner, stamp>>]_vars
    BY <1>1
<1> QED
    BY <1>2, Invariance, PTL DEF Spec, HolderIsSpared

-----------------------------------------------------------------------------
(* Refinement of Section.                                                  *)

LEMMA HolderOne == ASSUME OneHolder, NEW c \in Contender, pc[c] = "hold" PROVE Holder = c
BY DEF OneHolder, Holder

LEMMA HolderNone == (\A c \in Contender : pc[c] # "hold") => Holder = Nobody
BY DEF Holder

LEMMA SameHolder ==
    (\A c \in Contender : pc'[c] = "hold" <=> pc[c] = "hold") => Holder' = Holder
<1> SUFFICES ASSUME \A c \in Contender : pc'[c] = "hold" <=> pc[c] = "hold"
             PROVE Holder' = Holder
    OBVIOUS
<1>1. (CHOOSE c \in Contender : pc'[c] = "hold") = (CHOOSE c \in Contender : pc[c] = "hold")
    OBVIOUS
<1> QED
    BY <1>1 DEF Holder

(* Of the calls that run, a step adds or takes one at most.                *)
LEMMA HoldersChange ==
    ASSUME TypeOK, Places, Next
    PROVE  \/ \A x \in Contender : pc'[x] = "hold" <=> pc[x] = "hold"
           \/ \E c \in Contender :
                /\ (pc[c] = "hold") # (pc'[c] = "hold")
                /\ \A x \in Contender \ {c} : pc'[x] = pc[x]
<1> SUFFICES ASSUME NEW c \in Contender, NEW v, pc' = [pc EXCEPT ![c] = v] \/ pc' = pc
             PROVE  \/ \A x \in Contender : pc'[x] = "hold" <=> pc[x] = "hold"
                    \/ /\ (pc[c] = "hold") # (pc'[c] = "hold")
                       /\ \A x \in Contender \ {c} : pc'[x] = pc[x]
    BY DEF Next, Proceeds, Call, Publish, ObserveOwner, ObserveStamp, ReadAge, JudgeStale, Sleep,
           EnterSection, RereadOwner, RereadStamp, LeaveSection, ListFiles, Unlink, RemoveDir,
           WorkEnds, ReadToken, Die, Moves
<1> QED
    BY DEF TypeOK

(* Until a blind reclaim the lock implements the section: functions run    *)
(* one at a time, and each begins after the one before it has ended or its *)
(* process has died (withFileLock).                                        *)
THEOREM Refinement == Spec => SectionUnlessBlind
<1>1. Init => Held!Init
    BY HolderNone DEF Init, Held!Init
<1>2. ASSUME IInv, IInv', [Next]_vars, ~blind'
      PROVE  Held!Next \/ Holder' = Holder
    <2>1. CASE UNCHANGED vars
        BY <2>1, SameHolder DEF vars
    <2>2. CASE Next
        <3>1. ~blind /\ OneHolder /\ OneHolder' /\ TypeOK /\ Places
            BY <1>2, BlindStays DEF IInv, Frame, Care, Intact, OneHolder
        <3>2. CASE \A x \in Contender : pc'[x] = "hold" <=> pc[x] = "hold"
            BY <3>2, SameHolder
        <3>3. CASE \E c \in Contender :
                     /\ (pc[c] = "hold") # (pc'[c] = "hold")
                     /\ \A x \in Contender \ {c} : pc'[x] = pc[x]
            <4>1. PICK c \in Contender :
                     /\ (pc[c] = "hold") # (pc'[c] = "hold")
                     /\ \A x \in Contender \ {c} : pc'[x] = pc[x]
                BY <3>3
            <4>2. CASE pc[c] = "hold"
                <5>1. Holder = c
                    BY <3>1, <4>2, HolderOne
                <5>2. \A x \in Contender : pc'[x] # "hold"
                    BY <3>1, <4>1, <4>2 DEF OneHolder
                <5>3. Holder' = Nobody
                    BY <5>2 DEF Holder
                <5> QED BY <5>1, <5>3 DEF Held!Next, Held!Leave
            <4>3. CASE pc[c] # "hold"
                <5>1. \A x \in Contender : pc[x] # "hold"
                    BY <3>1, <4>1, <4>3 DEF OneHolder
                <5>2. Holder = Nobody
                    BY <5>1, HolderNone
                <5>3. \A x \in Contender : pc'[x] = "hold" <=> x = c
                    BY <4>1, <4>3, <5>1
                <5>4. Holder' = c
                    BY <5>3 DEF Holder
                <5> QED BY <5>2, <5>4 DEF Held!Next, Held!Enter
            <4> QED BY <4>2, <4>3
        <3> QED BY <2>2, <3>1, <3>2, <3>3, HoldersChange
    <2> QED BY <1>2, <2>1, <2>2
<1>3. IInv /\ IInv' /\ [Next]_vars =>
      [~blind' => Held!Next \/ UNCHANGED Holder]_vars
    BY <1>2
<1> QED
    BY <1>1, <1>3, Invariance, PTL DEF Spec, SectionUnlessBlind
=============================================================================
