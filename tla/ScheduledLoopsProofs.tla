------------------------ MODULE ScheduledLoopsProofs ------------------------
(***************************************************************************)
(* Of ScheduledLoops, for any set of loops, runs and pollers, any clock    *)
(* and any number of failed writes, crashes and restarts: the file is what *)
(* it claims to be, no occurrence is submitted twice, the timers that keep *)
(* the chain of attempts alive are set, and what the operator switched off *)
(* stays off.                                                              *)
(*                                                                         *)
(* The inductive invariant says of every occurrence a poll has claimed,    *)
(* submitted or still waiting at the boundary, that it lies behind the     *)
(* cursor of its loop, in memory and in the file, for as long as the loop  *)
(* keeps the definition it was claimed under.  The rest of it ties an      *)
(* attempt to the state object and the run it was given, and the line at   *)
(* the boundary to the attempts that wait in it.                           *)
(***************************************************************************)
EXTENDS ScheduledLoops, TLAPS

(* Attempts, runs and timers name state objects that exist.                *)
Refers(x) == x.loop \in Loop /\ x.obj \in 1..Len(objs[x.loop])

AttemptsRefer ==
    \A s \in Slot :
        /\ att[s].st # "none" => Refers(att[s])
        /\ att[s].st = "queuing" =>
             /\ att[s].run \in used
             /\ info[att[s].run] = [loop |-> att[s].loop, obj |-> att[s].obj]

RunsRefer ==
    /\ \A r \in Run : info[r].loop # 0 => r \in used /\ Refers(info[r])
    /\ \A r \in deadline \cup abandon : info[r].loop # 0
    /\ turn \in Run => info[turn].loop # 0

InLine ==
    /\ \A i \in 1..Len(line) : line[i] \in Slot => att[line[i]].st = "line"
    /\ \A i, j \in 1..Len(line) : line[i] \in Slot /\ line[i] = line[j] => i = j

PollsWait == \A p \in Poller : att[p].st # "none" => poll[p].pc = "attempt"

LineWaits == InLine /\ PollsWait

(* An outage displaces what the health said before it.                     *)
Displaced == anomaly = "persist_failed" => suppressed # "unset"

(* A claimed occurrence, under the definition it was claimed for, is       *)
(* behind the cursor; the file knows that definition.                      *)
Past(o) ==
    /\ o.loop \in Loop /\ o.hash \in Nat \ {0} /\ o.at \in Nat /\ o.hash <= hash[o.loop]
    /\ o.hash = hash[o.loop] =>
         /\ Stored(o.loop) /\ o.at < cadence[o.loop].at
         /\ disk.body.loops[o.loop].hash = o.hash
    /\ disk.body.loops[o.loop].hash = o.hash => o.at < disk.body.loops[o.loop].at

Pending(p) == att[p].st = "line"

ClaimsPast ==
    /\ \A l \in Loop : hash[l] # 0
    /\ \A o \in sent : Past(o)
    /\ \A p \in Poller : Pending(p) => Past(Occurrence(att[p])) /\ Occurrence(att[p]) \notin sent
    /\ \A p, q \in Poller :
         Pending(p) /\ Pending(q) /\ Occurrence(att[p]) = Occurrence(att[q]) => p = q

IInv ==
    /\ TypeOK /\ AttemptsRefer /\ RunsRefer /\ LineWaits
    /\ Displaced /\ FileNeverSaysPersistFailed /\ FileIsCurrent
    /\ ClaimsPast /\ TimersHold

-----------------------------------------------------------------------------
(* Data.                                                                   *)

LEMMA Products ==
    ASSUME NEW a \in Nat, NEW k \in Nat
    PROVE  /\ k * Interval \in Nat /\ a + k * Interval \in Nat
           /\ a + k * Interval >= a
           /\ k > 0 => k * Interval > 0 /\ a + k * Interval > a
<1>1. k * Interval \in Nat /\ (k > 0 => k * Interval > 0)
    BY LoopAssumption
<1> QED
    BY <1>1

LEMMA Gaps ==
    ASSUME NEW a \in Nat, NEW k \in Nat
    PROVE  {a + i * Interval : i \in 0..(k - 1)} \subseteq Nat
<1>1. \A i \in 0..(k - 1) : i \in Nat
    OBVIOUS
<1> QED
    BY <1>1, Products

LEMMA JitterIsNat == Jitter \subseteq Nat /\ 0 \in Jitter
BY LoopAssumption

-----------------------------------------------------------------------------
(* What a step does to the loops' state.                                   *)

Lengths == \A k \in Loop : Len(objs'[k]) = Len(objs[k])

SameObjects ==
    Lengths /\ \A k \in Loop : \A j \in 1..Len(objs[k]) : objs'[k][j].run = objs[k][j].run

Sets(x, r) ==
    /\ Lengths
    /\ \A k \in Loop : \A j \in 1..Len(objs[k]) :
         objs'[k][j].run = IF k = x.loop /\ j = x.obj THEN r ELSE objs[k][j].run

GoesOn ==
    /\ defs' = defs /\ hash' = hash
    /\ \A l \in Loop : cadence'[l].at >= cadence[l].at

SwitchesKept == \A l \in Loop : cadence'[l].off = cadence[l].off

LEMMA AdvancedCursor ==
    ASSUME StateTyped, NEW l \in Loop, NEW k \in Nat, NEW c \in Advanced(l, k)
    PROVE  /\ c \in Cursor /\ c.due - c.at \in Jitter
           /\ c.at = cadence[l].at + k * Interval /\ c.off = cadence[l].off
           /\ c.at >= cadence[l].at /\ (k > 0 => c.at > cadence[l].at)
<1>1. PICK j \in Jitter :
          c = [cadence[l] EXCEPT !.at = @ + k * Interval, !.due = cadence[l].at + k * Interval + j]
    BY DEF Advanced
<1>2. cadence[l] \in Cursor
    BY DEF StateTyped
<1>3. cadence[l].at \in Nat /\ cadence[l].off \in BOOLEAN
    BY <1>2 DEF Cursor
<1>4. cadence[l].at + k * Interval \in Nat /\ cadence[l].at + k * Interval >= cadence[l].at
      /\ (k > 0 => cadence[l].at + k * Interval > cadence[l].at)
    BY <1>3, Products
<1>5. c = [at |-> cadence[l].at + k * Interval, due |-> cadence[l].at + k * Interval + j,
           off |-> cadence[l].off]
    BY <1>1, <1>2 DEF Cursor
<1> DEFINE a == cadence[l].at + k * Interval
<1>6. a \in Nat /\ a >= cadence[l].at /\ (k > 0 => a > cadence[l].at)
      /\ c = [at |-> a, due |-> a + j, off |-> cadence[l].off]
    BY <1>4, <1>5
<1>7. c.at = a
    BY <1>6
<1> HIDE DEF a
<1>8. c \in Cursor /\ c.due - c.at \in Jitter /\ c.off = cadence[l].off
    BY <1>3, <1>6, JitterIsNat DEF Cursor
<1> QED
    BY <1>6, <1>7, <1>8 DEF a

LEMMA CursorSet ==
    ASSUME StateTyped, NEW l \in Loop, NEW c \in Cursor, c.due - c.at \in Jitter,
           c.at >= cadence[l].at, c.off = cadence[l].off,
           cadence' = [cadence EXCEPT ![l] = c]
    PROVE  /\ cadence' \in [Loop -> Cursor]
           /\ \A k \in Loop : /\ cadence'[k].due - cadence'[k].at \in Jitter
                              /\ cadence'[k].at >= cadence[k].at
                              /\ cadence'[k].off = cadence[k].off
           /\ cadence'[l] = c
BY DEF StateTyped, Cursor

(* Writing one object of one loop.                                         *)
Writes(l, i, x) == objs' = [objs EXCEPT ![l][i] = x]

LEMMA Overwritten ==
    ASSUME StateTyped, NEW l \in Loop, NEW i \in 1..Len(objs[l]), NEW x \in Object,
           Writes(l, i, x)
    PROVE  /\ objs' \in [Loop -> Seq(Object)] /\ Lengths
           /\ \A k \in Loop : \A j \in 1..Len(objs[k]) :
                objs'[k][j] = IF k = l /\ j = i THEN x ELSE objs[k][j]
<1> USE DEF Writes
<1>1. objs \in [Loop -> Seq(Object)] /\ objs[l] \in Seq(Object)
    BY DEF StateTyped
<1>2. [objs[l] EXCEPT ![i] = x] \in Seq(Object) /\ Len([objs[l] EXCEPT ![i] = x]) = Len(objs[l])
    BY <1>1
<1>3. \A k \in Loop : objs'[k] = IF k = l THEN [objs[l] EXCEPT ![i] = x] ELSE objs[k]
    BY <1>1
<1>4. \A j \in 1..Len(objs[l]) : [objs[l] EXCEPT ![i] = x][j] = IF j = i THEN x ELSE objs[l][j]
    BY <1>1
<1>5. objs' \in [Loop -> Seq(Object)]
    BY <1>1, <1>2
<1> QED
    BY <1>2, <1>3, <1>4, <1>5 DEF Lengths

LEMMA ObjectSet ==
    ASSUME StateTyped, NEW l \in Loop, NEW i \in 1..Len(objs[l]), NEW x \in Object,
           Writes(l, i, x)
    PROVE  objs' \in [Loop -> Seq(Object)] /\ Sets([loop |-> l, obj |-> i], x.run)
BY Overwritten DEF Sets

LEMMA RunSet ==
    ASSUME StateTyped, NEW l \in Loop, NEW i \in 1..Len(objs[l]), NEW r \in Run \cup {NoRun},
           objs' = [objs EXCEPT ![l][i].run = r]
    PROVE  objs' \in [Loop -> Seq(Object)] /\ Sets([loop |-> l, obj |-> i], r)
<1> DEFINE x == [objs[l][i] EXCEPT !.run = r]
<1>1. objs[l][i] \in Object
    BY DEF StateTyped
<1>2. x \in Object /\ x.run = r
    BY <1>1 DEF Object
<1>3. Writes(l, i, x)
    BY DEF Writes
<1> HIDE DEF x
<1> QED
    BY <1>2, <1>3, ObjectSet

LEMMA GapAdded ==
    ASSUME StateTyped, NEW l \in Loop, NEW gap \in SUBSET Nat,
           objs' = [objs EXCEPT ![l][InUse(l)].gap = @ \cup gap]
    PROVE  objs' \in [Loop -> Seq(Object)] /\ SameObjects
<1>a. objs[l] \in Seq(Object) /\ objs[l] # <<>>
    BY DEF StateTyped
<1>b. Len(objs[l]) \in 1..Len(objs[l])
    BY <1>a
<1>0. PICK i \in 1..Len(objs[l]) : i = InUse(l)
    BY <1>b DEF InUse
<1> DEFINE x == [objs[l][i] EXCEPT !.gap = @ \cup gap]
<1>1. objs[l][i] \in Object
    BY DEF StateTyped
<1>2. x \in Object /\ x.run = objs[l][i].run
    BY <1>1 DEF Object
<1>3. Writes(l, i, x)
    BY <1>0 DEF Writes
<1> HIDE DEF x
<1>4. objs' \in [Loop -> Seq(Object)] /\ Sets([loop |-> l, obj |-> i], x.run)
    BY <1>2, <1>3, ObjectSet
<1> QED
    BY <1>2, <1>4 DEF SameObjects, Sets

LEMMA NonEmpty ==
    ASSUME StateTyped, objs' \in [Loop -> Seq(Object)], Lengths
    PROVE  \A k \in Loop : objs'[k] # <<>>
BY DEF StateTyped, Lengths

LEMMA StateKept ==
    ASSUME StateTyped, UNCHANGED <<defs, hash, cadence, objs>>, wall' \in Nat, now' \in Nat
    PROVE  StateTyped' /\ GoesOn /\ SwitchesKept /\ SameObjects
BY DEF StateTyped, GoesOn, SwitchesKept, SameObjects, Lengths, Cursor

LEMMA ObjectsWritten ==
    ASSUME StateTyped, UNCHANGED <<defs, hash, cadence, wall, now>>,
           objs' \in [Loop -> Seq(Object)], Lengths
    PROVE  StateTyped' /\ GoesOn /\ SwitchesKept
BY NonEmpty DEF StateTyped, GoesOn, SwitchesKept, Cursor

Gap(l, k) == {cadence[l].at + i * Interval : i \in 0..(k - 1)}

AddsGap(l, k) == objs' = [objs EXCEPT ![l][InUse(l)].gap = @ \cup Gap(l, k)]

LEMMA SkipsSome ==
    ASSUME NEW l, NEW t \in Nat, SkipMissed(l, t)
    PROVE  \E k \in Nat : \E c \in Advanced(l, k) :
             cadence' = [cadence EXCEPT ![l] = c] /\ AddsGap(l, k)
<1>1. PICK k \in 1..(t + 1) : \E c \in Advanced(l, k) :
        /\ cadence' = [cadence EXCEPT ![l] = c]
        /\ objs' = [objs EXCEPT ![l][InUse(l)].gap =
                        @ \cup {cadence[l].at + i * Interval : i \in 0..(k - 1)}]
    BY Zenon DEF SkipMissed
<1>2. \E c \in Advanced(l, k) : cadence' = [cadence EXCEPT ![l] = c] /\ AddsGap(l, k)
    BY <1>1, Zenon DEF AddsGap, Gap
<1>3. k \in Nat
    OBVIOUS
<1> QED
    BY <1>2, <1>3

LEMMA PollState ==
    ASSUME TypeOK, NEW p \in Poller,
           PollStarts(p) \/ PollLoop(p) \/ PollThrows(p) \/ PollEnds(p)
    PROVE  StateTyped' /\ GoesOn /\ SwitchesKept /\ SameObjects
<1>0. wall \in Nat /\ now \in Nat /\ poll[p].now \in Nat /\ StateTyped
    BY DEF TypeOK, StateTyped, ManagerTyped
<1>1. CASE PollStarts(p)
    BY <1>0, <1>1, StateKept DEF PollStarts, Paused, stateVars
<1>2. CASE PollThrows(p)
    BY <1>0, <1>2, StateKept DEF PollThrows, stateVars
<1>3. CASE PollEnds(p)
    BY <1>0, <1>3, StateKept DEF PollEnds
<1>4. CASE PollLoop(p)
    <2>1. PICK l \in Loop :
             \/ SkipMissed(l, poll[p].now)
             \/ (\E c \in Advanced(l, 1) : cadence' = [cadence EXCEPT ![l] = c]) /\ UNCHANGED objs
        BY <1>4 DEF PollLoop
    <2>2. UNCHANGED <<defs, hash, wall, now>>
        BY <1>4 DEF PollLoop
    <2>a. PICK k \in Nat : \E c \in Advanced(l, k) :
             cadence' = [cadence EXCEPT ![l] = c] /\ (AddsGap(l, k) \/ UNCHANGED objs)
        BY <1>0, <2>1, SkipsSome
    <2>3. PICK c \in Advanced(l, k) :
             cadence' = [cadence EXCEPT ![l] = c] /\ (AddsGap(l, k) \/ UNCHANGED objs)
        BY <2>a
    <2>4. /\ c \in Cursor /\ c.due - c.at \in Jitter
          /\ c.at >= cadence[l].at /\ c.off = cadence[l].off
        BY <1>0, AdvancedCursor
    <2>5. /\ cadence' \in [Loop -> Cursor]
          /\ \A i \in Loop : /\ cadence'[i].due - cadence'[i].at \in Jitter
                             /\ cadence'[i].at >= cadence[i].at
                             /\ cadence'[i].off = cadence[i].off
        BY <1>0, <2>1, <2>3, <2>4, CursorSet
    <2>6. Gap(l, k) \in SUBSET Nat
        <3>1. cadence[l].at \in Nat
            BY <1>0, <2>1 DEF StateTyped, Cursor
        <3> QED
            BY <2>a, <3>1, Gaps, Zenon DEF Gap
    <2>7. objs' \in [Loop -> Seq(Object)] /\ SameObjects
        <3>1. CASE AddsGap(l, k)
            BY <1>0, <2>1, <2>6, <3>1, GapAdded DEF AddsGap
        <3>2. CASE UNCHANGED objs
            BY <1>0, <3>2 DEF StateTyped, SameObjects, Lengths
        <3> QED
            BY <2>3, <3>1, <3>2
    <2>8. \A i \in Loop : objs'[i] # <<>>
        BY <1>0, <2>7, NonEmpty DEF SameObjects
    <2> QED
        BY <1>0, <2>2, <2>5, <2>7, <2>8 DEF StateTyped, GoesOn, SwitchesKept
<1> QED
    BY <1>1, <1>2, <1>3, <1>4

(* A write to the slot of one state object.                                *)
LEMMA SlotState ==
    ASSUME TypeOK, NEW x, Refers(x), NEW r \in Run \cup {NoRun},
           \/ objs' = [objs EXCEPT ![x.loop][x.obj].run = r]
           \/ objs' = [objs EXCEPT ![x.loop][x.obj] = [run |-> r, gap |-> {}]],
           UNCHANGED <<defs, hash, cadence, wall, now>>
    PROVE  StateTyped' /\ GoesOn /\ SwitchesKept /\ Sets(x, r)
<1>0. StateTyped
    BY DEF TypeOK
<1>a. PICK l \in Loop : l = x.loop
    BY DEF Refers
<1>1. PICK i \in 1..Len(objs[l]) : l = x.loop /\ i = x.obj
    BY <1>a DEF Refers
<1>2. CASE objs' = [objs EXCEPT ![x.loop][x.obj].run = r]
    <2>1. objs' \in [Loop -> Seq(Object)] /\ Sets([loop |-> l, obj |-> i], r)
        BY <1>0, <1>1, <1>2, RunSet
    <2>2. Sets(x, r) /\ Lengths
        BY <1>1, <2>1 DEF Sets
    <2> QED
        BY <1>0, <2>1, <2>2, ObjectsWritten
<1>3. CASE objs' = [objs EXCEPT ![x.loop][x.obj] = [run |-> r, gap |-> {}]]
    <2> DEFINE o == [run |-> r, gap |-> {}]
    <2>1. o \in Object /\ o.run = r
        BY DEF Object
    <2>2. Writes(l, i, o)
        BY <1>1, <1>3 DEF Writes
    <2> HIDE DEF o
    <2>3. objs' \in [Loop -> Seq(Object)] /\ Sets([loop |-> l, obj |-> i], r)
        BY <1>0, <2>1, <2>2, ObjectSet
    <2>4. Sets(x, r) /\ Lengths
        BY <1>1, <2>3 DEF Sets
    <2> QED
        BY <1>0, <2>3, <2>4, ObjectsWritten
<1> QED
    BY <1>2, <1>3

LEMMA UnavailableState ==
    ASSUME TypeOK, AttemptsRefer, NEW s \in Slot, att[s].st # "none",
           UNCHANGED <<defs, hash, now>>, Unavailable(s)
    PROVE  StateTyped' /\ GoesOn /\ SwitchesKept /\ Sets(att[s], NoRun) /\ Resumes(s)
<1>1. Refers(att[s])
    BY DEF AttemptsRefer
<1>2. objs' = [objs EXCEPT ![att[s].loop][att[s].obj].run = NoRun]
      /\ UNCHANGED <<cadence, wall>> /\ Resumes(s)
    BY DEF Unavailable
<1> QED
    BY <1>1, <1>2, SlotState

LEMMA HeadWaits ==
    ASSUME BoundaryTyped, LineWaits, NEW s \in Slot, line # <<>>, Head(line) = s
    PROVE  att[s].st = "line"
<1>1. line \in Seq(Slot \cup Outsider) /\ 1 \in 1..Len(line) /\ Head(line) = line[1]
    BY DEF BoundaryTyped
<1> QED
    BY <1>1 DEF LineWaits, InLine

(* The boundary is given to the attempt, or the attempt goes back empty-   *)
(* handed.                                                                 *)
Refused(s) ==
    Resumes(s) /\ (Sets(att[s], NoRun) \/ SameObjects) /\ UNCHANGED <<holder, used, info, sent>>

Granted(s) ==
    \E r \in Run \ used :
        /\ att' = [att EXCEPT ![s].st = "queuing", ![s].run = r] /\ UNCHANGED poll
        /\ used' = used \cup {r} /\ holder' = s
        /\ info' = [info EXCEPT ![r] = [loop |-> att[s].loop, obj |-> att[s].obj]]
        /\ Sets(att[s], r)
        /\ sent' = IF s \in Poller THEN sent \cup {Occurrence(att[s])} ELSE sent

LEMMA GrantState ==
    ASSUME TypeOK, AttemptsRefer, LineWaits, NEW s \in Slot, Grant(s)
    PROVE  /\ StateTyped' /\ GoesOn /\ SwitchesKept
           /\ att[s].st = "line" /\ (Refused(s) \/ Granted(s))
<1>1. att[s].st = "line"
    BY HeadWaits DEF Grant, TypeOK
<1>2. UNCHANGED <<defs, hash, now>> /\ StateTyped /\ att[s].st # "none"
    BY <1>1 DEF Grant, TypeOK
<1>3. CASE Unavailable(s) /\ UNCHANGED <<holder, used, info, sent>>
    BY <1>1, <1>2, <1>3, UnavailableState DEF Refused
<1>4. CASE /\ Resumes(s) /\ UNCHANGED stateVars
           /\ UNCHANGED <<holder, used, info, sent>>
    <2>1. StateTyped' /\ GoesOn /\ SwitchesKept /\ SameObjects
        BY <1>2, <1>4, StateKept DEF StateTyped, stateVars
    <2> QED
        BY <1>1, <1>4, <2>1 DEF Refused
<1>5. CASE /\ \E r \in Run \ used :
                   /\ att' = [att EXCEPT ![s].st = "queuing", ![s].run = r]
                   /\ used' = used \cup {r}
                   /\ info' = [info EXCEPT ![r] = [loop |-> att[s].loop, obj |-> att[s].obj]]
                   /\ objs' = [objs EXCEPT ![att[s].loop][att[s].obj] = [run |-> r, gap |-> {}]]
           /\ UNCHANGED <<cadence, wall, poll>> /\ holder' = s
           /\ sent' = IF s \in Poller THEN sent \cup {Occurrence(att[s])} ELSE sent
    <2>1. PICK r \in Run \ used :
                   /\ att' = [att EXCEPT ![s].st = "queuing", ![s].run = r]
                   /\ used' = used \cup {r}
                   /\ info' = [info EXCEPT ![r] = [loop |-> att[s].loop, obj |-> att[s].obj]]
                   /\ objs' = [objs EXCEPT ![att[s].loop][att[s].obj] = [run |-> r, gap |-> {}]]
        BY <1>5
    <2>2. Refers(att[s])
        BY <1>2 DEF AttemptsRefer
    <2>3. StateTyped' /\ GoesOn /\ SwitchesKept /\ Sets(att[s], r)
        BY <1>2, <1>5, <2>1, <2>2, SlotState
    <2>4. Granted(s)
        BY <1>5, <2>1, <2>3, Zenon DEF Granted
    <2> QED
        BY <1>1, <2>3, <2>4
<1> QED
    BY <1>3, <1>4, <1>5 DEF Grant

(* The prompt is under way, with its timeout, or was turned away.          *)
LEMMA AnsweredState ==
    ASSUME TypeOK, AttemptsRefer, NEW s \in Slot, Answered(s)
    PROVE  /\ StateTyped' /\ GoesOn /\ SwitchesKept /\ Resumes(s) /\ att[s].st = "queuing"
           /\ \/ SameObjects /\ turn' = att[s].run /\ deadline' = deadline \cup {att[s].run}
              \/ Sets(att[s], NoRun) /\ UNCHANGED <<turn, deadline>>
<1>1. UNCHANGED <<defs, hash, now>> /\ StateTyped /\ att[s].st = "queuing"
    BY DEF Answered, TypeOK
<1>2. CASE Unavailable(s) /\ UNCHANGED <<turn, deadline>>
    BY <1>1, <1>2, UnavailableState
<1>3. CASE /\ turn' = att[s].run /\ Resumes(s) /\ deadline' = deadline \cup {att[s].run}
           /\ UNCHANGED stateVars
    BY <1>1, <1>3, StateKept DEF stateVars, StateTyped
<1> QED
    BY <1>2, <1>3 DEF Answered

(* The slot of a run that its object still names is emptied.               *)
LEMMA RunState ==
    ASSUME TypeOK, RunsRefer, NEW r \in Run, info[r].loop # 0,
           UNCHANGED <<defs, hash, cadence, wall, now>>,
           \/ objs' = [objs EXCEPT ![info[r].loop][info[r].obj].run = NoRun]
           \/ UNCHANGED objs
    PROVE  /\ StateTyped' /\ GoesOn /\ SwitchesKept
           /\ objs' = [objs EXCEPT ![info[r].loop][info[r].obj].run = NoRun] => Sets(info[r], NoRun)
           /\ UNCHANGED objs => SameObjects
<1>1. Refers(info[r]) /\ StateTyped
    BY DEF RunsRefer, TypeOK
<1>2. ASSUME UNCHANGED objs
      PROVE  StateTyped' /\ GoesOn /\ SwitchesKept /\ SameObjects
    BY <1>1, <1>2, StateKept DEF StateTyped
<1>3. ASSUME objs' = [objs EXCEPT ![info[r].loop][info[r].obj].run = NoRun]
      PROVE  StateTyped' /\ GoesOn /\ SwitchesKept /\ Sets(info[r], NoRun)
    BY <1>1, <1>3, SlotState
<1> QED
    BY <1>2, <1>3

LEMMA TurnEndsState ==
    ASSUME TypeOK, RunsRefer, TurnEnds
    PROVE  /\ StateTyped' /\ GoesOn /\ SwitchesKept
           /\ turn \in Run /\ Owned(turn) => Sets(info[turn], NoRun)
           /\ ~(turn \in Run /\ Owned(turn)) => SameObjects
<1>0. StateTyped /\ UNCHANGED <<defs, hash, now>> /\ wall \in Nat /\ now \in Nat
    BY DEF TypeOK, StateTyped, TurnEnds
<1>1. CASE turn \in Run
    <2>1. UNCHANGED <<cadence, wall>> /\ info[turn].loop # 0
        BY <1>1 DEF TurnEnds, Finish, RunsRefer
    <2>2. /\ Owned(turn) => objs' = [objs EXCEPT ![info[turn].loop][info[turn].obj].run = NoRun]
          /\ ~Owned(turn) => UNCHANGED objs
        BY <1>1 DEF TurnEnds, Finish
    <2> QED
        BY <1>0, <1>1, <2>1, <2>2, RunState
<1>2. CASE turn \notin Run
    BY <1>0, <1>2, StateKept DEF TurnEnds, stateVars
<1> QED
    BY <1>1, <1>2

Abandons(r) == Owned(r) /\ phase = "started"

LEMMA AbandonState ==
    ASSUME TypeOK, RunsRefer, NEW r \in Run, Abandon(r)
    PROVE  /\ StateTyped' /\ GoesOn /\ SwitchesKept
           /\ Abandons(r) => Sets(info[r], NoRun) /\ RetireStalled
           /\ ~Abandons(r) => SameObjects /\ UNCHANGED <<line, holder, att>>
<1>0. UNCHANGED <<defs, hash, now, cadence, wall>> /\ info[r].loop # 0
    BY DEF RunsRefer, Abandon, stateVars
<1>2. /\ Abandons(r) => /\ objs' = [objs EXCEPT ![info[r].loop][info[r].obj].run = NoRun]
                        /\ RetireStalled
      /\ ~Abandons(r) => UNCHANGED <<objs, line, holder, att>>
    BY DEF Abandon, stateVars, Abandons
<1> QED
    BY <1>0, <1>2, RunState

(* A switch moves no cursor.                                               *)
LEMMA SwitchState ==
    ASSUME TypeOK, NEW l \in Loop, NEW off \in BOOLEAN, Switch(l, off)
    PROVE  StateTyped' /\ GoesOn /\ SameObjects
<1>1. StateTyped /\ UNCHANGED <<defs, hash, objs, wall, now>>
      /\ cadence' = [cadence EXCEPT ![l].off = off]
    BY DEF TypeOK, Switch
<1>2. /\ cadence' \in [Loop -> Cursor]
      /\ \A k \in Loop : cadence'[k].at = cadence[k].at /\ cadence'[k].due = cadence[k].due
    BY <1>1 DEF StateTyped, Cursor
<1>3. \A k \in Loop : cadence[k].at \in Nat
    BY <1>1 DEF StateTyped, Cursor
<1> QED
    BY <1>1, <1>2, <1>3 DEF StateTyped, GoesOn, SameObjects, Lengths

LEMMA ReloadState ==
    ASSUME TypeOK, NEW new \in NewConfig, NEW changed \in SUBSET Loop, Reload(new, changed)
    PROVE  /\ StateTyped'
           /\ \A l \in Loop :
                /\ hash'[l] >= hash[l]
                /\ hash'[l] = hash[l] => defs'[l] = defs[l] /\ cadence'[l] = cadence[l]
                /\ Stored(l) => cadence'[l].off = cadence[l].off
           /\ \A l \in Loop : /\ Len(objs'[l]) = Len(objs[l]) + 1
                              /\ \A i \in 1..Len(objs[l]) : objs'[l][i] = objs[l][i]
<1>0. StateTyped
    BY DEF TypeOK
<1>1. PICK jitter \in [changed -> Jitter] :
         cadence' = [l \in Loop |->
            IF l \in changed
            THEN [at |-> now + Delay, due |-> now + Delay + jitter[l],
                  off |-> Stored(l) /\ cadence[l].off]
            ELSE cadence[l]]
    BY DEF Reload
<1>2. /\ new \in [Loop -> {"absent", "disabled", "enabled"}] /\ defs' = new
      /\ hash' = [l \in Loop |-> IF l \in changed THEN hash[l] + 1 ELSE hash[l]]
      /\ \A l \in Loop : defs[l] # new[l] => l \in changed
    BY LoopAssumption DEF Reload
<1>3. \A l \in changed : jitter[l] \in Nat /\ jitter[l] \in Jitter
    BY <1>1, JitterIsNat
<1>4. now + Delay \in Nat /\ \A l \in Loop : cadence[l] \in Cursor /\ cadence[l].off \in BOOLEAN
    BY <1>0, LoopAssumption DEF StateTyped, Cursor
<1>5. /\ cadence' \in [Loop -> Cursor]
      /\ \A l \in Loop : cadence'[l].due - cadence'[l].at \in Jitter
    <2>1. ASSUME NEW l \in changed
          PROVE  /\ [at |-> now + Delay, due |-> now + Delay + jitter[l],
                     off |-> Stored(l) /\ cadence[l].off] \in Cursor
                 /\ (now + Delay + jitter[l]) - (now + Delay) \in Jitter
        BY <1>3, <1>4 DEF Cursor
    <2> QED
        BY <1>0, <1>1, <1>4, <2>1 DEF StateTyped
<1>6. ASSUME NEW l \in Loop, Stored(l)
      PROVE  cadence'[l].off = cadence[l].off
    <2>1. CASE l \in changed
        <3>1. cadence'[l].off = (Stored(l) /\ cadence[l].off)
            BY <1>1, <2>1
        <3>2. cadence[l].off = TRUE \/ cadence[l].off = FALSE
            BY <1>4
        <3> QED
            BY <1>6, <3>1, <3>2
    <2>2. CASE l \notin changed
        BY <1>1, <2>2
    <2> QED
        BY <2>1, <2>2
<1> DEFINE o(l) == IF Stored(l) THEN objs[l][InUse(l)] ELSE [run |-> NoRun, gap |-> {}]
<1>7. objs' = [l \in Loop |-> Append(objs[l], o(l))]
    BY DEF Reload
<1>8. ASSUME NEW l \in Loop PROVE o(l) \in Object /\ objs[l] \in Seq(Object)
    <2>1. objs[l] \in Seq(Object) /\ objs[l] # <<>>
        BY <1>0 DEF StateTyped
    <2>2. objs[l][Len(objs[l])] \in Object
        BY <2>1
    <2>3. [run |-> NoRun, gap |-> {}] \in Object
        BY DEF Object
    <2> QED
        BY <2>1, <2>2, <2>3 DEF InUse
<1> HIDE DEF o
<1>9. ASSUME NEW l \in Loop
      PROVE  /\ objs'[l] \in Seq(Object) /\ objs'[l] # <<>>
             /\ Len(objs'[l]) = Len(objs[l]) + 1
             /\ \A i \in 1..Len(objs[l]) : objs'[l][i] = objs[l][i]
    <2>1. objs'[l] = Append(objs[l], o(l)) /\ o(l) \in Object /\ objs[l] \in Seq(Object)
        BY <1>7, <1>8
    <2> QED
        BY <2>1
<1>10. objs' \in [Loop -> Seq(Object)] /\ wall' = now /\ now' = now
    BY <1>7, <1>9 DEF Reload
<1>11. \A l \in Loop : hash'[l] \in Nat /\ hash'[l] >= hash[l]
                       /\ (hash'[l] = hash[l] => l \notin changed)
    BY <1>0, <1>2 DEF StateTyped
<1>12. \A l \in Loop : l \notin changed => defs'[l] = defs[l] /\ cadence'[l] = cadence[l]
    BY <1>1, <1>2
<1>13. StateTyped'
    BY <1>0, <1>2, <1>5, <1>9, <1>10, <1>11 DEF StateTyped
<1> QED
    BY <1>6, <1>9, <1>11, <1>12, <1>13

(* A new process starts from the file.                                     *)
LEMMA RestartState ==
    ASSUME TypeOK, NEW spent, Restart(spent)
    PROVE  /\ StateTyped' /\ UNCHANGED <<defs, hash, now>>
           /\ \A l \in Loop :
                /\ Restored(l) => cadence'[l].at >= disk.body.loops[l].at
                /\ StoredOff(l) => cadence'[l].off
                /\ Len(objs'[l]) = 1 /\ objs'[l][1].run = NoRun
<1> DEFINE file(l) == disk.body.loops[l]
           late(l) == Restored(l) /\ defs[l] = "enabled" /\ ~StoredOff(l)
                      /\ now >= file(l).due + Interval
           gap(l, k) == IF late(l) THEN {file(l).at + i * Interval : i \in 0..(k - 1)} ELSE {}
           moved(l, k, j) ==
             IF late(l)
             THEN [at |-> file(l).at + k * Interval,
                   due |-> file(l).at + k * Interval + j, off |-> FALSE]
             ELSE IF Restored(l)
             THEN [at |-> file(l).at, due |-> file(l).due, off |-> StoredOff(l)]
             ELSE [at |-> now + Delay, due |-> now + Delay + j, off |-> StoredOff(l)]
<1>0. StateTyped /\ FileTyped
    BY DEF TypeOK
<1>1. PICK k \in [Loop -> 0..(now + 1)], jitter \in [Loop -> Jitter] :
        /\ cadence' = [l \in Loop |-> moved(l, k[l], jitter[l])]
        /\ objs' = [l \in Loop |-> <<[run |-> NoRun, gap |-> file(l).gap \cup gap(l, k[l])]>>]
    BY Zenon DEF Restart
<1>2. wall' = now /\ UNCHANGED <<defs, hash, now>>
    BY DEF Restart
<1>3. ASSUME NEW l \in Loop
      PROVE  /\ file(l).at \in Nat /\ file(l).due \in Nat /\ file(l).due - file(l).at \in Jitter
             /\ file(l).off \in BOOLEAN /\ file(l).gap \in SUBSET Nat
    <2>1. file(l) \in Entry
        BY <1>0 DEF FileTyped
    <2> QED
        BY <1>0, <2>1 DEF FileTyped, Entry
<1>4. now \in Nat /\ now + Delay \in Nat
    BY <1>0, LoopAssumption DEF StateTyped
<1>5. ASSUME NEW l \in Loop
      PROVE  /\ cadence'[l] \in Cursor /\ cadence'[l].due - cadence'[l].at \in Jitter
             /\ Restored(l) => cadence'[l].at >= file(l).at
             /\ StoredOff(l) => cadence'[l].off
    <2> DEFINE m == file(l).at + k[l] * Interval
    <2>1. k[l] \in Nat /\ jitter[l] \in Jitter /\ jitter[l] \in Nat
        <3>1. k[l] \in Nat
            BY <1>1, <1>4
        <3>2. jitter[l] \in Jitter
            BY <1>1
        <3> QED
            BY <3>1, <3>2, JitterIsNat
    <2>2. m \in Nat /\ m >= file(l).at
        BY <1>3, <2>1, Products
    <2>3. CASE late(l)
        <3>1. cadence'[l] = [at |-> m, due |-> m + jitter[l], off |-> FALSE]
            BY <1>1, <2>3, Zenon
        <3>2. ~StoredOff(l)
            BY <2>3
        <3> HIDE DEF m, file, late
        <3> QED
            BY <2>1, <2>2, <3>1, <3>2 DEF Cursor
    <2>4. CASE ~late(l) /\ Restored(l)
        <3>1. cadence'[l] = [at |-> file(l).at, due |-> file(l).due, off |-> StoredOff(l)]
            BY <1>1, <2>4, Zenon
        <3>2. StoredOff(l) = file(l).off
            BY DEF StoredOff
        <3> HIDE DEF m, file, late
        <3> QED
            BY <1>3, <3>1, <3>2 DEF Cursor
    <2>5. CASE ~late(l) /\ ~Restored(l)
        <3>1. cadence'[l] = [at |-> now + Delay, due |-> now + Delay + jitter[l],
                             off |-> StoredOff(l)]
            BY <1>1, <2>5, Zenon
        <3>2. StoredOff(l) = file(l).off
            BY DEF StoredOff
        <3> HIDE DEF m, file, late
        <3> QED
            BY <1>3, <1>4, <2>1, <2>5, <3>1, <3>2 DEF Cursor
    <2> QED
        BY <2>3, <2>4, <2>5
<1>6. ASSUME NEW l \in Loop
      PROVE  objs'[l] \in Seq(Object) /\ Len(objs'[l]) = 1 /\ objs'[l][1].run = NoRun
    <2> DEFINE g == file(l).gap \cup gap(l, k[l])
    <2>1. k[l] \in Nat
        BY <1>1, <1>4
    <2>2. gap(l, k[l]) \subseteq Nat
        BY <1>3, <2>1, Gaps, Zenon
    <2>3. objs'[l] = <<[run |-> NoRun, gap |-> g]>>
        BY <1>1
    <2>4. g \in SUBSET Nat
        BY <1>3, <2>2
    <2> HIDE DEF g
    <2>5. [run |-> NoRun, gap |-> g] \in Object
        BY <2>4 DEF Object
    <2> QED
        BY <2>3, <2>5
<1>7. cadence' \in [Loop -> Cursor] /\ objs' \in [Loop -> Seq(Object)]
      /\ \A l \in Loop : objs'[l] # <<>>
    <2>1. cadence' = [l \in Loop |-> cadence'[l]] /\ objs' = [l \in Loop |-> objs'[l]]
        BY <1>1
    <2> QED
        BY <1>5, <1>6, <2>1
<1> QED
    BY <1>0, <1>2, <1>5, <1>6, <1>7 DEF StateTyped

LEMMA NextState ==
    ASSUME TypeOK, AttemptsRefer, RunsRefer, LineWaits, Next
    PROVE  StateTyped'
<1>0. StateTyped /\ wall \in Nat /\ now \in Nat /\ now + 1 \in Nat
    BY DEF TypeOK, StateTyped
<1>1. CASE Polls
    BY <1>1, PollState DEF Polls
<1>2. CASE Attempts
    <2>1. PICK s \in Slot : Grant(s) \/ Answered(s) \/ RetiredReturns(s)
        BY <1>2 DEF Attempts
    <2>2. CASE RetiredReturns(s)
        BY <2>2, UnavailableState DEF RetiredReturns
    <2> QED
        BY <2>1, <2>2, GrantState, AnsweredState
<1>3. CASE Runs
    <2>1. CASE OutsiderHolds \/ OutsiderDone \/ \E r \in Run : Deadline(r)
        BY <1>0, <2>1, StateKept DEF OutsiderHolds, OutsiderDone, Deadline, stateVars
    <2> QED
        BY <1>3, <2>1, TurnEndsState, AbandonState DEF Runs
<1>4. CASE Others
    BY <1>0, <1>4, StateKept DEF Others, OtherAsks, OtherTurn, SessionDies, stateVars
<1>5. CASE Operations
    <2>1. CASE \E l \in Loop : RunNow(l)
        BY <1>0, <2>1, StateKept DEF RunNow, stateVars
    <2> QED
        BY <1>5, <2>1, SwitchState, ReloadState DEF Operations
<1>6. CASE Process
    <2>1. CASE Tick
        BY <1>0, <2>1, StateKept DEF Tick, stateVars
    <2>2. CASE \E t \in 0..MaxTime : ClockBack(t)
        <3>1. now' \in Nat /\ UNCHANGED <<defs, hash, stateVars>>
            BY <2>2, LoopAssumption DEF ClockBack
        <3> QED
            BY <1>0, <3>1, StateKept DEF stateVars
    <2>3. CASE Stop
        BY <1>0, <2>3, StateKept DEF Stop
    <2>4. CASE NextAttempt \/ Crash
        BY <2>4, RestartState DEF NextAttempt, Crash
    <2> QED
        BY <1>6, <2>1, <2>2, <2>3, <2>4 DEF Process
<1> QED
    BY <1>1, <1>2, <1>3, <1>4, <1>5, <1>6 DEF Next

-----------------------------------------------------------------------------
(* The file.                                                               *)

FileKept == UNCHANGED fileVars /\ Body' = Body

Recorded(a, d) ==
    /\ Written(a, d)
    /\ anomaly' = Unmarked(a, d) /\ suppressed' = "unset" /\ failing' = FALSE

Unrecorded(a, d) ==
    /\ Written(a, d) \/ UNCHANGED disk
    /\ anomaly' = "persist_failed" /\ failing' = TRUE
    /\ suppressed' = IF Unmarked(a, d) = "persist_failed" THEN d ELSE Unmarked(a, d)

Reports(a, d) ==
    /\ a \in Anomaly \cup {"persist_failed"} /\ d \in Anomaly \cup {"unset"}
    /\ a = "persist_failed" => d # "unset"

FileWritten == \E a, d : Reports(a, d) /\ (Recorded(a, d) \/ Unrecorded(a, d))

FileStep == FileKept \/ FileWritten

BodyOK ==
    /\ Body \in [loops : [Loop -> Entry], wall : Nat]
    /\ \A l \in Loop : Body.loops[l].due - Body.loops[l].at \in Jitter

LEMMA BodyIsTyped == StateTyped => BodyOK
<1> SUFFICES ASSUME StateTyped
             PROVE  BodyOK
    OBVIOUS
<1> DEFINE entry(l) ==
              IF ~Stored(l) THEN Blank
              ELSE [at |-> cadence[l].at, due |-> cadence[l].due, off |-> cadence[l].off,
                    hash |-> hash[l],
                    run |-> objs[l][InUse(l)].run, gap |-> objs[l][InUse(l)].gap]
<1>1. Body = [loops |-> [l \in Loop |-> entry(l)], wall |-> wall]
    BY DEF Body
<1>2. ASSUME NEW l \in Loop
      PROVE  entry(l) \in Entry /\ entry(l).due - entry(l).at \in Jitter
    <2>1. /\ cadence[l] \in Cursor /\ cadence[l].due - cadence[l].at \in Jitter
          /\ objs[l] \in Seq(Object) /\ objs[l] # <<>> /\ hash[l] \in Nat
        BY DEF StateTyped
    <2>2. objs[l][InUse(l)] \in Object
        BY <2>1 DEF InUse
    <2>3. CASE Stored(l)
        BY <2>1, <2>2, <2>3 DEF Entry, Cursor, Object
    <2>4. CASE ~Stored(l)
        <3>1. Blank \in Entry
            BY DEF Blank, Entry
        <3>2. Blank.due - Blank.at \in Jitter
            BY JitterIsNat DEF Blank
        <3> QED
            BY <2>4, <3>1, <3>2
    <2> QED
        BY <2>3, <2>4
<1>3. wall \in Nat
    BY DEF StateTyped
<1> HIDE DEF entry
<1> QED
    BY <1>1, <1>2, <1>3 DEF BodyOK

LEMMA BodyTyped ==
    ASSUME StateTyped'
    PROVE  /\ Body' \in [loops : [Loop -> Entry], wall : Nat]
           /\ \A l \in Loop : Body'.loops[l].due - Body'.loops[l].at \in Jitter
<1>1. StateTyped' => BodyOK'
    BY BodyIsTyped, PTL
<1> QED
    BY <1>1 DEF BodyOK

LEMMA FilesStep ==
    ASSUME TypeOK, Displaced, FileNeverSaysPersistFailed, FileIsCurrent, StateTyped', FileStep
    PROVE  /\ FileTyped' /\ Displaced' /\ FileNeverSaysPersistFailed' /\ FileIsCurrent'
           /\ disk' = disk \/ disk'.body = Body'
<1>0. FileTyped
    BY DEF TypeOK
<1>1. CASE FileKept
    BY <1>0, <1>1 DEF FileKept, fileVars, FileTyped, Displaced, FileNeverSaysPersistFailed,
                      FileIsCurrent
<1>2. CASE FileWritten
    <2>a. PICK a, d : Reports(a, d) /\ (Recorded(a, d) \/ Unrecorded(a, d))
        BY <1>2 DEF FileWritten
    <2>2. Unmarked(a, d) # "persist_failed" /\ Unmarked(a, d) \in Anomaly
        BY <2>a DEF Reports, Unmarked, Anomaly
    <2> DEFINE written == [body |-> Body', anomaly |-> Unmarked(a, d)]
    <2>3. written \in [body : [loops : [Loop -> Entry], wall : Nat],
                       anomaly : Anomaly \cup {"persist_failed"}]
        BY <2>2, BodyTyped
    <2>4. /\ \A l \in Loop : written.body.loops[l].due - written.body.loops[l].at \in Jitter
          /\ written.body = Body' /\ written.anomaly # "persist_failed"
        BY <2>2, BodyTyped
    <2>5. disk' = written \/ disk' = disk
        BY <2>a DEF Recorded, Unrecorded, Written
    <2>6. ~failing' => disk' = written /\ anomaly' = Unmarked(a, d)
        BY <2>a DEF Recorded, Unrecorded, Written
    <2>7. FileIsCurrent'
        BY <2>6 DEF FileIsCurrent
    <2> HIDE DEF written
    <2>8. disk' = disk \/ disk'.body = Body'
        BY <2>4, <2>5
    <2>9. FileNeverSaysPersistFailed'
        BY <2>4, <2>5 DEF FileNeverSaysPersistFailed
    <2>10. /\ anomaly' \in Anomaly \cup {"persist_failed"} /\ suppressed' \in Anomaly \cup {"unset"}
           /\ failing' \in BOOLEAN /\ Displaced'
        <3>1. CASE Recorded(a, d)
            BY <2>2, <3>1 DEF Recorded, Displaced
        <3>2. CASE Unrecorded(a, d)
            BY <2>2, <3>2 DEF Unrecorded, Displaced, Anomaly
        <3> QED
            BY <2>a, <3>1, <3>2
    <2>11. FileTyped'
        BY <1>0, <2>3, <2>4, <2>5, <2>10 DEF FileTyped
    <2> QED
        BY <2>7, <2>8, <2>9, <2>10, <2>11
<1> QED
    BY <1>1, <1>2 DEF FileStep

LEMMA BodyKept ==
    ASSUME UNCHANGED <<defs, hash, stateVars, fileVars>>
    PROVE  FileKept
BY DEF FileKept, Body, Stored, InUse, stateVars

LEMMA Persisted ==
    ASSUME FileTyped, NEW a \in Anomaly, Persist(a)
    PROVE  FileWritten
<1>1. Reports(a, suppressed)
    BY DEF Reports, FileTyped, Anomaly
<1>2. Recorded(a, suppressed) \/ Unrecorded(a, suppressed)
    BY DEF Persist, Saved, Unsaved, Recorded, Unrecorded
<1> QED
    BY <1>1, <1>2 DEF FileWritten

LEMMA PersistedAgain ==
    ASSUME FileTyped, Displaced, Saved(anomaly, suppressed) \/ Unsaved(anomaly, suppressed)
    PROVE  FileWritten
<1>1. Reports(anomaly, suppressed)
    BY DEF Reports, FileTyped, Displaced
<1>2. Recorded(anomaly, suppressed) \/ Unrecorded(anomaly, suppressed)
    BY DEF Saved, Unsaved, Recorded, Unrecorded
<1> QED
    BY <1>1, <1>2 DEF FileWritten

LEMMA RestartFile ==
    ASSUME FileTyped, FileNeverSaysPersistFailed, NEW spent, Restart(spent)
    PROVE  FileWritten
<1>1. PICK a \in {"abandoned_restart", disk.anomaly} :
        \/ /\ Written(a, "unset") /\ anomaly' = a /\ suppressed' = "unset" /\ failing' = FALSE
        \/ /\ Written(a, "unset") \/ UNCHANGED disk
           /\ anomaly' = "persist_failed" /\ failing' = TRUE
           /\ suppressed' = IF a = "persist_failed" THEN "unset" ELSE a
    <2> DEFINE cond == \E l \in Loop : /\ Stored(l) /\ disk.body.loops[l].hash # 0
                                       /\ disk.body.loops[l].run # NoRun
               b == IF cond THEN "abandoned_restart" ELSE disk.anomaly
    <2>1. \/ /\ Written(b, "unset") /\ anomaly' = b /\ suppressed' = "unset" /\ failing' = FALSE
          \/ /\ Written(b, "unset") \/ UNCHANGED disk
             /\ anomaly' = "persist_failed" /\ failing' = TRUE
             /\ suppressed' = IF b = "persist_failed" THEN "unset" ELSE b
        BY Zenon DEF Restart
    <2>2. b \in {"abandoned_restart", disk.anomaly}
        OBVIOUS
    <2> HIDE DEF b
    <2> QED
        BY <2>1, <2>2
<1>2. a \in Anomaly
    BY <1>1 DEF FileTyped, FileNeverSaysPersistFailed, Anomaly
<1>3. Reports(a, "unset") /\ Unmarked(a, "unset") = a
    BY <1>2 DEF Reports, Anomaly, Unmarked
<1>4. Recorded(a, "unset") \/ Unrecorded(a, "unset")
    BY <1>1, <1>3 DEF Recorded, Unrecorded
<1> QED
    BY <1>3, <1>4 DEF FileWritten

LEMMA NextFile ==
    ASSUME IInv, Next
    PROVE  FileStep
<1>0. FileTyped /\ Displaced /\ FileNeverSaysPersistFailed
    BY DEF IInv, TypeOK
<1>1. CASE Polls
    <2>1. PICK p \in Poller : PollStarts(p) \/ PollLoop(p) \/ PollThrows(p) \/ PollEnds(p)
        BY <1>1 DEF Polls
    <2>2. CASE PollStarts(p)
        <3>1. Persist("clock_regression")
              \/ UNCHANGED <<defs, hash, stateVars, fileVars>>
            BY <2>2 DEF PollStarts, Paused
        <3> QED
            BY <1>0, <3>1, Persisted, BodyKept DEF FileStep, Anomaly
    <2>3. CASE PollLoop(p)
        <3>1. Saved(anomaly, suppressed) \/ Unsaved(anomaly, suppressed)
            BY <2>3 DEF PollLoop, Claimed, Persist
        <3> QED
            BY <1>0, <3>1, PersistedAgain DEF FileStep
    <2>4. CASE PollThrows(p)
        <3>1. Persist("manager_task_failed")
            BY <2>4 DEF PollThrows
        <3> QED
            BY <1>0, <3>1, Persisted DEF FileStep, Anomaly
    <2>5. CASE PollEnds(p)
        <3> DEFINE a == Cleared(anomaly)
                   d == Cleared(suppressed)
        <3>1. Saved(a, d) \/ Unsaved(a, d)
            BY <2>5 DEF PollEnds
        <3>2. Reports(a, d)
            BY <1>0 DEF Cleared, Reports, Displaced, FileTyped, Anomaly
        <3> HIDE DEF a, d
        <3>3. Recorded(a, d) \/ Unrecorded(a, d)
            BY <3>1 DEF Saved, Unsaved, Recorded, Unrecorded
        <3> QED
            BY <3>2, <3>3 DEF FileStep, FileWritten
    <2> QED
        BY <2>1, <2>2, <2>3, <2>4, <2>5
<1>2. CASE Attempts
    <2>1. PICK s \in Slot : Grant(s) \/ Answered(s) \/ RetiredReturns(s)
        BY <1>2 DEF Attempts
    <2>2. Persist(anomaly) \/ UNCHANGED <<defs, hash, stateVars, fileVars>>
        BY <2>1 DEF Grant, Answered, RetiredReturns, Unavailable
    <2> QED
        BY <1>0, <2>2, PersistedAgain, BodyKept DEF FileStep, Persist
<1>3. CASE Runs
    <2>1. CASE OutsiderHolds \/ OutsiderDone \/ \E r \in Run : Deadline(r)
        BY <2>1, BodyKept DEF OutsiderHolds, OutsiderDone, Deadline, FileStep
    <2>2. CASE TurnEnds
        <3>1. Persist(anomaly) \/ UNCHANGED <<defs, hash, stateVars, fileVars>>
            BY <2>2 DEF TurnEnds, Finish, stateVars
        <3> QED
            BY <1>0, <3>1, PersistedAgain, BodyKept DEF FileStep, Persist
    <2>3. CASE \E r \in Run : Abandon(r)
        <3>1. Persist("abandoned_unsettled") \/ UNCHANGED <<defs, hash, stateVars, fileVars>>
            BY <2>3 DEF Abandon
        <3> QED
            BY <1>0, <3>1, Persisted, BodyKept DEF FileStep, Anomaly
    <2> QED
        BY <1>3, <2>1, <2>2, <2>3 DEF Runs
<1>4. CASE Others
    BY <1>4, BodyKept DEF Others, OtherAsks, OtherTurn, SessionDies, FileStep
<1>5. CASE Operations
    <2>1. CASE \E l \in Loop : RunNow(l)
        BY <2>1, BodyKept DEF RunNow, FileStep
    <2>2. CASE Persist(anomaly)
        BY <1>0, <2>2, PersistedAgain DEF FileStep, Persist
    <2> QED
        BY <1>5, <2>1, <2>2 DEF Operations, Switch, Reload
<1>6. CASE Process
    <2>1. CASE Tick \/ \E t \in 0..MaxTime : ClockBack(t)
        BY <2>1, BodyKept DEF Tick, ClockBack, FileStep
    <2>2. CASE Stop
        BY <1>0, <2>2, PersistedAgain DEF FileStep, Persist, Stop
    <2>3. CASE NextAttempt \/ Crash
        BY <1>0, <2>3, RestartFile DEF NextAttempt, Crash, FileStep
    <2> QED
        BY <1>6, <2>1, <2>2, <2>3 DEF Process
<1> QED
    BY <1>1, <1>2, <1>3, <1>4, <1>5, <1>6 DEF Next

-----------------------------------------------------------------------------
(* The manager and the boundary.                                           *)

LEMMA ManagerStep ==
    ASSUME TypeOK, Next
    PROVE  ManagerTyped'
<1>0. ManagerTyped /\ now \in Nat
    BY DEF TypeOK, StateTyped
<1> DEFINE Polling == [pc : {"rest", "looping", "attempt"}, todo : SUBSET Loop, now : Nat]
<1>a. poll \in [Poller -> Polling]
    BY <1>0 DEF ManagerTyped
<1>1. poll' \in [Poller -> Polling]
    <2>1. CASE UNCHANGED poll
        BY <1>a, <2>1
    <2>2. ASSUME NEW p \in Poller, PollStarts(p) \/ PollLoop(p) \/ PollThrows(p) \/ PollEnds(p)
          PROVE  \/ UNCHANGED poll
                 \/ \E q \in Polling : poll' = [poll EXCEPT ![p] = q]
        <3>1. poll[p] \in Polling
            BY <1>a
        <3>2. CASE PollStarts(p)
            <4> DEFINE due == {l \in Loop : Stored(l) /\ Enabled(l) /\ cadence[l].due <= now}
                       q == [pc |-> "looping", now |-> now, todo |-> due]
            <4>1. UNCHANGED poll \/ poll' = [poll EXCEPT ![p] = q]
                BY <3>2 DEF PollStarts
            <4>2. due \in SUBSET Loop
                OBVIOUS
            <4> HIDE DEF due
            <4>3. q \in Polling
                BY <1>0, <4>2
            <4> QED
                BY <4>1, <4>3
        <3>3. CASE PollLoop(p)
            <4>1. PICK l \in Loop : poll' = [poll EXCEPT ![p] = [poll[p] EXCEPT !.todo = @ \ {l}]]
                     \/ poll' = [poll EXCEPT ![p] =
                                    [[poll[p] EXCEPT !.todo = @ \ {l}] EXCEPT !.pc = "attempt"]]
                BY <3>3 DEF PollLoop, Claimed
            <4>2. [poll[p] EXCEPT !.todo = @ \ {l}] \in Polling
                  /\ [[poll[p] EXCEPT !.todo = @ \ {l}] EXCEPT !.pc = "attempt"] \in Polling
                BY <3>1
            <4> QED
                BY <4>1, <4>2
        <3>4. CASE PollThrows(p) \/ PollEnds(p)
            <4>1. poll' = [poll EXCEPT ![p] = Resting] /\ Resting \in Polling
                BY <3>4 DEF PollThrows, PollEnds, Resting
            <4> QED
                BY <4>1
        <3> QED
            BY <2>2, <3>2, <3>3, <3>4
    <2>3. CASE Polls
        BY <1>a, <2>2, <2>3 DEF Polls
    <2>4. CASE Attempts
        <3>1. PICK s \in Slot : Resumes(s) \/ UNCHANGED poll
            BY <2>4 DEF Attempts, Grant, Answered, RetiredReturns, Unavailable
        <3> QED
            BY <1>a, <3>1 DEF Resumes
    <2>5. CASE NextAttempt \/ Crash
        <3>1. poll' = [p \in Poller |-> Resting] /\ Resting \in Polling
            BY <2>5 DEF NextAttempt, Crash, Restart, Resting
        <3> QED
            BY <3>1
    <2>6. CASE Runs \/ Others \/ Operations \/ Tick \/ (\E t \in 0..MaxTime : ClockBack(t)) \/ Stop
        BY <2>1, <2>6 DEF Runs, TurnEnds, OutsiderHolds, OutsiderDone, Deadline, Abandon,
                Others, OtherAsks, OtherTurn, SessionDies, Operations, RunNow, Switch, Reload,
                Tick, ClockBack, Stop
    <2> QED
        BY <2>3, <2>4, <2>5, <2>6 DEF Next, Process
<1>2. pollFailed' \in BOOLEAN /\ phase' \in {"started", "stopping"}
    <2>1. CASE UNCHANGED <<pollFailed, phase>>
        BY <1>0, <2>1 DEF ManagerTyped
    <2>2. CASE Polls \/ NextAttempt \/ Crash \/ Stop
        BY <1>0, <2>2 DEF Polls, PollStarts, PollLoop, PollThrows, PollEnds, NextAttempt, Crash,
                Restart, Stop, ManagerTyped
    <2>3. CASE Attempts \/ Runs \/ Others \/ Operations \/ Tick \/ (\E t \in 0..MaxTime : ClockBack(t))
        BY <2>1, <2>3 DEF Attempts, Grant, Answered, RetiredReturns,
                Runs, TurnEnds, OutsiderHolds, OutsiderDone, Deadline, Abandon,
                Others, OtherAsks, OtherTurn, SessionDies, Operations, RunNow, Switch, Reload, Tick, ClockBack
    <2> QED
        BY <2>2, <2>3 DEF Next, Process
<1>3. armed' \in BOOLEAN
    <2>1. ASSUME Schedule \/ Rearm \/ UNCHANGED armed \/ armed' = FALSE
                 \/ armed' = (failing' \/ \E l \in Loop : Enabled(l)')
          PROVE  armed' \in BOOLEAN
        BY <1>0, <2>1, Zenon DEF ManagerTyped, Schedule, Rearm
    <2>2. CASE Polls
        <3>1. PICK p \in Poller : PollStarts(p) \/ PollLoop(p) \/ PollThrows(p) \/ PollEnds(p)
            BY <2>2 DEF Polls
        <3>2. Schedule \/ Rearm \/ UNCHANGED armed \/ armed' = FALSE
            BY <3>1, Zenon DEF PollStarts, PollLoop, PollThrows, PollEnds, Paused
        <3> QED
            BY <2>1, <3>2
    <2>3. CASE Operations
        <3>1. Schedule \/ UNCHANGED armed
            BY <2>3, Zenon DEF Operations, RunNow, Switch, Reload
        <3> QED
            BY <2>1, <3>1
    <2>4. CASE Process
        <3>1. armed' = (failing' \/ \E l \in Loop : Enabled(l)') \/ UNCHANGED armed \/ armed' = FALSE
            BY <2>4, Zenon DEF Process, Tick, ClockBack, Stop, NextAttempt, Crash, Restart
        <3> QED
            BY <2>1, <3>1
    <2>5. CASE Attempts \/ Runs \/ Others
        BY <2>1, <2>5 DEF Attempts, Grant, Answered, RetiredReturns,
                Runs, TurnEnds, OutsiderHolds, OutsiderDone, Deadline, Abandon,
                Others, OtherAsks, OtherTurn, SessionDies
    <2> QED
        BY <2>2, <2>3, <2>4, <2>5 DEF Next
<1> QED
    BY <1>1, <1>2, <1>3 DEF ManagerTyped

LEMMA LastObject ==
    ASSUME StateTyped, NEW l \in Loop
    PROVE  InUse(l) \in 1..Len(objs[l]) /\ objs[l][InUse(l)] \in Object
<1>1. objs[l] \in Seq(Object) /\ objs[l] # <<>>
    BY DEF StateTyped
<1> QED
    BY <1>1 DEF InUse

(* An attempt joins the line.                                              *)
Waiting(l, at) == [st |-> "line", loop |-> l, hash |-> hash[l], obj |-> InUse(l),
                   at |-> at, gap |-> objs[l][InUse(l)].gap, run |-> NoRun]

Joins(s, l, at) ==
    /\ att' = [att EXCEPT ![s] = Waiting(l, at)] /\ line' = Append(line, s)
    /\ Waiting(l, at) \in Attempt

LEMMA BeginsWaiting ==
    ASSUME StateTyped, NEW s \in Slot, NEW l \in Loop, NEW at \in Nat, Begins(s, l, at)
    PROVE  Joins(s, l, at)
<1>1. /\ objs[l][InUse(l)].gap \in SUBSET Nat /\ InUse(l) \in Nat
      /\ l \in Nat /\ hash[l] \in Nat
    <2>1. objs[l][InUse(l)].gap \in SUBSET Nat
        BY LastObject DEF Object
    <2>2. InUse(l) \in Nat
        BY LastObject DEF InUse
    <2> QED
        BY <2>1, <2>2, LoopAssumption DEF StateTyped
<1>2. Waiting(l, at) \in Attempt
    BY <1>1 DEF Waiting, Attempt
<1> QED
    BY <1>2 DEF Begins, Joins, Waiting

(* What a poll does with the boundary, if anything.                        *)
LEMMA PollBoundary ==
    ASSUME TypeOK, NEW p \in Poller,
           PollStarts(p) \/ PollLoop(p) \/ PollThrows(p) \/ PollEnds(p)
    PROVE  /\ UNCHANGED <<holder, turn, alive, used, info, timers, sent>>
           /\ poll[p].pc # "attempt"
           /\ \/ UNCHANGED <<att, line>>
              \/ /\ PollLoop(p) /\ poll'[p].pc = "attempt"
                 /\ \E l \in Loop : /\ Joins(p, l, cadence[l].at) /\ Stored(l)
                                    /\ cadence'[l].at > cadence[l].at
                                    /\ Recorded(anomaly, suppressed)
           /\ \A q \in Poller : q # p => poll'[q] = poll[q]
<1>0. /\ StateTyped /\ p \in Slot
      /\ poll \in [Poller -> [pc : {"rest", "looping", "attempt"}, todo : SUBSET Loop, now : Nat]]
    BY DEF TypeOK, ManagerTyped, Slot
<1>1. CASE PollStarts(p)
    BY <1>0, <1>1 DEF PollStarts, boundary
<1>2. CASE PollThrows(p) \/ PollEnds(p)
    BY <1>0, <1>2 DEF PollThrows, PollEnds, boundary, Resting
<1>3. CASE PollLoop(p)
    <2>1. poll[p].pc = "looping" /\ UNCHANGED <<holder, turn, alive, used, info, timers, sent>>
        BY <1>3 DEF PollLoop
    <2>2. PICK l \in Loop :
            LET rest == [poll[p] EXCEPT !.todo = @ \ {l}]
            IN  /\ Stored(l)
                /\ \/ poll' = [poll EXCEPT ![p] = rest] /\ UNCHANGED <<att, line>>
                   \/ /\ \E c \in Advanced(l, 1) : cadence' = [cadence EXCEPT ![l] = c]
                      /\ Claimed(p, l, rest)
        BY <1>3 DEF PollLoop
    <2> DEFINE rest == [poll[p] EXCEPT !.todo = @ \ {l}]
    <2>3. rest.pc = "looping" /\ [rest EXCEPT !.pc = "attempt"].pc = "attempt"
        BY <1>0, <2>1
    <2>4. CASE poll' = [poll EXCEPT ![p] = rest] /\ UNCHANGED <<att, line>>
        BY <1>0, <2>1, <2>3, <2>4
    <2>5. CASE /\ \E c \in Advanced(l, 1) : cadence' = [cadence EXCEPT ![l] = c]
               /\ Saved(anomaly, suppressed)
               /\ poll' = [poll EXCEPT ![p] = [rest EXCEPT !.pc = "attempt"]]
               /\ Begins(p, l, cadence[l].at)
        <3>1. cadence[l].at \in Nat
            BY <1>0 DEF StateTyped, Cursor
        <3>2. Joins(p, l, cadence[l].at)
            BY <1>0, <2>5, <3>1, BeginsWaiting
        <3>3. PICK c \in Advanced(l, 1) : cadence' = [cadence EXCEPT ![l] = c]
            BY <2>5
        <3>4. cadence'[l] = c /\ c.at > cadence[l].at
            <4>1. c.at > cadence[l].at
                BY <1>0, <3>3, AdvancedCursor
            <4> QED
                BY <1>0, <3>3, <4>1 DEF StateTyped
        <3>5. Recorded(anomaly, suppressed)
            BY <2>5 DEF Saved, Recorded
        <3>6. poll'[p].pc = "attempt" /\ \A q \in Poller : q # p => poll'[q] = poll[q]
            BY <1>0, <2>3, <2>5
        <3> QED
            BY <1>3, <2>1, <2>2, <3>2, <3>4, <3>5, <3>6
    <2>6. CASE poll' = [poll EXCEPT ![p] = rest] /\ UNCHANGED <<att, line>>
        BY <1>0, <2>1, <2>3, <2>6
    <2> QED
        BY <2>2, <2>4, <2>5, <2>6 DEF Claimed
<1> QED
    BY <1>1, <1>2, <1>3

LEMMA AttemptTypes ==
    ASSUME att \in [Slot -> Attempt], NEW s \in Slot
    PROVE  /\ att[s] \in Attempt /\ NoAttempt \in Attempt
           /\ Resumes(s) => att' \in [Slot -> Attempt]
           /\ Granted(s) => att' \in [Slot -> Attempt]
           /\ \A l \in Loop, at \in Nat : Joins(s, l, at) => att' \in [Slot -> Attempt]
<1>1. NoAttempt \in Attempt
    BY DEF NoAttempt, Attempt
<1>2. ASSUME Resumes(s) PROVE att' \in [Slot -> Attempt]
    BY <1>1, <1>2 DEF Resumes
<1>3. ASSUME Granted(s) PROVE att' \in [Slot -> Attempt]
    <2>1. PICK r \in Run : att' = [att EXCEPT ![s].st = "queuing", ![s].run = r]
        BY <1>3 DEF Granted
    <2>2. [att[s] EXCEPT !.st = "queuing", !.run = r] \in Attempt
        BY DEF Attempt
    <2>3. att' = [att EXCEPT ![s] = [att[s] EXCEPT !.st = "queuing", !.run = r]]
        BY <2>1
    <2> QED
        BY <2>2, <2>3
<1>4. ASSUME NEW l \in Loop, NEW at \in Nat, Joins(s, l, at) PROVE att' \in [Slot -> Attempt]
    BY <1>4 DEF Joins
<1> QED
    BY <1>1, <1>2, <1>3, <1>4

LEMMA BoundaryStep ==
    ASSUME TypeOK, AttemptsRefer, RunsRefer, LineWaits, Next
    PROVE  BoundaryTyped'
<1> DEFINE Waiters == Slot \cup Outsider
<1>0. /\ StateTyped /\ BoundaryTyped /\ att \in [Slot -> Attempt] /\ line \in Seq(Waiters)
      /\ info \in [Run -> [loop : Nat, obj : Nat]] /\ NoAttempt \in Attempt
    BY DEF TypeOK, BoundaryTyped, NoAttempt, Attempt
<1>1. ASSUME att' \in [Slot -> Attempt], line' \in Seq(Waiters), holder' \in Waiters \cup {"free"},
             UNCHANGED <<turn, alive, used, info, timers>>
      PROVE  BoundaryTyped'
    BY <1>0, <1>1 DEF BoundaryTyped, timers
<1>2. CASE Polls
    <2>1. PICK p \in Poller : PollStarts(p) \/ PollLoop(p) \/ PollThrows(p) \/ PollEnds(p)
        BY <1>2 DEF Polls
    <2>2. UNCHANGED <<holder, turn, alive, used, info, timers>> /\ p \in Slot
        BY <2>1, PollBoundary DEF Slot
    <2>3. UNCHANGED <<att, line>> \/ \E l \in Loop : Joins(p, l, cadence[l].at)
        BY <2>1, PollBoundary
    <2>4. \A l \in Loop : cadence[l].at \in Nat
        BY <1>0 DEF StateTyped, Cursor
    <2>5. att' \in [Slot -> Attempt]
        BY <1>0, <2>2, <2>3, <2>4, AttemptTypes
    <2>6. line' \in Seq(Waiters)
        <3>1. line' = line \/ line' = Append(line, p)
            BY <2>3 DEF Joins
        <3> QED
            BY <1>0, <2>2, <3>1
    <2> QED
        BY <1>0, <1>1, <2>2, <2>5, <2>6 DEF BoundaryTyped
<1>3. CASE Attempts
    <2>1. PICK s \in Slot : Grant(s) \/ Answered(s) \/ RetiredReturns(s)
        BY <1>3 DEF Attempts
    <2>2. CASE Grant(s)
        <3>1. line' \in Seq(Waiters) /\ UNCHANGED <<turn, alive, timers>>
            BY <1>0, <2>2 DEF Grant
        <3>2. CASE Refused(s)
            <4>1. att' \in [Slot -> Attempt]
                BY <1>0, <3>2, AttemptTypes DEF Refused
            <4> QED
                BY <1>0, <1>1, <3>1, <3>2, <4>1 DEF Refused, BoundaryTyped
        <3>3. CASE Granted(s)
            <4>1. att' \in [Slot -> Attempt]
                BY <1>0, <3>3, AttemptTypes
            <4>2. used' \subseteq Run /\ holder' = s
                BY <1>0, <3>3 DEF Granted, BoundaryTyped
            <4>3. info' \in [Run -> [loop : Nat, obj : Nat]]
                BY <1>0, <3>3 DEF Granted, Attempt
            <4> QED
                BY <1>0, <3>1, <4>1, <4>2, <4>3 DEF BoundaryTyped, timers
        <3> QED
            BY <2>2, <3>2, <3>3, GrantState
    <2>3. CASE Answered(s)
        <3>1. /\ Resumes(s) /\ att[s].st = "queuing"
              /\ \/ turn' = att[s].run /\ deadline' = deadline \cup {att[s].run}
                 \/ UNCHANGED <<turn, deadline>>
            BY <2>3, AnsweredState
        <3>2. att[s].run \in Run
            BY <1>0, <3>1 DEF AttemptsRefer, BoundaryTyped
        <3>3. att' \in [Slot -> Attempt]
            BY <1>0, <3>1, AttemptTypes
        <3>4. UNCHANGED <<line, alive, used, info, abandon>> /\ (holder' = "free" \/ holder' = holder)
            BY <2>3 DEF Answered
        <3>5. turn' \in Run \cup {"none", "other"} /\ deadline' \subseteq Run
            BY <1>0, <3>1, <3>2 DEF BoundaryTyped
        <3> QED
            BY <1>0, <3>3, <3>4, <3>5 DEF BoundaryTyped
    <2>4. CASE RetiredReturns(s)
        <3>1. Resumes(s) /\ UNCHANGED <<line, holder, turn, alive, used, info, timers>>
            BY <2>4 DEF RetiredReturns, Unavailable, boundary
        <3>2. att' \in [Slot -> Attempt]
            BY <1>0, <3>1, AttemptTypes
        <3> QED
            BY <1>0, <1>1, <3>1, <3>2 DEF BoundaryTyped
    <2> QED
        BY <2>1, <2>2, <2>3, <2>4
<1>4. CASE Runs
    <2>1. CASE TurnEnds
        BY <1>0, <2>1 DEF TurnEnds, Finish, BoundaryTyped, boundary
    <2>2. CASE OutsiderHolds \/ OutsiderDone
        <3>1. line' = line \/ (line # <<>> /\ line' = Tail(line))
            BY <2>2 DEF OutsiderHolds, OutsiderDone
        <3>2. line' \in Seq(Waiters)
            BY <1>0, <3>1
        <3>3. holder' \in Waiters \cup {"free"}
              /\ UNCHANGED <<att, turn, alive, used, info, timers>>
            BY <2>2 DEF OutsiderHolds, OutsiderDone, Outsider
        <3> QED
            BY <1>0, <1>1, <3>2, <3>3
    <2>3. ASSUME NEW r \in Run, Deadline(r)
          PROVE  BoundaryTyped'
        <3>1. line' = line \/ line' = Append(line, "interrupt")
            BY <2>3 DEF Deadline, Cancel
        <3>4. "interrupt" \in Waiters
            BY DEF Outsider
        <3>2. line' \in Seq(Waiters)
            BY <1>0, <3>1, <3>4
        <3>3. deadline' \subseteq Run /\ abandon' \subseteq Run
            BY <1>0, <2>3 DEF Deadline, Cancel, BoundaryTyped
        <3> QED
            BY <1>0, <2>3, <3>2, <3>3 DEF Deadline, BoundaryTyped
    <2>4. ASSUME NEW r \in Run, Abandon(r)
          PROVE  BoundaryTyped'
        <3>1. RetireStalled \/ UNCHANGED <<line, holder, att>>
            BY <2>4 DEF Abandon
        <3>2. att' \in [Slot -> Attempt]
            <4>1. CASE UNCHANGED att
                BY <1>0, <4>1
            <4>2. CASE RetireStalled
                <5>1. \A s \in Slot : [att[s] EXCEPT !.st = "retired"] \in Attempt
                    BY <1>0 DEF Attempt
                <5>2. att' = [s \in Slot |-> IF att[s].st = "line"
                                 THEN [att[s] EXCEPT !.st = "retired"] ELSE att[s]]
                    BY <4>2 DEF RetireStalled
                <5> QED
                    BY <1>0, <5>1, <5>2
            <4> QED
                BY <3>1, <4>1, <4>2
        <3>3. line' \in Seq(Waiters) /\ holder' \in Waiters \cup {"free"}
            <4>1. (line' = line \/ line' = <<>>) /\ (holder' = holder \/ holder' = "free")
                BY <3>1 DEF RetireStalled
            <4>2. line' \in Seq(Waiters)
                <5>1. CASE line' = line
                    BY <1>0, <5>1
                <5>2. CASE line' = <<>>
                    BY <5>2
                <5> QED
                    BY <4>1, <5>1, <5>2
            <4> QED
                BY <1>0, <4>1, <4>2 DEF BoundaryTyped
        <3>4. UNCHANGED <<turn, alive, used, info, deadline>> /\ abandon' \subseteq Run
            BY <1>0, <2>4 DEF Abandon, BoundaryTyped
        <3> QED
            BY <1>0, <3>2, <3>3, <3>4 DEF BoundaryTyped
    <2> QED
        BY <1>4, <2>1, <2>2, <2>3, <2>4 DEF Runs
<1>5. CASE Others
    <2>1. CASE OtherAsks
        <3>1. line' = Append(line, "other") /\ "other" \in Waiters
              /\ UNCHANGED <<att, holder, turn, alive, used, info, timers>>
            BY <2>1 DEF OtherAsks, Outsider
        <3>2. line' \in Seq(Waiters)
            BY <1>0, <3>1
        <3> QED
            BY <1>0, <3>1, <3>2 DEF BoundaryTyped, timers
    <2> QED
        BY <1>0, <1>5, <2>1 DEF Others, OtherTurn, SessionDies, BoundaryTyped, boundary, timers
<1>6. CASE Operations
    <2>1. ASSUME NEW l \in Loop, RunNow(l)
          PROVE  BoundaryTyped'
        <3>1. Operator \in Slot /\ now \in Nat
            BY <1>0 DEF Slot, StateTyped
        <3>2. Joins(Operator, l, now)
            BY <1>0, <2>1, <3>1, BeginsWaiting DEF RunNow
        <3>3. att' \in [Slot -> Attempt]
            BY <1>0, <3>1, <3>2, AttemptTypes
        <3>4. line' \in Seq(Waiters)
            BY <1>0, <3>1, <3>2 DEF Joins
        <3> QED
            BY <1>0, <1>1, <2>1, <3>3, <3>4 DEF RunNow, BoundaryTyped
    <2> QED
        BY <1>0, <1>1, <1>6, <2>1 DEF Operations, Switch, Reload, boundary, BoundaryTyped
<1>7. CASE Process
    <2>1. CASE Tick \/ \E t \in 0..MaxTime : ClockBack(t)
        BY <1>0, <1>1, <2>1 DEF Tick, ClockBack, boundary, BoundaryTyped
    <2>2. CASE Stop
        BY <1>0, <2>2 DEF Stop, boundary, BoundaryTyped
    <2>3. CASE NextAttempt \/ Crash
        <3>1. /\ att' = [s \in Slot |-> NoAttempt] /\ line' = <<>> /\ holder' = "free"
              /\ turn' = "none" /\ alive' = TRUE /\ used' = used
              /\ info' = [r \in Run |-> [loop |-> 0, obj |-> 0]]
              /\ deadline' = {} /\ abandon' = {}
            BY <2>3, Zenon DEF NextAttempt, Crash, Restart
        <3> QED
            BY <1>0, <3>1 DEF BoundaryTyped
    <2> QED
        BY <1>7, <2>1, <2>2, <2>3 DEF Process
<1> QED
    BY <1>2, <1>3, <1>4, <1>5, <1>6, <1>7 DEF Next

LEMMA TypesStep ==
    ASSUME IInv, Next
    PROVE  TypeOK'
<1>1. StateTyped'
    BY NextState DEF IInv
<1> QED
    BY <1>1, NextFile, FilesStep, ManagerStep, BoundaryStep DEF IInv, TypeOK

-----------------------------------------------------------------------------
(* Attempts and the line.                                                  *)

Grows == \A l \in Loop : Len(objs'[l]) >= Len(objs[l])

LEMMA LengthsGrow ==
    ASSUME StateTyped, SameObjects \/ (\E x, r : Sets(x, r)) \/ UNCHANGED objs
    PROVE  Grows
<1>1. \A l \in Loop : objs[l] \in Seq(Object) /\ Len(objs[l]) \in Nat
    BY DEF StateTyped
<1>2. CASE UNCHANGED objs
    BY <1>1, <1>2 DEF Grows
<1>3. CASE Lengths
    BY <1>1, <1>3 DEF Grows, Lengths
<1> QED
    BY <1>2, <1>3 DEF SameObjects, Sets

(* An attempt goes on as it was, comes to its end, or is woken from a line *)
(* that was cut.                                                           *)
GoesAway(s) ==
    /\ att[s].st # "none" /\ att'[s].st = "retired"
    /\ att'[s].loop = att[s].loop /\ att'[s].obj = att[s].obj

LineEntered(s) ==
    att'[s].st = "line" /\ att'[s].loop \in Loop /\ att'[s].obj \in 1..Len(objs'[att'[s].loop])

AttemptGoes(s) ==
    att'[s].st = "none" \/ att'[s] = att[s] \/ GoesAway(s) \/ LineEntered(s)

LEMMA AttemptsStay ==
    ASSUME StateTyped, StateTyped', AttemptsRefer, Grows, UNCHANGED <<used, info>>,
           \A s \in Slot : AttemptGoes(s)
    PROVE  AttemptsRefer'
<1>1. \A l \in Loop : Len(objs[l]) \in Nat /\ Len(objs'[l]) \in Nat /\ Len(objs'[l]) >= Len(objs[l])
    BY DEF StateTyped, Grows
<1>2. SUFFICES ASSUME NEW s \in Slot
               PROVE  /\ att'[s].st # "none" => Refers(att[s])'
                      /\ att'[s].st = "queuing" =>
                           /\ att'[s].run \in used'
                           /\ info'[att'[s].run] = [loop |-> att'[s].loop, obj |-> att'[s].obj]
    BY DEF AttemptsRefer
<1>3. att[s].st # "none" => att[s].loop \in Loop /\ att[s].obj \in 1..Len(objs'[att[s].loop])
    <2>1. CASE att[s].st # "none"
        <3>1. Refers(att[s])
            BY <1>2, <2>1 DEF AttemptsRefer
        <3> QED
            BY <1>1, <3>1 DEF Refers
    <2> QED
        BY <2>1
<1>4. CASE att'[s] = att[s]
    BY <1>2, <1>3, <1>4 DEF AttemptsRefer, Refers
<1>5. CASE att'[s].st = "none" \/ LineEntered(s)
    BY <1>5 DEF LineEntered, Refers
<1>6. CASE GoesAway(s)
    BY <1>3, <1>6 DEF GoesAway, Refers
<1> QED
    BY <1>2, <1>4, <1>5, <1>6 DEF AttemptGoes

LEMMA RunsStay ==
    ASSUME StateTyped, StateTyped', RunsRefer, Grows, UNCHANGED info, used \subseteq used',
           \A r \in (deadline' \cup abandon') \ (deadline \cup abandon) : info[r].loop # 0,
           turn' \in Run => turn' = turn \/ info[turn'].loop # 0
    PROVE  RunsRefer'
<1>1. \A l \in Loop : Len(objs[l]) \in Nat /\ Len(objs'[l]) \in Nat /\ Len(objs'[l]) >= Len(objs[l])
    BY DEF StateTyped, Grows
<1>2. \A r \in Run : info'[r].loop # 0 => r \in used' /\ Refers(info[r])'
    BY <1>1 DEF RunsRefer, Refers
<1> QED
    BY <1>2 DEF RunsRefer

(* What is in the line is an attempt that waits there, once.               *)
LEMMA LineKept ==
    ASSUME InLine, UNCHANGED line, \A s \in Slot : att[s].st = "line" => att'[s].st = "line"
    PROVE  InLine'
BY DEF InLine

LEMMA LineJoined ==
    ASSUME BoundaryTyped, InLine, NEW w \in Slot \cup Outsider, line' = Append(line, w),
           \A s \in Slot : att[s].st = "line" => att'[s].st = "line",
           w \in Slot => att[w].st # "line" /\ att'[w].st = "line"
    PROVE  InLine'
<1>1. line \in Seq(Slot \cup Outsider) /\ Len(line) \in Nat
    BY DEF BoundaryTyped
<1>2. Len(line') = Len(line) + 1 /\ line'[Len(line) + 1] = w
      /\ \A i \in 1..Len(line) : line'[i] = line[i]
    BY <1>1
<1>3. \A i \in 1..Len(line') : i \in 1..Len(line) \/ i = Len(line) + 1
    BY <1>1, <1>2
<1>4. \A i \in 1..Len(line) : line[i] \in Slot => att[line[i]].st = "line" /\ line[i] # w
    BY DEF InLine
<1>5. \A i \in 1..Len(line') : line'[i] \in Slot => att'[line'[i]].st = "line"
    BY <1>2, <1>3, <1>4
<1>6. \A i, j \in 1..Len(line') : line'[i] \in Slot /\ line'[i] = line'[j] => i = j
    BY <1>2, <1>3, <1>4 DEF InLine
<1> QED
    BY <1>5, <1>6 DEF InLine

LEMMA LineLeft ==
    ASSUME BoundaryTyped, InLine, line # <<>>, line' = Tail(line),
           \A s \in Slot : s # Head(line) /\ att[s].st = "line" => att'[s].st = "line"
    PROVE  InLine'
<1>1. line \in Seq(Slot \cup Outsider) /\ Len(line) \in Nat /\ Len(line) > 0
    BY DEF BoundaryTyped
<1>2. Len(line') = Len(line) - 1 /\ Head(line) = line[1]
      /\ \A i \in 1..(Len(line) - 1) : line'[i] = line[i + 1]
    BY <1>1
<1>3. \A i \in 1..Len(line') : i + 1 \in 1..Len(line) /\ i + 1 # 1 /\ line'[i] = line[i + 1]
    BY <1>1, <1>2
<1>4. \A i \in 1..Len(line') : line'[i] \in Slot => line'[i] # Head(line) /\ att[line'[i]].st = "line"
    <2>1. 1 \in 1..Len(line)
        BY <1>1
    <2> QED
        BY <1>2, <1>3, <2>1 DEF InLine
<1>5. \A i, j \in 1..Len(line') : line'[i] \in Slot /\ line'[i] = line'[j] => i = j
    <2>1. \A i, j \in 1..Len(line') : line'[i] \in Slot /\ line'[i] = line'[j] => i + 1 = j + 1
        BY <1>3 DEF InLine
    <2> QED
        BY <1>1, <1>2, <2>1
<1> QED
    BY <1>4, <1>5 DEF InLine

LEMMA LineCut ==
    ASSUME line' = <<>>
    PROVE  InLine'
BY DEF InLine

References == AttemptsRefer /\ RunsRefer /\ LineWaits

LEMMA JoinsGoes ==
    ASSUME StateTyped, BoundaryTyped, Grows, NEW s \in Slot, NEW l \in Loop, NEW at \in Nat,
           Joins(s, l, at), StateTyped'
    PROVE  /\ \A q \in Slot : AttemptGoes(q) /\ (q # s => att'[q] = att[q])
           /\ att'[s].st = "line"
<1>1. att \in [Slot -> Attempt]
    BY DEF BoundaryTyped
<1>2. att'[s] = Waiting(l, at) /\ \A q \in Slot : q # s => att'[q] = att[q]
    BY <1>1 DEF Joins
<1>3. Len(objs[l]) \in Nat /\ Len(objs'[l]) \in Nat /\ Len(objs'[l]) >= Len(objs[l])
    BY DEF StateTyped, Grows
<1>4. LineEntered(s)
    BY <1>2, <1>3, LastObject DEF LineEntered, Waiting, InUse
<1> QED
    BY <1>2, <1>4 DEF AttemptGoes, Waiting

LEMMA ResumesGoes ==
    ASSUME TypeOK, PollsWait, NEW s \in Slot, Resumes(s)
    PROVE  /\ \A q \in Slot : AttemptGoes(q) /\ (q # s => att'[q] = att[q])
           /\ att'[s].st = "none" /\ PollsWait'
<1>1. att \in [Slot -> Attempt] /\ ManagerTyped
    BY DEF TypeOK, BoundaryTyped
<1>2. att'[s].st = "none" /\ \A q \in Slot : q # s => att'[q] = att[q]
    BY <1>1 DEF Resumes, NoAttempt
<1>3. \A q \in Poller : q # s => poll'[q] = poll[q]
    BY <1>1 DEF Resumes, ManagerTyped
<1>4. PollsWait'
    BY <1>2, <1>3 DEF PollsWait, Slot
<1> QED
    BY <1>2, <1>4 DEF AttemptGoes

LEMMA PollsReferences ==
    ASSUME IInv, StateTyped', Polls
    PROVE  References'
<1>0. /\ TypeOK /\ StateTyped /\ BoundaryTyped /\ AttemptsRefer /\ RunsRefer /\ InLine /\ PollsWait
    BY DEF IInv, TypeOK, LineWaits
<1>1. PICK p \in Poller : PollStarts(p) \/ PollLoop(p) \/ PollThrows(p) \/ PollEnds(p)
    BY DEF Polls
<1>2. SameObjects /\ p \in Slot
    BY <1>0, <1>1, PollState DEF Slot
<1>3. Grows
    BY <1>0, <1>2, LengthsGrow
<1>4. /\ UNCHANGED <<holder, turn, alive, used, info, timers, sent>>
      /\ poll[p].pc # "attempt" /\ \A q \in Poller : q # p => poll'[q] = poll[q]
    BY <1>0, <1>1, PollBoundary
<1>5. att[p].st = "none"
    BY <1>0, <1>4 DEF PollsWait
<1>6. RunsRefer'
    BY <1>0, <1>3, <1>4, RunsStay DEF timers
<1>7. CASE UNCHANGED <<att, line>>
    <2>1. AttemptsRefer'
        BY <1>0, <1>3, <1>4, <1>7, AttemptsStay DEF AttemptGoes
    <2>2. InLine'
        BY <1>0, <1>7, LineKept
    <2>3. PollsWait'
        BY <1>0, <1>4, <1>5, <1>7 DEF PollsWait
    <2> QED
        BY <1>6, <2>1, <2>2, <2>3 DEF References, LineWaits
<1>8. CASE poll'[p].pc = "attempt" /\ \E l \in Loop : Joins(p, l, cadence[l].at)
    <2>1. PICK l \in Loop : Joins(p, l, cadence[l].at)
        BY <1>8
    <2>2. cadence[l].at \in Nat
        BY <1>0, <2>1 DEF StateTyped, Cursor
    <2>3. /\ \A q \in Slot : AttemptGoes(q) /\ (q # p => att'[q] = att[q])
          /\ att'[p].st = "line"
        BY <1>0, <1>2, <1>3, <2>1, <2>2, JoinsGoes
    <2>4. AttemptsRefer'
        BY <1>0, <1>3, <1>4, <2>3, AttemptsStay
    <2>5. InLine'
        <3>1. line' = Append(line, p)
            BY <2>1 DEF Joins
        <3>2. \A q \in Slot : att[q].st = "line" => att'[q].st = "line"
            BY <2>3
        <3> QED
            BY <1>0, <1>2, <1>5, <2>3, <3>1, <3>2, LineJoined
    <2>6. PollsWait'
        BY <1>0, <1>4, <1>8, <2>3 DEF PollsWait, Slot
    <2> QED
        BY <1>6, <2>4, <2>5, <2>6 DEF References, LineWaits
<1> QED
    BY <1>0, <1>1, <1>7, <1>8, PollBoundary

LEMMA GrantReferences ==
    ASSUME IInv, StateTyped', NEW s \in Slot, Grant(s)
    PROVE  References'
<1>0. /\ TypeOK /\ StateTyped /\ BoundaryTyped /\ AttemptsRefer /\ RunsRefer /\ LineWaits
      /\ InLine /\ PollsWait /\ att \in [Slot -> Attempt]
    BY DEF IInv, TypeOK, LineWaits, BoundaryTyped
<1>1. att[s].st = "line" /\ (Refused(s) \/ Granted(s))
    BY <1>0, GrantState
<1>2. /\ line' = Tail(line) /\ line # <<>> /\ Head(line) = s
      /\ UNCHANGED <<turn, timers>>
    BY DEF Grant
<1>3. Grows
    BY <1>0, <1>1, LengthsGrow DEF Refused, Granted
<1>4. CASE Refused(s)
    <2>1. /\ \A q \in Slot : AttemptGoes(q) /\ (q # s => att'[q] = att[q])
          /\ PollsWait'
        BY <1>0, <1>4, ResumesGoes DEF Refused
    <2>2. AttemptsRefer'
        BY <1>0, <1>3, <1>4, <2>1, AttemptsStay DEF Refused
    <2>3. RunsRefer'
        BY <1>0, <1>2, <1>3, <1>4, RunsStay DEF Refused, timers
    <2>4. InLine'
        BY <1>0, <1>2, <2>1, LineLeft
    <2> QED
        BY <2>1, <2>2, <2>3, <2>4 DEF References, LineWaits
<1>5. CASE Granted(s)
    <2>1. PICK r \in Run \ used :
            /\ att' = [att EXCEPT ![s].st = "queuing", ![s].run = r] /\ UNCHANGED poll
            /\ used' = used \cup {r}
            /\ info' = [info EXCEPT ![r] = [loop |-> att[s].loop, obj |-> att[s].obj]]
        BY <1>5 DEF Granted
    <2>2. /\ \A q \in Slot : q # s => att'[q] = att[q]
          /\ att'[s].st = "queuing" /\ att'[s].run = r
          /\ att'[s].loop = att[s].loop /\ att'[s].obj = att[s].obj
        BY <1>0, <2>1 DEF Attempt
    <2>3. /\ info'[r] = [loop |-> att[s].loop, obj |-> att[s].obj]
          /\ \A q \in Run : q # r => info'[q] = info[q]
        BY <1>0, <2>1 DEF BoundaryTyped
    <2>4. \A l \in Loop : Len(objs[l]) \in Nat /\ Len(objs'[l]) \in Nat /\ Len(objs'[l]) >= Len(objs[l])
        BY <1>0, <1>3 DEF StateTyped, Grows
    <2>5. Refers(att[s]) /\ att[s].loop \in Loop /\ att[s].obj \in 1..Len(objs'[att[s].loop])
        <3>1. Refers(att[s])
            BY <1>0, <1>1 DEF AttemptsRefer
        <3> QED
            BY <2>4, <3>1 DEF Refers
    <2>6. AttemptsRefer'
        <3>1. ASSUME NEW q \in Slot, att'[q].st # "none"
              PROVE  Refers(att[q])'
            <4>1. CASE q = s
                BY <2>2, <2>5, <4>1 DEF Refers
            <4>2. CASE q # s
                <5>1. att'[q] = att[q] /\ Refers(att[q])
                    BY <1>0, <2>2, <3>1, <4>2 DEF AttemptsRefer
                <5> QED
                    BY <2>4, <5>1 DEF Refers
            <4> QED
                BY <4>1, <4>2
        <3>2. \A q \in Slot : att'[q].st = "queuing" =>
                 /\ att'[q].run \in used'
                 /\ info'[att'[q].run] = [loop |-> att'[q].loop, obj |-> att'[q].obj]
            <4>1. \A q \in Slot : q # s /\ att[q].st = "queuing" => att[q].run \in Run /\ att[q].run # r
                BY <1>0, <2>1 DEF AttemptsRefer, BoundaryTyped
            <4> QED
                BY <1>0, <2>1, <2>2, <2>3, <4>1 DEF AttemptsRefer
        <3> QED
            BY <3>1, <3>2 DEF AttemptsRefer
    <2>7. RunsRefer'
        <3>1. \A q \in Run : info'[q].loop # 0 => q \in used' /\ Refers(info[q])'
            BY <1>0, <2>1, <2>3, <2>4, <2>5 DEF RunsRefer, Refers
        <3>2. att[s].loop # 0
            BY <2>5, LoopAssumption
        <3>3. deadline \cup abandon \subseteq Run
            BY <1>0 DEF BoundaryTyped
        <3>4. \A q \in Run : info[q].loop # 0 => info'[q].loop # 0
            BY <2>3, <3>2
        <3> QED
            BY <1>0, <1>2, <3>1, <3>3, <3>4 DEF RunsRefer, timers
    <2>8. InLine'
        BY <1>0, <1>2, <2>2, LineLeft
    <2>9. PollsWait'
        BY <1>0, <1>1, <2>1, <2>2 DEF PollsWait, Slot
    <2> QED
        BY <2>6, <2>7, <2>8, <2>9 DEF References, LineWaits
<1> QED
    BY <1>1, <1>4, <1>5

(* Attempts, line and runs as they were, objects at most written to.       *)
LEMMA ReferencesKept ==
    ASSUME IInv, StateTyped', Grows, UNCHANGED <<att, line, used, info>>,
           \A p \in Poller : poll'[p] = poll[p],
           \A r \in (deadline' \cup abandon') \ (deadline \cup abandon) : info[r].loop # 0,
           turn' \in Run => turn' = turn
    PROVE  References'
<1>0. /\ StateTyped /\ AttemptsRefer /\ RunsRefer /\ InLine /\ PollsWait
    BY DEF IInv, TypeOK, LineWaits
<1>1. AttemptsRefer'
    BY <1>0, AttemptsStay DEF AttemptGoes
<1>2. RunsRefer'
    BY <1>0, RunsStay
<1>3. InLine' /\ PollsWait'
    BY <1>0, LineKept DEF PollsWait
<1> QED
    BY <1>1, <1>2, <1>3 DEF References, LineWaits

LEMMA ReturnsReferences ==
    ASSUME IInv, StateTyped', NEW s \in Slot, Answered(s) \/ RetiredReturns(s)
    PROVE  References'
<1>0. /\ TypeOK /\ StateTyped /\ AttemptsRefer /\ RunsRefer /\ InLine /\ PollsWait
    BY DEF IInv, TypeOK, LineWaits
<1>1. /\ Resumes(s) /\ att[s].st # "line" /\ att[s].st # "none"
      /\ UNCHANGED <<line, used, info, abandon>>
      /\ SameObjects \/ Sets(att[s], NoRun)
      /\ \/ UNCHANGED <<turn, deadline>>
         \/ att[s].st = "queuing" /\ turn' = att[s].run /\ deadline' = deadline \cup {att[s].run}
    <2>1. CASE Answered(s)
        BY <1>0, <2>1, AnsweredState DEF Answered
    <2>2. CASE RetiredReturns(s)
        BY <1>0, <2>2, UnavailableState DEF RetiredReturns, boundary, timers
    <2> QED
        BY <2>1, <2>2
<1>2. Grows
    BY <1>0, <1>1, LengthsGrow
<1>3. /\ \A q \in Slot : AttemptGoes(q) /\ (q # s => att'[q] = att[q])
      /\ PollsWait'
    BY <1>0, <1>1, ResumesGoes
<1>4. AttemptsRefer'
    BY <1>0, <1>1, <1>2, <1>3, AttemptsStay
<1>5. RunsRefer'
    <2>1. att[s].st = "queuing" => info[att[s].run].loop # 0
        <3>1. CASE att[s].st = "queuing"
            <4>1. Refers(att[s]) /\ info[att[s].run] = [loop |-> att[s].loop, obj |-> att[s].obj]
                BY <1>0, <3>1 DEF AttemptsRefer
            <4> QED
                BY <4>1, LoopAssumption DEF Refers
        <3> QED
            BY <3>1
    <2> QED
        BY <1>0, <1>1, <1>2, <2>1, RunsStay
<1>6. InLine'
    BY <1>0, <1>1, <1>3, LineKept
<1> QED
    BY <1>3, <1>4, <1>5, <1>6 DEF References, LineWaits

LEMMA RunsReferences ==
    ASSUME IInv, StateTyped', Runs
    PROVE  References'
<1>0. /\ TypeOK /\ StateTyped /\ BoundaryTyped /\ AttemptsRefer /\ RunsRefer /\ InLine /\ PollsWait
    BY DEF IInv, TypeOK, LineWaits
<1>1. CASE TurnEnds
    <2>1. Grows
        BY <1>0, <1>1, TurnEndsState, LengthsGrow
    <2>2. /\ UNCHANGED <<att, line, used, info, poll, abandon>> /\ turn' = "none"
          /\ deadline' \subseteq deadline
        BY <1>1 DEF TurnEnds, Finish, boundary
    <2>3. turn' \notin Run
        BY <2>2, LoopAssumption
    <2> QED
        BY <2>1, <2>2, <2>3, ReferencesKept
<1>2. CASE OutsiderHolds
    <2>1. /\ UNCHANGED <<att, used, info, poll, turn, objs, timers>>
          /\ line # <<>> /\ line' = Tail(line)
        BY <1>2 DEF OutsiderHolds, stateVars
    <2>2. Grows
        BY <1>0, <2>1, LengthsGrow
    <2>3. AttemptsRefer' /\ RunsRefer'
        BY <1>0, <2>1, <2>2, AttemptsStay, RunsStay DEF AttemptGoes, timers
    <2>4. InLine' /\ PollsWait'
        BY <1>0, <2>1, LineLeft DEF PollsWait
    <2> QED
        BY <2>3, <2>4 DEF References, LineWaits
<1>3. CASE OutsiderDone
    <2>1. UNCHANGED <<att, line, used, info, poll, turn, objs, timers>>
        BY <1>3 DEF OutsiderDone, stateVars
    <2>2. Grows
        BY <1>0, <2>1, LengthsGrow
    <2> QED
        BY <2>1, <2>2, ReferencesKept DEF timers
<1>4. ASSUME NEW r \in Run, Deadline(r)
      PROVE  References'
    <2>1. /\ UNCHANGED <<att, used, info, poll, turn, objs>> /\ r \in deadline
          /\ deadline' \subseteq deadline /\ abandon' \subseteq abandon \cup {r}
          /\ line' = line \/ line' = Append(line, "interrupt")
        BY <1>4 DEF Deadline, Cancel, stateVars
    <2>2. Grows
        BY <1>0, <2>1, LengthsGrow
    <2>3. AttemptsRefer' /\ RunsRefer'
        BY <1>0, <2>1, <2>2, AttemptsStay, RunsStay DEF AttemptGoes
    <2>4. "interrupt" \notin Slot /\ "interrupt" \in Outsider
        BY LoopAssumption DEF Slot, Outsider
    <2>5. InLine' /\ PollsWait'
        BY <1>0, <2>1, <2>4, LineKept, LineJoined DEF PollsWait
    <2> QED
        BY <2>3, <2>5 DEF References, LineWaits
<1>5. ASSUME NEW r \in Run, Abandon(r)
      PROVE  References'
    <2>1. /\ UNCHANGED <<used, info, poll, turn, deadline>> /\ abandon' \subseteq abandon
        BY <1>5 DEF Abandon
    <2>2. /\ Sets(info[r], NoRun) \/ SameObjects
          /\ RetireStalled \/ UNCHANGED <<line, holder, att>>
        BY <1>0, <1>5, AbandonState
    <2>3. Grows
        BY <1>0, <2>2, LengthsGrow
    <2>4. CASE UNCHANGED <<line, holder, att>>
        BY <2>1, <2>3, <2>4, ReferencesKept
    <2>5. CASE RetireStalled
        <3>1. att \in [Slot -> Attempt]
            BY <1>0 DEF BoundaryTyped
        <3>2. \A s \in Slot : /\ att[s].st = "line" => GoesAway(s)
                              /\ att[s].st # "line" => att'[s] = att[s]
            BY <2>5, <3>1 DEF RetireStalled, GoesAway, Attempt
        <3>3. AttemptsRefer'
            BY <1>0, <2>1, <2>3, <3>2, AttemptsStay DEF AttemptGoes
        <3>4. RunsRefer'
            BY <1>0, <2>1, <2>3, RunsStay
        <3>5. InLine'
            BY <2>5, LineCut DEF RetireStalled
        <3>6. PollsWait'
            BY <1>0, <2>1, <3>2 DEF PollsWait, Slot
        <3> QED
            BY <3>3, <3>4, <3>5, <3>6 DEF References, LineWaits
    <2> QED
        BY <2>2, <2>4, <2>5
<1> QED
    BY <1>1, <1>2, <1>3, <1>4, <1>5 DEF Runs

LEMMA OperationsReferences ==
    ASSUME IInv, StateTyped', Operations
    PROVE  References'
<1>0. /\ TypeOK /\ StateTyped /\ BoundaryTyped /\ AttemptsRefer /\ RunsRefer /\ InLine /\ PollsWait
    BY DEF IInv, TypeOK, LineWaits
<1>1. ASSUME NEW l \in Loop, RunNow(l)
      PROVE  References'
    <2>1. /\ UNCHANGED <<objs, poll, used, info, turn, timers>> /\ att[Operator].st = "none"
          /\ Operator \in Slot /\ Operator \notin Poller /\ now \in Nat
        BY <1>0, <1>1, LoopAssumption DEF RunNow, stateVars, Slot, StateTyped
    <2>2. Grows
        BY <1>0, <2>1, LengthsGrow
    <2>3. Joins(Operator, l, now)
        BY <1>0, <1>1, <2>1, BeginsWaiting DEF RunNow
    <2>4. /\ \A q \in Slot : AttemptGoes(q) /\ (q # Operator => att'[q] = att[q])
          /\ att'[Operator].st = "line"
        BY <1>0, <2>1, <2>2, <2>3, JoinsGoes
    <2>5. AttemptsRefer'
        BY <1>0, <2>1, <2>2, <2>4, AttemptsStay
    <2>6. RunsRefer'
        BY <1>0, <2>1, <2>2, RunsStay DEF timers
    <2>7. InLine'
        <3>1. line' = Append(line, Operator)
            BY <2>3 DEF Joins
        <3>2. \A q \in Slot : att[q].st = "line" => att'[q].st = "line"
            BY <2>4
        <3> QED
            BY <1>0, <2>1, <2>4, <3>1, <3>2, LineJoined
    <2>8. PollsWait'
        BY <1>0, <2>1, <2>4 DEF PollsWait, Slot
    <2> QED
        BY <2>5, <2>6, <2>7, <2>8 DEF References, LineWaits
<1>2. ASSUME NEW l \in Loop, NEW off \in BOOLEAN, Switch(l, off)
      PROVE  References'
    <2>1. Grows
        BY <1>0, <1>2, SwitchState, LengthsGrow
    <2> QED
        BY <1>2, <2>1, ReferencesKept DEF Switch, boundary, timers
<1>3. ASSUME NEW new \in NewConfig, NEW changed \in SUBSET Loop, Reload(new, changed)
      PROVE  References'
    <2>1. \A l \in Loop : Len(objs[l]) \in Nat /\ Len(objs'[l]) = Len(objs[l]) + 1
        <3>1. \A l \in Loop : objs[l] \in Seq(Object)
            BY <1>0 DEF StateTyped
        <3>2. \A l \in Loop : Len(objs'[l]) = Len(objs[l]) + 1
            BY <1>0, <1>3, ReloadState
        <3> QED
            BY <3>1, <3>2
    <2>2. Grows
        BY <2>1 DEF Grows
    <2> QED
        BY <1>3, <2>2, ReferencesKept DEF Reload, boundary, timers
<1> QED
    BY <1>1, <1>2, <1>3 DEF Operations

LEMMA RestartReferences ==
    ASSUME NEW spent, Restart(spent)
    PROVE  References'
<1>1. /\ att' = [s \in Slot |-> NoAttempt] /\ line' = <<>> /\ turn' = "none"
      /\ info' = [r \in Run |-> [loop |-> 0, obj |-> 0]] /\ deadline' = {} /\ abandon' = {}
    BY Zenon DEF Restart
<1>2. AttemptsRefer'
    BY <1>1 DEF AttemptsRefer, NoAttempt
<1>3. RunsRefer'
    BY <1>1, LoopAssumption DEF RunsRefer
<1>4. LineWaits'
    BY <1>1, LineCut DEF LineWaits, PollsWait, NoAttempt, Slot
<1> QED
    BY <1>2, <1>3, <1>4 DEF References

LEMMA ReferencesStep ==
    ASSUME IInv, Next
    PROVE  References'
<1>0. /\ TypeOK /\ StateTyped /\ AttemptsRefer /\ RunsRefer /\ LineWaits /\ StateTyped'
    BY NextState DEF IInv, TypeOK
<1>1. CASE Attempts
    BY <1>0, <1>1, GrantReferences, ReturnsReferences DEF Attempts
<1>2. CASE OtherTurn \/ SessionDies \/ Tick \/ (\E t \in 0..MaxTime : ClockBack(t)) \/ Stop
    <2>1. /\ UNCHANGED <<att, line, used, info, poll, objs>>
          /\ deadline' \subseteq deadline /\ abandon' \subseteq abandon
          /\ turn' = turn \/ turn' = "other"
        BY <1>2 DEF OtherTurn, SessionDies, Tick, ClockBack, Stop, boundary, stateVars, timers
    <2>2. Grows
        BY <1>0, <2>1, LengthsGrow
    <2>3. turn' \in Run => turn' = turn
        BY <2>1, LoopAssumption
    <2> QED
        BY <1>0, <2>1, <2>2, <2>3, ReferencesKept
<1>3. CASE NextAttempt \/ Crash
    BY <1>3, RestartReferences DEF NextAttempt, Crash
<1>4. CASE OtherAsks
    <2>1. UNCHANGED <<att, used, info, poll, turn, objs, timers>> /\ line' = Append(line, "other")
        BY <1>4 DEF OtherAsks, stateVars
    <2>2. Grows
        BY <1>0, <2>1, LengthsGrow
    <2>3. AttemptsRefer' /\ RunsRefer'
        BY <1>0, <2>1, <2>2, AttemptsStay, RunsStay DEF AttemptGoes, timers
    <2>4. "other" \in Outsider /\ "other" \notin Slot /\ BoundaryTyped /\ InLine /\ PollsWait
        BY <1>0, LoopAssumption DEF Slot, Outsider, TypeOK, LineWaits
    <2>5. InLine' /\ PollsWait'
        BY <2>1, <2>4, LineJoined DEF PollsWait
    <2> QED
        BY <2>3, <2>5 DEF References, LineWaits
<1> QED
    BY <1>0, <1>1, <1>2, <1>3, <1>4, PollsReferences, RunsReferences, OperationsReferences
    DEF Next, Process, Others

-----------------------------------------------------------------------------
(* The cursors.                                                            *)

(* As long as a loop keeps its definition its cursor does not move back,   *)
(* or it moves to where the file has it.                                   *)
Onward ==
    \A l \in Loop :
        /\ hash'[l] >= hash[l]
        /\ hash'[l] = hash[l] =>
             /\ defs'[l] = defs[l]
             /\ Restored(l) => \/ cadence'[l].at >= cadence[l].at
                               \/ cadence'[l].at >= disk.body.loops[l].at

LEMMA GoesOnward ==
    ASSUME StateTyped, GoesOn
    PROVE  Onward
<1>1. \A l \in Loop : hash[l] \in Nat
    BY DEF StateTyped
<1> QED
    BY <1>1 DEF GoesOn, Onward

LEMMA NextOnward ==
    ASSUME IInv, Next
    PROVE  Onward
<1>0. /\ TypeOK /\ StateTyped /\ AttemptsRefer /\ RunsRefer /\ LineWaits /\ wall \in Nat
      /\ \A l \in Loop : hash[l] \in Nat /\ cadence[l].at \in Nat
    BY DEF IInv, TypeOK, StateTyped, Cursor
<1>1. CASE Polls
    BY <1>0, <1>1, PollState, GoesOnward DEF Polls
<1>2. CASE Attempts
    <2>1. PICK s \in Slot : Grant(s) \/ Answered(s) \/ RetiredReturns(s)
        BY <1>2 DEF Attempts
    <2>2. CASE RetiredReturns(s)
        BY <1>0, <2>2, UnavailableState, GoesOnward DEF RetiredReturns
    <2> QED
        BY <1>0, <2>1, <2>2, GrantState, AnsweredState, GoesOnward
<1>3. CASE UNCHANGED <<defs, hash, cadence>>
    BY <1>0, <1>3 DEF Onward
<1>4. CASE Runs
    <2>1. CASE TurnEnds \/ \E r \in Run : Abandon(r)
        BY <1>0, <2>1, TurnEndsState, AbandonState, GoesOnward
    <2> QED
        BY <1>3, <1>4, <2>1 DEF Runs, OutsiderHolds, OutsiderDone, Deadline, stateVars
<1>5. CASE Operations
    <2>1. CASE \E l \in Loop, off \in BOOLEAN : Switch(l, off)
        BY <1>0, <2>1, SwitchState, GoesOnward
    <2>2. CASE \E new \in NewConfig, changed \in SUBSET Loop : Reload(new, changed)
        BY <1>0, <2>2, ReloadState DEF Onward
    <2> QED
        BY <1>3, <1>5, <2>1, <2>2 DEF Operations, RunNow, stateVars
<1>6. CASE NextAttempt \/ Crash
    BY <1>0, <1>6, RestartState DEF NextAttempt, Crash, Onward
<1>7. CASE Others \/ Tick \/ (\E t \in 0..MaxTime : ClockBack(t)) \/ Stop
    BY <1>3, <1>7 DEF Others, OtherAsks, OtherTurn, SessionDies, Tick, ClockBack, Stop, stateVars
<1> QED
    BY <1>1, <1>2, <1>4, <1>5, <1>6, <1>7 DEF Next, Process

(* What the file holds of a loop after a step that wrote it.               *)
LEMMA BodyEntry ==
    ASSUME NEW l \in Loop
    PROVE  /\ Stored(l)' => /\ Body'.loops[l].hash = hash'[l]
                            /\ Body'.loops[l].at = cadence'[l].at
                            /\ Body'.loops[l].off = cadence'[l].off
           /\ ~Stored(l)' => Body'.loops[l].hash = 0
BY DEF Body, Blank

LEMMA PastStays ==
    ASSUME TypeOK, StateTyped', FileTyped', Onward, disk' = disk \/ disk'.body = Body',
           NEW o, Past(o)
    PROVE  Past(o)'
<1>a. PICK l \in Loop : l = o.loop
    BY DEF Past
<1>1. /\ hash[l] \in Nat /\ hash'[l] \in Nat /\ cadence[l].at \in Nat /\ cadence'[l].at \in Nat
      /\ disk.body.loops[l].at \in Nat /\ disk'.body.loops[l].at \in Nat
    <2>1. cadence[l] \in Cursor /\ cadence'[l] \in Cursor
        BY DEF TypeOK, StateTyped
    <2>2. disk.body.loops[l] \in Entry /\ disk'.body.loops[l] \in Entry
        BY DEF TypeOK, FileTyped
    <2> QED
        BY <2>1, <2>2 DEF TypeOK, StateTyped, Cursor, Entry
<1>2. /\ o.hash \in Nat \ {0} /\ o.at \in Nat /\ o.hash <= hash[l]
      /\ o.hash = hash[l] => /\ Stored(l) /\ o.at < cadence[l].at
                             /\ disk.body.loops[l].hash = o.hash
      /\ disk.body.loops[l].hash = o.hash => o.at < disk.body.loops[l].at
    BY <1>a DEF Past
<1>3. /\ hash'[l] >= hash[l]
      /\ hash'[l] = hash[l] =>
            /\ defs'[l] = defs[l]
            /\ Restored(l) => \/ cadence'[l].at >= cadence[l].at
                              \/ cadence'[l].at >= disk.body.loops[l].at
    BY DEF Onward
<1>4. o.hash <= hash'[l] /\ (o.hash = hash'[l] => hash'[l] = hash[l] /\ o.hash = hash[l])
    BY <1>1, <1>2, <1>3
<1>5. ASSUME o.hash = hash'[l]
      PROVE  Stored(l)' /\ o.at < cadence'[l].at
    <2>1. Stored(l) /\ Stored(l)' /\ Restored(l)
        BY <1>2, <1>3, <1>4, <1>5 DEF Stored, Restored
    <2> QED
        BY <1>1, <1>2, <1>3, <1>4, <1>5, <2>1
<1>6. o.hash = hash'[l] => disk'.body.loops[l].hash = o.hash
    <2>1. CASE disk' = disk
        BY <1>2, <1>4, <2>1
    <2>2. CASE disk'.body = Body'
        BY <1>5, <2>2, BodyEntry
    <2> QED
        BY <2>1, <2>2
<1>7. disk'.body.loops[l].hash = o.hash => o.at < disk'.body.loops[l].at
    <2>1. CASE disk' = disk
        BY <1>2, <2>1
    <2>2. CASE disk'.body = Body'
        <3>1. CASE Stored(l)'
            BY <1>5, <2>2, <3>1, BodyEntry
        <3>2. CASE ~Stored(l)'
            BY <1>2, <2>2, <3>2, BodyEntry
        <3> QED
            BY <3>1, <3>2
    <2> QED
        BY <2>1, <2>2
<1> QED
    BY <1>a, <1>2, <1>4, <1>5, <1>6, <1>7 DEF Past

-----------------------------------------------------------------------------
(* What was claimed.                                                       *)

LEMMA ClaimsKept ==
    ASSUME ClaimsPast, StateTyped, StateTyped', Onward, \A o : Past(o) => Past(o)',
           UNCHANGED sent, \A p \in Poller : att'[p].st = "line" => att'[p] = att[p]
    PROVE  ClaimsPast'
<1>1. \A l \in Loop : hash'[l] # 0
    BY DEF ClaimsPast, StateTyped, Onward
<1>2. \A o \in sent' : Past(o)'
    BY DEF ClaimsPast
<1>3. ASSUME NEW p \in Poller, Pending(p)'
      PROVE  /\ Pending(p) /\ Occurrence(att'[p]) = Occurrence(att[p])
             /\ Past(Occurrence(att[p]))' /\ Occurrence(att'[p]) \notin sent'
    <2>1. att'[p] = att[p] /\ Pending(p)
        BY <1>3 DEF Pending
    <2>2. PICK o : o = Occurrence(att[p])
        OBVIOUS
    <2>3. Past(o) /\ o \notin sent
        BY <2>1, <2>2 DEF ClaimsPast
    <2>4. Past(o)' /\ o = Occurrence(att'[p])
        BY <2>1, <2>2, <2>3
    <2>5. Past(Occurrence(att[p]))'
        BY <2>4 DEF Past, Occurrence
    <2> QED
        BY <2>1, <2>2, <2>3, <2>4, <2>5
<1>4. ASSUME NEW p \in Poller, NEW q \in Poller, Pending(p)', Pending(q)',
             Occurrence(att'[p]) = Occurrence(att'[q])
      PROVE  p = q
    BY <1>3, <1>4 DEF ClaimsPast
<1> QED
    BY <1>1, <1>2, <1>3, <1>4 DEF ClaimsPast

(* A poll claims the occurrence its cursor is at, and the claim is stored. *)
LEMMA ClaimMade ==
    ASSUME IInv, StateTyped', Onward, \A o : Past(o) => Past(o)',
           NEW p \in Poller, NEW l \in Loop, att[p].st # "line",
           Joins(p, l, cadence[l].at), Stored(l), GoesOn, cadence'[l].at > cadence[l].at,
           disk'.body = Body', UNCHANGED sent
    PROVE  ClaimsPast'
<1>0. /\ StateTyped /\ ClaimsPast /\ att \in [Slot -> Attempt] /\ p \in Slot
      /\ \A k \in Loop : hash[k] \in Nat /\ cadence[k].at \in Nat
    BY DEF IInv, TypeOK, StateTyped, BoundaryTyped, Slot, Cursor
<1>c. PICK c : c = [loop |-> l, hash |-> hash[l], at |-> cadence[l].at]
    OBVIOUS
<1>1. /\ att'[p].st = "line" /\ Occurrence(att'[p]) = c
      /\ \A q \in Poller : q # p => att'[q] = att[q]
    BY <1>0, <1>c DEF Joins, Waiting, Occurrence, Slot
<1>2. ~Past(c)
    BY <1>0, <1>c DEF Past
<1>3. Past(c)'
    <2>1. hash'[l] = hash[l] /\ Stored(l)' /\ hash[l] \in Nat \ {0}
        BY <1>0 DEF GoesOn, Stored, ClaimsPast
    <2>2. disk'.body.loops[l].hash = hash[l] /\ disk'.body.loops[l].at = cadence'[l].at
        BY <2>1, BodyEntry
    <2> QED
        BY <1>0, <1>c, <2>1, <2>2 DEF Past
<1>4. c \notin sent /\ \A q \in Poller : Pending(q) => Occurrence(att[q]) # c
    BY <1>0, <1>2 DEF ClaimsPast
<1>5. \A k \in Loop : hash'[k] # 0
    BY <1>0 DEF ClaimsPast, GoesOn
<1>6. \A o \in sent' : Past(o)'
    BY <1>0 DEF ClaimsPast
<1>7. ASSUME NEW q \in Poller, Pending(q)', q # p
      PROVE  /\ Pending(q) /\ Occurrence(att'[q]) = Occurrence(att[q])
             /\ Past(Occurrence(att[q]))' /\ Occurrence(att'[q]) \notin sent'
    <2>1. att'[q] = att[q] /\ Pending(q)
        BY <1>1, <1>7 DEF Pending
    <2>2. PICK o : o = Occurrence(att[q])
        OBVIOUS
    <2>3. Past(o) /\ o \notin sent
        BY <1>0, <2>1, <2>2 DEF ClaimsPast
    <2>4. Past(o)' /\ o = Occurrence(att'[q])
        BY <2>1, <2>2, <2>3
    <2>5. Past(Occurrence(att[q]))'
        BY <2>4 DEF Past, Occurrence
    <2> QED
        BY <2>1, <2>2, <2>3, <2>4, <2>5
<1>8. Past(Occurrence(att[p]))' /\ Occurrence(att'[p]) \notin sent'
    <2>1. Past(Occurrence(att[p]))'
        BY <1>1, <1>3 DEF Past
    <2> QED
        BY <1>1, <1>4, <2>1
<1>9. ASSUME NEW q \in Poller, NEW r \in Poller, Pending(q)', Pending(r)',
             Occurrence(att'[q]) = Occurrence(att'[r])
      PROVE  q = r
    BY <1>0, <1>1, <1>4, <1>7, <1>9 DEF ClaimsPast
<1> QED
    BY <1>5, <1>6, <1>7, <1>8, <1>9 DEF ClaimsPast

(* The occurrence is submitted; no other attempt waits with it.            *)
LEMMA ClaimSent ==
    ASSUME IInv, StateTyped', Onward, \A o : Past(o) => Past(o)',
           NEW s \in Slot, Granted(s), att[s].st = "line"
    PROVE  ClaimsPast'
<1>0. ClaimsPast /\ StateTyped /\ att \in [Slot -> Attempt]
    BY DEF IInv, TypeOK, BoundaryTyped
<1>1. /\ att'[s].st = "queuing" /\ \A q \in Slot : q # s => att'[q] = att[q]
      /\ sent' = IF s \in Poller THEN sent \cup {Occurrence(att[s])} ELSE sent
    BY <1>0 DEF Granted, Attempt
<1>2. \A l \in Loop : hash'[l] # 0
    BY <1>0 DEF ClaimsPast, StateTyped, Onward
<1>3. \A o \in sent' : Past(o)'
    <2>1. s \in Poller => Past(Occurrence(att[s]))
        BY <1>0 DEF ClaimsPast, Pending
    <2>2. \A o \in sent' : Past(o)
        BY <1>0, <1>1, <2>1 DEF ClaimsPast
    <2> QED
        BY <2>2
<1>4. ASSUME NEW q \in Poller, Pending(q)'
      PROVE  /\ Pending(q) /\ Occurrence(att'[q]) = Occurrence(att[q])
             /\ Past(Occurrence(att[q]))' /\ Occurrence(att'[q]) \notin sent'
    <2>1. att'[q] = att[q] /\ Pending(q) /\ q # s
        BY <1>1, <1>4 DEF Pending, Slot
    <2>2. PICK o : o = Occurrence(att[q])
        OBVIOUS
    <2>3. Past(o) /\ o \notin sent /\ (s \in Poller => o # Occurrence(att[s]))
        BY <1>0, <2>1, <2>2 DEF ClaimsPast, Pending
    <2>4. Past(o)' /\ o = Occurrence(att'[q]) /\ o \notin sent'
        BY <1>1, <2>1, <2>2, <2>3
    <2>5. Past(Occurrence(att[q]))'
        BY <2>4 DEF Past, Occurrence
    <2> QED
        BY <2>1, <2>2, <2>3, <2>4, <2>5
<1>5. ASSUME NEW q \in Poller, NEW r \in Poller, Pending(q)', Pending(r)',
             Occurrence(att'[q]) = Occurrence(att'[r])
      PROVE  q = r
    BY <1>0, <1>4, <1>5 DEF ClaimsPast
<1> QED
    BY <1>2, <1>3, <1>4, <1>5 DEF ClaimsPast

LEMMA ClaimsStep ==
    ASSUME IInv, Next
    PROVE  ClaimsPast'
<1>0. /\ TypeOK /\ StateTyped /\ BoundaryTyped /\ AttemptsRefer /\ RunsRefer /\ LineWaits /\ PollsWait
      /\ ClaimsPast /\ att \in [Slot -> Attempt] /\ Displaced /\ FileNeverSaysPersistFailed
      /\ FileIsCurrent
    BY DEF IInv, TypeOK, BoundaryTyped, LineWaits
<1>1. TypeOK' /\ StateTyped' /\ FileTyped'
    BY TypesStep DEF TypeOK
<1>2. Onward
    BY NextOnward
<1>3. disk' = disk \/ disk'.body = Body'
    BY <1>0, <1>1, NextFile, FilesStep
<1>4. \A o : Past(o) => Past(o)'
    BY <1>0, <1>1, <1>2, <1>3, PastStays
<1>5. ASSUME UNCHANGED sent, \A p \in Poller : att'[p].st = "line" => att'[p] = att[p]
      PROVE  ClaimsPast'
    BY <1>0, <1>1, <1>2, <1>4, <1>5, ClaimsKept
<1>6. CASE Polls
    <2>1. PICK p \in Poller : PollStarts(p) \/ PollLoop(p) \/ PollThrows(p) \/ PollEnds(p)
        BY <1>6 DEF Polls
    <2>2. UNCHANGED sent /\ poll[p].pc # "attempt" /\ GoesOn
        BY <1>0, <2>1, PollBoundary, PollState
    <2>3. att[p].st = "none"
        BY <1>0, <2>2 DEF PollsWait
    <2>4. CASE UNCHANGED att
        BY <1>5, <2>2, <2>4
    <2>5. CASE \E l \in Loop : /\ Joins(p, l, cadence[l].at) /\ Stored(l)
                               /\ cadence'[l].at > cadence[l].at
                               /\ Recorded(anomaly, suppressed)
        <3>1. PICK l \in Loop : /\ Joins(p, l, cadence[l].at) /\ Stored(l)
                                /\ cadence'[l].at > cadence[l].at
                                /\ Recorded(anomaly, suppressed)
            BY <2>5
        <3>2. disk'.body = Body'
            BY <3>1 DEF Recorded, Written
        <3> QED
            BY <1>1, <1>2, <1>4, <2>2, <2>3, <3>1, <3>2, ClaimMade
    <2> QED
        BY <1>0, <2>1, <2>4, <2>5, PollBoundary
<1>7. CASE Attempts
    <2>1. PICK s \in Slot : Grant(s) \/ Answered(s) \/ RetiredReturns(s)
        BY <1>7 DEF Attempts
    <2>2. ASSUME Resumes(s), UNCHANGED sent
          PROVE  ClaimsPast'
        <3>1. \A p \in Poller : att'[p].st = "line" => att'[p] = att[p]
            BY <1>0, <2>2 DEF Resumes, NoAttempt, Slot
        <3> QED
            BY <1>5, <2>2, <3>1
    <2>3. CASE Grant(s)
        <3>1. att[s].st = "line" /\ (Refused(s) \/ Granted(s))
            BY <1>0, <2>3, GrantState
        <3> QED
            BY <1>1, <1>2, <1>4, <2>2, <3>1, ClaimSent DEF Refused
    <2>4. CASE Answered(s) \/ RetiredReturns(s)
        <3>1. Resumes(s) /\ UNCHANGED sent
            BY <2>4 DEF Answered, RetiredReturns, Unavailable
        <3> QED
            BY <2>2, <3>1
    <2> QED
        BY <2>1, <2>3, <2>4
<1>8. CASE Runs
    <2>1. CASE \E r \in Run : Abandon(r)
        <3>1. UNCHANGED sent /\ (RetireStalled \/ UNCHANGED att)
            BY <2>1 DEF Abandon
        <3>2. \A p \in Poller : att'[p].st = "line" => att'[p] = att[p]
            BY <1>0, <3>1 DEF RetireStalled, Slot, Attempt
        <3> QED
            BY <1>5, <3>1, <3>2
    <2>2. CASE UNCHANGED <<att, sent>>
        BY <1>5, <2>2
    <2> QED
        BY <1>8, <2>1, <2>2 DEF Runs, TurnEnds, OutsiderHolds, OutsiderDone, Deadline
<1>9. CASE Operations
    <2>1. CASE \E l \in Loop : RunNow(l)
        <3>1. UNCHANGED sent /\ \A p \in Poller : att'[p] = att[p]
            BY <1>0, <2>1, LoopAssumption DEF RunNow, Begins, Slot
        <3> QED
            BY <1>5, <3>1
    <2>2. CASE UNCHANGED <<att, sent>>
        BY <1>5, <2>2
    <2> QED
        BY <1>9, <2>1, <2>2 DEF Operations, Switch, Reload
<1>10. CASE NextAttempt \/ Crash
    <2>1. att' = [s \in Slot |-> NoAttempt] /\ UNCHANGED sent
        BY <1>10, Zenon DEF NextAttempt, Crash, Restart
    <2>2. \A p \in Poller : att'[p].st # "line"
        BY <2>1 DEF NoAttempt, Slot
    <2> QED
        BY <1>5, <2>1, <2>2
<1>11. CASE Others \/ Tick \/ (\E t \in 0..MaxTime : ClockBack(t)) \/ Stop
    BY <1>5, <1>11 DEF Others, OtherAsks, OtherTurn, SessionDies, Tick, ClockBack, Stop
<1> QED
    BY <1>6, <1>7, <1>8, <1>9, <1>10, <1>11 DEF Next, Process

-----------------------------------------------------------------------------
(* The timer of the manager.                                               *)

LEMMA ArmedKept ==
    ASSUME StaysArmed, UNCHANGED <<phase, armed, poll, defs>>, SwitchesKept
    PROVE  StaysArmed'
BY DEF StaysArmed, SwitchesKept, Enabled

LEMMA ArmedAgain ==
    ASSUME Schedule \/ Rearm \/ armed' = (failing' \/ \E l \in Loop : Enabled(l)'),
           UNCHANGED phase \/ ~(Schedule \/ Rearm)
    PROVE  StaysArmed'
BY DEF Schedule, Rearm, StaysArmed

LEMMA ArmedStep ==
    ASSUME IInv, Next
    PROVE  StaysArmed'
<1>0. /\ TypeOK /\ StateTyped /\ AttemptsRefer /\ RunsRefer /\ LineWaits /\ StaysArmed
      /\ poll \in [Poller -> [pc : {"rest", "looping", "attempt"}, todo : SUBSET Loop, now : Nat]]
    BY DEF IInv, TypeOK, TimersHold, ManagerTyped
<1>1. ASSUME NEW p \in Poller, poll'[p].pc # "rest"
      PROVE  StaysArmed'
    BY <1>1 DEF StaysArmed
<1>2. CASE Polls
    <2>1. PICK p \in Poller : PollStarts(p) \/ PollLoop(p) \/ PollThrows(p) \/ PollEnds(p)
        BY <1>2 DEF Polls
    <2>2. CASE PollStarts(p)
        <3>1. UNCHANGED phase /\ (Schedule \/ poll'[p].pc # "rest")
            BY <1>0, <2>2 DEF PollStarts, Paused
        <3> QED
            BY <1>1, <3>1, ArmedAgain
    <2>3. CASE PollLoop(p)
        <3>1. poll'[p].pc # "rest"
            BY <1>0, <2>3 DEF PollLoop, Claimed
        <3> QED
            BY <1>1, <3>1
    <2>4. CASE PollThrows(p) \/ PollEnds(p)
        BY <2>4, ArmedAgain DEF PollThrows, PollEnds
    <2> QED
        BY <2>1, <2>2, <2>3, <2>4
<1>3. CASE Attempts
    <2>1. PICK s \in Slot : Grant(s) \/ Answered(s) \/ RetiredReturns(s)
        BY <1>3 DEF Attempts
    <2>2. UNCHANGED <<phase, armed, defs>>
        BY <2>1 DEF Grant, Answered, RetiredReturns
    <2>3. SwitchesKept
        <3>1. CASE RetiredReturns(s)
            BY <1>0, <3>1, UnavailableState DEF RetiredReturns
        <3> QED
            BY <1>0, <2>1, <3>1, GrantState, AnsweredState
    <2>4. UNCHANGED poll \/ Resumes(s)
        BY <2>1 DEF Grant, Answered, RetiredReturns, Unavailable
    <2>5. CASE UNCHANGED poll
        BY <1>0, <2>2, <2>3, <2>5, ArmedKept
    <2>6. CASE Resumes(s) /\ s \in Poller
        <3>1. poll'[s].pc # "rest"
            BY <1>0, <2>6 DEF Resumes
        <3> QED
            BY <1>1, <2>6, <3>1
    <2> QED
        BY <2>4, <2>5, <2>6 DEF Resumes
<1>4. CASE Runs \/ Others \/ (\E l \in Loop : RunNow(l)) \/ Tick \/ \E t \in 0..MaxTime : ClockBack(t)
    <2>1. UNCHANGED <<phase, armed, defs, poll>>
        BY <1>4 DEF Runs, TurnEnds, OutsiderHolds, OutsiderDone, Deadline, Abandon,
                Others, OtherAsks, OtherTurn, SessionDies, RunNow, Tick, ClockBack
    <2>2. SwitchesKept
        <3>1. CASE TurnEnds \/ \E r \in Run : Abandon(r)
            BY <1>0, <3>1, TurnEndsState, AbandonState
        <3>2. CASE UNCHANGED cadence
            BY <3>2 DEF SwitchesKept
        <3> QED
            BY <1>4, <3>1, <3>2 DEF Runs, OutsiderHolds, OutsiderDone, Deadline,
                Others, OtherAsks, OtherTurn, SessionDies, RunNow, Tick, ClockBack, stateVars
    <2> QED
        BY <1>0, <2>1, <2>2, ArmedKept
<1>5. CASE (\E l \in Loop, off \in BOOLEAN : Switch(l, off))
           \/ \E new \in NewConfig, changed \in SUBSET Loop : Reload(new, changed)
    <2>1. Schedule /\ UNCHANGED phase
        BY <1>5 DEF Switch, Reload
    <2> QED
        BY <2>1, ArmedAgain
<1>6. CASE Stop
    BY <1>6 DEF Stop, StaysArmed
<1>7. CASE NextAttempt \/ Crash
    <2>1. armed' = (failing' \/ \E l \in Loop : Enabled(l)')
        BY <1>7, Zenon DEF NextAttempt, Crash, Restart
    <2> QED
        BY <2>1 DEF StaysArmed
<1> QED
    BY <1>2, <1>3, <1>4, <1>5, <1>6, <1>7 DEF Next, Operations, Process

(* The timers of the runs.                                                 *)
StillOwned(r) == objs'[info[r].loop][info[r].obj].run = r

QueuingKept == \A s \in Slot : att[s].st = "queuing" => att'[s] = att[s]

(* No write makes a run the owner of a slot it does not own already.       *)
LEMMA OwnersStay ==
    ASSUME RunsRefer, NEW r \in Run, info[r].loop # 0, StillOwned(r),
           SameObjects \/ \E x : Sets(x, NoRun)
    PROVE  Owned(r)
<1>1. Refers(info[r])
    BY DEF RunsRefer
<1>2. r # NoRun
    BY LoopAssumption
<1>3. CASE SameObjects
    BY <1>1, <1>3 DEF SameObjects, Refers, StillOwned, Owned
<1>4. CASE \E x : Sets(x, NoRun)
    BY <1>1, <1>2, <1>4 DEF Sets, Refers, StillOwned, Owned
<1> QED
    BY <1>3, <1>4

LEMMA SlotLost ==
    ASSUME RunsRefer, NEW r \in Run, info[r].loop # 0, NEW x, Sets(x, NoRun),
           x.loop = info[r].loop, x.obj = info[r].obj
    PROVE  ~StillOwned(r)
<1>1. Refers(info[r])
    BY DEF RunsRefer
<1> QED
    BY <1>1, LoopAssumption DEF Sets, Refers, StillOwned

LEMMA TimedKept ==
    ASSUME SlotIsTimed, BoundaryTyped, UNCHANGED <<phase, used, info>>,
           \A r \in used : info[r].loop # 0 /\ StillOwned(r) => Owned(r),
           \A r \in used : info[r].loop # 0 /\ StillOwned(r) /\ phase = "started" =>
              /\ r \in deadline \cup abandon => r \in deadline' \cup abandon'
              /\ \A s \in Slot : att[s].st = "queuing" /\ att[s].run = r =>
                    r \in deadline' \cup abandon' \/ att'[s] = att[s]
    PROVE  SlotIsTimed'
<1> SUFFICES ASSUME phase = "started", NEW r \in used, info[r].loop # 0, StillOwned(r)
             PROVE  \/ r \in deadline' \cup abandon'
                    \/ \E s \in Slot : att'[s].st = "queuing" /\ att'[s].run = r
    BY DEF SlotIsTimed, Owned, StillOwned
<1>1. Owned(r)
    OBVIOUS
<1>2. r \in deadline \cup abandon \/ \E s \in Slot : att[s].st = "queuing" /\ att[s].run = r
    BY <1>1 DEF SlotIsTimed
<1> QED
    BY <1>2

LEMMA TimedStep ==
    ASSUME IInv, Next
    PROVE  SlotIsTimed'
<1>0. /\ TypeOK /\ StateTyped /\ BoundaryTyped /\ AttemptsRefer /\ RunsRefer /\ LineWaits /\ SlotIsTimed
      /\ att \in [Slot -> Attempt] /\ used \subseteq Run
      /\ \A p \in Poller : att[p].st # "none" => poll[p].pc = "attempt"
    BY DEF IInv, TypeOK, TimersHold, BoundaryTyped, LineWaits, PollsWait
<1>1. ASSUME UNCHANGED <<phase, used, info, timers>>, QueuingKept,
             SameObjects \/ \E x : Sets(x, NoRun)
      PROVE  SlotIsTimed'
    BY <1>0, <1>1, OwnersStay, TimedKept DEF QueuingKept, timers
<1>2. CASE Polls
    <2>1. PICK p \in Poller : PollStarts(p) \/ PollLoop(p) \/ PollThrows(p) \/ PollEnds(p)
        BY <1>2 DEF Polls
    <2>2. /\ UNCHANGED <<used, info, timers>> /\ SameObjects /\ att[p].st = "none"
          /\ UNCHANGED att \/ \E l \in Loop : Joins(p, l, cadence[l].at)
        BY <1>0, <2>1, PollBoundary, PollState
    <2>3. UNCHANGED phase
        BY <2>1 DEF PollStarts, PollLoop, PollThrows, PollEnds
    <2>4. QueuingKept
        BY <1>0, <2>2 DEF Joins, QueuingKept, Slot
    <2> QED
        BY <1>1, <2>2, <2>3, <2>4
<1>3. ASSUME NEW s \in Slot, Resumes(s), att[s].st # "queuing"
      PROVE  QueuingKept
    BY <1>0, <1>3 DEF Resumes, QueuingKept
<1>4. ASSUME NEW s \in Slot, Grant(s)
      PROVE  SlotIsTimed'
    <2>1. att[s].st = "line" /\ (Refused(s) \/ Granted(s)) /\ UNCHANGED <<phase, timers>>
        BY <1>0, <1>4, GrantState DEF Grant
    <2>2. CASE Refused(s)
        BY <1>1, <1>3, <2>1, <2>2 DEF Refused
    <2>3. CASE Granted(s)
        <3>1. PICK q \in Run \ used :
                /\ att' = [att EXCEPT ![s].st = "queuing", ![s].run = q]
                /\ used' = used \cup {q} /\ Sets(att[s], q)
                /\ info' = [info EXCEPT ![q] = [loop |-> att[s].loop, obj |-> att[s].obj]]
            BY <2>3 DEF Granted
        <3>2. /\ att'[s].st = "queuing" /\ att'[s].run = q
              /\ \A t \in Slot : t # s => att'[t] = att[t]
            BY <1>0, <3>1 DEF Attempt
        <3>3. \A r \in used : r # q /\ r \in Run /\ info'[r] = info[r]
            BY <1>0, <3>1 DEF BoundaryTyped
        <3>4. ASSUME NEW r \in used, info[r].loop # 0, StillOwned(r)
              PROVE  Owned(r)
            <4>1. Refers(info[r]) /\ r # q
                BY <1>0, <3>3, <3>4 DEF RunsRefer
            <4> QED
                BY <3>1, <3>4, <4>1 DEF Sets, Refers, StillOwned, Owned
        <3>5. ASSUME NEW r \in used, phase = "started", info'[r].loop # 0, Owned(r)'
              PROVE  \/ r \in deadline' \cup abandon'
                     \/ \E t \in Slot : att'[t].st = "queuing" /\ att'[t].run = r
            <4>1. StillOwned(r) /\ Owned(r) /\ info[r].loop # 0
                BY <3>3, <3>4, <3>5 DEF StillOwned, Owned
            <4>2. \/ r \in deadline \cup abandon
                  \/ \E t \in Slot : att[t].st = "queuing" /\ att[t].run = r
                BY <1>0, <3>5, <4>1 DEF SlotIsTimed
            <4> QED
                BY <2>1, <3>2, <4>2 DEF timers
        <3> QED
            BY <2>1, <3>1, <3>2, <3>5 DEF SlotIsTimed
    <2> QED
        BY <2>1, <2>2, <2>3
<1>5. ASSUME NEW s \in Slot, Answered(s)
      PROVE  SlotIsTimed'
    <2>1. /\ Resumes(s) /\ att[s].st = "queuing"
          /\ \/ SameObjects /\ deadline' = deadline \cup {att[s].run}
             \/ Sets(att[s], NoRun) /\ UNCHANGED deadline
          /\ UNCHANGED <<phase, used, info, abandon>>
        BY <1>0, <1>5, AnsweredState DEF Answered
    <2>2. \A t \in Slot : t # s => att'[t] = att[t]
        BY <1>0, <2>1 DEF Resumes
    <2>3. \A r \in used : info[r].loop # 0 /\ StillOwned(r) => Owned(r)
        BY <1>0, <2>1, OwnersStay
    <2>4. ASSUME Sets(att[s], NoRun)
          PROVE  ~StillOwned(att[s].run)
        <3>1. /\ att[s].run \in Run /\ Refers(att[s])
              /\ info[att[s].run] = [loop |-> att[s].loop, obj |-> att[s].obj]
            BY <1>0, <2>1 DEF AttemptsRefer
        <3>2. info[att[s].run].loop # 0 /\ info[att[s].run].loop = att[s].loop
              /\ info[att[s].run].obj = att[s].obj
            BY <3>1, LoopAssumption DEF Refers
        <3> QED
            BY <1>0, <2>4, <3>1, <3>2, SlotLost
    <2> QED
        BY <1>0, <2>1, <2>2, <2>3, <2>4, TimedKept
<1>6. ASSUME NEW s \in Slot, RetiredReturns(s)
      PROVE  SlotIsTimed'
    BY <1>0, <1>1, <1>3, <1>6, UnavailableState DEF RetiredReturns
<1>7. CASE TurnEnds
    <2>1. /\ UNCHANGED <<phase, used, info, abandon, att>>
          /\ turn \in Run => deadline' = deadline \ {turn}
          /\ turn \notin Run => UNCHANGED deadline
        BY <1>7 DEF TurnEnds, Finish
    <2>2. /\ turn \in Run /\ Owned(turn) => Sets(info[turn], NoRun)
          /\ ~(turn \in Run /\ Owned(turn)) => SameObjects
        BY <1>0, <1>7, TurnEndsState
    <2>3. \A r \in used : info[r].loop # 0 /\ StillOwned(r) => Owned(r)
        BY <1>0, <2>2, OwnersStay
    <2>4. turn \in Run => ~StillOwned(turn)
        <3>1. turn \in Run => info[turn].loop # 0
            BY <1>0 DEF RunsRefer
        <3>2. CASE turn \in Run /\ Owned(turn)
            BY <1>0, <2>2, <3>1, <3>2, SlotLost
        <3>3. CASE turn \in Run /\ ~Owned(turn)
            BY <1>0, <2>2, <3>1, <3>3, OwnersStay
        <3> QED
            BY <3>2, <3>3
    <2> QED
        BY <1>0, <2>1, <2>3, <2>4, TimedKept
<1>8. CASE UNCHANGED <<phase, used, info, timers, att, objs>>
    BY <1>0, <1>1, <1>8 DEF QueuingKept, SameObjects, Lengths
<1>9. ASSUME NEW r \in Run, Deadline(r)
      PROVE  SlotIsTimed'
    <2>1. /\ UNCHANGED <<phase, used, info, att, objs>> /\ deadline' = deadline \ {r}
          /\ Owned(r) /\ phase = "started" => abandon' = abandon \cup {r}
          /\ abandon \subseteq abandon'
        BY <1>9 DEF Deadline, Cancel, stateVars
    <2>2. \A q \in used : StillOwned(q) => Owned(q)
        BY <2>1 DEF StillOwned, Owned
    <2> QED
        BY <1>0, <2>1, <2>2, TimedKept
<1>10. ASSUME NEW r \in Run, Abandon(r)
      PROVE  SlotIsTimed'
    <2>1. /\ UNCHANGED <<phase, used, info, deadline>> /\ abandon' = abandon \ {r}
          /\ info[r].loop # 0
        BY <1>0, <1>10 DEF Abandon, RunsRefer
    <2>2. /\ Abandons(r) => Sets(info[r], NoRun) /\ RetireStalled
          /\ ~Abandons(r) => SameObjects /\ UNCHANGED <<line, holder, att>>
        BY <1>0, <1>10, AbandonState
    <2>3. \A q \in used : info[q].loop # 0 /\ StillOwned(q) => Owned(q)
        BY <1>0, <2>2, OwnersStay
    <2>4. phase = "started" => ~StillOwned(r)
        <3>1. CASE Abandons(r)
            BY <1>0, <2>1, <2>2, <3>1, SlotLost
        <3>2. CASE ~Abandons(r)
            BY <1>0, <2>1, <2>2, <3>2, OwnersStay DEF Abandons
        <3> QED
            BY <3>1, <3>2
    <2>5. QueuingKept
        BY <1>0, <2>2 DEF RetireStalled, QueuingKept
    <2> QED
        BY <1>0, <2>1, <2>3, <2>4, <2>5, TimedKept DEF QueuingKept
<1>11. CASE \E l \in Loop : RunNow(l)
    <2>1. UNCHANGED <<phase, used, info, timers, objs>> /\ QueuingKept
        BY <1>0, <1>11 DEF RunNow, Begins, stateVars, QueuingKept
    <2> QED
        BY <1>0, <1>1, <2>1 DEF SameObjects, Lengths
<1>12. ASSUME NEW new \in NewConfig, NEW changed \in SUBSET Loop, Reload(new, changed)
       PROVE  SlotIsTimed'
    <2>1. UNCHANGED <<phase, used, info, timers, att>>
        BY <1>12 DEF Reload
    <2>2. ASSUME NEW r \in used, info[r].loop # 0, StillOwned(r)
          PROVE  Owned(r)
        <3>1. Refers(info[r])
            BY <1>0, <2>2 DEF RunsRefer
        <3>2. objs'[info[r].loop][info[r].obj] = objs[info[r].loop][info[r].obj]
            BY <1>0, <1>12, <3>1, ReloadState DEF Refers
        <3> QED
            BY <2>2, <3>2 DEF StillOwned, Owned
    <2> QED
        BY <1>0, <2>1, <2>2, TimedKept DEF timers
<1>13. CASE \E l \in Loop, off \in BOOLEAN : Switch(l, off)
    BY <1>8, <1>13 DEF Switch
<1>14. CASE Stop
    BY <1>14 DEF Stop, SlotIsTimed
<1>15. CASE NextAttempt \/ Crash
    <2>1. info' = [r \in Run |-> [loop |-> 0, obj |-> 0]] /\ used' = used
        BY <1>15, Zenon DEF NextAttempt, Crash, Restart
    <2> QED
        BY <1>0, <2>1 DEF SlotIsTimed
<1>16. CASE OutsiderHolds \/ OutsiderDone \/ Others \/ Tick \/ \E t \in 0..MaxTime : ClockBack(t)
    BY <1>8, <1>16 DEF OutsiderHolds, OutsiderDone, Others, OtherAsks, OtherTurn, SessionDies, Tick,
            ClockBack, stateVars
<1> QED
    BY <1>2, <1>4, <1>5, <1>6, <1>7, <1>9, <1>10, <1>11, <1>12, <1>13, <1>14, <1>15, <1>16
    DEF Next, Attempts, Runs, Operations, Process

-----------------------------------------------------------------------------
LEMMA InitState == Init => StateTyped
<1> SUFFICES ASSUME Init
             PROVE  StateTyped
    OBVIOUS
<1>1. PICK jitter \in [Loop -> Jitter] :
         cadence = [l \in Loop |-> [at |-> Delay, due |-> Delay + jitter[l], off |-> FALSE]]
    BY DEF Init
<1>2. ASSUME NEW l \in Loop
      PROVE  cadence[l] \in Cursor /\ cadence[l].due - cadence[l].at \in Jitter
    <2>1. jitter[l] \in Jitter /\ jitter[l] \in Nat
        BY <1>1, JitterIsNat
    <2>2. cadence[l] = [at |-> Delay, due |-> Delay + jitter[l], off |-> FALSE]
        BY <1>1
    <2> QED
        BY <2>1, <2>2, LoopAssumption DEF Cursor
<1>3. cadence \in [Loop -> Cursor]
    BY <1>1, <1>2
<1>4. objs \in [Loop -> Seq(Object)] /\ \A l \in Loop : objs[l] # <<>>
    <2>1. <<[run |-> NoRun, gap |-> {}]>> \in Seq(Object)
        BY DEF Object
    <2>2. objs = [l \in Loop |-> <<[run |-> NoRun, gap |-> {}]>>]
        BY DEF Init
    <2> QED
        BY <2>1, <2>2
<1> QED
    BY <1>2, <1>3, <1>4 DEF Init, StateTyped

LEMMA InitTypes == Init => TypeOK
<1> SUFFICES ASSUME Init
             PROVE  TypeOK
    OBVIOUS
<1>1. StateTyped /\ BodyOK
    BY InitState, BodyIsTyped
<1>2. FileTyped
    BY <1>1 DEF Init, FileTyped, BodyOK, Anomaly
<1>3. ManagerTyped
    BY DEF Init, ManagerTyped, Resting
<1>4. NoAttempt \in Attempt /\ <<>> \in Seq(Slot \cup Outsider)
    BY DEF NoAttempt, Attempt
<1>5. BoundaryTyped
    BY <1>4 DEF Init, BoundaryTyped
<1> QED
    BY <1>1, <1>2, <1>3, <1>5 DEF TypeOK

(* It holds at the start and every step keeps it.                          *)
THEOREM Invariance == Spec => []IInv
<1>1. Init => IInv
    <2> SUFFICES ASSUME Init
                 PROVE  IInv
        OBVIOUS
    <2>1. TypeOK
        BY InitTypes
    <2>2. References
        BY LoopAssumption DEF Init, References, AttemptsRefer, RunsRefer, LineWaits, InLine, PollsWait,
                NoAttempt, Slot
    <2>3. Displaced /\ FileNeverSaysPersistFailed /\ FileIsCurrent /\ TimersHold
        BY DEF Init, Displaced, FileNeverSaysPersistFailed, FileIsCurrent, TimersHold, StaysArmed,
                SlotIsTimed
    <2>4. ClaimsPast
        BY DEF Init, ClaimsPast, Pending, NoAttempt, Slot
    <2> QED
        BY <2>1, <2>2, <2>3, <2>4 DEF IInv, References
<1>2. IInv /\ [Next]_vars => IInv'
    <2>1. ASSUME IInv, Next
          PROVE  IInv'
        <3>1. TypeOK' /\ StateTyped'
            BY <2>1, TypesStep DEF TypeOK
        <3>2. Displaced' /\ FileNeverSaysPersistFailed' /\ FileIsCurrent'
            BY <2>1, <3>1, NextFile, FilesStep DEF IInv
        <3> QED
            BY <2>1, <3>1, <3>2, ReferencesStep, ClaimsStep, ArmedStep, TimedStep
            DEF IInv, References, TimersHold
    <2>2. ASSUME IInv, UNCHANGED vars
          PROVE  IInv'
        <3>1. /\ UNCHANGED <<defs, hash, cadence, objs, wall, anomaly, suppressed, failing, disk>>
              /\ UNCHANGED <<pollFailed, now, phase, armed, poll, att, line, holder, turn, alive,
                             used, info, deadline, abandon, sent>>
            BY <2>2 DEF vars, stateVars, fileVars, boundary, timers
        <3>2. TypeOK'
            BY <2>2, <3>1 DEF IInv, TypeOK, StateTyped, FileTyped, ManagerTyped, BoundaryTyped
        <3>3. AttemptsRefer' /\ RunsRefer' /\ LineWaits'
            BY <2>2, <3>1 DEF IInv, AttemptsRefer, RunsRefer, LineWaits, InLine, PollsWait, Refers
        <3>4. Displaced' /\ FileNeverSaysPersistFailed' /\ FileIsCurrent'
            BY <2>2, <3>1 DEF IInv, Displaced, FileNeverSaysPersistFailed, FileIsCurrent, Body,
                    Stored, InUse
        <3>5. ClaimsPast'
            BY <2>2, <3>1 DEF IInv, ClaimsPast, Past, Pending, Occurrence, Stored
        <3>6. TimersHold'
            BY <2>2, <3>1 DEF IInv, TimersHold, StaysArmed, SlotIsTimed, Enabled, Owned
        <3> QED
            BY <3>2, <3>3, <3>4, <3>5, <3>6 DEF IInv
    <2> QED
        BY <2>1, <2>2
<1> QED
    BY <1>1, <1>2, PTL DEF Spec

(* Every variable keeps its type: in particular the jitter of a cursor is  *)
(* one the code may draw, in memory and in the file, whatever is skipped,  *)
(* reloaded or restored (state.ts, manager.ts).                            *)
THEOREM Typing == Spec => []TypeOK
<1>1. IInv => TypeOK
    BY DEF IInv
<1> QED
    BY <1>1, Invariance, PTL

(* The stored checkpoint can be trusted by the process that restores it    *)
(* (state.ts: persist; manager.ts: the claim is stored before the attempt).*)
THEOREM Checkpoint == Spec => []FileIsTrue
<1>1. IInv => FileIsTrue
    <2> SUFFICES ASSUME IInv
                 PROVE  SentIsBehind
        BY DEF IInv, FileIsTrue
    <2> QED
        BY DEF IInv, ClaimsPast, Past, SentIsBehind
<1> QED
    BY <1>1, Invariance, PTL

(* The manager's timer stays set while a loop is enabled, and every run    *)
(* that holds a slot has a timer that ends it (manager.ts: schedule,       *)
(* recover, armDeadline, armAbandon).                                      *)
THEOREM Timers == Spec => []TimersHold
<1>1. IInv => TimersHold
    BY DEF IInv
<1> QED
    BY <1>1, Invariance, PTL

(* At most once outranks running the occurrence: none is submitted twice,  *)
(* whatever writes fail and however often the process is replaced.         *)
THEOREM AtMostOnce == Spec => OccurrenceOnce
<1>1. IInv /\ [Next]_vars => [\A p \in Poller : Claims(p) => Occurrence(att[p]) \notin sent]_vars
    <2> SUFFICES ASSUME IInv, NEW p \in Poller, Claims(p)
                 PROVE  Occurrence(att[p]) \notin sent
        OBVIOUS
    <2> QED
        BY DEF IInv, ClaimsPast, Pending, Claims
<1> QED
    BY <1>1, Invariance, PTL DEF Spec, OccurrenceOnce

(* What the operator disabled is switched on by the operator alone: the    *)
(* file and the cursor agree on it whenever no write has failed.           *)
THEOREM DisabledStays == Spec => DisableLasts
<1> DEFINE Lasts == \A l \in Loop :
               ~failing /\ Stored(l) /\ Stored(l)' /\ cadence[l].off /\ ~cadence'[l].off
               => Switch(l, FALSE)
<1>1. ASSUME IInv, Next, NEW l \in Loop,
             ~failing, Stored(l), Stored(l)', cadence[l].off, ~cadence'[l].off
      PROVE  Switch(l, FALSE)
    <2>0. /\ TypeOK /\ StateTyped /\ AttemptsRefer /\ RunsRefer /\ LineWaits
          /\ wall \in Nat /\ now \in Nat /\ cadence \in [Loop -> Cursor]
        BY <1>1 DEF IInv, TypeOK, StateTyped
    <2>1. StoredOff(l)
        <3>1. disk.body = Body
            BY <1>1 DEF IInv, FileIsCurrent
        <3> QED
            BY <1>1, <3>1 DEF StoredOff, Body
    <2>2. ~SwitchesKept /\ ~UNCHANGED cadence
        BY <1>1 DEF SwitchesKept
    <2>3. ~Polls
        BY <2>0, <2>2, PollState DEF Polls
    <2>4. ~Attempts
        <3>1. ~ \E s \in Slot : RetiredReturns(s)
            BY <2>0, <2>2 DEF RetiredReturns, Unavailable
        <3> QED
            BY <2>0, <2>2, <3>1, GrantState, AnsweredState DEF Attempts
    <2>5. ~Runs
        <3>1. ~TurnEnds /\ ~ \E r \in Run : Abandon(r)
            BY <2>0, <2>2, TurnEndsState, AbandonState
        <3> QED
            BY <2>2, <3>1 DEF Runs, OutsiderHolds, OutsiderDone, Deadline, stateVars
    <2>6. ~Others /\ ~Tick /\ ~(\E t \in 0..MaxTime : ClockBack(t)) /\ ~Stop
        BY <2>2 DEF Others, OtherAsks, OtherTurn, SessionDies, Tick, ClockBack, Stop, stateVars
    <2>7. ~NextAttempt /\ ~Crash
        BY <1>1, <2>0, <2>1, RestartState DEF NextAttempt, Crash
    <2>8. PICK k \in Loop : \E off \in BOOLEAN : Switch(k, off)
        <3>1. ~ \E k \in Loop : RunNow(k)
            BY <2>2 DEF RunNow, stateVars
        <3>2. ~ \E new \in NewConfig, changed \in SUBSET Loop : Reload(new, changed)
            BY <1>1, <2>0, ReloadState
        <3> QED
            BY <1>1, <2>3, <2>4, <2>5, <2>6, <2>7, <3>1, <3>2 DEF Next, Operations, Process
    <2>9. PICK off \in BOOLEAN : Switch(k, off)
        BY <2>8
    <2>10. cadence' = [cadence EXCEPT ![k].off = off]
        BY <2>9 DEF Switch
    <2>11. k = l /\ off = FALSE
        BY <1>1, <2>0, <2>9, <2>10 DEF Cursor
    <2> QED
        BY <2>9, <2>11
<1>2. IInv /\ [Next]_vars => [Lasts]_vars
    BY <1>1
<1> QED
    BY <1>2, Invariance, PTL DEF Spec, DisableLasts
=============================================================================
