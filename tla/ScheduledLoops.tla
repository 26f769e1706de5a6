--------------------------- MODULE ScheduledLoops ---------------------------
(***************************************************************************)
(* Scheduled loops of one role: the manager (src/src/loops/manager.ts),    *)
(* its state file (src/src/loops/state.ts), and tryScheduled, interrupt    *)
(* and retireStalledAdmission of the role's admission boundary             *)
(* (src/src/session/arbiter.ts).                                           *)
(*                                                                         *)
(* The process is single-threaded.  A poll runs until it awaits an attempt *)
(* and then goes on with the list of due loops it made when it started;    *)
(* while it is "looping" nothing else runs.  Anything that calls schedule  *)
(* during the await arms the timer, so a second poll may overlap.          *)
(*                                                                         *)
(* A reload replaces the state object of every loop by a copy; an attempt  *)
(* and the run it starts keep the object they were given.  objs[l] holds   *)
(* the objects loop l has had in this process, the last one in use.        *)
(***************************************************************************)
EXTENDS Naturals, Sequences, FiniteSets

CONSTANTS
    Loop,          \* the configured loops; their order is that of the names
    Run,           \* run identifiers (bound on the runs)
    Poller,        \* polls that may overlap
    Operator,      \* the run-now request
    Interval,      \* intervalMs
    Jitter,        \* what deterministicJitter may answer
    Delay,         \* initialDelayMs
    Regression,    \* the step back of the clock that is tolerated
    NewConfig,     \* what a reload may find: the loops' definitions
    MaxTime,       \* bound: the clock stops here
    MaxCommands,   \* bound: run-nows, enables, disables, reloads, others at the boundary
    MaxMishaps,    \* bound: failed writes, failed prompts, clock steps, deaths, crashes
    NoRun          \* activeRunId: null

ASSUME LoopAssumption ==
    /\ Loop \subseteq Nat \ {0}
    /\ NoRun \notin Run /\ Run \cap {"none", "other"} = {}
    /\ Operator \notin Poller /\ (Poller \cup {Operator}) \cap {"free", "interrupt", "other"} = {}
    /\ NewConfig \subseteq [Loop -> {"absent", "disabled", "enabled"}]
    /\ Interval \in Nat \ {0} /\ Delay \in Nat /\ Regression \in Nat /\ MaxTime \in Nat
    /\ Jitter \subseteq 0..(Interval - 1) /\ 0 \in Jitter

VARIABLES
    defs, hash,    \* the definition of each loop: absent, disabled or enabled; its hash
    cadence,       \* nextScheduledAt, nextDueAt, operatorDisabled
    objs,          \* activeRunId and missedGap, per state object
    wall,          \* clock.lastWallMs
    anomaly,       \* of the state's health, "none" when healthy
    suppressed,    \* the anomaly displaced by persist_failed, or "unset"
    failing,       \* persistFailures > 0
    pollFailed,    \* pollFailures > 0
    disk,          \* the state file
    now,           \* the wall clock
    phase,         \* of the manager: started or stopping
    armed,         \* its timer is set
    poll,          \* per poller: where it is, the due loops left, its idea of now
    att,           \* per poller and for the operator: the attempt under way
    line, holder,  \* the admission boundary: who waits, who has it
    turn,          \* the session's turn: none, other, or a run
    alive,         \* the session is alive
    used, info,    \* the runs used so far; the loop and the state object of each
    deadline, abandon,   \* runs whose timeout, whose abandon timer is set
    commands, mishaps,
    sent           \* history: the occurrences claimed by polls

fileVars  == <<anomaly, suppressed, failing, disk>>
stateVars == <<cadence, objs, wall>>
timers    == <<deadline, abandon>>
boundary  == <<line, holder>>
vars == <<defs, hash, stateVars, fileVars, pollFailed, now, phase, armed, poll, att,
          boundary, turn, alive, used, info, timers, commands, mishaps, sent>>

Slot == Poller \cup {Operator}
NoAttempt == [st |-> "none", loop |-> 0, hash |-> 0, obj |-> 0, at |-> 0, gap |-> {},
              run |-> NoRun]
Resting   == [pc |-> "rest", todo |-> {}, now |-> 0]
Blank     == [at |-> 0, due |-> 0, off |-> FALSE, hash |-> 0, run |-> NoRun, gap |-> {}]

Occurrence(a) == [loop |-> a.loop, hash |-> a.hash, at |-> a.at]

InUse(l)  == Len(objs[l])
Enabled(l) == defs[l] = "enabled" /\ ~cadence[l].off
Stored(l) == defs[l] # "absent"                  \* the state has an entry for l

(* No poll is between two awaits: anything but that poll may run.          *)
Quiet == \A p \in Poller : poll[p].pc # "looping"

Mishap  == mishaps < MaxMishaps /\ mishaps' = mishaps + 1
Command == commands < MaxCommands /\ commands' = commands + 1

-----------------------------------------------------------------------------
(* persist().  It never throws: a failed write is noted in memory, and the *)
(* note is taken back before the next write.                               *)

Body ==
    [loops |-> [l \in Loop |->
        IF ~Stored(l) THEN Blank
        ELSE [at |-> cadence[l].at, due |-> cadence[l].due, off |-> cadence[l].off,
              hash |-> hash[l],
              run |-> objs[l][InUse(l)].run, gap |-> objs[l][InUse(l)].gap]],
     wall |-> wall]

(* displaced is the anomaly that persist_failed stands for.                *)
Unmarked(a, displaced) ==
    IF displaced # "unset" /\ a = "persist_failed" THEN displaced ELSE a

Written(a, displaced) == disk' = [body |-> Body', anomaly |-> Unmarked(a, displaced)]

Saved(a, displaced) ==
    /\ Written(a, displaced) /\ UNCHANGED mishaps
    /\ anomaly' = Unmarked(a, displaced) /\ suppressed' = "unset" /\ failing' = FALSE

(* The write fails before or after the file is replaced.                   *)
Unsaved(a, displaced) ==
    /\ Written(a, displaced) \/ UNCHANGED disk
    /\ Mishap
    /\ anomaly' = "persist_failed" /\ failing' = TRUE
    /\ suppressed' = IF Unmarked(a, displaced) = "persist_failed"
                     THEN displaced ELSE Unmarked(a, displaced)

Persist(a) == Saved(a, suppressed) \/ Unsaved(a, suppressed)

(* schedule(): the timer is set while a loop is due or writes are failing. *)
Schedule == armed' = (phase = "started" /\ (failing' \/ \E l \in Loop : Enabled(l)'))

-----------------------------------------------------------------------------
(* The cursor of a loop.                                                   *)

(* mutant: advance moves the nominal time and not the due time.            *)
AdvancedNominally(l, k) == {[cadence[l] EXCEPT !.at = @ + k * Interval]}

Advanced(l, k) ==
    {[cadence[l] EXCEPT !.at = @ + k * Interval, !.due = cadence[l].at + k * Interval + j] :
        j \in Jitter}

Missed(l, t) == t >= cadence[l].due + Interval

(* skipMissed: occurrences are skipped up to the first that is not due     *)
(* yet; they join the gap that has been told to nobody.                    *)
SkipMissed(l, t) ==
    \E k \in 1..(t + 1) : \E c \in Advanced(l, k) :
        LET gap == {cadence[l].at + i * Interval : i \in 0..(k - 1)}
        IN  /\ c.due > t
            /\ k > 1 => c.at - Interval <= t
            /\ cadence' = [cadence EXCEPT ![l] = c]
            /\ objs' = [objs EXCEPT ![l][InUse(l)].gap = @ \cup gap]

-----------------------------------------------------------------------------
(* The poll.                                                               *)

First(l, S) == l \in S /\ \A k \in S : l <= k

Begins(s, l, at) ==
    /\ att' = [att EXCEPT ![s] = [st |-> "line", loop |-> l, hash |-> hash[l], obj |-> InUse(l),
                                  at |-> at, gap |-> objs[l][InUse(l)].gap, run |-> NoRun]]
    /\ line' = Append(line, s)

(* The clock went back too far: this poll does nothing else.               *)
Paused ==
    /\ wall' = now /\ UNCHANGED <<cadence, objs>>
    /\ Persist("clock_regression") /\ Schedule

PollStarts(p) ==
    /\ Quiet
    /\ phase = "started" /\ armed /\ poll[p].pc = "rest"
    /\ UNCHANGED <<defs, hash>>
    /\ IF now + Regression < wall
       THEN Paused /\ UNCHANGED poll
       ELSE /\ armed' = FALSE
            /\ poll' = [poll EXCEPT ![p] =
                 [pc |-> "looping", now |-> now,
                  todo |-> {l \in Loop : Stored(l) /\ Enabled(l) /\ cadence[l].due <= now}]]
            /\ UNCHANGED <<stateVars, fileVars, mishaps>>
    /\ UNCHANGED <<pollFailed, now, phase, att, boundary, turn, alive,
                   used, info, timers, commands, sent>>

(* mutant: the claim is not stored before the attempt.                     *)
ClaimedUnstored(p, l, rest) ==
    /\ UNCHANGED <<fileVars, mishaps>>
    /\ poll' = [poll EXCEPT ![p] = [rest EXCEPT !.pc = "attempt"]]
    /\ Begins(p, l, cadence[l].at)

(* The claim of an occurrence has to be stored before it is attempted; if  *)
(* it cannot be, the occurrence is dropped.                                *)
Claimed(p, l, rest) ==
    \/ /\ Saved(anomaly, suppressed)
       /\ poll' = [poll EXCEPT ![p] = [rest EXCEPT !.pc = "attempt"]]
       /\ Begins(p, l, cadence[l].at)
    \/ /\ Unsaved(anomaly, suppressed)
       /\ poll' = [poll EXCEPT ![p] = rest]
       /\ UNCHANGED <<att, line>>

(* One due loop: skipped or claimed.  The list is the one the poll made    *)
(* when it started.                                                        *)
PollLoop(p) ==
    /\ poll[p].pc = "looping"
    /\ UNCHANGED <<defs, hash, wall>>
    /\ \E l \in Loop :
       LET rest == [poll[p] EXCEPT !.todo = @ \ {l}]
       IN  /\ First(l, poll[p].todo) /\ Stored(l)
           /\ \/ /\ Missed(l, poll[p].now) /\ SkipMissed(l, poll[p].now)
                 /\ Persist(anomaly)
                 /\ poll' = [poll EXCEPT ![p] = rest]
                 /\ UNCHANGED <<att, line>>
              \/ /\ ~Missed(l, poll[p].now)
                 /\ \E c \in Advanced(l, 1) : cadence' = [cadence EXCEPT ![l] = c]
                 /\ UNCHANGED objs
                 /\ Claimed(p, l, rest)
    /\ UNCHANGED <<pollFailed, now, phase, armed, holder, turn, alive,
                   used, info, timers, commands, sent>>

Rearm == armed' = (phase = "started")

(* The loop was removed by a reload while the poll waited: the poll throws *)
(* and recover() keeps the manager armed.                                  *)
PollThrows(p) ==
    /\ poll[p].pc = "looping"
    /\ \E l \in Loop : First(l, poll[p].todo) /\ ~Stored(l)
    /\ poll' = [poll EXCEPT ![p] = Resting]
    /\ pollFailed' = TRUE
    /\ UNCHANGED <<defs, hash, stateVars>> /\ Persist("manager_task_failed")
    /\ Rearm
    /\ UNCHANGED <<now, phase, att, boundary, turn, alive,
                   used, info, timers, commands, sent>>

(* clearAnomaly, also for an anomaly that a failed write displaced.        *)
Cleared(a) == IF pollFailed /\ a = "manager_task_failed" THEN "none" ELSE a

PollEnds(p) ==
    /\ poll[p].pc = "looping" /\ poll[p].todo = {}
    /\ poll' = [poll EXCEPT ![p] = Resting]
    /\ wall' = poll[p].now /\ UNCHANGED <<defs, hash, cadence, objs>>
    /\ pollFailed' = FALSE
    /\ \/ Saved(Cleared(anomaly), Cleared(suppressed))
       \/ Unsaved(Cleared(anomaly), Cleared(suppressed))
    /\ Schedule
    /\ UNCHANGED <<now, phase, att, boundary, turn, alive,
                   used, info, timers, commands, sent>>

-----------------------------------------------------------------------------
(* An attempt at the boundary.                                             *)

(* attempt() resumes: a poll goes on with its list.                        *)
Resumes(s) ==
    /\ att' = [att EXCEPT ![s] = NoAttempt]
    /\ poll' = IF s \in Poller THEN [poll EXCEPT ![s].pc = "looping"] ELSE poll

(* "unavailable", whatever the object says is active is no longer.         *)
Unavailable(s) ==
    /\ Resumes(s)
    /\ objs' = [objs EXCEPT ![att[s].loop][att[s].obj].run = NoRun]
    /\ UNCHANGED <<cadence, wall>> /\ Persist(anomaly)

Grant(s) ==
    /\ Quiet
    /\ holder = "free" /\ line # <<>> /\ Head(line) = s
    /\ UNCHANGED <<defs, hash>>
    /\ line' = Tail(line)
    /\ LET a == att[s]
       IN  \/ /\ phase = "stopping" \/ ~alive
              /\ Unavailable(s)
              /\ UNCHANGED <<holder, used, info, sent>>
           \/ /\ phase # "stopping" /\ alive /\ turn # "none"       \* skipped_busy
              /\ Resumes(s)
              /\ UNCHANGED stateVars /\ Persist(anomaly)
              /\ UNCHANGED <<holder, used, info, sent>>
           \/ /\ phase # "stopping" /\ alive /\ turn = "none"
              /\ holder' = s                                        \* beforeQueue
              /\ \E r \in Run \ used :
                   /\ att' = [att EXCEPT ![s].st = "queuing", ![s].run = r]
                   /\ used' = used \cup {r}
                   /\ info' = [info EXCEPT ![r] = [loop |-> a.loop, obj |-> a.obj]]
                   /\ objs' = [objs EXCEPT ![a.loop][a.obj] = [run |-> r, gap |-> {}]]
              /\ UNCHANGED <<cadence, wall, poll>> /\ Persist(anomaly)
              /\ sent' = IF s \in Poller THEN sent \cup {Occurrence(a)} ELSE sent
    /\ UNCHANGED <<pollFailed, now, phase, armed, turn, alive, timers, commands>>

(* session.queuePrompt answers.  A prompt that was queued behind other     *)
(* work is disowned, which leaves the run where a refusal leaves it.       *)
Answered(s) ==
    /\ Quiet
    /\ att[s].st = "queuing"
    /\ UNCHANGED <<defs, hash>>
    /\ holder' = IF holder = s THEN "free" ELSE holder
    /\ LET r == att[s].run
       IN  \/ /\ alive /\ turn = "none"                             \* started
              /\ turn' = r
              /\ Resumes(s)
              /\ deadline' = deadline \cup {r}
              /\ UNCHANGED <<stateVars, fileVars, mishaps>>
           \/ /\ Unavailable(s)                 \* queued behind other work, or refused
              /\ UNCHANGED <<turn, deadline>>
    /\ UNCHANGED <<pollFailed, now, phase, armed, line, alive, used, info,
                   abandon, commands, sent>>

(* retireStalledAdmission woke the waiters of a hung boundary.             *)
RetiredReturns(s) ==
    /\ Quiet
    /\ att[s].st = "retired"
    /\ UNCHANGED <<defs, hash>>
    /\ Unavailable(s)
    /\ UNCHANGED <<pollFailed, now, phase, armed, boundary, turn, alive,
                   used, info, timers, commands, sent>>

-----------------------------------------------------------------------------
(* A run.                                                                  *)

Owned(r) == objs[info[r].loop][info[r].obj].run = r

(* finish(): a run that the object it was started on no longer names is    *)
(* not reported.                                                           *)
Finish(r) ==
    /\ deadline' = deadline \ {r}
    /\ UNCHANGED <<cadence, wall>>
    /\ IF Owned(r)
       THEN /\ objs' = [objs EXCEPT ![info[r].loop][info[r].obj].run = NoRun]
            /\ Persist(anomaly)
       ELSE UNCHANGED <<objs, fileVars, mishaps>>

TurnEnds ==
    /\ Quiet
    /\ turn # "none" /\ turn' = "none"
    /\ UNCHANGED <<defs, hash>>
    /\ IF turn \in Run THEN Finish(turn)
       ELSE UNCHANGED <<stateVars, fileVars, mishaps, deadline>>
    /\ UNCHANGED <<pollFailed, now, phase, armed, poll, att, boundary, alive,
                   used, info, abandon, commands, sent>>

(* mutant: the cancellation is asked for and trusted to settle.            *)
CancelTrusted(r) == line' = Append(line, "interrupt") /\ UNCHANGED abandon

Cancel(r) == line' = Append(line, "interrupt") /\ abandon' = abandon \cup {r}

(* The run's timeout: ask for its cancellation, and arm the last resort.   *)
Deadline(r) ==
    /\ Quiet
    /\ r \in deadline
    /\ deadline' = deadline \ {r}
    /\ IF Owned(r) /\ phase = "started" THEN Cancel(r) ELSE UNCHANGED <<line, abandon>>
    /\ UNCHANGED <<defs, hash, stateVars, fileVars, pollFailed, now, phase, armed, poll, att,
                   holder, turn, alive, used, info, commands, mishaps, sent>>

(* Who waits at the boundary without an attempt: the cancellation of a     *)
(* run, and what another producer asks for, a prompt or a cancellation.    *)
Outsider == {"interrupt", "other"}

OutsiderHolds ==
    /\ Quiet
    /\ holder = "free" /\ line # <<>> /\ Head(line) \in Outsider
    /\ line' = Tail(line) /\ holder' = Head(line)
    /\ UNCHANGED <<defs, hash, stateVars, fileVars, pollFailed, now, phase, armed, poll, att,
                   turn, alive, used, info, timers, commands, mishaps, sent>>

(* session.interrupt or queuePrompt settles, if ever.  A cancellation is   *)
(* of the turn that runs when it holds the boundary, whoever's it is; the  *)
(* turn it was meant for may have ended before.                            *)
OutsiderDone ==
    /\ Quiet
    /\ holder \in Outsider /\ holder' = "free"
    /\ UNCHANGED <<defs, hash, stateVars, fileVars, pollFailed, now, phase, armed, poll, att,
                   line, turn, alive, used, info, timers, commands, mishaps, sent>>

(* mutant: the boundary is released, its waiters are not woken.            *)
RetireStalledSilently ==
    /\ line' = <<>> /\ holder' = "free" /\ UNCHANGED att

(* retireStalledAdmission: the boundary is free, who waited is turned away. *)
RetireStalled ==
    /\ line' = <<>> /\ holder' = "free"
    /\ att' = [s \in Slot |-> IF att[s].st = "line"
                              THEN [att[s] EXCEPT !.st = "retired"] ELSE att[s]]

(* The cancellation never settled: the slot and the boundary are released. *)
Abandon(r) ==
    /\ Quiet
    /\ r \in abandon
    /\ abandon' = abandon \ {r}
    /\ UNCHANGED <<defs, hash>>
    /\ IF Owned(r) /\ phase = "started"
       THEN /\ objs' = [objs EXCEPT ![info[r].loop][info[r].obj].run = NoRun]
            /\ UNCHANGED <<cadence, wall>> /\ Persist("abandoned_unsettled")
            /\ RetireStalled
       ELSE UNCHANGED <<stateVars, fileVars, mishaps, line, holder, att>>
    /\ UNCHANGED <<pollFailed, now, phase, armed, poll, turn, alive,
                   used, info, deadline, commands, sent>>

-----------------------------------------------------------------------------
(* Other producers.  They wait for the boundary ...                        *)
OtherAsks ==
    /\ Quiet
    /\ Command
    /\ line' = Append(line, "other")
    /\ UNCHANGED <<defs, hash, stateVars, fileVars, pollFailed, now, phase, armed, poll, att,
                   holder, turn, alive, used, info, timers, mishaps, sent>>

(* ... and their work runs while they hold it, when they have held it, or  *)
(* past it: also between the idle check of an attempt and its prompt.      *)
OtherTurn ==
    /\ Quiet
    /\ turn = "none" /\ alive /\ turn' = "other"
    /\ UNCHANGED <<defs, hash, stateVars, fileVars, pollFailed, now, phase, armed, poll, att,
                   boundary, alive, used, info, timers, commands, mishaps, sent>>

(* Its turn, if any, has ended first.                                      *)
SessionDies ==
    /\ Quiet
    /\ alive /\ turn = "none" /\ mishaps < MaxMishaps
    /\ alive' = FALSE /\ mishaps' = mishaps + 1
    /\ UNCHANGED <<defs, hash, stateVars, fileVars, pollFailed, now, phase, armed, poll, att,
                   boundary, turn, used, info, timers, commands, sent>>

-----------------------------------------------------------------------------
(* The operator, through the control socket.                               *)

RunNow(l) ==
    /\ Quiet
    /\ Command
    /\ phase = "started" /\ att[Operator].st = "none"
    /\ Stored(l) /\ Enabled(l)
    /\ Begins(Operator, l, now)
    /\ UNCHANGED <<defs, hash, stateVars, fileVars, pollFailed, now, phase, armed, poll,
                   holder, turn, alive, used, info, timers, mishaps, sent>>

(* disable and enable; a definition that is off in the config stays off.   *)
Switch(l, off) ==
    /\ Quiet
    /\ Stored(l) /\ (off \/ defs[l] = "enabled")
    /\ Command
    /\ cadence' = [cadence EXCEPT ![l].off = off]
    /\ UNCHANGED <<defs, hash, objs, wall>>
    /\ Persist(anomaly) /\ Schedule
    /\ UNCHANGED <<pollFailed, now, phase, poll, att, boundary, turn, alive,
                   used, info, timers, sent>>

(* reconcile(): the loops of the new config, each with a new state object. *)
(* A definition whose hash changed, enabled or not, starts its cadence     *)
(* anew; a loop that is gone leaves the state.                             *)
Reload(new, changed) ==
    /\ Quiet
    /\ phase = "started" /\ Command
    /\ \A l \in Loop : defs[l] # new[l] => l \in changed
    /\ \A l \in changed : defs[l] = new[l] => new[l] = "enabled"
    /\ defs' = new
    /\ hash' = [l \in Loop |-> IF l \in changed THEN hash[l] + 1 ELSE hash[l]]
    /\ \E jitter \in [changed -> Jitter] :
         cadence' = [l \in Loop |->
            IF l \in changed
            THEN [at |-> now + Delay, due |-> now + Delay + jitter[l],
                  off |-> Stored(l) /\ cadence[l].off]
            ELSE cadence[l]]
    /\ objs' = [l \in Loop |->
            Append(objs[l], IF Stored(l) THEN objs[l][InUse(l)]
                            ELSE [run |-> NoRun, gap |-> {}])]
    /\ wall' = now
    /\ Persist(anomaly) /\ Schedule
    /\ UNCHANGED <<pollFailed, now, phase, poll, att, boundary, turn, alive,
                   used, info, timers, sent>>

-----------------------------------------------------------------------------
(* The clock, and the process.                                             *)

Tick ==
    /\ Quiet
    /\ now < MaxTime /\ now' = now + 1
    /\ UNCHANGED <<defs, hash, stateVars, fileVars, pollFailed, phase, armed, poll, att,
                   boundary, turn, alive, used, info, timers, commands, mishaps, sent>>

ClockBack(t) ==
    /\ Quiet
    /\ t < now /\ Mishap /\ now' = t
    /\ UNCHANGED <<defs, hash, stateVars, fileVars, pollFailed, phase, armed, poll, att,
                   boundary, turn, alive, used, info, timers, commands, sent>>

Stop ==
    /\ Quiet
    /\ phase = "started" /\ phase' = "stopping"
    /\ armed' = FALSE /\ deadline' = {} /\ abandon' = {}
    /\ wall' = now /\ UNCHANGED <<defs, hash, cadence, objs>> /\ Persist(anomaly)
    /\ UNCHANGED <<pollFailed, now, poll, att, boundary, turn, alive,
                   used, info, commands, sent>>

(* A new process restores the file, abandons the runs it names, and skips  *)
(* what is overdue by an interval or more.  Its writes count as one.       *)
StoredOffForgotten(l) == l \notin Loop          \* mutant: a restart starts all loops

StoredOff(l) == disk.body.loops[l].off

RestoredNever(l) == l \notin Loop               \* mutant: the cursor starts anew

Restored(l) == Stored(l) /\ disk.body.loops[l].hash = hash[l]

Restart(spent) ==
    LET file(l) == disk.body.loops[l]
        late(l) == Restored(l) /\ defs[l] = "enabled" /\ ~StoredOff(l)
                   /\ now >= file(l).due + Interval
        known(l) == Stored(l) /\ file(l).hash # 0
        a == IF \E l \in Loop : known(l) /\ file(l).run # NoRun
             THEN "abandoned_restart" ELSE disk.anomaly
    IN  /\ \E k \in [Loop -> 0..(now + 1)], jitter \in [Loop -> Jitter] :
            LET gap(l) == IF late(l)
                          THEN {file(l).at + i * Interval : i \in 0..(k[l] - 1)} ELSE {}
            IN  /\ \A l \in Loop :
                     IF late(l)
                     THEN LET at == file(l).at + k[l] * Interval
                          IN  k[l] > 0 /\ at + jitter[l] > now /\ (k[l] > 1 => at - Interval <= now)
                     ELSE k[l] = 0 /\ (Restored(l) => jitter[l] = 0)
                /\ cadence' = [l \in Loop |->
                     IF late(l)
                     THEN [at |-> file(l).at + k[l] * Interval,
                           due |-> file(l).at + k[l] * Interval + jitter[l], off |-> FALSE]
                     ELSE IF Restored(l)
                     THEN [at |-> file(l).at, due |-> file(l).due, off |-> StoredOff(l)]
                     ELSE [at |-> now + Delay, due |-> now + Delay + jitter[l],
                           off |-> StoredOff(l)]]
                /\ objs' = [l \in Loop |->
                     <<[run |-> NoRun, gap |-> file(l).gap \cup gap(l)]>>]
        /\ wall' = now /\ UNCHANGED <<defs, hash>>
        /\ \/ /\ Written(a, "unset") /\ mishaps' = mishaps + spent
              /\ anomaly' = a /\ suppressed' = "unset" /\ failing' = FALSE
           \/ /\ Written(a, "unset") \/ UNCHANGED disk
              /\ mishaps + spent < MaxMishaps /\ mishaps' = mishaps + spent + 1
              /\ anomaly' = "persist_failed" /\ failing' = TRUE
              /\ suppressed' = IF a = "persist_failed" THEN "unset" ELSE a
        /\ phase' = "started" /\ pollFailed' = FALSE
        /\ armed' = (failing' \/ \E l \in Loop : Enabled(l)')
        /\ poll' = [p \in Poller |-> Resting] /\ att' = [s \in Slot |-> NoAttempt]
        /\ line' = <<>> /\ holder' = "free" /\ turn' = "none" /\ alive' = TRUE
        /\ info' = [r \in Run |-> [loop |-> 0, obj |-> 0]]
        /\ deadline' = {} /\ abandon' = {}
        /\ UNCHANGED <<now, used, commands, sent>>

NextAttempt == Quiet /\ phase = "stopping" /\ Restart(0)
Crash == mishaps < MaxMishaps /\ Restart(1)

-----------------------------------------------------------------------------
Init ==
    /\ defs = [l \in Loop |-> "enabled"] /\ hash = [l \in Loop |-> 1]
    /\ now = 0 /\ wall = 0
    /\ \E jitter \in [Loop -> Jitter] :
         cadence = [l \in Loop |-> [at |-> Delay, due |-> Delay + jitter[l], off |-> FALSE]]
    /\ objs = [l \in Loop |-> <<[run |-> NoRun, gap |-> {}]>>]
    /\ disk = [body |-> Body, anomaly |-> "none"]
    /\ anomaly = "none" /\ suppressed = "unset" /\ failing = FALSE /\ pollFailed = FALSE
    /\ phase = "started" /\ armed = TRUE
    /\ poll = [p \in Poller |-> Resting] /\ att = [s \in Slot |-> NoAttempt]
    /\ line = <<>> /\ holder = "free" /\ turn = "none" /\ alive = TRUE
    /\ used = {} /\ info = [r \in Run |-> [loop |-> 0, obj |-> 0]]
    /\ deadline = {} /\ abandon = {} /\ commands = 0 /\ mishaps = 0
    /\ sent = {}

Polls == \E p \in Poller : PollStarts(p) \/ PollLoop(p) \/ PollThrows(p) \/ PollEnds(p)

Attempts == \E s \in Slot : Grant(s) \/ Answered(s) \/ RetiredReturns(s)

Runs ==
    \/ TurnEnds \/ OutsiderHolds \/ OutsiderDone
    \/ \E r \in Run : Deadline(r) \/ Abandon(r)

Others == OtherAsks \/ OtherTurn \/ SessionDies

Operations ==
    \/ \E l \in Loop : RunNow(l) \/ \E off \in BOOLEAN : Switch(l, off)
    \/ \E new \in NewConfig, changed \in SUBSET Loop : Reload(new, changed)

Process == Tick \/ (\E t \in 0..MaxTime : ClockBack(t)) \/ Stop \/ NextAttempt \/ Crash

Next == Polls \/ Attempts \/ Runs \/ Others \/ Operations \/ Process

Spec == Init /\ [][Next]_vars

-----------------------------------------------------------------------------
Anomaly == {"none", "clock_regression", "manager_task_failed", "abandoned_unsettled",
            "abandoned_restart"}

Object  == [run : Run \cup {NoRun}, gap : SUBSET Nat]
Cursor  == [at : Nat, due : Nat, off : BOOLEAN]
Entry   == [at : Nat, due : Nat, off : BOOLEAN, hash : Nat, run : Run \cup {NoRun},
            gap : SUBSET Nat]
Attempt == [st : {"none", "line", "queuing", "retired"}, loop : Nat, hash : Nat, obj : Nat,
            at : Nat, gap : SUBSET Nat, run : Run \cup {NoRun}]

StateTyped ==
    /\ defs \in [Loop -> {"absent", "disabled", "enabled"}] /\ hash \in [Loop -> Nat]
    /\ cadence \in [Loop -> Cursor]
    /\ \A l \in Loop : cadence[l].due - cadence[l].at \in Jitter
    /\ objs \in [Loop -> Seq(Object)] /\ \A l \in Loop : objs[l] # <<>>
    /\ wall \in Nat /\ now \in Nat

FileTyped ==
    /\ anomaly \in Anomaly \cup {"persist_failed"} /\ suppressed \in Anomaly \cup {"unset"}
    /\ failing \in BOOLEAN
    /\ disk \in [body : [loops : [Loop -> Entry], wall : Nat],
                 anomaly : Anomaly \cup {"persist_failed"}]
    /\ \A l \in Loop : disk.body.loops[l].due - disk.body.loops[l].at \in Jitter

ManagerTyped ==
    /\ pollFailed \in BOOLEAN /\ armed \in BOOLEAN /\ phase \in {"started", "stopping"}
    /\ poll \in [Poller -> [pc : {"rest", "looping", "attempt"}, todo : SUBSET Loop, now : Nat]]

BoundaryTyped ==
    /\ att \in [Slot -> Attempt]
    /\ line \in Seq(Slot \cup Outsider) /\ holder \in Slot \cup Outsider \cup {"free"}
    /\ turn \in Run \cup {"none", "other"} /\ alive \in BOOLEAN
    /\ used \subseteq Run /\ deadline \subseteq Run /\ abandon \subseteq Run
    /\ info \in [Run -> [loop : Nat, obj : Nat]]

TypeOK == StateTyped /\ FileTyped /\ ManagerTyped /\ BoundaryTyped

Claims(p) == p \in Poller /\ att[p].st = "line" /\ att'[p].st = "queuing"

(* An occurrence is submitted at most once, whatever writes fail and       *)
(* wherever the process is killed and restarted (manager.ts: at-most-once  *)
(* outranks running this occurrence).                                      *)
OccurrenceOnce == [][\A p \in Poller : Claims(p) => Occurrence(att[p]) \notin sent]_vars

(* What was submitted lies behind the cursor, in memory and in the file a  *)
(* new process would read: a run that is not on disk would be submitted a  *)
(* second time.                                                            *)
SentIsBehind ==
    \A o \in sent :
        /\ hash[o.loop] = o.hash => o.at < cadence[o.loop].at
        /\ disk.body.loops[o.loop].hash = o.hash => o.at < disk.body.loops[o.loop].at

(* No failure counted means the stored file is current (state.ts: 0        *)
(* whenever the stored file is current).                                   *)
FileIsCurrent == ~failing => disk = [body |-> Body, anomaly |-> anomaly]

(* The write that lands records the real health, never the outage that is  *)
(* over (state.ts, persist).                                               *)
FileNeverSaysPersistFailed == disk.anomaly # "persist_failed"

(* The checkpoint a new process would start from can be trusted: it is     *)
(* current unless a failure is counted, it records no outage that is over, *)
(* and its cursors are past everything that was submitted.                 *)
FileIsTrue == FileIsCurrent /\ FileNeverSaysPersistFailed /\ SentIsBehind

(* The scheduling chain never breaks: a started manager that is not inside *)
(* a poll has its timer set while some loop is enabled (manager.ts: the    *)
(* manager must stay armed).                                               *)
StaysArmed ==
    (/\ phase = "started" /\ \A p \in Poller : poll[p].pc = "rest"
     /\ \E l \in Loop : Enabled(l)) => armed

(* A run that holds a loop's slot is still being queued, or has a timer    *)
(* that ends it: no single run keeps activeRunId for the life of the       *)
(* process (manager.ts, armAbandon).                                       *)
SlotIsTimed ==
    phase = "started" =>
        \A r \in used : (info[r].loop # 0 /\ Owned(r)) =>
            \/ r \in deadline \cup abandon
            \/ \E s \in Slot : att[s].st = "queuing" /\ att[s].run = r

(* Whatever goes wrong, a timer is left that brings each enabled loop to   *)
(* its next attempt and each held slot to its release.                     *)
TimersHold == StaysArmed /\ SlotIsTimed

(* What the operator disabled stays disabled until the operator enables    *)
(* it: no reload and no restart of the role switches it on (README:        *)
(* disable persists across restarts), unless the write of it failed.       *)
DisableLasts ==
    [][\A l \in Loop :
        ~failing /\ Stored(l) /\ Stored(l)' /\ cadence[l].off /\ ~cadence'[l].off
        => Switch(l, FALSE)]_vars

-----------------------------------------------------------------------------
(* Liveness.  Timers fire, and what is ready runs between two polls.  A    *)
(* turn need not end.  What other producers ask for at the boundary comes  *)
(* back; the cancellation of a loop's run settles if no turn is left, and  *)
(* need not settle while one runs.                                         *)
Fairness ==
    /\ \A p \in Poller : WF_vars(PollLoop(p)) /\ WF_vars(PollThrows(p)) /\ WF_vars(PollEnds(p))
    /\ \A s \in Slot : WF_vars(Grant(s)) /\ WF_vars(Answered(s)) /\ WF_vars(RetiredReturns(s))
    /\ \A r \in Run : WF_vars(Deadline(r)) /\ WF_vars(Abandon(r))
    /\ WF_vars(OutsiderHolds) /\ WF_vars(OutsiderDone /\ holder = "other")
    /\ SF_vars(OutsiderDone /\ turn = "none")
    /\ WF_vars(NextAttempt)

FairSpec == Spec /\ Fairness

(* A cancellation holds the boundary while another turn than its run's is  *)
(* under way, and no abandon timer is left that would retire it: its own   *)
(* finds the run over and does nothing more (manager.ts, armAbandon).      *)
CancelAdrift ==
    /\ holder = "interrupt" /\ turn # "none"
    /\ \A r \in abandon : ~Owned(r)

(* A poll always comes back to schedule the next one: no turn that hangs   *)
(* and no cancellation that does not settle keeps it in an attempt         *)
(* (arbiter.ts, retireStalledAdmission), but for a cancellation adrift.    *)
(* The bound on runs may stop the first in line at an idle boundary.       *)
PollReturns ==
    \A p \in Poller : (poll[p].pc # "rest") ~>
        \/ poll[p].pc = "rest" \/ CancelAdrift
        \/ used = Run /\ holder = "free" /\ line # <<>>
=============================================================================
