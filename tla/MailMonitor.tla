----------------------------- MODULE MailMonitor -----------------------------
(***************************************************************************)
(* The mail monitor of one role (src/src/monitor.ts): it follows the ours  *)
(* daemon's notification stream and wakes the agent for what it finds.     *)
(* The stream is read by position and is never consumed; what the monitor  *)
(* has passed on is the delivered cursor, kept in .monitor-state.json and, *)
(* older, in .notify-cursor.  A launch resumes from it, or begins at the   *)
(* tip of the stream and checks once for mail left unread.                 *)
(*                                                                         *)
(* A step is what runs between two awaits.  The daemon, the agent and the  *)
(* supervisor that launches the role again are external.                   *)
(***************************************************************************)
EXTENDS Naturals, Integers, Sequences

CONSTANTS
    MaxStream,     \* bound: notifications of the stream, one to begin with
    MaxFaults,     \* bound: failed writes, a stream that cannot be primed
    MaxCrashes,    \* bound: crashes of the runner
    MaxRestarts    \* bound: orderly stops, failed startup turns, dead sessions

ASSUME MonitorAssumption ==
    /\ MaxStream \in Nat \ {0} /\ MaxFaults \in Nat
    /\ MaxCrashes \in Nat /\ MaxRestarts \in Nat

VARIABLES
    stream,        \* the notifications: mail, introductions, types that wake nobody
    read,          \* the mail the agent has fetched
    owner,         \* .monitor-owner
    file, state,   \* the cursor in .notify-cursor, deliveredCursor in .monitor-state.json
    cursor,        \* how far the stream has been observed
    delivered,     \* how far it is known to be passed on
    pending,       \* observed, not passed on
    unchecked,     \* initialBacklogPending
    backlog,       \* the unread mail of the line being submitted
    pc,            \* where the monitor waits
    stopped,       \* stop() was called
    alive,         \* the session is alive
    faults, crashes, restarts,
    told,          \* history: woken for, from the stream: the wake counted as delivered
    steered,       \* of those, the wakes whose turn has not ended
    dropped,       \* history: delivered wakes whose turn was cancelled, refused or lost
    reminded,      \* history: covered by an unread backlog line
    skipped        \* history: left behind by a launch that began at the tip

fileVars    == <<owner, file, state>>
memoryVars  == <<cursor, delivered, pending, unchecked, backlog>>
counterVars == <<faults, crashes, restarts>>
turnVars    == <<steered, dropped>>
historyVars == <<told, reminded, skipped, turnVars>>
vars == <<stream, read, fileVars, memoryVars, pc, stopped, alive, counterVars, historyVars>>

None == -1
Tip == Len(stream)
Position == 1..MaxStream
Kind == {"mail", "intro", "noise"}

(* What the role asked to be woken for (filterEvents) in a stretch.        *)
Wakes(from, to) == {i \in from + 1..to : stream[i] # "noise"}
Unread == {i \in 1..Tip : stream[i] = "mail" /\ i \notin read}

(* readPersistedCursor                                                     *)
Resume == IF state # None THEN state ELSE file

(* Where the next page begins.                                             *)
From == IF cursor = None THEN 0 ELSE cursor

Fault == faults < MaxFaults /\ faults' = faults + 1

-----------------------------------------------------------------------------
(* Writing the cursor.                                                     *)

(* persistState: written whole or not at all.                              *)
PersistState ==
    /\ \/ state' = delivered /\ UNCHANGED faults
       \/ state' = state /\ Fault
    /\ UNCHANGED <<owner, file, delivered>>

(* persistCursor: the cursor file, then the state.  The cursor file is     *)
(* overwritten in place, so a failure may leave it empty, and then the     *)
(* state, written a moment ago or not (was), is not written.               *)
PersistCursor(was) ==
    /\ delivered' = cursor'
    /\ \/ file' = cursor' /\ state' = cursor' /\ UNCHANGED faults
       \/ file' \in {file, None, cursor'} /\ state' \in was /\ Fault
    /\ UNCHANGED owner

(* Mutant: advance commits the page it has only observed.                  *)
AdvanceCommits(k) == cursor' = k /\ PersistCursor({state})

(* advance, without persisting the cursor.                                 *)
Advance(k) == cursor' = k /\ PersistState

(* The head of run's loop.                                                 *)
Loops ==
    pc' = IF stopped \/ ~alive THEN "down" ELSE IF unchecked THEN "probe" ELSE "poll"

(* What goes on to the stream unless stop() was called.                    *)
GoesTo(place) == pc' = IF stopped THEN "down" ELSE place

-----------------------------------------------------------------------------
(* The daemon and the agent.                                               *)

Arrive(kind) ==
    /\ Tip < MaxStream
    /\ stream' = Append(stream, kind)
    /\ UNCHANGED <<read, fileVars, memoryVars, pc, stopped, alive, counterVars, historyVars>>

(* get_messages; the agent may read before it is told to.                  *)
Read(i) ==
    /\ alive /\ pc \notin {"down", "prime"}
    /\ i \in Unread /\ read' = read \cup {i}
    /\ UNCHANGED <<stream, fileVars, memoryVars, pc, stopped, alive, counterVars, historyVars>>

SessionDies ==
    /\ alive /\ pc \notin {"down", "prime"} /\ restarts < MaxRestarts
    /\ alive' = FALSE /\ restarts' = restarts + 1
    /\ UNCHANGED <<stream, read, fileVars, memoryVars, pc, stopped, faults, crashes, historyVars>>

-----------------------------------------------------------------------------
(* The runner launches the role: recordMonitorOwner, then prime.           *)

(* Mutant: the owner is compared and not recorded.                         *)
RecordsNoOwner == UNCHANGED <<owner, faults>>

RecordsOwner ==
    \/ owner' = "fleet" /\ UNCHANGED faults
    \/ owner = "native" /\ owner' = owner /\ Fault

Launches(at, resumed) ==
    /\ pc = "down"
    /\ RecordsOwner
    /\ cursor' = at /\ delivered' = resumed
    /\ pc' = IF at = None THEN "prime" ELSE "ready"
    /\ pending' = {} /\ unchecked' = TRUE /\ backlog' = {}
    /\ stopped' = FALSE /\ alive' = TRUE
    /\ UNCHANGED <<stream, read, file, state, crashes, restarts, historyVars>>

(* Mutant: the stream is read on from the cursor file, whatever the state. *)
LaunchFromFile ==
    IF owner = "native" THEN Launches(None, None) ELSE Launches(file, Resume)

(* Arrivals of a native owner's time are not for the supervisor to repeat. *)
Launch ==
    IF owner = "native" THEN Launches(None, None) ELSE Launches(Resume, Resume)

(* There is nothing to resume from: the role begins at the tip ...         *)
PrimeAtTip ==
    /\ pc = "prime"
    /\ cursor' = Tip /\ PersistCursor({state})
    /\ skipped' = skipped \cup Wakes(0, Tip)
    /\ pc' = "ready"
    /\ UNCHANGED <<stream, read, pending, unchecked, backlog, stopped, alive,
                   crashes, restarts, told, reminded, turnVars>>

(* ... or the daemon does not answer, and run will read from the start.    *)
PrimeFails ==
    /\ pc = "prime" /\ Fault
    /\ pc' = "ready"
    /\ UNCHANGED <<stream, read, fileVars, memoryVars, stopped, alive,
                   crashes, restarts, historyVars>>

(* The startup turn succeeded: run.                                        *)
Run ==
    /\ pc = "ready"
    /\ Loops
    /\ UNCHANGED <<stream, read, fileVars, memoryVars, stopped, alive, counterVars, historyVars>>

(* stop(); the loop notices it after its next await.                       *)
Stop ==
    /\ pc \notin {"down", "prime"} /\ ~stopped /\ restarts < MaxRestarts
    /\ stopped' = TRUE /\ restarts' = restarts + 1
    /\ UNCHANGED <<stream, read, fileVars, memoryVars, pc, alive, faults, crashes, historyVars>>

Crash ==
    /\ pc # "down" /\ crashes < MaxCrashes
    /\ crashes' = crashes + 1 /\ pc' = "down"
    /\ UNCHANGED <<stream, read, fileVars, memoryVars, stopped, alive,
                   faults, restarts, historyVars>>

-----------------------------------------------------------------------------
(* The check for unread mail, until a check and its line have succeeded.   *)

Probe ==
    /\ pc = "probe"
    /\ IF Unread = {} THEN unchecked' = FALSE /\ backlog' = {} /\ GoesTo("poll")
       ELSE UNCHANGED unchecked /\ backlog' = Unread /\ pc' = "backlog"
    /\ UNCHANGED <<stream, read, fileVars, cursor, delivered, pending, stopped, alive,
                   counterVars, historyVars>>

(* Mutant: a check that could not be made counts as made.                  *)
ProbeFailsOnce ==
    /\ pc = "probe" /\ GoesTo("sleep")
    /\ unchecked' = FALSE
    /\ UNCHANGED <<stream, read, fileVars, cursor, delivered, pending, backlog, stopped,
                   alive, counterVars, historyVars>>

ProbeFails ==
    /\ pc = "probe" /\ GoesTo("sleep")
    /\ UNCHANGED <<stream, read, fileVars, memoryVars, stopped, alive, counterVars, historyVars>>

(* deliverLine: the line has been delivered, as a wake is ...              *)
BacklogTold ==
    /\ pc = "backlog" /\ alive
    /\ reminded' = reminded \cup backlog
    /\ backlog' = {} /\ unchecked' = FALSE /\ GoesTo("poll")
    /\ UNCHANGED <<stream, read, fileVars, cursor, delivered, pending, stopped, alive,
                   counterVars, told, skipped, turnVars>>

(* ... or it was refused, cancelled or threw.                              *)
BacklogRefused ==
    /\ pc = "backlog"
    /\ backlog' = {} /\ pc' = "sleep"
    /\ UNCHANGED <<stream, read, fileVars, cursor, delivered, pending, unchecked, stopped,
                   alive, counterVars, historyVars>>

(* The pause after a failure is over.                                      *)
Resumes ==
    /\ pc = "sleep"
    /\ Loops
    /\ UNCHANGED <<stream, read, fileVars, memoryVars, stopped, alive, counterVars, historyVars>>

-----------------------------------------------------------------------------
(* The stream.                                                             *)

(* A page ends anywhere after its start, and is empty only at the tip.     *)
PageEnds == IF From = Tip THEN {Tip} ELSE From + 1..Tip

(* A page with something to wake for, or while something is pending.       *)
Page ==
    /\ pc = "poll"
    /\ \E k \in PageEnds :
        /\ pending' = pending \cup Wakes(From, k) /\ pending' # {}
        /\ Advance(k)
    /\ pc' = "coalesce"
    /\ UNCHANGED <<stream, read, unchecked, backlog, stopped, alive,
                   crashes, restarts, historyVars>>

(* A page with nothing to pass on is committed at once.                    *)
QuietPage ==
    /\ pc = "poll" /\ pending = {}
    /\ \E k \in PageEnds :
        /\ Wakes(From, k) = {}
        /\ cursor' = k
        /\ PersistCursor(IF k = cursor THEN {state} ELSE {state, delivered})
    /\ Loops
    /\ UNCHANGED <<stream, read, pending, unchecked, backlog, stopped, alive,
                   crashes, restarts, historyVars>>

PollFails ==
    /\ pc = "poll" /\ GoesTo("sleep")
    /\ UNCHANGED <<stream, read, fileVars, memoryVars, stopped, alive, counterVars, historyVars>>

(* coalesce: stragglers of the same burst join the line ...                *)
Gather ==
    /\ pc = "coalesce" /\ ~stopped
    /\ \E k \in PageEnds \ {cursor} :
        /\ pending' = pending \cup Wakes(From, k)
        /\ Advance(k)
    /\ pc' = "submit"
    /\ UNCHANGED <<stream, read, unchecked, backlog, stopped, alive,
                   crashes, restarts, historyVars>>

(* ... or there is none in time, or nobody waits for any.                  *)
GatherNothing ==
    /\ pc = "coalesce" /\ pc' = "submit"
    /\ UNCHANGED <<stream, read, fileVars, memoryVars, stopped, alive, counterVars, historyVars>>

(* deliver: the turn of the wake has succeeded; the monitor hears of it.   *)
WakeTold ==
    /\ pc = "submit" /\ alive
    /\ told' = told \cup pending /\ pc' = "accepted"
    /\ dropped' = dropped \ pending
    /\ UNCHANGED <<stream, read, fileVars, memoryVars, stopped, alive, counterVars,
                   reminded, skipped, steered>>

(* Where the adapter can steer, the wake is injected into a turn under way *)
(* or starts one, and counts as a success before that turn has ended.      *)
WakeSteered ==
    /\ pc = "submit" /\ alive
    /\ told' = told \cup pending /\ pc' = "accepted"
    /\ steered' = steered \cup pending
    /\ UNCHANGED <<stream, read, fileVars, memoryVars, stopped, alive, counterVars,
                   reminded, skipped, dropped>>

(* The turn a wake was steered into ends; the monitor does not hear of it. *)
SteeredTurnEnds ==
    /\ steered # {} /\ steered' = {}
    /\ \/ alive /\ pc # "down" /\ UNCHANGED dropped
       \/ dropped' = dropped \cup steered
    /\ UNCHANGED <<stream, read, fileVars, memoryVars, pc, stopped, alive, counterVars,
                   told, reminded, skipped>>

(* Mutant: the batch is given up with its turn.                            *)
WakeRefusedOnce ==
    /\ pc = "submit"
    /\ pending' = {} /\ Loops
    /\ UNCHANGED <<stream, read, fileVars, cursor, delivered, backlog, unchecked, stopped,
                   alive, counterVars, historyVars>>

(* Refused, cancelled or thrown: the batch waits for the next page.        *)
WakeRefused ==
    /\ pc = "submit"
    /\ UNCHANGED memoryVars /\ Loops
    /\ UNCHANGED <<stream, read, fileVars, stopped, alive, counterVars, historyVars>>

(* Mutant: stop() is heeded before the commit.                             *)
CommitUnlessStopped ==
    /\ pc = "accepted"
    /\ pending' = {} /\ cursor' = cursor
    /\ IF stopped THEN UNCHANGED <<fileVars, delivered, faults>> ELSE PersistCursor({state})
    /\ UNCHANGED unchecked /\ Loops
    /\ UNCHANGED <<stream, read, backlog, stopped, alive, crashes, restarts, historyVars>>

Commit ==
    /\ pc = "accepted"
    /\ pending' = {} /\ cursor' = cursor
    /\ PersistCursor({state})
    /\ UNCHANGED unchecked /\ Loops
    /\ UNCHANGED <<stream, read, backlog, stopped, alive, crashes, restarts, historyVars>>

-----------------------------------------------------------------------------
(* A role may come with the cursor file of a time before this model: what  *)
(* it covers counts as skipped.                                            *)
Init ==
    /\ stream \in {<<>>, <<"mail">>, <<"intro">>} /\ read = {}
    /\ owner \in {"fleet", "native"}
    /\ file \in {None} \cup 0..Tip /\ state = None
    /\ cursor = None /\ delivered = None /\ pending = {}
    /\ unchecked = TRUE /\ backlog = {}
    /\ pc = "down" /\ stopped = FALSE /\ alive = FALSE
    /\ faults = 0 /\ crashes = 0 /\ restarts = 0
    /\ told = {} /\ reminded = {} /\ steered = {} /\ dropped = {}
    /\ skipped = IF file = None THEN {} ELSE 1..file

(* The steps that depend on nobody else.                                   *)
Proceeds ==
    \/ Launch \/ PrimeAtTip \/ PrimeFails \/ Run \/ Resumes
    \/ Gather \/ GatherNothing \/ Commit

(* The answers of the session to a line.                                   *)
BacklogAnswered == BacklogTold \/ BacklogRefused
WakeAnswered    == WakeTold \/ WakeSteered \/ WakeRefused

Polls == Page \/ QuietPage

Next ==
    \/ Proceeds \/ BacklogAnswered \/ WakeAnswered
    \/ Probe \/ ProbeFails \/ Polls \/ PollFails
    \/ Stop \/ Crash \/ SessionDies \/ SteeredTurnEnds
    \/ \E kind \in Kind : Arrive(kind)
    \/ \E i \in Position : Read(i)

Spec == Init /\ [][Next]_vars

-----------------------------------------------------------------------------
Place == {"down", "prime", "ready", "probe", "backlog", "sleep",
          "poll", "coalesce", "submit", "accepted"}

(* Types, and the order of the two cursors.                                *)
TypeOK ==
    /\ stream \in Seq(Kind) /\ Tip <= MaxStream
    /\ owner \in {"fleet", "native"} /\ pc \in Place
    /\ {file, state, cursor, delivered} \subseteq {None} \cup 0..Tip
    /\ delivered <= cursor
    /\ read \cup pending \cup backlog \cup told \cup reminded \cup skipped \subseteq 1..Tip
    /\ steered \cup dropped \subseteq told
    /\ {unchecked, stopped, alive} \subseteq BOOLEAN
    /\ faults \in 0..MaxFaults /\ crashes \in 0..MaxCrashes /\ restarts \in 0..MaxRestarts

(* No launch can resume behind something the agent was not woken for: the  *)
(* cursor a launch would find, and the one a later write would store,      *)
(* cover only notifications whose wake was delivered, by a turn of its own *)
(* that succeeded or steered into one, or that a start at the tip left     *)
(* behind (run's commit after deliver, persistCursor).                     *)
CommittedIsTold ==
    \A cut \in {Resume, delivered} : Wakes(0, cut) \subseteq told \cup skipped

(* What the comments ask of the cursor: it does not cover a wake whose     *)
(* turn was refused or cancelled (MonitorDeps.delivery, the submit of the  *)
(* runner).  A steered wake breaks it: it was committed while its turn ran.*)
CommittedIsActedOn ==
    \A cut \in {Resume, delivered} : Wakes(0, cut) \cap dropped = {}

(* Once the unread check of this launch is done, nothing behind the        *)
(* observed cursor is unknown to the agent and forgotten by the monitor:   *)
(* it is pending, or it was told, or the agent fetched it.  Only an        *)
(* introduction, which the unread summary does not count, may have been    *)
(* skipped (prime before the session; initialBacklogPending).              *)
Known(i) ==
    \/ i \in told \cup reminded \cup read
    \/ i \in skipped /\ stream[i] = "intro"

NoDeafGap ==
    pc \in {"sleep", "poll", "coalesce", "submit", "accepted"} /\ ~unchecked =>
        \A i \in Wakes(0, From) : i \in pending \/ Known(i)

(* Restarting a role in order, refusing a wake or losing the session never *)
(* makes it hear of a notification twice: that takes a crash, a failed     *)
(* write or a stream that could not be primed (stop, persistCursor).       *)
RepeatsNeedMishap ==
    pc \in {"coalesce", "submit"} /\ pending \cap told # {} => faults + crashes > 0

(* A role that was ever woken from the stream never begins at the tip      *)
(* again, crash or not, unless a write or a prime has failed               *)
(* (recordMonitorOwner, readPersistedCursor).                              *)
SkipsNeedFault ==
    [][skipped' # skipped => told = {} \/ faults' > 0]_vars

-----------------------------------------------------------------------------
(* The runner is launched again and takes its steps; a submitted line is   *)
(* answered.  The daemon answers again and again, and a session that is    *)
(* asked again and again lets a turn succeed.                              *)
Fairness ==
    /\ WF_vars(Proceeds) /\ WF_vars(BacklogAnswered) /\ WF_vars(WakeAnswered)
    /\ SF_vars(Probe) /\ SF_vars(Polls) /\ SF_vars(BacklogTold)
    /\ SF_vars(WakeTold \/ WakeSteered)

FairSpec == Spec /\ Fairness

(* Whatever fails on the way, the agent comes to know of every arrival:    *)
(* mail always, an introduction unless a start at the tip left it behind.  *)
ToldInTheEnd ==
    \A i \in Position : (i \in Wakes(0, Tip)) ~> Known(i)
=============================================================================
