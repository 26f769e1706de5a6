----------------------------- MODULE AcpSession -----------------------------
(***************************************************************************)
(* The prompt queue, the turns, the interrupts and the stall watchdog of   *)
(* src/src/session/acp.ts, with prompt-batch.ts, stall-watchdog.ts and the *)
(* open prompts of conversation-store.ts, over the processes that resume   *)
(* one ACP session after another.                                          *)
(*                                                                         *)
(* A step is what runs between two awaits.  The adapter answers a request, *)
(* late or never, ends on its own or on a signal.  Permissions, tools,     *)
(* updates and readiness are left out: they only make the watchdog and the *)
(* monitor wait.                                                           *)
(***************************************************************************)
EXTENDS Naturals, FiniteSets

CONSTANTS
    Prompt,        \* ids of admitted prompts
    Diagnosis,     \* the id of the watchdog's recovery prompt
    Operator,      \* who interrupts without a prompt
    MaxLost,       \* bound: ledger records that fail to be written
    MaxStops,      \* bound: ends of a supervisor process
    Mixes          \* bound: how many prompts of each kind come together

(* What queuePrompt is given, as the line and the ledger tell it apart.     *)
Kinds == {"console", "command", "wake", "internal"}

ASSUME IdAssumption ==
    /\ IsFiniteSet(Prompt) /\ Diagnosis \notin Prompt /\ Operator \notin Prompt
ASSUME BoundAssumption ==
    MaxLost \in Nat /\ MaxStops \in Nat /\ Mixes \subseteq [Kinds -> Nat]

VARIABLES
    ledger,        \* what is on disk of each prompt (no body of the Diagnosis is:
                   \* whatever its records say, no start dispatches it)
    claimed,       \* the session's stall claim is on disk
    proc,          \* the supervisor: down, starting, up, closing, closed
    child,         \* the adapter: alive, dying (it was sent SIGTERM), dead
    pending,       \* pendingPrompts
    commands,      \* those recognised as commands when they were queued
    turn,          \* activeTurn
    lease,         \* steeringOccupied
    fenced,        \* the watchdog of this process is disabled
    attempt,       \* stallAttempt
    doomed,        \* cancelRecoveryReason is set
    pc,            \* where each call is: a prompt's submission, an interrupt
    seen,          \* the turn it captured: its members
    kind,          \* what each prompt is, once it was submitted
    place,         \* where each prompt came in the order of admission
    times,         \* history: how often each was handed to the adapter
    lost,          \* history: prompts with a record that was not written
    touched,       \* history: someone stepped in during the attempt
    stops          \* ends of a supervisor process so far

queue   == <<pending, commands, place>>
calls   == <<pc, seen, kind>>
stall   == <<claimed, fenced, attempt, touched>>
life    == <<proc, child, doomed, stops>>
vars    == <<ledger, queue, calls, stall, life, turn, lease, times, lost>>

Id     == Prompt \cup {Diagnosis}
Caller == Prompt \cup {Operator}
State  == {"none", "admitted", "started", "closed"}
Stage  == {"new", "queued", "steering", "notifying", "waiting"}
Turn   == [members : SUBSET Id,
           source  : {"none", "caller", "stall-watchdog"},
           timer   : {"off", "armed", "fired", "resolved", "cleared"}]
Attempt == [phase : {"none", "cancelling", "held"}, superseded : BOOLEAN,
            ready : {"open", "yes", "no"}, cancelled : BOOLEAN]

NoTurn    == [members |-> {}, source |-> "none", timer |-> "off"]
NoAttempt == [phase |-> "none", superseded |-> FALSE, ready |-> "open", cancelled |-> FALSE]

(* The ledger keeps the body of these, conversationSource.                 *)
Retained(p) == kind[p] \in {"console", "command"}

Init ==
    /\ ledger = [p \in Prompt |-> "none"] /\ claimed = FALSE
    /\ proc = "up" /\ child = "alive" /\ doomed = FALSE /\ stops = 0
    /\ pending = {} /\ commands = {} /\ place = [p \in Prompt |-> 0]
    /\ turn = NoTurn /\ lease = FALSE /\ fenced = FALSE /\ attempt = NoAttempt
    /\ pc = [a \in Caller |-> "new"] /\ seen = [a \in Caller |-> {}]
    /\ kind = [p \in Prompt |-> "none"]
    /\ times = [i \in Id |-> 0] /\ lost = {} /\ touched = FALSE

-----------------------------------------------------------------------------
(* The ledger: appendSafe of one record for each of S; one may fail.       *)
Losses(S) == {{}} \cup {{p} : p \in {q \in S \cap Prompt : Cardinality(lost \cup {q}) <= MaxLost}}

Recorded(led, S, state) ==
    [p \in Prompt |-> IF p \in S /\ led[p] # "none" THEN state ELSE led[p]]

AppendSafe(S, state) ==
    \E failed \in Losses(S) :
        ledger' = Recorded(ledger, S \ failed, state) /\ lost' = lost \cup failed

-----------------------------------------------------------------------------
(* Admission.                                                              *)
Returns(a, to) == pc' = [pc EXCEPT ![a] = to] /\ seen' = [seen EXCEPT ![a] = {}]

(* enqueue: a command is recognised if the adapter advertised it by now.   *)
Queued == {p \in Prompt : place[p] > 0}

InLine(p) == place' = [place EXCEPT ![p] = Cardinality(Queued) + 1]

Enqueue(p, k) ==
    /\ pending' = pending \cup {p} /\ InLine(p)
    /\ commands' = IF k = "command" THEN commands \cup {p} ELSE commands
    /\ Returns(p, "queued")

(* admitToLedger: the console is refused what the ledger cannot hold,      *)
(* though the record may have reached the disk; the rest goes on without.  *)
Admit(p, k) ==
    \/ ledger' = [ledger EXCEPT ![p] = "admitted"] /\ UNCHANGED lost /\ Enqueue(p, k)
    \/ /\ Cardinality(lost \cup {p}) <= MaxLost
       /\ lost' = lost \cup {p}
       /\ \/ k # "console" /\ UNCHANGED ledger /\ Enqueue(p, k)
          \/ /\ k = "console" /\ Returns(p, "queued") /\ UNCHANGED <<pending, commands>>
             /\ ledger' = [ledger EXCEPT ![p] = "admitted"] /\ InLine(p)

(* What queuePrompt checks first; a call it refuses changes nothing.       *)
Accepting == proc = "up" /\ child # "dead" /\ ~doomed

IsNew(p, k) ==
    /\ Accepting /\ pc[p] = "new" /\ kind' = [kind EXCEPT ![p] = k]
    /\ \E mix \in Mixes : \A j \in Kinds : Cardinality({q \in Prompt : kind'[q] = j}) <= mix[j]

ConsoleTurn == \E p \in turn.members \cap Prompt : kind[p] = "console"

(* A wake is queued when there is no turn to steer it into, after the      *)
(* watchdog has stepped in, or (after_tool) behind a turn of the console.  *)
SubmitQueued(p, k) ==
    /\ IsNew(p, k)
    /\ k = "wake" => (turn = NoTurn \/ fenced \/ ConsoleTurn)
    /\ Admit(p, k)
    /\ UNCHANGED <<stall, life, turn, lease, times>>

Steer(p) == pc' = [pc EXCEPT ![p] = "steering"] /\ seen' = [seen EXCEPT ![p] = turn.members]

SubmitSteered(p) ==
    /\ IsNew(p, "wake") /\ ~fenced /\ turn # NoTurn /\ Steer(p)
    /\ UNCHANGED <<ledger, queue, stall, life, turn, lease, times, lost>>

-----------------------------------------------------------------------------
(* Interrupts: cancelActive up to its first await.                         *)
Undecided == attempt.phase \in {"cancelling", "held"}

Supersede(foreign) ==
    /\ attempt' = IF foreign /\ Undecided THEN [attempt EXCEPT !.superseded = TRUE] ELSE attempt
    /\ touched' = (touched \/ (foreign /\ Undecided))

CancelActive(a, source) ==
    /\ pc' = [pc EXCEPT ![a] = "notifying"] /\ seen' = [seen EXCEPT ![a] = turn.members]
    /\ Supersede(source # "fleet-monitor")
    /\ turn' = IF turn # NoTurn /\ (source = "owner" \/ turn.source = "none")
               THEN [turn EXCEPT !.source = "caller"] ELSE turn
    /\ UNCHANGED <<ledger, queue, claimed, fenced, life, lease, times, lost>>

(* prepareInterruptingDelivery; without a turn the prompt is just queued.  *)
SubmitInterrupting(p, k) ==
    /\ IsNew(p, k) /\ turn # NoTurn
    /\ \/ k = "console" /\ CancelActive(p, "owner")
       \/ k = "wake" /\ ~fenced /\ CancelActive(p, "fleet-monitor")

Interrupt(source) ==
    /\ proc = "up" /\ pc[Operator] = "new" /\ CancelActive(Operator, source)
    /\ UNCHANGED kind

(* A call that is refused leaves no trace; its caller may come again.      *)
Refuse(S) ==
    /\ pc'   = [a \in Caller |-> IF a \in S THEN "new" ELSE pc[a]]
    /\ seen' = [a \in Caller |-> IF a \in S THEN {} ELSE seen[a]]
    /\ kind' = [p \in Prompt |-> IF p \in S THEN "none" ELSE kind[p]]

(* After the interrupt: a wake is steered into a turn that began meanwhile *)
(* or comes as a new prompt, which may be refused; any other is queued.    *)
Proceed(a) ==
    \/ a = Operator /\ Returns(a, "new") /\ UNCHANGED <<kind, ledger, lost, queue>>
    \/ /\ a # Operator /\ (kind[a] = "wake" => (turn = NoTurn /\ Accepting))
       /\ Admit(a, kind[a]) /\ UNCHANGED kind
    \/ /\ a # Operator /\ kind[a] = "wake" /\ turn # NoTurn
       /\ Steer(a) /\ UNCHANGED <<kind, ledger, lost, queue>>
    \/ /\ a # Operator /\ kind[a] = "wake" /\ turn = NoTurn /\ ~Accepting
       /\ Refuse({a}) /\ UNCHANGED <<ledger, lost, queue>>

(* forceCancellationRecovery.                                              *)
ForceRecovery ==
    doomed' = TRUE /\ child' = IF child = "alive" THEN "dying" ELSE child

(* mutant: nothing ends the wait but the turn.                             *)
ArmNever(timer) == timer

(* awaitCancellationSettlement, once for a turn.                           *)
Arm(timer) == IF timer = "off" THEN "armed" ELSE timer

(* cancelActive after its notification was written.                        *)
Notified(a) ==
    /\ pc[a] = "notifying" /\ UNCHANGED <<stall, proc, stops, lease, times>>
    /\ \/ /\ seen[a] # {} /\ seen[a] = turn.members /\ turn.timer # "fired"
          /\ pc' = [pc EXCEPT ![a] = "waiting"]
          /\ turn' = [turn EXCEPT !.timer = Arm(turn.timer)]
          /\ UNCHANGED <<ledger, lost, queue, seen, kind, child, doomed>>
       \/ /\ seen[a] # {} /\ seen[a] = turn.members /\ turn.timer = "fired"
          /\ Refuse({a})
          /\ UNCHANGED <<ledger, lost, queue, turn, child, doomed>>
       \/ /\ seen[a] = {} /\ lease /\ ForceRecovery /\ Refuse({a})
          /\ UNCHANGED <<ledger, lost, queue, turn>>
       \/ /\ IF seen[a] = {} THEN ~lease ELSE seen[a] # turn.members
          /\ Proceed(a) /\ UNCHANGED <<turn, child, doomed>>

NotifyFails(a) ==
    /\ pc[a] = "notifying" /\ (child = "dead" \/ proc = "closed")
    /\ Refuse({a})
    /\ UNCHANGED <<ledger, queue, stall, life, turn, lease, times, lost>>

(* The turn has ended, or the timer found the adapter gone.                *)
Settled(a) ==
    /\ pc[a] = "waiting" /\ (seen[a] # turn.members \/ turn.timer = "resolved")
    /\ Proceed(a)
    /\ UNCHANGED <<stall, life, turn, lease, times>>

(* The deadline of a cancellation: every caller that waits is told.        *)
CancelDeadline ==
    /\ proc \in {"up", "closing"} /\ turn.timer = "armed"
    /\ \/ /\ child = "dead" /\ turn' = [turn EXCEPT !.timer = "resolved"]
          /\ UNCHANGED <<calls, child, doomed>>
       \/ /\ child # "dead" /\ turn' = [turn EXCEPT !.timer = "fired"]
          /\ ForceRecovery /\ Refuse({a \in Caller : pc[a] = "waiting" /\ seen[a] = turn.members})
    /\ UNCHANGED <<ledger, queue, stall, proc, stops, lease, times, lost>>

-----------------------------------------------------------------------------
(* Turns.  RunSinglePrompt begins one; the slot of the queue is kept until *)
(* the watchdog has decided.                                               *)
(* mutant: a batch goes past a command.                                    *)
TakeBatchPastCommands(p) ==
    IF kind[p] = "internal" \/ p \in commands THEN {p}
    ELSE {q \in pending \ commands : kind[q] # "internal"}

(* takeBatch for the first in line: a message takes every message before   *)
(* the next command; what a process recovers is a message.                 *)
TakeBatch(p) ==
    IF kind[p] = "internal" \/ p \in commands THEN {p}
    ELSE {q \in pending \ commands :
             kind[q] # "internal" /\ \A c \in commands : place[q] < place[c]}

(* mutant: a command leaves its mark behind.                               *)
LeaveUnmarked(members) == pending' = pending \ members /\ UNCHANGED commands

Leave(members) == pending' = pending \ members /\ commands' = commands \ members

First(p) == p \in pending /\ \A q \in pending : place[p] <= place[q]

(* runPrompt waits for the watchdog before the next in line has its turn.  *)
Held == attempt.phase = "held"

AtBoundary == proc \in {"up", "closing", "closed"} /\ turn = NoTurn /\ ~Held

(* runSinglePrompt: the records come before the request, which a closed    *)
(* connection no longer sends.                                             *)
RunSinglePrompt(members) ==
    /\ turn' = [NoTurn EXCEPT !.members = members]
    /\ times' = [i \in Id |-> IF i \in members /\ proc # "closed"
                              THEN times[i] + 1 ELSE times[i]]

(* release: nothing is sent, or closed, for an adapter that is gone.       *)
Release ==
    /\ AtBoundary
    /\ \E p \in Prompt : First(p) /\ LET members == TakeBatch(p) IN
          /\ Leave(members)
          /\ \/ child # "dead" /\ AppendSafe(members, "started") /\ RunSinglePrompt(members)
             \/ child = "dead" /\ UNCHANGED <<ledger, lost, turn, times>>
    /\ UNCHANGED <<place, calls, stall, life, lease>>

(* refuseAtRelease: the guard of an internal prompt says no.               *)
RefuseAtRelease ==
    /\ AtBoundary /\ child # "dead"
    /\ \E p \in Prompt : First(p) /\ kind[p] = "internal" /\ Leave({p}) /\ AppendSafe({p}, "closed")
    /\ UNCHANGED <<place, calls, stall, life, turn, lease, times>>

(* The watchdog's turn has ended: its slot is held until the attempt is    *)
(* decided.                                                                *)
EndAttempt(cancelled) ==
    IF attempt.phase = "cancelling"
    THEN [attempt EXCEPT !.phase = "held",
                         !.cancelled = cancelled /\ turn.source = "stall-watchdog"]
    ELSE attempt

End(cancelled) ==
    /\ turn # NoTurn
    /\ AppendSafe(turn.members, "closed")
    /\ turn' = NoTurn /\ lease' = FALSE /\ attempt' = EndAttempt(cancelled)
    /\ UNCHANGED <<queue, calls, claimed, fenced, touched, life, times>>

Answer(cancelled) == child # "dead" /\ proc \in {"up", "closing"} /\ End(cancelled)

(* Every request races the end of the adapter and of the connection.       *)
Terminated == (child = "dead" \/ proc = "closed") /\ End(FALSE)

-----------------------------------------------------------------------------
(* Steering.  The turn a wake was steered into has ended when the adapter  *)
(* says it started one of its own.                                         *)
Injected(p) ==
    /\ pc[p] = "steering" /\ child # "dead" /\ proc \in {"up", "closing"} /\ turn # NoTurn
    /\ Returns(p, "queued") /\ times' = [times EXCEPT ![p] = @ + 1]
    /\ UNCHANGED <<ledger, queue, kind, stall, life, turn, lease, lost>>

StartedNewTurn(p) ==
    /\ pc[p] = "steering" /\ child # "dead" /\ proc \in {"up", "closing"} /\ seen[p] # turn.members
    /\ Returns(p, "queued") /\ times' = [times EXCEPT ![p] = @ + 1]
    /\ lease' = (lease \/ proc = "up")
    /\ UNCHANGED <<ledger, queue, kind, stall, life, turn, lost>>

(* The caller may retry as another prompt, or (steerOrQueueWake) queue it. *)
SteeringFails(p) ==
    /\ pc[p] = "steering"
    /\ \/ Refuse({p}) /\ UNCHANGED <<ledger, queue, lost>>
       \/ Accepting /\ Admit(p, "wake") /\ UNCHANGED kind
    /\ UNCHANGED <<stall, life, turn, lease, times>>

AdapterSilent ==
    /\ lease /\ lease' = FALSE
    /\ UNCHANGED <<ledger, queue, calls, stall, life, turn, times, lost>>

-----------------------------------------------------------------------------
(* The stall watchdog.                                                     *)
Safe ==
    /\ proc = "up" /\ child = "alive" /\ turn # NoTurn /\ turn.source = "none"
    /\ ~lease /\ \A p \in Prompt : pc[p] # "steering"

(* tick: the durable claim and the cancellation, or a claim whose record   *)
(* or report failed.                                                       *)
Tick ==
    /\ Safe /\ ~fenced /\ fenced' = TRUE
    /\ \/ /\ claimed' = TRUE
          /\ attempt' = [NoAttempt EXCEPT !.phase = "cancelling"]
          /\ turn' = [turn EXCEPT !.source = "stall-watchdog"]
       \/ claimed' \in {TRUE, FALSE} /\ UNCHANGED <<attempt, turn>>
    /\ UNCHANGED <<ledger, queue, calls, touched, life, lease, times, lost>>

(* recoverStall sees the turn end.                                         *)
CancelSettles ==
    /\ Held /\ attempt.ready = "open"
    /\ attempt' = [attempt EXCEPT !.ready =
          IF attempt.superseded \/ proc # "up" \/ child = "dead" THEN "no" ELSE "yes"]
    /\ UNCHANGED <<ledger, queue, calls, claimed, fenced, touched, life,
                   turn, lease, times, lost>>

CancelTimesOut ==
    /\ Undecided /\ attempt.ready = "open"
    /\ attempt' = [attempt EXCEPT !.ready = "no"]
    /\ UNCHANGED <<ledger, queue, calls, claimed, fenced, touched, life,
                   turn, lease, times, lost>>

(* mutant: who stepped in while the cancellation settled is overlooked.    *)
GoesAheadBlindly == attempt.ready = "yes" /\ attempt.cancelled /\ proc = "up"

GoesAhead ==
    attempt.ready = "yes" /\ attempt.cancelled /\ ~attempt.superseded /\ proc = "up"

(* runPrompt after the turn: the recovery prompt in the same slot, or not. *)
Recover ==
    /\ Held /\ attempt.ready # "open"
    /\ attempt' = NoAttempt /\ touched' = FALSE
    /\ IF GoesAhead /\ child # "dead" THEN RunSinglePrompt({Diagnosis})
       ELSE UNCHANGED <<turn, times>>
    /\ UNCHANGED <<ledger, lost, queue, calls, claimed, fenced, life, lease>>

-----------------------------------------------------------------------------
(* The adapter and the supervisor.                                         *)
ChildExits ==
    /\ child # "dead" /\ proc # "down" /\ child' = "dead" /\ lease' = FALSE
    /\ UNCHANGED <<ledger, queue, calls, stall, proc, doomed, stops, turn, times, lost>>

(* close, until the adapter has answered session/close.                    *)
Close ==
    /\ proc \in {"starting", "up"} /\ proc' = "closing"
    /\ Supersede(TRUE)
    /\ turn' = IF turn.timer = "armed" THEN [turn EXCEPT !.timer = "cleared"] ELSE turn
    /\ lease' = FALSE
    /\ IF proc = "starting" THEN pending' = {} /\ commands' = {}
       ELSE UNCHANGED <<pending, commands>>
    /\ UNCHANGED <<ledger, place, calls, claimed, fenced,
                   child, doomed, stops, times, lost>>

(* close, to its end: a signalled adapter is still alive.                  *)
Closed ==
    /\ proc = "closing" /\ proc' = "closed"
    /\ child' = IF child = "alive" THEN "dying" ELSE child
    /\ UNCHANGED <<ledger, queue, calls, stall, doomed, stops, turn, lease, times, lost>>

Reset ==
    /\ proc' = "down" /\ child' = "dead" /\ doomed' = FALSE /\ stops' = stops + 1
    /\ pending' = {} /\ commands' = {} /\ turn' = NoTurn /\ lease' = FALSE
    /\ fenced' = FALSE /\ attempt' = NoAttempt /\ touched' = FALSE
    /\ Refuse({a \in Caller : pc[a] \in {"notifying", "waiting", "steering"}})

(* The process ends, of its own or killed at any step.                     *)
Stop ==
    /\ proc # "down" /\ stops < MaxStops /\ Reset
    /\ UNCHANGED <<ledger, place, claimed, times, lost>>

(* It is killed while a release writes its records.                        *)
StopInRelease ==
    /\ AtBoundary /\ child # "dead" /\ stops < MaxStops /\ Reset
    /\ \E p \in Prompt : First(p) /\ LET members == TakeBatch(p) IN
          \E m \in members : ledger' =
             Recorded(ledger, {q \in members : place[q] <= place[m]}, "started")
    /\ UNCHANGED <<place, claimed, times, lost>>

(* mutant: a prompt that was started is dispatched again.                  *)
RecoveredIfOpen(p) == ledger[p] \in {"admitted", "started"} /\ Retained(p)

(* recoverOpenPrompts dispatches what never started, if the body was kept. *)
Recovered(p) == ledger[p] = "admitted" /\ Retained(p)

(* start: the other open prompts are closed, and what is dispatched waits  *)
(* for the control socket (activateRecoveredPrompts).                      *)
Start ==
    /\ proc = "down" /\ proc' = "starting" /\ child' = "alive"
    /\ AppendSafe({p \in Prompt : ledger[p] \in {"admitted", "started"} /\ ~Recovered(p)}, "closed")
    /\ pending' = {p \in Prompt : Recovered(p)}
    /\ commands' \in SUBSET {p \in pending' : kind[p] = "command"}
    /\ fenced' = claimed
    /\ UNCHANGED <<place, calls, claimed, attempt, touched, doomed, stops,
                   turn, lease, times>>

ActivateRecoveredPrompts ==
    /\ proc = "starting" /\ proc' = "up"
    /\ UNCHANGED <<ledger, queue, calls, stall, child, doomed, stops, turn, lease, times, lost>>

-----------------------------------------------------------------------------
Submit ==
    \E p \in Prompt :
        \/ \E k \in Kinds : SubmitQueued(p, k) \/ SubmitInterrupting(p, k)
        \/ SubmitSteered(p)

Call ==
    \/ \E source \in {"owner", "scheduled-loop"} : Interrupt(source)
    \/ \E a \in Caller : Notified(a) \/ NotifyFails(a) \/ Settled(a)
    \/ \E p \in Prompt : Injected(p) \/ StartedNewTurn(p) \/ SteeringFails(p)

Session ==
    \/ CancelDeadline \/ Release \/ RefuseAtRelease
    \/ (\E cancelled \in {TRUE, FALSE} : Answer(cancelled)) \/ Terminated \/ AdapterSilent
    \/ Tick \/ CancelSettles \/ CancelTimesOut \/ Recover

Life ==
    \/ ChildExits \/ Close \/ Closed \/ Stop \/ StopInRelease \/ Start
    \/ ActivateRecoveredPrompts

Next == Submit \/ Call \/ Session \/ Life

Spec == Init /\ [][Next]_vars

-----------------------------------------------------------------------------
(* The type invariant.  A command's mark is on a prompt that waits, and    *)
(* what has no members is no turn.                                         *)
TypeOK ==
    /\ ledger \in [Prompt -> State] /\ claimed \in BOOLEAN
    /\ proc \in {"down", "starting", "up", "closing", "closed"}
    /\ child \in {"alive", "dying", "dead"} /\ doomed \in BOOLEAN /\ stops \in Nat
    /\ pending \subseteq Prompt /\ commands \subseteq pending /\ place \in [Prompt -> Nat]
    /\ turn \in Turn /\ (turn.members = {} => turn = NoTurn)
    /\ lease \in BOOLEAN /\ fenced \in BOOLEAN /\ attempt \in Attempt /\ touched \in BOOLEAN
    /\ pc \in [Caller -> Stage] /\ seen \in [Caller -> SUBSET Id]
    /\ kind \in [Prompt -> Kinds \cup {"none"}]
    /\ times \in [Id -> Nat] /\ lost \subseteq Prompt

(* An admitted prompt is handed to the adapter at most once, over every    *)
(* batch, cancellation, close, crash and restart, unless one of its own    *)
(* ledger records could not be written (recoverOpenPrompts: a started turn *)
(* is "never silently replayed"; appendSafe goes on without the record).   *)
HandedOnce == \A i \in Id : times[i] <= 1 \/ i \in lost

(* A turn carries one prompt or only messages, and leaves behind no prompt *)
(* the session owes that was admitted before a prompt it carries, except   *)
(* the internal prompts, which messages may overtake (takeBatch, and what  *)
(* recoverOpenPrompts puts back in line).                                  *)
Owed(q) == ledger[q] = "admitted" /\ q \notin lost

Overtakes(m, q) == kind[q] = "internal" /\ kind[m] # "internal" /\ m \notin commands

InOrder ==
    [][ LET next == turn'.members
        IN (turn = NoTurn /\ turn' # NoTurn /\ next # {Diagnosis}) =>
               /\ next \cap commands = {} \/ \E p \in Prompt : next = {p}
               /\ \A m \in next, q \in Prompt \ next :
                     (Owed(q) /\ place[q] < place[m]) => Overtakes(m, q)]_vars

(* A session's turn is cancelled by its watchdog once, over every restart, *)
(* and the recovery prompt is sent once, only if nobody else interrupted   *)
(* or closed the session between the cancellation and that prompt          *)
(* (StallWatchdog.tick, recoverStall, runPrompt).                          *)
OneDiagnosis ==
    [][ /\ (claimed /\ attempt'.phase = "cancelling") => attempt.phase = "cancelling"
        /\ times'[Diagnosis] # times[Diagnosis] => (~touched /\ times[Diagnosis] = 0)]_vars

(* close has cleared the deadline of the turn it found, and awaits the     *)
(* adapter's answer to session/close, for which it sets no deadline.       *)
LeftToAdapter == proc = "closing" /\ turn.timer = "cleared" /\ child # "dead"

(* A caller of cancelActive waits for a turn that has ended, or whose      *)
(* deadline is armed or has let it go, or whose request the end of the     *)
(* adapter or of the connection rejects, whoever else cancels that turn    *)
(* and whenever the session closes: it, and the arbiter's exclusive tail   *)
(* behind it, have a promise the program resolves by itself                *)
(* (awaitCancellationSettlement), but for a turn that close has left to    *)
(* the adapter.                                                            *)
WaitEnds ==
    \A a \in Caller : pc[a] = "waiting" =>
        \/ seen[a] # turn.members \/ turn.timer \in {"armed", "resolved"}
        \/ proc = "closed" \/ child = "dead"
        \/ LeftToAdapter

(* While its supervisor runs, a prompt of a person or a peer route is      *)
(* closed in the ledger only after the adapter was handed it (runPrompt:   *)
(* "none is left open and none is reported delivered that was not sent").  *)
SentOrOpen ==
    [][\A p \in Prompt :
         (proc # "down" /\ ledger[p] # "closed" /\ ledger'[p] = "closed" /\ kind[p] # "internal")
             => times[p] > 0]_vars
=============================================================================
