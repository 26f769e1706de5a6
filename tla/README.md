# ours-fleet: models, checks and proofs

This directory is a TLA+ development kept beside ours-fleet (the TypeScript fleet manager in
`src/`). It models the parts of the program where several things happen at once and where a mistake
loses or repeats something: agents' self-reminders, scheduled loops, the mail monitor, the prompts
and turns of an ACP session, the life of a task with its rooms and members, and the two locks that
every cross-process file update rests on. TLC checks the models on small instances; TLAPS proves
their safety properties for every value of the constants.

Paths below are relative to `src/src/` unless they start with `src/`.

## How to run it

    tlc -workers 2 -config MCReminders.cfg MCReminders     # any cfg with the module it names
    tlapm RemindersProofs.tla                              # likewise the other *Proofs modules

`PROJECT.json` lists the runs, the lines each definition stands for, the mutants (the way each
property was seen to fail when the code is broken on purpose), the hazards and the theorems.

## The system

ours-fleet supervises coding agents. Each *role* is an agent process run by a *runner* under
systemd or launchd. The runner owns one *session* with the agent (ACP, or a Codex app server).
Everybody who wants the agent to do something (the mail monitor, loops, reminders, the owner
channel, the web console) asks the role's *turn arbiter* for the session. Beside the runners
there are one-shot commands and a web server that edit the same state files, which is why locks
and atomic replacement matter.

### Inventory

| Component | Code | State it keeps | Operations | What is hard | What makes it correct |
|---|---|---|---|---|---|
| Self-reminders | `reminders/*` | reminders and wake events in memory, the same in a JSON file; timer; admissions in flight | agent's create, update, cancel, ack; poll (sweep, admit); claim at the boundary; release fence; recovery | awaits between claim, interruption, queueing and release; writes that fail before or after the rename; crash between dispatch and the model | a revision wakes the agent at most once, interrupts at most once, is never woken once voided, and is not forgotten |
| Scheduled loops | `loops/manager.ts`, `loops/state.ts` | cadence, active run and gap per loop; health; checkpoint file; timer; abandon timers | poll, attempt, finish, run-now, enable, disable, reload, stop, restart | a poll awaits an attempt and resumes with a stale list; a cancellation that never settles; failed checkpoints; backlog after restart | an occurrence is submitted at most once; the timer chain never breaks; the file tells the truth |
| Turn arbiter | `session/arbiter.ts` | one admission at a time, its generation, stalled admissions | queuePrompt, tryScheduled, tryReminder, tryUrgentReminder, interrupt, retireStalledAdmission | an interrupt holds the boundary until it settles; a retired holder returns late | one admission at a time; nobody waits for ever |
| Atomic files and locks | `atomic-file.ts` | a lock directory with two files; a directory of bakery claims; temp files | withFileLock, reclaimDeadHolder, withSynchronousFileLock, replaceFileAtomically | processes die anywhere; files are read and removed one by one | mutual exclusion; the dead block nobody; the living keep what they hold |
| Prompt batching | `session/prompt-batch.ts` | the session's queue | takeBatch, refuseAtRelease | a batch is taken out of the middle of the line | no prompt is overtaken, commands are boundaries |
| ACP session, Codex session | `session/acp.ts`, `session/codex-app-server.ts` | queue, running turn, ledger of prompts, steering lease, permission requests | prompt, steer, interrupt, close, recovery, protocol callbacks | late answers, a peer that hangs, interrupts that share a turn, a restart in the middle of a turn | a prompt is handed over at most once and in order; nobody waits for ever for a cancellation |
| Mail monitor | `monitor.ts`, `delivery/index.ts`, `recordMonitorOwner` in `runner.ts` | two cursors (observed, delivered) in memory; the delivered one in two files; the owner file; pending events; whether unread mail was checked | prime, run (check unread mail, poll, coalesce, deliver, advance, persist), stop | crash between a turn's success and the cursor; two files written one after the other; failed turns, pages and writes; a start at the tip | every arrival comes to be known, the cursor passes only what was delivered, only a mishap repeats |
| Stall watchdog, session ownership | `session/stall-watchdog.ts`, `session/session-ownership.ts` | one durable claim per session, the attempt in progress | tick, recoverStall | snapshot taken before the decision; someone else steps in before the recovery prompt | one interruption and one recovery prompt per session |
| Notification outbox and producers | `notifications/*` | a file of pending notices | enqueue, drain | crash between send and removal, retry bound | at least once, in order, bounded |
| Owner channel, lifecycle outbox, message recovery | `owner-channel/*` | inbox cursor, outbox, claimed messages, tasks | receive, claim, answer, retry | claims before fetch; restart with work open | each owner message is answered |
| Conversation store and replay | `session/conversation-*.ts` | numbered events on disk | append, replay, truncate | resume from a number that is gone | no gap a reader is not told of |
| Runner, temporary agents | `runner.ts`, `temp-*.ts` | attempt state, backoff, idle timer | start attempt, stop, restart, idle stop | signals during start, restart while stopping | one attempt at a time |
| Daemon, model and agent recovery | `*-recovery*.ts` | gates, backoff files | open, close, retry | restarts between steps | bounded, no wedge |
| Supervisors | `supervisor/*` | unit files, fleet catalog | install, start, stop, adopt | two managers of different versions | one unit per role |
| Task state, review, close, deletion | `rooms-tasks/*` | task journal and derived files, rooms, workspaces | create, contribute, review, close, delete, erase | long sagas with failures in the middle | a closed or deleted task leaves nothing half done |
| Watchdog | `watchdog/*` | schedule and run store | tick, run, alert | overlapping runs, restart | one run per slot |
| Subscriptions, file delivery, agent bridge, layouts, application services | `subscriptions/*`, `file-delivery/*`, `agent-ours/*`, `rooms-tasks/layout*.ts`, `application/*` | their own stores | request handlers | mostly sequential | stores agree with answers |
| Web console, reports, CLI, configuration, harness adapters, isolation | `web/*`, `reports/*`, `cli.ts`, `config.ts`, `harness/*`, `isolation/*` | little | presentation, parsing, external programs | I/O | not a subject for TLC |

How they interact, where it matters here: `ReminderManager` and `ScheduledLoopManager` have a
timer each and call the arbiter; the arbiter calls back (claim, beforeQueue) inside its admission
and then the session's `queuePrompt`; the session calls the prompt's guard back at the moment it
sends it; a completion comes back as a promise. Both managers write their file with
`replaceFileAtomically`. `withFileLock` calls `withSynchronousFileLock` to reclaim.

## Modules

| Module | What it is |
|---|---|
| `ReminderStore` | the reminder store's mutations as operators on store values (`reminders/store.ts`) |
| `Reminders` | store, file, dispatcher, boundary, session and agent composed: the state machine |
| `RemindersProofs` | its theorems |
| `ScheduledLoops` | loop manager, checkpoint file and the boundary as loops see it |
| `ScheduledLoopsProofs` | its theorems |
| `Section` | abstract: a section that one contender is in at a time |
| `SyncLock` | `withSynchronousFileLock`, the bakery; shown to implement `Section` |
| `SyncLockProofs` | its theorems, the refinement among them |
| `FileLock` | `withFileLock` and `reclaimDeadHolder`, using `Section` for the reclaim section |
| `FileLockProofs` | its theorems |
| `MailMonitor` | the mail monitor of one role: stream, cursors, files, turns, launches |
| `MailMonitorProofs` | its theorems |
| `TaskLifecycle` | one task: its record, rooms, members, and the four kinds of workers that share them |
| `TaskLifecycleProofs` | its theorems about the records, their locks and the order of things |
| `TaskErasureProofs` | its theorems about members and rooms that must be gone, on top of those |
| `AcpSession` | the line, the turns, the interrupts, the ledger and the stall watchdog of a role's ACP sessions, over restarts |
| `AcpSessionProofs` | its theorems |
| `MC*` | instances for TLC |

### Reminders

The process is single-threaded, so a step is what runs between two awaits. `mem` and `disk` are
store values; `Committed` is `commit`: a write that succeeds, one that fails before its rename,
or one that fails after it (the file is new although memory is put back). Every mutation of the
store is an operator of `ReminderStore` with the conditions and early returns of the method it
stands for, and `Try` applies it.

| Code | Action |
|---|---|
| `ReminderManager.start`, `stop`, `poll`, `changed`, `schedule` | `Start`, `Stop`, `Poll` (the whole sweep up to the first await), `Changed`, `Scheduled` |
| `admit` and the arbiter's two ways in | `BoundaryUnavailable`, `BoundaryIdle`, `BoundaryBusy`, `BoundaryInterrupt`, `InterruptSettles`, `Boundary2`, `AdmitReturns`, `AdmissionRetired` |
| `refuseAtRelease` and the session | `Release`, `PromptEnds`, `Settle`, `OtherArrives`, `OtherEnds`, `SessionDies` |
| the agent's tools | `Create`, `Update`, `Cancel`, `Ack` |
| process and machine | `Tick`, `ClockBack`, `Reload` (recover), `NextAttempt`, `Crash` |

`ActiveIsResolved` is what the component promises as a whole and is checked as liveness. Between
claiming and enqueuing a guarded prompt `queuePrompt` takes no await, so `BoundaryIdle` is one
step. A repeated request key and a stale revision change nothing and are left out. An attempt's
completions are assumed settled before the next attempt binds its manager.

### ScheduledLoops

`cadence`, `objs` and `wall` are the state; `Body` is what `persist` writes and `disk` what it
wrote. `poll[p]` is a poll with the list of due loops it made (`todo`): more than one may be under
way, because anything that calls `schedule` while a poll awaits arms the timer. `objs[l]` holds
every state object loop `l` has had, because `reload` copies them and a run under way keeps the
old one. `line` and `holder` are the arbiter's admission. `deadline` and `abandon` are timers.

A poll runs atomically up to an await. What another producer wants of the boundary is an outsider in
the same line: `OtherAsks`, `OutsiderHolds` and `OutsiderDone` are its admissions and its own
interrupts, and a turn it starts is `OtherTurn`. A loop's cancellation (`Deadline`) takes the
boundary as the outsider "interrupt", and meets there whatever turn runs by then, which need not be
the one it was meant for. A turn ends before its session dies. A restart's several writes count as
one write, and the configuration does not change across a restart. Corrupt files and the counters
shown to the operator are left out.

### The locks

`SyncLock`: one step per operation on the directory of claims, namely a listing, the read of one
claim, a publication (`replaceFileAtomically`, so a read sees old or new), a removal. A contender
is one call and the process that makes it, which blocks meanwhile. Whoever reads a dead process's
claim removes it. `GiveUp` is the deadline and any thrown I/O error; the removal of one's own
claim is assumed to work. Tickets stay far below 2^53.

`FileLock`: one step per file operation of a claim, of the observation (`owner.json`, `ts`, `ts`
again for its age, `owner.json` again for its process), of the second reading inside the reclaim
section, and of a removal, which lists the directory, unlinks each file in any order and removes
the directory. A stamp may be old or not: time is left open, and `waited` says a call may have
waited twice as long as makes a stamp old. A call that sleeps is taken to have waited that long,
because what it did in between changed nothing. The section is the abstract `Section`: `SyncLock`
shows the code's section implements it. Locks of old releases, without a boot id, are left out.

### MailMonitor

The daemon's notification stream is read by position and never consumed, so `stream` is a sequence
and a page is any stretch after its start (`PageEnds`; empty only at the tip). `cursor` is
`MailMonitor.cursor` (observed), `delivered` the delivered cursor; `state` is `deliveredCursor` in
`.monitor-state.json`, `file` the older `.notify-cursor`. The second is overwritten in place, so a
failed write may leave it empty. `pc` is the await at which `run` stands.

| Code | Action |
|---|---|
| `recordMonitorOwner`, `readPersistedCursor`, `prime` | `Launch`, `PrimeAtTip`, `PrimeFails` |
| `run`: head of the loop and its pauses | `Run`, `Resumes` (`Loops`) |
| `run`: the check for unread mail, `deliverLine` | `Probe`, `ProbeFails`, `BacklogTold`, `BacklogRefused` |
| `run`: `poll`, `filterEvents`, `advance`, `persistCursor` | `Page`, `QuietPage`, `PollFails` |
| `coalesce` | `Gather`, `GatherNothing` |
| `deliver` and the commit after it | `WakeTold`, `WakeSteered`, `WakeRefused`, `Commit` |
| the end of a turn that a wake was steered into or started, which the monitor does not hear of | `SteeredTurnEnds` |
| `stop`; the rest of the world | `Stop`, `Crash`, `SessionDies`, `Arrive`, `Read` |

`pc = "accepted"` separates the success of a turn from the commit, which is where a crash repeats a
wake. A wake has two ways to succeed: its own turn ended well (`WakeTold`), or the session answered
'injected' or 'startedNewTurn' while the turn goes on (`WakeSteered`); `steered` are those whose
turn has not ended and `dropped` those whose turn then came to nothing. `coalesce` gathers one more
page: a further one reads the same way. A launch starts with either owner in the file, since an
upgraded role may come from a native monitor; from then on the runner (`runner.ts:699`) takes the
fleet's part. Left out: how an outcome's cause is worded and recorded, the streak of API errors,
reading the agent's terminal, changes of the role's identity, and a daemon that loses its history.

### TaskLifecycle

A task is started, gets a room at Cowork and a member per seat of its template, and ends by a
settled intent (done or cancelled) or by its deletion. Four kinds of processes do this, each of
which may fail or die between two awaits and is then started again from the records on disk:

| Worker | Code | Actions, in order |
|---|---|---|
| provisioner (any number) | `continueTaskProvisioning`, `publishRoom`, `reconcileProvisioningOwner` in `application/task-room-service.ts`; `rooms-tasks/provision.ts` | `ProvisionStart`, `Publish`, `CreateRemote` or `RoomRefused`, `RecordRoom`, `AttachOwner`, `ProvisionMembers`, `Admit`, then per member `Retain`, `RefuseMissing` or `LaunchMember` and `Spawned`, and `AwaitSeats` |
| settlement | `settleTaskTerminalIntent` in `rooms-tasks/terminal.ts` | `SettleStart`, a close, an erasure, `FinishIntent` |
| deletion | `settleTaskDeletion` in `rooms-tasks/deletion.ts` | `DeleteStart`, per record `ScanRecord`, a close, `ImportEvidence`, `DeleteRoomOfTask`, `DropRecordOfTask`; then `ScanDone`, per cursor `CursorRecheck` or `CursorRemove` and `CursorGone`; `CleanupDone`, `UnlinkTask` |
| room deletion | `requestRoomDeletion`, `deleteManagedRoom` | `RoomDeletion`, a close, an erasure |
| a close, shared | `closeManagedRoom`, `retireMember` in `rooms-tasks/close.ts` | `CloseUnrecorded`, `CloseAgain` or `CloseRoom`; per member `Recheck`, `Inspect`, `StopMember`, `ArchiveMember`, `RecordArchive`, `RemoveIdentity`, `RecordGone`; `AllRetired`, `CloseRemote`, `RecordClosed` |
| an erasure, shared | `deleteManagedRoom` | `EraseRoom`, `DeleteRemote`, `DropRecord` |
| members' processes | `spawn.ts`, `task-supervision.ts`, `runTemp` | `Launch`, `Run`, `Join`, `Leave` |
| the operator | `cancelTask`, `finishTask`, `reviewTask`, `deleteTask` | `AskTerminal`, `AcceptTerminal`, `ReviewTask`, `AcceptDeletion` |

A step is what a worker does between two awaits. Taking a lock that is free counts as part of
the step that follows, and the reading and the writing of one record under its own file lock are
one step. `taskLock` and `roomLock` are `withFileLock` on the two operation locks, taken as
`FileLock` shows them to be when no reclaim is blind: exclusive, and freed when their holder dies.

`room[r]` is the record's state, saga and close phase in one value; `seat[r][m]` what the record
says of a member (how far its launch has come, whether its CID is known, how far its retirement
has come); `cursor[m]` the same evidence after the room's record is gone. `agent[m]`, `owner[m]`
and `identity[m]` are what is really there: the state directory and its supervisor, the launch it
belongs to, and the identity at the daemon. The properties relate the two. A spawn that its caller
gives up may still happen, in the proxy's process or with the supervisor it was registered with; may
be undone; or may leave a directory without a supervisor's metadata (`"bare"`, `SpawnLost`), which
nothing cleans up.

A close or a deletion refuses what it cannot prove, and the model refuses with it. `Inspect` refuses
a directory without metadata and one that belongs to another launch; `RemoveIdentity` (`MayRemove`)
refuses a member that was launched and has no CID on record, and one that has a CID and no launch on
record; `ImportEvidence` (`Unproven`) refuses an archived seat whose CID and launch are both unknown
(`seat.exact` says that its retirement names a real launch). A refused worker ends and may be started
again, and may be refused for ever; see Findings. A stopped member's own release of its identity
(`runner.ts:1661-1673`) makes the same checks under the same lock and is part of `RemoveIdentity`. The
host is one whose supervisor is managed.

A CID is the room whose launch made the identity. So a stranger who takes a member's name is not
modelled. Neither are workspaces, contributions, reports, mission keys, idempotency keys and
revisions, an operation that is repeated while it runs in the same process, rooms without a task,
and the branches that serve records of earlier versions. The name of a member is free for a new
launch once its state directory is archived.

### AcpSession

One role's supervisor processes, one after another, each resuming the same ACP session. Prompts
are told apart by what the line and the ledger tell apart (`kind`): a message of the console or of
a local client, which the ledger keeps with its body; a command the adapter advertised; a wake,
whose body is not kept and which is steered into a running turn; an internal prompt, which runs
alone behind a guard. `ledger` is on disk; `pending` with `place` is `pendingPrompts` in the order
of admission; `turn` is `activeTurn`; `pc[a]` and `seen[a]` say where a call stands between two
awaits and which turn it captured before the first. `times` counts what reached the adapter.

| Code | Action |
|---|---|
| `queuePrompt`, `admitToLedger`, `enqueue` | `SubmitQueued` (`Admit`: the record may fail), `SubmitInterrupting` |
| `steerOrQueueWake`, `startOwnedWake`, `steerPrompt` | `SubmitSteered`, `Injected`, `StartedNewTurn`, `SteeringFails`, `AdapterSilent` |
| `interrupt`, `cancelActive`, `awaitCancellationSettlement`, `forceCancellationRecovery` | `Interrupt`, `CancelActive`, `Notified`, `NotifyFails`, `Settled`, `CancelDeadline` |
| `release`, `takeBatch`, `refuseAtRelease`, `runSinglePrompt` | `Release`, `RefuseAtRelease`, `Answer`, `Terminated` |
| `StallWatchdog.tick`, `recoverStall`, `runPrompt` | `Tick`, `CancelSettles`, `CancelTimesOut`, `Recover` |
| the child's exit, `close`, `recoverOpenPrompts`, `activateRecoveredPrompts` | `ChildExits`, `Close`, `Closed`, `Start`, `ActivateRecoveredPrompts` |
| the process is killed, also between the records of one batch | `Stop`, `StopInRelease` |

A step is what runs between two awaits. The adapter answers at any time, late or never, and exits
of its own or after a signal. When a turn counts as stalled is left open (`Tick` at any safe
moment). An append to the ledger may fail for one prompt at a time, and `MaxLost` bounds how many
prompts lose a record; a console prompt is refused then, though its record may have reached the
disk. Who interrupts is `owner` (which takes a cancellation over) or any other caller. A recovered
command is a command only if the adapter has advertised it again. The watchdog's own prompt has no
ledger state, because its body is not kept and no start dispatches it. Left out: permissions, tools
and readiness, which only delay the watchdog and the monitor; the startup prompt; sessions that
are not resumed; the wait for a tool boundary before a wake; texts, events and observation.

## What the runs check

| Run | Instance | What it shows |
|---|---|---|
| `reminders_safety` | 2 reminders open at once, 2 creations or updates in all, 3 events, times 0..2, 2 mishaps (failed write, crash, stop, dead session, clock step) | `OncePerRevision`: at most one wake, one interruption and one event per revision, and a wake the model has seen is on record; a voided wake is never delivered; what the file says would not wake twice (`StoresSound`); no lost wake-up; a wake handed over stays on record until acknowledged, also while another reminder's event is claimed, swept or pruned (863 thousand states) |
| `reminders_live` | a reminder and its successor, 1 open at a time, 1 mishap, `FairSpec` | an active reminder is resolved (72 thousand) |
| `loops_crash` | 1 loop, 2 overlapping polls, 2 runs, 1 command, 2 mishaps | an occurrence is submitted at most once, `FileIsTrue` (the file is current, records no outage that is over, and its cursors are past what was submitted), `TimersHold` (the manager is armed, and a held slot has a timer) (658 thousand) |
| `loops_operated` | 2 loops, 2 commands of the operator or of other producers, `FairSpec` | what is disabled stays disabled, also over a reload or a restart after the disable; a poll returns although turns and cancellations may hang, but for a cancellation adrift (144 thousand) |
| `sync_lock` | 3 calls, any of which may give up or die | `Section` is implemented, nobody waits for ever (29 thousand) |
| `file_lock` | 3 calls, each may die at any step | one holder and no foreign removal unless a reclaim was blind; everybody gets the lock (96 thousand) |
| `file_lock_blind` | the same | finding 1 |
| `mail_monitor` | 2 notifications, 1 fault, 1 crash, 1 orderly restart, `FairSpec` | the cursor covers only what was delivered, by a turn that succeeded or by steering into one; nothing observed is forgotten; a repeat needs a mishap and a skip a fault; every arrival comes to be known (408 thousand) |
| `mail_steered` | 2 notifications, no fault, no crash, no restart | finding 3 |
| `task_lifecycle` | 2 room ids, 1 member, 2 provisioners, 1 mishap, all four kinds of workers, spawns that outlive their callers | one room record per task; a member said to be gone stays gone; an erased task leaves nothing; a settled intent that names a room has closed it; an accepted deletion fences everything; closing goes forward (2.3 million) |
| `acp_session` | 3 prompts, a resumed session, 1 end of the supervisor, 1 prompt that loses a record | no prompt is handed over twice, none is overtaken, a caller's wait for a cancellation ends unless `close` has left its turn to the adapter, one cancellation and one recovery prompt by the watchdog (2.3 million) |
| `acp_stop` | 2 prompts, no lost record, no kill | finding 2 |

Why the bounds are enough. Two mishaps allow a failed write followed by a crash, a crash during
recovery from a crash, and a clock step after a failed write. Two revisions are what a void needs;
three events allow a voided, a retried and a fresh one. `MaxChanges` lets the two revisions be of
one reminder or of two that are open together and compete for the boundary; `MaxRetained` 0 prunes
at once. Time 2 with `LateWindow` 1 reaches due, late and expired. Two runs allow a run and the one
that follows it; two polls and a command are what an overlap, a poll that throws beside another and
a switch between two steps of an attempt need; two commands allow a disable followed by a reload, an
enable or an outsider at the boundary; two loops are what a stale list needs. Three contenders allow
a holder, a reclaimer and the fast successor between them, and both kinds of removal at once. Two
notifications allow a page and a straggler, or one that is told and one that is left behind; one
fault, one crash and one restart can come in any order. Two room ids allow a room made twice, which
is the case `RoomOfTask` is about; two provisioners race each other, and the one mishap leaves a
half-done step of any of the five processes for the others to meet. One member is enough for the
races about a member, since seats are handled one by one; the proofs are for any number of members
and mishaps. In `acp_session` three prompts let a batch pass a third that waits: `Mixes` names the
kinds that meet, which are two messages around a command, two messages with a wake, and an internal
prompt with a message or a wake. The classes of prompts meet pairwise and three in the one rule that
concerns three. One end of the supervisor is followed by a start that reads the ledger; one lost
record is what excuses a repetition, and the other prompts are not excused by it. The proofs remove
the bounds for the safety properties they cover. `CHECK_DEADLOCK FALSE` is set in every cfg: the
bounded clock, runs or calls come to their end, and so do the programs modelled.

### Fairness

- `Reminders`: callbacks and awaits return, the timer fires, the clock moves, a supervisor starts
  the next attempt, other turns end; `Release` is strongly fair since the session's queue is
  served in order while it may be refused in between. Nothing is assumed of the agent or of crashes.
- `ScheduledLoops`: polls go on, timers fire, the boundary is granted, what another producer asks
  for at the boundary comes back, and a cancellation settles once the session has no turn, whoever's
  turn it met. A turn need not end and a cancellation need not settle while any turn runs:
  `PollReturns` is about exactly those. It names the one state in which the code leaves a poll waiting
  (`CancelAdrift`, see Findings), and when the bound on runs stops a claim it is excused
  (`used = Run`).
- `SyncLock`, `FileLock`: a living process takes its next step; nobody need begin, give up or die.
  In `FileLock` entering the section is strongly fair, which the bakery's `GetsIn` justifies, and
  functions under the lock return. `FileLock`'s `GetsLock` counts a thrown `ENOTEMPTY` ("failed")
  as an end, as the code does.

- `MailMonitor`: the runner launches the role again and takes its steps, and a submitted line is
  answered. `Probe`, `Polls`, `BacklogTold` and `WakeTold \/ WakeSteered` are strongly fair: a
  daemon and a session that are asked again and again do not fail each time. Nothing is assumed of
  arrivals, of the agent's reading, of stops and of crashes (which the bounds make finite).

- `TaskLifecycle` states no fairness and no liveness: that a deletion or a terminal intent comes to
  its end is not true of the code, which can be wedged (see Findings). What is checked is that
  whatever does come to its end has left nothing behind.

## What is proved

Every safety property of every passing run, invariant or action property, is a theorem: for any
number of reminders, events, calls, revisions, instants, loops, pollers, notifications, rooms,
members, provisioners, prompts and mishaps. The assumptions are the named `ASSUME`s of the modules
(constants are natural numbers, sets do not overlap, an interval is not zero, and a mail stream
may hold at least one notification, as it may when a role starts). What stays with TLC is at the end
of this section.

**Reminders** (`RemindersProofs`). `WokenOnce` is not inductive: the reason a revision is not
woken twice is in the file that a later process reads. The invariant `IInv` is the type invariant
with `Sound` of the store in memory and of the store on disk. `Sound` says that records and
events fit (a current event is undispatched exactly while its reminder is active), that a
revision has one event, and that each revision in the histories is accounted for: a woken one has
no undispatched event, one that interrupted carries its mark. The lemmas show that each store
operator preserves `Sound`; so whichever value a failed write leaves behind is sound; and
the history grows only together with a successful write that accounts for it. Theorems: `Typing`,
`Soundness`, `AtMostOneWake`, `AtMostOneInterruption`, `SeenStaysHeld`, `OneEvent`, `AtMostOnce`
(the four together, `OncePerRevision`), `VoidedStaysVoid`. Two more rest on invariants of their own.
`NobodyForgotten` (`NoLostWakeup`): `Attended` says that a manager that rests without a timer has
found nothing to do, that an event some admission owns is in a prompt or is the one the poll is
asking for, and that an admitted event is in a prompt; so a reminder still active then is
waiting for a prompt to settle, and for nothing else. `DeliveredStays` (`WokenIsOnRecord`): `Filed`
says that memory and file agree on every wake handed over for as long as the file has it
delivered; so no write made for another reason, by pruning, by a sweep or for another reminder,
can take it off the record.

**ScheduledLoops** (`ScheduledLoopsProofs`). `OccurrenceOnce` and `FileIsTrue` are not inductive:
an occurrence is claimed in one step and submitted in another, and between the two lie awaits,
reloads, a disable, other polls with stale lists and the death of the process. `ClaimsPast` says of
every occurrence that was submitted or still waits at the boundary that it lies behind the cursor
of its loop, in memory and in the file, as long as the loop keeps the definition it was claimed
under; that what waits has not been submitted; and that no two attempts wait with the same one.
Cursors only move forward while the definition stands (`GoesOn`), and a claim is only accepted
when it has been written, which is where at-most-once comes from. For `TimersHold` the invariant
ties attempts, runs and timers to state objects that exist (`AttemptsRefer`, `RunsRefer`), also the
old ones that a reload leaves behind, and the arbiter's line to the attempts that wait in it.
Theorems: `Invariance`, `Typing`, `Checkpoint` (`FileIsTrue`), `Timers` (`TimersHold`),
`AtMostOnce` (`OccurrenceOnce`), `DisabledStays` (`DisableLasts`).

**SyncLock** (`SyncLockProofs`). The invariant `Order`: if a call has passed another (it works, or
has read it and found nothing ahead), then the other has no ticket yet and will see, or has seen,
this call's ticket, or its ticket comes later. Theorems: `Typing`, `Exclusion`
and `Refinement` (the bakery implements `Section`).

**FileLock** (`FileLockProofs`). The invariant has a part that always holds (`Frame`: a token that
has been published never comes back, both files are of one call, who means to reclaim has judged the
owner it saw dead) and one that holds until a blind reclaim (`Care`: a holder's lock is whole, what
a release has left to unlink is its own, what a reclaim has left to unlink is a dead call's).
`HolderIsSpared` and exclusion follow: a removal of dead files cannot meet a living holder's lock,
because a new lock can only be renamed in when both files are gone. Theorems: `Typing`, `Exclusion`
(`OneHolderUnlessBlind`), `Sparing` (`HolderIsSpared`), and `Refinement`: until a blind reclaim the
calls that run their function implement `Section`, the same promise that the bakery keeps always
(`SectionUnlessBlind`, which is not a property of a run, since the invariants of `file_lock` say
most of it).

**MailMonitor** (`MailMonitorProofs`). `CommittedIsTold` speaks of the cursor a launch would read:
what it covers was delivered, by a turn of its own that succeeded or by steering, and finding 3 says
what the second is worth. It is not inductive: a failing write can bring the older file's cursor
back, and the next commit writes what was observed. The invariant asks it of every place a cursor is
kept (`KeptIsSettled`), that whatever is observed and not settled is pending (`ObservedIsHeld`), and
that what is about to be committed was told (`AcceptedIsTold`). `NoDeafGap` needs besides that a
start at the tip leaves the unread check open until it has told or found nothing (`Covers`), and
`SkipsNeedFault` that without a fault a role once woken has a cursor on disk (`Kept`).
`RepeatsNeedMishap` has an invariant that speaks of histories without a mishap (`Mishapless`): the
cursor a launch would resume from is the one in memory, what was told lies behind it and what is
pending ahead of it. Only between the success of a wake and its commit is the agent ahead of the
cursor, and nothing but a crash or a failed write can come between those two. Theorems:
`Invariance`, `Typing`, `Committed`, `NoGap`, `SkipsExplained`, `RepeatsExplained`.

**AcpSession** (`AcpSessionProofs`). `HandedOnce` is not inductive: that a prompt is not handed over
a second time is decided by the line and, after a restart, by the ledger. The invariant adds that
what is in line or admitted was not handed over unless its own record is lost (`Unsent`), that a
prompt not queued yet has left no trace (`Untold`), and that no turn comes again, because neither
the running one nor one that a caller captured has a member still in line (`NeverAgain`). On that
and on what a caller may be doing while a process is down or starting (`InCall`) rests `WaitEnds`:
a caller compares turns, and a turn that equals the captured one is the captured one. `WaitEnds`
speaks of every phase of the process: while it is up, closing, closed or down, a waiting caller's turn
has ended, or has a deadline armed or resolved, or its request is rejected by a dead child or a
closed connection, or `close` has cleared the deadline and waits for the adapter itself
(`LeftToAdapter`, see Findings). `OwedInLine`
says that a live session has in line what the ledger owes, which with the lemma `BatchInOrder`
about `takeBatch` gives `InOrder`. `Watched` says that an attempt rests on the durable claim and
that whoever stepped in has superseded it; `OneDiagnosis` follows, since only a tick cancels and
only a held slot diagnoses. The proof has one lemma per action, with one step per part. Theorems:
`Inductive`, `TypeIsInvariant`, `HandedOnceHolds`, `WaitEndsHolds`, `InOrderHolds`,
`OneDiagnosisHolds`: every property of `acp_session`, for any prompts, restarts and losses.

**TaskLifecycle** (`TaskLifecycleProofs`). None of the properties is inductive, since each rests on
who holds which lock. The invariant says so (`Locked`: a worker at such a place holds the task's
lock or its room's), and what a worker under a lock may still rely on from its last look:
`Publishing` (who makes a room saw no record and no deletion, and both still hold), `Opened` (who
launches members has an open room), `Closing` (who closes has a closing one), `Archiving` (an
archive not yet recorded is of a stopped member), `Fresh` (without a deletion no cursor is set).
Each action is shown to keep each part. Theorems: `Invariance`, `Typing`, `OneRoomOfTask`
(`RoomOfTask`), `Fencing` (`DeletionFences`), `ClosingGoesForward` (`CloseGoesForward`).

**TaskErasure** (`TaskErasureProofs`). That somebody is gone can be undone by whoever is still on the
way: a spawn that comes late, a launch resumed from a record, a second worker. So the invariant
`EInv` adds to the one above who may still be about. `Served`: whoever runs or has an identity was
launched for a recorded room which has not retired him, and whoever runs has at most been told to
stop. `Seated`: an open room retires nobody, an unlisted or closed one has retired everybody it
knew. `Retired`: a closer has found gone whom it counts as gone, and at the step that records it the
name is free. `Making`, `Kept`, `Fetched`: what Cowork holds is recorded, in the hands of the one
who asked for it, or lost with its maker. `Linking`: while room and link are there, a provisioner
works for the room of the task, so a deletion that follows the link finds what it must close.
`Settling` and `Erasing`: who erases has closed the room, or found it without seats, and a settled
intent's room is off the records and deleted at Cowork. There is a lemma per action. Each shows the
parts that mention nothing the action changes, and then the others one by one. Theorems: `Erasure`,
`GoneForGood` (`GoneStaysGone`), `ErasedLeavesNothing` (`NothingLeft`), `SettlesClosed`
(`SettledIsClosed`).

Model-checked only: liveness (`ActiveIsResolved`, `PollReturns`, `GetsIn`, `GetsLock`,
`ToldInTheEnd`), since TLAPS 1.4.5 does not prove fairness
arguments. The three runs with a finding are counterexamples, and the properties they refute are of
course not theorems; `Exclusion` of `FileLock` says how far the first of them holds.

## Findings

1. **`file_lock_blind`** (`atomic-file.ts:174`). A call observes a lock that shows no `owner.json`
   because its holder is just releasing it (the stamp alone is old after a hold of more than ten
   seconds; or nothing is left and the call has waited more than twenty). Inside the reclaim
   section the same half-removed lock still compares equal. Then the release ends, a third
   call renames its lock into place, and the first one's `rmSync` removes that living lock and
   claims the path: two calls run. The comment above `reclaimDeadHolder` says it cannot happen.
   Everything that goes wrong is in that one comparison: `OneHolderUnlessBlind` holds and is proved.
2. **`acp_stop`** (`session/acp.ts:1471`). `close` ends the connection, signals the child and lets
   the running turn fail; the child has not exited yet, so `isAlive` holds. The chain of turns goes
   on and releases the prompts left in the line: each gets `prompt.started`, a request that fails
   at once on the closed connection, and `turn.completed`. They were never sent, and are closed,
   so the next start does not dispatch them. The comment at `session/acp.ts:1766` says that
   such members stay admitted and are dispatched by the next session generation, and `docs.ts:1126`
   promises it to the user. `runSinglePrompt` would have to look at `closing` too.
3. **`mail_steered`** (`runner.ts:1017`). A wake that is steered into a running turn, or that the
   adapter starts a turn of its own for, comes back as 'injected' or 'startedNewTurn'
   (`session/acp.ts:1869`, `session/acp.ts:924`) before that turn has ended, with the outcome
   'inconclusive', and `submit` counts it as succeeded. The monitor commits its cursor; when the turn
   is then cancelled, refused or lost, the mail lies behind the cursor and was not acted on. The
   comments at `monitor.ts:79-81` ("`succeeded` is the turn's TERMINAL result ... a refused or
   cancelled wake was seen and not acted on, and must not commit the cursor") and
   `runner.ts:984-986` say it must not. `CommittedIsTold`, which holds and is proved, is what is left.

Noticed while modelling, and not stated as properties:

- *Reminders.* `replaceFileAtomically` renames before the last step that can fail
  (`atomic-file.ts:229`), so `reminders/store.ts:326` restores memory while the file is new, and
  the tool's "nothing was changed" (`reminders/tools.ts:72`) can be untrue; a crash brings the
  change to light.
- *Loops.* A poll that resumes with its stale list (`loops/manager.ts:149`) submits an occurrence
  that an overlapping poll, started by an operator's command, has moved into the future, before its
  time (`README.md:793` excludes cadence drift). An attempt whose prompt the session refuses has
  already cleared the gap it would have reported (`loops/manager.ts:186`, against the comment at
  178-180), and a gap that grew while an attempt waited is cleared with it. A reload copies each
  loop's state, so a run that ends afterwards clears `activeRunId` on the old copy and the next
  restart reports it abandoned. `finish` does not arm the retry of a failed checkpoint when every
  loop is off. A loop disabled during an await is still attempted from the poll's list. After `stop`
  a waiting poll still advances the loops left in its list. `manager_task_failed` stays in the
  health after a restart until the next failed poll and recovery. A cancellation can drift
  (`CancelAdrift`): the deadline of a run puts its interrupt in the arbiter's line, the run ends by
  itself, another producer's turn starts, and the interrupt takes the boundary and waits for that
  turn. The abandon timer then finds that its run is over and returns (`loops/manager.ts:261`)
  without calling `retireStalledAdmission`, so while that turn hangs nobody retires the stalled
  admission and the poll that waits behind it arms nothing. The comments at
  `session/arbiter.ts:128-129` and above `armAbandon` say that a single operation that never settles
  cannot own the boundary.
- *Mail.* A role without a cursor whose startup turn fails after the tip was written, or that
  crashes there, resumes from that tip, and introductions before it are never told
  (`src/README.md:985` speaks of no missed arrivals; unread mail is, since every launch checks for
  it). After a failed prime `run` polls from the start and tells old arrivals again.
- *Tasks.* `cancelTask` reads the task's room before it waits for the task's lock
  (`application/task-room-service.ts:736`): when the room is published in between, the intent is
  accepted and finished without a room, and the room stays open with its members, although
  `src/test/task-room-service-parity.test.ts:633` has cancellation always settle a linked room. A
  close or a deletion can be wedged: each retry refuses for the same reason and a person must look,
  although the comment at `rooms-tasks/deletion.ts:214` has every crash seam leave the hidden intent
  recoverable. (a) A launched member that stopped before it had a runtime or a CID is on record:
  `releaseRetainedMemberRuntime` throws MEMBER_RUNTIME_RETIREMENT_MISSING or MISMATCH
  (`rooms-tasks/close.ts:138-169`, called at 184 and 197). This needs no fault: a cancellation that
  arrives between a member's launch and its start fences the supervisor (`runner.ts:1659-1661`). (b)
  A member that joined and whose launch was never recorded as launched: SOURCE_MISSING
  (`rooms-tasks/close.ts:143`); the runner's own release refuses as well
  (`task-supervision.ts:124`). (c) A directory without a supervisor's metadata, left by a throw or a
  death in `spawn.ts` between 460 and 492: `inspectMember` refuses (`rooms-tasks/close.ts:76-85`).
  (d) A seat whose launch was not confirmed, found running and stopped, without a CID:
  `proveArchivedAbsence` refuses (`rooms-tasks/archived-absence.ts:39-43`). The model contains these
  refusals. `publishRoom` (`application/task-room-service.ts:1318`) checks the deletion only, so a
  task whose intent settled without a room can still get one. `acceptTaskTerminalIntent` begins and
  finishes an intent without a room in two writes: a crash between them leaves it pending, which the
  next settlement finishes (modelled as one step). The checks `finalize` repeats before unlinking
  never fail in the model. The removal of an identity is a check by CID followed by a removal by
  name (`rooms-tasks/close.ts:171-215`; the comment at `rooms-tasks/deletion.ts:105`).

- *Sessions.* `respondPermission` (`session/acp.ts:1293`) and the automatic settlement (1384) set
  `readiness` to running also for a permission that a steering-started turn asked for; the release
  of the lease (701) does not take it back, so the role reports running, without a turn, until the
  next turn it owns ends (the comment at 695-700 says that no lease can leak so). After
  `forceCancellationRecovery` has signalled the adapter, a late answer lets the next batch be handed
  to the dying process, since `runSinglePrompt` does not look at `cancelRecoveryReason`. A console
  prompt refused because its record failed to be synced may be in the file all the same and be
  dispatched by the next start. A recovered command that the new adapter has not advertised yet is
  sent as a message. `close` clears the deadline of a cancellation (`session/acp.ts:1455-1456`) and
  then waits for the adapter's answer to `session/close` without a timeout (1466-1468) before it ends
  the child (1473): with an adapter that does not answer, whoever waits for that cancellation, and the
  arbiter's tail behind it, have a promise nobody resolves. The comment at 1270-1272 says that must
  not be; `WaitEnds` shows that it is the only such state of the model (`LeftToAdapter`).
- *Notifications.* `NotificationOutbox.retire` keeps the checkpoint (`notifications/outbox.ts:169`),
  so a role created again under the name finds an old offset.

## Plan

1. Reminders: modelled, checked, proved.
2. Scheduled loops: modelled, checked, proved.
3. Section, SyncLock, FileLock: modelled, checked, proved.
4. `MailMonitor`: modelled, checked, proved. To come: an abstract at-least-once delivery
   specification that it implements.
5. `TaskLifecycle`: modelled, checked, proved.
6. `FleetNotifications` and `MessageRecovery`: claim, send, remove, retry bound, crash between any
   two. The same abstract delivery specification serves them.
7. Runner and temporary-agent lifecycle, then the watchdog scheduler.
8. `AcpSession`: modelled, checked, proved. To come: permissions and tool boundaries, which delay
   wakes and the watchdog; the Codex session as a second implementation of the same line.
9. The conversation store's segments and replay windows against a reference definition.
10. Refinements still to state and prove: an abstract "promise" of a reminder (scheduled, void,
    woken) that `Reminders` implements; `AcpSession` as the session that `Reminders` and
    `ScheduledLoops` assume.

## Not modelled, and why

Presentation and I/O (web, reports, CLI, configuration, harness adapters, isolation, supervisors'
calls to systemd and launchd) have no state that an interleaving could break within this repository.
The Codex session is modelled only as far as the components above observe a session. `Reminders` and
`ScheduledLoops` see the session as an abstract one; `AcpSession` models the real one, and that it
implements theirs is not shown. The rest of the inventory is on the plan; `PROJECT.json` says for
each component what is covered.
