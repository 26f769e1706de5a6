------------------------------ MODULE Reminders ------------------------------
(***************************************************************************)
(* Self-reminders of one agent: the durable store, the dispatcher          *)
(* (src/src/reminders/manager.ts), the role's admission boundary           *)
(* (tryReminder and tryUrgentReminder of src/src/session/arbiter.ts) and   *)
(* the session's release fence (refuseAtRelease of prompt-batch.ts), with  *)
(* the agent's own tool calls, failing writes, clock steps, a dying        *)
(* session, orderly stops and crashes.                                     *)
(*                                                                         *)
(* The process is single-threaded; a step here is what runs between two    *)
(* awaits.  mem is the store in memory, disk the file.  replaceFileAtomi-  *)
(* cally can fail before its rename (the file is unchanged) or after it    *)
(* (the file is new although the caller is told the write failed).         *)
(***************************************************************************)
EXTENDS ReminderStore, Sequences

CONSTANTS
    DueTime,       \* the due times the agent asks for
    RetryStep,     \* UNAVAILABLE_RETRY_MS, as one step
    MaxTime,       \* bound: the clock stops here
    MaxRevision,   \* bound: no update beyond this revision
    MaxChanges,    \* bound: no create or update once this many came before
    MaxMishaps,    \* bound: failed writes, clock steps back, stops, deaths, crashes
    NoId           \* the admission in progress when there is none

ASSUME ReminderAssumption ==
    /\ DueTime \subseteq Nat
    /\ RetryStep \in Nat
    /\ MaxTime \in Nat
    /\ MaxRevision \in Nat /\ MaxChanges \in Nat
    /\ MaxMishaps \in Nat
    /\ NoId \notin EventId
    /\ ReminderId \cap EventId = {}

VARIABLES
    mem, disk,     \* the store in memory and the file
    minted,        \* the UUIDs used so far, of reminders and of events
    now,           \* the wall clock
    phase,         \* of the manager: bound, started, stopping, or down (no store)
    armed,         \* its timer is set
    pc,            \* where its poll waits; "rest" when it is not polling
    cur, todo,     \* the event being admitted, the ones the sweep returned after it
    answer,        \* what the admission boundary answered for cur
    inFlight,      \* events owned by an admission of this process
    online,        \* the session is alive
    turn,          \* other work in the session: none, interruptible, not interruptible
    waiting,       \* another producer waits at the admission boundary
    prompt,        \* the session's prompt of each event
    mishaps,       \* how many mishaps have happened
    woke, asked,   \* history: revisions handed to the model; interruptions requested
    voided         \* history: newest revision of a reminder the agent was told is void

storeVars   == <<mem, disk, mishaps>>
managerVars == <<phase, armed, pc, cur, todo, answer, inFlight>>
sessionVars == <<online, turn, waiting, prompt>>
historyVars == <<woke, asked, voided>>
vars == <<storeVars, minted, now, managerVars, sessionVars, historyVars>>

WakeOf(s, e) == [rid |-> s.ev[e].rid, rev |-> s.ev[e].rev]

-----------------------------------------------------------------------------
(* Writing the store.                                                      *)

Mishap == mishaps < MaxMishaps /\ mishaps' = mishaps + 1

(* Mutant: memory runs ahead of a file that is written later.              *)
CommittedLater(s) == mem' = s /\ UNCHANGED <<disk, mishaps>>

(* commit: the change is on disk and in memory ...                         *)
Committed(s) == mem' = s /\ disk' = s /\ UNCHANGED mishaps

(* ... or memory is restored, whatever the failed write left behind.       *)
WriteFails(s) == Mishap /\ mem' = mem /\ disk' \in {disk, s}

(* A change whose failure the caller swallows.                             *)
Try(s) == Committed(s) \/ WriteFails(s)

(* A diagnostic field is written, or could not be, or did not change.      *)
Diagnostic == mem' = mem /\ disk' \in {disk, mem} /\ UNCHANGED mishaps

-----------------------------------------------------------------------------
(* The manager's timer.                                                    *)

(* schedule(): nothing to wait for leaves the timer unset.                 *)
Scheduled == phase = "started" /\ HasWork(mem', inFlight')

(* Mutant: a change does not move the timer.                               *)
ChangedUnheard == UNCHANGED armed

(* changed() is ignored while a poll runs: the poll schedules at its end.  *)
Changed == armed' = IF phase = "started" /\ pc = "rest" THEN Scheduled ELSE armed

(* The end of poll; with a delay the timer is set whatever the store says. *)
PollEnds(delay, live) ==
    /\ inFlight' = live
    /\ pc' = "rest" /\ cur' = NoId /\ todo' = {} /\ answer' = "none"
    /\ armed' = (phase = "started" /\ (delay \/ Scheduled))

Ahead(s, x, y) ==
    LET unspent(e) == s.rem[s.ev[e].rid].urgent /\ s.ev[e].intr = "none"
    IN  \/ unspent(x) /\ ~unspent(y)
        \/ /\ unspent(x) = unspent(y)
           /\ s.rem[s.ev[x].rid].due < s.rem[s.ev[y].rid].due

(* The poll's loop over what the sweep returned, up to the next await.     *)
AdmitNext(events, live) ==
    LET known == {e \in events : mem'.ev[e].state # "none"}
    IN  IF phase # "started" \/ known = {}
        THEN PollEnds(FALSE, live)
        ELSE \E e \in known :
                /\ \A x \in known : ~Ahead(mem', x, e)
                /\ pc' = "boundary" /\ cur' = e /\ todo' = known \ {e}
                /\ answer' = "none" /\ inFlight' = live \cup {e}
                /\ UNCHANGED armed

Start ==
    /\ phase = "bound"
    /\ phase' = "started" /\ armed' = TRUE
    /\ UNCHANGED <<storeVars, minted, now, pc, cur, todo, answer, inFlight,
                   sessionVars, historyVars>>

(* stop(): synchronous; from here on every release guard refuses.          *)
Stop ==
    /\ phase \in {"bound", "started"}
    /\ Mishap
    /\ phase' = "stopping" /\ armed' = FALSE
    /\ UNCHANGED <<mem, disk, minted, now, pc, cur, todo, answer, inFlight,
                   sessionVars, historyVars>>

(* The timer fires and poll runs up to its first await.                    *)
Poll ==
    /\ phase = "started" /\ armed /\ pc = "rest"
    /\ LET a    == Reclaimed(mem, inFlight)
           gone == Lapsed(a, inFlight, now)
           b    == Expired(a, gone)
           due  == Wanting(b, inFlight, now)
       IN  \E made \in SUBSET (EventId \ minted) : \E own \in [made -> due] :
             /\ \A r \in due : \E e \in made : own[e] = r
             /\ \A e, f \in made : own[e] = own[f] => e = f
             /\ LET c == WithEvents(b, own)
                IN  /\ minted' = minted \cup made
                    /\ \/ /\ c = mem
                          /\ UNCHANGED storeVars
                          /\ AdmitNext(Ready(mem, inFlight, now), inFlight)
                       \/ /\ c # mem
                          /\ \E s \in Pruned(c) :
                               \/ /\ Committed(s)
                                  /\ AdmitNext(Ready(c, inFlight, now), inFlight)
                               \/ /\ WriteFails(s)
                                  /\ PollEnds(TRUE, inFlight)
    /\ UNCHANGED <<now, phase, sessionVars, historyVars>>

-----------------------------------------------------------------------------
(* The admission boundary.                                                 *)

Answers(a) == pc' = "answered" /\ answer' = a

Unavailable == phase # "started" \/ ~online
Idle        == turn = "none" /\ \A e \in EventId : prompt[e] \in {"none", "done"}

(* session.queuePrompt: the prompt waits for its release, or is refused.   *)
Queued ==
    \/ prompt' = [prompt EXCEPT ![cur] = "queued"] /\ Answers("admitted")
    \/ prompt' = prompt /\ Answers("unavailable")

BoundaryUnavailable ==
    /\ pc \in {"boundary", "boundary2"}
    /\ Unavailable
    /\ Answers("unavailable")
    /\ UNCHANGED <<storeVars, minted, now, phase, armed, cur, todo, inFlight,
                   sessionVars, historyVars>>

(* retireStalledAdmission wakes the waiters of a hung boundary.            *)
AdmissionRetired ==
    /\ pc \in {"boundary", "boundary2"}
    /\ Mishap
    /\ Answers("unavailable")
    /\ waiting' = FALSE
    /\ UNCHANGED <<mem, disk, minted, now, phase, armed, cur, todo, inFlight,
                   online, turn, prompt, historyVars>>

(* An idle role: the durable claim, then the prompt.                       *)
BoundaryIdle ==
    /\ pc = "boundary" /\ ~Unavailable /\ Idle
    /\ \/ /\ ~MayAdmit(mem, cur, now)
          /\ Answers("unavailable") /\ UNCHANGED <<storeVars, prompt>>
       \/ /\ MayAdmit(mem, cur, now)
          /\ \/ Committed(Admitting(mem, cur)) /\ Queued
             \/ WriteFails(Admitting(mem, cur)) /\ Answers("thrown") /\ UNCHANGED prompt
    /\ UNCHANGED <<minted, now, phase, armed, cur, todo, inFlight,
                   online, turn, waiting, historyVars>>

Urgent(s, e) == s.ev[e].rid \in ReminderId /\ s.rem[s.ev[e].rid].urgent

(* A busy role and no turn that may be stopped for this event.             *)
BoundaryBusy ==
    /\ pc = "boundary" /\ ~Unavailable /\ ~Idle
    /\ \/ ~Urgent(mem, cur)
       \/ turn # "open" \/ waiting
       \/ ~MayInterrupt(mem, cur)
    /\ IF Urgent(mem, cur) /\ mem.ev[cur].intr = "none"
       THEN Diagnostic ELSE UNCHANGED storeVars
    /\ Answers("busy")
    /\ UNCHANGED <<minted, now, phase, armed, cur, todo, inFlight,
                   sessionVars, historyVars>>

(* The running turn may be stopped: claim the event, mark the request,     *)
(* then ask the session, all before the next await.                        *)
BoundaryInterrupt ==
    /\ pc = "boundary" /\ ~Unavailable /\ ~Idle
    /\ turn = "open" /\ ~waiting /\ MayInterrupt(mem, cur)
    /\ LET claimed == Admitting(mem, cur)
           marked  == InterruptRequested(claimed, cur)
       IN  \/ /\ ~MayAdmit(mem, cur, now)
              /\ Answers("unavailable") /\ UNCHANGED <<storeVars, asked>>
           \/ /\ MayAdmit(mem, cur, now)
              /\ \/ /\ WriteFails(claimed)
                    /\ Answers("thrown") /\ UNCHANGED asked
                 \/ /\ Mishap /\ mem' = claimed /\ disk' \in {claimed, marked}
                    /\ Answers("unavailable") /\ UNCHANGED asked
                 \/ /\ Committed(marked)
                    /\ pc' = "interrupting" /\ UNCHANGED answer
                    /\ asked' = Append(asked, WakeOf(mem, cur))
    /\ UNCHANGED <<minted, now, phase, armed, cur, todo, inFlight,
                   sessionVars, woke, voided>>

(* session.interrupt settles.  Only a turn that ended lets the wake go on. *)
InterruptSettles ==
    /\ pc = "interrupting"
    /\ IF mem.ev[cur].intr = "requested"
       THEN Try(InterruptSettled(mem, cur)) ELSE UNCHANGED storeVars
    /\ \/ turn' = "none" /\ pc' = "boundary2" /\ UNCHANGED answer
       \/ turn' \in {turn, "none"} /\ Answers("unavailable")
    /\ UNCHANGED <<minted, now, phase, armed, cur, todo, inFlight,
                   online, waiting, prompt, historyVars>>

(* The boundary again, after whoever queued up during the cancellation.    *)
Boundary2 ==
    /\ pc = "boundary2" /\ ~Unavailable
    /\ \/ ~StillAdmitting(mem, cur) /\ Answers("unavailable") /\ UNCHANGED prompt
       \/ StillAdmitting(mem, cur) /\ (~Idle \/ waiting) /\ Answers("busy") /\ UNCHANGED prompt
       \/ StillAdmitting(mem, cur) /\ Idle /\ ~waiting /\ Queued
    /\ UNCHANGED <<storeVars, minted, now, phase, armed, cur, todo, inFlight,
                   online, turn, waiting, historyVars>>

(* admit() resumes: an admission that did not queue is released; one that  *)
(* did is owned by its completion, and its receipt is recorded.            *)
AdmitReturns ==
    /\ pc = "answered"
    /\ LET retry == IF answer = "busy" THEN now ELSE now + RetryStep
           state == mem.ev[cur].state
       IN  IF answer = "admitted"
           THEN /\ IF state \in {"admitting", "dispatched"}
                   THEN Diagnostic ELSE UNCHANGED storeVars
                /\ PollEnds(TRUE, inFlight)
           ELSE /\ IF state = "admitting"
                   THEN Try(Released(mem, cur, retry)) ELSE UNCHANGED storeVars
                /\ IF answer = "unavailable"
                   THEN AdmitNext(todo, inFlight \ {cur})
                   ELSE PollEnds(TRUE, inFlight \ {cur})
    /\ UNCHANGED <<minted, now, phase, sessionVars, historyVars>>

-----------------------------------------------------------------------------
(* The session.                                                            *)

(* The turn boundary reaches a reminder's prompt: claimDispatch decides,   *)
(* synchronously, whether the model sees it.                               *)
Release(e) ==
    /\ prompt[e] = "queued" /\ online /\ turn = "none"
    /\ \A x \in EventId : prompt[x] # "running"
    /\ LET refused == prompt' = [prompt EXCEPT ![e] = "done"] /\ UNCHANGED woke
           rec     == mem.rem[mem.ev[e].rid]
       IN  \/ /\ mem.ev[e].state # "admitting" \/ phase = "stopping"
              /\ refused /\ UNCHANGED storeVars
           \/ /\ mem.ev[e].state = "admitting" /\ phase # "stopping"
              /\ \/ /\ ~Current(mem, e)
                    /\ refused /\ Try(Invalidated(mem, e))
                 \/ /\ Current(mem, e) /\ now < rec.due
                    /\ refused /\ UNCHANGED storeVars
                 \/ /\ Current(mem, e) /\ now >= Expires(rec)
                    /\ refused /\ Try(ExpiredAtRelease(mem, e))
                 \/ /\ Current(mem, e) /\ rec.due <= now /\ now < Expires(rec)
                    /\ \/ WriteFails(Dispatched(mem, e)) /\ refused
                       \/ /\ Committed(Dispatched(mem, e))
                          /\ prompt' = [prompt EXCEPT ![e] = "running"]
                          /\ woke' = Append(woke, WakeOf(mem, e))
    /\ UNCHANGED <<minted, now, managerVars, online, turn, waiting, asked, voided>>

(* A reminder's turn ends, or its prompt is failed unseen by an offline    *)
(* session.                                                                *)
PromptEnds(e) ==
    /\ prompt[e] = "running" \/ (prompt[e] = "queued" /\ ~online)
    /\ prompt' = [prompt EXCEPT ![e] = "done"]
    /\ UNCHANGED <<storeVars, minted, now, managerVars, online, turn, waiting, historyVars>>

(* The completion's callback, settled(), attached when admit() resumed.    *)
Settle(e) ==
    /\ prompt[e] = "done" /\ ~(pc = "answered" /\ cur = e)
    /\ prompt' = [prompt EXCEPT ![e] = "none"]
    /\ inFlight' = inFlight \ {e}
    /\ IF mem.ev[e].state = "admitting"
       THEN Try(Released(mem, e, now + RetryStep)) ELSE UNCHANGED storeVars
    /\ Changed
    /\ UNCHANGED <<minted, now, phase, pc, cur, todo, answer, online, turn, waiting, historyVars>>

(* Another producer: at the boundary while an interruption holds it, else  *)
(* in the session.  "shut" is a protected source, a pending permission or  *)
(* work already queued behind the turn; "open" may be interrupted.         *)
OtherArrives ==
    /\ online
    /\ IF pc = "interrupting"
       THEN ~waiting /\ waiting' = TRUE /\ UNCHANGED turn
       ELSE turn = "none" /\ turn' \in {"open", "shut"} /\ waiting' = FALSE
    /\ \A e \in EventId : prompt[e] # "running"
    /\ UNCHANGED <<storeVars, minted, now, managerVars, online, prompt, historyVars>>

OtherEnds ==
    /\ turn # "none" /\ turn' = "none"
    /\ UNCHANGED <<storeVars, minted, now, managerVars, online, waiting, prompt, historyVars>>

SessionDies ==
    /\ online /\ Mishap
    /\ online' = FALSE /\ turn' = "none"
    /\ UNCHANGED <<mem, disk, minted, now, managerVars, waiting, prompt, historyVars>>

-----------------------------------------------------------------------------
(* The agent's tools.  An expected_revision that is not the record's is    *)
(* refused without a change, and so is a create that repeats a request key.*)

Bound == phase # "down"

(* The bound on the reminders made and the revisions voided.               *)
ChangeLeft ==
    Cardinality(UNION {{r} \X (0..voided[r]) : r \in minted \cap ReminderId}) < MaxChanges

Create(r, due, urgent) ==
    /\ Bound /\ r \notin minted
    /\ OpenCount(mem) < MaxOpen
    /\ due > now /\ ChangeLeft
    /\ minted' = minted \cup {r}
    /\ \E s \in Pruned(Created(mem, r, due, urgent)) :
         \/ Committed(s) /\ UNCHANGED inFlight /\ Changed
         \/ WriteFails(s) /\ UNCHANGED <<inFlight, armed>>
    /\ UNCHANGED <<now, phase, pc, cur, todo, answer, sessionVars, historyVars>>

Update(r, due, urgent) ==
    /\ Bound /\ mem.rem[r].state \in OpenRecord
    /\ mem.rem[r].rev < MaxRevision /\ ChangeLeft
    /\ due > now \/ due = mem.rem[r].due
    /\ LET s == Updated(mem, r, due, urgent)
       IN  \/ /\ Committed(s) /\ UNCHANGED inFlight /\ Changed
              /\ voided' = [voided EXCEPT ![r] = mem.rem[r].rev]
           \/ WriteFails(s) /\ UNCHANGED <<inFlight, armed, voided>>
    /\ UNCHANGED <<minted, now, phase, pc, cur, todo, answer, sessionVars, woke, asked>>

Cancel(r) ==
    /\ Bound /\ mem.rem[r].state \in OpenRecord
    /\ \E s \in Pruned(Cancelled(mem, r)) :
         \/ /\ Committed(s) /\ UNCHANGED inFlight /\ Changed
            /\ voided' = [voided EXCEPT ![r] = mem.rem[r].rev]
         \/ WriteFails(s) /\ UNCHANGED <<inFlight, armed, voided>>
    /\ UNCHANGED <<minted, now, phase, pc, cur, todo, answer, sessionVars, woke, asked>>

(* ack: a wake of the current revision; repeating it changes nothing.      *)
Ack(e) ==
    /\ Bound
    /\ \/ /\ mem.ev[e].state = "acknowledged"
          /\ UNCHANGED <<storeVars, inFlight>> /\ Changed
       \/ /\ mem.ev[e].state \in {"dispatched", "uncertain"}
          /\ mem.ev[e].rid \in ReminderId
          /\ mem.rem[mem.ev[e].rid].state # "none"
          /\ mem.rem[mem.ev[e].rid].rev = mem.ev[e].rev
          /\ \E s \in Pruned(Acknowledged(mem, e)) :
               \/ Committed(s) /\ UNCHANGED inFlight /\ Changed
               \/ WriteFails(s) /\ UNCHANGED <<inFlight, armed>>
    /\ UNCHANGED <<minted, now, phase, pc, cur, todo, answer, sessionVars, historyVars>>

-----------------------------------------------------------------------------
(* The clock, and the process.                                             *)

Tick ==
    /\ now < MaxTime /\ now' = now + 1
    /\ UNCHANGED <<storeVars, minted, managerVars, sessionVars, historyVars>>

ClockBack ==
    /\ now > 0 /\ Mishap /\ now' = now - 1
    /\ UNCHANGED <<mem, disk, minted, managerVars, sessionVars, historyVars>>

(* A new attempt loads the file, recovers it and writes it back.  If that  *)
(* write fails the attempt runs without reminders.                         *)
Reload(spent) ==
    LET s == Recovered(disk)
    IN  /\ \/ disk' = s /\ mishaps' = mishaps + spent /\ phase' = "bound"
           \/ /\ mishaps + spent < MaxMishaps /\ mishaps' = mishaps + spent + 1
              /\ disk' \in {disk, s} /\ phase' = "down"
        /\ mem' = s
        /\ armed' = FALSE /\ pc' = "rest" /\ cur' = NoId /\ todo' = {}
        /\ answer' = "none" /\ inFlight' = {}
        /\ online' = TRUE /\ turn' = "none" /\ waiting' = FALSE
        /\ prompt' = [e \in EventId |-> "none"]
        /\ UNCHANGED <<minted, now, historyVars>>

(* runSupervised starts the next attempt once this one has ended.          *)
NextAttempt == (phase = "stopping" \/ ~online) /\ Reload(0)

(* The process is killed at any instant.                                   *)
Crash == mishaps < MaxMishaps /\ Reload(1)

-----------------------------------------------------------------------------
Init ==
    /\ mem = EmptyStore /\ disk = EmptyStore
    /\ minted = {} /\ now = 0 /\ mishaps = 0
    /\ phase = "bound" /\ armed = FALSE /\ pc = "rest"
    /\ cur = NoId /\ todo = {} /\ answer = "none" /\ inFlight = {}
    /\ online = TRUE /\ turn = "none" /\ waiting = FALSE
    /\ prompt = [e \in EventId |-> "none"]
    /\ woke = <<>> /\ asked = <<>> /\ voided = [r \in ReminderId |-> 0]

Dispatcher ==
    \/ Start \/ Stop \/ Poll
    \/ BoundaryUnavailable \/ AdmissionRetired \/ BoundaryIdle
    \/ BoundaryBusy \/ BoundaryInterrupt \/ InterruptSettles \/ Boundary2
    \/ AdmitReturns

Session ==
    \/ \E e \in EventId : Release(e) \/ PromptEnds(e) \/ Settle(e)
    \/ OtherArrives \/ OtherEnds \/ SessionDies

Agent ==
    \/ \E r \in ReminderId, urgent \in BOOLEAN :
          \/ \E due \in DueTime : Create(r, due, urgent)
          \/ \E due \in DueTime : Update(r, due, urgent)
          \/ Cancel(r)
    \/ \E e \in EventId : Ack(e)

Environment == Tick \/ ClockBack \/ NextAttempt \/ Crash

Next == Dispatcher \/ Session \/ Agent \/ Environment

Spec == Init /\ [][Next]_vars

-----------------------------------------------------------------------------
(* What the dispatcher and the store promise.                              *)

ControlOK ==
    /\ minted \subseteq ReminderId \cup EventId
    /\ now \in Nat /\ mishaps \in Nat
    /\ phase \in {"bound", "started", "stopping", "down"} /\ armed \in BOOLEAN
    /\ pc \in {"rest", "boundary", "interrupting", "boundary2", "answered"}
    /\ cur \in EventId \cup {NoId} /\ (pc # "rest" => cur \in EventId)
    /\ todo \subseteq EventId
    /\ answer \in {"none", "busy", "unavailable", "admitted", "thrown"}
    /\ inFlight \subseteq EventId
    /\ online \in BOOLEAN /\ turn \in {"none", "open", "shut"} /\ waiting \in BOOLEAN
    /\ prompt \in [EventId -> {"none", "queued", "running", "done"}]

Wake == [rid : ReminderId, rev : Nat]

TypeOK ==
    /\ mem \in Store /\ disk \in Store
    /\ ControlOK
    /\ woke \in Seq(Wake) /\ asked \in Seq(Wake)
    /\ voided \in [ReminderId -> Nat]

(* The inductive invariant behind WokenOnce and its companions: what every *)
(* store value the process can find, in memory or on disk, has in common.  *)
RecordsSound(s, ids, void) ==
    \A r \in ReminderId :
        /\ s.rem[r].state # "none" => r \in ids /\ s.rem[r].rev > void[r]
        /\ void[r] > 0 => r \in ids

EventsSound(s, ids) ==
    \A e \in EventId :
        IF s.ev[e].state = "none" THEN s.ev[e].rid = NoReminder
        ELSE /\ e \in ids /\ s.ev[e].rid \in ReminderId
             /\ s.rem[s.ev[e].rid].state # "none"
             /\ s.ev[e].rev <= s.rem[s.ev[e].rid].rev
             /\ Current(s, e) => s.ev[e].state \in {"pending", "admitting"}

EventsDistinct(s) ==
    \A e, f \in EventId : s.ev[e].state # "none" /\ WakeOf(s, e) = WakeOf(s, f) => e = f

(* w was handed to the model.                                              *)
SeenSound(s, ids, w) ==
    /\ w.rid \in ids
    /\ s.rem[w.rid].state # "none" => s.rem[w.rid].rev >= w.rev
    /\ s.rem[w.rid].state = "active" => s.rem[w.rid].rev > w.rev
    /\ \A e \in EventId : WakeOf(s, e) = w => s.ev[e].state \notin {"pending", "admitting"}

(* w asked for an interruption.                                            *)
AskedSound(s, ids, w) ==
    /\ w.rid \in ids
    /\ s.rem[w.rid].state # "none" => s.rem[w.rid].rev >= w.rev
    /\ s.rem[w.rid].state = "active" /\ s.rem[w.rid].rev = w.rev =>
          \E e \in EventId : WakeOf(s, e) = w
    /\ \A e \in EventId : WakeOf(s, e) = w => s.ev[e].intr # "none"

Sound(s, ids, seen, stopped, void) ==
    /\ RecordsSound(s, ids, void)
    /\ EventsSound(s, ids)
    /\ EventsDistinct(s)
    /\ \A i \in DOMAIN seen : SeenSound(s, ids, seen[i])
    /\ \A i \in DOMAIN stopped : AskedSound(s, ids, stopped[i])

StoresSound ==
    /\ Sound(mem, minted, woke, asked, voided)
    /\ Sound(disk, minted, woke, asked, voided)

(* A revision of a reminder is handed to the model at most once, whatever  *)
(* crashes, failed writes and retries come between (store.ts, the boundary *)
(* that matters is "dispatched").                                          *)
WokenOnce == \A i, j \in DOMAIN woke : woke[i] = woke[j] => i = j

(* A revision asks for at most one interruption of the agent's turn.       *)
InterruptedOnce == \A i, j \in DOMAIN asked : asked[i] = asked[j] => i = j

(* Once a cancel or an update has answered the agent, the wake it voided   *)
(* is never delivered, not even by a process that starts later.            *)
VoidedNeverWakes ==
    [][woke' # woke => woke'[Len(woke')].rev > voided[woke'[Len(woke')].rid]]_vars

(* No event of a revision the model has seen would be admitted again by    *)
(* the process that loads the file after a crash now.                      *)
SeenIsHeld ==
    \A i \in DOMAIN woke, e \in EventId :
        WakeOf(disk, e) = woke[i] => disk.ev[e].state \notin {"pending", "admitting"}

(* One revision has one event, in memory and in the file: its interruption *)
(* mark and its dispatch state cannot be shed by minting another.          *)
OneEventPerRevision ==
    \A s \in {mem, disk} : \A e, f \in EventId :
        (s.ev[e].state # "none" /\ WakeOf(s, e) = WakeOf(s, f)) => e = f

(* Whatever crashes, failed writes, retries and restarts come between, a   *)
(* revision wakes the agent at most once and interrupts at most once: it   *)
(* has one event, and after the wake none that a later process would admit *)
(* again (store.ts, claimDispatch and recover).                            *)
OncePerRevision == WokenOnce /\ InterruptedOnce /\ OneEventPerRevision /\ SeenIsHeld

(* A wake the model was handed stays on record as delivered until the agent *)
(* acknowledges, updates or cancels it: neither prune nor a restart nor    *)
(* another reminder's write drops it (store.ts: open reminders and their   *)
(* events are never dropped).                                              *)
WokenIsOnRecord ==
    [][\A i \in DOMAIN woke :
        LET r == woke[i].rid
        IN  /\ disk.rem[r].state = "delivered" /\ disk.rem[r].rev = woke[i].rev
            /\ disk'.rem[r].state # "delivered"
            => \/ Cancel(r)
               \/ \E due \in DueTime, urgent \in BOOLEAN : Update(r, due, urgent)
               \/ \E e \in EventId : mem.ev[e].rid = r /\ Ack(e)]_vars

(* No lost wake-up: when the started manager rests with no timer set,      *)
(* every active reminder has its wake in a prompt that is still to settle. *)
NoLostWakeup ==
    (phase = "started" /\ pc = "rest" /\ ~armed) =>
        \A r \in ReminderId : mem.rem[r].state = "active" =>
            \E e \in OpenEventsOf(mem, r) : e \in inFlight /\ prompt[e] # "none"

-----------------------------------------------------------------------------
(* Liveness.  Every callback and await of the process returns, the timer   *)
(* fires, the clock moves, and a supervisor whose attempt ended starts the *)
(* next one.  Turns of other producers end, and the session's queue is in  *)
(* order: a queued prompt is not passed over for ever (strong fairness of  *)
(* Release).  Nothing is assumed of the agent.                             *)
Fairness ==
    /\ WF_vars(Start) /\ WF_vars(Poll) /\ WF_vars(Tick) /\ WF_vars(NextAttempt)
    /\ WF_vars(BoundaryUnavailable \/ BoundaryIdle \/ BoundaryBusy
               \/ BoundaryInterrupt \/ Boundary2)
    /\ WF_vars(InterruptSettles) /\ WF_vars(AdmitReturns) /\ WF_vars(OtherEnds)
    /\ \A e \in EventId :
          SF_vars(Release(e)) /\ WF_vars(PromptEnds(e)) /\ WF_vars(Settle(e))

FairSpec == Spec /\ Fairness

(* A reminder does not stay active for ever: its wake is delivered, or the *)
(* agent closes it, or it expires, unless reminders are not available.     *)
ActiveIsResolved ==
    \A r \in ReminderId :
        (mem.rem[r].state = "active") ~> (mem.rem[r].state # "active" \/ phase = "down")
=============================================================================
