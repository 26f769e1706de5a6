---------------------------- MODULE ReminderStore ----------------------------
(***************************************************************************)
(* The durable store of one agent's self-reminders                         *)
(* (src/src/reminders/store.ts) as operators on store values.  A store     *)
(* value is what one JSON file holds: every reminder record and every      *)
(* event (one wake of one revision).  Each operator is the effect of one   *)
(* store method on that value; Reminders.tla says which process applies it *)
(* and what happens when the write behind it fails.                        *)
(*                                                                         *)
(* Times are small naturals.  A record or an event that is not in the file *)
(* has state "none".  Texts, request keys and receipts are left out.       *)
(***************************************************************************)
EXTENDS Naturals, FiniteSets

CONSTANTS
    ReminderId,    \* random UUIDs of reminders, never minted twice
    EventId,       \* random UUIDs of events, never minted twice
    LateWindow,    \* lateWindowSeconds: how long after dueAt a wake may start
    MaxOpen,       \* MAX_OPEN_REMINDERS
    MaxRetained,   \* MAX_RETAINED_CLOSED
    NoReminder     \* what an event that is not in the file belongs to

ASSUME StoreAssumption ==
    /\ LateWindow \in Nat \ {0}
    /\ MaxOpen \in Nat
    /\ MaxRetained \in Nat
    /\ NoReminder \notin ReminderId

RecordState == {"none", "active", "delivered", "acknowledged", "cancelled", "expired"}
EventState  == {"none", "pending", "admitting", "dispatched", "uncertain",
                "acknowledged", "invalidated", "expired"}
Outcome     == {"none", "requested", "settled"}   \* of the one interruption request

Record == [state : RecordState, rev : Nat, due : Nat, urgent : BOOLEAN]
Event  == [state : EventState, rid : ReminderId \cup {NoReminder}, rev : Nat,
           retry : Nat, intr : Outcome]
Store  == [rem : [ReminderId -> Record], ev : [EventId -> Event]]

NoRecord   == [state |-> "none", rev |-> 0, due |-> 0, urgent |-> FALSE]
NoEvent    == [state |-> "none", rid |-> NoReminder, rev |-> 0, retry |-> 0, intr |-> "none"]
EmptyStore == [rem |-> [r \in ReminderId |-> NoRecord], ev |-> [e \in EventId |-> NoEvent]]

(* Mutant: a delivered wake no longer counts as open.                      *)
OpenRecordUntilWoken == {"active"}

OpenRecord == {"active", "delivered"}                              \* what openCount counts
OpenEvent  == {"pending", "admitting", "dispatched", "uncertain"}  \* OPEN_EVENT_STATES

Expires(rec) == rec.due + LateWindow

(* The current, undispatched event e: its record is active and unchanged.  *)
Current(s, e) ==
    /\ s.ev[e].rid \in ReminderId
    /\ s.rem[s.ev[e].rid].state = "active"
    /\ s.rem[s.ev[e].rid].rev = s.ev[e].rev

(* openEvent(record): an open event of the record's current revision.      *)
OpenEventsOf(s, r) ==
    {e \in EventId : /\ s.ev[e].state \in OpenEvent
                     /\ s.ev[e].rid = r
                     /\ s.ev[e].rev = s.rem[r].rev}

-----------------------------------------------------------------------------
(* Changes made for the agent's own tools.                                 *)

(* Mutant: the events take the name of the record's new state.             *)
SupersededByName(s, r) ==
    [e \in EventId |->
        IF s.ev[e].rid = r /\ s.ev[e].state \in OpenEvent
        THEN [s.ev[e] EXCEPT !.state = "cancelled"] ELSE s.ev[e]]

(* supersedeEvents: the open events of a reminder whose revision ends.     *)
Superseded(s, r) ==
    [e \in EventId |->
        IF s.ev[e].rid = r /\ s.ev[e].state \in OpenEvent
        THEN [s.ev[e] EXCEPT !.state = "invalidated"] ELSE s.ev[e]]

Created(s, r, due, urgent) ==
    [s EXCEPT !.rem[r] = [state |-> "active", rev |-> 1, due |-> due, urgent |-> urgent]]

(* Mutant: an update keeps the revision.                                   *)
UpdatedInPlace(s, r, due, urgent) ==
    [rem |-> [s.rem EXCEPT ![r].state = "active", ![r].due = due, ![r].urgent = urgent],
     ev  |-> Superseded(s, r)]

Updated(s, r, due, urgent) ==
    [rem |-> [s.rem EXCEPT ![r] = [state |-> "active", rev |-> s.rem[r].rev + 1,
                                   due |-> due, urgent |-> urgent]],
     ev  |-> Superseded(s, r)]

Cancelled(s, r) ==
    [rem |-> [s.rem EXCEPT ![r].state = "cancelled", ![r].rev = @ + 1],
     ev  |-> Superseded(s, r)]

Acknowledged(s, e) ==
    [rem |-> [s.rem EXCEPT ![s.ev[e].rid].state = "acknowledged"],
     ev  |-> [s.ev EXCEPT ![e].state = "acknowledged"]]

OpenCount(s) == Cardinality({r \in ReminderId : s.rem[r].state \in OpenRecord})

(* prune keeps the MAX_RETAINED_CLOSED closed reminders updated last, and  *)
(* never counts one with an uncertain event.  The order of the wall-clock  *)
(* stamps is left open, so any surplus may go.                             *)
Prunable(s) ==
    {r \in ReminderId : /\ s.rem[r].state \notin OpenRecord \cup {"none"}
                        /\ ~ \E e \in EventId : s.ev[e].rid = r /\ s.ev[e].state = "uncertain"}

Without(s, gone) ==
    [rem |-> [r \in ReminderId |-> IF r \in gone THEN NoRecord ELSE s.rem[r]],
     ev  |-> [e \in EventId |-> IF s.ev[e].rid \in gone THEN NoEvent ELSE s.ev[e]]]

Pruned(s) ==
    LET surplus == IF Cardinality(Prunable(s)) > MaxRetained
                   THEN Cardinality(Prunable(s)) - MaxRetained ELSE 0
    IN  {Without(s, gone) : gone \in {g \in SUBSET Prunable(s) : Cardinality(g) = surplus}}

-----------------------------------------------------------------------------
(* Changes made by the dispatcher and by the session's release guard.      *)

(* sweep(live) at time t.  An active record whose open event is live (owned *)
(* by a prompt queued in this process) is left to that prompt.              *)
Unowned(s, live, r) == s.rem[r].state = "active" /\ OpenEventsOf(s, r) \cap live = {}

(* First, an admitting event nobody owns is undispatched again.             *)
Reclaimed(s, live) ==
    [rem |-> s.rem,
     ev  |-> [e \in EventId |->
        IF s.ev[e].state = "admitting" /\ Current(s, e) /\ Unowned(s, live, s.ev[e].rid)
        THEN [s.ev[e] EXCEPT !.state = "pending", !.retry = 0] ELSE s.ev[e]]]

(* Then what is past its window expires, with its pending event.            *)
Lapsed(s, live, t) ==
    {r \in ReminderId : /\ Unowned(s, live, r)
                        /\ t >= Expires(s.rem[r])
                        /\ \A e \in OpenEventsOf(s, r) : s.ev[e].state = "pending"}

Expired(s, gone) ==
    [rem |-> [r \in ReminderId |->
                IF r \in gone THEN [s.rem[r] EXCEPT !.state = "expired"] ELSE s.rem[r]],
     ev  |-> [e \in EventId |->
                IF s.ev[e].rid \in gone /\ e \in OpenEventsOf(s, s.ev[e].rid)
                THEN [s.ev[e] EXCEPT !.state = "expired"] ELSE s.ev[e]]]

(* Then every due record without an open event gets one: own says whose.   *)
Wanting(s, live, t) ==
    {r \in ReminderId : /\ Unowned(s, live, r)
                        /\ s.rem[r].due <= t
                        /\ OpenEventsOf(s, r) = {}}

WithEvents(s, own) ==
    [rem |-> s.rem,
     ev  |-> [e \in EventId |->
        IF e \in DOMAIN own
        THEN [state |-> "pending", rid |-> own[e], rev |-> s.rem[own[e]].rev,
              retry |-> 0, intr |-> "none"]
        ELSE s.ev[e]]]

(* The events the sweep returns: due, pending, and past their retry time.   *)
Ready(s, live, t) ==
    {e \in EventId : /\ s.ev[e].state = "pending"
                     /\ Current(s, e)
                     /\ e \in OpenEventsOf(s, s.ev[e].rid)
                     /\ Unowned(s, live, s.ev[e].rid)
                     /\ s.rem[s.ev[e].rid].due <= t
                     /\ s.ev[e].retry <= t}

(* Mutant: only a record without an event needs the timer.                 *)
HasWorkNewOnly(s, live) ==
    \E r \in ReminderId : s.rem[r].state = "active" /\ OpenEventsOf(s, r) = {}

(* nextWorkAt(live) is defined: some active record still needs the timer.   *)
HasWork(s, live) ==
    \E r \in ReminderId :
        /\ s.rem[r].state = "active"
        /\ \/ OpenEventsOf(s, r) = {}
           \/ \E e \in OpenEventsOf(s, r) :
                 e \notin live /\ s.ev[e].state \in {"pending", "admitting"}

(* markAdmitting: the durable claim made before a prompt is queued.         *)
MayAdmit(s, e, t) ==
    /\ s.ev[e].state = "pending"
    /\ Current(s, e)
    /\ s.rem[s.ev[e].rid].due <= t
    /\ t < Expires(s.rem[s.ev[e].rid])

Admitting(s, e) == [s EXCEPT !.ev[e].state = "admitting", !.ev[e].retry = 0]

(* mayInterrupt and markInterruptRequested.                                 *)
MayInterrupt(s, e) ==
    /\ s.ev[e].state \in {"pending", "admitting"}
    /\ s.ev[e].intr = "none"
    /\ Current(s, e)
    /\ s.rem[s.ev[e].rid].urgent

InterruptRequested(s, e) == [s EXCEPT !.ev[e].intr = "requested"]

(* recordInterruptOutcome: only a requested interruption can be settled.    *)
InterruptSettled(s, e) == [s EXCEPT !.ev[e].intr = "settled"]

(* stillAdmitting, asked again after every await.                           *)
StillAdmitting(s, e) == s.ev[e].state = "admitting" /\ Current(s, e)

(* releaseUndispatched: an admission that ended unseen may be retried.      *)
Released(s, e, retry) == [s EXCEPT !.ev[e].state = "pending", !.ev[e].retry = retry]

(* claimDispatch: what the release guard writes, when it writes at all.     *)
Dispatched(s, e) ==
    [rem |-> [s.rem EXCEPT ![s.ev[e].rid].state = "delivered"],
     ev  |-> [s.ev EXCEPT ![e].state = "dispatched"]]

Invalidated(s, e) == [s EXCEPT !.ev[e].state = "invalidated"]

ExpiredAtRelease(s, e) ==
    [rem |-> [s.rem EXCEPT ![s.ev[e].rid].state = "expired"],
     ev  |-> [s.ev EXCEPT ![e].state = "expired"]]

(* Mutant: a wake that may have been seen is retried after a restart.      *)
RecoveredRetries(s) ==
    [s EXCEPT !.ev = [e \in EventId |->
        IF s.ev[e].state \in {"admitting", "dispatched"}
        THEN [s.ev[e] EXCEPT !.state = "pending", !.retry = 0] ELSE s.ev[e]]]

(* recover: what a new process makes of the file it finds.                  *)
Recovered(s) ==
    LET outcome(x) == IF x.intr = "requested" THEN "settled" ELSE x.intr
    IN  [rem |-> s.rem,
         ev  |-> [e \in EventId |->
            IF s.ev[e].state = "admitting"
            THEN [s.ev[e] EXCEPT !.state = "pending", !.retry = 0, !.intr = outcome(s.ev[e])]
            ELSE IF s.ev[e].state = "dispatched"
            THEN [s.ev[e] EXCEPT !.state = "uncertain", !.intr = outcome(s.ev[e])]
            ELSE [s.ev[e] EXCEPT !.intr = outcome(s.ev[e])]]]
=============================================================================
