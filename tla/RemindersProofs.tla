--------------------------- MODULE RemindersProofs ---------------------------
(***************************************************************************)
(* Proofs about Reminders: a revision is handed to the model at most once, *)
(* asks for at most one interruption, and is never delivered once voided,  *)
(* for every number of reminders, events, revisions, instants and mishaps. *)
(*                                                                         *)
(* The argument is about store values.  Each store operator preserves      *)
(* Sound, so whichever of the old and the new value a failed write leaves  *)
(* behind is sound; a hand-over or an interruption adds to the history     *)
(* only together with a successful write of the value that records it.     *)
(***************************************************************************)
EXTENDS Reminders, TLAPS

(* A sound store value of the right type, with the history it answers to.  *)
Good(s, ids, seen, stopped, void) ==
    /\ s \in Store
    /\ seen \in Seq(Wake) /\ stopped \in Seq(Wake) /\ void \in [ReminderId -> Nat]
    /\ Sound(s, ids, seen, stopped, void)

(* More identifiers in use never hurt.                                     *)
LEMMA GoodGrows ==
    ASSUME NEW s, NEW ids, NEW more, NEW seen, NEW stopped, NEW void,
           Good(s, ids, seen, stopped, void), ids \subseteq more
    PROVE  Good(s, more, seen, stopped, void)
BY DEF Good, Sound, RecordsSound, EventsSound, SeenSound, AskedSound

(* A wake that the store value already accounts for may join the history.  *)
LEMMA GoodSeen ==
    ASSUME NEW s, NEW ids, NEW seen, NEW stopped, NEW void, NEW w \in Wake,
           Good(s, ids, seen, stopped, void), SeenSound(s, ids, w)
    PROVE  Good(s, ids, Append(seen, w), stopped, void)
BY DEF Good, Sound

LEMMA GoodAsked ==
    ASSUME NEW s, NEW ids, NEW seen, NEW stopped, NEW void, NEW w \in Wake,
           Good(s, ids, seen, stopped, void), AskedSound(s, ids, w)
    PROVE  Good(s, ids, seen, Append(stopped, w), void)
BY DEF Good, Sound

(* One event may move on and one record may close or be revised, as long   *)
(* as wakes keep their names, marks stay, and nothing becomes undispatched *)
(* again that was not.                                                     *)
Undispatched == {"pending", "admitting"}

RecordMoves(s, t, void, told, r) ==
    \/ t.rem[r] = s.rem[r] /\ told[r] = void[r]
    \/ /\ s.rem[r].state # "none" /\ t.rem[r].state # "none"
       /\ t.rem[r].rev > told[r]
       /\ \/ t.rem[r].rev > s.rem[r].rev
          \/ t.rem[r].rev = s.rem[r].rev /\ t.rem[r].state # "active"

EventMoves(s, t, e) ==
    /\ t.ev[e].rid = s.ev[e].rid /\ t.ev[e].rev = s.ev[e].rev
    /\ s.ev[e].intr # "none" => t.ev[e].intr # "none"
    /\ t.ev[e].state = "none" <=> s.ev[e].state = "none"
    /\ t.ev[e].state \in Undispatched => s.ev[e].state \in Undispatched
    /\ s.ev[e].state \in Undispatched /\ Current(t, e) => t.ev[e].state \in Undispatched

LEMMA StepGood ==
    ASSUME NEW s, NEW t \in Store, NEW ids, NEW seen, NEW stopped, NEW void,
           NEW told \in [ReminderId -> Nat],
           Good(s, ids, seen, stopped, void),
           \A r \in ReminderId : RecordMoves(s, t, void, told, r),
           \A e \in EventId : EventMoves(s, t, e)
    PROVE  Good(t, ids, seen, stopped, told)
<1> USE StoreAssumption DEF RecordMoves, EventMoves, Undispatched
<1>0. /\ s \in Store
      /\ RecordsSound(s, ids, void) /\ EventsSound(s, ids) /\ EventsDistinct(s)
      /\ \A i \in DOMAIN seen : seen[i] \in Wake /\ SeenSound(s, ids, seen[i])
      /\ \A i \in DOMAIN stopped : stopped[i] \in Wake /\ AskedSound(s, ids, stopped[i])
  BY DEF Good, Sound
<1>1. RecordsSound(t, ids, told)
  BY <1>0 DEF RecordsSound, Store, Record
<1>2. ASSUME NEW e \in EventId, s.ev[e].state # "none", Current(t, e)
      PROVE  Current(s, e)
  BY <1>0, <1>2 DEF EventsSound, Current, Store, Record, Event
<1>3. EventsSound(t, ids)
  BY <1>0, <1>2 DEF EventsSound, Store, Record, Event
<1>4. EventsDistinct(t)
  BY <1>0 DEF EventsDistinct, WakeOf
<1>5. ASSUME NEW w \in Wake, SeenSound(s, ids, w) PROVE SeenSound(t, ids, w)
  <2>1. /\ w.rid \in ReminderId /\ w.rev \in Nat
        /\ s.rem[w.rid].rev \in Nat /\ t.rem[w.rid].rev \in Nat
    BY <1>0 DEF Wake, Store, Record
  <2>2. RecordMoves(s, t, void, told, w.rid)
    BY <2>1
  <2>3. /\ w.rid \in ids
        /\ t.rem[w.rid].state # "none" => t.rem[w.rid].rev >= w.rev
        /\ t.rem[w.rid].state = "active" => t.rem[w.rid].rev > w.rev
    BY <1>5, <2>1, <2>2 DEF SeenSound
  <2>4. \A e \in EventId : WakeOf(t, e) = WakeOf(s, e)
    BY DEF WakeOf
  <2>5. \A e \in EventId : WakeOf(t, e) = w => t.ev[e].state \notin {"pending", "admitting"}
    BY <1>5, <2>4 DEF SeenSound
  <2> QED
    BY <2>3, <2>5 DEF SeenSound
<1>6. ASSUME NEW w \in Wake, AskedSound(s, ids, w) PROVE AskedSound(t, ids, w)
  <2>1. /\ w.rid \in ReminderId /\ w.rev \in Nat
        /\ s.rem[w.rid].rev \in Nat /\ t.rem[w.rid].rev \in Nat
    BY <1>0 DEF Wake, Store, Record
  <2>2. RecordMoves(s, t, void, told, w.rid)
    BY <2>1
  <2>3. \A e \in EventId : WakeOf(t, e) = WakeOf(s, e)
    BY DEF WakeOf
  <2>4. \A e \in EventId : WakeOf(t, e) = w => t.ev[e].intr # "none"
    BY <1>6, <2>3 DEF AskedSound
  <2>5. /\ w.rid \in ids
        /\ t.rem[w.rid].state # "none" => t.rem[w.rid].rev >= w.rev
    BY <1>6, <2>1, <2>2 DEF AskedSound
  <2>6. t.rem[w.rid].state = "active" /\ t.rem[w.rid].rev = w.rev =>
          \E e \in EventId : WakeOf(t, e) = w
    BY <1>6, <2>1, <2>2, <2>3 DEF AskedSound
  <2> QED
    BY <2>4, <2>5, <2>6 DEF AskedSound
<1> QED
  BY <1>0, <1>1, <1>3, <1>4, <1>5, <1>6 DEF Good, Sound

(* update: a new revision; the agent is told the wake of the old one is void. *)
LEMMA UpdatedGood ==
    ASSUME NEW s, NEW ids, NEW seen, NEW stopped, NEW void,
           Good(s, ids, seen, stopped, void),
           NEW r \in ReminderId, NEW due \in Nat, NEW urgent \in BOOLEAN,
           s.rem[r].state \in OpenRecord
    PROVE  Good(Updated(s, r, due, urgent), ids, seen, stopped, [void EXCEPT ![r] = s.rem[r].rev])
<1> DEFINE t == Updated(s, r, due, urgent)
<1> USE StoreAssumption
<1>0. /\ s \in Store /\ RecordsSound(s, ids, void) /\ EventsSound(s, ids)
      /\ s.rem \in [ReminderId -> Record] /\ s.ev \in [EventId -> Event]
      /\ void \in [ReminderId -> Nat]
  BY DEF Good, Sound, Store
<1>1. t.rem \in [ReminderId -> Record]
  BY <1>0 DEF Updated, Superseded, Record, RecordState, Current, EventsSound
<1>2. t.ev \in [EventId -> Event]
  BY <1>0 DEF Updated, Superseded, Event, EventState, Outcome
<1>3. t \in Store
  BY <1>0, <1>1, <1>2 DEF Updated, Superseded, Store
<1>4. [void EXCEPT ![r] = s.rem[r].rev] \in [ReminderId -> Nat]
  BY <1>0 DEF Record
<1>5. ASSUME NEW r0 \in ReminderId PROVE RecordMoves(s, t, void, [void EXCEPT ![r] = s.rem[r].rev], r0)
  BY <1>0 DEF Updated, Superseded, RecordMoves, RecordsSound, EventsSound, Record, OpenRecord, Current
<1>6. ASSUME NEW e0 \in EventId PROVE EventMoves(s, t, e0)
  BY <1>0 DEF Updated, Superseded, EventMoves, Undispatched, EventsSound, Current, Record, Event, OpenRecord, OpenEvent
<1> HIDE DEF t
<1>7. Good(t, ids, seen, stopped, [void EXCEPT ![r] = s.rem[r].rev])
  BY <1>3, <1>4, <1>5, <1>6, StepGood
<1> QED
  BY <1>7 DEF t

(* update whose write failed after its rename: the agent is told nothing. *)
LEMMA UpdatedUntold ==
    ASSUME NEW s, NEW ids, NEW seen, NEW stopped, NEW void,
           Good(s, ids, seen, stopped, void),
           NEW r \in ReminderId, NEW due \in Nat, NEW urgent \in BOOLEAN,
           s.rem[r].state \in OpenRecord
    PROVE  Good(Updated(s, r, due, urgent), ids, seen, stopped, void)
<1> DEFINE t == Updated(s, r, due, urgent)
<1> USE StoreAssumption
<1>0. /\ s \in Store /\ RecordsSound(s, ids, void) /\ EventsSound(s, ids)
      /\ s.rem \in [ReminderId -> Record] /\ s.ev \in [EventId -> Event]
      /\ void \in [ReminderId -> Nat]
  BY DEF Good, Sound, Store
<1>1. t.rem \in [ReminderId -> Record]
  BY <1>0 DEF Updated, Superseded, Record, RecordState, Current, EventsSound
<1>2. t.ev \in [EventId -> Event]
  BY <1>0 DEF Updated, Superseded, Event, EventState, Outcome
<1>3. t \in Store
  BY <1>0, <1>1, <1>2 DEF Updated, Superseded, Store
<1>4. void \in [ReminderId -> Nat]
  BY <1>0 DEF Record
<1>5. ASSUME NEW r0 \in ReminderId PROVE RecordMoves(s, t, void, void, r0)
  BY <1>0 DEF Updated, Superseded, RecordMoves, RecordsSound, EventsSound, Record, OpenRecord, Current
<1>6. ASSUME NEW e0 \in EventId PROVE EventMoves(s, t, e0)
  BY <1>0 DEF Updated, Superseded, EventMoves, Undispatched, EventsSound, Current, Record, Event, OpenRecord, OpenEvent
<1> HIDE DEF t
<1>7. Good(t, ids, seen, stopped, void)
  BY <1>3, <1>4, <1>5, <1>6, StepGood
<1> QED
  BY <1>7 DEF t

(* cancel. *)
LEMMA CancelledGood ==
    ASSUME NEW s, NEW ids, NEW seen, NEW stopped, NEW void,
           Good(s, ids, seen, stopped, void),
           NEW r \in ReminderId, s.rem[r].state \in OpenRecord
    PROVE  Good(Cancelled(s, r), ids, seen, stopped, [void EXCEPT ![r] = s.rem[r].rev])
<1> DEFINE t == Cancelled(s, r)
<1> USE StoreAssumption
<1>0. /\ s \in Store /\ RecordsSound(s, ids, void) /\ EventsSound(s, ids)
      /\ s.rem \in [ReminderId -> Record] /\ s.ev \in [EventId -> Event]
      /\ void \in [ReminderId -> Nat]
  BY DEF Good, Sound, Store
<1>1. t.rem \in [ReminderId -> Record]
  BY <1>0 DEF Cancelled, Superseded, Record, RecordState, Current, EventsSound
<1>2. t.ev \in [EventId -> Event]
  BY <1>0 DEF Cancelled, Superseded, Event, EventState, Outcome
<1>3. t \in Store
  BY <1>0, <1>1, <1>2 DEF Cancelled, Superseded, Store
<1>4. [void EXCEPT ![r] = s.rem[r].rev] \in [ReminderId -> Nat]
  BY <1>0 DEF Record
<1>5. ASSUME NEW r0 \in ReminderId PROVE RecordMoves(s, t, void, [void EXCEPT ![r] = s.rem[r].rev], r0)
  BY <1>0 DEF Cancelled, Superseded, RecordMoves, RecordsSound, EventsSound, Record, OpenRecord, Current
<1>6. ASSUME NEW e0 \in EventId PROVE EventMoves(s, t, e0)
  BY <1>0 DEF Cancelled, Superseded, EventMoves, Undispatched, EventsSound, Current, Record, Event, OpenRecord, OpenEvent
<1> HIDE DEF t
<1>7. Good(t, ids, seen, stopped, [void EXCEPT ![r] = s.rem[r].rev])
  BY <1>3, <1>4, <1>5, <1>6, StepGood
<1> QED
  BY <1>7 DEF t

(* cancel whose write failed after its rename. *)
LEMMA CancelledUntold ==
    ASSUME NEW s, NEW ids, NEW seen, NEW stopped, NEW void,
           Good(s, ids, seen, stopped, void),
           NEW r \in ReminderId, s.rem[r].state \in OpenRecord
    PROVE  Good(Cancelled(s, r), ids, seen, stopped, void)
<1> DEFINE t == Cancelled(s, r)
<1> USE StoreAssumption
<1>0. /\ s \in Store /\ RecordsSound(s, ids, void) /\ EventsSound(s, ids)
      /\ s.rem \in [ReminderId -> Record] /\ s.ev \in [EventId -> Event]
      /\ void \in [ReminderId -> Nat]
  BY DEF Good, Sound, Store
<1>1. t.rem \in [ReminderId -> Record]
  BY <1>0 DEF Cancelled, Superseded, Record, RecordState, Current, EventsSound
<1>2. t.ev \in [EventId -> Event]
  BY <1>0 DEF Cancelled, Superseded, Event, EventState, Outcome
<1>3. t \in Store
  BY <1>0, <1>1, <1>2 DEF Cancelled, Superseded, Store
<1>4. void \in [ReminderId -> Nat]
  BY <1>0 DEF Record
<1>5. ASSUME NEW r0 \in ReminderId PROVE RecordMoves(s, t, void, void, r0)
  BY <1>0 DEF Cancelled, Superseded, RecordMoves, RecordsSound, EventsSound, Record, OpenRecord, Current
<1>6. ASSUME NEW e0 \in EventId PROVE EventMoves(s, t, e0)
  BY <1>0 DEF Cancelled, Superseded, EventMoves, Undispatched, EventsSound, Current, Record, Event, OpenRecord, OpenEvent
<1> HIDE DEF t
<1>7. Good(t, ids, seen, stopped, void)
  BY <1>3, <1>4, <1>5, <1>6, StepGood
<1> QED
  BY <1>7 DEF t

(* ack. *)
LEMMA AcknowledgedGood ==
    ASSUME NEW s, NEW ids, NEW seen, NEW stopped, NEW void,
           Good(s, ids, seen, stopped, void),
           NEW e \in EventId, s.ev[e].state \in {"dispatched", "uncertain"}
    PROVE  Good(Acknowledged(s, e), ids, seen, stopped, void)
<1> DEFINE t == Acknowledged(s, e)
<1> USE StoreAssumption
<1>0. /\ s \in Store /\ RecordsSound(s, ids, void) /\ EventsSound(s, ids)
      /\ s.rem \in [ReminderId -> Record] /\ s.ev \in [EventId -> Event]
      /\ void \in [ReminderId -> Nat]
  BY DEF Good, Sound, Store
<1>1. t.rem \in [ReminderId -> Record]
  BY <1>0 DEF Acknowledged, Record, RecordState, Current, EventsSound
<1>2. t.ev \in [EventId -> Event]
  BY <1>0 DEF Acknowledged, Event, EventState, Outcome
<1>3. t \in Store
  BY <1>0, <1>1, <1>2 DEF Acknowledged, Store
<1>4. void \in [ReminderId -> Nat]
  BY <1>0 DEF Record
<1>5. ASSUME NEW r0 \in ReminderId PROVE RecordMoves(s, t, void, void, r0)
  BY <1>0 DEF Acknowledged, RecordMoves, RecordsSound, EventsSound, Record, OpenRecord, Current
<1>6. ASSUME NEW e0 \in EventId PROVE EventMoves(s, t, e0)
  BY <1>0 DEF Acknowledged, EventMoves, Undispatched, EventsSound, Current, Record, Event, OpenRecord, OpenEvent
<1> HIDE DEF t
<1>7. Good(t, ids, seen, stopped, void)
  BY <1>3, <1>4, <1>5, <1>6, StepGood
<1> QED
  BY <1>7 DEF t

(* The sweep: an admission nobody owns is pending again, *)
LEMMA ReclaimedGood ==
    ASSUME NEW s, NEW ids, NEW seen, NEW stopped, NEW void,
           Good(s, ids, seen, stopped, void),
           NEW live
    PROVE  Good(Reclaimed(s, live), ids, seen, stopped, void)
<1> DEFINE t == Reclaimed(s, live)
<1> USE StoreAssumption
<1>0. /\ s \in Store /\ RecordsSound(s, ids, void) /\ EventsSound(s, ids)
      /\ s.rem \in [ReminderId -> Record] /\ s.ev \in [EventId -> Event]
      /\ void \in [ReminderId -> Nat]
  BY DEF Good, Sound, Store
<1>1. t.rem \in [ReminderId -> Record]
  BY <1>0 DEF Reclaimed, Record, RecordState, Current, EventsSound
<1>2. t.ev \in [EventId -> Event]
  <2>1. ASSUME NEW x \in EventId PROVE t.ev[x] \in Event
    <3>1. s.ev[x] \in Event
      BY <1>0
    <3> QED
      BY <3>1 DEF Reclaimed, Event, EventState, Outcome
  <2> QED
    BY <2>1 DEF Reclaimed
<1>3. t \in Store
  BY <1>0, <1>1, <1>2 DEF Reclaimed, Store
<1>4. void \in [ReminderId -> Nat]
  BY <1>0 DEF Record
<1>5. ASSUME NEW r0 \in ReminderId PROVE RecordMoves(s, t, void, void, r0)
  BY <1>0 DEF Reclaimed, RecordMoves, RecordsSound, EventsSound, Record, OpenRecord, Current
<1>6. ASSUME NEW e0 \in EventId PROVE EventMoves(s, t, e0)
  BY <1>0 DEF Reclaimed, EventMoves, Undispatched, EventsSound, Current, Record, Event, OpenRecord, OpenEvent
<1> HIDE DEF t
<1>7. Good(t, ids, seen, stopped, void)
  BY <1>3, <1>4, <1>5, <1>6, StepGood
<1> QED
  BY <1>7 DEF t

(* and what is past its window expires. *)
LEMMA ExpiredGood ==
    ASSUME NEW s, NEW ids, NEW seen, NEW stopped, NEW void,
           Good(s, ids, seen, stopped, void),
           NEW gone \in SUBSET {r \in ReminderId : s.rem[r].state = "active"}
    PROVE  Good(Expired(s, gone), ids, seen, stopped, void)
<1> DEFINE t == Expired(s, gone)
<1> USE StoreAssumption
<1>0. /\ s \in Store /\ RecordsSound(s, ids, void) /\ EventsSound(s, ids)
      /\ s.rem \in [ReminderId -> Record] /\ s.ev \in [EventId -> Event]
      /\ void \in [ReminderId -> Nat]
  BY DEF Good, Sound, Store
<1>1. t.rem \in [ReminderId -> Record]
  BY <1>0 DEF Expired, OpenEventsOf, Record, RecordState, Current, EventsSound
<1>2. t.ev \in [EventId -> Event]
  BY <1>0 DEF Expired, OpenEventsOf, Event, EventState, Outcome
<1>3. t \in Store
  BY <1>0, <1>1, <1>2 DEF Expired, OpenEventsOf, Store
<1>4. void \in [ReminderId -> Nat]
  BY <1>0 DEF Record
<1>5. ASSUME NEW r0 \in ReminderId PROVE RecordMoves(s, t, void, void, r0)
  BY <1>0 DEF Expired, OpenEventsOf, RecordMoves, RecordsSound, EventsSound, Record, OpenRecord, Current
<1>6. ASSUME NEW e0 \in EventId PROVE EventMoves(s, t, e0)
  BY <1>0 DEF Expired, OpenEventsOf, EventMoves, Undispatched, EventsSound, Current, Record, Event, OpenRecord, OpenEvent
<1> HIDE DEF t
<1>7. Good(t, ids, seen, stopped, void)
  BY <1>3, <1>4, <1>5, <1>6, StepGood
<1> QED
  BY <1>7 DEF t

(* markAdmitting. *)
LEMMA AdmittingGood ==
    ASSUME NEW s, NEW ids, NEW seen, NEW stopped, NEW void,
           Good(s, ids, seen, stopped, void),
           NEW e \in EventId, s.ev[e].state = "pending"
    PROVE  Good(Admitting(s, e), ids, seen, stopped, void)
<1> DEFINE t == Admitting(s, e)
<1> USE StoreAssumption
<1>0. /\ s \in Store /\ RecordsSound(s, ids, void) /\ EventsSound(s, ids)
      /\ s.rem \in [ReminderId -> Record] /\ s.ev \in [EventId -> Event]
      /\ void \in [ReminderId -> Nat]
  BY DEF Good, Sound, Store
<1>1. t.rem \in [ReminderId -> Record]
  BY <1>0 DEF Admitting, Record, RecordState, Current, EventsSound
<1>2. t.ev \in [EventId -> Event]
  BY <1>0 DEF Admitting, Event, EventState, Outcome
<1>3. t \in Store
  BY <1>0, <1>1, <1>2 DEF Admitting, Store
<1>4. void \in [ReminderId -> Nat]
  BY <1>0 DEF Record
<1>5. ASSUME NEW r0 \in ReminderId PROVE RecordMoves(s, t, void, void, r0)
  BY <1>0 DEF Admitting, RecordMoves, RecordsSound, EventsSound, Record, OpenRecord, Current
<1>6. ASSUME NEW e0 \in EventId PROVE EventMoves(s, t, e0)
  BY <1>0 DEF Admitting, EventMoves, Undispatched, EventsSound, Current, Record, Event, OpenRecord, OpenEvent
<1> HIDE DEF t
<1>7. Good(t, ids, seen, stopped, void)
  BY <1>3, <1>4, <1>5, <1>6, StepGood
<1> QED
  BY <1>7 DEF t

(* releaseUndispatched. *)
LEMMA ReleasedGood ==
    ASSUME NEW s, NEW ids, NEW seen, NEW stopped, NEW void,
           Good(s, ids, seen, stopped, void),
           NEW e \in EventId, s.ev[e].state = "admitting", NEW retry \in Nat
    PROVE  Good(Released(s, e, retry), ids, seen, stopped, void)
<1> DEFINE t == Released(s, e, retry)
<1> USE StoreAssumption
<1>0. /\ s \in Store /\ RecordsSound(s, ids, void) /\ EventsSound(s, ids)
      /\ s.rem \in [ReminderId -> Record] /\ s.ev \in [EventId -> Event]
      /\ void \in [ReminderId -> Nat]
  BY DEF Good, Sound, Store
<1>1. t.rem \in [ReminderId -> Record]
  BY <1>0 DEF Released, Record, RecordState, Current, EventsSound
<1>2. t.ev \in [EventId -> Event]
  BY <1>0 DEF Released, Event, EventState, Outcome
<1>3. t \in Store
  BY <1>0, <1>1, <1>2 DEF Released, Store
<1>4. void \in [ReminderId -> Nat]
  BY <1>0 DEF Record
<1>5. ASSUME NEW r0 \in ReminderId PROVE RecordMoves(s, t, void, void, r0)
  <2>1. t.rem = s.rem
    BY <1>0 DEF Released, Store
  <2> QED BY <2>1 DEF RecordMoves
<1>6. ASSUME NEW e0 \in EventId PROVE EventMoves(s, t, e0)
  BY <1>0 DEF Released, EventMoves, Undispatched, EventsSound, Current, Record, Event, OpenRecord, OpenEvent
<1> HIDE DEF t
<1>7. Good(t, ids, seen, stopped, void)
  BY <1>3, <1>4, <1>5, <1>6, StepGood
<1> QED
  BY <1>7 DEF t

(* markInterruptRequested. *)
LEMMA RequestedGood ==
    ASSUME NEW s, NEW ids, NEW seen, NEW stopped, NEW void,
           Good(s, ids, seen, stopped, void),
           NEW e \in EventId
    PROVE  Good(InterruptRequested(s, e), ids, seen, stopped, void)
<1> DEFINE t == InterruptRequested(s, e)
<1> USE StoreAssumption
<1>0. /\ s \in Store /\ RecordsSound(s, ids, void) /\ EventsSound(s, ids)
      /\ s.rem \in [ReminderId -> Record] /\ s.ev \in [EventId -> Event]
      /\ void \in [ReminderId -> Nat]
  BY DEF Good, Sound, Store
<1>1. t.rem \in [ReminderId -> Record]
  BY <1>0 DEF InterruptRequested, Record, RecordState, Current, EventsSound
<1>2. t.ev \in [EventId -> Event]
  BY <1>0 DEF InterruptRequested, Event, EventState, Outcome
<1>3. t \in Store
  BY <1>0, <1>1, <1>2 DEF InterruptRequested, Store
<1>4. void \in [ReminderId -> Nat]
  BY <1>0 DEF Record
<1>5. ASSUME NEW r0 \in ReminderId PROVE RecordMoves(s, t, void, void, r0)
  <2>1. t.rem = s.rem
    BY <1>0 DEF InterruptRequested, Store
  <2> QED BY <2>1 DEF RecordMoves
<1>6. ASSUME NEW e0 \in EventId PROVE EventMoves(s, t, e0)
  BY <1>0 DEF InterruptRequested, EventMoves, Undispatched, EventsSound, Current, Record, Event, OpenRecord, OpenEvent
<1> HIDE DEF t
<1>7. Good(t, ids, seen, stopped, void)
  BY <1>3, <1>4, <1>5, <1>6, StepGood
<1> QED
  BY <1>7 DEF t

(* recordInterruptOutcome. *)
LEMMA SettledGood ==
    ASSUME NEW s, NEW ids, NEW seen, NEW stopped, NEW void,
           Good(s, ids, seen, stopped, void),
           NEW e \in EventId
    PROVE  Good(InterruptSettled(s, e), ids, seen, stopped, void)
<1> DEFINE t == InterruptSettled(s, e)
<1> USE StoreAssumption
<1>0. /\ s \in Store /\ RecordsSound(s, ids, void) /\ EventsSound(s, ids)
      /\ s.rem \in [ReminderId -> Record] /\ s.ev \in [EventId -> Event]
      /\ void \in [ReminderId -> Nat]
  BY DEF Good, Sound, Store
<1>1. t.rem \in [ReminderId -> Record]
  BY <1>0 DEF InterruptSettled, Record, RecordState, Current, EventsSound
<1>2. t.ev \in [EventId -> Event]
  BY <1>0 DEF InterruptSettled, Event, EventState, Outcome
<1>3. t \in Store
  BY <1>0, <1>1, <1>2 DEF InterruptSettled, Store
<1>4. void \in [ReminderId -> Nat]
  BY <1>0 DEF Record
<1>5. ASSUME NEW r0 \in ReminderId PROVE RecordMoves(s, t, void, void, r0)
  <2>1. t.rem = s.rem
    BY <1>0 DEF InterruptSettled, Store
  <2> QED BY <2>1 DEF RecordMoves
<1>6. ASSUME NEW e0 \in EventId PROVE EventMoves(s, t, e0)
  BY <1>0 DEF InterruptSettled, EventMoves, Undispatched, EventsSound, Current, Record, Event, OpenRecord, OpenEvent
<1> HIDE DEF t
<1>7. Good(t, ids, seen, stopped, void)
  BY <1>3, <1>4, <1>5, <1>6, StepGood
<1> QED
  BY <1>7 DEF t

(* claimDispatch, the dispatch itself. *)
LEMMA DispatchedGood ==
    ASSUME NEW s, NEW ids, NEW seen, NEW stopped, NEW void,
           Good(s, ids, seen, stopped, void),
           NEW e \in EventId, s.ev[e].state = "admitting", Current(s, e)
    PROVE  Good(Dispatched(s, e), ids, seen, stopped, void)
<1> DEFINE t == Dispatched(s, e)
<1> USE StoreAssumption
<1>0. /\ s \in Store /\ RecordsSound(s, ids, void) /\ EventsSound(s, ids)
      /\ s.rem \in [ReminderId -> Record] /\ s.ev \in [EventId -> Event]
      /\ void \in [ReminderId -> Nat]
  BY DEF Good, Sound, Store
<1>1. t.rem \in [ReminderId -> Record]
  BY <1>0 DEF Dispatched, Record, RecordState, Current
<1>2. t.ev \in [EventId -> Event]
  BY <1>0 DEF Dispatched, Event, EventState, Outcome
<1>3. t \in Store
  BY <1>0, <1>1, <1>2 DEF Dispatched, Store
<1>4. void \in [ReminderId -> Nat]
  BY <1>0 DEF Record
<1>5. ASSUME NEW r0 \in ReminderId PROVE RecordMoves(s, t, void, void, r0)
  <2>1. t.rem[r0] = IF r0 = s.ev[e].rid THEN [s.rem[r0] EXCEPT !.state = "delivered"] ELSE s.rem[r0]
    BY <1>0 DEF Dispatched
  <2>2. s.rem[r0] \in Record /\ (s.rem[r0].state # "none" => s.rem[r0].rev > void[r0])
    BY <1>0 DEF RecordsSound
  <2>3. r0 = s.ev[e].rid => s.rem[r0].state = "active"
    BY DEF Current
  <2> HIDE DEF t
  <2> QED BY <2>1, <2>2, <2>3 DEF RecordMoves, Record
<1>6. ASSUME NEW e0 \in EventId PROVE EventMoves(s, t, e0)
  <2>1. t.ev[e0] = IF e0 = e THEN [s.ev[e0] EXCEPT !.state = "dispatched"] ELSE s.ev[e0]
    BY <1>0 DEF Dispatched
  <2>2. s.ev[e0] \in Event /\ s.rem[s.ev[e].rid] \in Record
    BY <1>0 DEF Current
  <2>3. t.rem[s.ev[e].rid].state # "active"
    BY <1>0, <2>2 DEF Dispatched, Current, Record
  <2> HIDE DEF t
  <2> QED BY <2>1, <2>2, <2>3 DEF EventMoves, Undispatched, Current, Event
<1> HIDE DEF t
<1>7. Good(t, ids, seen, stopped, void)
  BY <1>3, <1>4, <1>5, <1>6, StepGood
<1> QED
  BY <1>7 DEF t

(* claimDispatch, a wake whose reminder has moved on. *)
LEMMA InvalidatedGood ==
    ASSUME NEW s, NEW ids, NEW seen, NEW stopped, NEW void,
           Good(s, ids, seen, stopped, void),
           NEW e \in EventId, s.ev[e].state = "admitting", ~Current(s, e)
    PROVE  Good(Invalidated(s, e), ids, seen, stopped, void)
<1> DEFINE t == Invalidated(s, e)
<1> USE StoreAssumption
<1>0. /\ s \in Store /\ RecordsSound(s, ids, void) /\ EventsSound(s, ids)
      /\ s.rem \in [ReminderId -> Record] /\ s.ev \in [EventId -> Event]
      /\ void \in [ReminderId -> Nat]
  BY DEF Good, Sound, Store
<1>1. t.rem \in [ReminderId -> Record]
  BY <1>0 DEF Invalidated, Store
<1>2. t.ev \in [EventId -> Event]
  BY <1>0 DEF Invalidated, Event, EventState, Outcome
<1>3. t \in Store
  BY <1>0, <1>1, <1>2 DEF Invalidated, Store
<1>4. void \in [ReminderId -> Nat]
  BY <1>0 DEF Record
<1>5. ASSUME NEW r0 \in ReminderId PROVE RecordMoves(s, t, void, void, r0)
  <2>1. t.rem = s.rem
    BY <1>0 DEF Invalidated, Store
  <2> QED BY <2>1 DEF RecordMoves
<1>6. ASSUME NEW e0 \in EventId PROVE EventMoves(s, t, e0)
  <2>1. t.ev[e0] = IF e0 = e THEN [s.ev[e0] EXCEPT !.state = "invalidated"] ELSE s.ev[e0]
    BY <1>0 DEF Invalidated, Store
  <2>2. s.ev[e0] \in Event /\ t.rem = s.rem
    BY <1>0 DEF Invalidated, Store
  <2> HIDE DEF t
  <2> QED BY <2>1, <2>2 DEF EventMoves, Undispatched, Current, Event
<1> HIDE DEF t
<1>7. Good(t, ids, seen, stopped, void)
  BY <1>3, <1>4, <1>5, <1>6, StepGood
<1> QED
  BY <1>7 DEF t

(* claimDispatch, a wake past its window. *)
LEMMA LateGood ==
    ASSUME NEW s, NEW ids, NEW seen, NEW stopped, NEW void,
           Good(s, ids, seen, stopped, void),
           NEW e \in EventId, s.ev[e].state = "admitting", Current(s, e)
    PROVE  Good(ExpiredAtRelease(s, e), ids, seen, stopped, void)
<1> DEFINE t == ExpiredAtRelease(s, e)
<1> USE StoreAssumption
<1>0. /\ s \in Store /\ RecordsSound(s, ids, void) /\ EventsSound(s, ids)
      /\ s.rem \in [ReminderId -> Record] /\ s.ev \in [EventId -> Event]
      /\ void \in [ReminderId -> Nat]
  BY DEF Good, Sound, Store
<1>1. t.rem \in [ReminderId -> Record]
  BY <1>0 DEF ExpiredAtRelease, Record, RecordState, Current
<1>2. t.ev \in [EventId -> Event]
  BY <1>0 DEF ExpiredAtRelease, Event, EventState, Outcome
<1>3. t \in Store
  BY <1>0, <1>1, <1>2 DEF ExpiredAtRelease, Store
<1>4. void \in [ReminderId -> Nat]
  BY <1>0 DEF Record
<1>5. ASSUME NEW r0 \in ReminderId PROVE RecordMoves(s, t, void, void, r0)
  <2>1. t.rem[r0] = IF r0 = s.ev[e].rid THEN [s.rem[r0] EXCEPT !.state = "expired"] ELSE s.rem[r0]
    BY <1>0 DEF ExpiredAtRelease
  <2>2. s.rem[r0] \in Record /\ (s.rem[r0].state # "none" => s.rem[r0].rev > void[r0])
    BY <1>0 DEF RecordsSound
  <2>3. r0 = s.ev[e].rid => s.rem[r0].state = "active"
    BY DEF Current
  <2> HIDE DEF t
  <2> QED BY <2>1, <2>2, <2>3 DEF RecordMoves, Record
<1>6. ASSUME NEW e0 \in EventId PROVE EventMoves(s, t, e0)
  <2>1. t.ev[e0] = IF e0 = e THEN [s.ev[e0] EXCEPT !.state = "expired"] ELSE s.ev[e0]
    BY <1>0 DEF ExpiredAtRelease
  <2>2. s.ev[e0] \in Event /\ s.rem[s.ev[e].rid] \in Record
    BY <1>0 DEF Current
  <2>3. t.rem[s.ev[e].rid].state # "active"
    BY <1>0, <2>2 DEF ExpiredAtRelease, Current, Record
  <2> HIDE DEF t
  <2> QED BY <2>1, <2>2, <2>3 DEF EventMoves, Undispatched, Current, Event
<1> HIDE DEF t
<1>7. Good(t, ids, seen, stopped, void)
  BY <1>3, <1>4, <1>5, <1>6, StepGood
<1> QED
  BY <1>7 DEF t

(* recover. *)
LEMMA RecoveredGood ==
    ASSUME NEW s, NEW ids, NEW seen, NEW stopped, NEW void,
           Good(s, ids, seen, stopped, void)
    PROVE  Good(Recovered(s), ids, seen, stopped, void)
<1> DEFINE t == Recovered(s)
<1> USE StoreAssumption
<1>0. /\ s \in Store /\ RecordsSound(s, ids, void) /\ EventsSound(s, ids)
      /\ s.rem \in [ReminderId -> Record] /\ s.ev \in [EventId -> Event]
      /\ void \in [ReminderId -> Nat]
  BY DEF Good, Sound, Store
<1>1. t.rem \in [ReminderId -> Record]
  BY <1>0 DEF Recovered, Record, RecordState, Current, EventsSound
<1>2. t.ev \in [EventId -> Event]
  <2>1. ASSUME NEW x \in EventId PROVE t.ev[x] \in Event
    <3>1. s.ev[x] \in Event
      BY <1>0
    <3> QED
      BY <3>1 DEF Recovered, Event, EventState, Outcome
  <2> QED
    BY <2>1 DEF Recovered
<1>3. t \in Store
  BY <1>0, <1>1, <1>2 DEF Recovered, Store
<1>4. void \in [ReminderId -> Nat]
  BY <1>0 DEF Record
<1>5. ASSUME NEW r0 \in ReminderId PROVE RecordMoves(s, t, void, void, r0)
  BY <1>0 DEF Recovered, RecordMoves, RecordsSound, EventsSound, Record, OpenRecord, Current
<1>6. ASSUME NEW e0 \in EventId PROVE EventMoves(s, t, e0)
  BY <1>0 DEF Recovered, EventMoves, Undispatched, EventsSound, Current, Record, Event, OpenRecord, OpenEvent
<1> HIDE DEF t
<1>7. Good(t, ids, seen, stopped, void)
  BY <1>3, <1>4, <1>5, <1>6, StepGood
<1> QED
  BY <1>7 DEF t

-----------------------------------------------------------------------------
(* The three operators under which records or events come and go.          *)

(* prune drops closed reminders together with their events.                *)
LEMMA PrunedGood ==
    ASSUME NEW s, NEW ids, NEW seen, NEW stopped, NEW void,
           Good(s, ids, seen, stopped, void), NEW t \in Pruned(s)
    PROVE  Good(t, ids, seen, stopped, void)
<1> USE StoreAssumption
<1>0. /\ s \in Store /\ RecordsSound(s, ids, void)
      /\ EventsSound(s, ids) /\ EventsDistinct(s)
      /\ s.rem \in [ReminderId -> Record] /\ s.ev \in [EventId -> Event]
      /\ \A i \in DOMAIN seen : seen[i] \in Wake /\ SeenSound(s, ids, seen[i])
      /\ \A i \in DOMAIN stopped : stopped[i] \in Wake /\ AskedSound(s, ids, stopped[i])
  BY DEF Good, Sound, Store
<1>1. PICK gone \in SUBSET ReminderId : t = Without(s, gone)
  BY DEF Pruned, Prunable
<1>2. /\ t.rem = [r \in ReminderId |-> IF r \in gone THEN NoRecord ELSE s.rem[r]]
      /\ t.ev = [e \in EventId |-> IF s.ev[e].rid \in gone THEN NoEvent ELSE s.ev[e]]
      /\ t = [rem |-> t.rem, ev |-> t.ev]
  BY <1>1 DEF Without
<1>3. t \in Store
  <2>1. NoRecord \in Record /\ NoEvent \in Event
    BY DEF NoRecord, NoEvent, Record, Event, RecordState, EventState, Outcome
  <2> QED
    BY <1>0, <1>2, <2>1 DEF Store
<1>4. \A r \in ReminderId : t.rem[r] = NoRecord \/ t.rem[r] = s.rem[r]
  BY <1>2
<1>5. \A e \in EventId : \/ t.ev[e] = NoEvent
                         \/ t.ev[e] = s.ev[e] /\ s.ev[e].rid \notin gone
  BY <1>2
<1>6. NoRecord.state = "none" /\ NoEvent.state = "none" /\ NoEvent.rid = NoReminder
  BY DEF NoRecord, NoEvent
<1>7. RecordsSound(t, ids, void)
  BY <1>0, <1>4, <1>6 DEF RecordsSound
<1>8. EventsSound(t, ids)
  <2> SUFFICES ASSUME NEW e \in EventId, t.ev[e] # NoEvent
               PROVE  /\ t.ev[e] = s.ev[e] /\ s.ev[e].rid \notin gone
                      /\ s.ev[e].rid \in ReminderId => t.rem[s.ev[e].rid] = s.rem[s.ev[e].rid]
    BY <1>0, <1>6 DEF EventsSound, Current
  <2> QED BY <1>2, <1>5
<1>9. EventsDistinct(t)
  <2> SUFFICES ASSUME NEW e \in EventId, NEW f \in EventId,
                      t.ev[e].state # "none", WakeOf(t, e) = WakeOf(t, f)
               PROVE  e = f
    BY DEF EventsDistinct
  <2>1. t.ev[e] = s.ev[e] /\ s.ev[e].rid \in ReminderId
    BY <1>0, <1>5, <1>6 DEF EventsSound
  <2>2. t.ev[f].rid = s.ev[e].rid /\ t.ev[f].rev = s.ev[e].rev
    BY <2>1 DEF WakeOf
  <2>3. t.ev[f] = s.ev[f]
    BY <1>5, <1>6, <2>1, <2>2
  <2> QED
    BY <1>0, <2>1, <2>2, <2>3 DEF EventsDistinct, WakeOf
<1>10. ASSUME NEW w \in Wake, NEW e \in EventId, WakeOf(t, e) = w
       PROVE  t.ev[e] = s.ev[e] /\ WakeOf(s, e) = w
  <2>1. w.rid \in ReminderId
    BY DEF Wake
  <2>2. t.ev[e].rid \in ReminderId
    BY <1>10, <2>1 DEF WakeOf
  <2> QED
    BY <1>5, <1>6, <1>10, <2>2 DEF WakeOf
<1>11. ASSUME NEW w \in Wake, SeenSound(s, ids, w) PROVE SeenSound(t, ids, w)
  BY <1>4, <1>6, <1>10, <1>11 DEF SeenSound, Wake
<1>12. ASSUME NEW w \in Wake, AskedSound(s, ids, w) PROVE AskedSound(t, ids, w)
  <2>1. t.rem[w.rid] = NoRecord \/ (t.rem[w.rid] = s.rem[w.rid] /\ w.rid \notin gone)
    BY <1>2 DEF Wake
  <2>2. ASSUME w.rid \notin gone, NEW e \in EventId, WakeOf(s, e) = w
        PROVE  WakeOf(t, e) = w
    BY <1>2, <2>2 DEF WakeOf
  <2>3. t.rem[w.rid].state = "active" /\ t.rem[w.rid].rev = w.rev =>
          \E e \in EventId : WakeOf(t, e) = w
    BY <1>6, <1>12, <2>1, <2>2 DEF AskedSound
  <2> QED
    BY <1>6, <1>10, <1>12, <2>1, <2>3 DEF AskedSound
<1> QED
  BY <1>0, <1>3, <1>7, <1>8, <1>9, <1>11, <1>12 DEF Good, Sound

(* create, under an identifier never used before.                          *)
LEMMA CreatedGood ==
    ASSUME NEW s, NEW ids, NEW seen, NEW stopped, NEW void,
           Good(s, ids, seen, stopped, void),
           NEW r \in ReminderId \ ids, NEW due \in Nat, NEW urgent \in BOOLEAN
    PROVE  Good(Created(s, r, due, urgent), ids \cup {r}, seen, stopped, void)
<1> DEFINE t == Created(s, r, due, urgent)
           more == ids \cup {r}
<1> USE StoreAssumption
<1>0. /\ s \in Store /\ RecordsSound(s, ids, void)
      /\ EventsSound(s, ids) /\ EventsDistinct(s)
      /\ s.rem \in [ReminderId -> Record] /\ s.ev \in [EventId -> Event]
      /\ void \in [ReminderId -> Nat]
      /\ \A i \in DOMAIN seen : seen[i] \in Wake /\ SeenSound(s, ids, seen[i])
      /\ \A i \in DOMAIN stopped : stopped[i] \in Wake /\ AskedSound(s, ids, stopped[i])
  BY DEF Good, Sound, Store
<1>1. /\ t.ev = s.ev
      /\ t.rem[r] = [state |-> "active", rev |-> 1, due |-> due, urgent |-> urgent]
      /\ \A q \in ReminderId : q # r => t.rem[q] = s.rem[q]
  BY <1>0 DEF Created, Store
<1>2. t \in Store
  BY <1>0 DEF Created, Store, Record, RecordState
<1> HIDE DEF t, more
<1>3. void[r] = 0
  BY <1>0 DEF RecordsSound
<1>4. \A e \in EventId : s.ev[e].rid # r
  BY <1>0 DEF EventsSound, RecordsSound
<1>5. \A w \in Wake : w.rid \in ids => w.rid # r /\ t.rem[w.rid] = s.rem[w.rid]
  BY <1>1 DEF Wake
<1>6. RecordsSound(t, more, void)
  BY <1>0, <1>1, <1>3 DEF RecordsSound, more
<1>7. EventsSound(t, more)
  BY <1>0, <1>1, <1>4 DEF EventsSound, Current, more
<1>8. EventsDistinct(t)
  BY <1>0, <1>1 DEF EventsDistinct, WakeOf
<1>9. \A i \in DOMAIN seen : SeenSound(t, more, seen[i])
  BY <1>0, <1>1, <1>5 DEF SeenSound, WakeOf, more
<1>10. \A i \in DOMAIN stopped : AskedSound(t, more, stopped[i])
  BY <1>0, <1>1, <1>5 DEF AskedSound, WakeOf, more
<1>11. Good(t, more, seen, stopped, void)
  BY <1>2, <1>6, <1>7, <1>8, <1>9, <1>10 DEF Good, Sound
<1> QED
  BY <1>11 DEF t, more

(* The sweep: what is due without an open event gets one, each its own.    *)
LEMMA WithEventsGood ==
    ASSUME NEW s, NEW ids, NEW seen, NEW stopped, NEW void,
           Good(s, ids, seen, stopped, void),
           NEW made \in SUBSET (EventId \ ids),
           NEW due \in SUBSET {r \in ReminderId :
                                  s.rem[r].state = "active" /\ OpenEventsOf(s, r) = {}},
           NEW own \in [made -> due],
           \A e, f \in made : own[e] = own[f] => e = f
    PROVE  Good(WithEvents(s, own), ids \cup made, seen, stopped, void)
<1> DEFINE t == WithEvents(s, own)
           more == ids \cup made
<1> USE StoreAssumption
<1>0. /\ s \in Store /\ RecordsSound(s, ids, void)
      /\ EventsSound(s, ids) /\ EventsDistinct(s)
      /\ s.rem \in [ReminderId -> Record] /\ s.ev \in [EventId -> Event]
      /\ \A i \in DOMAIN seen : seen[i] \in Wake /\ SeenSound(s, ids, seen[i])
      /\ \A i \in DOMAIN stopped : stopped[i] \in Wake /\ AskedSound(s, ids, stopped[i])
  BY DEF Good, Sound, Store
<1>1. /\ t.rem = s.rem
      /\ \A e \in EventId : e \notin made => t.ev[e] = s.ev[e]
      /\ \A e \in made :
            /\ t.ev[e].state = "pending" /\ t.ev[e].rid = own[e]
            /\ t.ev[e].rev = s.rem[own[e]].rev /\ t.ev[e].intr = "none"
  BY DEF WithEvents
<1>2. \A e \in made : /\ own[e] \in ReminderId /\ s.rem[own[e]].state = "active"
                      /\ OpenEventsOf(s, own[e]) = {}
                      /\ s.rem[own[e]].rev \in Nat
                      /\ e \notin ids /\ e \in EventId
  BY <1>0 DEF Record
<1>3. t \in Store
  <2>1. \A e \in EventId : t.ev[e] \in Event
    <3> SUFFICES ASSUME NEW e \in EventId PROVE t.ev[e] \in Event
      OBVIOUS
    <3>1. CASE e \in made
      <4>1. own[e] \in ReminderId /\ s.rem[own[e]].rev \in Nat
        BY <1>2, <3>1
      <4>2. t.ev[e] = [state |-> "pending", rid |-> own[e],
                       rev |-> s.rem[own[e]].rev, retry |-> 0, intr |-> "none"]
        BY <3>1 DEF WithEvents
      <4> HIDE DEF t
      <4> QED
        BY <4>1, <4>2 DEF Event, EventState, Outcome
    <3>2. CASE e \notin made
      <4> HIDE DEF t
      <4> QED
        BY <1>0, <1>1, <3>2
    <3> QED
      BY <3>1, <3>2
  <2> QED
    BY <1>0, <1>1, <2>1 DEF WithEvents, Store
<1> HIDE DEF t, more
<1>4. \A e \in made : s.ev[e].state = "none"
  BY <1>0, <1>2 DEF EventsSound
<1>5. RecordsSound(t, more, void)
  BY <1>0, <1>1 DEF RecordsSound, more
<1>6. EventsSound(t, more)
  <2> SUFFICES ASSUME NEW e \in EventId
               PROVE  IF t.ev[e].state = "none" THEN t.ev[e].rid = NoReminder
                      ELSE /\ e \in more /\ t.ev[e].rid \in ReminderId
                           /\ t.rem[t.ev[e].rid].state # "none"
                           /\ t.ev[e].rev <= t.rem[t.ev[e].rid].rev
                           /\ Current(t, e) => t.ev[e].state \in {"pending", "admitting"}
    BY DEF EventsSound
  <2>1. CASE e \in made
    BY <1>1, <1>2, <2>1 DEF more
  <2>2. CASE e \notin made
    BY <1>0, <1>1, <2>2 DEF EventsSound, Current, more
  <2> QED
    BY <2>1, <2>2
(* No event, open or closed, has the name of a new one.                    *)
<1>7. ASSUME NEW e \in made, NEW f \in EventId, f \notin made PROVE WakeOf(t, e) # WakeOf(t, f)
  <2> SUFFICES ASSUME s.ev[f].rid = own[e], s.ev[f].rev = s.rem[own[e]].rev PROVE FALSE
    BY <1>1, <1>7 DEF WakeOf
  <2>1. s.ev[f].state # "none"
    BY <1>0, <1>2 DEF EventsSound
  <2>2. Current(s, f)
    BY <1>2 DEF Current
  <2>3. f \in OpenEventsOf(s, own[e])
    BY <1>0, <2>1, <2>2 DEF EventsSound, OpenEventsOf, OpenEvent
  <2> QED
    BY <1>2, <2>3
<1>8. EventsDistinct(t)
  <2> SUFFICES ASSUME NEW e \in EventId, NEW f \in EventId,
                      t.ev[e].state # "none", WakeOf(t, e) = WakeOf(t, f)
               PROVE  e = f
    BY DEF EventsDistinct
  <2>1. CASE e \in made /\ f \in made
    BY <1>1, <2>1 DEF WakeOf
  <2>2. CASE e \notin made /\ f \notin made
    BY <1>0, <1>1, <2>2 DEF EventsDistinct, WakeOf
  <2> QED
    BY <1>7, <2>1, <2>2
<1>9. ASSUME NEW w \in Wake, SeenSound(s, ids, w) PROVE SeenSound(t, more, w)
  <2>1. \A e \in made : WakeOf(t, e) # w
    <3> SUFFICES ASSUME NEW e \in made, own[e] = w.rid, s.rem[own[e]].rev = w.rev PROVE FALSE
      BY <1>1 DEF WakeOf
    <3> QED
      BY <1>2, <1>9 DEF SeenSound, Wake
  <2>2. \A e \in EventId : WakeOf(t, e) = w => e \notin made /\ WakeOf(s, e) = w
    BY <1>1, <2>1 DEF WakeOf
  <2> QED
    BY <1>1, <1>9, <2>2 DEF SeenSound, more
<1>10. ASSUME NEW w \in Wake, AskedSound(s, ids, w) PROVE AskedSound(t, more, w)
  <2>1. ASSUME NEW f \in EventId, WakeOf(s, f) = w PROVE f \notin made /\ WakeOf(t, f) = w
    <3>1. s.ev[f].rid \in ReminderId
      BY <2>1 DEF WakeOf, Wake
    <3>2. s.ev[f].state # "none"
      BY <1>0, <3>1 DEF EventsSound
    <3> QED
      BY <1>1, <1>4, <2>1, <3>2 DEF WakeOf
  <2>2. \A e \in made : WakeOf(t, e) # w
    <3> SUFFICES ASSUME NEW e \in made, WakeOf(t, e) = w PROVE FALSE
      OBVIOUS
    <3>1. s.rem[w.rid].state = "active" /\ s.rem[w.rid].rev = w.rev
      BY <1>1, <1>2 DEF WakeOf
    <3>2. PICK f \in EventId : WakeOf(s, f) = w
      BY <1>10, <3>1 DEF AskedSound
    <3> QED
      BY <1>7, <2>1, <3>2
  <2>3. \A e \in EventId : WakeOf(t, e) = w => e \notin made /\ WakeOf(s, e) = w
    BY <1>1, <2>2 DEF WakeOf
  <2> QED
    BY <1>1, <1>10, <2>1, <2>3 DEF AskedSound, more
<1>11. Good(t, more, seen, stopped, void)
  BY <1>0, <1>3, <1>5, <1>6, <1>8, <1>9, <1>10 DEF Good, Sound
<1> QED
  BY <1>11 DEF t, more

-----------------------------------------------------------------------------
(* The invariant.                                                          *)

Holds(s) == Good(s, minted, woke, asked, voided)

IInv ==
    /\ ControlOK
    /\ Holds(mem) /\ Holds(disk)
    /\ WokenOnce /\ InterruptedOnce

LEMMA InitIInv == Init => IInv
<1> USE StoreAssumption, ReminderAssumption
<1> SUFFICES ASSUME Init PROVE IInv
  OBVIOUS
<1>1. EmptyStore \in Store
  BY DEF EmptyStore, Store, Record, Event, NoRecord, NoEvent, RecordState, EventState, Outcome
<1>2. /\ \A r \in ReminderId : EmptyStore.rem[r].state = "none"
      /\ \A e \in EventId : EmptyStore.ev[e].state = "none" /\ EmptyStore.ev[e].rid = NoReminder
  BY DEF EmptyStore, NoRecord, NoEvent
<1>3. voided \in [ReminderId -> Nat] /\ \A r \in ReminderId : voided[r] = 0
  BY DEF Init
<1>4. woke \in Seq(Wake) /\ asked \in Seq(Wake) /\ DOMAIN woke = {} /\ DOMAIN asked = {}
  BY DEF Init
<1>5. Sound(EmptyStore, minted, woke, asked, voided)
  BY <1>2, <1>3, <1>4 DEF Sound, RecordsSound, EventsSound, EventsDistinct
<1>6. ControlOK
  BY DEF Init, ControlOK
<1> QED
  BY <1>1, <1>3, <1>4, <1>5, <1>6 DEF IInv, Holds, Good, Init, WokenOnce, InterruptedOnce

(* Steps that add nothing to the history and mint nothing: each store      *)
(* value left behind is one the lemmas above know.                         *)
LEMMA Quiet ==
    ASSUME IInv, ControlOK', UNCHANGED <<minted, historyVars>>,
           Holds(mem'), Holds(disk')
    PROVE  IInv'
BY DEF IInv, Holds, historyVars, WokenOnce, InterruptedOnce

(* The timer stays a Boolean.                                              *)
LEMMA ChangedArmed == ASSUME armed \in BOOLEAN, Changed PROVE armed' \in BOOLEAN
<1>1. Scheduled \in BOOLEAN
  BY Zenon DEF Scheduled
<1>2. CASE phase = "started" /\ pc = "rest"
  BY <1>1, <1>2, Zenon DEF Changed
<1>3. CASE ~(phase = "started" /\ pc = "rest")
  BY <1>3, Zenon DEF Changed
<1> QED
  BY <1>2, <1>3, Zenon

(* Steps that leave both store values as they are.                         *)

LEMMA StartStep ==
    ASSUME IInv, Start
    PROVE  IInv'
<1> USE StoreAssumption, ReminderAssumption
<1>1. ControlOK'
  BY DEF IInv, ControlOK, Start, storeVars, sessionVars
<1>2. Holds(mem') /\ Holds(disk')
  BY DEF IInv, Start, storeVars
<1> QED
  BY <1>1, <1>2, Quiet DEF Start, historyVars

LEMMA StopStep ==
    ASSUME IInv, Stop
    PROVE  IInv'
<1> USE StoreAssumption, ReminderAssumption
<1>1. ControlOK'
  <2> USE DEF IInv, ControlOK
  <2>1. armed' \in BOOLEAN
    BY Zenon DEF Stop, sessionVars, Mishap
  <2>2. online' \in BOOLEAN /\ waiting' \in BOOLEAN
    BY Zenon DEF Stop, sessionVars, Mishap
  <2>3. mishaps' \in Nat /\ now' \in Nat /\ minted' \subseteq ReminderId \cup EventId
    BY SMT DEF Stop, sessionVars, Mishap
  <2>4. /\ phase' \in {"bound", "started", "stopping", "down"}
        /\ pc' \in {"rest", "boundary", "interrupting", "boundary2", "answered"}
        /\ cur' \in EventId \cup {NoId} /\ (pc' # "rest" => cur' \in EventId)
        /\ todo' \subseteq EventId
        /\ answer' \in {"none", "busy", "unavailable", "admitted", "thrown"}
        /\ inFlight' \subseteq EventId
    BY SMT DEF Stop, sessionVars, Mishap
  <2>5. /\ turn' \in {"none", "open", "shut"}
        /\ prompt' \in [EventId -> {"none", "queued", "running", "done"}]
    BY SMT DEF Stop, sessionVars, Mishap
  <2> QED
    BY <2>1, <2>2, <2>3, <2>4, <2>5
<1>2. Holds(mem') /\ Holds(disk')
  BY DEF IInv, Stop
<1> QED
  BY <1>1, <1>2, Quiet DEF Stop, historyVars

LEMMA BoundaryUnavailableStep ==
    ASSUME IInv, BoundaryUnavailable
    PROVE  IInv'
<1> USE StoreAssumption, ReminderAssumption
<1>1. ControlOK'
  BY DEF IInv, ControlOK, BoundaryUnavailable, Answers, storeVars, sessionVars
<1>2. Holds(mem') /\ Holds(disk')
  BY DEF IInv, BoundaryUnavailable, storeVars
<1> QED
  BY <1>1, <1>2, Quiet DEF BoundaryUnavailable, historyVars

LEMMA AdmissionRetiredStep ==
    ASSUME IInv, AdmissionRetired
    PROVE  IInv'
<1> USE StoreAssumption, ReminderAssumption
<1>1. ControlOK'
  <2> USE DEF IInv, ControlOK
  <2>1. armed' \in BOOLEAN
    BY Zenon DEF AdmissionRetired, Answers, Mishap
  <2>2. online' \in BOOLEAN /\ waiting' \in BOOLEAN
    BY Zenon DEF AdmissionRetired, Answers, Mishap
  <2>3. mishaps' \in Nat /\ now' \in Nat /\ minted' \subseteq ReminderId \cup EventId
    BY SMT DEF AdmissionRetired, Answers, Mishap
  <2>4. /\ phase' \in {"bound", "started", "stopping", "down"}
        /\ pc' \in {"rest", "boundary", "interrupting", "boundary2", "answered"}
        /\ cur' \in EventId \cup {NoId} /\ (pc' # "rest" => cur' \in EventId)
        /\ todo' \subseteq EventId
        /\ answer' \in {"none", "busy", "unavailable", "admitted", "thrown"}
        /\ inFlight' \subseteq EventId
    BY SMT DEF AdmissionRetired, Answers, Mishap
  <2>5. /\ turn' \in {"none", "open", "shut"}
        /\ prompt' \in [EventId -> {"none", "queued", "running", "done"}]
    BY SMT DEF AdmissionRetired, Answers, Mishap
  <2> QED
    BY <2>1, <2>2, <2>3, <2>4, <2>5
<1>2. Holds(mem') /\ Holds(disk')
  BY DEF IInv, AdmissionRetired
<1> QED
  BY <1>1, <1>2, Quiet DEF AdmissionRetired, historyVars

LEMMA Boundary2Step ==
    ASSUME IInv, Boundary2
    PROVE  IInv'
<1> USE StoreAssumption, ReminderAssumption
<1>1. ControlOK'
  BY DEF IInv, ControlOK, Boundary2, Answers, Queued, storeVars
<1>2. Holds(mem') /\ Holds(disk')
  BY DEF IInv, Boundary2, storeVars
<1> QED
  BY <1>1, <1>2, Quiet DEF Boundary2, historyVars

LEMMA OtherArrivesStep ==
    ASSUME IInv, OtherArrives
    PROVE  IInv'
<1> USE StoreAssumption, ReminderAssumption
<1>1. ControlOK'
  BY DEF IInv, ControlOK, OtherArrives, storeVars, managerVars
<1>2. Holds(mem') /\ Holds(disk')
  BY DEF IInv, OtherArrives, storeVars
<1> QED
  BY <1>1, <1>2, Quiet DEF OtherArrives, historyVars

LEMMA OtherEndsStep ==
    ASSUME IInv, OtherEnds
    PROVE  IInv'
<1> USE StoreAssumption, ReminderAssumption
<1>1. ControlOK'
  BY DEF IInv, ControlOK, OtherEnds, storeVars, managerVars
<1>2. Holds(mem') /\ Holds(disk')
  BY DEF IInv, OtherEnds, storeVars
<1> QED
  BY <1>1, <1>2, Quiet DEF OtherEnds, historyVars

LEMMA SessionDiesStep ==
    ASSUME IInv, SessionDies
    PROVE  IInv'
<1> USE StoreAssumption, ReminderAssumption
<1>1. ControlOK'
  <2> USE DEF IInv, ControlOK
  <2>1. armed' \in BOOLEAN
    BY Zenon DEF SessionDies, managerVars, Mishap
  <2>2. online' \in BOOLEAN /\ waiting' \in BOOLEAN
    BY Zenon DEF SessionDies, managerVars, Mishap
  <2>3. mishaps' \in Nat /\ now' \in Nat /\ minted' \subseteq ReminderId \cup EventId
    BY SMT DEF SessionDies, managerVars, Mishap
  <2>4. /\ phase' \in {"bound", "started", "stopping", "down"}
        /\ pc' \in {"rest", "boundary", "interrupting", "boundary2", "answered"}
        /\ cur' \in EventId \cup {NoId} /\ (pc' # "rest" => cur' \in EventId)
        /\ todo' \subseteq EventId
        /\ answer' \in {"none", "busy", "unavailable", "admitted", "thrown"}
        /\ inFlight' \subseteq EventId
    BY SMT DEF SessionDies, managerVars, Mishap
  <2>5. /\ turn' \in {"none", "open", "shut"}
        /\ prompt' \in [EventId -> {"none", "queued", "running", "done"}]
    BY SMT DEF SessionDies, managerVars, Mishap
  <2> QED
    BY <2>1, <2>2, <2>3, <2>4, <2>5
<1>2. Holds(mem') /\ Holds(disk')
  BY DEF IInv, SessionDies
<1> QED
  BY <1>1, <1>2, Quiet DEF SessionDies, historyVars

LEMMA TickStep ==
    ASSUME IInv, Tick
    PROVE  IInv'
<1> USE StoreAssumption, ReminderAssumption
<1>1. ControlOK'
  BY DEF IInv, ControlOK, Tick, storeVars, managerVars, sessionVars
<1>2. Holds(mem') /\ Holds(disk')
  BY DEF IInv, Tick, storeVars
<1> QED
  BY <1>1, <1>2, Quiet DEF Tick, historyVars

LEMMA ClockBackStep ==
    ASSUME IInv, ClockBack
    PROVE  IInv'
<1> USE StoreAssumption, ReminderAssumption
<1>1. ControlOK'
  BY DEF IInv, ControlOK, ClockBack, managerVars, sessionVars, Mishap
<1>2. Holds(mem') /\ Holds(disk')
  BY DEF IInv, ClockBack
<1> QED
  BY <1>1, <1>2, Quiet DEF ClockBack, historyVars

LEMMA PromptEndsStep ==
    ASSUME IInv, NEW e \in EventId, PromptEnds(e)
    PROVE  IInv'
<1> USE StoreAssumption, ReminderAssumption
<1>1. ControlOK'
  BY DEF IInv, ControlOK, PromptEnds, storeVars, managerVars
<1>2. Holds(mem') /\ Holds(disk')
  BY DEF IInv, PromptEnds, storeVars
<1> QED
  BY <1>1, <1>2, Quiet DEF PromptEnds, historyVars

LEMMA BoundaryBusyStep ==
    ASSUME IInv, BoundaryBusy
    PROVE  IInv'
<1> USE StoreAssumption, ReminderAssumption
<1>1. ControlOK'
  BY DEF IInv, ControlOK, BoundaryBusy, Answers, Diagnostic, storeVars, sessionVars
<1>2. Holds(mem') /\ Holds(disk')
  BY DEF IInv, BoundaryBusy, Diagnostic, storeVars
<1> QED
  BY <1>1, <1>2, Quiet DEF BoundaryBusy, historyVars

(* Steps that write one value the lemmas above know.                       *)

LEMMA BoundaryIdleStep ==
    ASSUME IInv, BoundaryIdle
    PROVE  IInv'
<1> USE StoreAssumption, ReminderAssumption
<1>1. ControlOK'
  BY DEF IInv, ControlOK, BoundaryIdle, Answers, Queued, Committed, WriteFails, Mishap, storeVars
<1>2. Holds(mem') /\ Holds(disk')
  <2>1. MayAdmit(mem, cur, now) => Holds(Admitting(mem, cur))
    BY AdmittingGood DEF IInv, ControlOK, BoundaryIdle, MayAdmit, Holds
  <2> QED
    BY <2>1 DEF IInv, BoundaryIdle, Try, Committed, WriteFails, storeVars
<1> QED
  BY <1>1, <1>2, Quiet DEF BoundaryIdle, historyVars

LEMMA InterruptSettlesStep ==
    ASSUME IInv, InterruptSettles
    PROVE  IInv'
<1> USE StoreAssumption, ReminderAssumption
<1>1. ControlOK'
  BY DEF IInv, ControlOK, InterruptSettles, Answers, Try, Committed, WriteFails, Mishap, storeVars
<1>2. Holds(mem') /\ Holds(disk')
  <2>1. Holds(InterruptSettled(mem, cur))
    BY SettledGood DEF IInv, ControlOK, InterruptSettles, Holds
  <2> QED
    BY <2>1 DEF IInv, InterruptSettles, Try, Committed, WriteFails, storeVars
<1> QED
  BY <1>1, <1>2, Quiet DEF InterruptSettles, historyVars

LEMMA SettleStep ==
    ASSUME IInv, NEW e \in EventId, Settle(e)
    PROVE  IInv'
<1> USE StoreAssumption, ReminderAssumption
<1>1. ControlOK'
  <2> USE DEF IInv, ControlOK
  <2>1. armed' \in BOOLEAN
    BY ChangedArmed, Zenon DEF Settle
  <2>2. online' \in BOOLEAN /\ waiting' \in BOOLEAN
    BY Zenon DEF Settle, Changed, Try, Committed, WriteFails, Mishap, storeVars
  <2>3. mishaps' \in Nat /\ now' \in Nat /\ minted' \subseteq ReminderId \cup EventId
    BY SMT DEF Settle, Changed, Try, Committed, WriteFails, Mishap, storeVars
  <2>4. /\ phase' \in {"bound", "started", "stopping", "down"}
        /\ pc' \in {"rest", "boundary", "interrupting", "boundary2", "answered"}
        /\ cur' \in EventId \cup {NoId} /\ (pc' # "rest" => cur' \in EventId)
        /\ todo' \subseteq EventId
        /\ answer' \in {"none", "busy", "unavailable", "admitted", "thrown"}
        /\ inFlight' \subseteq EventId
    BY SMT DEF Settle, Changed, Try, Committed, WriteFails, Mishap, storeVars
  <2>5. /\ turn' \in {"none", "open", "shut"}
        /\ prompt' \in [EventId -> {"none", "queued", "running", "done"}]
    BY SMT DEF Settle, Changed, Try, Committed, WriteFails, Mishap, storeVars
  <2> QED
    BY <2>1, <2>2, <2>3, <2>4, <2>5
<1>2. Holds(mem') /\ Holds(disk')
  <2>1. mem.ev[e].state = "admitting" => Holds(Released(mem, e, now + RetryStep))
    BY ReleasedGood DEF IInv, ControlOK, Holds
  <2> QED
    BY <2>1 DEF IInv, Settle, Try, Committed, WriteFails, storeVars
<1> QED
  BY <1>1, <1>2, Quiet DEF Settle, historyVars

LEMMA AdmitReturnsStep ==
    ASSUME IInv, AdmitReturns
    PROVE  IInv'
<1> USE StoreAssumption, ReminderAssumption
<1>1. ControlOK'
  <2> USE DEF IInv, ControlOK
  <2>1. armed' \in BOOLEAN
    BY Zenon DEF AdmitReturns, AdmitNext, PollEnds, Diagnostic, Try, Committed, WriteFails, Mishap, storeVars, sessionVars
  <2>2. online' \in BOOLEAN /\ waiting' \in BOOLEAN
    BY Zenon DEF AdmitReturns, AdmitNext, PollEnds, Diagnostic, Try, Committed, WriteFails, Mishap, storeVars, sessionVars
  <2>3. mishaps' \in Nat /\ now' \in Nat /\ minted' \subseteq ReminderId \cup EventId
    BY SMT DEF AdmitReturns, AdmitNext, PollEnds, Diagnostic, Try, Committed, WriteFails, Mishap, storeVars, sessionVars
  <2>4. /\ phase' \in {"bound", "started", "stopping", "down"}
        /\ pc' \in {"rest", "boundary", "interrupting", "boundary2", "answered"}
        /\ cur' \in EventId \cup {NoId} /\ (pc' # "rest" => cur' \in EventId)
        /\ todo' \subseteq EventId
        /\ answer' \in {"none", "busy", "unavailable", "admitted", "thrown"}
        /\ inFlight' \subseteq EventId
    BY SMT DEF AdmitReturns, AdmitNext, PollEnds, Diagnostic, Try, Committed, WriteFails, Mishap, storeVars, sessionVars
  <2>5. /\ turn' \in {"none", "open", "shut"}
        /\ prompt' \in [EventId -> {"none", "queued", "running", "done"}]
    BY SMT DEF AdmitReturns, AdmitNext, PollEnds, Diagnostic, Try, Committed, WriteFails, Mishap, storeVars, sessionVars
  <2> QED
    BY <2>1, <2>2, <2>3, <2>4, <2>5
<1>2. Holds(mem') /\ Holds(disk')
  <2>1. ASSUME NEW retry \in Nat, mem.ev[cur].state = "admitting"
        PROVE  Holds(Released(mem, cur, retry))
    BY <2>1, ReleasedGood DEF IInv, ControlOK, AdmitReturns, Holds
  <2>2. now \in Nat /\ now + RetryStep \in Nat
    BY DEF IInv, ControlOK
  <2>3. \/ UNCHANGED storeVars
        \/ Diagnostic
        \/ \E retry \in Nat : mem.ev[cur].state = "admitting" /\ Try(Released(mem, cur, retry))
    BY <2>2 DEF AdmitReturns
  <2> QED
    BY <2>1, <2>3 DEF IInv, Try, Committed, WriteFails, storeVars, Diagnostic
<1> QED
  BY <1>1, <1>2, Quiet DEF AdmitReturns, historyVars

LEMMA AckStep ==
    ASSUME IInv, NEW e \in EventId, Ack(e)
    PROVE  IInv'
<1> USE StoreAssumption, ReminderAssumption
<1>1. ControlOK'
  <2> USE DEF IInv, ControlOK
  <2>1. armed' \in BOOLEAN
    BY ChangedArmed, Zenon DEF Ack
  <2>2. online' \in BOOLEAN /\ waiting' \in BOOLEAN
    BY Zenon DEF Ack, Bound, Changed, Committed, WriteFails, Mishap, storeVars, sessionVars
  <2>3. mishaps' \in Nat /\ now' \in Nat /\ minted' \subseteq ReminderId \cup EventId
    BY SMT DEF Ack, Bound, Changed, Committed, WriteFails, Mishap, storeVars, sessionVars
  <2>4. /\ phase' \in {"bound", "started", "stopping", "down"}
        /\ pc' \in {"rest", "boundary", "interrupting", "boundary2", "answered"}
        /\ cur' \in EventId \cup {NoId} /\ (pc' # "rest" => cur' \in EventId)
        /\ todo' \subseteq EventId
        /\ answer' \in {"none", "busy", "unavailable", "admitted", "thrown"}
        /\ inFlight' \subseteq EventId
    BY SMT DEF Ack, Bound, Changed, Committed, WriteFails, Mishap, storeVars, sessionVars
  <2>5. /\ turn' \in {"none", "open", "shut"}
        /\ prompt' \in [EventId -> {"none", "queued", "running", "done"}]
    BY SMT DEF Ack, Bound, Changed, Committed, WriteFails, Mishap, storeVars, sessionVars
  <2> QED
    BY <2>1, <2>2, <2>3, <2>4, <2>5
<1>2. Holds(mem') /\ Holds(disk')
  <2>1. mem.ev[e].state \in {"dispatched", "uncertain"} =>
          \A s \in Pruned(Acknowledged(mem, e)) : Holds(s)
    BY AcknowledgedGood, PrunedGood DEF IInv, Holds
  <2> QED
    BY <2>1 DEF IInv, Ack, Try, Committed, WriteFails, storeVars
<1> QED
  BY <1>1, <1>2, Quiet DEF Ack, historyVars

-----------------------------------------------------------------------------
(* Steps that mint an identifier.                                          *)

LEMMA Minting ==
    ASSUME IInv, ControlOK', UNCHANGED historyVars,
           Good(mem', minted', woke, asked, voided),
           Good(disk', minted', woke, asked, voided)
    PROVE  IInv'
BY DEF IInv, Holds, historyVars, WokenOnce, InterruptedOnce

(* What the sweep leaves, before it is pruned.                             *)
LEMMA SweptGood ==
    ASSUME IInv,
           NEW made \in SUBSET (EventId \ minted),
           NEW a, a = Reclaimed(mem, inFlight),
           NEW b, b = Expired(a, Lapsed(a, inFlight, now)),
           NEW own \in [made -> Wanting(b, inFlight, now)],
           \A e, f \in made : own[e] = own[f] => e = f
    PROVE  Good(WithEvents(b, own), minted \cup made, woke, asked, voided)
<1>1. Good(a, minted, woke, asked, voided)
  BY ReclaimedGood DEF IInv, Holds
<1>2. Lapsed(a, inFlight, now) \in SUBSET {r \in ReminderId : a.rem[r].state = "active"}
  BY DEF Lapsed, Unowned
<1>3. Good(b, minted, woke, asked, voided)
  BY <1>1, <1>2, ExpiredGood
<1>4. Wanting(b, inFlight, now)
        \in SUBSET {r \in ReminderId : b.rem[r].state = "active" /\ OpenEventsOf(b, r) = {}}
  BY DEF Wanting, Unowned
<1> QED
  BY <1>3, <1>4, WithEventsGood

(* The parts of a poll that concern the manager alone.                     *)
LEMMA PollEndsControl ==
    ASSUME NEW delay \in BOOLEAN, NEW live, live \subseteq EventId, PollEnds(delay, live)
    PROVE  /\ armed' \in BOOLEAN /\ inFlight' \subseteq EventId /\ pc' = "rest"
           /\ cur' = NoId /\ todo' = {} /\ answer' = "none"
<1>1. armed' \in BOOLEAN
  BY Zenon DEF PollEnds
<1> QED
  BY <1>1 DEF PollEnds

LEMMA AdmitNextControl ==
    ASSUME NEW events, events \subseteq EventId, NEW live, live \subseteq EventId,
           armed \in BOOLEAN, AdmitNext(events, live)
    PROVE  /\ armed' \in BOOLEAN /\ inFlight' \subseteq EventId
           /\ pc' \in {"rest", "boundary"}
           /\ cur' \in EventId \cup {NoId} /\ (pc' # "rest" => cur' \in EventId)
           /\ todo' \subseteq EventId /\ answer' = "none"
<1> DEFINE known == {e \in events : mem'.ev[e].state # "none"}
<1>1. CASE phase # "started" \/ known = {}
  <2>1. PollEnds(FALSE, live)
    BY <1>1 DEF AdmitNext
  <2> QED
    BY <2>1, PollEndsControl
<1>2. CASE ~(phase # "started" \/ known = {})
  <2>1. PICK e \in known : /\ pc' = "boundary" /\ cur' = e /\ todo' = known \ {e}
                           /\ answer' = "none" /\ inFlight' = live \cup {e}
                           /\ UNCHANGED armed
    BY <1>2 DEF AdmitNext
  <2> QED
    BY <2>1
<1> QED
  BY <1>1, <1>2

LEMMA PollStep ==
    ASSUME IInv, Poll
    PROVE  IInv'
<1> USE StoreAssumption, ReminderAssumption
<1> DEFINE a == Reclaimed(mem, inFlight)
           b == Expired(a, Lapsed(a, inFlight, now))
           due == Wanting(b, inFlight, now)
<1>1. PICK made \in SUBSET (EventId \ minted) : \E own \in [made -> due] :
        /\ \A e, f \in made : own[e] = own[f] => e = f
        /\ LET c == WithEvents(b, own)
           IN  /\ minted' = minted \cup made
               /\ \/ /\ c = mem
                     /\ UNCHANGED storeVars
                     /\ AdmitNext(Ready(mem, inFlight, now), inFlight)
                  \/ /\ c # mem
                     /\ \E s \in Pruned(c) :
                          \/ /\ Committed(s)
                             /\ AdmitNext(Ready(c, inFlight, now), inFlight)
                          \/ /\ WriteFails(s)
                             /\ PollEnds(TRUE, inFlight)
  BY DEF Poll
<1>2. PICK own \in [made -> due] :
        /\ \A e, f \in made : own[e] = own[f] => e = f
        /\ LET c == WithEvents(b, own)
           IN  /\ minted' = minted \cup made
               /\ \/ /\ c = mem
                     /\ UNCHANGED storeVars
                     /\ AdmitNext(Ready(mem, inFlight, now), inFlight)
                  \/ /\ c # mem
                     /\ \E s \in Pruned(c) :
                          \/ /\ Committed(s)
                             /\ AdmitNext(Ready(c, inFlight, now), inFlight)
                          \/ /\ WriteFails(s)
                             /\ PollEnds(TRUE, inFlight)
  BY <1>1
<1> DEFINE c == WithEvents(b, own)
<1>3. Good(c, minted', woke, asked, voided)
  BY <1>2, SweptGood
<1> HIDE DEF a, b, due, c
<1>4. /\ minted' = minted \cup made
      /\ \/ /\ UNCHANGED storeVars
            /\ AdmitNext(Ready(mem, inFlight, now), inFlight)
         \/ \E s \in Pruned(c) :
               \/ Committed(s) /\ AdmitNext(Ready(c, inFlight, now), inFlight)
               \/ WriteFails(s) /\ PollEnds(TRUE, inFlight)
  BY <1>2 DEF c
<1>5. /\ Good(mem, minted', woke, asked, voided)
      /\ Good(disk, minted', woke, asked, voided)
  BY <1>4, GoodGrows DEF IInv, Holds
<1>6. \A s \in Pruned(c) : Good(s, minted', woke, asked, voided)
  BY <1>3, PrunedGood
<1>7. /\ Good(mem', minted', woke, asked, voided)
      /\ Good(disk', minted', woke, asked, voided)
  BY <1>4, <1>5, <1>6 DEF storeVars, Committed, WriteFails
<1>8. ControlOK'
  <2>1. inFlight \subseteq EventId /\ armed \in BOOLEAN
    BY DEF IInv, ControlOK
  <2>2. Ready(mem, inFlight, now) \subseteq EventId /\ Ready(c, inFlight, now) \subseteq EventId
    BY DEF Ready
  <2>3. /\ armed' \in BOOLEAN /\ inFlight' \subseteq EventId
        /\ pc' \in {"rest", "boundary"}
        /\ cur' \in EventId \cup {NoId} /\ (pc' # "rest" => cur' \in EventId)
        /\ todo' \subseteq EventId /\ answer' = "none"
    BY <1>4, <2>1, <2>2, AdmitNextControl, PollEndsControl
  <2>4. mishaps' \in Nat
    <3>1. mishaps' = mishaps \/ Mishap
      BY <1>4, Zenon DEF storeVars, Committed, WriteFails
    <3>2. mishaps \in Nat
      BY DEF IInv, ControlOK
    <3> QED
      BY <3>1, <3>2 DEF Mishap
  <2>5. /\ UNCHANGED <<now, phase, online, turn, waiting, prompt>>
        /\ minted' \subseteq ReminderId \cup EventId
    BY <1>4 DEF Poll, sessionVars, IInv, ControlOK
  <2> QED
    BY <2>3, <2>4, <2>5 DEF IInv, ControlOK
<1> QED
  BY <1>7, <1>8, Minting DEF Poll

LEMMA CreateStep ==
    ASSUME IInv, NEW r \in ReminderId, NEW due \in DueTime, NEW urgent \in BOOLEAN,
           Create(r, due, urgent)
    PROVE  IInv'
<1> USE StoreAssumption, ReminderAssumption
<1> DEFINE c == Created(mem, r, due, urgent)
<1>1. Good(c, minted', woke, asked, voided)
  BY CreatedGood DEF Create, IInv, Holds
<1>2. \A s \in Pruned(c) : Good(s, minted', woke, asked, voided)
  BY <1>1, PrunedGood
<1>3. /\ Good(mem, minted', woke, asked, voided)
      /\ Good(disk, minted', woke, asked, voided)
  BY GoodGrows DEF Create, IInv, Holds
<1> HIDE DEF c
<1>4. \E s \in Pruned(c) : \/ Committed(s) /\ UNCHANGED inFlight /\ Changed
                           \/ WriteFails(s) /\ UNCHANGED <<inFlight, armed>>
  BY DEF Create, c
<1>5. /\ Good(mem', minted', woke, asked, voided)
      /\ Good(disk', minted', woke, asked, voided)
  BY <1>2, <1>3, <1>4 DEF Committed, WriteFails
<1>6. ControlOK'
  <2>1. armed' \in BOOLEAN
    BY <1>4, ChangedArmed, Zenon DEF IInv, ControlOK
  <2>2. mishaps' \in Nat
    BY <1>4 DEF IInv, ControlOK, Committed, WriteFails, Mishap
  <2>3. /\ UNCHANGED <<now, phase, pc, cur, todo, answer, inFlight, online, turn, waiting, prompt>>
        /\ minted' \subseteq ReminderId \cup EventId
    BY DEF Create, sessionVars, IInv, ControlOK
  <2> QED
    BY <2>1, <2>2, <2>3 DEF IInv, ControlOK
<1> QED
  BY <1>5, <1>6, Minting DEF Create

-----------------------------------------------------------------------------
(* Steps that add to the history.                                          *)

(* An interruption is asked for only after its mark is on disk, and only   *)
(* for an event that carries no mark yet.                                  *)
LEMMA BoundaryInterruptStep ==
    ASSUME IInv, BoundaryInterrupt
    PROVE  IInv'
<1> USE StoreAssumption, ReminderAssumption
<1> DEFINE claimed == Admitting(mem, cur)
           marked  == InterruptRequested(claimed, cur)
           w       == WakeOf(mem, cur)
<1>1. /\ cur \in EventId /\ mem \in Store /\ MayInterrupt(mem, cur)
      /\ Holds(mem) /\ Holds(disk) /\ ControlOK
  BY DEF BoundaryInterrupt, IInv, ControlOK, Holds, Good
<1>2. \/ ~MayAdmit(mem, cur, now) /\ UNCHANGED <<storeVars, asked>>
      \/ MayAdmit(mem, cur, now) /\ WriteFails(claimed) /\ UNCHANGED asked
      \/ /\ MayAdmit(mem, cur, now) /\ Mishap
         /\ mem' = claimed /\ disk' \in {claimed, marked} /\ UNCHANGED asked
      \/ MayAdmit(mem, cur, now) /\ Committed(marked) /\ asked' = Append(asked, w)
  BY DEF BoundaryInterrupt
<1>3. MayAdmit(mem, cur, now) => Holds(claimed) /\ Holds(marked)
  BY <1>1, AdmittingGood, RequestedGood DEF MayAdmit, Holds
<1>4. ControlOK'
  <2>1. mishaps' = mishaps \/ Mishap
    BY <1>2, Zenon DEF storeVars, Committed, WriteFails
  <2>2. mishaps' \in Nat
    BY <1>1, <2>1 DEF ControlOK, Mishap
  <2>3. UNCHANGED <<minted, now, phase, armed, cur, todo, inFlight, sessionVars>>
    BY DEF BoundaryInterrupt
  <2>4. /\ pc' \in {"interrupting", "answered"}
        /\ answer' \in {"none", "busy", "unavailable", "admitted", "thrown"}
    BY <1>1 DEF BoundaryInterrupt, Answers, ControlOK
  <2> QED
    BY <1>1, <2>2, <2>3, <2>4 DEF ControlOK, sessionVars
<1>5. UNCHANGED <<minted, woke, voided>>
  BY DEF BoundaryInterrupt
<1>6. CASE UNCHANGED asked
  <2>1. Holds(mem') /\ Holds(disk')
    BY <1>1, <1>2, <1>3, <1>6 DEF storeVars, Committed, WriteFails
  <2> QED
    BY <1>4, <1>5, <1>6, <2>1, Quiet DEF historyVars
<1>7. CASE MayAdmit(mem, cur, now) /\ Committed(marked) /\ asked' = Append(asked, w)
  <2>1. /\ w \in Wake /\ w.rid \in ReminderId /\ w.rid = mem.ev[cur].rid
        /\ w.rev = mem.ev[cur].rev
        /\ mem.rem[w.rid].rev = w.rev /\ mem.rem[w.rid].state = "active"
    BY <1>1 DEF WakeOf, Wake, MayInterrupt, Current, Store, Event
  <2>2. /\ asked \in Seq(Wake)
        /\ RecordsSound(mem, minted, voided) /\ EventsSound(mem, minted) /\ EventsDistinct(mem)
        /\ \A i \in DOMAIN asked : AskedSound(mem, minted, asked[i])
    BY <1>1 DEF Holds, Good, Sound
  <2>3. /\ marked.rem = mem.rem
        /\ \A e \in EventId : WakeOf(marked, e) = WakeOf(mem, e)
        /\ marked.ev[cur].intr = "requested"
    BY <1>1 DEF InterruptRequested, Admitting, WakeOf, Store, Event
  <2>4. \A e \in EventId : WakeOf(mem, e) = w => e = cur
    BY <1>1, <2>2 DEF EventsDistinct, MayInterrupt
  <2>5. AskedSound(marked, minted, w)
    <3>1. w.rid \in minted
      BY <2>1, <2>2 DEF RecordsSound
    <3>2. mem.rem[w.rid].rev \in Nat
      BY <1>1, <2>1 DEF Store, Record
    <3>3. \A e \in EventId : WakeOf(marked, e) = w => marked.ev[e].intr # "none"
      BY <2>3, <2>4
    <3>4. WakeOf(marked, cur) = w
      BY <1>1, <2>3
    <3> HIDE DEF marked, w
    <3> QED
      BY <1>1, <2>1, <2>3, <3>1, <3>2, <3>3, <3>4 DEF AskedSound
  <2>6. Good(marked, minted, woke, asked', voided)
    BY <1>3, <1>7, <2>1, <2>5, GoodAsked DEF Holds
  <2>7. \A i \in DOMAIN asked : asked[i] # w
    BY <1>1, <2>2 DEF AskedSound, MayInterrupt
  <2>8. InterruptedOnce'
    <3> HIDE DEF w
    <3>1. InterruptedOnce
      BY DEF IInv
    <3>2. /\ Len(asked') = Len(asked) + 1 /\ asked'[Len(asked) + 1] = w
          /\ \A i \in 1..Len(asked) : asked'[i] = asked[i]
          /\ DOMAIN asked' = 1..(Len(asked) + 1) /\ DOMAIN asked = 1..Len(asked)
          /\ Len(asked) \in Nat
      BY <1>7, <2>1, <2>2
    <3> QED
      BY <2>7, <3>1, <3>2 DEF InterruptedOnce
  <2>9. mem' = marked /\ disk' = marked
    BY <1>7 DEF Committed
  <2>10. Holds(mem)' /\ Holds(disk)'
    BY <1>5, <2>6, <2>9 DEF Holds
  <2>11. WokenOnce'
    BY <1>5 DEF IInv, WokenOnce
  <2> QED
    BY <1>4, <2>8, <2>10, <2>11 DEF IInv
<1> QED
  BY <1>2, <1>6, <1>7

(* The model sees a wake only after its event is dispatched on disk, and   *)
(* only while the event's revision is the record's and active.             *)
LEMMA ReleaseStep ==
    ASSUME IInv, NEW e \in EventId, Release(e)
    PROVE  /\ IInv'
           /\ woke' # woke =>
                woke'[Len(woke')].rev > voided[woke'[Len(woke')].rid]
<1> USE StoreAssumption, ReminderAssumption
<1> DEFINE done == Dispatched(mem, e)
           w    == WakeOf(mem, e)
<1>1. mem \in Store /\ Holds(mem) /\ Holds(disk) /\ ControlOK
  BY DEF IInv, Holds, Good
<1>2. \/ UNCHANGED <<storeVars, woke>>
      \/ /\ mem.ev[e].state = "admitting" /\ ~Current(mem, e)
         /\ UNCHANGED woke /\ Try(Invalidated(mem, e))
      \/ /\ mem.ev[e].state = "admitting" /\ Current(mem, e)
         /\ UNCHANGED woke /\ Try(ExpiredAtRelease(mem, e))
      \/ /\ mem.ev[e].state = "admitting" /\ Current(mem, e)
         /\ UNCHANGED woke /\ WriteFails(done)
      \/ /\ mem.ev[e].state = "admitting" /\ Current(mem, e)
         /\ Committed(done) /\ woke' = Append(woke, w)
  BY DEF Release
<1>3. ControlOK'
  <2>1. mishaps' = mishaps \/ Mishap
    BY <1>2, Zenon DEF storeVars, Try, Committed, WriteFails
  <2>2. mishaps' \in Nat
    BY <1>1, <2>1 DEF ControlOK, Mishap
  <2>3. UNCHANGED <<minted, now, managerVars, online, turn, waiting>>
    BY DEF Release
  <2>4. prompt' \in [EventId -> {"none", "queued", "running", "done"}]
    BY <1>1 DEF Release, ControlOK
  <2> QED
    BY <1>1, <2>2, <2>3, <2>4 DEF ControlOK, managerVars
<1>4. UNCHANGED <<minted, asked, voided>>
  BY DEF Release
<1>5. CASE UNCHANGED woke
  <2>1. mem.ev[e].state = "admitting" /\ ~Current(mem, e) => Holds(Invalidated(mem, e))
    BY <1>1, InvalidatedGood DEF Holds
  <2>2. mem.ev[e].state = "admitting" /\ Current(mem, e) =>
          Holds(ExpiredAtRelease(mem, e)) /\ Holds(done)
    BY <1>1, LateGood, DispatchedGood DEF Holds
  <2> HIDE DEF done, w
  <2>3. \/ UNCHANGED storeVars
        \/ mem.ev[e].state = "admitting" /\ ~Current(mem, e) /\ Try(Invalidated(mem, e))
        \/ mem.ev[e].state = "admitting" /\ Current(mem, e) /\ Try(ExpiredAtRelease(mem, e))
        \/ mem.ev[e].state = "admitting" /\ Current(mem, e) /\ Try(done)
    BY <1>2, Zenon DEF storeVars, Try
  <2>4. Holds(mem') /\ Holds(disk')
    BY <1>1, <2>1, <2>2, <2>3 DEF storeVars, Try, Committed, WriteFails
  <2>5. IInv'
    BY <1>3, <1>4, <1>5, <2>4, Quiet DEF historyVars
  <2> QED
    BY <1>5, <2>5
<1>6. CASE /\ mem.ev[e].state = "admitting" /\ Current(mem, e)
           /\ Committed(done) /\ woke' = Append(woke, w)
  <2>1. /\ w \in Wake /\ w.rid \in ReminderId /\ w.rid = mem.ev[e].rid
        /\ w.rev = mem.ev[e].rev
        /\ mem.rem[w.rid].rev = w.rev /\ mem.rem[w.rid].state = "active"
    BY <1>1, <1>6 DEF WakeOf, Wake, Current, Store, Event
  <2>2. /\ woke \in Seq(Wake)
        /\ RecordsSound(mem, minted, voided) /\ EventsSound(mem, minted) /\ EventsDistinct(mem)
        /\ \A i \in DOMAIN woke : SeenSound(mem, minted, woke[i])
    BY <1>1 DEF Holds, Good, Sound
  <2>3. /\ \A x \in EventId : WakeOf(done, x) = WakeOf(mem, x)
        /\ done.ev[e].state = "dispatched"
        /\ done.rem[w.rid].state = "delivered" /\ done.rem[w.rid].rev = mem.rem[w.rid].rev
    BY <1>1, <2>1 DEF Dispatched, WakeOf, Store, Event, Record
  <2>4. \A x \in EventId : WakeOf(mem, x) = w => x = e
    BY <1>6, <2>2 DEF EventsDistinct
  <2>5. SeenSound(done, minted, w)
    <3>1. w.rid \in minted /\ mem.rem[w.rid].rev \in Nat
      BY <1>1, <2>1, <2>2 DEF RecordsSound, Store, Record
    <3> HIDE DEF done, w
    <3> QED
      BY <2>1, <2>3, <2>4, <3>1 DEF SeenSound
  <2>6. Good(done, minted, woke', asked, voided)
    <3>1. Good(done, minted, woke, asked, voided)
      BY <1>1, <1>6, DispatchedGood DEF Holds
    <3> QED
      BY <1>6, <2>1, <2>5, <3>1, GoodSeen
  <2>7. \A i \in DOMAIN woke : woke[i] # w
    <3>1. mem.rem[w.rid].rev \in Nat
      BY <1>1, <2>1 DEF Store, Record
    <3> HIDE DEF w
    <3> QED
      BY <2>1, <2>2, <3>1 DEF SeenSound
  <2>8. /\ Len(woke') = Len(woke) + 1 /\ woke'[Len(woke) + 1] = w
        /\ \A i \in 1..Len(woke) : woke'[i] = woke[i]
        /\ DOMAIN woke' = 1..(Len(woke) + 1) /\ DOMAIN woke = 1..Len(woke)
        /\ Len(woke) \in Nat
    <3> HIDE DEF w
    <3> QED
      BY <1>6, <2>1, <2>2
  <2>9. WokenOnce'
    <3>1. WokenOnce
      BY DEF IInv
    <3> HIDE DEF w
    <3> QED
      BY <2>7, <2>8, <3>1 DEF WokenOnce
  <2>10. Holds(mem)' /\ Holds(disk)'
    <3>1. mem' = done /\ disk' = done
      BY <1>6 DEF Committed
    <3> QED
      BY <1>4, <2>6, <3>1 DEF Holds
  <2>11. InterruptedOnce'
    BY <1>4 DEF IInv, InterruptedOnce
  <2>12. IInv'
    BY <1>3, <2>9, <2>10, <2>11 DEF IInv
  <2>13. woke'[Len(woke')].rev > voided[woke'[Len(woke')].rid]
    <3>1. mem.rem[w.rid].rev > voided[w.rid]
      BY <2>1, <2>2 DEF RecordsSound
    <3> HIDE DEF w
    <3> QED
      BY <2>1, <2>8, <3>1
  <2> QED
    BY <2>12, <2>13
<1> QED
  BY <1>2, <1>5, <1>6 DEF storeVars

(* The agent is told that a wake is void only by a write that succeeded.   *)
LEMMA UpdateStep ==
    ASSUME IInv, NEW r \in ReminderId, NEW due \in DueTime, NEW urgent \in BOOLEAN,
           Update(r, due, urgent)
    PROVE  IInv'
<1> USE StoreAssumption, ReminderAssumption
<1> DEFINE s == Updated(mem, r, due, urgent)
           told == [voided EXCEPT ![r] = mem.rem[r].rev]
<1>1. mem \in Store /\ Holds(mem) /\ Holds(disk) /\ ControlOK
  BY DEF IInv, Holds, Good
<1>2. Good(s, minted, woke, asked, told) /\ Holds(s)
  BY <1>1, UpdatedGood, UpdatedUntold DEF Update, Holds
<1> HIDE DEF s, told
<1>3. \/ Committed(s) /\ UNCHANGED inFlight /\ Changed /\ voided' = told
      \/ WriteFails(s) /\ UNCHANGED <<inFlight, armed, voided>>
  BY DEF Update, s, told
<1>4. UNCHANGED <<minted, woke, asked>>
  BY DEF Update
<1>5. ControlOK'
  <2>1. armed' \in BOOLEAN
    BY <1>1, <1>3, ChangedArmed, Zenon DEF ControlOK
  <2>2. mishaps' \in Nat
    BY <1>1, <1>3 DEF ControlOK, Committed, WriteFails, Mishap
  <2>3. UNCHANGED <<minted, now, phase, pc, cur, todo, answer, inFlight, online, turn, waiting, prompt>>
    BY DEF Update, sessionVars
  <2> QED
    BY <1>1, <2>1, <2>2, <2>3 DEF ControlOK
<1>6. Holds(mem)' /\ Holds(disk)'
  BY <1>1, <1>2, <1>3, <1>4 DEF Committed, WriteFails, Holds
<1> QED
  BY <1>4, <1>5, <1>6 DEF IInv, WokenOnce, InterruptedOnce

LEMMA CancelStep ==
    ASSUME IInv, NEW r \in ReminderId, Cancel(r)
    PROVE  IInv'
<1> USE StoreAssumption, ReminderAssumption
<1> DEFINE c == Cancelled(mem, r)
           told == [voided EXCEPT ![r] = mem.rem[r].rev]
<1>1. mem \in Store /\ Holds(mem) /\ Holds(disk) /\ ControlOK
  BY DEF IInv, Holds, Good
<1>2. Good(c, minted, woke, asked, told) /\ Holds(c)
  BY <1>1, CancelledGood, CancelledUntold DEF Cancel, Holds
<1> HIDE DEF c, told
<1>3. \A s \in Pruned(c) : Good(s, minted, woke, asked, told) /\ Holds(s)
  BY <1>2, PrunedGood DEF Holds
<1>4. \E s \in Pruned(c) :
        \/ Committed(s) /\ UNCHANGED inFlight /\ Changed /\ voided' = told
        \/ WriteFails(s) /\ UNCHANGED <<inFlight, armed, voided>>
  BY DEF Cancel, c, told
<1>5. UNCHANGED <<minted, woke, asked>>
  BY DEF Cancel
<1>6. ControlOK'
  <2>1. armed' \in BOOLEAN
    BY <1>1, <1>4, ChangedArmed, Zenon DEF ControlOK
  <2>2. mishaps' \in Nat
    BY <1>1, <1>4 DEF ControlOK, Committed, WriteFails, Mishap
  <2>3. UNCHANGED <<minted, now, phase, pc, cur, todo, answer, inFlight, online, turn, waiting, prompt>>
    BY <1>4 DEF Cancel, sessionVars
  <2> QED
    BY <1>1, <2>1, <2>2, <2>3 DEF ControlOK
<1>7. Holds(mem)' /\ Holds(disk)'
  BY <1>1, <1>3, <1>4, <1>5 DEF Committed, WriteFails, Holds
<1> QED
  BY <1>5, <1>6, <1>7 DEF IInv, WokenOnce, InterruptedOnce

LEMMA ReloadStep ==
    ASSUME IInv, NEW spent \in Nat, Reload(spent)
    PROVE  IInv'
<1> USE StoreAssumption, ReminderAssumption
<1>1. Holds(Recovered(disk))
  BY RecoveredGood DEF IInv, Holds
<1>2. Holds(mem') /\ Holds(disk')
  BY <1>1 DEF IInv, Reload
<1>3. ControlOK'
  <2>1. mishaps' \in Nat
    BY DEF IInv, ControlOK, Reload
  <2>2. armed' = FALSE /\ online' = TRUE /\ waiting' = FALSE
    BY DEF Reload
  <2>3. armed' \in BOOLEAN /\ online' \in BOOLEAN /\ waiting' \in BOOLEAN
    BY <2>2, Zenon
  <2>4. /\ phase' \in {"bound", "down"} /\ pc' = "rest" /\ cur' = NoId /\ todo' = {}
        /\ answer' = "none" /\ inFlight' = {} /\ turn' = "none"
        /\ prompt' = [e \in EventId |-> "none"]
        /\ UNCHANGED <<minted, now>>
    BY DEF Reload
  <2> QED
    BY <2>1, <2>3, <2>4 DEF IInv, ControlOK
<1>4. UNCHANGED <<minted, historyVars>>
  BY DEF Reload
<1> QED
  BY <1>2, <1>3, <1>4, Quiet

LEMMA StutterStep == ASSUME IInv, UNCHANGED vars PROVE IInv'
BY DEF IInv, ControlOK, Holds, WokenOnce, InterruptedOnce,
       vars, storeVars, managerVars, sessionVars, historyVars

-----------------------------------------------------------------------------
(* Every step keeps the invariant, and only the release of a wake adds to  *)
(* what the model has seen.                                                *)
LEMMA NextStep ==
    ASSUME IInv, [Next]_vars
    PROVE  /\ IInv'
           /\ woke' # woke =>
                woke'[Len(woke')].rev > voided[woke'[Len(woke')].rid]
<1>1. CASE Dispatcher
  <2>1. UNCHANGED woke
    BY <1>1 DEF Dispatcher, Start, Stop, Poll, BoundaryUnavailable, AdmissionRetired,
       BoundaryIdle, BoundaryBusy, BoundaryInterrupt, InterruptSettles, Boundary2,
       AdmitReturns, historyVars
  <2>2. IInv'
    BY <1>1, StartStep, StopStep, PollStep, BoundaryUnavailableStep, AdmissionRetiredStep,
       BoundaryIdleStep, BoundaryBusyStep, BoundaryInterruptStep, InterruptSettlesStep,
       Boundary2Step, AdmitReturnsStep
    DEF Dispatcher
  <2> QED
    BY <2>1, <2>2
<1>2. CASE Session
  <2>1. ASSUME NEW e \in EventId, Release(e)
        PROVE  /\ IInv'
               /\ woke' # woke =>
                    woke'[Len(woke')].rev > voided[woke'[Len(woke')].rid]
    BY <2>1, ReleaseStep
  <2>2. ASSUME NEW e \in EventId, PromptEnds(e) \/ Settle(e) PROVE IInv' /\ UNCHANGED woke
    BY <2>2, PromptEndsStep, SettleStep DEF PromptEnds, Settle, historyVars
  <2>3. ASSUME OtherArrives \/ OtherEnds \/ SessionDies PROVE IInv' /\ UNCHANGED woke
    BY <2>3, OtherArrivesStep, OtherEndsStep, SessionDiesStep
    DEF OtherArrives, OtherEnds, SessionDies, historyVars
  <2> QED
    BY <1>2, <2>1, <2>2, <2>3 DEF Session
<1>3. CASE Agent
  <2>1. ASSUME NEW r \in ReminderId, NEW due \in DueTime, NEW urgent \in BOOLEAN,
               Create(r, due, urgent) \/ Update(r, due, urgent)
        PROVE  IInv' /\ UNCHANGED woke
    BY <2>1, CreateStep, UpdateStep DEF Create, Update, historyVars
  <2>2. ASSUME NEW r \in ReminderId, Cancel(r) PROVE IInv' /\ UNCHANGED woke
    BY <2>2, CancelStep DEF Cancel
  <2>3. ASSUME NEW e \in EventId, Ack(e) PROVE IInv' /\ UNCHANGED woke
    BY <2>3, AckStep DEF Ack, historyVars
  <2> QED
    BY <1>3, <2>1, <2>2, <2>3 DEF Agent
<1>4. CASE Environment
  <2>1. ASSUME Tick \/ ClockBack PROVE IInv' /\ UNCHANGED woke
    BY <2>1, TickStep, ClockBackStep DEF Tick, ClockBack, historyVars
  <2>2. ASSUME NextAttempt \/ Crash PROVE IInv' /\ UNCHANGED woke
    <3>1. PICK spent \in Nat : Reload(spent)
      BY <2>2 DEF NextAttempt, Crash
    <3> QED
      BY <3>1, ReloadStep DEF Reload, historyVars
  <2> QED
    BY <1>4, <2>1, <2>2 DEF Environment
<1>5. CASE UNCHANGED vars
  BY <1>5, StutterStep DEF vars, historyVars
<1> QED
  BY <1>1, <1>2, <1>3, <1>4, <1>5 DEF Next

THEOREM Invariance == Spec => []IInv
<1>1. IInv /\ [Next]_vars => IInv'
  BY NextStep
<1> QED
  BY <1>1, InitIInv, PTL DEF Spec

(* Types, of the store in memory and in the file and of all else.          *)
THEOREM Typing == Spec => []TypeOK
<1>1. IInv => TypeOK
  BY DEF IInv, Holds, Good, TypeOK
<1> QED
  BY <1>1, Invariance, PTL

(* Whatever the process can find, in memory or on disk, is a sound store:  *)
(* its events belong to its records, no two events share a revision, and a *)
(* revision the model has seen or that has spent its interruption says so. *)
THEOREM Soundness == Spec => []StoresSound
<1>1. IInv => StoresSound
  BY DEF IInv, Holds, Good, StoresSound
<1> QED
  BY <1>1, Invariance, PTL

(* claimDispatch (store.ts) hands a revision to the model at most once,    *)
(* across crashes, failed writes, retries and restarts.                    *)
THEOREM AtMostOneWake == Spec => []WokenOnce
<1>1. IInv => WokenOnce
  BY DEF IInv
<1> QED
  BY <1>1, Invariance, PTL

(* tryUrgentReminder (arbiter.ts) stops the agent's turn at most once for  *)
(* one revision, across crashes, failed writes, retries and restarts.      *)
THEOREM AtMostOneInterruption == Spec => []InterruptedOnce
<1>1. IInv => InterruptedOnce
  BY DEF IInv
<1> QED
  BY <1>1, Invariance, PTL

(* What the model has seen is in no state the file of which a later        *)
(* process would admit again.                                              *)
THEOREM SeenStaysHeld == Spec => []SeenIsHeld
<1>1. IInv => SeenIsHeld
  BY DEF IInv, Holds, Good, Sound, SeenSound, SeenIsHeld
<1> QED
  BY <1>1, Invariance, PTL

(* A revision has one event, in memory and in the file.                    *)
THEOREM OneEvent == Spec => []OneEventPerRevision
<1>1. IInv => OneEventPerRevision
  BY DEF IInv, Holds, Good, Sound, EventsDistinct, OneEventPerRevision
<1> QED
  BY <1>1, Invariance, PTL

(* A revision of a reminder wakes the agent at most once and interrupts at *)
(* most once, has one event, and is not admitted again after its wake.     *)
THEOREM AtMostOnce == Spec => []OncePerRevision
<1>1. WokenOnce /\ InterruptedOnce /\ OneEventPerRevision /\ SeenIsHeld => OncePerRevision
  BY DEF OncePerRevision
<1> QED
  BY <1>1, AtMostOneWake, AtMostOneInterruption, OneEvent, SeenStaysHeld, PTL

(* A wake the agent was told is void is never delivered afterwards.        *)
THEOREM VoidedStaysVoid == Spec => VoidedNeverWakes
<1>1. IInv /\ [Next]_vars =>
        [woke' # woke => woke'[Len(woke')].rev > voided[woke'[Len(woke')].rid]]_vars
  BY NextStep
<1> QED
  BY <1>1, Invariance, PTL DEF Spec, VoidedNeverWakes

-----------------------------------------------------------------------------
(* Lost wake-ups.  A manager that rests without a timer has nothing to     *)
(* wait for, and an event the process owns is in a prompt, or is the one   *)
(* the poll is about to ask for.                                           *)
Timed == phase = "started" /\ pc = "rest" /\ ~armed => ~HasWork(mem, inFlight)

OwnedIsPrompted ==
    \A e \in inFlight : prompt[e] # "none" \/ (pc # "rest" /\ cur = e)

AdmittedIsPrompted == pc = "answered" /\ answer = "admitted" => prompt[cur] # "none"

Attended == Timed /\ OwnedIsPrompted /\ AdmittedIsPrompted

LEMMA InitAttended == Init => Attended
BY DEF Init, Attended, Timed, OwnedIsPrompted, AdmittedIsPrompted

(* The end of a poll and its next admission.                               *)
LEMMA PollEndsAttended ==
    ASSUME NEW delay \in BOOLEAN, NEW live, PollEnds(delay, live), UNCHANGED <<phase, prompt>>,
           \A e \in live : prompt[e] # "none"
    PROVE  Attended'
<1>1. /\ inFlight' = live /\ pc' = "rest"
      /\ armed' = (phase = "started" /\ (delay \/ (phase = "started" /\ HasWork(mem', inFlight'))))
    BY DEF PollEnds, Scheduled
<1>2. Timed'
    BY <1>1, Zenon DEF Timed
<1> QED BY <1>1, <1>2 DEF Attended, OwnedIsPrompted, AdmittedIsPrompted

LEMMA AdmitNextAttended ==
    ASSUME NEW events, NEW live, AdmitNext(events, live), UNCHANGED <<phase, prompt>>,
           \A e \in live : prompt[e] # "none"
    PROVE  Attended'
<1> DEFINE known == {e \in events : mem'.ev[e].state # "none"}
<1>1. CASE phase # "started" \/ known = {}
    BY <1>1, PollEndsAttended DEF AdmitNext
<1>2. CASE ~(phase # "started" \/ known = {})
    <2>1. \E e \in known : /\ pc' = "boundary" /\ cur' = e /\ inFlight' = live \cup {e}
        BY <1>2 DEF AdmitNext
    <2> QED BY <2>1 DEF Attended, Timed, OwnedIsPrompted, AdmittedIsPrompted
<1> QED BY <1>1, <1>2

LEMMA PollAttended == ASSUME Attended, Poll PROVE Attended'
<1>1. /\ pc = "rest" /\ UNCHANGED <<phase, prompt>>
      /\ \/ \E events : AdmitNext(events, inFlight)
         \/ PollEnds(TRUE, inFlight)
    BY DEF Poll, sessionVars
<1>2. \A e \in inFlight : prompt[e] # "none"
    BY <1>1 DEF Attended, OwnedIsPrompted
<1> QED BY <1>1, <1>2, PollEndsAttended, AdmitNextAttended

LEMMA AdmitReturnsAttended == ASSUME Attended, AdmitReturns PROVE Attended'
<1>1. /\ pc = "answered" /\ UNCHANGED <<phase, prompt>>
      /\ \/ answer = "admitted" /\ PollEnds(TRUE, inFlight)
         \/ AdmitNext(todo, inFlight \ {cur})
         \/ PollEnds(TRUE, inFlight \ {cur})
    BY DEF AdmitReturns, sessionVars
<1>2. \A e \in inFlight \ {cur} : prompt[e] # "none"
    BY DEF Attended, OwnedIsPrompted
<1>3. answer = "admitted" => \A e \in inFlight : prompt[e] # "none"
    BY <1>1, <1>2 DEF Attended, AdmittedIsPrompted
<1> QED BY <1>1, <1>2, <1>3, PollEndsAttended, AdmitNextAttended

(* The poll waits for an answer: no prompt is lost, and nobody rests.      *)
LEMMA WaitingAttended ==
    ASSUME Attended, pc # "rest", pc' # "rest", UNCHANGED <<cur, inFlight>>,
           \A e \in EventId : prompt[e] # "none" => prompt'[e] # "none",
           inFlight \subseteq EventId,
           pc' = "answered" /\ answer' = "admitted" => prompt'[cur] # "none"
    PROVE  Attended'
BY DEF Attended, Timed, OwnedIsPrompted, AdmittedIsPrompted

LEMMA BoundaryAttended ==
    ASSUME IInv, Attended,
           \/ BoundaryUnavailable \/ AdmissionRetired \/ BoundaryIdle \/ BoundaryBusy
           \/ BoundaryInterrupt \/ InterruptSettles \/ Boundary2
    PROVE  Attended'
<1>1. inFlight \subseteq EventId /\ cur \in EventId
    BY DEF IInv, ControlOK, BoundaryUnavailable, AdmissionRetired, BoundaryIdle, BoundaryBusy,
           BoundaryInterrupt, InterruptSettles, Boundary2
<1>2. prompt \in [EventId -> {"none", "queued", "running", "done"}]
    BY DEF IInv, ControlOK
<1>3. CASE BoundaryUnavailable \/ AdmissionRetired \/ BoundaryBusy
    BY <1>1, <1>3, WaitingAttended
    DEF BoundaryUnavailable, AdmissionRetired, BoundaryBusy, Answers, sessionVars
<1>4. CASE BoundaryInterrupt \/ InterruptSettles
    BY <1>1, <1>4, WaitingAttended
    DEF BoundaryInterrupt, InterruptSettles, Answers, sessionVars
<1>5. CASE BoundaryIdle \/ Boundary2
    <2>1. /\ pc # "rest" /\ pc' = "answered" /\ UNCHANGED <<cur, inFlight>>
          /\ \/ answer' # "admitted" /\ prompt' = prompt
             \/ prompt' = [prompt EXCEPT ![cur] = "queued"]
        BY <1>5 DEF BoundaryIdle, Boundary2, Answers, Queued
    <2> QED BY <1>1, <1>2, <2>1, WaitingAttended
<1> QED BY <1>3, <1>4, <1>5

(* The turn boundary: the store moves no active reminder that has work to  *)
(* one that has more, and every prompt stays until its completion is told. *)
LEMMA ReleaseAttended == ASSUME IInv, Attended, NEW e \in EventId, Release(e) PROVE Attended'
<1>1. /\ mem \in Store /\ EventsSound(mem, minted) /\ inFlight \subseteq EventId
      /\ prompt \in [EventId -> {"none", "queued", "running", "done"}]
    BY DEF IInv, Holds, Good, Sound, ControlOK
<1>2. /\ UNCHANGED <<phase, pc, armed, cur, answer, inFlight>>
      /\ prompt[e] # "none"
      /\ prompt' \in {[prompt EXCEPT ![e] = "done"], [prompt EXCEPT ![e] = "running"]}
      /\ \/ mem' = mem
         \/ /\ mem.ev[e].state = "admitting"
            /\ \/ ~Current(mem, e) /\ mem' = Invalidated(mem, e)
               \/ Current(mem, e) /\ mem' = ExpiredAtRelease(mem, e)
               \/ Current(mem, e) /\ mem' = Dispatched(mem, e)
    BY DEF Release, storeVars, managerVars, Try, Committed, WriteFails
<1>3. \A f \in EventId : prompt'[f] # "none" <=> prompt[f] # "none"
    BY <1>1, <1>2
<1>4. HasWork(mem', inFlight) => HasWork(mem, inFlight)
    <2>1. CASE mem' = mem
        BY <2>1
    <2>2. CASE ~Current(mem, e) /\ mem' = Invalidated(mem, e) /\ mem.ev[e].state = "admitting"
        <3>1. mem'.rem = mem.rem /\ mem.ev[e].rid \in ReminderId
            BY <1>1, <2>2 DEF Invalidated, EventsSound, Store
        <3>2. /\ \A f \in EventId : f # e => mem'.ev[f] = mem.ev[f]
              /\ mem'.ev[e].rid = mem.ev[e].rid /\ mem'.ev[e].rev = mem.ev[e].rev
            BY <1>1, <2>2 DEF Invalidated, Store, Event
        <3>3. \A r \in ReminderId : mem.rem[r].state = "active" =>
                /\ e \notin OpenEventsOf(mem, r)
                /\ OpenEventsOf(mem', r) = OpenEventsOf(mem, r)
            BY <2>2, <3>1, <3>2 DEF OpenEventsOf, Current
        <3>4. \A r \in ReminderId : mem.rem[r].state = "active" =>
                \A f \in OpenEventsOf(mem', r) : f \in OpenEventsOf(mem, r) /\ mem'.ev[f] = mem.ev[f]
            BY <3>2, <3>3 DEF OpenEventsOf
        <3> QED BY <3>1, <3>3, <3>4 DEF HasWork
    <2>3. CASE Current(mem, e) /\ mem' \in {ExpiredAtRelease(mem, e), Dispatched(mem, e)}
        <3> DEFINE q == mem.ev[e].rid
        <3>1. q \in ReminderId
            BY <2>3 DEF Current
        <3>2. /\ mem'.rem[q].state # "active"
              /\ \A r \in ReminderId : r # q => mem'.rem[r] = mem.rem[r]
            BY <1>1, <2>3, <3>1 DEF ExpiredAtRelease, Dispatched, Store, Record
        <3>3. /\ \A f \in EventId : f # e => mem'.ev[f] = mem.ev[f]
              /\ mem'.ev[e].rid = q
            BY <1>1, <2>3 DEF ExpiredAtRelease, Dispatched, Store, Event
        <3>4. \A r \in ReminderId : r # q =>
                OpenEventsOf(mem', r) = OpenEventsOf(mem, r) /\ e \notin OpenEventsOf(mem, r)
            BY <3>2, <3>3 DEF OpenEventsOf
        <3>5. \A r \in ReminderId : r # q =>
                \A f \in OpenEventsOf(mem', r) : f \in OpenEventsOf(mem, r) /\ mem'.ev[f] = mem.ev[f]
            BY <3>3, <3>4 DEF OpenEventsOf
        <3> HIDE DEF q
        <3> QED BY <3>1, <3>2, <3>4, <3>5 DEF HasWork
    <2> QED BY <1>2, <2>1, <2>2, <2>3
<1>5. Timed'
    BY <1>2, <1>4 DEF Attended, Timed
<1> QED BY <1>1, <1>2, <1>3, <1>5 DEF Attended, OwnedIsPrompted, AdmittedIsPrompted, IInv, ControlOK

(* A change of the store or of what is owned is heard, or a poll runs.     *)
LEMMA ChangedTimed == ASSUME Timed, Changed, UNCHANGED <<phase, pc>> PROVE Timed'
<1>1. CASE phase = "started" /\ pc = "rest"
    <2>1. armed' = (phase = "started" /\ HasWork(mem', inFlight'))
        BY <1>1 DEF Changed, Scheduled
    <2> QED BY <1>1, <2>1, Zenon DEF Timed
<1>2. CASE ~(phase = "started" /\ pc = "rest")
    BY <1>2 DEF Timed
<1> QED BY <1>1, <1>2

LEMMA SettleAttended == ASSUME IInv, Attended, NEW e \in EventId, Settle(e) PROVE Attended'
<1>1. /\ UNCHANGED <<phase, pc, cur, answer>> /\ inFlight' = inFlight \ {e}
      /\ prompt' = [prompt EXCEPT ![e] = "none"] /\ ~(pc = "answered" /\ cur = e) /\ Changed
    BY DEF Settle
<1>2. Timed'
    BY <1>1, ChangedTimed DEF Attended
<1>3. /\ prompt \in [EventId -> {"none", "queued", "running", "done"}]
      /\ inFlight \subseteq EventId /\ (pc # "rest" => cur \in EventId)
    BY DEF IInv, ControlOK
<1> QED BY <1>1, <1>2, <1>3 DEF Attended, OwnedIsPrompted, AdmittedIsPrompted

LEMMA AgentAttended == ASSUME Attended, Agent PROVE Attended'
<1>1. /\ UNCHANGED <<phase, pc, cur, answer, inFlight, prompt>>
      /\ Changed \/ UNCHANGED <<mem, armed>>
    BY DEF Agent, Create, Update, Cancel, Ack, WriteFails, sessionVars
<1>2. Timed'
    BY <1>1, ChangedTimed DEF Attended, Timed
<1> QED BY <1>1, <1>2 DEF Attended, OwnedIsPrompted, AdmittedIsPrompted

LEMMA AsideAttended ==
    ASSUME IInv, Attended, UNCHANGED <<mem, pc, cur, answer, inFlight>>,
           \A e \in EventId : prompt[e] # "none" => prompt'[e] # "none",
           (phase' = phase /\ armed' = armed) \/ armed' \/ phase' # "started"
    PROVE  Attended'
BY DEF IInv, ControlOK, Attended, Timed, OwnedIsPrompted, AdmittedIsPrompted

LEMMA NextAttended == ASSUME IInv, Attended, [Next]_vars PROVE Attended'
<1>1. CASE Start \/ Stop
    BY <1>1, AsideAttended DEF Start, Stop, storeVars, sessionVars
<1>2. CASE Poll \/ AdmitReturns
    BY <1>2, PollAttended, AdmitReturnsAttended
<1>3. CASE \/ BoundaryUnavailable \/ AdmissionRetired \/ BoundaryIdle \/ BoundaryBusy
           \/ BoundaryInterrupt \/ InterruptSettles \/ Boundary2
    BY <1>3, BoundaryAttended
<1>4. ASSUME NEW e \in EventId, Release(e) \/ Settle(e) PROVE Attended'
    BY <1>4, ReleaseAttended, SettleAttended
<1>5. ASSUME NEW e \in EventId, PromptEnds(e) PROVE Attended'
    <2>1. \A f \in EventId : prompt[f] # "none" => prompt'[f] # "none"
        BY <1>5 DEF PromptEnds, IInv, ControlOK
    <2> QED BY <1>5, <2>1, AsideAttended DEF PromptEnds, storeVars, managerVars
<1>6. CASE OtherArrives \/ OtherEnds \/ SessionDies \/ Tick \/ ClockBack
    BY <1>6, AsideAttended
    DEF OtherArrives, OtherEnds, SessionDies, Tick, ClockBack, storeVars, managerVars, sessionVars
<1>7. CASE Agent
    BY <1>7, AgentAttended
<1>8. CASE NextAttempt \/ Crash
    BY <1>8 DEF NextAttempt, Crash, Reload, Attended, Timed, OwnedIsPrompted, AdmittedIsPrompted
<1>9. CASE UNCHANGED vars
    BY <1>9, AsideAttended DEF vars, storeVars, managerVars, sessionVars
<1> QED
    BY <1>1, <1>2, <1>3, <1>4, <1>5, <1>6, <1>7, <1>8, <1>9
    DEF Next, Dispatcher, Session, Environment

(* No wake-up is lost: when the manager rests without a timer (schedule    *)
(* and changed of manager.ts), every active reminder has its wake in a     *)
(* prompt whose completion is still to be told.                            *)
THEOREM NobodyForgotten == Spec => []NoLostWakeup
<1>1. IInv /\ Attended => NoLostWakeup
    <2> SUFFICES ASSUME IInv, Attended, phase = "started", pc = "rest", ~armed,
                        NEW r \in ReminderId, mem.rem[r].state = "active"
                 PROVE  \E e \in OpenEventsOf(mem, r) : e \in inFlight /\ prompt[e] # "none"
        BY DEF NoLostWakeup
    <2>1. ~HasWork(mem, inFlight)
        BY DEF Attended, Timed
    <2>2. PICK e \in OpenEventsOf(mem, r) : TRUE
        BY <2>1 DEF HasWork
    <2>3. e \in inFlight \/ mem.ev[e].state \notin {"pending", "admitting"}
        BY <2>1, <2>2 DEF HasWork
    <2>4. e \in EventId /\ Current(mem, e) /\ mem.ev[e].state # "none"
        BY <2>2 DEF OpenEventsOf, OpenEvent, Current
    <2>5. mem.ev[e].state \in {"pending", "admitting"}
        BY <2>4 DEF IInv, Holds, Good, Sound, EventsSound
    <2> QED BY <2>2, <2>3, <2>5 DEF Attended, OwnedIsPrompted
<1>2. Spec => []Attended
    BY InitAttended, NextAttended, Invariance, PTL DEF Spec
<1> QED BY <1>1, <1>2, Invariance, PTL

-----------------------------------------------------------------------------
(* Delivered reminders.  A change of the store neither ends nor begins the *)
(* delivered state of a record it is not about.                            *)
SparedAt(s, t, r) ==
    s.rem[r].state = "delivered" \/ t.rem[r].state = "delivered" => t.rem[r] = s.rem[r]

Spared(s, t) == \A r \in ReminderId : SparedAt(s, t, r)

LEMMA WokenNames ==
    ASSUME IInv, NEW i \in DOMAIN woke
    PROVE  woke[i].rid \in ReminderId /\ woke[i].rev \in Nat
<1>1. woke[i] \in Wake
    BY DEF IInv, Holds, Good
<1> QED BY <1>1 DEF Wake

LEMMA PrunedSpares == ASSUME NEW s, NEW t \in Pruned(s) PROVE Spared(s, t)
<1>1. PICK gone \in SUBSET Prunable(s) : t = Without(s, gone)
    BY DEF Pruned
<1>2. t.rem = [r \in ReminderId |-> IF r \in gone THEN NoRecord ELSE s.rem[r]]
    BY <1>1 DEF Without
<1>3. \A r \in gone : s.rem[r].state \notin OpenRecord
    BY DEF Prunable
<1> QED BY <1>2, <1>3 DEF Spared, SparedAt, OpenRecord, NoRecord

LEMMA SparedOnwards ==
    ASSUME NEW s, NEW t, NEW u, NEW r, SparedAt(s, t, r), SparedAt(t, u, r)
    PROVE  SparedAt(s, u, r)
BY DEF SparedAt

(* What the dispatcher and the release guard write, but the delivery.      *)
LEMMA EventsSpare ==
    ASSUME NEW s \in Store, NEW e \in EventId, NEW retry
    PROVE  /\ Spared(s, Admitting(s, e)) /\ Spared(s, InterruptRequested(s, e))
           /\ Spared(s, InterruptRequested(Admitting(s, e), e))
           /\ Spared(s, InterruptSettled(s, e)) /\ Spared(s, Released(s, e, retry))
           /\ Spared(s, Invalidated(s, e)) /\ Spared(s, Recovered(s))
<1>1. /\ Admitting(s, e).rem = s.rem /\ InterruptRequested(s, e).rem = s.rem
      /\ InterruptRequested(Admitting(s, e), e).rem = s.rem
      /\ InterruptSettled(s, e).rem = s.rem /\ Released(s, e, retry).rem = s.rem
      /\ Invalidated(s, e).rem = s.rem /\ Recovered(s).rem = s.rem
    BY DEF Store, Admitting, InterruptRequested, InterruptSettled, Released, Invalidated, Recovered
<1> QED BY <1>1 DEF Spared, SparedAt

LEMMA LateSpares ==
    ASSUME NEW s \in Store, NEW e \in EventId, Current(s, e)
    PROVE  Spared(s, ExpiredAtRelease(s, e))
BY DEF Store, Record, Current, ExpiredAtRelease, Spared, SparedAt

LEMMA SweepSpares ==
    ASSUME NEW s \in Store, NEW live, NEW own, NEW t \in Nat
    PROVE  LET a == Reclaimed(s, live)
               b == Expired(a, Lapsed(a, live, t))
           IN  Spared(s, WithEvents(b, own))
<1> DEFINE a == Reclaimed(s, live)
           gone == Lapsed(a, live, t)
           b == Expired(a, gone)
<1>1. a.rem = s.rem
    BY DEF Reclaimed
<1>2. \A r \in gone : a.rem[r].state = "active"
    BY DEF Lapsed, Unowned
<1> HIDE DEF a, gone
<1>3. /\ b.rem = [r \in ReminderId |->
                  IF r \in gone THEN [a.rem[r] EXCEPT !.state = "expired"] ELSE a.rem[r]]
      /\ WithEvents(b, own).rem = b.rem
    BY DEF Expired, WithEvents
<1> HIDE DEF b
<1>4. \A r \in ReminderId : SparedAt(s, WithEvents(b, own), r)
    BY <1>1, <1>2, <1>3 DEF SparedAt, Store, Record
<1> QED BY <1>4 DEF Spared, a, b, gone

(* The changes the agent asks for concern the reminder they name.          *)
LEMMA AgentSpares ==
    ASSUME NEW s \in Store, NEW q \in ReminderId, NEW due, NEW urgent, NEW r \in ReminderId
    PROVE  /\ r # q => SparedAt(s, Updated(s, q, due, urgent), r) /\ SparedAt(s, Cancelled(s, q), r)
           /\ s.rem[q].state = "none" => SparedAt(s, Created(s, q, due, urgent), r)
           /\ Updated(s, q, due, urgent).rem[q].state # "delivered"
           /\ Cancelled(s, q).rem[q].state # "delivered"
<1>1. r # q => SparedAt(s, Updated(s, q, due, urgent), r)
    BY DEF Store, Updated, SparedAt
<1>2. r # q => SparedAt(s, Cancelled(s, q), r)
    BY DEF Store, Cancelled, SparedAt
<1>3. s.rem[q].state = "none" => SparedAt(s, Created(s, q, due, urgent), r)
    BY DEF Store, Created, SparedAt
<1>4. Updated(s, q, due, urgent).rem[q].state # "delivered"
    BY DEF Store, Updated
<1>5. Cancelled(s, q).rem[q].state # "delivered"
    BY DEF Store, Record, Cancelled
<1> QED BY <1>1, <1>2, <1>3, <1>4, <1>5

LEMMA AckSpares ==
    ASSUME NEW s \in Store, NEW e \in EventId, s.ev[e].rid \in ReminderId, NEW r \in ReminderId
    PROVE  /\ r # s.ev[e].rid => SparedAt(s, Acknowledged(s, e), r)
           /\ Acknowledged(s, e).rem[s.ev[e].rid].state # "delivered"
BY DEF Store, Record, Acknowledged, SparedAt

-----------------------------------------------------------------------------
(* The file and the memory agree on every wake the model was handed, as    *)
(* long as the file calls it delivered.                                    *)
Filed ==
    \A i \in DOMAIN woke :
        LET r == woke[i].rid
        IN  disk.rem[r].state = "delivered" /\ disk.rem[r].rev = woke[i].rev =>
                mem.rem[r] = disk.rem[r]

Excused(r) ==
    \/ Cancel(r)
    \/ \E due \in DueTime, urgent \in BOOLEAN : Update(r, due, urgent)
    \/ \E e \in EventId : mem.ev[e].rid = r /\ Ack(e)

(* What a step leaves of record r in memory and in the file ...            *)
Agrees(r) ==
    \/ mem'.rem[r] = disk'.rem[r]
    \/ disk'.rem[r].state # "delivered"
    \/ mem'.rem[r] = mem.rem[r] /\ disk'.rem[r] = disk.rem[r]

(* ... and that it does not end its delivery unasked.                      *)
Stays(r) ==
    \/ disk'.rem[r].state = "delivered"
    \/ disk'.rem[r] = disk.rem[r]
    \/ mem.rem[r].state # "delivered"
    \/ Excused(r)

Files == \A r \in ReminderId : Agrees(r) /\ Stays(r)

LEMMA WriteFiles ==
    ASSUME NEW s, NEW r, SparedAt(mem, s, r), Try(s)
    PROVE  Agrees(r) /\ Stays(r)
<1>1. (mem' = s /\ disk' = s) \/ (mem' = mem /\ disk' \in {disk, s})
    BY DEF Try, Committed, WriteFails
<1> QED BY <1>1 DEF SparedAt, Agrees, Stays

(* A change the agent asked for may end the delivery.                      *)
LEMMA AskedFiles ==
    ASSUME NEW s, NEW r, s.rem[r].state # "delivered", Try(s), Excused(r)
    PROVE  Agrees(r) /\ Stays(r)
<1>1. (mem' = s /\ disk' = s) \/ (mem' = mem /\ disk' \in {disk, s})
    BY DEF Try, Committed, WriteFails
<1> QED BY <1>1 DEF Agrees, Stays

LEMMA QuietFiles ==
    ASSUME UNCHANGED <<mem, disk>> \/ (mem' = mem /\ disk' \in {disk, mem})
    PROVE  Files
BY DEF Files, Agrees, Stays

LEMMA TryFiles == ASSUME NEW s, Spared(mem, s), Try(s) PROVE Files
BY WriteFiles DEF Files, Spared

LEMMA PollFiles == ASSUME IInv, Poll PROVE Files
<1>1. \/ UNCHANGED <<mem, disk>>
      \/ \E made : \E own : \E s \in Pruned(WithEvents(
             Expired(Reclaimed(mem, inFlight),
                     Lapsed(Reclaimed(mem, inFlight), inFlight, now)), own)) : Try(s)
    BY Zenon DEF Poll, storeVars, Try
<1>2. mem \in Store /\ now \in Nat
    BY DEF IInv, Holds, Good, ControlOK
<1>3. CASE UNCHANGED <<mem, disk>>
    BY <1>3, QuietFiles
<1>4. ASSUME NEW own, NEW s \in Pruned(WithEvents(
             Expired(Reclaimed(mem, inFlight),
                     Lapsed(Reclaimed(mem, inFlight), inFlight, now)), own)), Try(s)
      PROVE  Files
    <2> DEFINE c == WithEvents(Expired(Reclaimed(mem, inFlight),
                               Lapsed(Reclaimed(mem, inFlight), inFlight, now)), own)
    <2>1. Spared(mem, c)
        BY <1>2, SweepSpares
    <2>2. Spared(c, s)
        BY <1>4, PrunedSpares
    <2> HIDE DEF c
    <2>3. Spared(mem, s)
        BY <2>1, <2>2, SparedOnwards DEF Spared
    <2> QED BY <1>4, <2>3, TryFiles
<1> QED BY <1>1, <1>3, <1>4

LEMMA BoundaryFiles ==
    ASSUME IInv,
           \/ BoundaryIdle \/ BoundaryBusy \/ BoundaryInterrupt \/ InterruptSettles \/ AdmitReturns
    PROVE  Files
<1>1. mem \in Store /\ cur \in EventId
    BY DEF IInv, Holds, Good, ControlOK, BoundaryIdle, BoundaryBusy, BoundaryInterrupt,
           InterruptSettles, AdmitReturns
<1>2. CASE BoundaryIdle
    <2>1. UNCHANGED <<mem, disk>> \/ Try(Admitting(mem, cur))
        BY <1>2 DEF BoundaryIdle, storeVars, Try
    <2> QED BY <1>1, <2>1, QuietFiles, TryFiles, EventsSpare
<1>3. CASE BoundaryBusy
    BY <1>3, QuietFiles DEF BoundaryBusy, Diagnostic, storeVars
<1>4. CASE BoundaryInterrupt
    <2> DEFINE claimed == Admitting(mem, cur)
               marked  == InterruptRequested(claimed, cur)
    <2>1. Spared(mem, claimed) /\ Spared(mem, marked)
        BY <1>1, EventsSpare
    <2>2. marked.rem = claimed.rem
        BY <1>1 DEF Store, Admitting, InterruptRequested
    <2> HIDE DEF claimed, marked
    <2>3. \/ UNCHANGED <<mem, disk>> \/ Try(claimed) \/ Try(marked)
          \/ mem' = claimed /\ disk' \in {claimed, marked}
        BY <1>4 DEF BoundaryInterrupt, storeVars, Try, claimed, marked
    <2>4. CASE mem' = claimed /\ disk' \in {claimed, marked}
        BY <2>1, <2>2, <2>4 DEF Files, Agrees, Stays, Spared, SparedAt
    <2> QED BY <2>1, <2>3, <2>4, QuietFiles, TryFiles
<1>5. CASE InterruptSettles
    <2>1. UNCHANGED <<mem, disk>> \/ Try(InterruptSettled(mem, cur))
        BY <1>5 DEF InterruptSettles, storeVars
    <2> QED BY <1>1, <2>1, QuietFiles, TryFiles, EventsSpare
<1>6. CASE AdmitReturns
    <2>1. \/ UNCHANGED <<mem, disk>> \/ Diagnostic
          \/ \E retry : Try(Released(mem, cur, retry))
        BY <1>6 DEF AdmitReturns, storeVars
    <2> QED BY <1>1, <2>1, QuietFiles, TryFiles, EventsSpare DEF Diagnostic
<1> QED BY <1>2, <1>3, <1>4, <1>5, <1>6

LEMMA SettleFiles == ASSUME IInv, NEW e \in EventId, Settle(e) PROVE Files
<1>1. UNCHANGED <<mem, disk>> \/ \E retry : Try(Released(mem, e, retry))
    BY DEF Settle, storeVars
<1>2. mem \in Store
    BY DEF IInv, Holds, Good
<1> QED BY <1>1, <1>2, QuietFiles, TryFiles, EventsSpare

LEMMA CreateFiles ==
    ASSUME IInv, NEW q \in ReminderId, NEW due, NEW urgent, Create(q, due, urgent)
    PROVE  Files
<1>1. mem \in Store /\ mem.rem[q].state = "none"
    BY DEF Create, IInv, Holds, Good, Sound, RecordsSound
<1>2. PICK s \in Pruned(Created(mem, q, due, urgent)) : Try(s)
    BY DEF Create, Try
<1>3. Spared(mem, Created(mem, q, due, urgent))
    BY <1>1, AgentSpares DEF Spared
<1>4. Spared(mem, s)
    BY <1>2, <1>3, PrunedSpares, SparedOnwards DEF Spared
<1> QED BY <1>2, <1>4, TryFiles

LEMMA UpdateFiles ==
    ASSUME IInv, NEW q \in ReminderId, NEW due \in DueTime, NEW urgent \in BOOLEAN,
           Update(q, due, urgent)
    PROVE  Files
<1>1. mem \in Store
    BY DEF IInv, Holds, Good
<1>2. Try(Updated(mem, q, due, urgent)) /\ Excused(q)
    BY DEF Update, Try, Excused
<1>3. ASSUME NEW r \in ReminderId PROVE Agrees(r) /\ Stays(r)
    <2>1. CASE r = q
        BY <1>1, <1>2, <2>1, AgentSpares, AskedFiles
    <2>2. CASE r # q
        BY <1>1, <1>2, <2>2, AgentSpares, WriteFiles
    <2> QED BY <2>1, <2>2
<1> QED BY <1>3 DEF Files

LEMMA CancelFiles == ASSUME IInv, NEW q \in ReminderId, Cancel(q) PROVE Files
<1>1. mem \in Store
    BY DEF IInv, Holds, Good
<1>2. PICK s \in Pruned(Cancelled(mem, q)) : Try(s)
    BY DEF Cancel, Try
<1>3. Excused(q)
    BY DEF Excused
<1>4. Spared(Cancelled(mem, q), s)
    BY <1>2, PrunedSpares
<1>5. ASSUME NEW r \in ReminderId PROVE Agrees(r) /\ Stays(r)
    <2>1. CASE r = q
        <3>1. Cancelled(mem, q).rem[q].state # "delivered"
            BY <1>1, AgentSpares
        <3>2. s.rem[q].state # "delivered"
            BY <1>4, <3>1 DEF Spared, SparedAt
        <3> QED BY <1>2, <1>3, <2>1, <3>2, AskedFiles
    <2>2. CASE r # q
        <3>1. SparedAt(mem, Cancelled(mem, q), r)
            BY <1>1, <2>2, AgentSpares
        <3>2. SparedAt(mem, s, r)
            BY <1>4, <3>1, SparedOnwards DEF Spared
        <3> QED BY <1>2, <3>2, WriteFiles
    <2> QED BY <2>1, <2>2
<1> QED BY <1>5 DEF Files

LEMMA AckFiles == ASSUME IInv, NEW e \in EventId, Ack(e) PROVE Files
<1>1. mem \in Store
    BY DEF IInv, Holds, Good
<1>2. CASE UNCHANGED storeVars
    BY <1>2, QuietFiles DEF storeVars
<1>3. CASE \E s \in Pruned(Acknowledged(mem, e)) : mem.ev[e].rid \in ReminderId /\ Try(s)
    <2>1. PICK s \in Pruned(Acknowledged(mem, e)) : mem.ev[e].rid \in ReminderId /\ Try(s)
        BY <1>3
    <2> DEFINE q == mem.ev[e].rid
    <2>2. Excused(q) /\ q \in ReminderId
        BY <2>1 DEF Excused
    <2>3. Spared(Acknowledged(mem, e), s)
        BY <2>1, PrunedSpares
    <2>4. ASSUME NEW r \in ReminderId PROVE Agrees(r) /\ Stays(r)
        <3>1. CASE r = q
            <4>1. Acknowledged(mem, e).rem[q].state # "delivered"
                BY <1>1, <2>1, AckSpares
            <4>2. s.rem[q].state # "delivered"
                BY <2>2, <2>3, <4>1 DEF Spared, SparedAt
            <4> QED BY <2>1, <2>2, <3>1, <4>2, AskedFiles
        <3>2. CASE r # q
            <4>1. SparedAt(mem, Acknowledged(mem, e), r)
                BY <1>1, <2>1, <3>2, AckSpares
            <4>2. SparedAt(mem, s, r)
                BY <2>3, <4>1, SparedOnwards DEF Spared
            <4> QED BY <2>1, <4>2, WriteFiles
        <3> QED BY <3>1, <3>2
    <2> QED BY <2>4 DEF Files
<1> QED BY <1>2, <1>3 DEF Ack, Try

LEMMA AgentFiles == ASSUME IInv, Agent PROVE Files
BY CreateFiles, UpdateFiles, CancelFiles, AckFiles DEF Agent

LEMMA ReloadFiles == ASSUME IInv, NEW spent, Reload(spent) PROVE Files
<1>1. Recovered(disk).rem = disk.rem
    BY DEF Recovered
<1>2. mem' = Recovered(disk) /\ disk' \in {disk, Recovered(disk)}
    BY DEF Reload
<1> QED BY <1>1, <1>2 DEF Files, Agrees, Stays

(* The delivery itself: in memory and in the file, or the file has a       *)
(* delivery the model was not handed.                                      *)
LEMMA ReleaseFiles ==
    ASSUME IInv, Filed, NEW e \in EventId, Release(e)
    PROVE  Filed' /\ \A r \in ReminderId : Stays(r)
<1> DEFINE q == mem.ev[e].rid
           done == Dispatched(mem, e)
<1>1. /\ mem \in Store /\ woke \in Seq(Wake)
      /\ \A i \in DOMAIN woke : SeenSound(mem, minted, woke[i])
    BY DEF IInv, Holds, Good, Sound
<1>2. \/ woke' = woke /\ Files
      \/ Current(mem, e) /\ Committed(done)
      \/ Current(mem, e) /\ WriteFails(done) /\ woke' = woke
    <2>1. \/ UNCHANGED <<mem, disk, woke>>
          \/ woke' = woke /\ Try(Invalidated(mem, e))
          \/ woke' = woke /\ Current(mem, e) /\ Try(ExpiredAtRelease(mem, e))
          \/ Current(mem, e) /\ Committed(done)
          \/ Current(mem, e) /\ WriteFails(done) /\ woke' = woke
        BY DEF Release, storeVars
    <2> QED BY <1>1, <2>1, QuietFiles, TryFiles, EventsSpare, LateSpares
<1>3. CASE woke' = woke /\ Files
    BY <1>3, WokenNames DEF Files, Agrees, Filed
<1>4. ASSUME Current(mem, e)
      PROVE  /\ q \in ReminderId /\ mem.rem[q].state = "active"
             /\ done.rem[q].state = "delivered" /\ done.rem[q].rev = mem.rem[q].rev
             /\ \A r \in ReminderId : r # q => done.rem[r] = mem.rem[r]
    BY <1>1, <1>4 DEF Current, Dispatched, Store, Record
<1> HIDE DEF done, q
<1>5. CASE Current(mem, e) /\ Committed(done)
    <2>1. Filed'
        BY <1>5 DEF Committed, Filed
    <2> QED BY <1>4, <1>5, <2>1 DEF Committed, Stays
<1>6. CASE Current(mem, e) /\ WriteFails(done) /\ woke' = woke
    <2>1. mem' = mem /\ disk' \in {disk, done} /\ woke' = woke
        BY <1>6 DEF WriteFails
    <2>2. ASSUME NEW i \in DOMAIN woke,
                 disk'.rem[woke[i].rid].state = "delivered",
                 disk'.rem[woke[i].rid].rev = woke[i].rev
          PROVE  mem.rem[woke[i].rid] = disk'.rem[woke[i].rid]
        <3>1. CASE disk' = disk
            BY <2>2, <3>1 DEF Filed
        <3>2. CASE disk' = done
            <4>1. woke[i].rid \in ReminderId /\ mem.rem[q].rev \in Nat /\ woke[i].rev \in Nat
                BY <1>1, <1>4, <1>6, WokenNames DEF Store, Record
            <4>2. woke[i].rid # q
                BY <1>1, <1>4, <1>6, <2>2, <3>2, <4>1 DEF SeenSound
            <4> QED BY <1>4, <1>6, <3>2, <4>1, <4>2
        <3> QED BY <2>1, <3>1, <3>2
    <2>3. Filed'
        BY <2>1, <2>2 DEF Filed
    <2>4. \A r \in ReminderId : Stays(r)
        BY <1>4, <1>6, <2>1 DEF Stays
    <2> QED BY <2>3, <2>4
<1> QED BY <1>2, <1>3, <1>5, <1>6 DEF Files

LEMMA NextFiles ==
    ASSUME IInv, Filed, [Next]_vars
    PROVE  Filed' /\ \A r \in ReminderId : Stays(r)
<1>1. ASSUME NEW e \in EventId, Release(e) PROVE Filed' /\ \A r \in ReminderId : Stays(r)
    BY <1>1, ReleaseFiles
<1>2. CASE woke' = woke /\ Files
    <2>1. \A i \in DOMAIN woke : woke[i].rid \in ReminderId
        BY WokenNames
    <2> QED BY <1>2, <2>1 DEF Files, Agrees, Filed
<1>3. CASE Poll \/ AdmitReturns \/ BoundaryIdle \/ BoundaryBusy \/ BoundaryInterrupt
           \/ InterruptSettles
    <2>1. woke' = woke
        BY <1>3 DEF Poll, AdmitReturns, BoundaryIdle, BoundaryBusy, BoundaryInterrupt,
                    InterruptSettles, historyVars
    <2>2. Files
        BY <1>3, PollFiles, BoundaryFiles
    <2> QED BY <1>2, <2>1, <2>2
<1>4. CASE Agent
    <2>1. woke' = woke
        BY <1>4 DEF Agent, Create, Update, Cancel, Ack, historyVars
    <2> QED BY <1>2, <1>4, <2>1, AgentFiles
<1>5. ASSUME NEW e \in EventId, Settle(e) \/ PromptEnds(e)
      PROVE  Filed' /\ \A r \in ReminderId : Stays(r)
    <2>1. woke' = woke
        BY <1>5 DEF Settle, PromptEnds, historyVars
    <2>2. Files
        BY <1>5, SettleFiles, QuietFiles DEF PromptEnds, storeVars
    <2> QED BY <1>2, <2>1, <2>2
<1>6. CASE NextAttempt \/ Crash
    <2>1. woke' = woke /\ \E spent : Reload(spent)
        BY <1>6 DEF NextAttempt, Crash, Reload, historyVars
    <2> QED BY <1>2, <2>1, ReloadFiles
<1>7. CASE \/ Start \/ Stop \/ BoundaryUnavailable \/ AdmissionRetired \/ Boundary2
           \/ OtherArrives \/ OtherEnds \/ SessionDies \/ Tick \/ ClockBack \/ UNCHANGED vars
    <2>1. UNCHANGED <<mem, disk, woke>>
        BY <1>7 DEF Start, Stop, BoundaryUnavailable, AdmissionRetired, Boundary2, OtherArrives,
                    OtherEnds, SessionDies, Tick, ClockBack, vars, storeVars, historyVars
    <2> QED BY <1>2, <2>1, QuietFiles
<1> QED
    BY <1>1, <1>3, <1>4, <1>5, <1>6, <1>7
    DEF Next, Dispatcher, Session, Environment

(* A wake the model was handed stays on record as delivered until the      *)
(* agent acknowledges, updates or cancels it: no prune, no restart and no  *)
(* write about another reminder drops it.                                  *)
THEOREM DeliveredStays == Spec => WokenIsOnRecord
<1>1. Init => Filed
    BY DEF Init, Filed
<1>2. ASSUME IInv, Filed, Next, NEW i \in DOMAIN woke
      PROVE  LET r == woke[i].rid
             IN  /\ disk.rem[r].state = "delivered" /\ disk.rem[r].rev = woke[i].rev
                 /\ disk'.rem[r].state # "delivered"
                 => \/ Cancel(r)
                    \/ \E due \in DueTime, urgent \in BOOLEAN : Update(r, due, urgent)
                    \/ \E e \in EventId : mem.ev[e].rid = r /\ Ack(e)
    <2>1. woke[i].rid \in ReminderId
        BY <1>2, WokenNames
    <2>2. Stays(woke[i].rid)
        BY <1>2, <2>1, NextFiles
    <2> QED BY <1>2, <2>2 DEF Stays, Filed, Excused
<1>3. IInv /\ Filed /\ [Next]_vars =>
        [\A i \in DOMAIN woke :
            LET r == woke[i].rid
            IN  /\ disk.rem[r].state = "delivered" /\ disk.rem[r].rev = woke[i].rev
                /\ disk'.rem[r].state # "delivered"
                => \/ Cancel(r)
                   \/ \E due \in DueTime, urgent \in BOOLEAN : Update(r, due, urgent)
                   \/ \E e \in EventId : mem.ev[e].rid = r /\ Ack(e)]_vars
    BY <1>2
<1>4. Spec => []Filed
    BY <1>1, NextFiles, Invariance, PTL DEF Spec
<1> QED BY <1>3, <1>4, Invariance, PTL DEF Spec, WokenIsOnRecord
=============================================================================
