-------------------------- MODULE AcpSessionProofs --------------------------
(***************************************************************************)
(* What holds of AcpSession for any number of prompts, however often the   *)
(* supervisor ends and whatever records are lost.                          *)
(*                                                                         *)
(* The inductive invariant says what a prompt that was never queued has    *)
(* left behind (nothing), what the line and the ledger say of a prompt     *)
(* that was handed over, what the watchdog's attempt rests on (a durable   *)
(* claim), and that a turn somebody waits for never comes again.           *)
(***************************************************************************)
EXTENDS AcpSession, FiniteSetTheorems, TLAPS

(* A prompt that is not queued yet has left no trace.                      *)
Untold ==
    \A p \in Prompt : pc[p] # "queued" =>
        /\ ledger[p] = "none" /\ times[p] = 0
        /\ p \notin pending /\ p \notin turn.members /\ \A a \in Caller : p \notin seen[a]

(* What may be handed over has not been.                                   *)
Unsent ==
    \A p \in Prompt : (p \in pending \/ ledger[p] = "admitted") => (times[p] = 0 \/ p \in lost)

(* An attempt rests on the claim; whoever stepped in superseded it.        *)
Watched ==
    /\ Undecided => (claimed /\ times[Diagnosis] = 0)
    /\ touched => (Undecided /\ attempt.superseded)
    /\ ~claimed => times[Diagnosis] = 0
    /\ (proc # "down" /\ ~fenced) => ~claimed

(* No turn comes again: neither the running one nor one that somebody      *)
(* captured can be made of what waits in line, or be the recovery to come. *)
NeverAgain ==
    /\ turn.members \cap pending = {} /\ \A a \in Caller : seen[a] \cap pending = {}
    /\ times[Diagnosis] = 0 =>
          (Diagnosis \notin turn.members /\ \A a \in Caller : Diagnosis \notin seen[a])

(* Who captured a turn is inside a call, and a process begins without any. *)
InCall ==
    /\ \A a \in Caller : seen[a] # {} => pc[a] \notin {"new", "queued"}
    /\ \A a \in Caller : pc[a] = "waiting" => seen[a] # {}
    /\ proc \in {"down", "starting"} =>
          (turn = NoTurn /\ \A a \in Caller : pc[a] \in {"new", "queued"})
    /\ proc = "up" => turn.timer # "cleared"

(* What the session owes is in line, as long as it can be handed over; a   *)
(* session closed before it was ready drops the line and admits no more.   *)
OwedInLine ==
    (proc # "down" /\ child # "dead") =>
        \/ \A q \in Prompt : Owed(q) => q \in pending
        \/ /\ proc \in {"closing", "closed"} /\ pending = {}
           /\ \A a \in Caller : pc[a] \in {"new", "queued"}

IInv ==
    TypeOK /\ HandedOnce /\ WaitEnds
    /\ Untold /\ Unsent /\ Watched /\ NeverAgain /\ InCall /\ OwedInLine

-----------------------------------------------------------------------------
(* What the helpers return.                                                *)
LEMMA QueuedIsCounted == ASSUME TypeOK PROVE Cardinality(Queued) \in Nat
<1>1. Queued \subseteq Prompt  BY DEF Queued
<1> QED BY <1>1, IdAssumption, FS_Subset, FS_CardinalityType

LEMMA LossesArePrompts ==
    \A S : \A failed \in Losses(S) : failed \subseteq Prompt /\ failed \subseteq S
BY DEF Losses

LEMMA TurnFacts ==
    /\ NoTurn \in Turn /\ NoTurn.members = {} /\ NoTurn.timer = "off"
    /\ \A t \in Turn : t.members \in SUBSET Id
    /\ \A t \in Turn, s \in {"none", "caller", "stall-watchdog"} :
          [t EXCEPT !.source = s] \in Turn /\ [t EXCEPT !.source = s].members = t.members
    /\ \A t \in Turn, v \in {"off", "armed", "fired", "resolved", "cleared"} :
          [t EXCEPT !.timer = v] \in Turn /\ [t EXCEPT !.timer = v].members = t.members
    /\ \A S \in SUBSET Id :
          /\ [NoTurn EXCEPT !.members = S] \in Turn
          /\ [NoTurn EXCEPT !.members = S].members = S
          /\ S = {} => [NoTurn EXCEPT !.members = S] = NoTurn
BY DEF NoTurn, Turn

LEMMA TurnMembers == \A t \in Turn : t.members \in SUBSET Id
BY DEF Turn

LEMMA AttemptFacts ==
    /\ NoAttempt \in Attempt
    /\ \A t \in Attempt : [t EXCEPT !.superseded = TRUE] \in Attempt
    /\ \A t \in Attempt, r \in {"open", "yes", "no"} : [t EXCEPT !.ready = r] \in Attempt
    /\ \A t \in Attempt, x \in {"none", "cancelling", "held"} : [t EXCEPT !.phase = x] \in Attempt
    /\ \A t \in Attempt, c \in BOOLEAN :
          [t EXCEPT !.phase = "held", !.cancelled = c] \in Attempt
BY DEF NoAttempt, Attempt

LEMMA BatchIsPending == \A p \in pending : TakeBatch(p) \subseteq pending
BY DEF TakeBatch

-----------------------------------------------------------------------------
LEMMA ResetEndsCalls ==
    ASSUME IInv, Reset
    PROVE  \A a \in Caller : pc'[a] \in {"new", "queued"} /\ seen'[a] = {}
<1> SUFFICES ASSUME NEW a \in Caller PROVE pc'[a] \in {"new", "queued"} /\ seen'[a] = {}
  OBVIOUS
<1>1. pc[a] \in Stage  BY DEF IInv, TypeOK
<1>2. seen[a] # {} => pc[a] \notin {"new", "queued"}  BY DEF IInv, InCall
<1>3. CASE pc[a] \in {"notifying", "waiting", "steering"}  BY <1>3 DEF Reset, Refuse
<1>4. CASE pc[a] \notin {"notifying", "waiting", "steering"}
  <2>1. pc'[a] = pc[a] /\ seen'[a] = seen[a]  BY <1>4 DEF Reset, Refuse
  <2>2. pc[a] \in {"new", "queued"}  BY <1>1, <1>4 DEF Stage
  <2> QED BY <2>1, <2>2, <1>2
<1> QED BY <1>3, <1>4

LEMMA StopKeepsInCall == ASSUME IInv, Reset PROVE InCall'
<1>1. proc' = "down" /\ turn' = NoTurn  BY DEF Reset
<1> QED BY <1>1, ResetEndsCalls, TurnFacts DEF InCall

(* A turn that is edited stays the turn it was.                            *)
LEMMA EditedTurn ==
    ASSUME IInv, turn # NoTurn,
           \/ \E s \in {"caller", "stall-watchdog"} : turn' = [turn EXCEPT !.source = s]
           \/ \E v \in {"armed", "fired", "resolved", "cleared"} : turn' = [turn EXCEPT !.timer = v]
    PROVE  turn' \in Turn /\ turn'.members = turn.members /\ turn.members # {}
<1>1. turn \in Turn /\ turn.members # {}  BY DEF IInv, TypeOK
<1>2. ASSUME NEW s \in {"caller", "stall-watchdog"}, turn' = [turn EXCEPT !.source = s]
      PROVE  turn' \in Turn /\ turn'.members = turn.members
  BY <1>1, <1>2 DEF Turn
<1>3. ASSUME NEW v \in {"armed", "fired", "resolved", "cleared"},
             turn' = [turn EXCEPT !.timer = v]
      PROVE  turn' \in Turn /\ turn'.members = turn.members
  BY <1>1, <1>3 DEF Turn
<1> QED BY <1>1, <1>2, <1>3

LEMMA CancelDeadlineTurn ==
    ASSUME IInv, CancelDeadline
    PROVE  /\ turn' \in Turn /\ turn'.members = turn.members /\ turn.members # {}
           /\ turn'.timer \in {"resolved", "fired"}
<1>1. turn # NoTurn  BY TurnFacts DEF CancelDeadline
<1>2. turn' = [turn EXCEPT !.timer = "resolved"] \/ turn' = [turn EXCEPT !.timer = "fired"]
  BY DEF CancelDeadline
<1>3. turn \in Turn  BY DEF IInv, TypeOK
<1>4. turn'.timer \in {"resolved", "fired"}  BY <1>2, <1>3 DEF Turn
<1> QED BY <1>1, <1>2, <1>4, EditedTurn

LEMMA TickTurn ==
    ASSUME IInv, Tick
    PROVE  turn' \in Turn /\ turn'.members = turn.members /\ turn.members # {} /\ turn'.timer = turn.timer
<1>1. turn # NoTurn /\ turn \in Turn /\ turn.members # {}  BY DEF Tick, Safe, IInv, TypeOK
<1>2. turn' = turn \/ turn' = [turn EXCEPT !.source = "stall-watchdog"]  BY DEF Tick
<1>3. turn'.timer = turn.timer  BY <1>1, <1>2 DEF Turn
<1> QED BY <1>1, <1>2, <1>3, EditedTurn

LEMMA CancelActiveTurn ==
    ASSUME IInv, NEW a, NEW source, CancelActive(a, source)
    PROVE  /\ turn' \in Turn /\ turn'.members = turn.members
           /\ (turn'.members = {} => turn' = NoTurn) /\ turn'.timer = turn.timer
<1>1. turn \in Turn /\ (turn.members = {} => turn = NoTurn)  BY DEF IInv, TypeOK
<1>2. CASE turn' = turn  BY <1>1, <1>2
<1>3. CASE turn # NoTurn /\ turn' = [turn EXCEPT !.source = "caller"]
  <2>1. turn'.timer = turn.timer  BY <1>1, <1>3 DEF Turn
  <2> QED BY <1>1, <1>3, <2>1, EditedTurn
<1> QED BY <1>2, <1>3 DEF CancelActive

LEMMA NotifiedTurn ==
    ASSUME IInv, NEW a \in Caller, Notified(a)
    PROVE  /\ turn' \in Turn /\ turn'.members = turn.members
           /\ (turn'.members = {} => turn' = NoTurn)
           /\ turn' = turn \/ (/\ turn # NoTurn /\ turn.timer # "fired"
                               /\ turn'.timer = Arm(turn.timer))
<1>1. turn \in Turn /\ (turn.members = {} => turn = NoTurn)  BY DEF IInv, TypeOK
<1>2. CASE turn' = turn  BY <1>1, <1>2
<1>3. CASE /\ turn.members # {} /\ turn.timer # "fired"
           /\ turn' = [turn EXCEPT !.timer = Arm(turn.timer)]
  <2>1. turn # NoTurn  BY <1>3, TurnFacts
  <2>2. Arm(turn.timer) \in {"armed", "resolved", "cleared"}  BY <1>1, <1>3 DEF Turn, Arm
  <2>3. turn'.timer = Arm(turn.timer)  BY <1>1, <1>3 DEF Turn
  <2> QED BY <1>1, <1>3, <2>1, <2>2, <2>3, EditedTurn
<1> QED BY <1>2, <1>3 DEF Notified


LEMMA HandsOver ==
    ASSUME IInv, NEW members \in SUBSET Id, RunSinglePrompt(members)
    PROVE  /\ turn' \in Turn /\ turn'.members = members /\ turn'.timer = "off"
           /\ (members = {} => turn' = NoTurn)
           /\ times' \in [Id -> Nat]
           /\ \A i \in Id : times'[i] = IF i \in members /\ proc # "closed"
                                        THEN times[i] + 1 ELSE times[i]
<1>1. times \in [Id -> Nat]  BY DEF IInv, TypeOK
<1>2. turn' = [NoTurn EXCEPT !.members = members]  BY DEF RunSinglePrompt
<1>3. turn'.timer = "off"  BY <1>2 DEF NoTurn
<1>4. turn' \in Turn /\ turn'.members = members /\ (members = {} => turn' = NoTurn)
  BY <1>2, TurnFacts
<1> QED BY <1>1, <1>3, <1>4 DEF RunSinglePrompt

LEMMA DeadlineEndsWaits ==
    ASSUME IInv, CancelDeadline PROVE WaitEnds'
<1> SUFFICES ASSUME NEW a \in Caller, pc'[a] = "waiting", turn'.timer # "resolved"
             PROVE  seen'[a] # turn'.members
  BY DEF WaitEnds, LeftToAdapter
<1>1. turn'.members = turn.members  BY CancelDeadlineTurn
<1>2. turn \in Turn  BY DEF IInv, TypeOK
<1>3. Refuse({b \in Caller : pc[b] = "waiting" /\ seen[b] = turn.members})
  BY <1>2 DEF CancelDeadline, Turn
<1>4. pc[a] = "waiting" /\ seen[a] # turn.members /\ seen'[a] = seen[a]  BY <1>3 DEF Refuse
<1> QED BY <1>1, <1>4

LEMMA NotifiedWaits ==
    ASSUME IInv, NEW a \in Caller, Notified(a) PROVE WaitEnds'
<1> SUFFICES ASSUME NEW b \in Caller, pc'[b] = "waiting", proc' # "closed", child' # "dead",
                    ~(proc' = "closing" /\ turn'.timer = "cleared")
             PROVE  seen'[b] # turn'.members \/ turn'.timer \in {"armed", "resolved"}
  BY DEF WaitEnds, LeftToAdapter
<1>1. proc' = proc /\ turn \in Turn /\ (proc # "closing" /\ proc # "closed" => turn.timer # "cleared")
  BY TurnFacts DEF Notified, IInv, InCall, TypeOK
<1>0. child # "dead"  BY DEF Notified, ForceRecovery
<1>2. turn'.members = turn.members /\ (turn' = turn \/ (turn.timer # "fired" /\ turn'.timer = Arm(turn.timer)))
  BY NotifiedTurn
<1>3. CASE turn' # turn
  BY <1>1, <1>2, <1>3 DEF Arm, Turn
<1>4. CASE turn' = turn /\ b # a
  <2>1. pc'[b] = pc[b] /\ seen'[b] = seen[b]
    BY <1>4 DEF Notified, Proceed, Returns, Refuse, Admit, Enqueue, Steer, IInv, TypeOK
  <2> QED BY <1>0, <1>1, <1>4, <2>1 DEF IInv, WaitEnds, LeftToAdapter
<1>5. CASE turn' = turn /\ b = a
  <2>1. /\ seen'[a] = turn.members /\ turn.timer # "fired" /\ turn' = [turn EXCEPT !.timer = Arm(turn.timer)]
    BY <1>5 DEF Notified, Proceed, Returns, Refuse, Admit, Enqueue, Steer, IInv, TypeOK, Caller
  <2> QED BY <1>1, <1>2, <1>5, <2>1 DEF Arm, Turn
<1> QED BY <1>3, <1>4, <1>5

LEMMA RecoverTurn ==
    ASSUME IInv, Recover
    PROVE  /\ turn' \in Turn /\ (turn'.members = {} => turn' = NoTurn)
           /\ turn' = turn \/ (turn'.members = {Diagnosis} /\ times[Diagnosis] = 0)
<1>1. CASE RunSinglePrompt({Diagnosis})
  <2>1. {Diagnosis} \in SUBSET Id  BY DEF Id
  <2>2. times[Diagnosis] = 0  BY DEF Recover, Held, Undecided, IInv, Watched
  <2> QED BY <1>1, <2>1, <2>2, HandsOver
<1>2. CASE turn' = turn  BY <1>2 DEF IInv, TypeOK
<1> QED BY <1>1, <1>2 DEF Recover

LEMMA RecoverWaits ==
    ASSUME IInv, Recover PROVE WaitEnds'
<1>1. pc' = pc /\ seen' = seen /\ proc' = proc /\ child' = child
  BY DEF Recover, calls, life
<1>2. \A a \in Caller : times[Diagnosis] = 0 => seen[a] # {Diagnosis}
  BY DEF IInv, NeverAgain
<1> QED BY <1>1, <1>2, RecoverTurn DEF IInv, WaitEnds, LeftToAdapter

LEMMA ReleaseCase ==
    ASSUME IInv, Release
    PROVE  \E p \in Prompt :
              /\ First(p) /\ TakeBatch(p) \subseteq pending /\ TakeBatch(p) \in SUBSET Id
              /\ Leave(TakeBatch(p))
              /\ \/ /\ child # "dead" /\ AppendSafe(TakeBatch(p), "started")
                    /\ RunSinglePrompt(TakeBatch(p))
                 \/ child = "dead" /\ UNCHANGED <<ledger, lost, turn, times>>
<1>1. PICK p \in Prompt :
              /\ First(p) /\ Leave(TakeBatch(p))
              /\ \/ /\ child # "dead" /\ AppendSafe(TakeBatch(p), "started")
                    /\ RunSinglePrompt(TakeBatch(p))
                 \/ child = "dead" /\ UNCHANGED <<ledger, lost, turn, times>>
  BY DEF Release
<1>2. TakeBatch(p) \subseteq pending  BY <1>1, BatchIsPending DEF First
<1>3. TakeBatch(p) \in SUBSET Id  BY <1>2 DEF IInv, TypeOK, Id
<1> QED BY <1>1, <1>2, <1>3

LEMMA ReleaseTurn ==
    ASSUME IInv, Release
    PROVE  turn' \in Turn /\ (turn'.members = {} => turn' = NoTurn) /\ lost' \subseteq Prompt
<1>1. turn \in Turn /\ (turn.members = {} => turn = NoTurn) /\ lost \subseteq Prompt
  BY DEF IInv, TypeOK
<1>2. PICK p \in Prompt :
              /\ TakeBatch(p) \in SUBSET Id
              /\ \/ /\ AppendSafe(TakeBatch(p), "started") /\ RunSinglePrompt(TakeBatch(p))
                 \/ UNCHANGED <<ledger, lost, turn, times>>
  BY ReleaseCase
<1>3. CASE AppendSafe(TakeBatch(p), "started") /\ RunSinglePrompt(TakeBatch(p))
  <2>1. lost' \subseteq Prompt  BY <1>1, <1>3, LossesArePrompts DEF AppendSafe
  <2> QED BY <1>2, <1>3, <2>1, HandsOver
<1> QED BY <1>1, <1>2, <1>3

LEMMA ReleaseUnsent ==
    ASSUME IInv, Release PROVE Unsent'
<1>1. PICK p \in Prompt :
              /\ TakeBatch(p) \subseteq pending /\ TakeBatch(p) \in SUBSET Id
              /\ Leave(TakeBatch(p))
              /\ \/ AppendSafe(TakeBatch(p), "started") /\ RunSinglePrompt(TakeBatch(p))
                 \/ UNCHANGED <<ledger, lost, turn, times>>
  BY ReleaseCase
<1>2. CASE UNCHANGED <<ledger, lost, turn, times>>
  BY <1>1, <1>2 DEF Leave, IInv, Unsent
<1>3. CASE AppendSafe(TakeBatch(p), "started") /\ RunSinglePrompt(TakeBatch(p))
  <2> SUFFICES ASSUME NEW q \in Prompt, q \in pending' \/ ledger'[q] = "admitted"
               PROVE  times'[q] = 0 \/ q \in lost'
    BY DEF Unsent
  <2>1. PICK failed \in Losses(TakeBatch(p)) :
           /\ ledger' = Recorded(ledger, TakeBatch(p) \ failed, "started")
           /\ lost' = lost \cup failed
    BY <1>3 DEF AppendSafe
  <2>2. CASE q \in TakeBatch(p)
    <3>1. q \in failed  BY <1>1, <2>1, <2>2 DEF Leave, Recorded
    <3> QED BY <2>1, <3>1
  <2>3. CASE q \notin TakeBatch(p)
    <3>1. q \in pending \/ ledger[q] = "admitted"  BY <1>1, <2>1, <2>3 DEF Leave, Recorded
    <3>2. times[q] = 0 \/ q \in lost  BY <3>1 DEF IInv, Unsent
    <3>3. times'[q] = times[q]  BY <1>1, <1>3, <2>3, HandsOver DEF Id
    <3> QED BY <2>1, <3>2, <3>3
  <2> QED BY <2>2, <2>3
<1> QED BY <1>1, <1>2, <1>3

LEMMA InterruptWatched ==
    ASSUME IInv, NEW a, NEW source, CancelActive(a, source) PROVE Watched'
<1>1. attempt' = attempt \/ (Undecided /\ attempt' = [attempt EXCEPT !.superseded = TRUE])
  BY DEF CancelActive, Supersede
<1>2. attempt \in Attempt  BY DEF IInv, TypeOK
<1>3. attempt'.phase = attempt.phase /\ (attempt.superseded => attempt'.superseded)
  BY <1>1, <1>2 DEF Attempt
<1>4. touched' => (Undecided /\ attempt'.superseded)
  BY <1>2, <1>3 DEF CancelActive, Supersede, IInv, Watched, Undecided, Attempt
<1> QED BY <1>3, <1>4 DEF CancelActive, IInv, Watched, Undecided, life

-----------------------------------------------------------------------------
(* Each action keeps the invariant: one lemma per action, one step per     *)
(* part, and the parts an action does not touch together.                  *)
LEMMA SubmitQueuedKeeps ==
    ASSUME IInv, NEW p \in Prompt, NEW k \in Kinds, SubmitQueued(p, k)
    PROVE  IInv'
<1>1. TypeOK'
  <2>1. (ledger \in [Prompt -> State])'
    BY DEF IInv, TypeOK, State, SubmitQueued, Admit
  <2>2. (lost \subseteq Prompt)'
    BY LossesArePrompts DEF IInv, TypeOK, SubmitQueued, Admit
  <2>3. (pending \subseteq Prompt /\ commands \subseteq pending)'
    BY DEF IInv, TypeOK, SubmitQueued, Admit, Enqueue
  <2>4. (place \in [Prompt -> Nat])'
    BY QueuedIsCounted DEF IInv, TypeOK, SubmitQueued, Admit, Enqueue,
       InLine
  <2>5. (pc \in [Caller -> Stage])'
    BY DEF IInv, TypeOK, Stage, Caller, SubmitQueued, Admit, Enqueue,
       Returns
  <2>6. (seen \in [Caller -> SUBSET Id])'
    BY TurnMembers DEF IInv, TypeOK, Caller, SubmitQueued, Admit, Enqueue,
       Returns
  <2>7. (kind \in [Prompt -> Kinds \cup {"none"}])'
    BY DEF IInv, TypeOK, Kinds, Caller, SubmitQueued, IsNew
  <2>8. (times \in [Id -> Nat]
        /\ proc \in {"down", "starting", "up", "closing", "closed"} /\ child \in {"alive", "dying", "dead"}
        /\ claimed \in BOOLEAN /\ doomed \in BOOLEAN /\ lease \in BOOLEAN /\ fenced \in BOOLEAN /\ touched \in BOOLEAN
        /\ stops \in Nat
        /\ turn \in Turn /\ (turn.members = {} => turn = NoTurn)
        /\ attempt \in Attempt)'
    BY DEF IInv, TypeOK, SubmitQueued, stall, life
  <2> QED BY <2>1, <2>2, <2>3, <2>4, <2>5, <2>6, <2>7, <2>8 DEF TypeOK
<1>2. HandedOnce'
  BY DEF IInv, HandedOnce, SubmitQueued, Admit
<1>3. Untold'
  BY DEF IInv, TypeOK, SubmitQueued, Admit, Enqueue, Returns, Untold, Caller
<1>4. Unsent'
  BY DEF IInv, TypeOK, SubmitQueued, IsNew, Admit, Enqueue, Unsent, Untold
<1>5. NeverAgain'
  BY DEF IInv, TypeOK, SubmitQueued, IsNew, Admit, Enqueue, Returns,
     NeverAgain, Untold
<1>6. InCall'
  BY DEF IInv, TypeOK, SubmitQueued, Admit, life, Enqueue, Returns, InCall
<1>7. WaitEnds'
  BY DEF IInv, TypeOK, SubmitQueued, Admit, life, Enqueue, Returns, WaitEnds, LeftToAdapter
<1>8. OwedInLine'
  BY DEF IInv, TypeOK, SubmitQueued, IsNew, Admit, Accepting, Enqueue,
     OwedInLine, Owed
<1>9. Watched'
  BY DEF IInv, Watched, Undecided, SubmitQueued, stall, life
<1> QED BY <1>1, <1>2, <1>3, <1>4, <1>5, <1>6, <1>7, <1>8, <1>9 DEF IInv

LEMMA SubmitSteeredKeeps ==
    ASSUME IInv, NEW p \in Prompt, SubmitSteered(p)
    PROVE  IInv'
<1>1. TypeOK'
  <2>1. (pc \in [Caller -> Stage])'
    BY DEF IInv, TypeOK, Stage, Caller, SubmitSteered, Steer
  <2>2. (seen \in [Caller -> SUBSET Id])'
    BY TurnMembers DEF IInv, TypeOK, Caller, SubmitSteered, Steer
  <2>3. (kind \in [Prompt -> Kinds \cup {"none"}])'
    BY DEF IInv, TypeOK, Kinds, Caller, SubmitSteered, IsNew
  <2>4. (ledger \in [Prompt -> State]
        /\ lost \subseteq Prompt
        /\ pending \subseteq Prompt /\ commands \subseteq pending
        /\ place \in [Prompt -> Nat]
        /\ times \in [Id -> Nat]
        /\ proc \in {"down", "starting", "up", "closing", "closed"} /\ child \in {"alive", "dying", "dead"}
        /\ claimed \in BOOLEAN /\ doomed \in BOOLEAN /\ lease \in BOOLEAN /\ fenced \in BOOLEAN /\ touched \in BOOLEAN
        /\ stops \in Nat
        /\ turn \in Turn /\ (turn.members = {} => turn = NoTurn)
        /\ attempt \in Attempt)'
    BY DEF IInv, TypeOK, SubmitSteered, queue, stall, life
  <2> QED BY <2>1, <2>2, <2>3, <2>4 DEF TypeOK
<1>2. Untold'
  BY DEF IInv, SubmitSteered, IsNew, Steer, queue, Untold
<1>3. NeverAgain'
  BY DEF IInv, NeverAgain, SubmitSteered, Steer, queue
<1>4. InCall'
  BY DEF IInv, TypeOK, SubmitSteered, Steer, life, InCall
<1>5. WaitEnds'
  BY DEF IInv, SubmitSteered, IsNew, Steer, Accepting, WaitEnds, LeftToAdapter
<1>6. OwedInLine'
  BY DEF IInv, SubmitSteered, IsNew, queue, Accepting, OwedInLine, Owed
<1>7. (HandedOnce
      /\ Unsent
      /\ Watched)'
  BY DEF IInv, HandedOnce, Unsent, Watched, Undecided, SubmitSteered, queue,
     stall, life
<1> QED BY <1>1, <1>2, <1>3, <1>4, <1>5, <1>6, <1>7 DEF IInv

LEMMA SubmitInterruptingKeeps ==
    ASSUME IInv, NEW p \in Prompt, NEW k \in Kinds, SubmitInterrupting(p, k)
    PROVE  IInv'
<1>t. /\ turn' \in Turn /\ turn'.members = turn.members
      /\ (turn'.members = {} => turn' = NoTurn) /\ turn'.timer = turn.timer
  BY CancelActiveTurn DEF SubmitInterrupting
<1>1. TypeOK'
  <2>1. (claimed \in BOOLEAN /\ doomed \in BOOLEAN /\ lease \in BOOLEAN /\ fenced \in BOOLEAN /\ touched \in BOOLEAN)'
    BY DEF IInv, TypeOK, SubmitInterrupting, CancelActive, Supersede, life
  <2>2. (turn \in Turn /\ (turn.members = {} => turn = NoTurn))'
    BY <1>t DEF IInv, TypeOK, SubmitInterrupting, CancelActive
  <2>3. (attempt \in Attempt)'
    BY AttemptFacts DEF IInv, TypeOK, SubmitInterrupting, CancelActive,
       Supersede
  <2>4. (pc \in [Caller -> Stage])'
    BY DEF IInv, TypeOK, Stage, Caller, SubmitInterrupting, CancelActive
  <2>5. (seen \in [Caller -> SUBSET Id])'
    BY TurnMembers DEF IInv, TypeOK, Caller, SubmitInterrupting,
       CancelActive
  <2>6. (kind \in [Prompt -> Kinds \cup {"none"}])'
    BY DEF IInv, TypeOK, Kinds, Caller, SubmitInterrupting, IsNew
  <2>7. (ledger \in [Prompt -> State]
        /\ lost \subseteq Prompt
        /\ pending \subseteq Prompt /\ commands \subseteq pending
        /\ place \in [Prompt -> Nat]
        /\ times \in [Id -> Nat]
        /\ proc \in {"down", "starting", "up", "closing", "closed"} /\ child \in {"alive", "dying", "dead"}
        /\ stops \in Nat)'
    BY DEF IInv, TypeOK, SubmitInterrupting, CancelActive, queue, life
  <2> QED BY <2>1, <2>2, <2>3, <2>4, <2>5, <2>6, <2>7 DEF TypeOK
<1>2. HandedOnce'
  BY DEF IInv, SubmitInterrupting, CancelActive, HandedOnce
<1>3. Untold'
  BY <1>t DEF IInv, TypeOK, SubmitInterrupting, IsNew, CancelActive, queue,
     Untold, Caller
<1>4. Unsent'
  BY DEF IInv, SubmitInterrupting, CancelActive, queue, Unsent
<1>5. Watched'
  BY InterruptWatched DEF IInv, Watched, Undecided, SubmitInterrupting,
     CancelActive, Supersede, life
<1>6. NeverAgain'
  BY <1>t DEF IInv, TypeOK, SubmitInterrupting, CancelActive, queue,
     NeverAgain
<1>7. InCall'
  BY <1>t DEF IInv, TypeOK, SubmitInterrupting, CancelActive, life, InCall
<1>8. WaitEnds'
  BY <1>t DEF IInv, TypeOK, SubmitInterrupting, CancelActive, life, WaitEnds, LeftToAdapter
<1>9. OwedInLine'
  BY DEF IInv, SubmitInterrupting, IsNew, CancelActive, Accepting, queue,
     OwedInLine, Owed
<1> QED BY <1>1, <1>2, <1>3, <1>4, <1>5, <1>6, <1>7, <1>8, <1>9 DEF IInv

LEMMA InterruptKeeps ==
    ASSUME IInv, NEW source, Interrupt(source)
    PROVE  IInv'
<1>1. TypeOK'
  <2>1. (claimed \in BOOLEAN /\ doomed \in BOOLEAN /\ lease \in BOOLEAN /\ fenced \in BOOLEAN /\ touched \in BOOLEAN)'
    BY DEF IInv, TypeOK, Interrupt, CancelActive, Supersede, life
  <2>2. (turn \in Turn /\ (turn.members = {} => turn = NoTurn))'
    BY TurnFacts DEF IInv, TypeOK, Interrupt, CancelActive
  <2>3. (attempt \in Attempt)'
    BY AttemptFacts DEF IInv, TypeOK, Interrupt, CancelActive, Supersede
  <2>4. (pc \in [Caller -> Stage])'
    BY DEF IInv, TypeOK, Stage, Caller, Interrupt, CancelActive
  <2>5. (seen \in [Caller -> SUBSET Id])'
    BY TurnMembers DEF IInv, TypeOK, Caller, Interrupt, CancelActive
  <2>6. (ledger \in [Prompt -> State]
        /\ lost \subseteq Prompt
        /\ pending \subseteq Prompt /\ commands \subseteq pending
        /\ place \in [Prompt -> Nat]
        /\ times \in [Id -> Nat]
        /\ proc \in {"down", "starting", "up", "closing", "closed"} /\ child \in {"alive", "dying", "dead"}
        /\ stops \in Nat
        /\ kind \in [Prompt -> Kinds \cup {"none"}])'
    BY DEF IInv, TypeOK, Interrupt, CancelActive, queue, life
  <2> QED BY <2>1, <2>2, <2>3, <2>4, <2>5, <2>6 DEF TypeOK
<1>2. HandedOnce'
  BY DEF IInv, Interrupt, CancelActive, HandedOnce
<1>3. Untold'
  BY DEF IInv, Untold, Interrupt, CancelActive, queue
<1>4. Unsent'
  BY DEF IInv, Interrupt, CancelActive, queue, Unsent
<1>5. Watched'
  BY DEF IInv, TypeOK, Interrupt, CancelActive, Supersede, Undecided, Watched
<1>6. NeverAgain'
  BY DEF IInv, NeverAgain, Interrupt, CancelActive, queue
<1>7. InCall'
  BY DEF IInv, TypeOK, Interrupt, CancelActive, life, InCall
<1>8. WaitEnds'
  BY DEF IInv, WaitEnds, LeftToAdapter, Interrupt, CancelActive, life
<1>9. OwedInLine'
  BY DEF IInv, OwedInLine, Owed, Interrupt, CancelActive, queue, life
<1> QED BY <1>1, <1>2, <1>3, <1>4, <1>5, <1>6, <1>7, <1>8, <1>9 DEF IInv

LEMMA NotifiedKeeps ==
    ASSUME IInv, NEW a \in Caller, Notified(a)
    PROVE  IInv'
<1>t. /\ turn' \in Turn /\ turn'.members = turn.members
      /\ (turn'.members = {} => turn' = NoTurn)
      /\ turn' = turn \/ (turn # NoTurn /\ turn.timer # "fired" /\ turn'.timer = Arm(turn.timer))
  BY NotifiedTurn
<1>1. TypeOK'
  <2>1. (ledger \in [Prompt -> State])'
    BY DEF IInv, TypeOK, State, Notified, Proceed, Admit
  <2>2. (lost \subseteq Prompt)'
    BY DEF IInv, TypeOK, Notified, Proceed, Admit, Caller
  <2>3. (pending \subseteq Prompt /\ commands \subseteq pending)'
    BY DEF IInv, TypeOK, Notified, queue, Proceed, Admit, Enqueue, Caller
  <2>4. (place \in [Prompt -> Nat])'
    BY QueuedIsCounted DEF IInv, TypeOK, Notified, queue, Proceed, Admit,
       Enqueue, InLine
  <2>5. (proc \in {"down", "starting", "up", "closing", "closed"} /\ child \in {"alive", "dying", "dead"})'
    BY DEF IInv, TypeOK, Notified, ForceRecovery
  <2>6. (claimed \in BOOLEAN /\ doomed \in BOOLEAN /\ lease \in BOOLEAN /\ fenced \in BOOLEAN /\ touched \in BOOLEAN)'
    BY DEF IInv, TypeOK, Notified, stall, ForceRecovery
  <2>7. (turn \in Turn /\ (turn.members = {} => turn = NoTurn))'
    BY <1>t DEF IInv, TypeOK, Notified
  <2>8. (pc \in [Caller -> Stage])'
    BY DEF IInv, TypeOK, Stage, Caller, Notified, Refuse, Proceed, Returns,
       Admit, Steer, Enqueue
  <2>9. (seen \in [Caller -> SUBSET Id])'
    BY TurnMembers DEF IInv, TypeOK, Caller, Notified, Refuse, Proceed,
       Returns, Admit, Steer, Enqueue
  <2>10. (kind \in [Prompt -> Kinds \cup {"none"}])'
    BY DEF IInv, TypeOK, Kinds, Caller, Notified, Refuse, Proceed
  <2>11. (times \in [Id -> Nat]
        /\ stops \in Nat
        /\ attempt \in Attempt)'
    BY DEF IInv, TypeOK, Notified, stall
  <2> QED BY <2>1, <2>2, <2>3, <2>4, <2>5, <2>6, <2>7, <2>8, <2>9, <2>10, <2>11 DEF TypeOK
<1>2. HandedOnce'
  BY DEF IInv, HandedOnce, Notified, Proceed, Admit
<1>3. Untold'
  BY <1>t DEF IInv, TypeOK, Notified, stall, Arm, queue, Refuse,
     ForceRecovery, Proceed, Returns, Accepting, Admit, Steer, Enqueue,
     InLine, Untold, InCall, Caller, Id
<1>4. Unsent'
  BY DEF IInv, TypeOK, Notified, queue, Proceed, Admit, Enqueue, Unsent,
     Untold
<1>5. NeverAgain'
  BY <1>t DEF IInv, TypeOK, Notified, stall, Arm, queue, Refuse,
     ForceRecovery, Proceed, Returns, Accepting, Admit, Steer, Enqueue,
     InLine, NeverAgain, Untold, InCall, Watched, Undecided, Caller, Id
<1>6. InCall'
  BY <1>t DEF IInv, TypeOK, Notified, Arm, Refuse, Proceed, Returns, Admit,
     Steer, Enqueue, InCall
<1>7. WaitEnds'
  BY NotifiedWaits DEF IInv, WaitEnds, LeftToAdapter, NeverAgain, InCall, Notified, queue,
     Refuse, Proceed, Returns, Admit, Steer, Enqueue
<1>8. OwedInLine'
  BY DEF IInv, TypeOK, Notified, queue, ForceRecovery, Proceed, Admit,
     Enqueue, OwedInLine, Owed
<1>9. Watched'
  BY DEF IInv, Watched, Undecided, Notified, stall
<1> QED BY <1>1, <1>2, <1>3, <1>4, <1>5, <1>6, <1>7, <1>8, <1>9 DEF IInv

LEMMA NotifyFailsKeeps ==
    ASSUME IInv, NEW a \in Caller, NotifyFails(a)
    PROVE  IInv'
<1>1. TypeOK'
  <2>1. (pc \in [Caller -> Stage])'
    BY DEF IInv, TypeOK, Stage, Caller, NotifyFails, Refuse
  <2>2. (seen \in [Caller -> SUBSET Id])'
    BY TurnMembers DEF IInv, TypeOK, Caller, NotifyFails, Refuse
  <2>3. (kind \in [Prompt -> Kinds \cup {"none"}])'
    BY DEF IInv, TypeOK, Kinds, Caller, NotifyFails, Refuse
  <2>4. (ledger \in [Prompt -> State]
        /\ lost \subseteq Prompt
        /\ pending \subseteq Prompt /\ commands \subseteq pending
        /\ place \in [Prompt -> Nat]
        /\ times \in [Id -> Nat]
        /\ proc \in {"down", "starting", "up", "closing", "closed"} /\ child \in {"alive", "dying", "dead"}
        /\ claimed \in BOOLEAN /\ doomed \in BOOLEAN /\ lease \in BOOLEAN /\ fenced \in BOOLEAN /\ touched \in BOOLEAN
        /\ stops \in Nat
        /\ turn \in Turn /\ (turn.members = {} => turn = NoTurn)
        /\ attempt \in Attempt)'
    BY DEF IInv, TypeOK, NotifyFails, queue, stall, life
  <2> QED BY <2>1, <2>2, <2>3, <2>4 DEF TypeOK
<1>2. Untold'
  BY DEF IInv, Untold, InCall, Caller, NotifyFails, Refuse, queue, life
<1>3. NeverAgain'
  BY DEF IInv, NeverAgain, NotifyFails, Refuse, queue
<1>4. InCall'
  BY DEF IInv, InCall, NotifyFails, Refuse, life
<1>5. WaitEnds'
  BY DEF IInv, WaitEnds, LeftToAdapter, NotifyFails, Refuse, life
<1>6. OwedInLine'
  BY DEF IInv, OwedInLine, Owed, NotifyFails, Refuse, queue, life
<1>7. (HandedOnce
      /\ Unsent
      /\ Watched)'
  BY DEF IInv, HandedOnce, Unsent, Watched, Undecided, NotifyFails, queue,
     stall, life
<1> QED BY <1>1, <1>2, <1>3, <1>4, <1>5, <1>6, <1>7 DEF IInv

LEMMA SettledKeeps ==
    ASSUME IInv, NEW a \in Caller, Settled(a)
    PROVE  IInv'
<1>1. TypeOK'
  <2>1. (ledger \in [Prompt -> State])'
    BY DEF IInv, TypeOK, State, Settled, Proceed, Admit
  <2>2. (lost \subseteq Prompt)'
    BY DEF IInv, TypeOK, Settled, Proceed, Admit, Caller
  <2>3. (pending \subseteq Prompt /\ commands \subseteq pending)'
    BY DEF IInv, TypeOK, Settled, Proceed, queue, Admit, Enqueue, Caller
  <2>4. (place \in [Prompt -> Nat])'
    BY QueuedIsCounted DEF IInv, TypeOK, Settled, Proceed, queue, Admit,
       Enqueue, InLine
  <2>5. (pc \in [Caller -> Stage])'
    BY DEF IInv, TypeOK, Stage, Caller, Settled, Proceed, Returns, Admit,
       Steer, Refuse, Enqueue
  <2>6. (seen \in [Caller -> SUBSET Id])'
    BY TurnMembers DEF IInv, TypeOK, Caller, Settled, Proceed, Returns,
       Admit, Steer, Refuse, Enqueue
  <2>7. (kind \in [Prompt -> Kinds \cup {"none"}])'
    BY DEF IInv, TypeOK, Kinds, Caller, Settled, Proceed, Refuse
  <2>8. (times \in [Id -> Nat]
        /\ proc \in {"down", "starting", "up", "closing", "closed"} /\ child \in {"alive", "dying", "dead"}
        /\ claimed \in BOOLEAN /\ doomed \in BOOLEAN /\ lease \in BOOLEAN /\ fenced \in BOOLEAN /\ touched \in BOOLEAN
        /\ stops \in Nat
        /\ turn \in Turn /\ (turn.members = {} => turn = NoTurn)
        /\ attempt \in Attempt)'
    BY DEF IInv, TypeOK, Settled, stall, life
  <2> QED BY <2>1, <2>2, <2>3, <2>4, <2>5, <2>6, <2>7, <2>8 DEF TypeOK
<1>2. HandedOnce'
  BY DEF IInv, HandedOnce, Settled, Proceed, Admit
<1>3. Untold'
  BY DEF IInv, TypeOK, Settled, Proceed, Returns, queue, Admit, Steer,
     Refuse, Enqueue, Untold, Caller
<1>4. Unsent'
  BY DEF IInv, TypeOK, Settled, Proceed, queue, Admit, Enqueue, Unsent,
     Untold
<1>5. NeverAgain'
  BY DEF IInv, TypeOK, Settled, Proceed, Returns, queue, Admit, Steer,
     Refuse, Enqueue, NeverAgain, Untold, Caller
<1>6. InCall'
  BY DEF IInv, TypeOK, Settled, Proceed, life, Returns, Admit, Steer, Refuse,
     Enqueue, InCall
<1>7. WaitEnds'
  BY DEF IInv, TypeOK, Settled, Proceed, life, Returns, Admit, Steer, Refuse,
     Enqueue, WaitEnds, LeftToAdapter
<1>8. OwedInLine'
  BY DEF IInv, TypeOK, Settled, Proceed, life, queue, Admit, Enqueue,
     OwedInLine, Owed
<1>9. Watched'
  BY DEF IInv, Watched, Undecided, Settled, stall, life
<1> QED BY <1>1, <1>2, <1>3, <1>4, <1>5, <1>6, <1>7, <1>8, <1>9 DEF IInv

LEMMA CancelDeadlineKeeps ==
    ASSUME IInv, CancelDeadline
    PROVE  IInv'
<1>t. /\ turn' \in Turn /\ turn'.members = turn.members /\ turn.members # {}
      /\ turn'.timer \in {"resolved", "fired"}
  BY CancelDeadlineTurn
<1>1. TypeOK'
  <2>1. (proc \in {"down", "starting", "up", "closing", "closed"} /\ child \in {"alive", "dying", "dead"})'
    BY DEF IInv, TypeOK, CancelDeadline, ForceRecovery
  <2>2. (claimed \in BOOLEAN /\ doomed \in BOOLEAN /\ lease \in BOOLEAN /\ fenced \in BOOLEAN /\ touched \in BOOLEAN)'
    BY DEF IInv, TypeOK, CancelDeadline, ForceRecovery, stall
  <2>3. (turn \in Turn /\ (turn.members = {} => turn = NoTurn))'
    BY <1>t DEF IInv, TypeOK, CancelDeadline
  <2>4. (pc \in [Caller -> Stage])'
    BY DEF IInv, TypeOK, Stage, Caller, CancelDeadline, calls, Refuse
  <2>5. (seen \in [Caller -> SUBSET Id])'
    BY TurnMembers DEF IInv, TypeOK, Caller, CancelDeadline, calls, Refuse
  <2>6. (kind \in [Prompt -> Kinds \cup {"none"}])'
    BY DEF IInv, TypeOK, Kinds, Caller, CancelDeadline, calls, Refuse
  <2>7. (ledger \in [Prompt -> State]
        /\ lost \subseteq Prompt
        /\ pending \subseteq Prompt /\ commands \subseteq pending
        /\ place \in [Prompt -> Nat]
        /\ times \in [Id -> Nat]
        /\ stops \in Nat
        /\ attempt \in Attempt)'
    BY DEF IInv, TypeOK, CancelDeadline, queue, stall
  <2> QED BY <2>1, <2>2, <2>3, <2>4, <2>5, <2>6, <2>7 DEF TypeOK
<1>2. Untold'
  BY <1>t DEF IInv, Untold, InCall, Caller, CancelDeadline, calls, Refuse,
     queue
<1>3. NeverAgain'
  BY <1>t DEF IInv, NeverAgain, Untold, InCall, Watched, Undecided, Caller,
     CancelDeadline, calls, Refuse, queue, stall
<1>4. InCall'
  BY <1>t DEF IInv, InCall, Caller, CancelDeadline, calls, Refuse
<1>5. WaitEnds'
  BY DeadlineEndsWaits DEF IInv, WaitEnds, LeftToAdapter, NeverAgain, InCall,
     CancelDeadline, calls, Refuse, queue
<1>6. OwedInLine'
  BY DEF IInv, OwedInLine, Owed, CancelDeadline, calls, ForceRecovery,
     Refuse, queue
<1>7. (HandedOnce
      /\ Unsent
      /\ Watched)'
  BY DEF IInv, HandedOnce, Unsent, Watched, Undecided, CancelDeadline, queue,
     stall
<1> QED BY <1>1, <1>2, <1>3, <1>4, <1>5, <1>6, <1>7 DEF IInv

LEMMA ReleaseKeeps ==
    ASSUME IInv, Release
    PROVE  IInv'
<1>1. TypeOK'
  <2>1. (ledger \in [Prompt -> State])'
    BY DEF IInv, TypeOK, Release, AppendSafe, Recorded, State
  <2>2. (lost \subseteq Prompt)'
    BY ReleaseTurn DEF IInv, TypeOK, Release, AppendSafe
  <2>3. (pending \subseteq Prompt /\ commands \subseteq pending)'
    BY BatchIsPending DEF IInv, TypeOK, Release, Leave
  <2>4. (times \in [Id -> Nat])'
    BY DEF IInv, TypeOK, Id, Release, RunSinglePrompt
  <2>5. (turn \in Turn /\ (turn.members = {} => turn = NoTurn))'
    BY ReleaseTurn DEF IInv, TypeOK, Release, RunSinglePrompt
  <2>6. (place \in [Prompt -> Nat]
        /\ proc \in {"down", "starting", "up", "closing", "closed"} /\ child \in {"alive", "dying", "dead"}
        /\ claimed \in BOOLEAN /\ doomed \in BOOLEAN /\ lease \in BOOLEAN /\ fenced \in BOOLEAN /\ touched \in BOOLEAN
        /\ stops \in Nat
        /\ attempt \in Attempt
        /\ pc \in [Caller -> Stage]
        /\ seen \in [Caller -> SUBSET Id]
        /\ kind \in [Prompt -> Kinds \cup {"none"}])'
    BY DEF IInv, TypeOK, Release, calls, stall, life
  <2> QED BY <2>1, <2>2, <2>3, <2>4, <2>5, <2>6 DEF TypeOK
<1>2. HandedOnce'
  BY DEF IInv, TypeOK, Release, First, TakeBatch, AppendSafe,
     RunSinglePrompt, Recorded, HandedOnce, Unsent, Losses
<1>3. Untold'
  BY DEF IInv, TypeOK, Release, AtBoundary, First, TakeBatch, Leave,
     AppendSafe, RunSinglePrompt, calls, Recorded, Untold, Id, Turn, Losses
<1>4. Unsent'
  BY ReleaseUnsent DEF IInv, Unsent, Untold, Release, Leave, AppendSafe,
     RunSinglePrompt, calls
<1>5. Watched'
  BY IdAssumption DEF IInv, TypeOK, Release, TakeBatch, RunSinglePrompt,
     stall, life, Watched, Undecided, Id
<1>6. NeverAgain'
  BY IdAssumption DEF IInv, TypeOK, Release, TakeBatch, Leave,
     RunSinglePrompt, calls, NeverAgain, NoTurn
<1>7. InCall'
  BY DEF IInv, Release, AtBoundary, RunSinglePrompt, calls, life, InCall,
     NoTurn
<1>8. WaitEnds'
  BY DEF IInv, Release, First, TakeBatch, RunSinglePrompt, calls, life,
     WaitEnds, LeftToAdapter, NeverAgain, InCall, NoTurn
<1>9. OwedInLine'
  BY DEF IInv, Release, Leave, AppendSafe, calls, life, Recorded, OwedInLine,
     Owed, Losses
<1> QED BY <1>1, <1>2, <1>3, <1>4, <1>5, <1>6, <1>7, <1>8, <1>9 DEF IInv

LEMMA RefuseAtReleaseKeeps ==
    ASSUME IInv, RefuseAtRelease
    PROVE  IInv'
<1>1. TypeOK'
  <2>1. (ledger \in [Prompt -> State])'
    BY DEF IInv, TypeOK, RefuseAtRelease, AppendSafe, Recorded, State
  <2>2. (lost \subseteq Prompt)'
    BY LossesArePrompts DEF IInv, TypeOK, RefuseAtRelease, AppendSafe
  <2>3. (pending \subseteq Prompt /\ commands \subseteq pending)'
    BY DEF IInv, TypeOK, RefuseAtRelease, Leave
  <2>4. (place \in [Prompt -> Nat]
        /\ times \in [Id -> Nat]
        /\ proc \in {"down", "starting", "up", "closing", "closed"} /\ child \in {"alive", "dying", "dead"}
        /\ claimed \in BOOLEAN /\ doomed \in BOOLEAN /\ lease \in BOOLEAN /\ fenced \in BOOLEAN /\ touched \in BOOLEAN
        /\ stops \in Nat
        /\ turn \in Turn /\ (turn.members = {} => turn = NoTurn)
        /\ attempt \in Attempt
        /\ pc \in [Caller -> Stage]
        /\ seen \in [Caller -> SUBSET Id]
        /\ kind \in [Prompt -> Kinds \cup {"none"}])'
    BY DEF IInv, TypeOK, RefuseAtRelease, calls, stall, life
  <2> QED BY <2>1, <2>2, <2>3, <2>4 DEF TypeOK
<1>2. HandedOnce'
  BY DEF IInv, HandedOnce, RefuseAtRelease, AppendSafe
<1>3. Untold'
  BY DEF IInv, RefuseAtRelease, Leave, AppendSafe, calls, Recorded, Untold
<1>4. Unsent'
  BY DEF IInv, RefuseAtRelease, Leave, AppendSafe, Recorded, Unsent
<1>5. NeverAgain'
  BY DEF IInv, NeverAgain, RefuseAtRelease, Leave, calls
<1>6. OwedInLine'
  BY DEF IInv, RefuseAtRelease, Leave, AppendSafe, calls, life, Recorded,
     OwedInLine, Owed
<1>7. (Watched
      /\ InCall
      /\ WaitEnds)'
  BY DEF IInv, Watched, InCall, WaitEnds, LeftToAdapter, Undecided, RefuseAtRelease, calls,
     stall, life
<1> QED BY <1>1, <1>2, <1>3, <1>4, <1>5, <1>6, <1>7 DEF IInv

LEMMA EndKeeps ==
    ASSUME IInv, NEW cancelled \in BOOLEAN, End(cancelled)
    PROVE  IInv'
<1>1. TypeOK'
  <2>1. (ledger \in [Prompt -> State])'
    BY DEF IInv, TypeOK, End, AppendSafe, Recorded, State
  <2>2. (lost \subseteq Prompt)'
    BY LossesArePrompts DEF IInv, TypeOK, End, AppendSafe
  <2>3. (claimed \in BOOLEAN /\ doomed \in BOOLEAN /\ lease \in BOOLEAN /\ fenced \in BOOLEAN /\ touched \in BOOLEAN)'
    BY DEF IInv, TypeOK, End, life
  <2>4. (turn \in Turn /\ (turn.members = {} => turn = NoTurn))'
    BY TurnFacts DEF IInv, TypeOK, End
  <2>5. (attempt \in Attempt)'
    BY AttemptFacts DEF IInv, TypeOK, End, EndAttempt
  <2>6. (pending \subseteq Prompt /\ commands \subseteq pending
        /\ place \in [Prompt -> Nat]
        /\ times \in [Id -> Nat]
        /\ proc \in {"down", "starting", "up", "closing", "closed"} /\ child \in {"alive", "dying", "dead"}
        /\ stops \in Nat
        /\ pc \in [Caller -> Stage]
        /\ seen \in [Caller -> SUBSET Id]
        /\ kind \in [Prompt -> Kinds \cup {"none"}])'
    BY DEF IInv, TypeOK, End, queue, calls, life
  <2> QED BY <2>1, <2>2, <2>3, <2>4, <2>5, <2>6 DEF TypeOK
<1>2. HandedOnce'
  BY DEF IInv, HandedOnce, End, AppendSafe
<1>3. Untold'
  BY DEF IInv, End, AppendSafe, queue, calls, Recorded, Untold, NoTurn
<1>4. Unsent'
  BY DEF IInv, End, AppendSafe, queue, Recorded, Unsent
<1>5. Watched'
  BY DEF IInv, End, EndAttempt, life, Watched, Undecided
<1>6. NeverAgain'
  BY DEF IInv, End, queue, calls, NeverAgain, NoTurn
<1>7. InCall'
  BY DEF IInv, End, calls, life, InCall, NoTurn
<1>8. WaitEnds'
  BY DEF IInv, End, calls, WaitEnds, LeftToAdapter, InCall, NoTurn
<1>9. OwedInLine'
  BY DEF IInv, End, AppendSafe, queue, calls, life, Recorded, OwedInLine,
     Owed
<1> QED BY <1>1, <1>2, <1>3, <1>4, <1>5, <1>6, <1>7, <1>8, <1>9 DEF IInv

LEMMA InjectedKeeps ==
    ASSUME IInv, NEW p \in Prompt, Injected(p)
    PROVE  IInv'
<1>1. TypeOK'
  <2>1. (times \in [Id -> Nat])'
    BY DEF IInv, TypeOK, Id, Injected
  <2>2. (pc \in [Caller -> Stage])'
    BY DEF IInv, TypeOK, Stage, Caller, Injected, Returns
  <2>3. (seen \in [Caller -> SUBSET Id])'
    BY TurnMembers DEF IInv, TypeOK, Caller, Injected, Returns
  <2>4. (ledger \in [Prompt -> State]
        /\ lost \subseteq Prompt
        /\ pending \subseteq Prompt /\ commands \subseteq pending
        /\ place \in [Prompt -> Nat]
        /\ proc \in {"down", "starting", "up", "closing", "closed"} /\ child \in {"alive", "dying", "dead"}
        /\ claimed \in BOOLEAN /\ doomed \in BOOLEAN /\ lease \in BOOLEAN /\ fenced \in BOOLEAN /\ touched \in BOOLEAN
        /\ stops \in Nat
        /\ turn \in Turn /\ (turn.members = {} => turn = NoTurn)
        /\ attempt \in Attempt
        /\ kind \in [Prompt -> Kinds \cup {"none"}])'
    BY DEF IInv, TypeOK, Injected, queue, stall, life
  <2> QED BY <2>1, <2>2, <2>3, <2>4 DEF TypeOK
<1>2. HandedOnce'
  BY DEF IInv, HandedOnce, Untold, Unsent, Watched, Undecided, Caller,
     Injected, Returns, queue, stall, life
<1>3. Untold'
  BY DEF IInv, TypeOK, Injected, Returns, queue, Untold, Caller
<1>4. Unsent'
  BY DEF IInv, Unsent, Untold, Caller, Injected, Returns, queue
<1>5. Watched'
  BY IdAssumption DEF IInv, Watched, Undecided, Injected, stall
<1>6. NeverAgain'
  BY DEF IInv, TypeOK, Injected, Returns, queue, NeverAgain
<1>7. InCall'
  BY DEF IInv, TypeOK, Injected, Returns, life, InCall
<1>8. WaitEnds'
  BY DEF IInv, WaitEnds, LeftToAdapter, Injected, Returns, life
<1>9. OwedInLine'
  BY DEF IInv, OwedInLine, Owed, Injected, Returns, queue, life
<1> QED BY <1>1, <1>2, <1>3, <1>4, <1>5, <1>6, <1>7, <1>8, <1>9 DEF IInv

LEMMA StartedNewTurnKeeps ==
    ASSUME IInv, NEW p \in Prompt, StartedNewTurn(p)
    PROVE  IInv'
<1>1. TypeOK'
  <2>1. (times \in [Id -> Nat])'
    BY DEF IInv, TypeOK, Id, StartedNewTurn
  <2>2. (claimed \in BOOLEAN /\ doomed \in BOOLEAN /\ lease \in BOOLEAN /\ fenced \in BOOLEAN /\ touched \in BOOLEAN)'
    BY DEF IInv, TypeOK, StartedNewTurn, stall, life
  <2>3. (pc \in [Caller -> Stage])'
    BY DEF IInv, TypeOK, Stage, Caller, StartedNewTurn, Returns
  <2>4. (seen \in [Caller -> SUBSET Id])'
    BY TurnMembers DEF IInv, TypeOK, Caller, StartedNewTurn, Returns
  <2>5. (ledger \in [Prompt -> State]
        /\ lost \subseteq Prompt
        /\ pending \subseteq Prompt /\ commands \subseteq pending
        /\ place \in [Prompt -> Nat]
        /\ proc \in {"down", "starting", "up", "closing", "closed"} /\ child \in {"alive", "dying", "dead"}
        /\ stops \in Nat
        /\ turn \in Turn /\ (turn.members = {} => turn = NoTurn)
        /\ attempt \in Attempt
        /\ kind \in [Prompt -> Kinds \cup {"none"}])'
    BY DEF IInv, TypeOK, StartedNewTurn, queue, stall, life
  <2> QED BY <2>1, <2>2, <2>3, <2>4, <2>5 DEF TypeOK
<1>2. HandedOnce'
  BY DEF IInv, HandedOnce, Untold, Unsent, Watched, Undecided, Caller,
     StartedNewTurn, Returns, queue, stall, life
<1>3. Untold'
  BY DEF IInv, TypeOK, StartedNewTurn, Returns, queue, Untold, Caller
<1>4. Unsent'
  BY DEF IInv, Unsent, Untold, Caller, StartedNewTurn, Returns, queue
<1>5. Watched'
  BY IdAssumption DEF IInv, Watched, Undecided, StartedNewTurn, stall
<1>6. NeverAgain'
  BY DEF IInv, TypeOK, StartedNewTurn, Returns, queue, NeverAgain
<1>7. InCall'
  BY DEF IInv, TypeOK, StartedNewTurn, Returns, life, InCall
<1>8. WaitEnds'
  BY DEF IInv, WaitEnds, LeftToAdapter, StartedNewTurn, Returns, life
<1>9. OwedInLine'
  BY DEF IInv, OwedInLine, Owed, StartedNewTurn, Returns, queue, life
<1> QED BY <1>1, <1>2, <1>3, <1>4, <1>5, <1>6, <1>7, <1>8, <1>9 DEF IInv

LEMMA SteeringFailsKeeps ==
    ASSUME IInv, NEW p \in Prompt, SteeringFails(p)
    PROVE  IInv'
<1>1. TypeOK'
  <2>1. (ledger \in [Prompt -> State])'
    BY DEF IInv, TypeOK, State, SteeringFails, Admit
  <2>2. (lost \subseteq Prompt)'
    BY LossesArePrompts DEF IInv, TypeOK, SteeringFails, Admit
  <2>3. (pending \subseteq Prompt /\ commands \subseteq pending)'
    BY DEF IInv, TypeOK, SteeringFails, queue, Admit, Enqueue
  <2>4. (place \in [Prompt -> Nat])'
    BY QueuedIsCounted DEF IInv, TypeOK, SteeringFails, queue, Admit,
       Enqueue, InLine
  <2>5. (pc \in [Caller -> Stage])'
    BY DEF IInv, TypeOK, Stage, Caller, SteeringFails, Refuse, Admit,
       Enqueue, Returns
  <2>6. (seen \in [Caller -> SUBSET Id])'
    BY TurnMembers DEF IInv, TypeOK, Caller, SteeringFails, Refuse, Admit,
       Enqueue, Returns
  <2>7. (kind \in [Prompt -> Kinds \cup {"none"}])'
    BY DEF IInv, TypeOK, Kinds, Caller, SteeringFails, Refuse
  <2>8. (times \in [Id -> Nat]
        /\ proc \in {"down", "starting", "up", "closing", "closed"} /\ child \in {"alive", "dying", "dead"}
        /\ claimed \in BOOLEAN /\ doomed \in BOOLEAN /\ lease \in BOOLEAN /\ fenced \in BOOLEAN /\ touched \in BOOLEAN
        /\ stops \in Nat
        /\ turn \in Turn /\ (turn.members = {} => turn = NoTurn)
        /\ attempt \in Attempt)'
    BY DEF IInv, TypeOK, SteeringFails, stall, life
  <2> QED BY <2>1, <2>2, <2>3, <2>4, <2>5, <2>6, <2>7, <2>8 DEF TypeOK
<1>2. HandedOnce'
  BY DEF IInv, HandedOnce, SteeringFails, Admit
<1>3. Untold'
  BY DEF IInv, TypeOK, SteeringFails, Refuse, queue, Admit, Enqueue, Returns,
     Untold, Caller
<1>4. Unsent'
  BY DEF IInv, TypeOK, SteeringFails, queue, Admit, Enqueue, Unsent, Untold
<1>5. NeverAgain'
  BY DEF IInv, TypeOK, SteeringFails, Refuse, queue, Admit, Enqueue, Returns,
     NeverAgain, Untold
<1>6. InCall'
  BY DEF IInv, TypeOK, SteeringFails, Refuse, Admit, life, Enqueue, Returns,
     InCall
<1>7. WaitEnds'
  BY DEF IInv, TypeOK, SteeringFails, Refuse, Admit, life, Enqueue, Returns,
     WaitEnds, LeftToAdapter
<1>8. OwedInLine'
  BY DEF IInv, TypeOK, SteeringFails, Refuse, queue, Accepting, Admit, life,
     Enqueue, OwedInLine, Owed
<1>9. Watched'
  BY DEF IInv, Watched, Undecided, SteeringFails, stall, life
<1> QED BY <1>1, <1>2, <1>3, <1>4, <1>5, <1>6, <1>7, <1>8, <1>9 DEF IInv

LEMMA AdapterSilentKeeps ==
    ASSUME IInv, AdapterSilent
    PROVE  IInv'
<1>1. TypeOK'
  <2>1. (claimed \in BOOLEAN /\ doomed \in BOOLEAN /\ lease \in BOOLEAN /\ fenced \in BOOLEAN /\ touched \in BOOLEAN)'
    BY DEF IInv, TypeOK, AdapterSilent, stall, life
  <2>2. (ledger \in [Prompt -> State]
        /\ lost \subseteq Prompt
        /\ pending \subseteq Prompt /\ commands \subseteq pending
        /\ place \in [Prompt -> Nat]
        /\ times \in [Id -> Nat]
        /\ proc \in {"down", "starting", "up", "closing", "closed"} /\ child \in {"alive", "dying", "dead"}
        /\ stops \in Nat
        /\ turn \in Turn /\ (turn.members = {} => turn = NoTurn)
        /\ attempt \in Attempt
        /\ pc \in [Caller -> Stage]
        /\ seen \in [Caller -> SUBSET Id]
        /\ kind \in [Prompt -> Kinds \cup {"none"}])'
    BY DEF IInv, TypeOK, AdapterSilent, queue, calls, stall, life
  <2> QED BY <2>1, <2>2 DEF TypeOK
<1>2. (HandedOnce
      /\ Untold
      /\ Unsent
      /\ Watched
      /\ NeverAgain
      /\ InCall
      /\ WaitEnds
      /\ OwedInLine)'
  BY DEF IInv, HandedOnce, Untold, Unsent, Watched, NeverAgain, InCall,
     WaitEnds, LeftToAdapter, OwedInLine, Undecided, Owed, AdapterSilent, queue, calls,
     stall, life
<1> QED BY <1>1, <1>2 DEF IInv

LEMMA TickKeeps ==
    ASSUME IInv, Tick
    PROVE  IInv'
<1>t. /\ turn' \in Turn /\ turn'.members = turn.members /\ turn.members # {}
      /\ turn'.timer = turn.timer
  BY TickTurn
<1>1. TypeOK'
  <2>1. (claimed \in BOOLEAN /\ doomed \in BOOLEAN /\ lease \in BOOLEAN /\ fenced \in BOOLEAN /\ touched \in BOOLEAN)'
    BY DEF IInv, TypeOK, Tick, life
  <2>2. (turn \in Turn /\ (turn.members = {} => turn = NoTurn))'
    BY <1>t DEF IInv, TypeOK, Tick
  <2>3. (attempt \in Attempt)'
    BY AttemptFacts DEF IInv, TypeOK, Tick
  <2>4. (ledger \in [Prompt -> State]
        /\ lost \subseteq Prompt
        /\ pending \subseteq Prompt /\ commands \subseteq pending
        /\ place \in [Prompt -> Nat]
        /\ times \in [Id -> Nat]
        /\ proc \in {"down", "starting", "up", "closing", "closed"} /\ child \in {"alive", "dying", "dead"}
        /\ stops \in Nat
        /\ pc \in [Caller -> Stage]
        /\ seen \in [Caller -> SUBSET Id]
        /\ kind \in [Prompt -> Kinds \cup {"none"}])'
    BY DEF IInv, TypeOK, Tick, queue, calls, life
  <2> QED BY <2>1, <2>2, <2>3, <2>4 DEF TypeOK
<1>2. Untold'
  BY <1>t DEF IInv, Untold, InCall, Caller, Tick, queue, calls, life
<1>3. Watched'
  BY <1>t DEF IInv, Tick, Safe, Watched, Undecided
<1>4. NeverAgain'
  BY <1>t DEF IInv, NeverAgain, Untold, InCall, Watched, Undecided, Caller,
     Tick, queue, calls, life
<1>5. InCall'
  BY <1>t DEF IInv, Tick, Safe, calls, life, InCall
<1>6. WaitEnds'
  BY <1>t DEF IInv, WaitEnds, LeftToAdapter, NeverAgain, InCall, Caller, Tick, queue, calls,
     life
<1>7. (HandedOnce
      /\ Unsent
      /\ OwedInLine)'
  BY DEF IInv, HandedOnce, Unsent, OwedInLine, Owed, Tick, queue, calls, life
<1> QED BY <1>1, <1>2, <1>3, <1>4, <1>5, <1>6, <1>7 DEF IInv

LEMMA CancelSettlesKeeps ==
    ASSUME IInv, CancelSettles
    PROVE  IInv'
<1>1. TypeOK'
  <2>1. (attempt \in Attempt)'
    BY AttemptFacts DEF IInv, TypeOK, CancelSettles
  <2>2. (ledger \in [Prompt -> State]
        /\ lost \subseteq Prompt
        /\ pending \subseteq Prompt /\ commands \subseteq pending
        /\ place \in [Prompt -> Nat]
        /\ times \in [Id -> Nat]
        /\ proc \in {"down", "starting", "up", "closing", "closed"} /\ child \in {"alive", "dying", "dead"}
        /\ claimed \in BOOLEAN /\ doomed \in BOOLEAN /\ lease \in BOOLEAN /\ fenced \in BOOLEAN /\ touched \in BOOLEAN
        /\ stops \in Nat
        /\ turn \in Turn /\ (turn.members = {} => turn = NoTurn)
        /\ pc \in [Caller -> Stage]
        /\ seen \in [Caller -> SUBSET Id]
        /\ kind \in [Prompt -> Kinds \cup {"none"}])'
    BY DEF IInv, TypeOK, CancelSettles, queue, calls, life
  <2> QED BY <2>1, <2>2 DEF TypeOK
<1>2. Watched'
  BY DEF IInv, Watched, Undecided, CancelSettles, life
<1>3. (HandedOnce
      /\ Untold
      /\ Unsent
      /\ NeverAgain
      /\ InCall
      /\ WaitEnds
      /\ OwedInLine)'
  BY DEF IInv, HandedOnce, Untold, Unsent, NeverAgain, InCall, WaitEnds, LeftToAdapter,
     OwedInLine, Owed, CancelSettles, queue, calls, life
<1> QED BY <1>1, <1>2, <1>3 DEF IInv

LEMMA CancelTimesOutKeeps ==
    ASSUME IInv, CancelTimesOut
    PROVE  IInv'
<1>1. TypeOK'
  <2>1. (attempt \in Attempt)'
    BY AttemptFacts DEF IInv, TypeOK, CancelTimesOut
  <2>2. (ledger \in [Prompt -> State]
        /\ lost \subseteq Prompt
        /\ pending \subseteq Prompt /\ commands \subseteq pending
        /\ place \in [Prompt -> Nat]
        /\ times \in [Id -> Nat]
        /\ proc \in {"down", "starting", "up", "closing", "closed"} /\ child \in {"alive", "dying", "dead"}
        /\ claimed \in BOOLEAN /\ doomed \in BOOLEAN /\ lease \in BOOLEAN /\ fenced \in BOOLEAN /\ touched \in BOOLEAN
        /\ stops \in Nat
        /\ turn \in Turn /\ (turn.members = {} => turn = NoTurn)
        /\ pc \in [Caller -> Stage]
        /\ seen \in [Caller -> SUBSET Id]
        /\ kind \in [Prompt -> Kinds \cup {"none"}])'
    BY DEF IInv, TypeOK, CancelTimesOut, queue, calls, life
  <2> QED BY <2>1, <2>2 DEF TypeOK
<1>2. Watched'
  BY DEF IInv, Watched, Undecided, CancelTimesOut, life
<1>3. (HandedOnce
      /\ Untold
      /\ Unsent
      /\ NeverAgain
      /\ InCall
      /\ WaitEnds
      /\ OwedInLine)'
  BY DEF IInv, HandedOnce, Untold, Unsent, NeverAgain, InCall, WaitEnds, LeftToAdapter,
     OwedInLine, Owed, CancelTimesOut, queue, calls, life
<1> QED BY <1>1, <1>2, <1>3 DEF IInv

LEMMA RecoverKeeps ==
    ASSUME IInv, Recover
    PROVE  IInv'
<1>1. TypeOK'
  <2>1. (times \in [Id -> Nat])'
    BY DEF IInv, TypeOK, Id, Recover, RunSinglePrompt
  <2>2. (claimed \in BOOLEAN /\ doomed \in BOOLEAN /\ lease \in BOOLEAN /\ fenced \in BOOLEAN /\ touched \in BOOLEAN)'
    BY DEF IInv, TypeOK, Recover, life
  <2>3. (turn \in Turn /\ (turn.members = {} => turn = NoTurn))'
    BY RecoverTurn DEF IInv, TypeOK, Recover, RunSinglePrompt
  <2>4. (attempt \in Attempt)'
    BY AttemptFacts DEF IInv, TypeOK, Recover
  <2>5. (ledger \in [Prompt -> State]
        /\ lost \subseteq Prompt
        /\ pending \subseteq Prompt /\ commands \subseteq pending
        /\ place \in [Prompt -> Nat]
        /\ proc \in {"down", "starting", "up", "closing", "closed"} /\ child \in {"alive", "dying", "dead"}
        /\ stops \in Nat
        /\ pc \in [Caller -> Stage]
        /\ seen \in [Caller -> SUBSET Id]
        /\ kind \in [Prompt -> Kinds \cup {"none"}])'
    BY DEF IInv, TypeOK, Recover, queue, calls, life
  <2> QED BY <2>1, <2>2, <2>3, <2>4, <2>5 DEF TypeOK
<1>2. HandedOnce'
  BY DEF IInv, Recover, Held, RunSinglePrompt, HandedOnce, Watched, Undecided
<1>3. Untold'
  BY IdAssumption DEF IInv, Recover, RunSinglePrompt, queue, calls, Untold,
     Id, NoTurn
<1>4. Unsent'
  BY IdAssumption DEF IInv, Recover, RunSinglePrompt, queue, Unsent, Id
<1>5. Watched'
  BY DEF IInv, Recover, Held, life, Watched, Undecided, NoAttempt
<1>6. NeverAgain'
  BY IdAssumption DEF IInv, TypeOK, Recover, GoesAhead, RunSinglePrompt,
     queue, calls, NeverAgain, Id, NoTurn
<1>7. InCall'
  BY DEF IInv, Recover, GoesAhead, RunSinglePrompt, calls, life, InCall,
     NoTurn
<1>8. WaitEnds'
  BY RecoverWaits DEF IInv, WaitEnds, LeftToAdapter, NeverAgain, InCall, Recover,
     RunSinglePrompt, queue, calls, life
<1>9. OwedInLine'
  BY DEF IInv, OwedInLine, Owed, Recover, queue, calls, life
<1> QED BY <1>1, <1>2, <1>3, <1>4, <1>5, <1>6, <1>7, <1>8, <1>9 DEF IInv

LEMMA ChildExitsKeeps ==
    ASSUME IInv, ChildExits
    PROVE  IInv'
<1>1. TypeOK'
  <2>1. (proc \in {"down", "starting", "up", "closing", "closed"} /\ child \in {"alive", "dying", "dead"})'
    BY DEF IInv, TypeOK, ChildExits
  <2>2. (claimed \in BOOLEAN /\ doomed \in BOOLEAN /\ lease \in BOOLEAN /\ fenced \in BOOLEAN /\ touched \in BOOLEAN)'
    BY DEF IInv, TypeOK, ChildExits, stall
  <2>3. (ledger \in [Prompt -> State]
        /\ lost \subseteq Prompt
        /\ pending \subseteq Prompt /\ commands \subseteq pending
        /\ place \in [Prompt -> Nat]
        /\ times \in [Id -> Nat]
        /\ stops \in Nat
        /\ turn \in Turn /\ (turn.members = {} => turn = NoTurn)
        /\ attempt \in Attempt
        /\ pc \in [Caller -> Stage]
        /\ seen \in [Caller -> SUBSET Id]
        /\ kind \in [Prompt -> Kinds \cup {"none"}])'
    BY DEF IInv, TypeOK, ChildExits, queue, calls, stall
  <2> QED BY <2>1, <2>2, <2>3 DEF TypeOK
<1>2. OwedInLine'
  BY DEF IInv, OwedInLine, Owed, ChildExits, queue, calls
<1>3. (HandedOnce
      /\ Untold
      /\ Unsent
      /\ Watched
      /\ NeverAgain
      /\ InCall
      /\ WaitEnds)'
  BY DEF IInv, HandedOnce, Untold, Unsent, Watched, NeverAgain, InCall,
     WaitEnds, LeftToAdapter, Undecided, ChildExits, queue, calls, stall
<1> QED BY <1>1, <1>2, <1>3 DEF IInv

LEMMA CloseKeeps ==
    ASSUME IInv, Close
    PROVE  IInv'
<1>1. TypeOK'
  <2>1. (pending \subseteq Prompt /\ commands \subseteq pending)'
    BY DEF IInv, TypeOK, Close
  <2>2. (proc \in {"down", "starting", "up", "closing", "closed"} /\ child \in {"alive", "dying", "dead"})'
    BY DEF IInv, TypeOK, Close
  <2>3. (claimed \in BOOLEAN /\ doomed \in BOOLEAN /\ lease \in BOOLEAN /\ fenced \in BOOLEAN /\ touched \in BOOLEAN)'
    BY DEF IInv, TypeOK, Close, Supersede
  <2>4. (turn \in Turn /\ (turn.members = {} => turn = NoTurn))'
    BY TurnFacts DEF IInv, TypeOK, Close
  <2>5. (attempt \in Attempt)'
    BY AttemptFacts DEF IInv, TypeOK, Close, Supersede
  <2>6. (ledger \in [Prompt -> State]
        /\ lost \subseteq Prompt
        /\ place \in [Prompt -> Nat]
        /\ times \in [Id -> Nat]
        /\ stops \in Nat
        /\ pc \in [Caller -> Stage]
        /\ seen \in [Caller -> SUBSET Id]
        /\ kind \in [Prompt -> Kinds \cup {"none"}])'
    BY DEF IInv, TypeOK, Close, calls
  <2> QED BY <2>1, <2>2, <2>3, <2>4, <2>5, <2>6 DEF TypeOK
<1>2. Untold'
  BY DEF IInv, Untold, Close, calls
<1>3. Unsent'
  BY DEF IInv, Unsent, Close
<1>4. Watched'
  BY DEF IInv, TypeOK, Close, Supersede, Undecided, Watched
<1>5. NeverAgain'
  BY DEF IInv, NeverAgain, Close, calls
<1>6. InCall'
  BY DEF IInv, InCall, Close, calls
<1>7. WaitEnds'
  BY DEF IInv, WaitEnds, LeftToAdapter, Close, calls
<1>8. OwedInLine'
  BY DEF IInv, OwedInLine, Owed, InCall, Caller, Close, calls
<1>9. HandedOnce'
  BY DEF IInv, HandedOnce, Close
<1> QED BY <1>1, <1>2, <1>3, <1>4, <1>5, <1>6, <1>7, <1>8, <1>9 DEF IInv

LEMMA ClosedKeeps ==
    ASSUME IInv, Closed
    PROVE  IInv'
<1>1. TypeOK'
  <2>1. (proc \in {"down", "starting", "up", "closing", "closed"} /\ child \in {"alive", "dying", "dead"})'
    BY DEF IInv, TypeOK, Closed
  <2>2. (ledger \in [Prompt -> State]
        /\ lost \subseteq Prompt
        /\ pending \subseteq Prompt /\ commands \subseteq pending
        /\ place \in [Prompt -> Nat]
        /\ times \in [Id -> Nat]
        /\ claimed \in BOOLEAN /\ doomed \in BOOLEAN /\ lease \in BOOLEAN /\ fenced \in BOOLEAN /\ touched \in BOOLEAN
        /\ stops \in Nat
        /\ turn \in Turn /\ (turn.members = {} => turn = NoTurn)
        /\ attempt \in Attempt
        /\ pc \in [Caller -> Stage]
        /\ seen \in [Caller -> SUBSET Id]
        /\ kind \in [Prompt -> Kinds \cup {"none"}])'
    BY DEF IInv, TypeOK, Closed, queue, calls, stall
  <2> QED BY <2>1, <2>2 DEF TypeOK
<1>2. Watched'
  BY DEF IInv, Watched, Undecided, Closed, stall
<1>3. InCall'
  BY DEF IInv, InCall, Closed, calls
<1>4. WaitEnds'
  BY DEF IInv, WaitEnds, LeftToAdapter, Closed, calls
<1>5. OwedInLine'
  BY DEF IInv, OwedInLine, Owed, Closed, queue, calls
<1>6. (HandedOnce
      /\ Untold
      /\ Unsent
      /\ NeverAgain)'
  BY DEF IInv, HandedOnce, Untold, Unsent, NeverAgain, Closed, queue, calls
<1> QED BY <1>1, <1>2, <1>3, <1>4, <1>5, <1>6 DEF IInv

LEMMA StopKeeps ==
    ASSUME IInv, Stop
    PROVE  IInv'
<1>1. TypeOK'
  <2>1. (pending \subseteq Prompt /\ commands \subseteq pending)'
    BY DEF IInv, TypeOK, Stop, Reset
  <2>2. (proc \in {"down", "starting", "up", "closing", "closed"} /\ child \in {"alive", "dying", "dead"})'
    BY DEF IInv, TypeOK, Stop, Reset
  <2>3. (claimed \in BOOLEAN /\ doomed \in BOOLEAN /\ lease \in BOOLEAN /\ fenced \in BOOLEAN /\ touched \in BOOLEAN)'
    BY DEF IInv, TypeOK, Stop, Reset
  <2>4. (stops \in Nat)'
    BY DEF IInv, TypeOK, Stop, Reset
  <2>5. (turn \in Turn /\ (turn.members = {} => turn = NoTurn))'
    BY TurnFacts DEF IInv, TypeOK, Stop, Reset
  <2>6. (attempt \in Attempt)'
    BY AttemptFacts DEF IInv, TypeOK, Stop, Reset
  <2>7. (pc \in [Caller -> Stage])'
    BY DEF IInv, TypeOK, Stage, Caller, Stop, Reset, Refuse
  <2>8. (seen \in [Caller -> SUBSET Id])'
    BY TurnMembers DEF IInv, TypeOK, Caller, Stop, Reset, Refuse
  <2>9. (kind \in [Prompt -> Kinds \cup {"none"}])'
    BY DEF IInv, TypeOK, Kinds, Caller, Stop, Reset, Refuse
  <2>10. (ledger \in [Prompt -> State]
        /\ lost \subseteq Prompt
        /\ place \in [Prompt -> Nat]
        /\ times \in [Id -> Nat])'
    BY DEF IInv, TypeOK, Stop
  <2> QED BY <2>1, <2>2, <2>3, <2>4, <2>5, <2>6, <2>7, <2>8, <2>9, <2>10 DEF TypeOK
<1>2. Untold'
  BY DEF IInv, Stop, Reset, Refuse, Untold, Caller, NoTurn
<1>3. Unsent'
  BY DEF IInv, Unsent, Stop, Reset
<1>4. Watched'
  BY DEF IInv, Stop, Reset, Watched, Undecided, NoAttempt
<1>5. NeverAgain'
  BY DEF IInv, Stop, Reset, Refuse, NeverAgain, NoTurn
<1>6. InCall'
  BY StopKeepsInCall DEF IInv, Stop
<1>7. WaitEnds'
  BY DEF IInv, WaitEnds, LeftToAdapter, Stop, Reset, Refuse
<1>8. OwedInLine'
  BY DEF IInv, OwedInLine, Owed, Stop, Reset, Refuse
<1>9. HandedOnce'
  BY DEF IInv, HandedOnce, Stop
<1> QED BY <1>1, <1>2, <1>3, <1>4, <1>5, <1>6, <1>7, <1>8, <1>9 DEF IInv

LEMMA StopInReleaseKeeps ==
    ASSUME IInv, StopInRelease
    PROVE  IInv'
<1>1. TypeOK'
  <2>1. (ledger \in [Prompt -> State])'
    BY DEF IInv, TypeOK, StopInRelease, Recorded, State
  <2>2. (pending \subseteq Prompt /\ commands \subseteq pending)'
    BY BatchIsPending DEF IInv, TypeOK, StopInRelease, Reset
  <2>3. (proc \in {"down", "starting", "up", "closing", "closed"} /\ child \in {"alive", "dying", "dead"})'
    BY DEF IInv, TypeOK, StopInRelease, Reset
  <2>4. (claimed \in BOOLEAN /\ doomed \in BOOLEAN /\ lease \in BOOLEAN /\ fenced \in BOOLEAN /\ touched \in BOOLEAN)'
    BY DEF IInv, TypeOK, StopInRelease, Reset
  <2>5. (stops \in Nat)'
    BY DEF IInv, TypeOK, StopInRelease, Reset
  <2>6. (turn \in Turn /\ (turn.members = {} => turn = NoTurn))'
    BY TurnFacts, BatchIsPending DEF IInv, TypeOK, StopInRelease, Reset
  <2>7. (attempt \in Attempt)'
    BY AttemptFacts DEF IInv, TypeOK, StopInRelease, Reset
  <2>8. (pc \in [Caller -> Stage])'
    BY DEF IInv, TypeOK, Stage, Caller, StopInRelease, Reset, Refuse
  <2>9. (seen \in [Caller -> SUBSET Id])'
    BY TurnMembers DEF IInv, TypeOK, Caller, StopInRelease, Reset, Refuse
  <2>10. (kind \in [Prompt -> Kinds \cup {"none"}])'
    BY DEF IInv, TypeOK, Kinds, Caller, StopInRelease, Reset, Refuse
  <2>11. (lost \subseteq Prompt
        /\ place \in [Prompt -> Nat]
        /\ times \in [Id -> Nat])'
    BY DEF IInv, TypeOK, StopInRelease
  <2> QED BY <2>1, <2>2, <2>3, <2>4, <2>5, <2>6, <2>7, <2>8, <2>9, <2>10, <2>11 DEF TypeOK
<1>2. Untold'
  BY DEF IInv, StopInRelease, AtBoundary, Reset, Recorded, Refuse, Untold,
     Caller
<1>3. Unsent'
  BY DEF IInv, StopInRelease, Reset, Recorded, Unsent
<1>4. Watched'
  BY DEF IInv, StopInRelease, Reset, Watched, Undecided, NoAttempt
<1>5. NeverAgain'
  BY DEF IInv, StopInRelease, AtBoundary, Reset, Refuse, NeverAgain
<1>6. InCall'
  BY StopKeepsInCall DEF IInv, StopInRelease
<1>7. WaitEnds'
  BY DEF IInv, WaitEnds, LeftToAdapter, StopInRelease, Reset, Refuse
<1>8. OwedInLine'
  BY DEF IInv, OwedInLine, Owed, StopInRelease, Reset, Refuse
<1>9. HandedOnce'
  BY DEF IInv, HandedOnce, StopInRelease
<1> QED BY <1>1, <1>2, <1>3, <1>4, <1>5, <1>6, <1>7, <1>8, <1>9 DEF IInv

LEMMA StartKeeps ==
    ASSUME IInv, Start
    PROVE  IInv'
<1>1. TypeOK'
  <2>1. (ledger \in [Prompt -> State])'
    BY DEF IInv, TypeOK, Start, AppendSafe, Recorded, State
  <2>2. (lost \subseteq Prompt)'
    BY LossesArePrompts DEF IInv, TypeOK, Start, AppendSafe
  <2>3. (pending \subseteq Prompt /\ commands \subseteq pending)'
    BY DEF IInv, TypeOK, Start
  <2>4. (proc \in {"down", "starting", "up", "closing", "closed"} /\ child \in {"alive", "dying", "dead"})'
    BY DEF IInv, TypeOK, Start
  <2>5. (claimed \in BOOLEAN /\ doomed \in BOOLEAN /\ lease \in BOOLEAN /\ fenced \in BOOLEAN /\ touched \in BOOLEAN)'
    BY DEF IInv, TypeOK, Start
  <2>6. (place \in [Prompt -> Nat]
        /\ times \in [Id -> Nat]
        /\ stops \in Nat
        /\ turn \in Turn /\ (turn.members = {} => turn = NoTurn)
        /\ attempt \in Attempt
        /\ pc \in [Caller -> Stage]
        /\ seen \in [Caller -> SUBSET Id]
        /\ kind \in [Prompt -> Kinds \cup {"none"}])'
    BY DEF IInv, TypeOK, Start, calls
  <2> QED BY <2>1, <2>2, <2>3, <2>4, <2>5, <2>6 DEF TypeOK
<1>2. HandedOnce'
  BY DEF IInv, HandedOnce, Start, AppendSafe
<1>3. Untold'
  BY DEF IInv, Start, AppendSafe, Recovered, calls, Recorded, Untold
<1>4. Unsent'
  BY DEF IInv, Start, AppendSafe, Recovered, Recorded, Unsent
<1>5. Watched'
  BY DEF IInv, Watched, Undecided, Start
<1>6. NeverAgain'
  BY DEF IInv, Start, calls, NeverAgain, InCall, NoTurn
<1>7. InCall'
  BY DEF IInv, InCall, Start, calls
<1>8. WaitEnds'
  BY <1>7 DEF InCall, WaitEnds, Start
<1>9. OwedInLine'
  BY DEF IInv, Start, AppendSafe, Recorded, OwedInLine, Owed
<1> QED BY <1>1, <1>2, <1>3, <1>4, <1>5, <1>6, <1>7, <1>8, <1>9 DEF IInv

LEMMA ActivateRecoveredPromptsKeeps ==
    ASSUME IInv, ActivateRecoveredPrompts
    PROVE  IInv'
<1>1. TypeOK'
  <2>1. (proc \in {"down", "starting", "up", "closing", "closed"} /\ child \in {"alive", "dying", "dead"})'
    BY DEF IInv, TypeOK, ActivateRecoveredPrompts
  <2>2. (ledger \in [Prompt -> State]
        /\ lost \subseteq Prompt
        /\ pending \subseteq Prompt /\ commands \subseteq pending
        /\ place \in [Prompt -> Nat]
        /\ times \in [Id -> Nat]
        /\ claimed \in BOOLEAN /\ doomed \in BOOLEAN /\ lease \in BOOLEAN /\ fenced \in BOOLEAN /\ touched \in BOOLEAN
        /\ stops \in Nat
        /\ turn \in Turn /\ (turn.members = {} => turn = NoTurn)
        /\ attempt \in Attempt
        /\ pc \in [Caller -> Stage]
        /\ seen \in [Caller -> SUBSET Id]
        /\ kind \in [Prompt -> Kinds \cup {"none"}])'
    BY DEF IInv, TypeOK, ActivateRecoveredPrompts, queue, calls, stall
  <2> QED BY <2>1, <2>2 DEF TypeOK
<1>2. Watched'
  BY DEF IInv, Watched, Undecided, ActivateRecoveredPrompts, stall
<1>3. InCall'
  BY DEF IInv, ActivateRecoveredPrompts, calls, InCall, NoTurn
<1>4. WaitEnds'
  BY DEF IInv, WaitEnds, LeftToAdapter, NeverAgain, InCall, Caller,
     ActivateRecoveredPrompts, queue, calls
<1>5. OwedInLine'
  BY DEF IInv, OwedInLine, Owed, ActivateRecoveredPrompts, queue, calls
<1>6. (HandedOnce
      /\ Untold
      /\ Unsent
      /\ NeverAgain)'
  BY DEF IInv, HandedOnce, Untold, Unsent, NeverAgain,
     ActivateRecoveredPrompts, queue, calls
<1> QED BY <1>1, <1>2, <1>3, <1>4, <1>5, <1>6 DEF IInv

-----------------------------------------------------------------------------
LEMMA InitHolds ==
    ASSUME Init PROVE IInv
<1>1. TypeOK
  BY TurnFacts, AttemptFacts DEF Init, TypeOK, State, Stage, Caller, Id
<1>2. HandedOnce /\ WaitEnds /\ Untold /\ Unsent
  BY TurnFacts DEF Init, HandedOnce, WaitEnds, LeftToAdapter, Untold, Unsent, Id, Caller
<1>3. Watched
  BY DEF Init, Watched, Undecided, NoAttempt, Id
<1>4. NeverAgain /\ InCall
  BY TurnFacts DEF Init, NeverAgain, InCall
<1>5. OwedInLine
  BY DEF Init, OwedInLine, Owed
<1> QED BY <1>1, <1>2, <1>3, <1>4, <1>5 DEF IInv

LEMMA StutterKeeps ==
    ASSUME IInv, UNCHANGED vars PROVE IInv'
BY DEF IInv, vars, queue, calls, stall, life, TypeOK, HandedOnce, WaitEnds, LeftToAdapter, Untold,
       Unsent, Watched, Undecided, NeverAgain, InCall, OwedInLine, Owed

LEMMA StepKeeps ==
    ASSUME IInv, [Next]_vars PROVE IInv'
<1>1. CASE Submit
  BY <1>1, SubmitQueuedKeeps, SubmitSteeredKeeps, SubmitInterruptingKeeps DEF Submit
<1>2. CASE Call
  <2>1. ASSUME NEW source, Interrupt(source) PROVE IInv'  BY <2>1, InterruptKeeps
  <2>2. ASSUME NEW a \in Caller, Notified(a) \/ NotifyFails(a) \/ Settled(a) PROVE IInv'
    BY <2>2, NotifiedKeeps, NotifyFailsKeeps, SettledKeeps
  <2>3. ASSUME NEW p \in Prompt, Injected(p) \/ StartedNewTurn(p) \/ SteeringFails(p)
        PROVE  IInv'
    BY <2>3, InjectedKeeps, StartedNewTurnKeeps, SteeringFailsKeeps
  <2> QED BY <1>2, <2>1, <2>2, <2>3 DEF Call
<1>3. CASE Session
  <2>1. ASSUME NEW cancelled \in BOOLEAN, End(cancelled) PROVE IInv'  BY <2>1, EndKeeps
  <2>2. CASE \/ CancelDeadline \/ Release \/ RefuseAtRelease \/ AdapterSilent
             \/ Tick \/ CancelSettles \/ CancelTimesOut \/ Recover
    BY <2>2, CancelDeadlineKeeps, ReleaseKeeps, RefuseAtReleaseKeeps, AdapterSilentKeeps,
       TickKeeps, CancelSettlesKeeps, CancelTimesOutKeeps, RecoverKeeps
  <2> QED BY <1>3, <2>1, <2>2 DEF Session, Answer, Terminated
<1>4. CASE Life
  BY <1>4, ChildExitsKeeps, CloseKeeps, ClosedKeeps, StopKeeps, StopInReleaseKeeps,
     StartKeeps, ActivateRecoveredPromptsKeeps DEF Life
<1> QED BY <1>1, <1>2, <1>3, <1>4, StutterKeeps DEF Next

(* What a prompt, a turn and an attempt leave behind holds of every state. *)
THEOREM Inductive == Spec => []IInv
<1>1. Init => IInv  BY InitHolds
<1>2. IInv /\ [Next]_vars => IInv'  BY StepKeeps
<1> QED BY <1>1, <1>2, PTL DEF Spec

(* The types hold of every session.                                        *)
THEOREM TypeIsInvariant == Spec => []TypeOK
<1>1. IInv => TypeOK  BY DEF IInv
<1> QED BY <1>1, Inductive, PTL

(* No prompt is handed to the adapter twice, whatever restarts and         *)
(* cancellations come in between, unless a record of it was lost.          *)
THEOREM HandedOnceHolds == Spec => []HandedOnce
<1>1. IInv => HandedOnce  BY DEF IInv
<1> QED BY <1>1, Inductive, PTL

(* Whoever waits for a cancelled turn has something of the program to end  *)
(* the wait, in every phase of the process: the turn is over, a deadline   *)
(* is armed or went off, the connection or the adapter is gone; or close   *)
(* has left the turn to the adapter.                                       *)
THEOREM WaitEndsHolds == Spec => []WaitEnds
<1>1. IInv => WaitEnds  BY DEF IInv
<1> QED BY <1>1, Inductive, PTL

-----------------------------------------------------------------------------
(* Only a release begins a turn of prompts, and it takes them in order.    *)
LEMMA OnlyReleaseBegins ==
    ASSUME IInv, Next, turn = NoTurn, turn' # NoTurn, turn'.members # {Diagnosis}
    PROVE  Release
<1>1. ~Submit
  BY DEF Submit, SubmitQueued, SubmitSteered, SubmitInterrupting, CancelActive
<1>2. CASE Call
  <2>1. ASSUME NEW a \in Caller, Notified(a) PROVE FALSE
    BY <2>1, NotifiedTurn
  <2> QED BY <1>2, <2>1 DEF Call, Interrupt, CancelActive, NotifyFails, Settled, Injected,
             StartedNewTurn, SteeringFails
<1>3. CASE Session
  <2>1. CASE CancelDeadline  BY <2>1, CancelDeadlineTurn, TurnFacts
  <2>2. CASE Recover
    BY <2>2, RecoverTurn
  <2> QED BY <1>3, <2>1, <2>2 DEF Session, RefuseAtRelease, Answer, Terminated, End, AdapterSilent,
             Tick, Safe, CancelSettles, CancelTimesOut
<1>4. ~Life
  BY TurnFacts DEF Life, ChildExits, Close, Closed, Stop, StopInRelease, Reset, Start,
             ActivateRecoveredPrompts
<1> QED BY <1>1, <1>2, <1>3, <1>4 DEF Next

LEMMA BatchInOrder ==
    ASSUME IInv, NEW p \in Prompt, First(p), NEW m \in TakeBatch(p),
           NEW q \in pending \ TakeBatch(p), place[q] < place[m]
    PROVE  Overtakes(m, q)
<1>1. place \in [Prompt -> Nat] /\ pending \subseteq Prompt /\ commands \subseteq pending
  BY DEF IInv, TypeOK
<1>2. m \in pending /\ q \in pending  BY BatchIsPending DEF First
<1>3. place[p] <= place[q] /\ place[p] \in Nat /\ place[q] \in Nat /\ place[m] \in Nat
  BY <1>1, <1>2 DEF First
<1>4. ~(kind[p] = "internal" \/ p \in commands)
  BY <1>3 DEF TakeBatch
<1>5. /\ m \notin commands /\ kind[m] # "internal"
      /\ \A c \in commands : place[m] < place[c]
  BY <1>4 DEF TakeBatch
<1>6. q \notin commands  BY <1>3, <1>5
<1>7. CASE kind[q] # "internal"
  <2>1. PICK c \in commands : ~(place[q] < place[c])
    BY <1>2, <1>4, <1>6, <1>7 DEF TakeBatch
  <2>2. place[c] \in Nat /\ place[m] < place[c]  BY <1>1, <1>5, <2>1
  <2> QED BY <1>3, <2>1, <2>2
<1> QED BY <1>5, <1>7 DEF Overtakes

(* A prompt is never overtaken by one that was admitted after it, except   *)
(* an internal one by messages; nor does a command share its turn.         *)
THEOREM InOrderHolds == Spec => InOrder
<1> DEFINE Step == (turn = NoTurn /\ turn' # NoTurn /\ turn'.members # {Diagnosis}) =>
               /\ turn'.members \cap commands = {} \/ \E p \in Prompt : turn'.members = {p}
               /\ \A m \in turn'.members, q \in Prompt \ turn'.members :
                     (Owed(q) /\ place[q] < place[m]) => Overtakes(m, q)
<1>1. IInv /\ [Next]_vars => [Step]_vars
  <2> SUFFICES ASSUME IInv, Next, turn = NoTurn, turn' # NoTurn, turn'.members # {Diagnosis}
               PROVE  Step
    OBVIOUS
  <2>1. Release  BY OnlyReleaseBegins
  <2>2. PICK p \in Prompt : /\ First(p) /\ TakeBatch(p) \in SUBSET Id /\ child # "dead"
                            /\ RunSinglePrompt(TakeBatch(p))
    BY <2>1, ReleaseCase
  <2>3. turn'.members = TakeBatch(p)  BY <2>2, HandsOver
  <2>4. TakeBatch(p) \cap commands = {} \/ TakeBatch(p) = {p}  BY DEF TakeBatch
  <2>5. ASSUME NEW m \in TakeBatch(p), NEW q \in Prompt \ TakeBatch(p),
               Owed(q), place[q] < place[m]
        PROVE  Overtakes(m, q)
    <3>1. q \in pending
      BY <2>1, <2>2, <2>5 DEF IInv, OwedInLine, Release, AtBoundary, First
    <3> QED BY <2>2, <2>5, <3>1, BatchInOrder
  <2> QED BY <2>3, <2>4, <2>5
<1> QED BY <1>1, Inductive, PTL DEF Spec, InOrder

LEMMA SupersedingKeepsPhase ==
    ASSUME TypeOK, NEW foreign, Supersede(foreign) PROVE attempt'.phase = attempt.phase
<1>1. attempt \in Attempt  BY DEF TypeOK
<1>2. attempt' = attempt \/ attempt' = [attempt EXCEPT !.superseded = TRUE]
  BY DEF Supersede
<1> QED BY <1>1, <1>2 DEF Attempt

(* Nothing else than a tick of the watchdog begins a cancellation.         *)
LEMMA OnlyTickCancels ==
    ASSUME TypeOK, Next, attempt'.phase = "cancelling", attempt.phase # "cancelling"
    PROVE  Tick
<1>1. attempt \in Attempt  BY DEF TypeOK
<1>2. ASSUME NEW a, NEW source, CancelActive(a, source) PROVE FALSE
  BY <1>2, SupersedingKeepsPhase DEF CancelActive
<1>3. ~Submit
  BY <1>2 DEF Submit, SubmitQueued, SubmitSteered, SubmitInterrupting, stall
<1>4. ~Call
  BY <1>2 DEF Call, Interrupt, Notified, NotifyFails, Settled, Injected,
     StartedNewTurn, SteeringFails, stall
<1>5. ASSUME NEW cancelled, End(cancelled) PROVE FALSE
  BY <1>1, <1>5 DEF End, EndAttempt, Attempt
<1>6. ~(CancelSettles \/ CancelTimesOut)
  BY <1>1 DEF CancelSettles, CancelTimesOut, Attempt
<1>7. ~(CancelDeadline \/ Release \/ RefuseAtRelease \/ AdapterSilent)
  BY DEF CancelDeadline, Release, RefuseAtRelease, AdapterSilent, stall
<1>8. ~Recover  BY DEF Recover, NoAttempt
<1>9. ~(Start \/ ChildExits \/ Closed \/ ActivateRecoveredPrompts)
  BY DEF Start, ChildExits, Closed, ActivateRecoveredPrompts, stall
<1>10. ~(Stop \/ StopInRelease)
  BY DEF Stop, StopInRelease, Reset, NoAttempt
<1>11. ~Close  BY SupersedingKeepsPhase DEF Close
<1> QED BY <1>3, <1>4, <1>5, <1>6, <1>7, <1>8, <1>9, <1>10, <1>11
        DEF Next, Session, Life, Answer, Terminated

(* The recovery prompt is sent by nothing else than a held slot.           *)
LEMMA OnlyRecoverDiagnoses ==
    ASSUME IInv, Next, times'[Diagnosis] # times[Diagnosis]
    PROVE  Recover
<1>1. ASSUME NEW p \in Prompt, times' = [times EXCEPT ![p] = @ + 1] PROVE FALSE
  BY <1>1, IdAssumption DEF IInv, TypeOK, Id
<1>2. ~Submit
  BY DEF Submit, SubmitQueued, SubmitSteered, SubmitInterrupting, CancelActive
<1>3. ~Call
  BY <1>1 DEF Call, Interrupt, CancelActive, Notified, NotifyFails, Settled, Injected,
     StartedNewTurn, SteeringFails
<1>4. ~Release
  <2> SUFFICES ASSUME Release PROVE FALSE
    OBVIOUS
  <2>1. PICK p \in Prompt :
           /\ TakeBatch(p) \subseteq pending /\ TakeBatch(p) \in SUBSET Id
           /\ RunSinglePrompt(TakeBatch(p)) \/ UNCHANGED times
    BY ReleaseCase
  <2>2. Diagnosis \notin TakeBatch(p)  BY <2>1, IdAssumption DEF IInv, TypeOK
  <2> QED BY <2>1, <2>2, HandsOver DEF Id
<1>5. ~(\/ CancelDeadline \/ RefuseAtRelease \/ AdapterSilent \/ Tick \/ CancelSettles
        \/ CancelTimesOut \/ \E cancelled : End(cancelled))
  BY DEF CancelDeadline, RefuseAtRelease, AdapterSilent, Tick, CancelSettles,
     CancelTimesOut, End
<1>6. ~Life
  BY DEF Life, ChildExits, Close, Closed, Stop, StopInRelease, Start,
     ActivateRecoveredPrompts
<1> QED BY <1>2, <1>3, <1>4, <1>5, <1>6 DEF Next, Session, Answer, Terminated

(* One cancellation by the watchdog and one recovery prompt in the life of *)
(* a session, and none after somebody else stepped in.                     *)
THEOREM OneDiagnosisHolds == Spec => OneDiagnosis
<1> DEFINE Step ==
      /\ (claimed /\ attempt'.phase = "cancelling") => attempt.phase = "cancelling"
      /\ times'[Diagnosis] # times[Diagnosis] => (~touched /\ times[Diagnosis] = 0)
<1>1. ASSUME IInv, Next, claimed, attempt'.phase = "cancelling"
      PROVE  attempt.phase = "cancelling"
  <2>1. Tick => ~claimed  BY <1>1 DEF Tick, Safe, IInv, Watched
  <2> QED BY <1>1, <2>1, OnlyTickCancels DEF IInv
<1>2. ASSUME IInv, Next, times'[Diagnosis] # times[Diagnosis]
      PROVE  ~touched /\ times[Diagnosis] = 0
  <2>1. Recover  BY <1>2, OnlyRecoverDiagnoses
  <2>2. GoesAhead /\ Undecided  BY <1>2, <2>1 DEF Recover, Held, Undecided
  <2> QED BY <1>2, <2>2 DEF GoesAhead, IInv, Watched
<1>3. IInv /\ [Next]_vars => [Step]_vars  BY <1>1, <1>2
<1> QED BY <1>3, Inductive, PTL DEF Spec, OneDiagnosis
=============================================================================
