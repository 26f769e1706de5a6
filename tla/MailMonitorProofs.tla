------------------------- MODULE MailMonitorProofs -------------------------
(***************************************************************************)
(* The cursor of MailMonitor, for streams of every length and any number   *)
(* of faults, crashes and restarts: a launch never resumes behind a        *)
(* notification whose wake had not succeeded, and nobody is woken twice    *)
(* for the same one but after a mishap.                                    *)
(***************************************************************************)
EXTENDS MailMonitor, TLAPS

Cursor == {None} \cup 0..Tip

(* What the agent was woken for, or a start at the tip left behind.        *)
Settled == told \cup skipped

Typed ==
    /\ stream \in Seq(Kind)
    /\ file \in Cursor /\ state \in Cursor /\ cursor \in Cursor /\ delivered \in Cursor

(* Every place a cursor is kept, not only the one a launch would read: a   *)
(* failing write may bring the older one back.                             *)
KeptIsSettled ==
    /\ Wakes(0, file) \subseteq Settled
    /\ Wakes(0, state) \subseteq Settled
    /\ Wakes(0, delivered) \subseteq Settled

ObservedIsHeld == Wakes(0, From) \subseteq pending \cup Settled

AcceptedIsTold == pc = "accepted" => pending \subseteq told

IInv == Typed /\ KeptIsSettled /\ ObservedIsHeld /\ AcceptedIsTold

-----------------------------------------------------------------------------
(* A longer stream has the same notifications behind the same cursor.      *)
LEMMA Longer ==
    ASSUME stream \in Seq(Kind), NEW kind \in Kind, stream' = Append(stream, kind),
           NEW c \in Cursor
    PROVE  /\ c \in Cursor'
           /\ \A i \in 1..c : stream'[i] = stream[i]
BY DEF Cursor, Tip, None

(* A stretch and the next one.                                             *)
LEMMA Stretches ==
    ASSUME NEW from \in Int, NEW to \in Int, from <= to
    PROVE  Wakes(0, to) \subseteq Wakes(0, from) \cup Wakes(from, to)
BY DEF Wakes

LEMMA PageType ==
    ASSUME Typed, NEW k \in PageEnds
    PROVE  /\ k \in 0..Tip /\ From \in 0..Tip /\ From <= k
           /\ Wakes(0, k) \subseteq Wakes(0, From) \cup Wakes(From, k)
<1>1. Tip \in Nat
    BY DEF Typed, Tip
<1>2. k \in 0..Tip /\ From \in 0..Tip /\ From <= k
    BY <1>1 DEF Typed, PageEnds, From, Cursor, None
<1> QED BY <1>1, <1>2, Stretches

LEMMA InitIInv == Init => IInv
<1> SUFFICES ASSUME Init PROVE IInv
    OBVIOUS
<1>1. stream \in Seq(Kind)
    <2>1. CASE stream = <<>>
        BY <2>1
    <2>2. CASE stream = <<"mail">>
        BY <2>2 DEF Kind
    <2>3. CASE stream = <<"intro">>
        BY <2>3 DEF Kind
    <2> QED BY <2>1, <2>2, <2>3 DEF Init
<1>2. Tip \in Nat
    BY <1>1 DEF Tip
<1>3. Typed
    BY <1>1, <1>2 DEF Init, Typed, Cursor
<1>4. KeptIsSettled
    BY <1>2 DEF Init, KeptIsSettled, Settled, Wakes, None
<1>5. ObservedIsHeld /\ AcceptedIsTold
    BY DEF Init, ObservedIsHeld, AcceptedIsTold, From, Wakes, None
<1> QED BY <1>3, <1>4, <1>5 DEF IInv

-----------------------------------------------------------------------------
(* The steps that leave the stream and every cursor alone.                 *)
LEMMA Aside ==
    ASSUME IInv, UNCHANGED <<stream, file, state, cursor, delivered, pending, skipped>>,
           told \subseteq told', AcceptedIsTold'
    PROVE  IInv'
<1>1. Typed'
    BY DEF IInv, Typed, Cursor, Tip
<1>2. KeptIsSettled' /\ ObservedIsHeld'
    BY DEF IInv, KeptIsSettled, ObservedIsHeld, Settled, From, Wakes
<1> QED BY <1>1, <1>2 DEF IInv

LEMMA ArriveStep == ASSUME IInv, NEW kind \in Kind, Arrive(kind) PROVE IInv'
<1>1. stream' = Append(stream, kind)
    BY DEF Arrive
<1>2. UNCHANGED <<file, state, cursor, delivered, told, skipped, pending, pc>>
    BY DEF Arrive, fileVars, historyVars, turnVars, memoryVars
<1>3. stream \in Seq(Kind) /\ stream' \in Seq(Kind)
    BY <1>1 DEF IInv, Typed
<1>4. ASSUME NEW c \in Cursor
      PROVE  c \in Cursor' /\ \A i \in 1..c : stream'[i] = stream[i]
    BY <1>1, <1>3, Longer
<1>5. /\ file \in Cursor /\ state \in Cursor /\ cursor \in Cursor /\ delivered \in Cursor
      /\ From \in Cursor
    BY <1>3 DEF IInv, Typed, From, Cursor, Tip, None
<1>6. Typed'
    BY <1>2, <1>3, <1>4, <1>5 DEF Typed
<1>7. From' = From /\ Settled' = Settled
    BY <1>2 DEF From, Settled
<1>8. /\ Wakes(0, file)' \subseteq Wakes(0, file)
      /\ Wakes(0, state)' \subseteq Wakes(0, state)
      /\ Wakes(0, delivered)' \subseteq Wakes(0, delivered)
      /\ Wakes(0, From)' \subseteq Wakes(0, From)
    <2>1. /\ \A i \in 1..file : stream'[i] = stream[i]
          /\ \A i \in 1..state : stream'[i] = stream[i]
          /\ \A i \in 1..delivered : stream'[i] = stream[i]
          /\ \A i \in 1..From : stream'[i] = stream[i]
        BY <1>4, <1>5
    <2>2. Wakes(0, file)' \subseteq Wakes(0, file)
        BY <1>2, <2>1 DEF Wakes
    <2>3. Wakes(0, state)' \subseteq Wakes(0, state)
        BY <1>2, <2>1 DEF Wakes
    <2>4. Wakes(0, delivered)' \subseteq Wakes(0, delivered)
        BY <1>2, <2>1 DEF Wakes
    <2>5. Wakes(0, From)' \subseteq Wakes(0, From)
        BY <1>7, <2>1 DEF Wakes
    <2> QED BY <2>2, <2>3, <2>4, <2>5
<1>9. KeptIsSettled' /\ ObservedIsHeld'
    BY <1>2, <1>7, <1>8 DEF IInv, KeptIsSettled, ObservedIsHeld
<1> QED BY <1>2, <1>6, <1>9 DEF IInv, AcceptedIsTold

-----------------------------------------------------------------------------
(* What persistState and persistCursor leave behind, failing or not.       *)
LEMMA StatePersisted ==
    ASSUME IInv, PersistState, UNCHANGED <<stream, told, skipped>>
    PROVE  /\ file' \in Cursor' /\ state' \in Cursor' /\ delivered' \in Cursor'
           /\ KeptIsSettled'
<1>1. UNCHANGED <<stream, told, skipped, file, delivered>> /\ state' \in {state, delivered}
    BY DEF PersistState
<1>2. Cursor' = Cursor
    BY <1>1 DEF Cursor, Tip
<1>3. file' \in Cursor' /\ state' \in Cursor' /\ delivered' \in Cursor'
    BY <1>1, <1>2 DEF IInv, Typed
<1>4. KeptIsSettled'
    BY <1>1 DEF IInv, KeptIsSettled, Settled, Wakes
<1> QED BY <1>3, <1>4

LEMMA CursorPersisted ==
    ASSUME IInv, NEW was \in SUBSET {state, delivered}, PersistCursor(was),
           stream' = stream, cursor' \in Cursor, Settled \subseteq Settled',
           Wakes(0, cursor)' \subseteq Settled'
    PROVE  /\ Typed' /\ KeptIsSettled'
<1>1. /\ delivered' = cursor' /\ file' \in {file, None, cursor'}
      /\ state' \in {state, delivered, cursor'}
    BY DEF PersistCursor
<1>2. Cursor' = Cursor
    BY DEF Cursor, Tip
<1>3. Typed'
    BY <1>1, <1>2 DEF IInv, Typed, Cursor
<1>4. Wakes(0, None)' = {}
    BY DEF Wakes, None
<1>5. Wakes(0, file)' \subseteq Settled'
    <2>1. CASE file' = file
        BY <2>1 DEF IInv, KeptIsSettled, Wakes
    <2>2. CASE file' = None
        BY <2>2, <1>4 DEF Wakes
    <2>3. CASE file' = cursor'
        BY <2>3 DEF Wakes
    <2> QED BY <2>1, <2>2, <2>3, <1>1
<1>6. Wakes(0, state)' \subseteq Settled'
    <2>1. CASE state' = state
        BY <2>1 DEF IInv, KeptIsSettled, Wakes
    <2>2. CASE state' = delivered
        BY <2>2 DEF IInv, KeptIsSettled, Wakes
    <2>3. CASE state' = cursor'
        BY <2>3 DEF Wakes
    <2> QED BY <2>1, <2>2, <2>3, <1>1
<1>7. Wakes(0, delivered)' \subseteq Settled'
    BY <1>1 DEF Wakes
<1> QED BY <1>3, <1>5, <1>6, <1>7 DEF KeptIsSettled

(* The observed cursor moves on and what it passes is held.                *)
LEMMA Advances ==
    ASSUME IInv, NEW k \in PageEnds, Advance(k), UNCHANGED <<stream, told, skipped>>,
           pending' = pending \cup Wakes(From, k), pc' # "accepted"
    PROVE  IInv'
<1>1. /\ k \in 0..Tip /\ From \in 0..Tip /\ From <= k
      /\ Wakes(0, k) \subseteq Wakes(0, From) \cup Wakes(From, k)
    BY PageType DEF IInv
<1>2. cursor' = k /\ PersistState
    BY DEF Advance
<1>3. Typed' /\ KeptIsSettled'
    <2>1. Cursor' = Cursor
        BY DEF Cursor, Tip
    <2>2. /\ file' \in Cursor' /\ state' \in Cursor' /\ delivered' \in Cursor'
          /\ KeptIsSettled'
        BY <1>2, StatePersisted
    <2> QED BY <1>1, <1>2, <2>1, <2>2 DEF IInv, Typed, Cursor
<1>4. From' = k /\ Wakes(0, From)' = Wakes(0, k)
    BY <1>1, <1>2 DEF From, Wakes, None
<1>5. ObservedIsHeld'
    BY <1>1, <1>4 DEF IInv, ObservedIsHeld, Settled
<1> QED BY <1>3, <1>5 DEF IInv, AcceptedIsTold

LEMMA PageStep == ASSUME IInv, Page PROVE IInv'
BY Advances DEF Page, historyVars, turnVars

LEMMA GatherStep == ASSUME IInv, Gather PROVE IInv'
BY Advances DEF Gather, historyVars, turnVars

LEMMA QuietPageStep == ASSUME IInv, QuietPage PROVE IInv'
<1>1. PICK k \in PageEnds :
        /\ Wakes(From, k) = {} /\ cursor' = k
        /\ PersistCursor(IF k = cursor THEN {state} ELSE {state, delivered})
    BY DEF QuietPage
<1>2. /\ pending = {} /\ pc' # "accepted"
      /\ UNCHANGED <<stream, pending, told, skipped>>
    BY DEF QuietPage, Loops, historyVars, turnVars
<1>3. /\ k \in 0..Tip
      /\ Wakes(0, k) \subseteq Wakes(0, From) \cup Wakes(From, k)
    BY PageType DEF IInv
<1>4. Wakes(0, k) \subseteq Settled
    BY <1>1, <1>2, <1>3 DEF IInv, ObservedIsHeld
<1>5. /\ cursor' \in Cursor /\ Settled' = Settled /\ Wakes(0, cursor)' \subseteq Settled'
    BY <1>1, <1>2, <1>3, <1>4 DEF Cursor, Settled, Wakes
<1>6. Typed' /\ KeptIsSettled'
    <2>1. (IF k = cursor THEN {state} ELSE {state, delivered}) \in SUBSET {state, delivered}
        OBVIOUS
    <2> QED BY <1>1, <1>2, <1>5, <2>1, CursorPersisted
<1>7. ObservedIsHeld'
    BY <1>1, <1>3, <1>5 DEF ObservedIsHeld, From, Wakes, None
<1> QED BY <1>2, <1>6, <1>7 DEF IInv, AcceptedIsTold

LEMMA CommitStep == ASSUME IInv, Commit PROVE IInv'
<1>1. /\ pc = "accepted" /\ pc' # "accepted" /\ pending' = {} /\ cursor' = cursor
      /\ PersistCursor({state}) /\ UNCHANGED <<stream, told, skipped>>
    BY DEF Commit, Loops, historyVars, turnVars
<1>2. Wakes(0, From) \subseteq Settled
    BY <1>1 DEF IInv, ObservedIsHeld, AcceptedIsTold, Settled
<1>3. /\ From' = From /\ Settled' = Settled
      /\ Wakes(0, From)' \subseteq Settled'
    BY <1>1, <1>2 DEF From, Settled, Wakes
<1>4. Wakes(0, cursor)' \subseteq Settled'
    BY <1>1, <1>2, <1>3 DEF Wakes, From, None
<1>5. Typed' /\ KeptIsSettled'
    <2>1. {state} \in SUBSET {state, delivered}
        OBVIOUS
    <2> QED BY <1>1, <1>3, <1>4, <2>1, CursorPersisted DEF IInv, Typed
<1> QED BY <1>1, <1>3, <1>5 DEF IInv, ObservedIsHeld, AcceptedIsTold

LEMMA PrimeAtTipStep == ASSUME IInv, PrimeAtTip PROVE IInv'
<1>1. /\ cursor' = Tip /\ PersistCursor({state}) /\ UNCHANGED <<stream, told>>
      /\ skipped' = skipped \cup Wakes(0, Tip) /\ pc' # "accepted"
    BY DEF PrimeAtTip
<1>2. Tip \in Nat
    BY DEF IInv, Typed, Tip
<1>3. /\ cursor' \in Cursor /\ Settled \subseteq Settled'
      /\ Wakes(0, cursor)' \subseteq Settled'
    BY <1>1, <1>2 DEF Cursor, Settled, Wakes
<1>4. Typed' /\ KeptIsSettled'
    <2>1. {state} \in SUBSET {state, delivered}
        OBVIOUS
    <2> QED BY <1>1, <1>3, <2>1, CursorPersisted
<1>5. ObservedIsHeld'
    BY <1>1, <1>2, <1>3 DEF ObservedIsHeld, From, Wakes, None
<1> QED BY <1>1, <1>4, <1>5 DEF IInv, AcceptedIsTold

LEMMA LaunchStep == ASSUME IInv, Launch PROVE IInv'
<1>1. PICK at \in {None, Resume} : Launches(at, at)
    BY DEF Launch
<1>2. /\ cursor' = at /\ delivered' = at /\ pending' = {} /\ pc' # "accepted"
      /\ UNCHANGED <<stream, file, state, told, skipped>>
    BY <1>1 DEF Launches, historyVars, turnVars
<1>3. at \in Cursor /\ Wakes(0, at) \subseteq Settled
    BY DEF IInv, Typed, KeptIsSettled, Resume, Cursor, Wakes, None
<1>4. Typed'
    BY <1>2, <1>3 DEF IInv, Typed, Cursor, Tip
<1>5. KeptIsSettled'
    BY <1>2, <1>3 DEF IInv, KeptIsSettled, Settled, Wakes
<1>6. ObservedIsHeld'
    BY <1>2, <1>3 DEF ObservedIsHeld, From, Settled, Wakes, None
<1> QED BY <1>2, <1>4, <1>5, <1>6 DEF IInv, AcceptedIsTold

-----------------------------------------------------------------------------
LEMMA NextIInv == ASSUME IInv, [Next]_vars PROVE IInv'
<1> USE DEF fileVars, memoryVars, historyVars, turnVars
<1>1. ASSUME NEW kind \in Kind, Arrive(kind) PROVE IInv'
    BY <1>1, ArriveStep
<1>2. ASSUME NEW i \in Position, Read(i) PROVE IInv'
    BY <1>2, Aside DEF Read, IInv, AcceptedIsTold
<1>3. CASE SessionDies
    BY <1>3, Aside DEF SessionDies, IInv, AcceptedIsTold
<1>4. CASE Launch
    BY <1>4, LaunchStep
<1>5. CASE PrimeAtTip
    BY <1>5, PrimeAtTipStep
<1>6. CASE PrimeFails
    BY <1>6, Aside DEF PrimeFails, AcceptedIsTold
<1>7. CASE Run
    BY <1>7, Aside DEF Run, Loops, AcceptedIsTold
<1>8. CASE Stop
    BY <1>8, Aside DEF Stop, IInv, AcceptedIsTold
<1>9. CASE Crash
    BY <1>9, Aside DEF Crash, AcceptedIsTold
<1>10. CASE Probe
    BY <1>10, Aside DEF Probe, GoesTo, AcceptedIsTold
<1>11. CASE ProbeFails
    BY <1>11, Aside DEF ProbeFails, GoesTo, AcceptedIsTold
<1>12. CASE BacklogTold
    BY <1>12, Aside DEF BacklogTold, GoesTo, AcceptedIsTold
<1>13. CASE BacklogRefused
    BY <1>13, Aside DEF BacklogRefused, AcceptedIsTold
<1>14. CASE Resumes
    BY <1>14, Aside DEF Resumes, Loops, AcceptedIsTold
<1>15. CASE Page
    BY <1>15, PageStep
<1>16. CASE QuietPage
    BY <1>16, QuietPageStep
<1>17. CASE PollFails
    BY <1>17, Aside DEF PollFails, GoesTo, AcceptedIsTold
<1>18. CASE Gather
    BY <1>18, GatherStep
<1>19. CASE GatherNothing
    BY <1>19, Aside DEF GatherNothing, AcceptedIsTold
<1>20. CASE WakeTold \/ WakeSteered \/ SteeredTurnEnds
    BY <1>20, Aside DEF WakeTold, WakeSteered, SteeredTurnEnds, IInv, AcceptedIsTold
<1>21. CASE WakeRefused
    BY <1>21, Aside DEF WakeRefused, Loops, AcceptedIsTold
<1>22. CASE Commit
    BY <1>22, CommitStep
<1>23. CASE UNCHANGED vars
    BY <1>23, Aside DEF vars, IInv, AcceptedIsTold
<1> QED
    BY <1>1, <1>2, <1>3, <1>4, <1>5, <1>6, <1>7, <1>8, <1>9, <1>10, <1>11, <1>12,
       <1>13, <1>14, <1>15, <1>16, <1>17, <1>18, <1>19, <1>20, <1>21, <1>22, <1>23
    DEF Next, Proceeds, BacklogAnswered, WakeAnswered, Polls

(* The strengthened invariant holds in every reachable state.              *)
THEOREM Invariance == Spec => []IInv
BY InitIInv, NextIInv, PTL DEF Spec

(* No launch can resume behind a notification whose wake was not delivered,*)
(* unless a start at the tip left it behind.                               *)
THEOREM Committed == Spec => []CommittedIsTold
<1>1. IInv => CommittedIsTold
    BY DEF IInv, KeptIsSettled, Settled, CommittedIsTold, Resume
<1> QED BY <1>1, Invariance, PTL

-----------------------------------------------------------------------------
(* The unread check: its line covers all mail behind the observed cursor,  *)
(* and when it is done that mail is held or known.                         *)
Mail(i) == stream[i] = "mail"

LineCovers == pc = "backlog" => \A i \in 1..From : Mail(i) => i \in read \cup backlog

CheckCovers ==
    ~unchecked => \A i \in 1..From : Mail(i) => i \in pending \cup told \cup reminded \cup read

Covers == LineCovers /\ CheckCovers

(* What changes neither the stream, the cursor nor the check.              *)
LEMMA Uncovers ==
    ASSUME Covers, UNCHANGED <<stream, cursor, unchecked>>, pending \subseteq pending' \cup told',
           told \subseteq told', reminded \subseteq reminded', read \subseteq read',
           pc' = "backlog" => pc = "backlog" /\ backlog' = backlog
    PROVE  Covers'
BY DEF Covers, LineCovers, CheckCovers, From, Mail

LEMMA InitCovers == Init => Covers
BY DEF Init, Covers, LineCovers, CheckCovers

LEMMA ArriveCovers == ASSUME IInv, Covers, NEW kind \in Kind, Arrive(kind) PROVE Covers'
<1>1. stream' = Append(stream, kind)
    BY DEF Arrive
<1>2. UNCHANGED <<read, pc, cursor, unchecked, backlog, pending, told, reminded>>
    BY DEF Arrive, memoryVars, historyVars, turnVars
<1>3. From \in Cursor /\ From' = From
    BY <1>2 DEF IInv, Typed, From, Cursor, Tip, None
<1>4. \A i \in 1..From : stream'[i] = stream[i]
    BY <1>1, <1>3, Longer DEF IInv, Typed
<1> QED BY <1>2, <1>3, <1>4 DEF Covers, LineCovers, CheckCovers, Mail

LEMMA LaunchCovers == ASSUME Launch PROVE Covers'
<1>1. unchecked' = TRUE /\ pc' # "backlog"
    BY DEF Launch, Launches
<1> QED BY <1>1 DEF Covers, LineCovers, CheckCovers

LEMMA ProbeCovers == ASSUME IInv, Covers, Probe PROVE Covers'
<1>1. /\ pc = "probe" /\ UNCHANGED <<stream, read, cursor, pending, told, reminded>>
      /\ \/ Unread = {} /\ unchecked' = FALSE /\ pc' # "backlog"
         \/ UNCHANGED unchecked /\ backlog' = Unread
    BY DEF Probe, GoesTo, historyVars, turnVars
<1>2. From' = From /\ From \in Int /\ From <= Tip
    BY <1>1 DEF IInv, Typed, From, Cursor, Tip, None
<1>3. \A i \in 1..From : Mail(i) => i \in read \cup Unread
    BY <1>2 DEF Unread, Mail, Tip, IInv, Typed
<1>4. \A i : Mail(i)' = Mail(i)
    BY <1>1 DEF Mail
<1> QED BY <1>1, <1>2, <1>3, <1>4 DEF Covers, LineCovers, CheckCovers

LEMMA BacklogToldCovers == ASSUME Covers, BacklogTold PROVE Covers'
<1>1. /\ pc = "backlog" /\ pc' # "backlog" /\ reminded' = reminded \cup backlog
      /\ UNCHANGED <<stream, read, cursor>>
    BY DEF BacklogTold, GoesTo
<1> QED BY <1>1 DEF Covers, LineCovers, CheckCovers, From, Mail

(* A page holds the mail it passes.                                        *)
LEMMA PageCovers ==
    ASSUME IInv, Covers, NEW k \in PageEnds, cursor' = k,
           pending' = pending \cup Wakes(From, k), pc' # "backlog",
           UNCHANGED <<stream, read, unchecked, told, reminded>>
    PROVE  Covers'
<1>1. k \in 0..Tip /\ From \in 0..Tip /\ From <= k
    BY PageType DEF IInv
<1>2. From' = k
    BY <1>1 DEF From, None
<1>3. \A i \in 1..k : Mail(i) => i \in 1..From \/ i \in Wakes(From, k)
    BY <1>1 DEF Wakes, Mail
<1>4. \A i : Mail(i)' = Mail(i)
    BY DEF Mail
<1> QED BY <1>2, <1>3, <1>4 DEF Covers, LineCovers, CheckCovers

LEMMA StreamCovers == ASSUME IInv, Covers, Page \/ QuietPage \/ Gather PROVE Covers'
<1>1. CASE Page
    BY <1>1, PageCovers DEF Page, Advance, historyVars, turnVars
<1>2. CASE QuietPage
    <2>1. PICK k \in PageEnds : Wakes(From, k) = {} /\ cursor' = k
        BY <1>2 DEF QuietPage
    <2>2. /\ pending' = pending \cup Wakes(From, k) /\ pc' # "backlog"
          /\ UNCHANGED <<stream, read, unchecked, told, reminded>>
        BY <1>2, <2>1 DEF QuietPage, Loops, historyVars, turnVars
    <2> QED BY <2>1, <2>2, PageCovers
<1>3. CASE Gather
    BY <1>3, PageCovers DEF Gather, Advance, historyVars, turnVars
<1> QED BY <1>1, <1>2, <1>3

(* A start at the tip comes before the check.                              *)
Early == pc = "prime" => unchecked

LEMMA NextEarly == ASSUME Early, [Next]_vars PROVE Early'
BY DEF Early, fileVars, memoryVars, historyVars, turnVars, Next, vars, Proceeds, BacklogAnswered, WakeAnswered, Polls, Arrive, Read,
       SessionDies, Launch, Launches, PrimeAtTip, PrimeFails, Run, Stop, Crash, Probe,
       ProbeFails, BacklogTold, BacklogRefused, Resumes, Page, QuietPage, PollFails, Gather,
       GatherNothing, WakeTold, WakeSteered, SteeredTurnEnds,
       WakeRefused, Commit, Loops, GoesTo

LEMMA NextCovers == ASSUME IInv, Early, Covers, [Next]_vars PROVE Covers'
<1> USE DEF fileVars, memoryVars, historyVars, turnVars
<1>1. ASSUME NEW kind \in Kind, Arrive(kind) PROVE Covers'
    BY <1>1, ArriveCovers
<1>2. ASSUME NEW i \in Position, Read(i) PROVE Covers'
    BY <1>2, Uncovers DEF Read
<1>3. CASE SessionDies \/ Stop \/ Crash
    BY <1>3, Uncovers DEF SessionDies, Stop, Crash
<1>4. CASE Launch
    BY <1>4, LaunchCovers
<1>5. CASE PrimeAtTip
    BY <1>5 DEF PrimeAtTip, Early, Covers, LineCovers, CheckCovers
<1>6. CASE PrimeFails \/ Run \/ Resumes
    BY <1>6, Uncovers DEF PrimeFails, Run, Resumes, Loops
<1>7. CASE ProbeFails \/ BacklogRefused \/ PollFails
    BY <1>7, Uncovers DEF ProbeFails, BacklogRefused, PollFails, GoesTo
<1>8. CASE Probe
    BY <1>8, ProbeCovers
<1>9. CASE BacklogTold
    BY <1>9, BacklogToldCovers
<1>10. CASE Page \/ QuietPage \/ Gather
    BY <1>10, StreamCovers
<1>11. CASE GatherNothing \/ WakeRefused
    BY <1>11, Uncovers DEF GatherNothing, WakeRefused, Loops
<1>12. CASE WakeTold \/ WakeSteered \/ SteeredTurnEnds
    BY <1>12, Uncovers DEF WakeTold, WakeSteered, SteeredTurnEnds
<1>13. CASE Commit
    <2>1. /\ pending \subseteq told /\ pc' # "backlog"
          /\ UNCHANGED <<stream, cursor, unchecked, told, reminded, read>>
        BY <1>13 DEF Commit, Loops, IInv, AcceptedIsTold
    <2> QED BY <2>1, Uncovers
<1>14. CASE UNCHANGED vars
    BY <1>14, Uncovers DEF vars
<1> QED
    BY <1>1, <1>2, <1>3, <1>4, <1>5, <1>6, <1>7, <1>8, <1>9, <1>10, <1>11, <1>12,
       <1>13, <1>14 DEF Next, Proceeds, BacklogAnswered, WakeAnswered, Polls

(* Once the unread check of a launch is done, whatever is behind the       *)
(* observed cursor is pending or known to the agent.                       *)
THEOREM NoGap == Spec => []NoDeafGap
<1>1. Init => Early /\ Covers
    BY InitCovers DEF Init, Early
<1>2. IInv /\ Covers => NoDeafGap
    <2> SUFFICES ASSUME IInv, Covers, ~unchecked, NEW i \in Wakes(0, From)
                 PROVE  i \in pending \/ Known(i)
        BY DEF NoDeafGap
    <2>1. From \in Int /\ From <= Tip /\ i \in 1..From
        BY DEF IInv, Typed, From, Cursor, Tip, None, Wakes
    <2>2. stream[i] = "mail" \/ stream[i] = "intro"
        BY <2>1 DEF IInv, Typed, Kind, Tip, Wakes
    <2>3. CASE stream[i] = "mail"
        BY <2>1, <2>3 DEF Covers, CheckCovers, Mail, Known
    <2>4. CASE stream[i] = "intro"
        BY <2>4 DEF IInv, ObservedIsHeld, Settled, Known
    <2> QED BY <2>2, <2>3, <2>4
<1>3. Spec => [](Early /\ Covers)
    BY <1>1, NextEarly, NextCovers, Invariance, PTL DEF Spec
<1> QED BY <1>2, <1>3, Invariance, PTL

-----------------------------------------------------------------------------
(* Without a fault, a role that runs or was ever woken has an owner on     *)
(* record and a cursor on disk.                                            *)
Anchored == owner = "fleet" /\ Resume # None

Kept ==
    /\ faults \in Nat
    /\ faults = 0 =>
        /\ told # {} => Anchored
        /\ pc \notin {"down", "prime"} => Anchored /\ delivered # None /\ cursor # None
        /\ pc = "prime" => told = {} /\ owner = "fleet"

LEMMA StoreKept ==
    ASSUME Kept, faults' = 0, PersistState, owner = "fleet", delivered # None
    PROVE  faults = 0 /\ Anchored' /\ delivered' # None
BY DEF Kept, PersistState, Fault, Anchored, Resume

LEMMA CursorKept ==
    ASSUME Kept, faults' = 0, NEW was, PersistCursor(was), owner = "fleet", cursor' # None
    PROVE  faults = 0 /\ Anchored' /\ delivered' # None
BY DEF Kept, PersistCursor, Fault, Anchored, Resume

(* What leaves the cursors, the owner and the faults alone.                *)
LEMMA AsideKept ==
    ASSUME Kept, UNCHANGED <<owner, file, state, cursor, delivered, faults>>,
           told' # told => pc \notin {"down", "prime"},
           pc' = pc \/ pc' = "down" \/ (pc \notin {"down", "prime"} /\ pc' # "prime")
    PROVE  Kept'
BY DEF Kept, Anchored, Resume

LEMMA FaultKept == ASSUME Kept, Fault PROVE faults' \in Nat /\ faults' # 0
BY DEF Kept, Fault

LEMMA PersistFaults ==
    ASSUME Kept, PersistState \/ \E was : PersistCursor(was)
    PROVE  faults' \in Nat
BY FaultKept DEF Kept, PersistState, PersistCursor

LEMMA NextKept == ASSUME IInv, Kept, [Next]_vars PROVE Kept'
<1> USE DEF fileVars, memoryVars, historyVars, turnVars, counterVars
<1>1. CASE Launch
    <2>1. PICK at : Launches(at, at) /\ at = (IF owner = "native" THEN None ELSE Resume)
        BY <1>1 DEF Launch
    <2>2. faults' \in Nat /\ (faults' = 0 => faults = 0 /\ owner' = "fleet")
        BY <2>1, FaultKept DEF Kept, Launches, RecordsOwner
    <2>3. /\ cursor' = at /\ delivered' = at /\ UNCHANGED <<file, state, told>>
          /\ pc' = IF at = None THEN "prime" ELSE "ready"
        BY <2>1 DEF Launches
    <2>4. CASE at = None
        BY <2>1, <2>2, <2>3, <2>4 DEF Kept, Anchored, Resume
    <2>5. CASE at # None
        BY <2>1, <2>2, <2>3, <2>5 DEF Kept, Anchored, Resume
    <2> QED BY <2>4, <2>5
<1>2. CASE PrimeAtTip
    <2>1. /\ pc = "prime" /\ pc' = "ready" /\ cursor' # None /\ PersistCursor({state})
          /\ cursor' = Tip /\ told' = told
        BY <1>2 DEF PrimeAtTip, IInv, Typed, Tip, None
    <2>2. ASSUME faults' = 0 PROVE Anchored' /\ delivered' # None
        <3>1. faults = 0
            BY <2>1, <2>2 DEF Kept, PersistCursor, Fault
        <3> QED BY <2>1, <2>2, <3>1, CursorKept DEF Kept
    <2> QED BY <2>1, <2>2, PersistFaults DEF Kept
<1>3. CASE PrimeFails
    BY <1>3, FaultKept DEF PrimeFails, Kept
<1>4. CASE Page \/ Gather
    <2>1. PICK k \in PageEnds : cursor' = k /\ PersistState
        BY <1>4 DEF Page, Gather, Advance
    <2>2. k # None
        BY <2>1, PageType DEF IInv, None
    <2>3. pc \notin {"down", "prime"} /\ pc' \notin {"down", "prime"} /\ told' = told
        BY <1>4 DEF Page, Gather
    <2>4. ASSUME faults' = 0 PROVE Anchored' /\ delivered' # None
        <3>1. faults = 0
            BY <2>1, <2>4 DEF Kept, PersistState, Fault
        <3> QED BY <2>1, <2>3, <2>4, <3>1, StoreKept DEF Kept, Anchored
    <2> QED BY <2>1, <2>2, <2>3, <2>4, PersistFaults DEF Kept
<1>5. CASE QuietPage \/ Commit
    <2>1. /\ \E was : PersistCursor(was) /\ told' = told
          /\ pc \notin {"down", "prime"} /\ pc' # "prime"
        BY <1>5 DEF QuietPage, Commit, Loops
    <2>2. faults' = 0 => faults = 0
        BY <2>1 DEF Kept, PersistCursor, Fault
    <2>3. faults = 0 => owner = "fleet" /\ cursor # None
        BY <2>1 DEF Kept, Anchored
    <2>4. faults = 0 => cursor' # None
        <3>1. CASE Commit
            BY <2>3, <3>1 DEF Commit
        <3>2. CASE QuietPage
            BY <3>2, PageType DEF QuietPage, IInv, None
        <3> QED BY <1>5, <3>1, <3>2
    <2>5. ASSUME faults' = 0 PROVE Anchored' /\ delivered' # None
        BY <2>1, <2>2, <2>3, <2>4, <2>5, CursorKept
    <2> QED BY <2>1, <2>2, <2>4, <2>5, PersistFaults DEF Kept
<1>6. ASSUME NEW kind \in Kind, Arrive(kind) PROVE Kept'
    <2>1. UNCHANGED <<owner, file, state, cursor, delivered, faults, told, pc>>
        BY <1>6 DEF Arrive
    <2> QED BY <2>1 DEF Kept, Anchored, Resume
<1>7. ASSUME NEW i \in Position, Read(i) PROVE Kept'
    BY <1>7, AsideKept DEF Read
<1>8. CASE SessionDies \/ Stop \/ Crash
    BY <1>8, AsideKept DEF SessionDies, Stop, Crash
<1>9. CASE Run \/ Resumes \/ WakeRefused
    BY <1>9, AsideKept DEF Run, Resumes, WakeRefused, Loops
<1>10. CASE Probe \/ ProbeFails \/ BacklogTold \/ BacklogRefused \/ PollFails
    BY <1>10, AsideKept DEF Probe, ProbeFails, BacklogTold, BacklogRefused, PollFails, GoesTo
<1>11. CASE GatherNothing \/ WakeTold \/ WakeSteered \/ SteeredTurnEnds
    BY <1>11, AsideKept DEF GatherNothing, WakeTold, WakeSteered, SteeredTurnEnds
<1>12. CASE UNCHANGED vars
    <2>1. UNCHANGED <<owner, file, state, cursor, delivered, faults, told, pc>>
        BY <1>12 DEF vars
    <2> QED BY <2>1 DEF Kept, Anchored, Resume
<1> QED
    BY <1>1, <1>2, <1>3, <1>4, <1>5, <1>6, <1>7, <1>8, <1>9, <1>10, <1>11, <1>12
    DEF Next, Proceeds, BacklogAnswered, WakeAnswered, Polls

(* Without a failed write or prime, a role that was woken from the stream  *)
(* never begins at the tip again.                                          *)
THEOREM SkipsExplained == Spec => SkipsNeedFault
<1>1. Init => Kept
    BY DEF Init, Kept
<1>2. Kept /\ [Next]_vars => [skipped' # skipped => told = {} \/ faults' > 0]_vars
    <2> SUFFICES ASSUME Kept, Next, skipped' # skipped, ~(faults' > 0) PROVE told = {}
        OBVIOUS
    <2>1. PrimeAtTip
        BY DEF Next, vars, Proceeds, BacklogAnswered, WakeAnswered, Polls, Arrive, Read,
           SessionDies, Launch, Launches, PrimeFails, Run, Stop, Crash, Probe, ProbeFails,
           BacklogTold, BacklogRefused, Resumes, Page, QuietPage, PollFails, Gather,
           GatherNothing, WakeTold, WakeSteered, SteeredTurnEnds,
       WakeRefused, Commit, historyVars, turnVars
    <2>2. pc = "prime" /\ (faults' = faults \/ faults' = faults + 1)
        BY <2>1 DEF PrimeAtTip, PersistCursor, Fault
    <2> QED BY <2>2 DEF Kept
<1>3. Spec => []Kept
    BY <1>1, NextKept, Invariance, PTL DEF Spec
<1> QED BY <1>2, <1>3, PTL DEF Spec, SkipsNeedFault

-----------------------------------------------------------------------------
(* Types, and the order of the two cursors, step by step.                  *)
LEMMA InitTypes == Init => TypeOK
<1> SUFFICES ASSUME Init PROVE TypeOK
    OBVIOUS
<1>1. Typed
    BY InitIInv DEF IInv
<1>2. Tip \in Nat /\ Tip <= MaxStream
    <2>1. Tip \in Nat /\ Tip <= 1
        <3>1. CASE stream = <<>>
            BY <3>1 DEF Tip
        <3>2. CASE stream = <<"mail">>
            BY <3>2 DEF Tip
        <3>3. CASE stream = <<"intro">>
            BY <3>3 DEF Tip
        <3> QED BY <3>1, <3>2, <3>3 DEF Init
    <2> QED BY <2>1, MonitorAssumption
<1>3. skipped \subseteq 1..Tip
    BY <1>1, <1>2 DEF Init, Typed, Cursor, None
<1>4. faults \in 0..MaxFaults /\ crashes \in 0..MaxCrashes /\ restarts \in 0..MaxRestarts
    BY MonitorAssumption DEF Init
<1>5. owner \in {"fleet", "native"} /\ pc \in Place /\ delivered <= cursor
    BY DEF Init, Place, None
<1>6. /\ read = {} /\ pending = {} /\ backlog = {} /\ told = {} /\ reminded = {}
      /\ steered = {} /\ dropped = {}
      /\ unchecked = TRUE /\ stopped = FALSE /\ alive = FALSE
    BY DEF Init
<1> QED BY <1>1, <1>2, <1>3, <1>4, <1>5, <1>6 DEF TypeOK, Typed, Cursor

LEMMA FaultType == ASSUME TypeOK, Fault \/ UNCHANGED faults PROVE faults' \in 0..MaxFaults
BY MonitorAssumption DEF TypeOK, Fault

(* What leaves the stream and the cursors alone.                           *)
LEMMA AsideTypes ==
    ASSUME TypeOK, UNCHANGED <<stream, owner, file, state, cursor, delivered>>,
           pc' \in Place, {unchecked, stopped, alive}' \subseteq BOOLEAN,
           /\ faults' \in 0..MaxFaults /\ crashes' \in 0..MaxCrashes
           /\ restarts' \in 0..MaxRestarts,
           (read \cup pending \cup backlog \cup told \cup reminded \cup skipped)' \subseteq 1..Tip,
           (steered \cup dropped \subseteq told)'
    PROVE  TypeOK'
BY DEF TypeOK, Tip

LEMMA StateTypes ==
    ASSUME TypeOK, PersistState
    PROVE  /\ UNCHANGED <<owner, file, delivered>> /\ state' \in {state, delivered}
           /\ faults' \in 0..MaxFaults
<1>1. Fault \/ UNCHANGED faults
    BY DEF PersistState
<1> QED BY <1>1, FaultType DEF PersistState

LEMMA CursorTypes ==
    ASSUME TypeOK, NEW was \in SUBSET {state, delivered}, PersistCursor(was)
    PROVE  /\ owner' = owner /\ delivered' = cursor' /\ file' \in {file, None, cursor'}
           /\ state' \in {state, delivered, cursor'}
           /\ faults' \in 0..MaxFaults
<1>1. Fault \/ UNCHANGED faults
    BY DEF PersistCursor
<1> QED BY <1>1, FaultType DEF PersistCursor

LEMMA LaunchTypes == ASSUME TypeOK, Launch PROVE TypeOK'
<1>1. PICK at \in {None, Resume} : Launches(at, at)
    BY DEF Launch
<1>2. at \in {None} \cup 0..Tip
    BY DEF TypeOK, Resume
<1>3. owner' \in {"fleet", "native"} /\ faults' \in 0..MaxFaults
    BY <1>1, FaultType DEF Launches, RecordsOwner, TypeOK
<1>4. /\ cursor' = at /\ delivered' = at /\ pc' \in Place /\ pending' = {} /\ backlog' = {}
      /\ {unchecked, stopped, alive}' \subseteq BOOLEAN
      /\ UNCHANGED <<stream, read, file, state, crashes, restarts, told, reminded, skipped,
                     steered, dropped>>
    BY <1>1 DEF Launches, Place, historyVars, turnVars
<1> QED BY <1>2, <1>3, <1>4 DEF TypeOK, Tip, None

LEMMA PrimeAtTipTypes == ASSUME TypeOK, PrimeAtTip PROVE TypeOK'
<1>1. Tip \in Nat
    BY DEF TypeOK, Tip
<1>2. /\ owner' = owner /\ delivered' = cursor' /\ file' \in {file, None, cursor'}
      /\ state' \in {state, delivered, cursor'} /\ faults' \in 0..MaxFaults
    <2>1. {state} \in SUBSET {state, delivered}
        OBVIOUS
    <2> QED BY <2>1, CursorTypes DEF PrimeAtTip
<1>3. cursor' = Tip /\ skipped' \subseteq 1..Tip
    BY <1>1 DEF PrimeAtTip, TypeOK, Wakes
<1> QED BY <1>1, <1>2, <1>3 DEF PrimeAtTip, TypeOK, Place, Tip, None, turnVars

LEMMA PageTypes == ASSUME TypeOK, Page \/ Gather PROVE TypeOK'
<1>1. PICK k \in PageEnds : pending' = pending \cup Wakes(From, k) /\ Advance(k)
    BY DEF Page, Gather
<1>2. k \in 0..Tip /\ From \in 0..Tip /\ From <= k
    BY PageType DEF TypeOK, Typed, Cursor
<1>3. cursor <= From
    BY DEF From, None, TypeOK
<1>4. pending' \subseteq 1..Tip
    <2>1. Wakes(From, k) \subseteq From + 1..k
        BY DEF Wakes
    <2>2. From + 1..k \subseteq 1..Tip
        BY <1>2 DEF TypeOK, Tip
    <2> QED BY <1>1, <2>1, <2>2 DEF TypeOK
<1>5. /\ UNCHANGED <<owner, file, delivered>> /\ state' \in {state, delivered}
      /\ faults' \in 0..MaxFaults /\ cursor' = k
    BY <1>1, StateTypes DEF Advance
<1>6. delivered' <= cursor'
    BY <1>2, <1>3, <1>5 DEF TypeOK, None
<1> QED BY <1>2, <1>4, <1>5, <1>6 DEF Page, Gather, TypeOK, Place, Tip, historyVars, turnVars

LEMMA CommitTypes == ASSUME TypeOK, QuietPage \/ Commit PROVE TypeOK'
<1>1. PICK was \in SUBSET {state, delivered} : PersistCursor(was)
    BY DEF QuietPage, Commit
<1>2. cursor' \in {None} \cup 0..Tip
    <2>1. CASE QuietPage
        BY <2>1, PageType DEF QuietPage, TypeOK, Typed, Cursor
    <2>2. CASE Commit
        BY <2>2 DEF Commit, TypeOK
    <2> QED BY <2>1, <2>2
<1>3. /\ owner' = owner /\ delivered' = cursor' /\ file' \in {file, None, cursor'}
      /\ state' \in {state, delivered, cursor'} /\ faults' \in 0..MaxFaults
    BY <1>1, CursorTypes
<1>4. /\ pc' \in Place /\ pending' \subseteq pending
      /\ UNCHANGED <<stream, read, unchecked, backlog, stopped, alive, crashes, restarts,
                     told, reminded, skipped, steered, dropped>>
    BY DEF QuietPage, Commit, Loops, Place, historyVars, turnVars
<1> QED BY <1>2, <1>3, <1>4 DEF TypeOK, Tip, None

LEMMA ArriveTypes == ASSUME TypeOK, NEW kind \in Kind, Arrive(kind) PROVE TypeOK'
<1>1. stream' = Append(stream, kind) /\ Tip < MaxStream
    BY DEF Arrive
<1>2. stream' \in Seq(Kind) /\ Tip' = Tip + 1 /\ Tip \in Nat
    BY <1>1 DEF TypeOK, Tip
<1> QED BY <1>1, <1>2, MonitorAssumption
        DEF Arrive, TypeOK, fileVars, memoryVars, counterVars, historyVars, turnVars

LEMMA NextTypes == ASSUME TypeOK, [Next]_vars PROVE TypeOK'
<1> USE DEF fileVars, memoryVars, historyVars, turnVars, counterVars
<1>1. ASSUME NEW kind \in Kind, Arrive(kind) PROVE TypeOK'
    BY <1>1, ArriveTypes
<1>2. ASSUME NEW i \in Position, Read(i) PROVE TypeOK'
    BY <1>2, AsideTypes DEF Read, Unread, TypeOK
<1>3. CASE SessionDies \/ Stop \/ Crash
    <2>1. crashes' \in 0..MaxCrashes /\ restarts' \in 0..MaxRestarts
        BY <1>3, MonitorAssumption DEF SessionDies, Stop, Crash, TypeOK
    <2> QED BY <1>3, <2>1, AsideTypes DEF SessionDies, Stop, Crash, TypeOK, Place
<1>4. CASE Launch
    BY <1>4, LaunchTypes
<1>5. CASE PrimeAtTip
    BY <1>5, PrimeAtTipTypes
<1>6. CASE PrimeFails
    BY <1>6, AsideTypes, FaultType DEF PrimeFails, TypeOK, Place
<1>7. CASE Run \/ Resumes \/ WakeRefused
    BY <1>7, AsideTypes DEF Run, Resumes, WakeRefused, Loops, TypeOK, Place
<1>8. CASE Probe \/ ProbeFails \/ BacklogTold \/ BacklogRefused \/ PollFails
    BY <1>8, AsideTypes
    DEF Probe, ProbeFails, BacklogTold, BacklogRefused, PollFails, GoesTo, Unread, TypeOK, Place
<1>9. CASE GatherNothing \/ WakeTold \/ WakeSteered \/ SteeredTurnEnds
    BY <1>9, AsideTypes DEF GatherNothing, WakeTold, WakeSteered, SteeredTurnEnds, TypeOK, Place
<1>10. CASE Page \/ Gather
    BY <1>10, PageTypes
<1>11. CASE QuietPage \/ Commit
    BY <1>11, CommitTypes
<1>12. CASE UNCHANGED vars
    BY <1>12 DEF vars, TypeOK, Tip
<1> QED
    BY <1>1, <1>2, <1>3, <1>4, <1>5, <1>6, <1>7, <1>8, <1>9, <1>10, <1>11, <1>12
    DEF Next, Proceeds, BacklogAnswered, WakeAnswered, Polls

(* The monitor's state has its types, no cursor is beyond the stream, and  *)
(* what is known to be passed on is never ahead of what was observed.      *)
THEOREM Typing == Spec => []TypeOK
BY InitTypes, NextTypes, PTL DEF Spec

-----------------------------------------------------------------------------
(* Without a mishap the cursor a launch would resume from is the one in    *)
(* memory, everything the agent was woken for lies behind it, and what is  *)
(* pending lies ahead; only between the success of a wake and its commit   *)
(* is the agent ahead of the cursor, and a stop cannot come between.       *)
Apart ==
    pc \notin {"down", "prime"} =>
        /\ Resume = delivered /\ delivered # None
        /\ pending \subseteq delivered + 1..cursor
        /\ told \subseteq 1..IF pc = "accepted" THEN cursor ELSE delivered

Rested ==
    /\ pc = "down" => told \subseteq 1..Resume
    /\ pc = "prime" => told = {} /\ pending = {}

Mishapless == faults + crashes = 0 => Apart /\ Rested

LEMMA Calm ==
    ASSUME TypeOK, TypeOK', [Next]_vars, faults' + crashes' = 0
    PROVE  faults = 0 /\ crashes = 0 /\ UNCHANGED <<faults, crashes>>
<1>1. faults' = 0 /\ crashes' = 0
    <2>1. faults' \in Nat /\ crashes' \in Nat
        BY MonitorAssumption DEF TypeOK
    <2>2. ASSUME NEW a \in Nat, NEW b \in Nat, a + b = 0 PROVE a = 0 /\ b = 0
        BY <2>2
    <2> QED BY <2>1, <2>2
<1>2. faults' = faults \/ faults' = faults + 1
    BY DEF Next, vars, Proceeds, BacklogAnswered, WakeAnswered, Polls, Arrive, Read,
       SessionDies, Launch, Launches, RecordsOwner, PrimeAtTip, PrimeFails, Run, Stop, Crash,
       Probe, ProbeFails, BacklogTold, BacklogRefused, Resumes, Page, QuietPage, PollFails,
       Gather, GatherNothing, WakeTold, WakeSteered, SteeredTurnEnds,
       WakeRefused, Commit, Advance, PersistState,
       PersistCursor, Fault, counterVars
<1>3. crashes' = crashes \/ crashes' = crashes + 1
    BY DEF Next, vars, Proceeds, BacklogAnswered, WakeAnswered, Polls, Arrive, Read,
       SessionDies, Launch, Launches, PrimeAtTip, PrimeFails, Run, Stop, Crash,
       Probe, ProbeFails, BacklogTold, BacklogRefused, Resumes, Page, QuietPage, PollFails,
       Gather, GatherNothing, WakeTold, WakeSteered, SteeredTurnEnds,
       WakeRefused, Commit, counterVars
<1> QED BY <1>1, <1>2, <1>3 DEF TypeOK

(* What moves neither a cursor nor the pending notifications.              *)
LEMMA AsideApart ==
    ASSUME Apart, Rested,
           UNCHANGED <<file, state, cursor, delivered, pending, told>>,
           \/ pc' = pc
           \/ pc \notin {"down", "prime", "accepted"} /\ pc' \notin {"prime", "accepted"}
    PROVE  Apart' /\ Rested'
BY DEF Apart, Rested, Resume

LEMMA LaunchApart ==
    ASSUME TypeOK, Kept, Rested, Launch, faults = 0, UNCHANGED faults
    PROVE  Apart' /\ Rested'
<1>1. PICK at : Launches(at, at) /\ at = (IF owner = "native" THEN None ELSE Resume)
    BY DEF Launch
<1>2. /\ pc = "down" /\ cursor' = at /\ delivered' = at /\ pending' = {}
      /\ UNCHANGED <<file, state, told>> /\ pc' = IF at = None THEN "prime" ELSE "ready"
    BY <1>1 DEF Launches, historyVars, turnVars
<1>3. Resume' = Resume
    BY <1>2 DEF Resume
<1>4. CASE at = None
    <2>1. told = {}
        BY <1>1, <1>4 DEF Kept, Anchored
    <2> QED BY <1>2, <1>4, <2>1 DEF Apart, Rested
<1>5. CASE at # None
    BY <1>1, <1>2, <1>3, <1>5 DEF Apart, Rested
<1> QED BY <1>4, <1>5

LEMMA PersistApart ==
    ASSUME UNCHANGED faults, TypeOK, NEW was, PersistCursor(was), cursor' # None
    PROVE  Resume' = delivered' /\ delivered' # None /\ delivered' = cursor'
BY DEF PersistCursor, Fault, Resume, TypeOK

LEMMA PrimeApart ==
    ASSUME TypeOK, Rested, PrimeAtTip, UNCHANGED faults
    PROVE  Apart' /\ Rested'
<1>1. /\ pc = "prime" /\ pc' = "ready" /\ cursor' = Tip /\ PersistCursor({state})
      /\ UNCHANGED <<pending, told>>
    BY DEF PrimeAtTip
<1>2. cursor' # None
    BY <1>1 DEF TypeOK, Tip, None
<1> QED BY <1>1, <1>2, PersistApart DEF Apart, Rested

LEMMA PageApart ==
    ASSUME TypeOK, Apart, Page \/ Gather, UNCHANGED faults
    PROVE  Apart' /\ Rested'
<1>1. PICK k \in PageEnds : pending' = pending \cup Wakes(From, k) /\ Advance(k)
    BY DEF Page, Gather
<1>2. k \in 0..Tip /\ From \in 0..Tip /\ From <= k
    BY PageType DEF TypeOK, Typed, Cursor
<1>3. /\ pc \notin {"down", "prime", "accepted"} /\ pc' \notin {"down", "prime", "accepted"}
      /\ told' = told
    BY DEF Page, Gather, historyVars, turnVars
<1>4. cursor' = k /\ delivered' = delivered /\ Resume' = delivered
    BY <1>1, <1>3 DEF Advance, PersistState, Fault, Resume, TypeOK, Apart
<1>5. From = cursor /\ delivered <= cursor /\ delivered \in Nat
    BY <1>3 DEF Apart, TypeOK, From, None
<1>6. pending' \subseteq delivered' + 1..cursor'
    BY <1>1, <1>2, <1>3, <1>4, <1>5 DEF Apart, Wakes
<1> QED BY <1>3, <1>4, <1>6 DEF Apart, Rested

LEMMA CommitApart ==
    ASSUME TypeOK, Apart, QuietPage \/ Commit, UNCHANGED faults
    PROVE  Apart' /\ Rested'
<1>1. /\ pc \notin {"down", "prime"} /\ pc' \notin {"prime", "accepted"}
      /\ told' = told /\ pending' = {} /\ \E was : PersistCursor(was)
    BY DEF QuietPage, Commit, Loops, historyVars, turnVars
<1>2. cursor \in Nat /\ delivered \in Nat /\ delivered <= cursor
    BY <1>1 DEF Apart, TypeOK, None
<1>3. cursor' \in Nat /\ cursor <= cursor'
    <2>1. CASE QuietPage
        <3>1. PICK k \in PageEnds : cursor' = k
            BY <2>1 DEF QuietPage
        <3>2. k \in 0..Tip /\ From <= k
            BY PageType DEF TypeOK, Typed, Cursor
        <3> QED BY <1>2, <3>1, <3>2 DEF From, None
    <2>2. CASE Commit
        BY <1>2, <2>2 DEF Commit
    <2> QED BY <2>1, <2>2
<1>4. Resume' = delivered' /\ delivered' # None /\ delivered' = cursor'
    BY <1>1, <1>3, PersistApart DEF None
<1>5. told' \subseteq 1..cursor'
    BY <1>1, <1>2, <1>3 DEF Apart
<1> QED BY <1>1, <1>4, <1>5 DEF Apart, Rested

LEMMA WakeApart ==
    ASSUME TypeOK, Apart, WakeTold \/ WakeSteered
    PROVE  Apart' /\ Rested'
<1>1. /\ pc = "submit" /\ pc' = "accepted" /\ told' = told \cup pending
      /\ UNCHANGED <<file, state, cursor, delivered, pending>>
    BY DEF WakeTold, WakeSteered, fileVars, memoryVars
<1>2. delivered \in Nat /\ cursor \in Nat /\ delivered <= cursor
    BY <1>1 DEF Apart, TypeOK, None
<1> QED BY <1>1, <1>2 DEF Apart, Rested, Resume

LEMMA NextMishapless == ASSUME TypeOK, TypeOK', Kept, Mishapless, [Next]_vars PROVE Mishapless'
<1> SUFFICES ASSUME faults' + crashes' = 0 PROVE Apart' /\ Rested'
    BY DEF Mishapless
<1> USE DEF fileVars, memoryVars, historyVars, turnVars
<1>a. faults = 0 /\ crashes = 0 /\ UNCHANGED <<faults, crashes>>
    BY Calm
<1>b. Apart /\ Rested
    BY <1>a DEF Mishapless
<1>1. ASSUME NEW kind \in Kind, Arrive(kind) PROVE Apart' /\ Rested'
    BY <1>1, <1>b, AsideApart DEF Arrive
<1>2. ASSUME NEW i \in Position, Read(i) PROVE Apart' /\ Rested'
    BY <1>2, <1>b, AsideApart DEF Read
<1>3. CASE SessionDies \/ Stop
    BY <1>3, <1>b, AsideApart DEF SessionDies, Stop
<1>4. CASE Crash
    BY <1>4, <1>a DEF Crash
<1>5. CASE Launch
    BY <1>5, <1>a, <1>b, LaunchApart
<1>6. CASE PrimeAtTip
    BY <1>6, <1>a, <1>b, PrimeApart
<1>7. CASE PrimeFails
    BY <1>7, <1>a DEF PrimeFails, Fault
<1>8. CASE Run \/ Resumes \/ WakeRefused
    BY <1>8, <1>b, AsideApart DEF Run, Resumes, WakeRefused, Loops
<1>9. CASE Probe \/ ProbeFails \/ BacklogTold \/ BacklogRefused \/ PollFails
    BY <1>9, <1>b, AsideApart
    DEF Probe, ProbeFails, BacklogTold, BacklogRefused, PollFails, GoesTo
<1>10. CASE GatherNothing \/ SteeredTurnEnds
    BY <1>10, <1>b, AsideApart DEF GatherNothing, SteeredTurnEnds
<1>11. CASE WakeTold \/ WakeSteered
    BY <1>11, <1>b, WakeApart
<1>12. CASE Page \/ Gather
    BY <1>12, <1>a, <1>b, PageApart
<1>13. CASE QuietPage \/ Commit
    BY <1>13, <1>a, <1>b, CommitApart
<1>14. CASE UNCHANGED vars
    BY <1>14, <1>b, AsideApart DEF vars
<1> QED
    BY <1>1, <1>2, <1>3, <1>4, <1>5, <1>6, <1>7, <1>8, <1>9, <1>10, <1>11, <1>12, <1>13,
       <1>14 DEF Next, Proceeds, BacklogAnswered, WakeAnswered, Polls

(* An agent hears of a notification twice only after a crash, a failed     *)
(* write or a stream that could not be primed: not for an orderly restart, *)
(* a refused wake or a lost session.                                       *)
THEOREM RepeatsExplained == Spec => []RepeatsNeedMishap
<1>1. Init => Kept /\ Mishapless
    BY DEF Init, Kept, Mishapless, Apart, Rested
<1>2. TypeOK /\ Mishapless => RepeatsNeedMishap
    BY DEF TypeOK, Mishapless, Apart, RepeatsNeedMishap, None
<1>3. Spec => [](Kept /\ Mishapless)
    BY <1>1, NextKept, NextMishapless, Invariance, Typing, PTL DEF Spec
<1> QED BY <1>2, <1>3, Typing, PTL
=============================================================================
