--------------------------- MODULE SyncLockProofs ---------------------------
(***************************************************************************)
(* The bakery of SyncLock excludes, keeps the claims of the living, and    *)
(* implements Section, for any set of contenders.                          *)
(*                                                                         *)
(* The inductive invariant: a call that has looked past another (it works, *)
(* or has found nothing ahead so far and has that one behind it) is        *)
(* preceded by it no more.  The other has not taken its ticket, and will   *)
(* still see this one's or has seen it already; or its ticket is later.    *)
(***************************************************************************)
EXTENDS SyncLock, TLAPS

Before(c, d) == num[c] < num[d] \/ (num[c] = num[d] /\ c < d)

Passed(c, d) == pc[c] = "work" \/ (pc[c] = "check" /\ ~ahead[c] /\ d \notin todo[c])

Behind(c, d) ==
    \/ pc[d] \in {"idle", "list", "leave", "quit", "gone", "dead"}
    \/ pc[d] = "read" /\ (c \in todo[d] \/ num[c] <= top[d])
    \/ pc[d] \in {"scan", "check", "work"} /\ Before(c, d)

(* What a call's place says of its file.                                   *)
FileIsPublished ==
    \A c \in Claim :
        /\ pc[c] \in {"list", "read"} => entry[c] = "choosing"
        /\ pc[c] \in {"scan", "check", "work", "leave"} => entry[c] = "ticket"
        /\ pc[c] = "quit" => entry[c] # "none"

Order == \A c, d \in Claim : c # d /\ Passed(c, d) => Behind(c, d)

IInv == TypeOK /\ FileIsPublished /\ Order

-----------------------------------------------------------------------------
LEMMA InitIInv == Init => IInv
BY ClaimAssumption DEF Init, IInv, TypeOK, FileIsPublished, Order, Passed, Place

(* Types.                                                                  *)
LEMMA StepTypes == TypeOK /\ [Next]_vars => TypeOK'
<1> SUFFICES ASSUME TypeOK, [Next]_vars PROVE TypeOK'
    OBVIOUS
<1>1. CASE UNCHANGED vars
    BY <1>1 DEF TypeOK, vars, files
<1>a. ASSUME NEW c \in Claim, Forgets(c)
      PROVE  /\ todo' \in [Claim -> SUBSET Claim]
             /\ top' \in [Claim -> Nat] /\ ahead' \in [Claim -> BOOLEAN]
    BY <1>a DEF TypeOK, Forgets
<1>2. ASSUME NEW c \in Claim, Announce(c) \/ GiveUp(c) \/ Die(c) PROVE TypeOK'
    <2>1. /\ entry' \in [Claim -> {"none", "choosing", "ticket"}] /\ num' \in [Claim -> Nat]
          /\ pc' \in [Claim -> Place]
        BY <1>2 DEF TypeOK, Announce, GiveUp, Die, Moves, files, Place
    <2>2. Forgets(c) \/ UNCHANGED <<todo, top, ahead>>
        BY <1>2 DEF Announce, GiveUp, Die
    <2> QED
        BY <1>a, <2>1, <2>2 DEF TypeOK
<1>3. ASSUME NEW c \in Claim, ListTickets(c) \/ ScanClaims(c) PROVE TypeOK'
    <2>1. entry' = entry /\ num' = num /\ pc' \in [Claim -> Place]
        BY <1>3 DEF TypeOK, ListTickets, ScanClaims, Moves, files, Place
    <2>2. Listed(c) \in SUBSET Claim
        BY DEF Listed
    <2>3. todo' \in [Claim -> SUBSET Claim]
        BY <1>3, <2>2 DEF TypeOK, ListTickets, ScanClaims
    <2>4. CASE ListTickets(c)
        BY <2>1, <2>3, <2>4 DEF TypeOK, ListTickets
    <2>5. CASE ScanClaims(c)
        BY <2>1, <2>3, <2>5 DEF TypeOK, ScanClaims
    <2> QED
        BY <1>3, <2>4, <2>5
<1>4. ASSUME NEW c \in Claim, TakeTicket(c) \/ Decide(c) PROVE TypeOK'
    <2>1. /\ entry' \in [Claim -> {"none", "choosing", "ticket"}] /\ num' \in [Claim -> Nat]
          /\ pc' \in [Claim -> Place]
        BY <1>4 DEF TypeOK, TakeTicket, Decide, Moves, files, Place
    <2>2. Forgets(c)
        BY <1>4 DEF TakeTicket, Decide
    <2> QED
        BY <1>a, <2>1, <2>2 DEF TypeOK
<1>5. ASSUME NEW c \in Claim, WorkEnds(c) \/ Leave(c) PROVE TypeOK'
    BY <1>5 DEF TypeOK, WorkEnds, Leave, Removes, Moves, files, Place
<1>6. ASSUME NEW c \in Claim, NEW d \in Claim, ReadTicket(c, d) \/ CheckClaim(c, d)
      PROVE TypeOK'
    <2>1. entry' \in [Claim -> {"none", "choosing", "ticket"}] /\ num' \in [Claim -> Nat]
        BY <1>6 DEF TypeOK, ReadTicket, CheckClaim, Reads, Removes, files
    <2>2. todo' \in [Claim -> SUBSET Claim] /\ pc' = pc
        BY <1>6 DEF TypeOK, ReadTicket, CheckClaim, Reads
    <2>3. top' \in [Claim -> Nat] /\ ahead' \in [Claim -> BOOLEAN]
        BY <1>6 DEF TypeOK, ReadTicket, CheckClaim
    <2> QED
        BY <2>1, <2>2, <2>3 DEF TypeOK
<1> QED
    BY <1>1, <1>2, <1>3, <1>4, <1>5, <1>6 DEF Next, Proceeds

(* Files.  A living call's file changes only by its own steps.             *)
LEMMA StepFiles == TypeOK /\ FileIsPublished /\ [Next]_vars => FileIsPublished'
<1> SUFFICES ASSUME TypeOK, FileIsPublished, [Next]_vars PROVE FileIsPublished'
    OBVIOUS
<1>1. CASE UNCHANGED vars
    BY <1>1 DEF FileIsPublished, vars, files
<1>2. ASSUME NEW c \in Claim, Announce(c) \/ GiveUp(c) \/ Die(c) PROVE FileIsPublished'
    BY <1>2 DEF TypeOK, FileIsPublished, Announce, GiveUp, Die, Moves, files
<1>3. ASSUME NEW c \in Claim, ListTickets(c) \/ ScanClaims(c) PROVE FileIsPublished'
    BY <1>3 DEF TypeOK, FileIsPublished, ListTickets, ScanClaims, Moves, files
<1>4. ASSUME NEW c \in Claim, TakeTicket(c) \/ Decide(c) PROVE FileIsPublished'
    BY <1>4 DEF TypeOK, FileIsPublished, TakeTicket, Decide, Moves, files
<1>5. ASSUME NEW c \in Claim, WorkEnds(c) \/ Leave(c) PROVE FileIsPublished'
    BY <1>5 DEF TypeOK, FileIsPublished, WorkEnds, Leave, Removes, Moves, files
<1>6. ASSUME NEW c \in Claim, NEW d \in Claim, ReadTicket(c, d) \/ CheckClaim(c, d)
      PROVE FileIsPublished'
    BY <1>6 DEF TypeOK, FileIsPublished, ReadTicket, CheckClaim, Reads, Removes, Alive, files
<1> QED
    BY <1>1, <1>2, <1>3, <1>4, <1>5, <1>6 DEF Next, Proceeds

-----------------------------------------------------------------------------
(* The order of the calls x and y over a step of c, by what c does.        *)
LEMMA StepOrder == IInv /\ [Next]_vars => Order'
<1> SUFFICES ASSUME IInv, [Next]_vars,
                    NEW x \in Claim, NEW y \in Claim, x # y, Passed(x, y)'
             PROVE Behind(x, y)'
    BY DEF Order
<1> USE DEF IInv, TypeOK
<1>0. x \in Nat /\ y \in Nat /\ TypeOK'
    BY ClaimAssumption, StepTypes
<1>1. CASE UNCHANGED vars
    BY <1>1 DEF vars, files, Order, Passed, Behind, Before
<1>2. ASSUME NEW c \in Claim, Announce(c) PROVE Behind(x, y)'
    <2>1. CASE c = y
        BY <1>2, <2>1 DEF Announce, Moves, Behind
    <2>2. CASE c # y
        BY <1>2, <2>2 DEF Announce, Moves, Behind, Before, Passed, Order
    <2> QED BY <2>1, <2>2
<1>3. ASSUME NEW c \in Claim, GiveUp(c) \/ Die(c) PROVE Behind(x, y)'
    <2>1. CASE c = y
        BY <1>3, <2>1 DEF GiveUp, Die, Moves, Behind
    <2>2. CASE c # y
        <3>1. Passed(x, y) /\ c # x
            BY <1>3, <2>2 DEF GiveUp, Die, Moves, Forgets, Passed
        <3> QED BY <1>3, <2>2, <3>1 DEF GiveUp, Die, Moves, Forgets, files, Behind, Before, Order
    <2> QED BY <2>1, <2>2
<1>4. ASSUME NEW c \in Claim, ListTickets(c) PROVE Behind(x, y)'
    <2>1. Passed(x, y) /\ c # x
        BY <1>4 DEF ListTickets, Moves, Passed
    <2>2. CASE c = y
        <3>1. x \in Listed(c)
            BY <2>1, <2>2 DEF Passed, FileIsPublished, Listed
        <3> QED BY <1>4, <2>2, <3>1 DEF ListTickets, Moves, Behind
    <2>3. CASE c # y
        BY <1>4, <2>1, <2>3 DEF ListTickets, Moves, files, Behind, Before, Order
    <2> QED BY <2>2, <2>3
<1>5. ASSUME NEW c \in Claim, TakeTicket(c) PROVE Behind(x, y)'
    <2>1. Passed(x, y) /\ c # x
        BY <1>5 DEF TakeTicket, Moves, Forgets, Passed
    <2>2. CASE c = y
        <3>1. num[x] <= top[y]
            BY <1>5, <2>1, <2>2 DEF TakeTicket, Order, Behind
        <3> QED BY <1>5, <2>1, <2>2, <3>1 DEF TakeTicket, Moves, Behind, Before
    <2>3. CASE c # y
        BY <1>5, <2>1, <2>3 DEF TakeTicket, Moves, Forgets, Behind, Before, Order
    <2> QED BY <2>2, <2>3
<1>6. ASSUME NEW c \in Claim, ScanClaims(c) PROVE Behind(x, y)'
    <2>1. CASE c = x
        <3>1. entry[y] = "none"
            BY <1>6, <2>1 DEF ScanClaims, Moves, Passed, Listed
        <3> QED BY <1>6, <2>1, <3>1 DEF ScanClaims, Moves, Behind, FileIsPublished, Place
    <2>2. CASE c # x
        BY <1>6, <2>2 DEF ScanClaims, Moves, files, Passed, Behind, Before, Order
    <2> QED BY <2>1, <2>2
<1>7. ASSUME NEW c \in Claim, Decide(c) PROVE Behind(x, y)'
    <2>1. Passed(x, y)
        BY <1>7 DEF Decide, Moves, Forgets, Passed
    <2> QED BY <1>7, <2>1 DEF Decide, Moves, Forgets, files, Behind, Before, Order
<1>8. ASSUME NEW c \in Claim, WorkEnds(c) \/ Leave(c) PROVE Behind(x, y)'
    <2>1. Passed(x, y) /\ c # x
        BY <1>8 DEF WorkEnds, Leave, Moves, Passed
    <2> QED BY <1>8, <2>1 DEF WorkEnds, Leave, Removes, Moves, files, Behind, Before, Order
<1>9. ASSUME NEW c \in Claim, NEW d \in Claim, ReadTicket(c, d) PROVE Behind(x, y)'
    <2>1. Passed(x, y) /\ pc' = pc
        BY <1>9 DEF ReadTicket, Reads, Passed
    <2>2. Behind(x, y) /\ pc[x] # "dead" /\ entry[x] = "ticket"
        BY <2>1 DEF Order, Passed, FileIsPublished
    <2>3. num'[x] = num[x]
        BY <1>9, <2>2 DEF ReadTicket, Reads, Removes, Alive, files
    <2>4. CASE pc[y] = "read"
        <3>1. CASE c = y /\ d = x
            BY <1>0, <1>9, <2>1, <2>2, <2>3, <2>4, <3>1 DEF ReadTicket, Counts, Alive, Behind
        <3>2. CASE ~(c = y /\ d = x)
            <4>1. (x \in todo[y] => x \in todo'[y]) /\ top[y] <= top'[y]
                BY <1>9, <3>2 DEF ReadTicket, Reads
            <4> QED BY <1>0, <2>1, <2>2, <2>3, <2>4, <4>1 DEF Behind
        <3> QED BY <3>1, <3>2
    <2>5. CASE pc[y] \in {"scan", "check", "work"}
        <3>1. num'[y] = num[y]
            BY <1>9, <2>5 DEF ReadTicket, Reads, Removes, Alive, files
        <3> QED BY <2>1, <2>2, <2>3, <2>5, <3>1 DEF Behind, Before
    <2> QED BY <2>1, <2>2, <2>4, <2>5 DEF Behind
<1>10. ASSUME NEW c \in Claim, NEW d \in Claim, CheckClaim(c, d) PROVE Behind(x, y)'
    <2>1. pc' = pc /\ pc[x] \in {"check", "work"} /\ entry[x] = "ticket"
        BY <1>10 DEF CheckClaim, Reads, Passed, FileIsPublished
    <2>2. num'[x] = num[x] /\ top' = top
        BY <1>10, <2>1 DEF CheckClaim, Reads, Removes, Alive, files
    <2>3. CASE c = x /\ d = y
        <3>1. ~(Counts(y) /\ Precedes(y, x))
            <4> SUFFICES ASSUME Counts(y) /\ Precedes(y, x) PROVE FALSE
                OBVIOUS
            <4>1. ahead'[x]
                BY <1>10, <2>3 DEF CheckClaim
            <4> QED BY <1>10, <2>1, <2>3, <4>1 DEF CheckClaim, Passed
        <3>2. CASE pc[y] \in {"scan", "check", "work"}
            <4>1. entry[y] = "ticket" /\ num'[y] = num[y]
                BY <1>10, <2>3, <3>2 DEF CheckClaim, Reads, Alive, FileIsPublished, files
            <4> QED BY <1>0, <2>1, <2>2, <3>1, <3>2, <4>1
                    DEF Counts, Alive, Precedes, Behind, Before
        <3>3. CASE pc[y] = "read"
            BY <3>1, <3>3 DEF Counts, Alive, Precedes, FileIsPublished
        <3> QED BY <2>1, <3>2, <3>3 DEF Behind, Place
    <2>4. CASE ~(c = x /\ d = y)
        <3>1. Passed(x, y)
            BY <1>10, <2>4 DEF CheckClaim, Reads, Passed
        <3>2. pc[y] \in {"scan", "check", "work"} => num'[y] = num[y]
            BY <1>10 DEF CheckClaim, Reads, Removes, Alive, files
        <3>3. pc[y] = "read" => todo'[y] = todo[y]
            BY <1>10 DEF CheckClaim, Reads
        <3> QED BY <2>1, <2>2, <3>1, <3>2, <3>3 DEF Order, Behind, Before
    <2> QED BY <2>3, <2>4
<1> QED
    BY <1>1, <1>2, <1>3, <1>4, <1>5, <1>6, <1>7, <1>8, <1>9, <1>10 DEF Next, Proceeds

-----------------------------------------------------------------------------
(* The inductive invariant holds of every reachable state.                 *)
THEOREM Invariance == Spec => []IInv
<1>1. IInv /\ [Next]_vars => IInv'
    BY StepTypes, StepFiles, StepOrder DEF IInv
<1> QED
    BY InitIInv, <1>1, PTL DEF Spec

(* Every variable keeps its type.                                          *)
THEOREM Typing == Spec => []TypeOK
<1>1. IInv => TypeOK
    BY DEF IInv
<1> QED
    BY Invariance, <1>1, PTL

(* Of two calls at work each would come before the other.                  *)
LEMMA OrderExcludes == IInv => MutualExclusion
<1> SUFFICES ASSUME IInv, NEW c \in Claim, NEW d \in Claim,
                    pc[c] = "work", pc[d] = "work", c # d
             PROVE FALSE
    BY DEF MutualExclusion
<1>1. Before(c, d) /\ Before(d, c)
    BY DEF IInv, Order, Passed, Behind
<1>2. num[c] \in Nat /\ num[d] \in Nat /\ c \in Nat /\ d \in Nat
    BY ClaimAssumption DEF IInv, TypeOK
<1> QED
    BY <1>1, <1>2 DEF Before

(* Two calls never work at the same time.                                  *)
THEOREM Exclusion == Spec => []MutualExclusion
    BY Invariance, OrderExcludes, PTL

-----------------------------------------------------------------------------
(* Refinement of Section.                                                  *)

LEMMA InsideOne == ASSUME IInv, NEW c \in Claim, pc[c] = "work" PROVE Inside = c
<1>1. \A d \in Claim : pc[d] = "work" => d = c
    BY OrderExcludes DEF MutualExclusion
<1> QED
    BY <1>1 DEF Inside

LEMMA InsideNone == (\A c \in Claim : pc[c] # "work") => Inside = Free
    BY DEF Inside

(* Nobody is at work when a call decides to work.                          *)
LEMMA DecideAlone ==
    ASSUME IInv, NEW c \in Claim, pc[c] = "check", todo[c] = {}, ~ahead[c],
           NEW d \in Claim
    PROVE pc[d] # "work"
<1> SUFFICES ASSUME pc[d] = "work" PROVE FALSE
    OBVIOUS
<1>1. Before(c, d) /\ Before(d, c)
    BY DEF IInv, Order, Passed, Behind
<1>2. num[c] \in Nat /\ num[d] \in Nat /\ c \in Nat /\ d \in Nat
    BY ClaimAssumption DEF IInv, TypeOK
<1> QED
    BY <1>1, <1>2 DEF Before

(* A step in which nobody begins or ends to work leaves the section alone. *)
LEMMA SameInside ==
    (\A c \in Claim : pc'[c] = "work" <=> pc[c] = "work") => Inside' = Inside
<1> SUFFICES ASSUME \A c \in Claim : pc'[c] = "work" <=> pc[c] = "work"
             PROVE Inside' = Inside
    OBVIOUS
<1>1. (CHOOSE c \in Claim : pc'[c] = "work") = (CHOOSE c \in Claim : pc[c] = "work")
    OBVIOUS
<1> QED
    BY <1>1 DEF Inside

(* Who stops working leaves the section.                                   *)
LEMMA WorkerLeaves ==
    ASSUME IInv, IInv', NEW c \in Claim, pc[c] = "work",
           pc'[c] # "work", \A d \in Claim \ {c} : pc'[d] = pc[d]
    PROVE TheSection!Leave(c)
<1>1. Inside = c
    BY InsideOne
<1>2. \A d \in Claim : pc[d] = "work" => d = c
    BY OrderExcludes DEF MutualExclusion
<1>3. \A d \in Claim : pc'[d] # "work"
    BY <1>2
<1>4. Inside' = Free
    BY <1>3 DEF Inside
<1> QED
    BY <1>1, <1>4 DEF TheSection!Leave

LEMMA StepRefines == IInv /\ IInv' /\ [Next]_vars => [TheSection!Next]_Inside
<1> SUFFICES ASSUME IInv, IInv', [Next]_vars PROVE TheSection!Next \/ Inside' = Inside
    OBVIOUS
<1> USE DEF IInv, TypeOK
<1>1. CASE UNCHANGED vars
    BY <1>1, SameInside DEF vars
<1>2. ASSUME NEW c \in Claim,
             \/ Announce(c) \/ GiveUp(c) \/ ListTickets(c) \/ TakeTicket(c)
             \/ ScanClaims(c) \/ Leave(c)
      PROVE Inside' = Inside
    <2>1. \A d \in Claim : pc'[d] = "work" <=> pc[d] = "work"
        BY <1>2 DEF Announce, GiveUp, ListTickets, TakeTicket, ScanClaims, Leave, Moves
    <2> QED BY <2>1, SameInside
<1>3. ASSUME NEW c \in Claim, NEW d \in Claim, ReadTicket(c, d) \/ CheckClaim(c, d)
      PROVE Inside' = Inside
    BY <1>3, SameInside DEF ReadTicket, CheckClaim, Reads
<1>4. ASSUME NEW c \in Claim, Die(c) PROVE TheSection!Next \/ Inside' = Inside
    <2>1. CASE pc[c] = "work"
        <3>1. TheSection!Leave(c)
            BY <1>4, <2>1, WorkerLeaves DEF Die, Moves
        <3> QED BY <3>1 DEF TheSection!Next
    <2>2. CASE pc[c] # "work"
        <3>1. \A d \in Claim : pc'[d] = "work" <=> pc[d] = "work"
            BY <1>4, <2>2 DEF Die, Moves
        <3> QED BY <3>1, SameInside
    <2> QED BY <2>1, <2>2
<1>5. ASSUME NEW c \in Claim, WorkEnds(c) PROVE TheSection!Next
    <2>1. TheSection!Leave(c)
        BY <1>5, WorkerLeaves DEF WorkEnds, Moves
    <2> QED BY <2>1 DEF TheSection!Next
<1>6. ASSUME NEW c \in Claim, Decide(c) PROVE TheSection!Next \/ Inside' = Inside
    <2>1. CASE ahead[c]
        <3>1. \A d \in Claim : pc'[d] = "work" <=> pc[d] = "work"
            BY <1>6, <2>1 DEF Decide, Moves
        <3> QED BY <3>1, SameInside
    <2>2. CASE ~ahead[c]
        <3>1. Inside = Free
            BY <1>6, <2>2, DecideAlone, InsideNone DEF Decide
        <3>2. pc'[c] = "work" /\ \A d \in Claim : pc'[d] = "work" => d = c
            BY <1>6, <2>2, DecideAlone DEF Decide, Moves
        <3>3. Inside' = c
            BY <3>2 DEF Inside
        <3>4. TheSection!Enter(c)
            BY <3>1, <3>3 DEF TheSection!Enter
        <3> QED BY <3>4 DEF TheSection!Next
    <2> QED BY <2>1, <2>2
<1> QED
    BY <1>1, <1>2, <1>3, <1>4, <1>5, <1>6 DEF Next, Proceeds

(* The bakery implements the section: the calls at work, one at a time.    *)
THEOREM Refinement == Spec => ImplementsSection
<1>1. Init => TheSection!Init
    BY InsideNone DEF Init, TheSection!Init
<1> QED
    BY <1>1, Invariance, StepRefines, PTL DEF Spec, ImplementsSection, TheSection!Spec
=============================================================================
