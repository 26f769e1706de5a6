\* Three calls, each of whose processes may die at any step.
SPECIFICATION FairSpec
CONSTANTS
    c1 = c1
    c2 = c2
    c3 = c3
    Contender = {c1, c2, c3}
    Nobody = Nobody
INVARIANTS TypeOK OneHolderUnlessBlind
PROPERTIES HolderIsSpared GetsLock
CHECK_DEADLOCK FALSE
