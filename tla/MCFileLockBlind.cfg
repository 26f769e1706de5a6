\* The same calls: what a reclaim that saw no owner can do.
SPECIFICATION Spec
CONSTANTS
    c1 = c1
    c2 = c2
    c3 = c3
    Contender = {c1, c2, c3}
    Nobody = Nobody
SYMMETRY Interchangeable
INVARIANTS OneHolder
CHECK_DEADLOCK FALSE
