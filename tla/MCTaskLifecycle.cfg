SPECIFICATION Spec
CONSTANTS
    Room = {r1, r2}
    Member = {m1}
    Provisioner = {p1, p2}
    None = None
    MaxMishaps = 1
SYMMETRY Alike
INVARIANTS TypeOK RoomOfTask GoneStaysGone NothingLeft SettledIsClosed
PROPERTIES DeletionFences CloseGoesForward
CHECK_DEADLOCK FALSE
