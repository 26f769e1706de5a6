\* Safety: two revisions, of one reminder or of two, and two mishaps.
SPECIFICATION Spec
CONSTANTS
    r1 = r1
    r2 = r2
    e1 = e1
    e2 = e2
    e3 = e3
    ReminderId = {r1, r2}
    EventId = {e1, e2, e3}
    NoReminder = NoReminder
    NoId = NoId
    LateWindow = 1
    MaxOpen = 2
    MaxRetained = 0
    DueTime = {1}
    RetryStep = 1
    MaxTime = 2
    MaxRevision = 2
    MaxChanges = 2
    MaxMishaps = 2
SYMMETRY Interchangeable
INVARIANTS TypeOK StoresSound OncePerRevision NoLostWakeup
PROPERTIES VoidedNeverWakes WokenIsOnRecord
CHECK_DEADLOCK FALSE
