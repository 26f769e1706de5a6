\* Liveness: a reminder and its successor, one mishap, no symmetry.
SPECIFICATION FairSpec
CONSTANTS
    r1 = r1
    r2 = r2
    e1 = e1
    e2 = e2
    e3 = e3
    ReminderId = {r1, r2}
    EventId = {e1, e2}
    NoReminder = NoReminder
    NoId = NoId
    LateWindow = 1
    MaxOpen = 1
    MaxRetained = 0
    DueTime = {1}
    RetryStep = 1
    MaxTime = 2
    MaxRevision = 1
    MaxChanges = 3
    MaxMishaps = 1
PROPERTIES ActiveIsResolved
CHECK_DEADLOCK FALSE
