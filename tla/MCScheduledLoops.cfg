\* Two polls of one loop, a command, failed writes, crashes and a clock that steps back.
SPECIFICATION Spec
CONSTANTS
    p1 = p1
    p2 = p2
    op = op
    r1 = r1
    r2 = r2
    Loop = {1}
    Run = {r1, r2}
    Poller = {p1, p2}
    Operator = op
    Interval = 1
    Jitter = {0}
    Delay = 0
    Regression = 0
    NewConfig <- Reconfigured
    MaxTime = 1
    MaxCommands = 1
    MaxMishaps = 2
    NoRun = NoRun
SYMMETRY Interchangeable
INVARIANTS TypeOK FileIsTrue TimersHold
PROPERTIES OccurrenceOnce
CHECK_DEADLOCK FALSE
