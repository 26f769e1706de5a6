\* Two loops and the commands of an operator: switches, reloads, turns that hang.
SPECIFICATION FairSpec
CONSTANTS
    p1 = p1
    p2 = p2
    op = op
    r1 = r1
    r2 = r2
    Loop = {1, 2}
    Run = {r1}
    Poller = {p1}
    Operator = op
    Interval = 1
    Jitter = {0}
    Delay = 1
    Regression = 0
    NewConfig <- Reconfigured
    MaxTime = 1
    MaxCommands = 2
    MaxMishaps = 0
    NoRun = NoRun
PROPERTIES DisableLasts PollReturns
CHECK_DEADLOCK FALSE
