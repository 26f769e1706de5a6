\* The wakes that are steered: two notifications, no fault, no crash, no restart.
SPECIFICATION Spec
CONSTANTS
    MaxStream = 2
    MaxFaults = 0
    MaxCrashes = 0
    MaxRestarts = 0
INVARIANT CommittedIsActedOn
CHECK_DEADLOCK FALSE
