\* Two notifications; one fault, one crash, one orderly restart.
SPECIFICATION FairSpec
CONSTANTS
    MaxStream = 2
    MaxFaults = 1
    MaxCrashes = 1
    MaxRestarts = 1
INVARIANTS TypeOK CommittedIsTold NoDeafGap RepeatsNeedMishap
PROPERTIES SkipsNeedFault ToldInTheEnd
CHECK_DEADLOCK FALSE
