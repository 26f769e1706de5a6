\* Three calls, any of which may give up or die at any step.
SPECIFICATION FairSpec
CONSTANTS
    Claim = {1, 2, 3}
    Free <- Never
PROPERTIES ImplementsSection GetsIn
CHECK_DEADLOCK FALSE
