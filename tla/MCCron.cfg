CONSTANTS
    i1 = i1
    i2 = i2
    i3 = i3
    Ids = {i1, i2, i3}
    Plan <- MCPlan
    MaxTime = 4
    NoCall = NoCall
SPECIFICATION FairSpec
PROPERTIES EntriesSpec NoActivationMissed
CHECK_DEADLOCK FALSE
