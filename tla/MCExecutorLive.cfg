CONSTANTS
    Files = {f1}
    Runs = {r1, r2}
    Ids = {i1, i2}
    Caps = {1}
    ManualActive = FALSE
    Overwrites = FALSE
    Nil = Nil
SPECIFICATION FairSpec
INVARIANTS NoOrphanEntry SchedulerSurvives
PROPERTIES FoundRunEnds 
CHECK_DEADLOCK FALSE
