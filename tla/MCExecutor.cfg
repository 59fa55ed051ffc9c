CONSTANTS
    Files = {f1}
    Runs = {r1, r2}
    Ids = {i1}
    Caps = {0, 1}
    ManualActive = TRUE
    Overwrites = FALSE
    Nil = Nil
SPECIFICATION Spec
SYMMETRY Symmetry
INVARIANTS TypeOK RunningEntryLive ReportedOnce NoOverlapUnlessEvicted
PROPERTIES RejectionJustified HistoryCapped
CHECK_DEADLOCK FALSE
