CONSTANTS
    Files = {f1}
    Runs = {r1, r2, r3}
    Ids = {i1, i2}
    Caps = {0, 1}
    ManualActive = FALSE
    Overwrites = TRUE
    Nil = Nil
SPECIFICATION Spec
SYMMETRY Symmetry
INVARIANT NoOrphanEntry
CHECK_DEADLOCK FALSE
