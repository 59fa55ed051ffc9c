CONSTANTS
    Files = {f1}
    Runs = {r1, r2, r3}
    Ids = {i1, i2}
    Caps = {0, 1}
    ManualActive = FALSE
    Overwrites = FALSE
    Nil = Nil
SPECIFICATION Spec
SYMMETRY Symmetry
INVARIANT OneInstance
CHECK_DEADLOCK FALSE
