CONSTANTS
    Keys = {k1}
    Clients = {c1, c2}
    Callers = {p1, p2}
    Nil = Nil
SPECIFICATION FairSpec
INVARIANTS TypeOK RefNeverTooHigh NoLeakUnlessDisplaced
PROPERTIES UnusedAreClosed
