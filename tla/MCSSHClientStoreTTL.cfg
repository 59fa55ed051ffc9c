CONSTANTS
    Keys = {k1}
    Clients = {c1, c2, c3}
    Callers = {p1, p2}
    Nil = Nil
SPECIFICATION Spec
SYMMETRY Symmetry
PROPERTY OnlyUnusedClosed
