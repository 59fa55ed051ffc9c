CONSTANTS
    Conns = {c1, c2}
    NoConn = NoConn
    Files = {f1, f2}
    InJobDir = TRUE
    MaxChanges = 3
SPECIFICATION FairSpec
INVARIANT TypeOK
  
CHECK_DEADLOCK FALSE
