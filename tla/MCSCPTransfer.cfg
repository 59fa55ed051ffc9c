SPECIFICATION FairSpec
CONSTANTS
  Names <- MCNames
  Numeric <- MCNumeric
  Lengths = {0, 1, 2, 3}
  Times <- MCTimes
  Target <- MCTarget
  TwoTo63 = 3
  IOErrors = TRUE
  Trees <- MCTrees
  Contents <- MCContents
  Clients = {"source", "any"}
  MaxUnits = 4
  MaxChanges = 1
  Disconnects = TRUE
INVARIANTS TypeOK  TimesBelongToNext OnlyFaultsFail 
   
