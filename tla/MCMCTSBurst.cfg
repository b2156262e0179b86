SPECIFICATION Spec
CONSTANTS
  Entries <- BurstEntries
  IgnAst = FALSE
  FuzzM3 = FALSE
  MaxExecs = 3
  MaxRounds = 3
  MaxSelected = 20
INVARIANTS TypeOK TreeSound AssertionsHold
PROPERTIES SteersHonestly SelectionTerminates ImplementsTrie
