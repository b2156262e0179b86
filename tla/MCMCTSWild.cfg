SPECIFICATION Spec
CONSTANTS
  Entries <- WildEntries
  IgnAst = TRUE
  FuzzM3 = TRUE
  MaxExecs = 3
  MaxRounds = 2
  MaxSelected = 4
INVARIANTS SeedsUsable M2NotEmpty SelectionSteps
