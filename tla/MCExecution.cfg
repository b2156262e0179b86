SPECIFICATION ExecutionSpec
CONSTANTS
  Options <- MCOptions
  MaxRuns = 3
INVARIANTS InStep ResultsAreOwn
PROPERTY RunsEnd
CHECK_DEADLOCK FALSE
