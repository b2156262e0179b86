SPECIFICATION Spec
CONSTANTS
  Outcomes <- MCOutcomes
  MAP_SIZE = 2
  Seeds = 1
  MaxEntries = 2
  MaxRuns = 2
  CAL_CYCLES = 2
  CAL_CYCLES_LONG = 3
  CAL_CHANCES = 3
  KEEP_UNIQUE_HANG = 1
  KEEP_UNIQUE_CRASH = 1
  Modes = {"none", "crash"}
INVARIANTS RecordsAreTrue MarksAreTrue
PROPERTY CalibrationEnds
CHECK_DEADLOCK FALSE
