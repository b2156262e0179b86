SPECIFICATION FuzzOneSpec
CONSTANTS
  Inputs <- MCInputs
  extras <- MCExtras
  Cksums = {1, 2}
  ARITH_MAX = 35
  EFF_MAP_SCALE2 = 1
  EFF_MIN_LEN = 5
  EFF_MAX_PERC = 70
  MIN_AUTO_EXTRA = 2
  MAX_AUTO_EXTRA = 3
  MAX_DET_EXTRAS = 2
  USE_AUTO_EXTRAS = 1
  MAX_AUTO_EXTRAS = 2
  MAX_FILE = 8
  ExtraLens = {1, 3}
  SourceLens = {2, 10}
  TargetLens = {1, 3, 9}
  SpeedFactors = {50, 300}
  SizeFactors = {100}
  Depths = {1, 4}
  MaxHandicap = 1
  HAVOC_BLK_SMALL = 1
  HAVOC_BLK_MEDIUM = 2
  HAVOC_BLK_LARGE = 3
  HAVOC_BLK_XL = 3
  HAVOC_CYCLES = 1
  HAVOC_CYCLES_INIT = 2
  HAVOC_MAX_MULT = 1
  HAVOC_MIN = 1
  SPLICE_HAVOC = 1
  SPLICE_CYCLES = 2
  HAVOC_DIVS = {1, 2}
  MaxStacking = 2
INVARIANTS BuffersInOrder TokensAreRuns PassedDetMeansTried
PROPERTY HavocReturns
CHECK_DEADLOCK FALSE
