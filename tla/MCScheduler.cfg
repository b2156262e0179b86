SPECIFICATION Spec
CONSTANTS
  States <- ThreeStates
  Responses <- MCResponses
  Seeds = 2
  MaxQueue = 3
  Algos <- MCAlgos
  WarmUp = 1
  FewSeeds = 2
INVARIANTS LearnsAll RoundsAreSound
PROPERTIES FuzzingGoesOn NewSeedTried
