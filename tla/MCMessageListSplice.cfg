SPECIFICATION ListSpec
CONSTANTS
  InitialQueue <- TwoSeeds
  MaxRegions = 4
  MaxMutations = 3
  MaxQueue = 3
INVARIANTS ListHolds BufferIsSent
PROPERTY ImplementsMessageSeq
