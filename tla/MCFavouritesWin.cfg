SPECIFICATION Spec
CONSTANTS
  MapSize = 2
  States <- TwoStates
  Factors <- TwoFactors
  Seeds = 2
  MaxEntries = 3
  Wrap = 16
INVARIANT TypeOK RefCounts WonBytesTraced FavouredCover MostStatesWin
