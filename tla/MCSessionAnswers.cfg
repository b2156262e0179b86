SPECIFICATION Spec
CONSTANTS
  Codes <- OneCode
  Part = Part
  Bad = Bad
  MaxMessages = 3
  MaxUnits = 2
  MaxSessions = 2
  MaxCoverage = 1
  TruncateAt = 3
INVARIANT OneSession AnswersCredited
PROPERTY SessionEnds
