SPECIFICATION Spec
CONSTANTS
  Requests <- MCRequests
  Replies <- MCReplies
  MaxPieces = 3
  Behind <- MCBehind
  MaxCodes = 12
INVARIANTS RequestsCut ResponsesRead
PROPERTY Returns
CHECK_DEADLOCK FALSE
