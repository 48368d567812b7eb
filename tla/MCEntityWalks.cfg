SPECIFICATION Spec
CONSTANTS
  IntactObjects = 5
  MaxDepth = 2
  MaxOwned = 3
  Drawing <- MCDrawing
INVARIANTS
  TypeOK
  IntactIsRead
  WalksStayInBounds
  PassesAgreeUnlessLeft
  OpenRunsAreReported
PROPERTY
  WalksEnd
CHECK_DEADLOCK FALSE
