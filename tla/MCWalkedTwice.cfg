SPECIFICATION Spec
CONSTANTS
  IntactObjects = 5
  MaxDepth = 2
  MaxOwned = 3
  Drawing <- DamagedLists
INVARIANTS PassesAgree
CHECK_DEADLOCK FALSE
