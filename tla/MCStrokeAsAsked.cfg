SPECIFICATION Spec
CONSTANTS
  Asked <- MCAsked
  Drawn <- MCDrawn
  Rounds = 8
INVARIANT
  StrokeIsAsAsked
CHECK_DEADLOCK FALSE
