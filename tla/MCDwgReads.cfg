SPECIFICATION Spec
CONSTANTS
  Thread = {t1, t2}
  Nobody = Nobody
  Nothing = Nothing
  Bytes = {"good", "bad", "faulty", "endless"}
  Critical = {"bad"}
  Faulty = {"faulty"}
  Endless = {"endless"}
  MaxReads = 2
INVARIANTS
  TypeOK
  CyclesNeverMix
  HeldForPanicsOnly
PROPERTIES
  DxfNeedsNoLock
  ReadsAsAsked
CHECK_DEADLOCK FALSE
