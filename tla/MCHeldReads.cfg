SPECIFICATION Spec
CONSTANTS
  Reading <- MCReading
  Bytes = {"a", "b"}
  Model <- MCModel
  Undecodable = Undecodable
  Decode <- MCDecode
  HeldDrawings = 4
  MaxReads = 6
INVARIANTS
  TypeOK
  HeldAsDecoded
  HeldOnce
  HeldIsMostRecent
PROPERTIES
  AnsweredAsDecoded
  ReadsEnd
CHECK_DEADLOCK FALSE
