SPECIFICATION SiteSpec
CONSTANTS
  Process = {s, c}
  Server = {s}
  Call <- MCCall
  NoCall = NoCall
  Path = {"in.dwg", "in.dxf", "s.json", "o.svg"}
  NoPath = NoPath
  Ext <- MCExt
  Disk <- MCDisk
  Bytes <- MCBytes
  Change <- MCChange
  Model = {"A", "B"}
  Undecodable = Undecodable
  Decode <- MCDecode
  Arg = {"edit"}
  Refused = Refused
  Edited <- MCEdited
  ToJson <- MCToJson
  Picture <- MCPicture
  Absent = Absent
  Directory = Directory
  Empty = Empty
  Torn = Torn
  HeldDrawings = 2
  Site = {"verbs", "plain"}
  CallsAt <- MCCallsAt
  ChangesAt <- MCChangesAt
INVARIANT
  KeepsNothingBetweenCalls
CHECK_DEADLOCK FALSE
