SPECIFICATION Spec
CONSTANTS
  Half = 2
  Leads <- MCLeads
  Table <- MCTable
  Places = {p1, p2}
  MaxLength = 3
  Reads = 2
INVARIANTS
  PairsOnlyHighBytes
CHECK_DEADLOCK FALSE
