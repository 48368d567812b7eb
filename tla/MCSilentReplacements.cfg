SPECIFICATION Spec
CONSTANTS
  Half = 2
  Leads <- MCLeads
  Table <- MCTable
  Places = {p1, p2}
  MaxLength = 3
  Reads = 2
PROPERTY
  NothingIsReplacedInSilence
CHECK_DEADLOCK FALSE
