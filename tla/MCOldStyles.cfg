SPECIFICATION Spec
CONSTANT
  Entities <- MCEntities
INVARIANT
  StyledAsStated
CHECK_DEADLOCK FALSE
