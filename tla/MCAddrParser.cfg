CONSTANTS
  CoordNumMax <- MCCoordNumMax
  MaxLen <- MCMaxLen
  Null = Null
SPECIFICATION Spec
\* a parse returns: the final state has no successor
CHECK_DEADLOCK FALSE
INVARIANTS
  TypeOK
PROPERTIES
  ParseRefinesSpec
