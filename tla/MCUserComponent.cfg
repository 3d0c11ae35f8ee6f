\* Deadlock is not checked: a trap ends the engine.
SPECIFICATION Spec
CONSTANTS
  attr1 = attr1
  attr2 = attr2
  attr3 = attr3
  Attrs = {attr1, attr2, attr3}
  Schemas <- MCSchemas
  Nodes <- MCNodes
  Lowest <- MCLowest
  Exact <- MCExact
  Other = Other
INVARIANTS
  TypeOK
  StoredAsDeclared
  WellTypedNeverThrows
CHECK_DEADLOCK FALSE
