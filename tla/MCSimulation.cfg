\* Deadlock is not checked: the constructor ends.
SPECIFICATION Spec
CONSTANTS
  pos = pos
  vel = vel
  Names <- MCNames
  IdMod = 7
  SimDefs <- MCSimDefs
INVARIANTS
  TypeOK
  EntityIdsIdentify
  SystemIdsIdentify
  LookupFindsOwnComponent
  GroupsHoldOneType
CHECK_DEADLOCK FALSE
