\* Two data values tell components apart; four additions let a slot be freed,
\* used again, freed and used again while another component stays in use.
\* Deadlock is not checked: once MaxId components were added and removed
\* nothing is left to do.
SPECIFICATION Spec
CONSTANTS
  Vals = {v1, v2}
  MaxId = 4
INVARIANTS
  TypeOK
  SlotsPartitioned
  AsCompSetExactUntilRemove
PROPERTIES
  StaleIdsStayDead
  ImplementsCompTable
CHECK_DEADLOCK FALSE
