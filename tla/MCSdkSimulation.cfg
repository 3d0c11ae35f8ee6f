SPECIFICATION Spec
CONSTANTS
  o1 = o1
  s1 = s1
  s2 = s2
  pos = pos
  vel = vel
  Components = {pos, vel}
  Objects = {o1}
  Strays = {s1, s2}
  StrayOf <- MCStrayOf
  EntityDefs <- MCEntityDefs
  Fns = {f}
  MaxSystems = 2
  MaxSteps = 2
  MaxRestarts = 1
SYMMETRY Symmetry
INVARIANTS
  TypeOK
  StartedIsRegistered
  StepsAtMostOnce
  LookupAgrees
PROPERTIES
  StepRanCommitted
