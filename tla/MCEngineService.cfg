\* Two clients, each with a simulation of its own.
SPECIFICATION Spec
CONSTANTS
  x = x
  y = y
  none = none
  c1 = c1
  c2 = c2
  s1 = s1
  s2 = s2
  Attrs = {x, y}
  NoAttr = none
  Unset = unset
  ValMod = 2
  Clients = {c1, c2}
  SimNames = {s1, s2}
  SimDefs <- Defs
  Calls <- OwnSims
  NoCall = NoCall
INVARIANTS
  TypeOK
  ReferencesIntact
PROPERTIES
  LockedNeverReplaced
  ImplementsRegistry
