\* Two clients on one simulation: is a started one ever replaced?
\* Deadlock is not checked: a crashed engine stays down.
SPECIFICATION FairSpec
CONSTANTS
  x = x
  y = y
  none = none
  c1 = c1
  c2 = c2
  s1 = s1
  s2 = s2
  Attrs = {x, y}
  NoAttr = none
  Unset = unset
  ValMod = 2
  Clients = {c1, c2}
  SimNames = {s1, s2}
  SimDefs <- Defs
  Calls <- SharedSim
  NoCall = NoCall
PROPERTY LockedNeverReplaced
CHECK_DEADLOCK FALSE
