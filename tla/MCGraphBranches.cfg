\* Do the branches of a conditional not interfere?
\* Deadlock is not checked: a function ends.
SPECIFICATION Spec
CONSTANTS
  x = x
  y = y
  v = v
  car = car
  track = track
  Attrs = {x, y}
  Locals = {v}
  NoAttr = NoAttr
  ValMod = 2
  Vocabularies <- OneComponent
  TestVals = {1}
  MaxStmts = 3
  MaxDepth = 2
INVARIANT SoundUnlessIgnored
CHECK_DEADLOCK FALSE
