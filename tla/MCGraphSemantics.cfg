\* Every function of up to 4 statements, in three vocabularies.
\* Deadlock is not checked: a function ends.
SPECIFICATION Spec
CONSTANTS
  x = x
  y = y
  v = v
  car = car
  track = track
  Attrs = {x, y}
  Locals = {v}
  NoAttr = NoAttr
  ValMod = 2
  Vocabularies <- AllVocabularies
  TestVals = {1}
  MaxStmts = 4
  MaxDepth = 2
INVARIANTS
  TypeOK
  SoundUnlessFlawed
  DefinedNeverRaises
  InputsComplete
  EngineAgreesIfIndependent
  SafelyWrittenAgrees
CHECK_DEADLOCK FALSE
