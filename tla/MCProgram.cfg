SPECIFICATION Spec
CONSTANTS
  Calls = {c1, c2, c3}
  Versions <- MCVersions
INVARIANTS
  TypeOK
  HandlersHaveService
  OpenGLReady
PROPERTY
  ClosedThenExits
