SPECIFICATION Spec
CONSTANTS
  Channels = {c1, c2, c3}
  Fds = {fd1, fd2}
  None = None
  InitEventListSize = 1
SYMMETRY Symmetry
INVARIANTS
  TypeOK
  NoFault
  IndexAgrees
  NoStalePointer
  ListBounded
PROPERTIES
  ImplementsPromise
