SPECIFICATION Spec
CONSTANTS
  Byte = {b0, b1}
  Zero = b0
  MaxInput = 3
  Inputs <- MCInputs
  CheapPrepend = 2
  InitialSize = 2
  ExtraSize = 2
  MaxReadable = 5
INVARIANTS
  TypeOK
PROPERTIES
  GrowsWhenNeeded
  ImplementsByteQueue
