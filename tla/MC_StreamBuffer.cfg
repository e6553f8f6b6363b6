CONSTANTS
  Byte = {0, 1}
  BufSize = 5
SPECIFICATION Spec
INVARIANT TypeOK
PROPERTY QueueSpec
