CONSTANTS
  Byte = {0, 1}
  BufSize = 5
SPECIFICATION ParserSpec
INVARIANT AtomContiguous
CHECK_DEADLOCK FALSE
