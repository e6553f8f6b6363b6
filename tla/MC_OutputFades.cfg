CONSTANTS
  Size = 7
  Block = 2
  FadeLen = 4
  Modes = {"NONE", "CROSS", "IN", "OUT", "INOUT"}
  Orders = {"q", "f", "p", "u", "a"}
  Intervals = {0, 3}
  NTracks = 3
  MaxLen = 4
  MaxOrders = 2
SPECIFICATION Spec
CHECK_DEADLOCK FALSE
INVARIANT TypeOK
INVARIANT FadesInPlace
PROPERTY HeardInOrder
