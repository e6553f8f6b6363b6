CONSTANTS
  NTracks = 2
  MaxLen = 2
  StreamSize = 2
  OutSize = 3
  Threshold = 0
  StartFrames = 0
  Block = 2
  Autostarts = {1, 3}
  Orders = {"q", "f", "p"}
  MaxOrders = 1
  Patient = TRUE
  Breakable = TRUE
  CodecErrors = TRUE
SPECIFICATION Spec
INVARIANT TypeOK
INVARIANT StoppedIsEmpty
INVARIANT NothingLost
INVARIANT StartMark
INVARIANT HeardBegun
PROPERTY FlushKeepsPlaying
PROPERTY StartsReported
