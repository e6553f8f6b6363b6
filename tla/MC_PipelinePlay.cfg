CONSTANTS
  NTracks = 2
  MaxLen = 2
  StreamSize = 2
  OutSize = 2
  Threshold = 1
  StartFrames = 1
  Block = 2
  Autostarts = {1, 2}
  Orders = {}
  MaxOrders = 0
  Patient = TRUE
  Breakable = FALSE
  CodecErrors = FALSE
SPECIFICATION FairSpec
PROPERTY TrackAnnounced
PROPERTY EndReported
