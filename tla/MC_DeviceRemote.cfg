CONSTANTS
  Tracks = {"t1", "t2"}
  MaxLevel = 0
  Orders = {"ON", "OFF", "CONNECT", "STARTED", "METASEND"}
  Commands = {"PREVENT", "BUSY", "BREAK"}
  MaxOrders = 3
  IdleTimeout = 1
  PreventTimeout = 1
  StartWait = 1
  RefreshWait = 2
  ClockRange = 1000
  AutoPlay = FALSE
  MuteOnPause = TRUE
  VolumeFilter = 1
  EarlyDelete = FALSE
SPECIFICATION AnsweringSpec
PROPERTY ArtworkMatchesText
PROPERTY MetadataShown
PROPERTY PreventedSwitchesOff
PROPERTY BrokenSwitchesOff
PROPERTY OffReleases
