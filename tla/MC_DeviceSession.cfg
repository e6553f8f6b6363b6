CONSTANTS
  Tracks = {"t1"}
  MaxLevel = 1
  Orders = {"ON", "OFF", "PAUSE", "UNPAUSE", "CONNECT", "DELETE"}
  Commands = {"PREVENT", "FEEDBACK"}
  MaxOrders = 5
  IdleTimeout = 2
  PreventTimeout = 1
  StartWait = 1
  RefreshWait = 2
  ClockRange = 1000
  AutoPlay = TRUE
  MuteOnPause = TRUE
  VolumeFilter = 1
  EarlyDelete = FALSE
SPECIFICATION Spec
INVARIANT TypeOK
INVARIANT SessionApplied
