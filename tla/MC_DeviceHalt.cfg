CONSTANTS
  Tracks = {"t1"}
  MaxLevel = 2
  Orders = {"ON", "STOP", "CONNECT", "FINISHED", "VOLUME", "MODE", "STARTED", "DELETE"}
  Commands = {}
  MaxOrders = 4
  IdleTimeout = 2
  PreventTimeout = 1
  StartWait = 1
  RefreshWait = 2
  ClockRange = 1000
  AutoPlay = FALSE
  MuteOnPause = FALSE
  VolumeFilter = 1
  EarlyDelete = FALSE
SPECIFICATION FairSpec
INVARIANT VolumeApplied
INVARIANT QuietOnceGone
PROPERTY HaltedReleased
PROPERTY DeleteReturns
