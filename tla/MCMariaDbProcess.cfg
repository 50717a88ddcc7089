SPECIFICATION FairSpec
CONSTANTS
  Requests = {r1, r2}
  Startup = Startup
  Watch = Watch
  Shutdown = Shutdown
  None = None
INVARIANT
  ServerInv
  OneServer
  ResetSparesServer
  StoppedLeavesNone
  BootstrapsExclusive
PROPERTY
  CallsEnd
  ShutdownEnds
CHECK_DEADLOCK FALSE
