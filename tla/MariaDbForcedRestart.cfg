SPECIFICATION Spec
CONSTANTS
  Requests = {r1}
  Startup = Startup
  Watch = Watch
  Shutdown = Shutdown
  None = None
PROPERTY
  RestartExitNotFatal
CHECK_DEADLOCK FALSE
