SPECIFICATION FairSpec
CONSTANTS
  Tty = {"cmd", "data"}
  Scripts <- MCPlugUnplug
  Nobody = Nobody
  Settled = TRUE
INVARIANTS
  PluggedComesUp
  UnpluggedGoesDown
  ProtectedZone
PROPERTY
  EveryScriptEnds
\* The scripts end.
CHECK_DEADLOCK FALSE
