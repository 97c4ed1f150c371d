SPECIFICATION Spec
CONSTANTS
  Tty = {"cmd", "data"}
  Scripts <- MCPlugUnplug
  Nobody = Nobody
  Settled = FALSE
INVARIANT
  NoDongleNoDevice
\* The scripts end.
CHECK_DEADLOCK FALSE
