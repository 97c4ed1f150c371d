SPECIFICATION FairSpec
CONSTANTS
  Procs = {p1, p2}
  Timeouts <- MCTimeouts
  MaxRunning = 2
INVARIANTS
  InuseIsOpen
  FiresOnlyOnSilence
PROPERTIES
  OnlyDisableStops
  GuardsTheBox
\* The panic is the end of the system.
CHECK_DEADLOCK FALSE
