SPECIFICATION FairSpec
CONSTANTS
  Polled <- MCPolled
  OtherIds <- MCOtherIds
  ResetDown <- MCResetDown
  EventId <- MCEventId
  Cap = 2
  Readers = {r1, r2}
  U32 = 16
INVARIANTS TypeOK TriggerInRange LongOnlyWhileDown SesTimerOwned ReaderFindsEvent NoSpontaneousReset
PROPERTIES EdgesApart ResetHappens SesComesBack
