SPECIFICATION FairSpec
CONSTANTS
  Devs <- MCDevs
  Queues <- MCQueues
  QueuesOf <- MCQueuesOf
  ExtBufs = 3
  U32 = 5
  MaxUse = 2
  Follow = FALSE
INVARIANTS TypeOK RingSound FreedOnce UseExact TotalExact
PROPERTIES FairShare OopsExplained TransmittedIsFreed
CHECK_DEADLOCK FALSE
