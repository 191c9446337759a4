\* Every fault: abort, stall and shutdown at any moment.
\* A client that leaves blocks the goroutines for good (see the Abort run).
SPECIFICATION FairSpec
CONSTANTS
  MaxReads = 2
  MaxPerChunk = 2
  Readers = {"host", "proxy"}
  Faults = {"abort", "stall", "shutdown"}
INVARIANTS TypeOK NothingLost CloseTellsTheTruth NoAbandonedStream SlotFreeAfterSuccess
PROPERTIES ImplementsRelay StreamEnds ProxiedReaderEnds
CHECK_DEADLOCK FALSE
