\* A client that disconnects.
SPECIFICATION FairSpec
CONSTANTS
  MaxReads = 3
  MaxPerChunk = 2
  Readers = {"host", "proxy"}
  Faults = {"abort"}
PROPERTY AbortFreesSlot
CHECK_DEADLOCK FALSE
