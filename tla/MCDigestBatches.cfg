\* Two batches at a time, in either order; failed writes, no stop.
SPECIFICATION Spec
CONSTANTS
  DocIds <- MCDocIds
  Contents <- MCContents
  ChanSize = 1
  LostReply = TRUE
  MaxHeight = 3
  MaxBatches = 2
  MaxCopies = 2
  MaxFailures = 1
  MaxCommands = 0
  MaxCrashes = 0
INVARIANTS
  DigestedReadable
PROPERTIES
  SavedBlocksDigested
CHECK_DEADLOCK FALSE
