\* Two batches at a time and a restart.
SPECIFICATION Spec
CONSTANTS
  DocIds <- MCDocIds
  Contents <- MCContents
  ChanSize = 1
  LostReply = FALSE
  MaxHeight = 2
  MaxBatches = 2
  MaxCopies = 2
  MaxFailures = 0
  MaxCommands = 0
  MaxCrashes = 1
INVARIANTS
  BlocksUpToDate
CHECK_DEADLOCK FALSE
