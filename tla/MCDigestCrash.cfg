\* One batch at a time; failed writes, stops and restarts.
SPECIFICATION Spec
CONSTANTS
  DocIds <- MCDocIds
  Contents <- MCContents
  ChanSize = 1
  LostReply = TRUE
  MaxHeight = 3
  MaxBatches = 1
  MaxCopies = 2
  MaxFailures = 1
  MaxCommands = 1
  MaxCrashes = 2
INVARIANTS
  TypeOK
  NoGap
  DocumentsCurrent
CHECK_DEADLOCK FALSE
