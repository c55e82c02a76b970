\* Few accounts, as many as two chunks cover, and more.
SPECIFICATION Spec
CONSTANTS
  Addresses <- MCAddresses
  InitialRows <- MCInitialRows
  Chunk = 4
  ItemsLimit = 2
  NoOffset = NoOffset
  Changing <- MCChanging
  MaxUpdates = 1
  MaxRequests = 1
INVARIANTS
  TypeOK
  HoldersListed
  ListedHeld
  ListedOnce
  FailsAlone
CHECK_DEADLOCK FALSE
