\* Operations, manifests and documents.
SPECIFICATION Spec
CONSTANTS
  Listings <- MCListings
  Ids <- MCIds
  Blocks <- MCBlocks
  At = 2
  Limits = {1, 2}
  ItemsLimit = 2
  MaxLimit = 5
  NoOffset = NoOffset
  NoPage = NoPage
  MaxRequests = 1
INVARIANTS
  TypeOK
  NothingSkipped
  ShownOnce
PROPERTIES
  WalkEnds
CHECK_DEADLOCK FALSE
