\* The documents of an account, and the documents of one height.
SPECIFICATION Spec
CONSTANTS
  Listings = {"account-documents", "documents-by-height"}
  Ids <- MCIds
  Blocks <- MCBlocks
  At = 2
  Limits = {1, 2}
  ItemsLimit = 2
  MaxLimit = 5
  NoOffset = NoOffset
  NoPage = NoPage
  MaxRequests = 1
PROPERTIES
  WalkEnds
CHECK_DEADLOCK FALSE
