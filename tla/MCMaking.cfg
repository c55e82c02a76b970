CONSTANTS
  Ways = {"api", "commands"}
  k1 = k1
  k2 = k2
  d1 = d1
  d2 = d2
  d3 = d3
  None = None
  Keys = {k1, k2}
  Ids = {d1, d2, d3}
  MaxItems = 3
  Seals <- FirstSeals
  MaxCalls = 4
SPECIFICATION Spec
INVARIANTS TypeOK AcceptedFilled HonestAccepted SentAsFilled RetrySafe ItemsKept
PROPERTY SignTimesKept
CHECK_DEADLOCK FALSE
