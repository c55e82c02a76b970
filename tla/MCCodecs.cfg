\* A value may have been refused, or be too big to be stored.
SPECIFICATION Spec
CONSTANTS
  Values <- BuiltValues
INVARIANTS
  ContentKept
  OnlyNumbersAndAccountsFail
  AcceptedAsBuilt
CHECK_DEADLOCK FALSE
