\* A create after a proposal with a sign.
SPECIFICATION Spec
CONSTANTS
  Ops <- CreateAndSign
  Kind <- MCKind
  Items <- MCItems
  Objects = {x1, x2, x3, x4}
  NoOp = NoOp
  MaxPuts = 2
INVARIANTS
  AssertionHolds
CHECK_DEADLOCK FALSE
