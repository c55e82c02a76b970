\* Proposals of two creates and an update: the objects are used again and again.
SPECIFICATION Spec
CONSTANTS
  Ops <- TwoCreates
  Kind <- MCKind
  Items <- MCItems
  Objects = {x1, x2, x3, x4, x5, x6}
  NoOp = NoOp
  MaxPuts = 2
SYMMETRY Symmetry
INVARIANTS
  TypeOK
  OwnItems
CHECK_DEADLOCK FALSE
