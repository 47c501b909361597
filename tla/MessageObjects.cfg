SPECIFICATION Spec
CONSTANTS
  Types <- AllTypes
  MaxOps = 2
  Drifted = FALSE
INVARIANTS
  Represents
  ReadsDefault
  WireAgrees
  SizeExact
CHECK_DEADLOCK FALSE
