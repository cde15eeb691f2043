CONSTANTS
  image_size = 8
  Sub = 1
  max_support = 2
  Inputs <- OneOrTwoPlanes
SPECIFICATION Spec
CHECK_DEADLOCK FALSE
INVARIANTS
  TypeOK
  AssertionsHold
  NoLostUpdate
PROPERTIES
  SerialGrid
