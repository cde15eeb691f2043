CONSTANTS
  image_size = 12
  Sub = 4
  max_support = 2
  Inputs <- ShiftedFull
SPECIFICATION Spec
INVARIANT
  GridIsVisibilityGrid
