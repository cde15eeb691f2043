CONSTANTS
  image_size = 12
  Sub = 4
  max_support = 2
  Inputs <- AllModes
SPECIFICATION Spec
INVARIANTS
  ConvolveTypeOK
  GridIsVisibilityGrid
  RowZeroHermitian
  SampleTotalMatchesGrid
  OwnPlane
