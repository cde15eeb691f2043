CONSTANT
  Arguments <- BadMedian
SPECIFICATION Spec
INVARIANT
  PlanesRepresented
