CONSTANT
  Arguments <- BadAtEnd
SPECIFICATION Spec
INVARIANTS
  PlanesTypeOK
  PlaneNeverEmpty
  PlanesRepresented
  PlanesBalanced
