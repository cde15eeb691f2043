CONSTANT
  Arguments <- BadAnywhere
SPECIFICATION Spec
INVARIANT
  PlaneNeverEmpty
