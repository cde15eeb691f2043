CONSTANT
  Calls <- SeamCalls
SPECIFICATION Spec
INVARIANT
  AdjacentPixelsShareLabel
