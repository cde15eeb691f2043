CONSTANT
  Calls <- CheckerCalls
SPECIFICATION Spec
INVARIANT
  LabelsFitBlock
