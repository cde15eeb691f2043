CONSTANT
  Calls <- AllCalls
SPECIFICATION Spec
INVARIANTS
  TypeOK
  LabelForest
  LabelsFitBlock
PROPERTIES
  SlicesIndependent
  ImplementsComponents
