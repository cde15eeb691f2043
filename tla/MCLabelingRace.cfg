CONSTANT
  Calls <- SeamCalls
SPECIFICATION Spec
PROPERTY
  SlicesIndependent
