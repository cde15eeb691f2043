CONSTANTS
  N = 4
  t1 = t1
  t2 = t2
  Thread <- MCThread
  Main = t1
  Block <- MCBlock
SPECIFICATION FairSpec
INVARIANTS
  TypeOK
  Forest
  ArrayIsPartition
  OperatorsAgree
  IInv
PROPERTIES
  OwnLabelsOnly
  ImplementsEquivalence
  CallsReturn
