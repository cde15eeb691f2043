INIT ReduceInit
NEXT ReduceNext
CONSTANTS
  N = 4
  MIN_MEDSIZE = 3
  MinRangeInv = 8
  IntMax = 1000000
  Resolution = 2
  Threads = {1, 2}
  MainThread = 1
  UIntMod = 65536
  MedianCalls <- MCMedianCalls
  RmsCalls <- MCRmsCalls
  SourceFindCalls <- MCSourceFindCalls
  ImageCalls <- MCImageCalls
INVARIANTS
  MedianExact
  MiddleStaysBinned
  ApproxWithinBin
  SumsMatchSurvivors
  SomeSampleSurvives
  LabelMapFinal
  FitCoversIsland
  KernelsCentred
  TruncationKeepsSignificant
  CacheReadsRightSample
  StepsSpanTimes
  OwnPlaneAndStep
  NormalisationAligned
PROPERTY ImplementsCatalogue
