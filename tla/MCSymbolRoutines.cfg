CONSTANTS
  OneStageShapes <- MCOneStageShapes
  BatchMaxLen = 52
  LdpcRows = 3
  HdpcRows = 2
  UnitScalar = 1
  OtherScalar = 2
  Symbols = 4
  MaxDests = 5
  BatchSources = {0}
  Chunks <- MCChunks
  FastSlabs = {TRUE, FALSE}
  Lane = 2
  SliceMaxLen = 21
  DestCounts = {1, 2, 4, 8}
  SourceCounts = {1, 2, 3, 4, 8, 16, 32}
  StackMax = 2
  Coefficients <- MCCoefficients
  Factors <- MCFactors
  Powers = {{}, {0}, {1}, {0, 1}, {2}, {0, 2}}
  Neighbours <- MCNeighbours
  Sources <- MCSources
SPECIFICATION Spec
INVARIANTS OneStageFindsTheSolution BatchesEqualSingles BatchIsAdditions EachByteOnce
  VerdictIsRight OctetsFormAField
