CONSTANTS
  Height = 3
  Width = 4
  SmallMax = 2
  CoefficientRows <- MCCoefficientRows
  MergeWidth = 5
  DestRows <- MCDestRows
  SrcRows <- MCSrcRows
  Scalars = {1, 2}
  MoveWidth = 5
  MoveLdpc = 1
  MoveHdpc = 1
  None = None
SPECIFICATION Spec
INVARIANTS ListsHoldWaitingRows MergedRowIsSum MovesBringPivotsHome
PROPERTY ImplementsElimination
