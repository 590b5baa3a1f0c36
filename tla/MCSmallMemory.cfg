CONSTANTS
  Config <- MCConfig
  Object <- MCObject
  Repair = 2
  Sufficient <- MCSufficient
  None = None
  Unit = Unit
  PlanSources = 3
  PlanLdpc = 1
  PlanHdpc = 1
  CloneFree = 0
  TwoStageShapes <- MCTwoStageShapes
SPECIFICATION MCSpec
CHECK_DEADLOCK FALSE
INVARIANT RowAlwaysFits
