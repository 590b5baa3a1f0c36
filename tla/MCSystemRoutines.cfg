CONSTANTS
  None = None
  Matrices = {cached, taken, other}
  Cells = {1, 2, 3}
  Values = {0, 1}
  PrefixShapes <- MCPrefixShapes
  K = 3
  KPrime = 4
  RepairLdpc = 1
  RepairHdpc = 1
  RepairRow <- MCRowOf
  InverseMatrix <- MCInverseMatrix
SPECIFICATION MCSpec
CHECK_DEADLOCK FALSE
INVARIANTS PrefixLosesNothing LostSymbolIsRebuilt
PROPERTY ImplementsCopies
