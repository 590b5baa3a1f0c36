CONSTANTS
  Lengths = {0, 1, 2, 3, 4, 5, 6, 7, 8, 9}
  SymbolSizes = {1, 2, 4, 6}
  BlockCounts = {1, 2, 3, 4}
  SubBlockCounts = {1, 2, 3}
  Alignments = {1, 2}
  None = None
SPECIFICATION Spec
INVARIANT EveryBlockPadded
CHECK_DEADLOCK FALSE
