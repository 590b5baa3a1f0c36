\* Every configuration of a small object: up to 9 bytes, symbols of 1 to 6
\* bytes, up to 4 blocks - more than there are symbols, in some - and up to
\* 3 sub-blocks of one or two bytes' alignment.
CONSTANTS
  Lengths = {0, 1, 2, 3, 4, 5, 6, 7, 8, 9}
  SymbolSizes = {1, 2, 4, 6}
  BlockCounts = {1, 2, 3, 4}
  SubBlockCounts = {1, 2, 3}
  Alignments = {1, 2}
  None = None
SPECIFICATION Spec
INVARIANTS PlanFitsBlock ObjectReassembles
\* The loop ends, and so may the caller's program.
CHECK_DEADLOCK FALSE
