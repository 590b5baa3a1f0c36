\* No thread layer, the plan of the largest size cannot be made, and three
\* threads contend for one entry.
CONSTANTS
  Threads = {t1, t2, t3}
  SymbolCounts = {9, 12, 18}
  Keys = {10, 12, 18}
  Capacity = 1
  Unsolvable = {18}
  ThreadCached = {}
  None = None
SPECIFICATION FairSpec
PROPERTIES ImplementsService CallsAnswered
