\* Two symbol counts share the extended size 10, and the largest size is too
\* wide for the thread layer.
CONSTANTS
  Threads = {t1, t2}
  SymbolCounts = {9, 10, 12, 18}
  Keys = {10, 12, 18}
  Capacity = 2
  Unsolvable = {}
  ThreadCached = {10, 12}
  None = None
SPECIFICATION Spec
INVARIANTS QueueMatchesPlans AnswerFitsCall
PROPERTIES RacersShare PlansStable
