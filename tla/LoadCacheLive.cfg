\* Calls return, and cycle errors are real, when no cycle is shared by two threads.
SPECIFICATION FairSpec
CONSTANTS
  m1 = m1
  m2 = m2
  m3 = m3
  None = None
  Thread = {t1, t2, t3}
  Module = {m1, m2, m3}
  Broken = {}
  Graphs <- SomeGraphs
INVARIANTS CycleMeansCyclicAlone
PROPERTIES Returns
CHECK_DEADLOCK FALSE
