\* An acyclic graph, loaded by two threads at once.
SPECIFICATION Spec
CONSTANTS
  m1 = m1
  m2 = m2
  m3 = m3
  None = None
  Thread = {t1, t2}
  Module = {m1, m2, m3}
  Broken = {}
  Graphs <- Diamond
INVARIANTS CycleMeansCyclic
CHECK_DEADLOCK FALSE
