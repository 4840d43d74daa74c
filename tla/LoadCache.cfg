\* Two concurrent loads of any graph of three modules, one of which is broken.
SPECIFICATION Spec
CONSTANTS
  m1 = m1
  m2 = m2
  m3 = m3
  None = None
  Thread = {t1, t2}
  Module = {m1, m2, m3}
  Broken = {m3}
  Graphs <- AllGraphs
SYMMETRY Symmetric
INVARIANTS DuplicateSuppression ReadsComplete AnswerSound EdgesMatchThreads AnswerInv
PROPERTIES PublishedIsFinal ImplementsLoadOnce
CHECK_DEADLOCK FALSE
