\* Two modules that load each other, loaded by two threads at once.
SPECIFICATION Spec
CONSTANTS
  m1 = m1
  m2 = m2
  m3 = m3
  None = None
  Thread = {t1, t2}
  Module = {m1, m2, m3}
  Broken = {}
  Graphs <- TwoCycle
INVARIANTS NoWaitCycle
CHECK_DEADLOCK FALSE
