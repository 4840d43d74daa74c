\* An infinity, an int, a NaN, two ranges of one element and a float that is not whole.
SPECIFICATION Spec
CONSTANTS
  Code = {def_f, def_g}
  Stray = {def_g}
  Module = {mod_m, mod_n}
  TopLevel = TopLevel
  Session = Session
  NoSignal = NoSignal
  def_f = def_f
  def_g = def_g
  MaxOps <- MCMaxOps
  MaxLoop = 1
  MaxDepth = 4
  MaxItems = 0
  Value = {}
  Functions = {}
  Arguments = {}
  SliceCases = {}
  RangeCases = {}
  Halves = {}
  MaxInt32 = 7
  CompareCases <- DocumentedCases
  ListElems <- MCListElems
  Recursion = 4
  StringCases = {}
  MaxLines = 0
  MaxInterrupts = 0
INVARIANTS ComparisonsAsDocumented
CHECK_DEADLOCK FALSE
