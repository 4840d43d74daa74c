\* Sessions of two items over two functions and two modules; two items at the REPL with three interrupts; single operations.
SPECIFICATION Spec
CONSTANTS
  Code = {def_f, def_g}
  Stray = {def_g}
  Module = {mod_m, mod_n}
  TopLevel = TopLevel
  Session = Session
  NoSignal = NoSignal
  def_f = def_f
  def_g = def_g
  MaxOps <- MCMaxOps
  MaxLoop = 1
  MaxDepth = 4
  MaxItems = 2
  Value <- MCValue
  Functions <- MCFunctions
  Arguments <- MCArguments
  SliceCases <- MCSliceCases
  RangeCases <- MCRangeCases
  Halves <- MCHalves
  MaxInt32 = 7
  CompareCases <- MCCompareCases
  ListElems <- MCListElems
  Recursion = 4
  StringCases <- MCStringCases
  MaxLines = 2
  MaxInterrupts = 3
INVARIANTS ControlContained BacktraceExact LoadsExact CallBinding SlicesExact ComparisonsCoherent StringsExact
PROPERTIES Terminates InterruptReaches
CHECK_DEADLOCK FALSE
