\* One execution, two lists or dicts of two elements, loops nested twice.
SPECIFICATION Spec
CONSTANTS
  Module = {p}
  Obj = {o1, o2}
  Atom = {a}
  Name = {}
  Unset = Unset
  Kinds = {"list", "dict"}
  Index <- Ends
  MaxLen = 2
  MaxDepth = 2
SYMMETRY Symmetric
INVARIANTS LoopsCounted LoopLengthFixed
PROPERTIES FrozenNeverWritten
CHECK_DEADLOCK FALSE
