\* Two executions that share three lists and functions.
SPECIFICATION Spec
CONSTANTS
  Module = {p, q}
  Obj = {o1, o2, o3}
  Atom = {a}
  Name = {x}
  Unset = Unset
  Kinds = {"list", "function"}
  Index <- Ends
  MaxLen = 1
  MaxDepth = 0
SYMMETRY Symmetric
INVARIANTS FrozenClosed SharedIsFrozen IInv
CHECK_DEADLOCK FALSE
