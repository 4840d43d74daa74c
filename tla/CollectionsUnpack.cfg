\* An unpacking assignment whose targets change the list that is being unpacked.
SPECIFICATION Spec
CONSTANTS
  Module = {p}
  Obj = {o1}
  Atom = {a}
  Name = {}
  Unset = Unset
  Kinds = {"list"}
  Index <- Ends
  MaxLen = 2
  MaxDepth = 1
INVARIANT IndexInRange
CHECK_DEADLOCK FALSE
