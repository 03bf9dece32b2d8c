\* Two objects beside the constant: a list in a list, or a view and its list,
\* each shared between registers and frames; two items tell a reversed list.
\* One call, so that a value crosses into a frame and back, or a tail call.
SPECIFICATION Spec
CONSTANTS
  MaxCells = 3
  MaxLen = 2
  MaxDepth = 2
  MaxCalls = 1
  Shapes = {}
INVARIANTS TypeOK CountsExact ValueSemantics NoGarbage
CHECK_DEADLOCK FALSE
