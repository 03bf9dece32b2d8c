\* One list, one call.
SPECIFICATION Spec
CONSTANTS
  MaxCells = 3
  MaxLen = 1
  MaxDepth = 2
  MaxCalls = 1
  Shapes = {"ownalias"}
INVARIANT ValueSemantics
CHECK_DEADLOCK FALSE
