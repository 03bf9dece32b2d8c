\* A cap of 3 units over pipes of 2: a child can write nothing, fill the cap,
\* exceed it by less and by more than the pipe holds; the stdin text is empty,
\* fits in its pipe, or does not.
SPECIFICATION Spec
CONSTANTS
  OutputCap = 3
  PipeCap = 2
  Outputs = {0, 1, 3, 4, 7}
  Inputs = {0, 1, 3}
INVARIANTS
  NeverTruncated
  ChildReaped
PROPERTY ReturnsWithinCap
\* A returned call is final, and a child over the cap can block for ever.
CHECK_DEADLOCK FALSE
