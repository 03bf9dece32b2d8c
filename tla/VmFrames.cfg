\* Two functions over four frames, two defers, blocks nested two deep and two
\* scope marks: a drain in a drain, a thunk that calls and that fails, a brk out
\* of an inner scope.
CONSTANTS
  Forms = {"loop", "branch", "braceless"}
  Features = {"propagate", "tailcall", "escape", "thunkerror"}
  MaxFrames = 4
  MaxCalls = 2
  MaxDefers = 2
  MaxNest = 2
  MaxMarks = 2
SPECIFICATION Spec
INVARIANTS WaitsOnce LastInFirstOut RegistersKept DrainedWithBlock
PROPERTY Isolation
\* The program ends.
CHECK_DEADLOCK FALSE
