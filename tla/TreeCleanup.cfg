\* Two cleanups over two calls and blocks nested two deep in the entry function:
\* a drain inside a drain, a deferred call that defers, a tail call with cleanups
\* pending.
CONSTANTS
  Forms = {"ternary", "braced", "lazy", "while", "arm"}
  Features = {"tailcall", "blockerrdefer"}
  MaxDepth = 3
  MaxCalls = 2
  MaxDefers = 2
SPECIFICATION Spec
PROPERTY CleanupSpec
\* The program ends.
CHECK_DEADLOCK FALSE
