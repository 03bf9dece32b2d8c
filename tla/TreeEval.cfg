\* Every statement that registers, moves or drains defers, or leaves a body, to a
\* depth of four frames with two activations and one defer: a block around a
\* deferred match that rebinds by a call is that deep.  TreeCleanup.cfg has two
\* defers, at depth three.
CONSTANTS
  Forms = {"ternary", "braceless", "each", "lazy", "while", "arm"}
  Features = {"tailcall", "rebind", "deferarm"}
  MaxDepth = 4
  MaxCalls = 2
  MaxDefers = 1
SPECIFICATION Spec
INVARIANTS ScopesBalanced OuterDefersKept DefersPendingOnce DefersStayInFrame
INVARIANTS ExitsAreFinal RebindInvisible
\* The program ends.
CHECK_DEADLOCK FALSE
