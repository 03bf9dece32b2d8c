\* One function, one defer and a `!`: nothing else is needed.
CONSTANTS
  Forms = {}
  Features = {"propagate"}
  MaxFrames = 2
  MaxCalls = 1
  MaxDefers = 1
  MaxNest = 0
  MaxMarks = 0
SPECIFICATION Spec
INVARIANT CleanupGuaranteed
\* The program ends.
CHECK_DEADLOCK FALSE
