\* par-map on up to three items with two threads: an error in one chunk cancels
\* what another chunk, or the rest of its own, has not started.
SPECIFICATION Spec
CONSTANTS
  MaxItems = 3
  Requests = {2}
  EnvSetting = 0
  Cpus = 2
  MaxFetches = 2
INVARIANT NoShortCircuit
\* The process may end after the call.
CHECK_DEADLOCK FALSE
