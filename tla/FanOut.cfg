\* Lists of up to four items; par-map asked for one, three or five threads (more
\* than there are items), or for 0: the default, the CPU count of 2; waves of two
\* fetches, so that get-many needs two of them.
SPECIFICATION Spec
CONSTANTS
  MaxItems = 4
  Requests = {0, 1, 3, 5}
  EnvSetting = 0
  Cpus = 2
  MaxFetches = 2
INVARIANTS
  OrderPreserved
  ThreadsBounded
  ChunkStopsAtError
  SkipsExplained
PROPERTY CallEnds
\* The process may end after the call.
CHECK_DEADLOCK FALSE
