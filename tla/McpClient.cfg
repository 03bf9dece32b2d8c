\* Two servers that may list the same tool, two calls, two lines nobody asked for
\* that may carry the id of the handshake or the first call; requests of one unit or
\* two over a pipe of two.
SPECIFICATION Spec
CONSTANTS
  NumServers = 2
  Tools = {fetch}
  PipeCap = 2
  Sizes = {1, 2}
  MaxCalls = 2
  MaxSaid = 2
  MaxId = 3
INVARIANTS AnswersMatch RoutedToOwner NoOrphans
PROPERTY CallReturns
\* The program ends, and a request larger than the pipe may block.
CHECK_DEADLOCK FALSE
