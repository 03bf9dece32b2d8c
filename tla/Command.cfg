\* Main and one spawned printer against the watchdog; a budget of 3 bytes that a
\* single print of 2 after one of 2 exceeds; two ticks. No print starts beyond 5.
\* Every engine and output mode; one effect per execution is counted, which
\* is enough for two executions to have some.
SPECIFICATION CommandSpec
CONSTANTS
  Printers = {"main", "worker"}
  Main = "main"
  Cap = 3
  MaxMs = 2
  Sizes = {1, 2}
  MaxUsed = 5
  MaxEffects = 1
INVARIANTS
  OutputWithinBudget
  SingleDiagnostic
  NamedEngineRunsOnce
  ExitExplained
  ExitStatusExplained
PROPERTIES RunawayIsKilled OverflowIsKilled
\* The process ends.
CHECK_DEADLOCK FALSE
