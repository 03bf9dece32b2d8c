------------------------------ MODULE Command ------------------------------
(***************************************************************************)
(* One `ilo run` as a process: the execution of the program (Engines) on   *)
(* the main thread, under the guard (RuntimeGuard) whose watchdog and      *)
(* print sites may end the process at any point of it.  The two meet in    *)
(* the prints, which are charged before they become an effect; in the      *)
(* threads that spawn and par-map start, which exist once the program has  *)
(* started and print beside it; and in the exit status, which comes either *)
(* from the engines' exit code, when main returns, or from the guard's     *)
(* exit(1), after which nothing of the command runs any more.              *)
(***************************************************************************)
EXTENDS Engines, RuntimeGuard

commandVars == <<vars, guardVars>>

\* Threads that print beside main exist once the program has started.
Started == runs # <<>>

\* main is in the program's own code, not in a print or in abort_with.
MainInProgram == Running /\ pc[Main] = "run"

CommandInit == Init /\ Install

\* dispatch_run and the engines, on the main thread; effects other than prints
\* also come from the other threads.
EngineStep ==
  /\ MainInProgram
  /\ Next
  /\ UNCHANGED guardVars

\* A print site charges what it is about to print: main's own, or another thread's.
Charge(t) ==
  /\ IF t = Main THEN Executing ELSE Started
  /\ RecordOutput(t)
  /\ UNCHANGED vars

\* What was let through is printed: an effect of the execution that is going on.
\* Effects over the bound of Engines are not counted.
Emit(t) ==
  /\ Println(t)
  /\ IF Executing /\ Current.effects < MaxEffects THEN Effect ELSE UNCHANGED vars

ClockStep == Tick /\ UNCHANGED vars

WatchdogStep == Watchdog /\ UNCHANGED vars

AbortStep(t) == Abort(t) /\ UNCHANGED vars

WorkerEnds(t) ==
  /\ Started
  /\ ThreadEnd(t)
  /\ UNCHANGED vars

\* process::exit of the exit code that the dispatch returned.
Exit ==
  /\ ~Undecided
  /\ MainReturn
  /\ status' = IF code = 0 THEN "0" ELSE "1"
  /\ UNCHANGED vars

CommandNext ==
  \/ EngineStep
  \/ ClockStep
  \/ WatchdogStep
  \/ \E t \in Printers : Charge(t) \/ Emit(t) \/ AbortStep(t) \/ WorkerEnds(t)
  \/ Exit

(***************************************************************************)
(* Time passes, the operating system runs the watchdog, and a thread that  *)
(* is inside abort_with is not descheduled forever.  Nothing is assumed of *)
(* the program: it may loop for ever without printing or returning.        *)
(***************************************************************************)
CommandFairness ==
  /\ WF_commandVars(ClockStep)
  /\ WF_commandVars(WatchdogStep)
  /\ \A t \in Printers : WF_commandVars(AbortStep(t))

CommandSpec == CommandInit /\ [][CommandNext]_commandVars /\ CommandFairness

-----------------------------------------------------------------------------
\* The diagnostic of abort_with is on stderr with both its lines.
DiagnosticWhole == Len(stderr) = 2

(***************************************************************************)
(* The exit status of the process agrees with what has been said: exit 1   *)
(* is explained by a failure the command showed or by a whole diagnostic   *)
(* of the guard, wherever in the execution a limit is met and whichever    *)
(* thread meets it; exit 0 comes with no failure of the program shown.     *)
(***************************************************************************)
ExitStatusExplained ==
  /\ status = "1" => out.failures = 1 \/ DiagnosticWhole
  /\ status = "0" => out.failures = 0
=============================================================================
