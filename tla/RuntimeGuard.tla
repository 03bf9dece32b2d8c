---------------------------- MODULE RuntimeGuard ----------------------------
(***************************************************************************)
(* The production-safety guard of `ilo run` (src/runtime_guard.rs): a      *)
(* watchdog thread that aborts the process once the wall-clock budget is   *)
(* spent (ILO-R016), and a process-wide byte counter, charged by every     *)
(* print site before it prints, that aborts once the stdout budget is      *)
(* spent (ILO-R017).  The threads that print are the main thread and the   *)
(* ones `spawn` and `par-map` start.                                       *)
(*                                                                         *)
(* Abstractions: a diagnostic is its code and its two lines; the program   *)
(* is a nondeterministic sequence of prints that may return at any point;  *)
(* time advances in ticks of the watchdog's polling period.                *)
(***************************************************************************)
EXTENDS Naturals, Sequences

CONSTANTS
  Printers,   \* the threads that reach a print site
  Main,       \* the one whose return ends the process
  Cap,        \* MAX_OUTPUT_BYTES, 0 when the output guard is off
  MaxMs,      \* MAX_RUNTIME_MS in ticks, 0 when there is no watchdog
  Sizes,      \* what a print charges: the text and its newline
  MaxUsed     \* bound: no print starts once this much has been charged

ASSUME GuardAssumption ==
  /\ Main \in Printers
  /\ "watchdog" \notin Printers
  /\ Cap \in Nat
  /\ MaxMs \in Nat
  /\ Sizes \subseteq Nat \ {0}
  /\ MaxUsed \in Nat

VARIABLES
  elapsed,    \* ticks since install, saturating at MaxMs
  used,       \* OUTPUT_BYTES_USED
  aborted,    \* ABORTED
  pc,         \* where each thread is
  admitted,   \* history: the bytes record_output has let through to println!
  stderr,     \* the diagnostic lines written, each <<code, line>>
  status      \* "running", or the exit status 0 or 1 of the process

guardVars == <<elapsed, used, aborted, pc, admitted, stderr, status>>

Threads == Printers \cup {"watchdog"}

Code(t) == IF t = "watchdog" THEN "ILO-R016" ELSE "ILO-R017"

Running == status = "running"

Goto(t, label) == pc' = [pc EXCEPT ![t] = label]

(***************************************************************************)
(* install: every counter is cleared, and the watchdog exists only when    *)
(* there is a wall-clock budget.                                           *)
(***************************************************************************)
Install ==
  /\ elapsed = 0
  /\ used = 0
  /\ aborted = FALSE
  /\ pc = [t \in Threads |-> IF t # "watchdog" THEN "run"
                             ELSE IF MaxMs > 0 THEN "poll" ELSE "gone"]
  /\ admitted = 0
  /\ stderr = <<>>
  /\ status = "running"

Tick ==
  /\ Running
  /\ elapsed < MaxMs
  /\ elapsed' = elapsed + 1
  /\ UNCHANGED <<used, aborted, pc, admitted, stderr, status>>

(***************************************************************************)
(* The watchdog's loop: leave when an abort is under way, abort when the   *)
(* budget is spent, otherwise sleep for a tick.                            *)
(***************************************************************************)
WatchdogPoll ==
  /\ Running
  /\ pc["watchdog"] = "poll"
  /\ Goto("watchdog", IF aborted THEN "gone" ELSE "elapsed")
  /\ UNCHANGED <<elapsed, used, aborted, admitted, stderr, status>>

\* Mutant: the watchdog looks at the clock once.
WatchdogElapsedOnce ==
  /\ Running
  /\ pc["watchdog"] = "elapsed"
  /\ Goto("watchdog", IF elapsed >= MaxMs THEN "abort" ELSE "gone")
  /\ UNCHANGED <<elapsed, used, aborted, admitted, stderr, status>>

WatchdogElapsed ==
  /\ Running
  /\ pc["watchdog"] = "elapsed"
  /\ Goto("watchdog", IF elapsed >= MaxMs THEN "abort" ELSE "poll")
  /\ UNCHANGED <<elapsed, used, aborted, admitted, stderr, status>>

\* Mutant: one byte too many is let through.
OverBudgetLate(total) == Cap > 0 /\ total > Cap + 1

(***************************************************************************)
(* record_output: the atomic fetch_add and the thread-local comparison of  *)
(* the total it returns.  With no budget it returns without charging.      *)
(***************************************************************************)
OverBudget(total) == Cap > 0 /\ total > Cap

RecordOutput(t) ==
  /\ Running
  /\ pc[t] = "run"
  /\ used <= MaxUsed
  /\ \E n \in Sizes :
       /\ used' = IF Cap = 0 THEN used ELSE used + n
       /\ IF OverBudget(used + n)
          THEN Goto(t, "abort") /\ UNCHANGED admitted
          ELSE Goto(t, "print") /\ admitted' = admitted + n
  /\ UNCHANGED <<elapsed, aborted, stderr, status>>

Println(t) ==
  /\ Running
  /\ pc[t] = "print"
  /\ Goto(t, "run")
  /\ UNCHANGED <<elapsed, used, aborted, admitted, stderr, status>>

\* Mutant: the swap's answer is ignored.
AbortSwapUnguarded(t) ==
  /\ Running
  /\ pc[t] = "abort"
  /\ aborted' = TRUE
  /\ Goto(t, "headline")
  /\ UNCHANGED <<elapsed, used, admitted, stderr, status>>

\* Mutant: who loses the swap goes on to exit by itself.
AbortSwapExits(t) ==
  /\ Running
  /\ pc[t] = "abort"
  /\ aborted' = TRUE
  /\ Goto(t, IF aborted THEN "exit" ELSE "headline")
  /\ UNCHANGED <<elapsed, used, admitted, stderr, status>>

(***************************************************************************)
(* abort_with: one atomic swap elects the thread that writes; every later  *)
(* caller parks until the process is gone.                                 *)
(***************************************************************************)
AbortSwap(t) ==
  /\ Running
  /\ pc[t] = "abort"
  /\ aborted' = TRUE
  /\ Goto(t, IF aborted THEN "parked" ELSE "headline")
  /\ UNCHANGED <<elapsed, used, admitted, stderr, status>>

AbortWrite(t) ==
  /\ Running
  /\ pc[t] \in {"headline", "hint"}
  /\ stderr' = Append(stderr, <<Code(t), pc[t]>>)
  /\ Goto(t, IF pc[t] = "headline" THEN "hint" ELSE "exit")
  /\ UNCHANGED <<elapsed, used, aborted, admitted, status>>

\* Mutant: only the thread ends.
AbortExitThreadOnly(t) ==
  /\ Running
  /\ pc[t] = "exit"
  /\ Goto(t, "gone")
  /\ UNCHANGED <<elapsed, used, aborted, admitted, stderr, status>>

AbortExit(t) ==
  /\ Running
  /\ pc[t] = "exit"
  /\ status' = "1"
  /\ UNCHANGED <<elapsed, used, aborted, pc, admitted, stderr>>

(***************************************************************************)
(* The program is over: main returns an exit status (module Command says   *)
(* which), and a thread that is not main just ends.                        *)
(***************************************************************************)
MainReturn ==
  /\ Running
  /\ pc[Main] = "run"
  /\ status' \in {"0", "1"}
  /\ UNCHANGED <<elapsed, used, aborted, pc, admitted, stderr>>

ThreadEnd(t) ==
  /\ Running
  /\ pc[t] = "run"
  /\ t # Main
  /\ Goto(t, "gone")
  /\ UNCHANGED <<elapsed, used, aborted, admitted, stderr, status>>

Abort(t) == AbortSwap(t) \/ AbortWrite(t) \/ AbortExit(t)

Watchdog == WatchdogPoll \/ WatchdogElapsed \/ Abort("watchdog")

Printer(t) == RecordOutput(t) \/ Println(t) \/ Abort(t) \/ ThreadEnd(t)

GuardNext ==
  \/ Tick
  \/ Watchdog
  \/ \E t \in Printers : Printer(t)
  \/ MainReturn

GuardSpec == Install /\ [][GuardNext]_guardVars

-----------------------------------------------------------------------------
GuardTypeOK ==
  /\ elapsed \in 0..MaxMs
  /\ used \in Nat
  /\ aborted \in BOOLEAN
  /\ pc \in [Threads -> {"run", "print", "poll", "elapsed", "abort", "parked",
                         "headline", "hint", "exit", "gone"}]
  /\ admitted \in Nat
  /\ stderr \in Seq({"ILO-R016", "ILO-R017"} \X {"headline", "hint"})
  /\ status \in {"running", "0", "1"}

\* The bytes record_output lets through never exceed the stdout budget,
\* whichever threads print and however their charges interleave.
OutputWithinBudget == Cap > 0 => admitted <= Cap

\* "The stderr output stays a single coherent message": the lines written by
\* the guard are a prefix of the two lines of one diagnostic, even when the
\* watchdog and several print sites overflow at the same instant.
SingleDiagnostic ==
  \E c \in {"ILO-R016", "ILO-R017"} :
    \/ stderr = <<>>
    \/ stderr = <<<<c, "headline">>>>
    \/ stderr = <<<<c, "headline">>, <<c, "hint">>>>

\* A program that outlives its wall-clock budget is stopped.
RunawayIsKilled == (MaxMs > 0 /\ elapsed = MaxMs) ~> ~Running

\* A print over the stdout budget stops the process.
OverflowIsKilled ==
  \A t \in Printers : (pc[t] = "abort") ~> ~Running
=============================================================================
