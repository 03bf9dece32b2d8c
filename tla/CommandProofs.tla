--------------------------- MODULE CommandProofs ---------------------------
(***************************************************************************)
(* Proofs about the two parts of the ilo command that surround a program,  *)
(* the choice of the engine (module Engines) and the production guard      *)
(* (RuntimeGuard), and about the process they make up (Command): for every *)
(* bound on the effects of an execution, every set of printing threads,    *)
(* every budget and every size of print.                                   *)
(*                                                                         *)
(* Engines: a named engine executes the program at most once: that is the  *)
(* strengthening NamedEngineRunsOnce needs, for an execution that has had  *)
(* effects can only be followed by another when the request allows it.     *)
(* RuntimeGuard: at most one thread is past the swap of abort_with, and    *)
(* stderr is what that thread has written so far.                          *)
(* Command: a step of the process is a step or a stutter of each part, so  *)
(* that what is proved of the parts holds of the process.                  *)
(***************************************************************************)
EXTENDS Command, SequenceTheorems, TLAPS

Executions == [on : Engines, effects : 0..MaxEffects, failed : BOOLEAN]

\* A named engine has started the program at most once.
OneStart == request.engine # "default" => Len(runs) <= 1

\* Nothing has been said against the program before the command exits.
SilentUntilExit == code = NotYet => out.failures = 0

IInv ==
  /\ TypeOK
  /\ OneStart
  /\ SilentUntilExit
  /\ ExitExplained

-----------------------------------------------------------------------------
(***************************************************************************)
(* The operators on the list of executions: a start appends one without    *)
(* effects, and a mark leaves their number alone.                          *)
(***************************************************************************)
LEMMA StartAppends ==
  ASSUME NEW past \in Seq(Executions), NEW e \in Engines, MaxEffects \in Nat
  PROVE  LET next == Append(past, [on |-> e, effects |-> 0, failed |-> FALSE])
         IN  /\ next \in Seq(Executions)
             /\ Len(next) = Len(past) + 1
  BY DEF Executions

\* The last execution of the list is replaced.
LEMMA LastReplaced ==
  ASSUME NEW s \in Seq(Executions), s # <<>>, NEW r \in Executions
  PROVE  LET t == [s EXCEPT ![Len(s)] = r]
         IN  t \in Seq(Executions) /\ Len(t) = Len(s) /\ t[Len(t)] = r
<1>1. Len(s) \in 1..Len(s)
  OBVIOUS
<1>. QED
  BY <1>1

LEMMA MarkKeeps ==
  ASSUME TypeOK, runs # <<>>
  PROVE  Marked \in Seq(Executions) /\ Len(Marked) = Len(runs)
<1>1. runs \in Seq(Executions) /\ Len(runs) \in 1..Len(runs)
  BY DEF TypeOK, Executions
<1>. DEFINE last == [Current EXCEPT !.failed = TRUE]
<1>2. Current \in Executions
  BY <1>1 DEF Current
<1>3. last \in Executions
  BY <1>2 DEF Executions
<1>4. Marked = [runs EXCEPT ![Len(runs)] = last]
  BY <1>1 DEF Marked, Current
<1>. HIDE DEF last
<1>. QED
  BY <1>1, <1>3, <1>4, LastReplaced

\* The invariant holds when the command starts.
LEMMA InitIInv == Init => IInv
  BY DEF Init, IInv, TypeOK, Outs, OneStart, SilentUntilExit,
         ExitExplained, NotYet

-----------------------------------------------------------------------------
\* Every step of the command keeps the invariant.
LEMMA StepIInv == IInv /\ [Next]_vars => IInv'
<1>. SUFFICES ASSUME IInv, [Next]_vars
              PROVE  IInv'
  OBVIOUS
<1>. USE EnginesAssumption DEF IInv, NotYet
<1>0. runs \in Seq(Executions)
  BY DEF TypeOK, Executions
<1>1. CASE Reject
  BY <1>1 DEF Reject, Dispatching, Undecided, GiveUp, Noted, TypeOK, Outs, OneStart,
              SilentUntilExit, ExitExplained
<1>2. ASSUME NEW e \in Engines, Dispatching, Start(runs, e), UNCHANGED <<request, code>>,
             out' \in Outs, out'.failures = out.failures
      PROVE  IInv'
  <2>1. LET next == Append(runs, [on |-> e, effects |-> 0, failed |-> FALSE])
        IN  /\ next \in Seq(Executions)
            /\ Len(next) = Len(runs) + 1
    BY <1>2, <1>0, StartAppends
  <2>2. Len(runs) = 0
    BY <1>2 DEF Dispatching
  <2>3. /\ runs' \in Seq(Executions)
        /\ Len(runs') = Len(runs) + 1
    BY <1>2, <2>1 DEF Start
  <2>. QED
    BY <1>2, <2>2, <2>3 DEF Start, Current, Dispatching, Undecided, Engines, Executions, TypeOK, OneStart,
                      SilentUntilExit, ExitExplained
<1>3. CASE CompileFails
  <2>1. CASE request.engine = "default" /\ Start(runs, "tree") /\ UNCHANGED <<out, code>>
    BY <1>2, <1>3, <2>1 DEF CompileFails, Engines, TypeOK
  <2>2. CASE GiveUp /\ UNCHANGED runs
    BY <1>3, <2>2 DEF CompileFails, Dispatching, Undecided, GiveUp, Noted, TypeOK, Outs, OneStart,
                      SilentUntilExit, ExitExplained
  <2>. QED
    BY <1>3, <2>1, <2>2 DEF CompileFails
<1>4. CASE RunVm
  BY <1>2, <1>4 DEF RunVm, Engines, TypeOK
<1>5. CASE RunTree
  BY <1>2, <1>5 DEF RunTree, Engines, TypeOK
<1>6. CASE RunJit
  BY <1>2, <1>6 DEF RunJit, Engines, TypeOK
<1>7. CASE JitBailsOut
  BY <1>2, <1>7 DEF JitBailsOut, Engines, TypeOK
<1>8. CASE JitPanics
  <2>1. out' \in Outs /\ out'.failures = out.failures
    BY <1>8 DEF JitPanics, Noted, TypeOK, Outs
  <2>. QED
    BY <1>2, <1>8, <2>1 DEF JitPanics, Engines
<1>9. ASSUME Executing
      PROVE  runs # <<>> /\ Len(runs) \in 1..Len(runs) /\ code = NotYet
  BY <1>9, <1>0 DEF Executing, Undecided, TypeOK
<1>10. CASE Effect
  <2>. DEFINE next == [Current EXCEPT !.effects = @ + 1]
  <2>0. Current \in Executions /\ Current.effects < MaxEffects
    BY <1>0, <1>9, <1>10 DEF Effect, Current
  <2>1. next \in Executions
    BY <2>0 DEF Executions
  <2>2. runs' = [runs EXCEPT ![Len(runs)] = next]
    BY <1>0, <1>9, <1>10 DEF Effect, Current
  <2>. HIDE DEF next
  <2>3. /\ runs' \in Seq(Executions)
        /\ Len(runs') = Len(runs)
    <3>1. runs # <<>>
      BY <1>9, <1>10 DEF Effect
    <3>2. LET t == [runs EXCEPT ![Len(runs)] = next]
          IN  t \in Seq(Executions) /\ Len(t) = Len(runs) /\ t[Len(t)] = next
      BY <1>0, <2>1, <3>1, LastReplaced
    <3>. QED
      BY <2>1, <2>2, <3>2
  <2>. QED
    BY <1>9, <1>10, <2>3 DEF Effect, Current, Executions, TypeOK, OneStart, SilentUntilExit, ExitExplained
<1>11. CASE JitHelperFails
  <2>1. runs' = Marked
    BY <1>11 DEF JitHelperFails, Marked
  <2>2. runs' \in Seq(Executions) /\ Len(runs') = Len(runs)
    BY <1>9, <1>11, <2>1, MarkKeeps DEF JitHelperFails
  <2>. QED
    BY <1>9, <1>11, <2>2 DEF JitHelperFails, Executions, TypeOK, OneStart, SilentUntilExit, ExitExplained
<1>12. CASE RuntimeError
  <2>1. Marked \in Seq(Executions) /\ Len(Marked) = Len(runs)
    BY <1>9, <1>12, MarkKeeps DEF RuntimeError
  <2>2. CASE Fallback(engine) /\ Start(Marked, "tree") /\ UNCHANGED <<out, code>>
    <3>1. /\ runs' \in Seq(Executions)
          /\ Len(runs') = Len(runs) + 1
      BY <2>1, <2>2, StartAppends DEF Start, Engines, Current
    <3>. QED
      BY <1>9, <1>12, <2>2, <3>1 DEF RuntimeError, Fallback, Start, Engines, Executions, TypeOK,
           OneStart, SilentUntilExit, ExitExplained
  <2>3. CASE GiveUp /\ runs' = Marked
    <3>1. /\ out' \in Outs
          /\ out'.failures = 1
          /\ code' = 1 /\ engine' = "none" /\ request' = request
      BY <1>9, <1>12, <2>3 DEF RuntimeError, GiveUp, Noted, TypeOK, Outs, SilentUntilExit
    <3>2. runs' \in Seq(Executions) /\ Len(runs') = Len(runs) /\ runs' # <<>>
      BY <1>9, <1>12, <2>1, <2>3 DEF RuntimeError
    <3>3. TypeOK'
      BY <3>1, <3>2 DEF TypeOK, Executions
    <3>. QED
      BY <3>1, <3>2, <3>3 DEF OneStart, SilentUntilExit, ExitExplained
  <2>. QED
    BY <1>12, <2>2, <2>3 DEF RuntimeError
<1>13. CASE Returns
  <2>. PICK v \in {"plain", "Err"} : out' = Printed(v) /\ code' = ExitCode(v)
    BY <1>13 DEF Returns
  <2>1. out' \in Outs /\ out'.failures = code' /\ code' \in {0, 1}
    BY <1>9, <1>13 DEF Returns, Printed, ExitCode, TypeOK, Outs, SilentUntilExit
  <2>. QED
    BY <1>9, <1>13, <2>1 DEF Returns, TypeOK, OneStart, SilentUntilExit, ExitExplained
<1>14. CASE UNCHANGED vars
  BY <1>14 DEF vars, TypeOK, OneStart, SilentUntilExit, ExitExplained, Current
<1>. QED
  BY <1>1, <1>3, <1>4, <1>5, <1>6, <1>7, <1>8, <1>10, <1>11, <1>12, <1>13, <1>14 DEF Next

\* The invariant holds in every reachable state.
LEMMA Invariance == Spec => []IInv
  BY InitIInv, StepIInv, PTL DEF Spec

(***************************************************************************)
(* The state of the command keeps its type: an engine is executing exactly *)
(* between the first start and the exit.                                   *)
(***************************************************************************)
THEOREM TypeCorrect == Spec => []TypeOK
<1>1. IInv => TypeOK
  BY DEF IInv
<1>. QED
  BY <1>1, Invariance, PTL

(***************************************************************************)
(* An engine asked for by name (--vm, --jit, the tree engine) never        *)
(* repeats an effect of the program, however many it has.                  *)
(***************************************************************************)
THEOREM RunsOnce == Spec => []NamedEngineRunsOnce
<1>1. IInv => NamedEngineRunsOnce
  <2>. SUFFICES ASSUME IInv, request.engine # "default", NEW i \in DOMAIN runs, NEW j \in DOMAIN runs
                PROVE  i = j
    BY DEF NamedEngineRunsOnce, EffectsOnce
  <2>1. Len(runs) <= 1 /\ DOMAIN runs = 1..Len(runs) /\ Len(runs) \in Nat
    BY DEF IInv, OneStart, TypeOK
  <2>. QED
    BY <2>1
<1>. QED
  BY <1>1, Invariance, PTL

(***************************************************************************)
(* Exit 1 comes with exactly one failure shown and exit 0 with none, in    *)
(* every output mode and along every fallback.                             *)
(***************************************************************************)
THEOREM ExitsExplained == Spec => []ExitExplained
<1>1. IInv => ExitExplained
  BY DEF IInv
<1>. QED
  BY <1>1, Invariance, PTL

-----------------------------------------------------------------------------
\* The threads that have won the swap and have not exited yet.
Aborting == {"headline", "hint", "exit"}

\* How far the elected thread is through its diagnostic.
Progress(t) ==
  /\ pc[t] = "headline" => stderr = <<>>
  /\ pc[t] = "hint" => stderr = <<<<Code(t), "headline">>>>
  /\ pc[t] = "exit" => stderr = <<<<Code(t), "headline">>, <<Code(t), "hint">>>>

\* At most one thread is ever between the swap and the exit.
OneAborter ==
  \A t, u \in Threads : pc[t] \in Aborting /\ pc[u] \in Aborting => t = u

\* Before the swap nobody writes; after it one thread does.
Election ==
  /\ ~aborted => /\ stderr = <<>>
                 /\ \A t \in Threads : pc[t] \notin Aborting
  /\ \A t \in Threads : Progress(t)

\* What has been let through has been charged.
Charged == Cap > 0 => admitted <= used

GuardInv ==
  /\ GuardTypeOK
  /\ OutputWithinBudget
  /\ Charged
  /\ OneAborter
  /\ Election
  /\ SingleDiagnostic

\* The guard's variables keep their types.
LEMMA GuardTypeStep == GuardTypeOK /\ [GuardNext]_guardVars => GuardTypeOK'
<1> SUFFICES ASSUME GuardTypeOK, [GuardNext]_guardVars PROVE GuardTypeOK'
  OBVIOUS
<1> USE GuardAssumption DEF GuardTypeOK, Threads, Goto, Running
<1>1. CASE Tick
  BY <1>1 DEF Tick
<1>2. CASE WatchdogPoll
  BY <1>2 DEF WatchdogPoll
<1>3. CASE WatchdogElapsed
  BY <1>3 DEF WatchdogElapsed
<1>4. ASSUME NEW t \in Printers, RecordOutput(t) PROVE GuardTypeOK'
  BY <1>4 DEF RecordOutput
<1>5. ASSUME NEW t \in Printers, Println(t) PROVE GuardTypeOK'
  BY <1>5 DEF Println
<1>6. ASSUME NEW t \in Threads, AbortSwap(t) PROVE GuardTypeOK'
  BY <1>6 DEF AbortSwap
<1>7. ASSUME NEW t \in Threads, AbortWrite(t) PROVE GuardTypeOK'
  <2>1. <<Code(t), pc[t]>> \in {"ILO-R016", "ILO-R017"} \X {"headline", "hint"}
    BY <1>7 DEF AbortWrite, Code
  <2>2. stderr' \in Seq({"ILO-R016", "ILO-R017"} \X {"headline", "hint"})
    BY <1>7, <2>1 DEF AbortWrite
  <2>3. QED
    BY <1>7, <2>2 DEF AbortWrite
<1>8. ASSUME NEW t \in Threads, AbortExit(t) PROVE GuardTypeOK'
  BY <1>8 DEF AbortExit
<1>9. CASE MainReturn
  BY <1>9 DEF MainReturn
<1>10. ASSUME NEW t \in Printers, ThreadEnd(t) PROVE GuardTypeOK'
  BY <1>10 DEF ThreadEnd
<1>11. CASE UNCHANGED guardVars
  BY <1>11 DEF guardVars
<1>12. QED
  BY <1>1, <1>2, <1>3, <1>4, <1>5, <1>6, <1>7, <1>8, <1>9, <1>10, <1>11
  DEF GuardNext, Watchdog, Printer, Abort

\* Charging before printing keeps what is let through within the budget.
LEMMA BudgetStep ==
  GuardTypeOK /\ OutputWithinBudget /\ Charged /\ [GuardNext]_guardVars
    => OutputWithinBudget' /\ Charged'
<1> SUFFICES ASSUME GuardTypeOK, OutputWithinBudget, Charged, [GuardNext]_guardVars
             PROVE  OutputWithinBudget' /\ Charged'
  OBVIOUS
<1> USE GuardAssumption DEF OutputWithinBudget, Charged
<1>1. ASSUME NEW t \in Printers, RecordOutput(t)
      PROVE  OutputWithinBudget' /\ Charged'
  <2>1. PICK n \in Sizes :
          /\ used' = IF Cap = 0 THEN used ELSE used + n
          /\ IF OverBudget(used + n) THEN admitted' = admitted
                                     ELSE admitted' = admitted + n
    BY <1>1 DEF RecordOutput
  <2>2. n \in Nat /\ used \in Nat /\ admitted \in Nat
    BY DEF GuardTypeOK
  <2>3. QED
    BY <2>1, <2>2 DEF OverBudget
<1>2. CASE UNCHANGED <<used, admitted>>
  BY <1>2
<1>3. QED
  BY <1>1, <1>2 DEF GuardNext, Watchdog, Printer, Abort, Tick, WatchdogPoll,
     WatchdogElapsed, Println, AbortSwap, AbortWrite, AbortExit, MainReturn,
     ThreadEnd, guardVars

LEMMA AppendToEmpty == ASSUME NEW x PROVE Append(<<>>, x) = <<x>>
OBVIOUS

LEMMA AppendToOne ==
  ASSUME NEW S, NEW x \in S, NEW y \in S
  PROVE  Append(<<x>>, y) = <<x, y>>
<1>1. <<x>> \in Seq(S) /\ Len(<<x>>) = 1 /\ <<x>>[1] = x
  OBVIOUS
<1>2. <<x, y>> \in Seq(S) /\ Len(<<x, y>>) = 2 /\ <<x, y>>[1] = x /\ <<x, y>>[2] = y
  OBVIOUS
<1>3. Append(<<x>>, y) \in Seq(S) /\ Len(Append(<<x>>, y)) = 2
  BY <1>1
<1>4. Append(<<x>>, y)[1] = x /\ Append(<<x>>, y)[2] = y
  BY <1>1
<1>5. \A i \in 1..2 : Append(<<x>>, y)[i] = <<x, y>>[i]
  BY <1>2, <1>4
<1>6. QED
  BY <1>2, <1>3, <1>5, SeqEqual

\* A write adds the next line of the writer's own diagnostic.
LEMMA WriteAppends ==
  ASSUME GuardTypeOK, Election, NEW t \in Threads, AbortWrite(t)
  PROVE  stderr' = IF pc[t] = "headline"
                   THEN <<<<Code(t), "headline">>>>
                   ELSE <<<<Code(t), "headline">>, <<Code(t), "hint">>>>
<1> DEFINE head == <<Code(t), "headline">>
           hint == <<Code(t), "hint">>
<1>1. CASE pc[t] = "headline"
  <2>1. stderr = <<>> /\ stderr' = Append(stderr, head)
    BY <1>1 DEF AbortWrite, Election, Progress
  <2>2. Append(<<>>, head) = <<head>>
    BY AppendToEmpty
  <2>3. QED
    BY <1>1, <2>1, <2>2
<1>2. CASE pc[t] = "hint"
  <2>1. stderr = <<head>> /\ stderr' = Append(stderr, hint)
    BY <1>2 DEF AbortWrite, Election, Progress
  <2>2. Append(<<head>>, hint) = <<head, hint>>
    <3> HIDE DEF head, hint
    <3> QED
      BY AppendToOne, head \in {head, hint}, hint \in {head, hint}
  <2>3. QED
    BY <1>2, <2>1, <2>2
<1>3. QED
  BY <1>1, <1>2 DEF AbortWrite

\* The swap elects at most one writer, and its lines follow each other.
LEMMA ElectionStep ==
  GuardTypeOK /\ OneAborter /\ Election /\ [GuardNext]_guardVars => OneAborter' /\ Election'
<1> SUFFICES ASSUME GuardTypeOK, OneAborter, Election, [GuardNext]_guardVars
             PROVE  OneAborter' /\ Election'
  OBVIOUS
<1> USE GuardAssumption DEF OneAborter, Election, Progress, Aborting
<1>1. ASSUME UNCHANGED <<aborted, stderr>>,
             \A t \in Threads : pc'[t] \in Aborting => pc'[t] = pc[t]
      PROVE  OneAborter' /\ Election'
  BY <1>1 DEF Code
<1>2. ASSUME NEW t \in Threads, AbortSwap(t) PROVE OneAborter' /\ Election'
  BY <1>2 DEF AbortSwap, Goto, GuardTypeOK
<1>3. ASSUME NEW t \in Threads, AbortWrite(t) PROVE OneAborter' /\ Election'
  <2>1. /\ pc[t] \in {"headline", "hint"}
        /\ pc'[t] = IF pc[t] = "headline" THEN "hint" ELSE "exit"
        /\ \A u \in Threads \ {t} : pc'[u] = pc[u]
        /\ aborted' = aborted
    BY <1>3 DEF AbortWrite, Goto, GuardTypeOK
  <2>2. aborted /\ \A u \in Threads \ {t} : pc[u] \notin Aborting
    BY <2>1
  <2>3. stderr' = IF pc[t] = "headline"
                  THEN <<<<Code(t), "headline">>>>
                  ELSE <<<<Code(t), "headline">>, <<Code(t), "hint">>>>
    BY <1>3, WriteAppends
  <2>4. QED
    BY <2>1, <2>2, <2>3 DEF Code
<1>4. CASE UNCHANGED <<aborted, stderr, pc>>
  BY <1>4, <1>1
<1>5. ASSUME UNCHANGED <<aborted, stderr>>, NEW t \in Threads,
             NEW l \in {"run", "print", "poll", "elapsed", "abort", "gone"},
             Goto(t, l)
      PROVE  OneAborter' /\ Election'
  BY <1>5, <1>1 DEF Goto, GuardTypeOK
<1>6. QED
  BY <1>2, <1>3, <1>4, <1>5 DEF GuardNext, Watchdog, Printer, Abort, Tick,
     WatchdogPoll, WatchdogElapsed, RecordOutput, Println, AbortExit,
     MainReturn, ThreadEnd, guardVars, Threads

\* The lines on stderr are always a prefix of one diagnostic.
LEMMA DiagnosticStep ==
  GuardTypeOK /\ Election /\ SingleDiagnostic /\ [GuardNext]_guardVars => SingleDiagnostic'
<1> SUFFICES ASSUME GuardTypeOK, Election, SingleDiagnostic, [GuardNext]_guardVars
             PROVE  SingleDiagnostic'
  OBVIOUS
<1>1. ASSUME NEW t \in Threads, AbortWrite(t) PROVE SingleDiagnostic'
  <2>1. stderr' = IF pc[t] = "headline"
                  THEN <<<<Code(t), "headline">>>>
                  ELSE <<<<Code(t), "headline">>, <<Code(t), "hint">>>>
    BY <1>1, WriteAppends
  <2>2. Code(t) \in {"ILO-R016", "ILO-R017"}
    BY DEF Code
  <2>3. QED
    BY <2>1, <2>2 DEF SingleDiagnostic
<1>2. CASE UNCHANGED stderr
  BY <1>2 DEF SingleDiagnostic
<1>3. QED
  BY <1>1, <1>2 DEF GuardNext, Watchdog, Printer, Abort, Tick, WatchdogPoll,
     WatchdogElapsed, RecordOutput, Println, AbortSwap, AbortExit, MainReturn,
     ThreadEnd, guardVars, Threads

LEMMA GuardInvInit == Install => GuardInv
<1> SUFFICES ASSUME Install PROVE GuardInv
  OBVIOUS
<1> USE GuardAssumption DEF Install
<1>1. GuardTypeOK
  <2>1. elapsed \in 0..MaxMs
    OBVIOUS
  <2>2. pc \in [Threads -> {"run", "print", "poll", "elapsed", "abort", "parked",
                           "headline", "hint", "exit", "gone"}]
    BY DEF Threads
  <2>3. stderr \in Seq({"ILO-R016", "ILO-R017"} \X {"headline", "hint"})
    OBVIOUS
  <2>4. QED
    BY <2>1, <2>2, <2>3 DEF GuardTypeOK
<1>2. OneAborter /\ Election
  BY DEF OneAborter, Election, Progress, Aborting
<1>3. QED
  BY <1>1, <1>2 DEF GuardInv, OutputWithinBudget, Charged, SingleDiagnostic

LEMMA GuardInvariance == GuardSpec => []GuardInv
<1>1. GuardInv /\ [GuardNext]_guardVars => GuardInv'
  BY GuardTypeStep, BudgetStep, ElectionStep, DiagnosticStep DEF GuardInv
<1>2. QED
  BY GuardInvInit, <1>1, PTL DEF GuardSpec

\* Type correctness, for every instance.
THEOREM GuardTypeCorrect == GuardSpec => []GuardTypeOK
<1>1. GuardInv => GuardTypeOK
  BY DEF GuardInv
<1>2. QED
  BY GuardInvariance, <1>1, PTL

\* Whatever the number of printing threads, no more than --max-output-bytes
\* bytes are ever let through to stdout.
THEOREM OutputBounded == GuardSpec => []OutputWithinBudget
<1>1. GuardInv => OutputWithinBudget
  BY DEF GuardInv
<1>2. QED
  BY GuardInvariance, <1>1, PTL

\* However many threads overflow at the same instant as the watchdog fires,
\* stderr holds the lines of one diagnostic, in order.
THEOREM DiagnosticCoherent == GuardSpec => []SingleDiagnostic
<1>1. GuardInv => SingleDiagnostic
  BY DEF GuardInv
<1>2. QED
  BY GuardInvariance, <1>1, PTL
-----------------------------------------------------------------------------
\* The process starts as its parts do, and each of its steps is a step or a
\* stutter of the engines, and one of the guard.
LEMMA PartsStep ==
  [CommandNext]_commandVars => [Next]_vars /\ [GuardNext]_guardVars
<1> SUFFICES ASSUME [CommandNext]_commandVars
             PROVE  [Next]_vars /\ [GuardNext]_guardVars
  OBVIOUS
<1>1. CASE EngineStep
  BY <1>1 DEF EngineStep
<1>2. CASE ClockStep
  BY <1>2 DEF ClockStep, GuardNext
<1>3. CASE WatchdogStep
  BY <1>3 DEF WatchdogStep, GuardNext
<1>4. ASSUME NEW t \in Printers, Charge(t)
      PROVE  [Next]_vars /\ [GuardNext]_guardVars
  BY <1>4 DEF Charge, GuardNext, Printer
<1>5. ASSUME NEW t \in Printers, Emit(t)
      PROVE  [Next]_vars /\ [GuardNext]_guardVars
  BY <1>5 DEF Emit, GuardNext, Printer, Next
<1>6. ASSUME NEW t \in Printers, AbortStep(t)
      PROVE  [Next]_vars /\ [GuardNext]_guardVars
  BY <1>6 DEF AbortStep, GuardNext, Printer
<1>7. ASSUME NEW t \in Printers, WorkerEnds(t)
      PROVE  [Next]_vars /\ [GuardNext]_guardVars
  BY <1>7 DEF WorkerEnds, GuardNext, Printer
<1>8. CASE Exit
  BY <1>8 DEF Exit, GuardNext
<1>9. CASE UNCHANGED commandVars
  BY <1>9 DEF commandVars
<1> QED
  BY <1>1, <1>2, <1>3, <1>4, <1>5, <1>6, <1>7, <1>8, <1>9 DEF CommandNext

(***************************************************************************)
(* The process implements its parts: seen without the other one's state,   *)
(* it is the dispatch of the engines, and it is the guard.  What is proved *)
(* of either holds while both run.                                         *)
(***************************************************************************)
THEOREM PartsImplemented == CommandSpec => Spec /\ GuardSpec
<1>1. CommandInit => Init /\ Install
  BY DEF CommandInit
<1> QED
  BY <1>1, PartsStep, PTL DEF CommandSpec, Spec, GuardSpec

\* Where an exit status comes from: exit 1 from main's own exit code or from the
\* thread that has written the diagnostic, exit 0 from main.
StatusSource ==
  /\ status = "1" => code = 1 \/ \E t \in Threads : pc[t] = "exit"
  /\ status = "0" => code = 0

LEMMA StatusStep ==
  TypeOK /\ StatusSource /\ [CommandNext]_commandVars => StatusSource'
<1> SUFFICES ASSUME TypeOK, StatusSource, [CommandNext]_commandVars
             PROVE  StatusSource'
  OBVIOUS
<1>1. ASSUME Running, status' = status
      PROVE  StatusSource'
  BY <1>1 DEF Running, StatusSource
<1>2. CASE EngineStep
  BY <1>1, <1>2 DEF EngineStep, MainInProgram, guardVars
<1>3. CASE ClockStep
  BY <1>1, <1>3 DEF ClockStep, Tick
<1>4. ASSUME NEW t \in Threads, Abort(t), UNCHANGED vars
      PROVE  StatusSource'
  <2>1. CASE AbortExit(t)
    BY <1>4, <2>1 DEF AbortExit, StatusSource
  <2>2. CASE AbortSwap(t) \/ AbortWrite(t)
    BY <1>1, <2>2 DEF AbortSwap, AbortWrite
  <2> QED
    BY <1>4, <2>1, <2>2 DEF Abort
<1>5. CASE WatchdogStep
  <2>1. CASE WatchdogPoll \/ WatchdogElapsed
    BY <1>1, <2>1 DEF WatchdogPoll, WatchdogElapsed
  <2> QED
    BY <1>4, <1>5, <2>1 DEF WatchdogStep, Watchdog, Threads
<1>6. ASSUME NEW t \in Printers, Charge(t) \/ Emit(t) \/ WorkerEnds(t)
      PROVE  StatusSource'
  BY <1>1, <1>6 DEF Charge, Emit, WorkerEnds, RecordOutput, Println, ThreadEnd
<1>7. ASSUME NEW t \in Printers, AbortStep(t)
      PROVE  StatusSource'
  BY <1>4, <1>7 DEF AbortStep, Threads
<1>8. CASE Exit
  BY <1>8 DEF Exit, Undecided, NotYet, TypeOK, StatusSource, vars
<1>9. CASE UNCHANGED commandVars
  BY <1>9 DEF commandVars, vars, guardVars, StatusSource
<1> QED
  BY <1>2, <1>3, <1>5, <1>6, <1>7, <1>8, <1>9 DEF CommandNext

(***************************************************************************)
(* The exit status of the process is explained, whichever thread meets a   *)
(* limit at whichever point of whichever engine's execution: by a failure  *)
(* the command showed, or by a whole diagnostic of the guard.              *)
(***************************************************************************)
THEOREM StatusExplained == CommandSpec => []ExitStatusExplained
<1>1. CommandInit => StatusSource
  BY DEF CommandInit, Install, StatusSource
<1>2. IInv /\ StatusSource /\ [CommandNext]_commandVars => StatusSource'
  BY StatusStep DEF IInv
<1>3. IInv /\ GuardInv /\ StatusSource => ExitStatusExplained
  <2> SUFFICES ASSUME IInv, GuardInv, StatusSource
               PROVE  ExitStatusExplained
    OBVIOUS
  <2>1. ASSUME NEW t \in Threads, pc[t] = "exit"
        PROVE  DiagnosticWhole
    <3>1. stderr = <<<<Code(t), "headline">>, <<Code(t), "hint">>>>
      BY <2>1 DEF GuardInv, Election, Progress
    <3> QED
      BY <3>1 DEF DiagnosticWhole
  <2>2. code \in {0, 1} => out.failures = code
    BY DEF IInv, ExitExplained, NotYet
  <2> QED
    BY <2>1, <2>2 DEF StatusSource, ExitStatusExplained
<1> QED
  BY <1>1, <1>2, <1>3, PartsImplemented, Invariance, GuardInvariance, PTL DEF CommandSpec
=============================================================================
