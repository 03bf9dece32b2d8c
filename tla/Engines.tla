------------------------------ MODULE Engines ------------------------------
(***************************************************************************)
(* How the ilo command executes a verified program (src/main.rs): the      *)
(* engine that was asked for, what the command falls back to when that     *)
(* engine cannot or does not finish, and what it reports.  The default is  *)
(* the register VM, backed by the tree interpreter; --vm and the internal  *)
(* tree engine stand alone; --jit compiles with Cranelift                  *)
(* (src/vm/jit_cranelift.rs) and backs off to the VM.                      *)
(*                                                                         *)
(* An execution is a sequence of effects (lines printed, files written,    *)
(* requests sent, commands run) that ends with a value or a runtime error. *)
(* Native code cannot unwind: a helper that records a failure leaves it in *)
(* a thread-local cell and the code goes on, to be judged when it returns. *)
(* Not every helper records what the VM would raise: the permissive ones   *)
(* answer nil, which is a value like any other here.                       *)
(***************************************************************************)
EXTENDS Naturals, Sequences

CONSTANT MaxEffects   \* bound: effects of one execution

ASSUME EnginesAssumption == MaxEffects \in Nat

VARIABLES
  request,   \* the command line: the engine, --json, and whether the entry
             \* function's value is suppressed because it has been printed
  engine,    \* the engine that is executing, "none" before and after
  runs,      \* the executions of the program so far, the current one last
  out,       \* what the command itself has printed
  code       \* the exit code, NotYet until the command returns

vars == <<request, engine, runs, out, code>>

Engines == {"vm", "tree", "jit"}

Requests == [engine : {"default"} \cup Engines, json : BOOLEAN, suppress : BOOLEAN]

\* results: values of the program shown; failures: diagnostics, messages and
\* Err values shown; notices: mentions that the JIT was given up.
Outs == [results : Nat, failures : Nat, notices : Nat]

NotYet == 2

-----------------------------------------------------------------------------
Undecided == code = NotYet

Current == runs[Len(runs)]

\* The program starts, after the executions in past, in engine e.
Start(past, e) ==
  /\ engine' = e
  /\ runs' = Append(past, [on |-> e, effects |-> 0, failed |-> FALSE])

\* The current execution has raised an error, or recorded one in native code's cell.
Marked == [runs EXCEPT ![Len(runs)].failed = TRUE]

Noted(field) == out' = [out EXCEPT ![field] = @ + 1]

\* report_diagnostic, or a message on stderr, and exit code 1.
GiveUp ==
  /\ Noted("failures")
  /\ code' = 1
  /\ engine' = "none"

Init ==
  /\ request \in Requests
  /\ engine = "none"
  /\ runs = <<>>
  /\ out = [results |-> 0, failures |-> 0, notices |-> 0]
  /\ code = NotYet

Dispatching == Undecided /\ runs = <<>> /\ engine = "none"

\* The program does not start: wrong arguments for the entry function, no such
\* function, a tools configuration that cannot be read.
Reject ==
  /\ Dispatching
  /\ GiveUp
  /\ UNCHANGED <<request, runs>>

\* vm::compile refuses the program: the default goes to the tree interpreter.
CompileFails ==
  /\ Dispatching
  /\ \/ /\ request.engine = "default"
        /\ Start(runs, "tree")
        /\ UNCHANGED <<out, code>>
     \/ /\ request.engine \in {"vm", "jit"}
        /\ GiveUp
        /\ UNCHANGED runs
  /\ UNCHANGED request

RunVm ==
  /\ Dispatching
  /\ request.engine \in {"default", "vm"}
  /\ Start(runs, "vm")
  /\ UNCHANGED <<request, out, code>>

RunTree ==
  /\ Dispatching
  /\ request.engine = "tree"
  /\ Start(runs, "tree")
  /\ UNCHANGED <<request, out, code>>

\* compile_and_call gets native code and enters it, with an empty error cell.
RunJit ==
  /\ Dispatching
  /\ request.engine = "jit"
  /\ Start(runs, "jit")
  /\ UNCHANGED <<request, out, code>>

\* NotEligible: an opcode without a translation, or more than 8 arguments.
JitBailsOut ==
  /\ Dispatching
  /\ request.engine = "jit"
  /\ Start(runs, "vm")
  /\ UNCHANGED <<request, out, code>>

\* Cranelift panics while it compiles; catch_unwind turns that into Panic. The same
\* catch_unwind surrounds the call, but no panic leaves native code: the helpers
\* are extern "C", where a panic aborts the process.
JitPanics ==
  /\ Dispatching
  /\ request.engine = "jit"
  /\ Start(runs, "vm")
  /\ Noted("notices")
  /\ UNCHANGED <<request, code>>

-----------------------------------------------------------------------------
Executing == Undecided /\ engine # "none"

Effect ==
  /\ Executing
  /\ Current.effects < MaxEffects
  /\ runs' = [runs EXCEPT ![Len(runs)].effects = @ + 1]
  /\ UNCHANGED <<request, engine, out, code>>

\* A helper of native code records an error: the first one stays in the cell.
JitHelperFails ==
  /\ Executing
  /\ engine = "jit"
  /\ runs' = Marked
  /\ UNCHANGED <<request, engine, out, code>>

\* Mutant: a runtime error of native code is taken for a program that the JIT
\* cannot run.
FallbackFromJit(e) == request.engine \in {"default", "jit"} /\ e \in {"vm", "jit"}

\* An error of the VM under run_default is dropped and the tree interpreter
\* starts the program again; any other is reported.
Fallback(e) == request.engine = "default" /\ e = "vm"

\* The engine returns Err: the VM and the tree interpreter as soon as a
\* statement fails, native code when it returns with an error in the cell.
RuntimeError ==
  /\ Executing
  /\ engine = "jit" => Current.failed
  /\ IF Fallback(engine)
     THEN /\ Start(Marked, "tree")
          /\ UNCHANGED <<out, code>>
     ELSE /\ GiveUp
          /\ runs' = Marked
  /\ UNCHANGED request

\* Mutant: print_value looks at the suppression before it looks for an Err.
PrintedSuppressing(v) ==
  IF request.suppress /\ ~request.json THEN out
  ELSE IF v = "Err" THEN [out EXCEPT !.failures = @ + 1]
  ELSE [out EXCEPT !.results = @ + 1]

\* print_value: an Err is shown in any case, on stderr or as JSON.
Printed(v) ==
  IF v = "Err" THEN [out EXCEPT !.failures = @ + 1]
  ELSE IF request.suppress /\ ~request.json THEN out
  ELSE [out EXCEPT !.results = @ + 1]

\* program_exit_code
ExitCode(v) == IF v = "Err" THEN 1 ELSE 0

\* call: native code that returned is Ok only if no helper recorded an error. That
\* is all it tells: a helper may have answered nil where the VM fails.
CallSucceeded == engine = "jit" => ~Current.failed

\* The entry function returns a value: an Err or anything else.
Returns ==
  /\ Executing
  /\ CallSucceeded
  /\ \E v \in {"plain", "Err"} :
       /\ out' = Printed(v)
       /\ code' = ExitCode(v)
  /\ engine' = "none"
  /\ UNCHANGED <<request, runs>>

Next ==
  \/ Reject \/ CompileFails
  \/ RunVm \/ RunTree \/ RunJit \/ JitBailsOut \/ JitPanics
  \/ Effect \/ JitHelperFails \/ RuntimeError \/ Returns

Spec == Init /\ [][Next]_vars

-----------------------------------------------------------------------------
\* An engine is executing exactly from the first start to the exit.
TypeOK ==
  /\ request \in Requests
  /\ engine \in Engines \cup {"none"}
  /\ runs \in Seq([on : Engines, effects : 0..MaxEffects, failed : BOOLEAN])
  /\ out \in Outs
  /\ code \in {NotYet, 0, 1}
  /\ engine = "none" <=> code # NotYet \/ runs = <<>>

\* No two executions of the program both had effects.
EffectsOnce ==
  \A i, j \in DOMAIN runs : runs[i].effects > 0 /\ runs[j].effects > 0 => i = j

(***************************************************************************)
(* An engine asked for by name never repeats what the program did: --jit   *)
(* leaves native code for the VM only before the first effect, and a       *)
(* runtime error, also one found when native code returns, is final.       *)
(***************************************************************************)
NamedEngineRunsOnce == request.engine # "default" => EffectsOnce

(***************************************************************************)
(* The exit code and the output agree: exit 1 comes with exactly one       *)
(* failure shown, whichever engines were tried and whatever is suppressed; *)
(* exit 0 comes with none.                                                 *)
(***************************************************************************)
ExitExplained == code # NotYet => out.failures = code
=============================================================================
