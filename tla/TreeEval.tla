------------------------------ MODULE TreeEval ------------------------------
(***************************************************************************)
(* Control flow of the tree-walking interpreter (src/interpreter/mod.rs):  *)
(* call_function with its tail-call trampoline, eval_body, eval_stmt and   *)
(* eval_expr as one machine with an explicit stack, one frame per Rust     *)
(* activation that runs a body.  What is kept: the environment that is     *)
(* saved and restored around a call, the scope marks, the defer stack and  *)
(* its two drain points, every BodyResult and how each construct maps it,  *)
(* runtime errors and `!` / `!!` unwrapping, and the self-rebind peephole  *)
(* that leaves Nil in a variable while its new value is computed.          *)
(*                                                                         *)
(* The program is chosen as it runs: whenever a body may execute another   *)
(* statement, any statement form of `Forms` and `Features` may be next     *)
(* (programs branch on data the model leaves out, so every choice is some  *)
(* program's).  A value is "plain", "nil" or "Err" (a Value::Err), all     *)
(* that unwrapping and errdefer look at.                                   *)
(***************************************************************************)
EXTENDS Naturals, Sequences, FiniteSets

CONSTANTS
  Forms,      \* the block constructs the program uses
  Features,   \* further statements it uses: see FeatureNames
  MaxDepth,   \* bound: frames on the host stack
  MaxCalls,   \* bound: activations, tail calls included
  MaxDefers   \* bound: defer statements executed

Loops == {"each", "lazy", "range", "while"}

Blocks == Loops \cup {"ternary", "braceless", "braced", "match", "arm"}

FeatureNames == {"tailcall", "rebind", "deferarm", "blockerrdefer"}

ASSUME TreeAssumption ==
  /\ Forms \subseteq Blocks
  /\ Features \subseteq FeatureNames
  /\ MaxDepth \in Nat \ {0}
  /\ MaxCalls \in Nat \ {0}
  /\ MaxDefers \in Nat

VARIABLES
  stack,    \* the host stack of body-running frames, innermost last
  env,      \* Env: scope marks, accumulator slot and defer stack of an activation
  calls,    \* activations so far; each gets the next number
  fates,    \* history: what became of each executed defer statement
  status    \* "running", "done", or "panicked" at an unreachable!()

vars == <<stack, env, calls, fates, status>>

-----------------------------------------------------------------------------
Values == {"plain", "nil", "Err"}

\* BodyResult, with the RuntimeError of a failing body as one more kind.
Kinds == {"value", "return", "break", "continue", "tail", "error"}

Res(kind, v) == [kind |-> kind, v |-> v]

Failed == Res("error", "plain")

\* A fresh environment for one activation: parameters bound, one scope mark.
\* depth and exited are history: where the host frame of the activation is,
\* and the statement that should have ended it.
Fresh(owner, depth, defers) ==
  [owner |-> owner, marks |-> 1, slot |-> "bound", defers |-> defers,
   depth |-> depth, exited |-> "no"]

\* Constructs that push a scope, and constructs that drain the defers
\* registered inside them when they are left.
Scoped(form) == form \notin {"fn", "while"}

Draining(form) == form \notin {"lazy", "arm"}

\* The is_tail argument each construct passes to eval_body.  A block that is
\* not the last statement of its body behaves as one that is and ends without
\* a tail call, so outer alone decides.
TailOf(form, outer) ==
  \/ form = "braceless"
  \/ form \in {"ternary", "braced", "match"} /\ outer

\* saved is the environment on entry.  call_function restores it; a block
\* keeps the length of its defer stack, defer_mark.
Frame(form, tail, use, unwrap, e) ==
  [form |-> form, tail |-> tail, use |-> use, unwrap |-> unwrap,
   saved |-> e, phase |-> "run", todo |-> <<>>, res |-> Res("value", "nil")]

\* Mutant: a block drains the whole defer stack of its activation.
MarkAtFunction(f) == 0

Mark(f) == IF f.form = "fn" THEN 0 ELSE Len(f.saved.defers)

Top == stack[Len(stack)]

Pop(s) == SubSeq(s, 1, Len(s) - 1)

SetTop(s, f) == [s EXCEPT ![Len(s)] = f]

\* Mutant: the drains forget to reverse the list.
Unreversed(s) == s

Reversed(s) == [i \in 1..Len(s) |-> s[Len(s) + 1 - i]]

\* The pair of a stack and an environment the machine moves to.
At(s, e) == [stack |-> s, env |-> e]

MoveTo(m) == stack' = m.stack /\ env' = m.env

(***************************************************************************)
(* The innermost body ends with r.  A tail call that reaches the function  *)
(* goes to the trampoline; otherwise the entries pushed since the mark are *)
(* taken off the defer stack, to be run last in first out.                 *)
(***************************************************************************)
Finish(s, e, r) ==
  LET f == s[Len(s)]
      kept == IF Draining(f.form) THEN Mark(f) ELSE Len(e.defers)
  IN  IF f.form = "fn" /\ r.kind = "tail"
      THEN At(SetTop(s, [f EXCEPT !.phase = "trampoline", !.res = r]), e)
      ELSE At(SetTop(s, [f EXCEPT !.phase = "drain", !.res = r,
                           !.todo = Reversed(SubSeq(e.defers, kept + 1, Len(e.defers)))]),
              [e EXCEPT !.defers = SubSeq(@, 1, kept)])

\* A ternary statement and a value-producing match turn the return of their
\* body into a value.
Swallows(form) == form \in {"ternary", "arm"}

\* History: a statement that ends the activation; or that only ends a construct
\* that swallows the return, and a self-rebind it cuts short loses its variable.
Exit(s, e, how) ==
  IF \E i \in e.depth..Len(s) : Swallows(s[i].form)
  THEN [e EXCEPT !.slot = IF @ = "taken" THEN "lost" ELSE @]
  ELSE [e EXCEPT !.exited = how]

(***************************************************************************)
(* An expression delivers its outcome to the statement that uses it:       *)
(* "value", "error", or "propagate" for the error that carries an          *)
(* auto-unwrapped value and that eval_body turns into a return.            *)
(***************************************************************************)
Deliver(s, e, use, o) ==
  CASE use = "defer"          -> At(s, e)   \* errors of a defer are ignored
    [] use = "start"          -> At(s, e)   \* the program's own result
    [] use \notin {"defer", "start"} /\ o.kind = "error" -> Finish(s, e, Failed)
    [] use \notin {"defer", "start"} /\ o.kind = "propagate" ->
         Finish(s, Exit(s, e, "propagate"), Res("return", o.v))
    [] use = "ret" /\ o.kind = "value" ->
         Finish(s, Exit(s, e, "ret"), Res("return", o.v))
    [] use = "rebind" /\ o.kind = "value" -> At(s, [e EXCEPT !.slot = "bound"])
    [] use = "stmt" /\ o.kind = "value" -> At(s, e)

\* `f x`, `f! x` and `f!! x` on a callee that returned v.
Unwrapped(unwrap, v) ==
  IF unwrap = "none" \/ v = "plain" THEN Res("value", v)
  ELSE IF unwrap = "propagate" THEN Res("propagate", v) ELSE Failed

\* The Result<Value> of call_function.
Returned(r) ==
  CASE r.kind = "error"    -> Failed
    [] r.kind = "continue" -> Res("value", "nil")
    [] OTHER               -> Res("value", r.v)

\* is_error, as call_function and as a block compute it.
ErrorExit(f) ==
  IF f.form = "fn" THEN Returned(f.res) = Failed \/ Returned(f.res).v = "Err"
  ELSE f.res.kind \in {"error", "return"}

ShouldRun(f, d) == d.kind = "Always" \/ ErrorExit(f)

-----------------------------------------------------------------------------
Running == status = "running" /\ stack # <<>>

InBody == Running /\ Top.phase = "run"

\* A new frame fits under the bound.
Room == Len(stack) < MaxDepth

\* brk and cnt are accepted only inside a loop of the same function.
InLoop ==
  \E i \in 1..Len(stack) :
    /\ stack[i].form \in Loops
    /\ \A j \in i..Len(stack) : stack[j].form # "fn"

Init ==
  /\ calls = 1
  /\ env = Fresh(1, 1, <<>>)
  /\ stack = <<Frame("fn", TRUE, "start", "none", Fresh(0, 0, <<>>))>>
  /\ fates = <<>>
  /\ status = "running"

\* The uses of an expression's value.  A self-rebind takes the accumulator out
\* of its slot before its operands are evaluated.
Uses == {"stmt", "ret"} \cup (Features \cap {"rebind"})

Taken(use, e) == IF use = "rebind" THEN [e EXCEPT !.slot = "taken"] ELSE e

\* Mutant: the defer stack is saved by a copy and the callee keeps it.
EnterFnSharing(s, e, use, unwrap) ==
  At(Append(s, Frame("fn", TRUE, use, unwrap, Taken(use, e))),
     Fresh(calls + 1, Len(s) + 1, e.defers))

\* call_function on a user function: save the environment, bind parameters.
EnterFn(s, e, use, unwrap) ==
  At(Append(s, Frame("fn", TRUE, use, unwrap, Taken(use, e))),
     Fresh(calls + 1, Len(s) + 1, <<>>))

CanCall == Room /\ calls < MaxCalls

\* A statement whose expression calls a function.
Call ==
  /\ InBody
  /\ CanCall
  /\ calls' = calls + 1
  /\ \E use \in Uses, unwrap \in {"none", "propagate", "panic"} :
       MoveTo(EnterFn(stack, env, use, unwrap))
  /\ UNCHANGED <<fates, status>>

\* A statement that fails with a RuntimeError.
Fail ==
  /\ InBody
  /\ MoveTo(Finish(stack, env, Failed))
  /\ UNCHANGED <<calls, fates, status>>

\* `!` on a builtin or tool whose result is Err or nil.
Propagate ==
  /\ InBody
  /\ \E v \in {"nil", "Err"} :
       MoveTo(Finish(stack, Exit(stack, env, "propagate"), Res("return", v)))
  /\ UNCHANGED <<calls, fates, status>>

\* `ret e` where e does not call a user function directly.
Ret ==
  /\ InBody
  /\ \E v \in Values :
       MoveTo(Finish(stack, Exit(stack, env, "ret"), Res("return", v)))
  /\ UNCHANGED <<calls, fates, status>>

\* try_synthesize_tail_call: `ret f x` anywhere, or a last statement `f x` of
\* a body in tail position.
TailCall ==
  /\ InBody
  /\ "tailcall" \in Features
  /\ MoveTo(Finish(stack, IF Top.tail THEN env ELSE Exit(stack, env, "ret"),
                   Res("tail", "nil")))
  /\ UNCHANGED <<calls, fates, status>>

BreakOrContinue ==
  /\ InBody
  /\ InLoop
  /\ \E r \in {Res("break", v) : v \in Values} \cup {Res("continue", "nil")} :
       MoveTo(Finish(stack, env, r))
  /\ UNCHANGED <<calls, fates, status>>

\* The last statement has run; its value is the body's.
BodyEnd ==
  /\ InBody
  /\ \E v \in Values : MoveTo(Finish(stack, env, Res("value", v)))
  /\ UNCHANGED <<calls, fates, status>>

\* `defer e` / `errdefer e`.
Defer ==
  /\ InBody
  /\ Len(fates) < MaxDefers
  /\ \E kind \in {"Always", "OnError"} :
       /\ kind = "OnError" => Top.form = "fn" \/ "blockerrdefer" \in Features
       /\ env' = [env EXCEPT !.defers =
                    Append(@, [id |-> Len(fates) + 1, kind |-> kind,
                               owner |-> env.owner, depth |-> env.depth])]
  /\ fates' = Append(fates, "pending")
  /\ UNCHANGED <<stack, calls, status>>

\* A block statement, or a value-producing match, enters its body.
OpenBlock(s, e, form, outer, use) ==
  At(Append(s, Frame(form, TailOf(form, outer), use, "none", e)),
     [e EXCEPT !.marks = IF Scoped(form) THEN @ + 1 ELSE @])

Block ==
  /\ InBody
  /\ Room
  /\ \E form \in Forms, use \in Uses :
       /\ form # "arm" => use = "stmt"
       /\ MoveTo(OpenBlock(stack, Taken(use, env), form, Top.tail, use))
  /\ UNCHANGED <<calls, fates, status>>

-----------------------------------------------------------------------------
\* call_function's loop picks up a tail call: rebind in place, or fail on an
\* arity mismatch.
Trampoline ==
  /\ Running
  /\ Top.phase = "trampoline"
  /\ \/ /\ calls < MaxCalls
        /\ calls' = calls + 1
        /\ MoveTo(At(SetTop(stack, [Top EXCEPT !.phase = "run"]),
                     Fresh(calls + 1, env.depth, env.defers)))
     \/ /\ MoveTo(Finish(stack, env, Failed))
        /\ UNCHANGED calls
  /\ UNCHANGED <<fates, status>>

\* Mutant: the entry stays on the list.
AdvancedInPlace == stack

\* The drain has taken its next entry off the list.
Advanced == SetTop(stack, [Top EXCEPT !.todo = Tail(@)])

\* One entry of a drain: skipped or evaluated without control flow, evaluated
\* through a call, or through a value-producing match that may itself defer.
Drain ==
  /\ Running
  /\ Top.phase = "drain"
  /\ Top.todo # <<>>
  /\ LET d == Head(Top.todo)
         runs == ShouldRun(Top, d)
     IN  /\ fates' = [fates EXCEPT ![d.id] = IF runs THEN "ran" ELSE "skipped"]
         /\ \/ /\ MoveTo(At(Advanced, env))
               /\ UNCHANGED calls
            \/ /\ runs
               /\ CanCall
               /\ calls' = calls + 1
               /\ MoveTo(EnterFn(Advanced, env, "defer", "none"))
            \/ /\ runs
               /\ Room
               /\ "deferarm" \in Features
               /\ MoveTo(OpenBlock(Advanced, env, "arm", FALSE, "defer"))
               /\ UNCHANGED calls
  /\ UNCHANGED status

\* The innermost frame has drained and is about to be left.
Leaving == Running /\ Top.phase = "drain" /\ Top.todo = <<>>

\* Mutant: `?` leaves the construct before pop_scope.
UnscopedUnlessError(f, e) ==
  [e EXCEPT !.marks = IF Scoped(f.form) /\ f.res.kind # "error" THEN @ - 1 ELSE @]

\* pop_scope, for the constructs that pushed one.
Unscoped(f, e) == [e EXCEPT !.marks = IF Scoped(f.form) THEN @ - 1 ELSE @]

\* What call_function restores of the caller's environment.
Restored(f, e) == f.saved

\* call_function returns.
LeaveFn ==
  /\ Leaving
  /\ Top.form = "fn"
  /\ LET r == Returned(Top.res)
         o == IF r = Failed THEN r ELSE Unwrapped(Top.unwrap, r.v)
     IN  MoveTo(Deliver(Pop(stack), Restored(Top, env), Top.use, o))
  /\ status' = IF Len(stack) = 1 THEN "done" ELSE status
  /\ UNCHANGED <<calls, fates>>

\* History: an error of a deferred match is ignored, and a self-rebind in it that
\* failed loses its variable.
Ignored(f, e) ==
  IF f.use = "defer" /\ f.saved.slot # "taken" /\ e.slot = "taken"
  THEN [e EXCEPT !.slot = "lost"] ELSE e

\* A value-producing match: every result but an error becomes its value.
LeaveArm ==
  /\ Leaving
  /\ Top.form = "arm"
  /\ Top.res.kind # "tail"
  /\ MoveTo(Deliver(Pop(stack), Ignored(Top, Unscoped(Top, env)), Top.use,
                    Returned(Top.res)))
  /\ UNCHANGED <<calls, fates, status>>

\* Mutant: every conditional swallows a return, as the ternary does.
ResumesOnReturn(form, r) ==
  (form # "braceless" /\ r.kind = "value") \/ r.kind = "return"

\* Mutant: a conditional swallows an error.
ResumesOnError(form, r) == form # "braceless" /\ r.kind \in {"value", "error"}

\* The outcomes after which the body around a conditional goes on.
Resumes(form, r) ==
  \/ form # "braceless" /\ r.kind = "value"
  \/ form = "ternary" /\ r.kind = "return"

\* The conditional statements.
LeaveBlock ==
  /\ Leaving
  /\ Top.form \in {"ternary", "braceless", "braced", "match"}
  /\ LET s == Pop(stack)
         e == Unscoped(Top, env)
         r == Top.res
     IN  MoveTo(IF Resumes(Top.form, r) THEN At(s, e)
                ELSE IF r.kind = "value" THEN Finish(s, e, Res("return", r.v))
                ELSE Finish(s, e, r))
  /\ UNCHANGED <<calls, fates, status>>

\* A loop body: leave with the result, stop (brk, an exhausted list, a false
\* condition; a header that fails is a failing statement after it), or run
\* another iteration.
LeaveLoop ==
  /\ Leaving
  /\ Top.form \in Loops
  /\ Top.res.kind # "tail"
  /\ LET s == Pop(stack)
         e == Unscoped(Top, env)
         r == Top.res
     IN  \/ /\ r.kind \in {"return", "error"}
            /\ MoveTo(Finish(s, e, r))
         \/ /\ r.kind \in {"break", "value", "continue"}
            /\ MoveTo(At(s, e))
         \/ /\ r.kind \in {"value", "continue"}
            /\ MoveTo(OpenBlock(s, e, Top.form, FALSE, "stmt"))
  /\ UNCHANGED <<calls, fates, status>>

\* unreachable!("TailCall escaping ...") in a loop or a value-producing match.
TailCallEscapes ==
  /\ Leaving
  /\ Top.form \in Loops \cup {"arm"}
  /\ Top.res.kind = "tail"
  /\ status' = "panicked"
  /\ UNCHANGED <<stack, env, calls, fates>>

Next ==
  \/ Call \/ Fail \/ Propagate \/ Ret \/ TailCall
  \/ BreakOrContinue \/ BodyEnd \/ Defer \/ Block
  \/ Trampoline \/ Drain
  \/ LeaveFn \/ LeaveArm \/ LeaveBlock \/ LeaveLoop \/ TailCallEscapes

Spec == Init /\ [][Next]_vars

-----------------------------------------------------------------------------
Entries == [id : Nat \ {0}, kind : {"Always", "OnError"}, owner : Nat, depth : Nat]

Envs == [owner : Nat, marks : Nat \ {0}, slot : {"bound", "taken", "lost"},
         defers : Seq(Entries), depth : Nat, exited : {"no", "ret", "propagate"}]

Frames == [form : {"fn"} \cup Blocks, tail : BOOLEAN,
           use : {"start", "stmt", "ret", "rebind", "defer"},
           unwrap : {"none", "propagate", "panic"}, saved : Envs,
           phase : {"run", "drain", "trampoline"}, todo : Seq(Entries),
           res : [kind : Kinds, v : Values]]

\* Every environment, live or saved, keeps at least the function's own scope
\* mark: pop_scope never finds the list empty.
TypeOK ==
  /\ stack \in Seq(Frames)
  /\ env \in Envs
  /\ calls \in 1..MaxCalls
  /\ fates \in Seq({"pending", "ran", "skipped"})
  /\ status \in {"running", "done", "panicked"}

\* The environment in which frame i of s runs its body; e is the current one.
EnvAt(s, e, i) == IF i = Len(s) THEN e ELSE s[i + 1].saved

\* The scope marks of a body of frame f.
MarksIn(f) ==
  IF f.form = "fn" THEN 1 ELSE IF Scoped(f.form) THEN f.saved.marks + 1 ELSE f.saved.marks

ScopesNest(s, e) == \A i \in 1..Len(s) : EnvAt(s, e, i).marks = MarksIn(s[i])

(***************************************************************************)
(* push_scope and pop_scope balance: whatever way a body is left (its end, *)
(* ret, brk, cnt, a runtime error, a propagated Err, a tail call), the     *)
(* construct around it finds the scope marks it left, one more than on its *)
(* entry if it pushed one.                                                 *)
(***************************************************************************)
ScopesBalanced == ScopesNest(stack, env)

\* d extends the sequence c.
Extends(d, c) == Len(c) <= Len(d) /\ \A k \in 1..Len(c) : d[k] = c[k]

DefersNest(s, e) ==
  \A i \in 1..Len(s) : s[i].form # "fn" => Extends(EnvAt(s, e, i).defers, s[i].saved.defers)

(***************************************************************************)
(* A block drains only the defers registered inside it: all along its body *)
(* and its drain, the entries that were on the defer stack when the block  *)
(* was entered are still there, in order, below its defer_mark.            *)
(***************************************************************************)
OuterDefersKept == DefersNest(stack, env)

\* Where the entry of a defer statement waits: the defer stack in use, one
\* saved by call_function, or a list being drained.
Places(id) ==
  {<<0, 0, k>> : k \in {k \in DOMAIN env.defers : env.defers[k].id = id}}
  \cup (UNION {{<<i, 1, k>> : k \in {k \in DOMAIN stack[i].saved.defers :
                                      stack[i].saved.defers[k].id = id}} :
               i \in {i \in DOMAIN stack : stack[i].form = "fn"}})
  \cup (UNION {{<<i, 2, k>> : k \in {k \in DOMAIN stack[i].todo : stack[i].todo[k].id = id}} :
               i \in DOMAIN stack})

(***************************************************************************)
(* A defer statement that was executed once runs at most once: its entry   *)
(* waits in one place, and nowhere any more after it ran or was skipped,   *)
(* with block drains, function drains and calls from deferred expressions  *)
(* nested in any way.                                                      *)
(***************************************************************************)
DefersPendingOnce ==
  \A id \in DOMAIN fates :
    Cardinality(Places(id)) <= IF fates[id] = "pending" THEN 1 ELSE 0

(***************************************************************************)
(* call_function gives every activation a defer stack of its own: what is  *)
(* registered under one host frame is drained under that frame, never by a *)
(* callee or, after a return, by the caller.                               *)
(***************************************************************************)
DefersStayInFrame ==
  /\ \A k \in DOMAIN env.defers : env.defers[k].depth = env.depth
  /\ stack # <<>> => \A k \in DOMAIN Top.todo : Top.todo[k].depth = env.depth

\* A body of the activation is running, and not a match that is one of its
\* deferred expressions or an operand of a self-rebind.
InOwnBody ==
  /\ InBody
  /\ \A i \in env.depth..Len(stack) :
       stack[i].form = "fn" \/ stack[i].use \notin {"defer", "rebind"}

(***************************************************************************)
(* An activation that executed `ret`, or a `!` on an Err or nil, outside   *)
(* the constructs that swallow a return executes no further statement:     *)
(* only its defers run before it returns.                                  *)
(***************************************************************************)
ExitsAreFinal == InOwnBody => env.exited = "no"

(***************************************************************************)
(* A self-rebind leaves Nil in its variable while its operands are         *)
(* evaluated, and for good when they fail; no statement of the activation  *)
(* runs before the variable is bound again, unless something swallowed the *)
(* failure: a construct around the rebind the return of a `!`, or the      *)
(* drain that evaluated the rebind, in a deferred match, its error.  (The  *)
(* activation's defers may run: one that names the variable finds Nil.)    *)
(***************************************************************************)
RebindInvisible == InOwnBody => env.slot # "taken"

-----------------------------------------------------------------------------
(***************************************************************************)
(* The abstract view: one list of pending cleanups per activation.  The    *)
(* entries that a drain has taken off the defer stack come last, and the   *)
(* next to run is the last of all.                                         *)
(***************************************************************************)
\* The number of activations that frames 1 to i of s belong to.
Activations(s, i) == Cardinality({j \in 1..i : s[j].form = "fn"})

\* Frame i of s is the innermost of its activation.
Innermost(s, i) == i = Len(s) \/ s[i + 1].form = "fn"

LastFrame(s, k) == CHOOSE i \in 1..Len(s) : Innermost(s, i) /\ Activations(s, i) = k

PendingOf(s, e, i) ==
  LET waiting == EnvAt(s, e, i).defers \o Reversed(s[i].todo)
  IN  [j \in 1..Len(waiting) |-> [id |-> waiting[j].id, kind |-> waiting[j].kind]]

PendingLists(s, e) ==
  [k \in 1..Activations(s, Len(s)) |-> PendingOf(s, e, LastFrame(s, k))]

Abstract == INSTANCE Cleanup WITH acts <- PendingLists(stack, env), MaxActs <- MaxDepth

(***************************************************************************)
(* The interpreter implements the cleanup discipline of module Cleanup:    *)
(* cleanups run last in first out, each once, in the activation that       *)
(* registered them, and an activation returns only when it has none left.  *)
(***************************************************************************)
CleanupSpec == Abstract!Spec
=============================================================================
