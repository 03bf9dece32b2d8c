------------------------------ MODULE VmFrames ------------------------------
(***************************************************************************)
(* Calls and defers on the register VM (src/vm/mod.rs): the instructions   *)
(* RegCompiler emits for blocks, loops, returns, `!`, tail calls and       *)
(* defers, and VM::execute running them over the frame stack.              *)
(*                                                                         *)
(* A deferred expression is compiled to a thunk.  OP_DEFER_DRAIN and       *)
(* OP_DEFER_SCOPE_POP run each thunk by a nested execute() that returns    *)
(* when the frame stack is back at execute_stop_depth.  So the state has   *)
(* two stacks: the VM's frames, and the host's execute() activations,      *)
(* each but the last one inside the for loop of a drain.                   *)
(*                                                                         *)
(* The program is chosen as it runs, as in TreeEval.  What the compiler    *)
(* decides once and for all is fixed when the code is entered: whether a   *)
(* function contains a defer (current_fn_has_defer) and whether a block    *)
(* does (body_has_defer), which is what makes it emit the scope opcodes.   *)
(***************************************************************************)
EXTENDS Naturals, Sequences, FiniteSets

CONSTANTS
  Forms,      \* the block constructs the program uses
  Features,   \* further statements it uses: see FeatureNames
  MaxFrames,  \* bound: frames on the VM's stack
  MaxCalls,   \* bound: function activations, tail calls included
  MaxDefers,  \* bound: defer statements executed
  MaxNest,    \* bound: blocks open at one time, in all activations
  MaxMarks    \* bound: scope sentinels on one defer stack

\* "branch" is a ternary branch, a braced guard or a match arm: the compiler
\* treats them alike.
Blocks == {"loop", "branch", "braceless"}

\* "escape" is brk and cnt, "thunkerror" a runtime error in deferred code.
FeatureNames == {"propagate", "tailcall", "escape", "thunkerror"}

ASSUME VmAssumption ==
  /\ Forms \subseteq Blocks
  /\ Features \subseteq FeatureNames
  /\ {MaxFrames, MaxCalls} \subseteq Nat \ {0}
  /\ {MaxDefers, MaxNest, MaxMarks} \subseteq Nat

VARIABLES
  frames,   \* VM.frames, innermost last
  pc,       \* the local ci/ip of the running execute(): a point of the top frame's code
  execs,    \* the execute() activations on the host stack, innermost last
  stop,     \* VM.execute_stop_depth
  calls,    \* activations so far
  fates,    \* history: what became of each executed defer statement
  status    \* "running", "done", or "failed" with a runtime error

vars == <<frames, pc, execs, stop, calls, fates, status>>

-----------------------------------------------------------------------------
\* All that errdefer and unwrapping look at.
Values == {"plain", "Err"}

(***************************************************************************)
(* A point in a chunk: the blocks around it and the instruction there.     *)
(* "run" is the next statement, "loop" the test of the innermost loop,     *)
(* "guardret" the emit_ret of a braceless guard with value v, "ret" the    *)
(* OP_RET of emit_ret, "bare" the OP_RET that `!` emits.                   *)
(***************************************************************************)
At(blocks, op, v) == [blocks |-> blocks, op |-> op, v |-> v]

Start == At(<<>>, "run", "plain")

\* A frame of function activation fn, or of the thunk (fn = 0) of defer number
\* `defer`, which a tail call in the deferred expression hands over to a function.
\* result is CallFrame.result_reg: register 0 for a thunk, else the register
\* that waits for the call.  r0 and strayed are history: a thunk's result was
\* stored in the frame's register 0; a brk or cnt left an inner block's scope
\* open, or an ignored error left the frame in the middle of its code.
Frame(fn, defer, hasDefer) ==
  [fn |-> fn, defer |-> defer, hasDefer |-> hasDefer, defers |-> <<>>,
   ip |-> Start, result |-> IF fn = 0 THEN "r0" ELSE "temp",
   r0 |-> "own", strayed |-> FALSE]

\* An execute() activation; todo and isError belong to its current drain,
\* saved is the saved_stop of the thunk it is running.
Exec == [todo |-> <<>>, isError |-> FALSE, saved |-> 0]

Last(s) == s[Len(s)]

Front(s) == SubSeq(s, 1, Len(s) - 1)

Top == Last(frames)

SetTop(f) == [frames EXCEPT ![Len(frames)] = f]

SetExec(e) == [execs EXCEPT ![Len(execs)] = e]

\* Mutant: the drains forget to reverse the list.
Unreversed(s) == s

Reversed(s) == [i \in 1..Len(s) |-> s[Len(s) + 1 - i]]

Sentinel == [kind |-> "Sentinel", id |-> 0, owner |-> 0, nest |-> 0]

\* The defer stack with another sentinel if the block has one.
Marked(f, scoped) == IF scoped THEN [f EXCEPT !.defers = Append(@, Sentinel)] ELSE f

MarksOf(f) == {k \in DOMAIN f.defers : f.defers[k] = Sentinel}

CanMark(scoped) == scoped => Cardinality(MarksOf(Top)) < MaxMarks

Innermost(k, S) == k \in S /\ \A j \in S : j <= k

\* The blocks around the point where frame i goes on.
Around(i) == IF i = Len(frames) THEN pc.blocks ELSE frames[i].ip.blocks

OpenBlocks == {p \in (DOMAIN frames) \X (1..MaxNest) : p[2] <= Len(Around(p[1]))}

\* The running execute() has no drain in progress and dispatches at pc.
Dispatching == status = "running" /\ Last(execs).todo = <<>>

InBody == Dispatching /\ pc.op = "run"

InFn == InBody /\ Top.fn # 0

\* The compiler emits the scope opcodes for every block around a defer.
DefersAllowed == Top.hasDefer /\ \A i \in DOMAIN pc.blocks : pc.blocks[i].scoped

Init ==
  /\ calls = 1
  /\ \E hasDefer \in BOOLEAN : frames = <<Frame(1, 0, hasDefer)>>
  /\ pc = Start
  /\ execs = <<Exec>>
  /\ stop = 0
  /\ fates = <<>>
  /\ status = "running"

-----------------------------------------------------------------------------
\* A block statement enters its body.
OpenBlock ==
  /\ InFn
  /\ Cardinality(OpenBlocks) < MaxNest
  /\ \E form \in Forms, scoped \in BOOLEAN :
       /\ scoped => DefersAllowed
       /\ CanMark(scoped)
       /\ pc' = [pc EXCEPT !.blocks = Append(@, [form |-> form, scoped |-> scoped])]
       /\ frames' = SetTop(Marked(Top, scoped))
  /\ UNCHANGED <<execs, stop, calls, fates, status>>

\* The entry of the next defer statement; owner and nest are history.
Entry(kind) ==
  [kind |-> kind, id |-> Len(fates) + 1, owner |-> Top.fn, nest |-> Len(pc.blocks)]

\* OP_DEFER_PUSH.
Defer ==
  /\ InFn
  /\ DefersAllowed
  /\ Len(fates) < MaxDefers
  /\ \E kind \in {"Always", "OnError"} :
       frames' = SetTop([Top EXCEPT !.defers = Append(@, Entry(kind))])
  /\ fates' = Append(fates, "pending")
  /\ UNCHANGED <<pc, execs, stop, calls, status>>

\* Mutant: the entries are copied, not taken.
CopyFrom(f, k, v, next) ==
  /\ frames' = SetTop(f)
  /\ execs' = SetExec([Last(execs) EXCEPT
                 !.todo = Reversed(SubSeq(f.defers, k, Len(f.defers))),
                 !.isError = (k <= Len(f.defers) /\ v = "Err")])
  /\ pc' = next

\* A drain of the running execute() takes the entries of the top frame f from
\* position k on, and goes on at point next when they are done.
TakeFrom(f, k, v, next) ==
  /\ frames' = SetTop([f EXCEPT !.defers = SubSeq(@, 1, k - 1)])
  /\ execs' = SetExec([Last(execs) EXCEPT
                 !.todo = Reversed(SubSeq(f.defers, k, Len(f.defers))),
                 !.isError = (k <= Len(f.defers) /\ v = "Err")])
  /\ pc' = next

Goto(f, next) == frames' = SetTop(f) /\ pc' = next /\ UNCHANGED execs

\* Mutant: the sentinel stays on the stack.
ScopePopKeeping(f, scoped, v, next) ==
  IF scoped /\ MarksOf(f) # {}
  THEN \E k \in MarksOf(f) : Innermost(k, MarksOf(f)) /\ TakeFrom(f, k + 1, v, next)
  ELSE Goto(f, next)

\* OP_DEFER_SCOPE_POP, emitted for a block with a defer in it: everything from
\* the innermost sentinel on.
ScopePop(f, scoped, v, next) ==
  IF scoped /\ MarksOf(f) # {}
  THEN \E k \in MarksOf(f) : Innermost(k, MarksOf(f)) /\ TakeFrom(f, k, v, next)
  ELSE Goto(f, next)

\* emit_ret: OP_DEFER_DRAIN if the function has a defer, then OP_RET.
EmitRet(v) ==
  LET next == At(<<>>, "ret", "plain")
  IN  IF Top.hasDefer THEN TakeFrom(Top, 1, v, next) ELSE Goto(Top, next)

\* The end of a block's body.  A braceless guard then returns from the function.
EndBlock ==
  /\ InFn
  /\ pc.blocks # <<>>
  /\ \E v \in Values :
       LET b == Last(pc.blocks)
       IN  ScopePop(Top, b.scoped, v,
             CASE b.form = "loop"      -> At(pc.blocks, "loop", "plain")
               [] b.form = "branch"    -> At(Front(pc.blocks), "run", "plain")
               [] b.form = "braceless" -> At(Front(pc.blocks), "guardret", v))
  /\ UNCHANGED <<stop, calls, fates, status>>

\* The emit_ret after the body of a braceless guard.
GuardRet ==
  /\ Dispatching
  /\ pc.op = "guardret"
  /\ EmitRet(pc.v)
  /\ UNCHANGED <<stop, calls, fates, status>>

\* The loop test: another iteration, which opens its scope again, or the exit.
LoopTest ==
  /\ Dispatching
  /\ pc.op = "loop"
  /\ \/ /\ CanMark(Last(pc.blocks).scoped)
        /\ pc' = At(pc.blocks, "run", "plain")
        /\ frames' = SetTop(Marked(Top, Last(pc.blocks).scoped))
     \/ /\ pc' = At(Front(pc.blocks), "run", "plain")
        /\ UNCHANGED frames
  /\ UNCHANGED <<execs, stop, calls, fates, status>>

\* `ret e`, and the value of the last statement of a function or a thunk.
Ret ==
  /\ InBody
  /\ \E v \in Values : EmitRet(v)
  /\ UNCHANGED <<stop, calls, fates, status>>

\* The loops around the statement.
LoopPositions == {i \in DOMAIN pc.blocks : pc.blocks[i].form = "loop"}

\* brk leaves the loop, cnt goes to the scope pop at the end of its body.
\* Either way one OP_DEFER_SCOPE_POP runs, whatever blocks are in between.
Escape ==
  /\ InFn
  /\ "escape" \in Features
  /\ \E i \in LoopPositions, v \in Values, op \in {"run", "loop"} :
       /\ Innermost(i, LoopPositions)
       /\ ScopePop([Top EXCEPT !.strayed = @ \/ \E j \in DOMAIN pc.blocks :
                                                 j > i /\ pc.blocks[j].scoped],
            pc.blocks[i].scoped, v,
            At(SubSeq(pc.blocks, 1, IF op = "loop" THEN i ELSE i - 1), op, "plain"))
  /\ UNCHANGED <<stop, calls, fates, status>>

-----------------------------------------------------------------------------
CanCall == Len(frames) < MaxFrames /\ calls < MaxCalls

\* A frame for the callee on top of the caller's.
Enter(hasDefer) ==
  /\ InBody
  /\ CanCall
  /\ calls' = calls + 1
  /\ frames' = Append(SetTop([Top EXCEPT !.ip = pc]), Frame(calls + 1, 0, hasDefer))
  /\ pc' = Start
  /\ UNCHANGED <<execs, stop, fates, status>>

\* OP_CALL.  A callee with a defer in its body (is_defer_fn) gets no frame: it
\* runs in the tree interpreter, as one instruction of the caller, which it
\* leaves to its next statement or to RuntimeError.
Call == Enter(FALSE)

\* OP_CALL_DYN and OP_CALL_OWN1, for `x = f x e`, do not look at is_defer_fn.
CallHere == \E hasDefer \in BOOLEAN : Enter(hasDefer)

\* OP_TAILCALL, for a call at the end of a function or of a deferred
\* expression: the frame is reused, its defer stack and result register kept.
TailCall ==
  /\ InBody
  /\ "tailcall" \in Features
  /\ pc.blocks = <<>>
  /\ calls < MaxCalls
  /\ calls' = calls + 1
  /\ \E hasDefer \in BOOLEAN :
       frames' = SetTop([Top EXCEPT !.fn = calls + 1, !.hasDefer = hasDefer, !.ip = Start])
  /\ pc' = Start
  /\ UNCHANGED <<execs, stop, fates, status>>

\* `!` on the Err or nil of a call that has returned or of a builtin:
\* emit_result_unwrap and emit_optional_unwrap return by an OP_RET of their own,
\* without a drain.
Propagate ==
  /\ InBody
  /\ "propagate" \in Features
  /\ pc' = At(pc.blocks, "bare", "plain")
  /\ UNCHANGED <<frames, execs, stop, calls, fates, status>>

-----------------------------------------------------------------------------
\* The innermost execute() ends: the drain it was called from restores
\* execute_stop_depth and dispatches from the top of fs from now on.
EndExec(fs) ==
  /\ execs' = [Front(execs) EXCEPT ![Len(execs) - 1].saved = 0]
  /\ stop' = execs[Len(execs) - 1].saved
  /\ pc' = Last(fs).ip

(***************************************************************************)
(* vm_err!: execute() returns at once and no frame is popped.  The drain   *)
(* that ran a thunk ignores the error, but finds the thunk's frames still  *)
(* on top and goes on in them.                                             *)
(***************************************************************************)
RuntimeError ==
  /\ InBody
  /\ IF Len(execs) = 1
     THEN /\ status' = "failed"
          /\ UNCHANGED <<frames, pc, execs, stop, fates>>
     ELSE /\ "thunkerror" \in Features
          /\ LET fs == [i \in DOMAIN frames |->
                           [frames[i] EXCEPT !.strayed = @ \/ i > stop]]
             IN  frames' = fs /\ EndExec(fs)
          /\ fates' = [id \in DOMAIN fates |->
               IF frames[stop + 1].defer = id THEN "failed" ELSE fates[id]]
          /\ UNCHANGED status
  /\ UNCHANGED calls

\* Mutant: execute() returns only when no frame is left.
AtStopZero(n) == n = 0

\* OP_RET returns from execute() when n frames are left.
AtStop(n) == n = stop

\* OP_RET: pop the frame; return from execute() at the depth it must stop at,
\* or store the result in the caller's register.
Return ==
  /\ Dispatching
  /\ pc.op \in {"ret", "bare"}
  /\ LET fs == Front(frames)
         n == Len(fs)
     IN  IF AtStop(n)
         THEN /\ frames' = fs
              /\ IF Len(execs) = 1
                 THEN status' = "done" /\ UNCHANGED <<pc, execs, stop>>
                 ELSE EndExec(fs) /\ UNCHANGED status
         ELSE /\ frames' = IF Top.result = "r0" THEN [fs EXCEPT ![n].r0 = "foreign"] ELSE fs
              /\ pc' = Last(fs).ip
              /\ UNCHANGED <<execs, stop, status>>
  /\ fates' = [id \in DOMAIN fates |->
       IF \E k \in DOMAIN Top.defers : Top.defers[k].id = id THEN "lost" ELSE fates[id]]
  /\ UNCHANGED calls

-----------------------------------------------------------------------------
\* Mutant: counted after the push of the thunk's frame.
StopDepthAfterPush == Len(frames) + 1

\* The depth at which the thunk's execute() must stop: the draining frame's.
StopDepth == Len(frames)

(***************************************************************************)
(* One round of a drain's for loop: a sentinel or an errdefer that does    *)
(* not apply is skipped, a thunk gets a frame and a nested execute().      *)
(***************************************************************************)
Drain ==
  /\ status = "running"
  /\ Last(execs).todo # <<>>
  /\ LET e == Last(execs)
         d == Head(e.todo)
         rest == [e EXCEPT !.todo = Tail(@)]
     IN  IF d.kind = "Always" \/ (d.kind = "OnError" /\ e.isError)
         THEN /\ Len(frames) < MaxFrames
              /\ frames' = Append(SetTop([Top EXCEPT !.ip = pc]), Frame(0, d.id, FALSE))
              /\ execs' = Append(SetExec([rest EXCEPT !.saved = stop]), Exec)
              /\ stop' = StopDepth
              /\ pc' = Start
              /\ fates' = [fates EXCEPT ![d.id] = "ran"]
         ELSE /\ execs' = SetExec(rest)
              /\ fates' = IF d = Sentinel THEN fates ELSE [fates EXCEPT ![d.id] = "skipped"]
              /\ UNCHANGED <<frames, pc, stop>>
  /\ UNCHANGED <<calls, status>>

Next ==
  \/ OpenBlock \/ Defer \/ EndBlock \/ GuardRet \/ LoopTest \/ Ret \/ Escape
  \/ Call \/ CallHere \/ TailCall \/ Propagate
  \/ RuntimeError \/ Return \/ Drain

Spec == Init /\ [][Next]_vars

-----------------------------------------------------------------------------
Points == [blocks : Seq([form : Blocks, scoped : BOOLEAN]),
           op : {"run", "loop", "guardret", "ret", "bare"}, v : Values]

Entries == [kind : {"Always", "OnError"}, id : Nat \ {0}, owner : Nat \ {0}, nest : Nat]
             \cup {Sentinel}

Frames == [fn : Nat, defer : Nat, hasDefer : BOOLEAN, defers : Seq(Entries), ip : Points,
           result : {"r0", "temp"}, r0 : {"own", "foreign"}, strayed : BOOLEAN]

Fates == {"pending", "ran", "skipped", "failed", "lost"}

TypeOK ==
  /\ frames \in Seq(Frames)
  /\ pc \in Points
  /\ execs \in Seq([todo : Seq(Entries), isError : BOOLEAN, saved : Nat])
  /\ stop \in Nat
  /\ calls \in 1..MaxCalls
  /\ fates \in Seq(Fates)
  /\ status \in {"running", "done", "failed"}

\* Where the entry of a defer statement waits.
Places(id) ==
  (UNION {{<<i, 0, k>> : k \in {k \in DOMAIN frames[i].defers : frames[i].defers[k].id = id}} :
          i \in DOMAIN frames})
  \cup (UNION {{<<j, 1, k>> : k \in {k \in DOMAIN execs[j].todo : execs[j].todo[k].id = id}} :
               j \in DOMAIN execs})

(***************************************************************************)
(* An entry is in one place until it is run, skipped or lost with its      *)
(* frame, and nowhere afterwards: with drains nested in drains, tail calls *)
(* and failing thunks, none is drained a second time.                      *)
(***************************************************************************)
WaitsOnce ==
  \A id \in DOMAIN fates : Cardinality(Places(id)) = IF fates[id] = "pending" THEN 1 ELSE 0

(***************************************************************************)
(* Defers of one activation run last in first out, over block and function *)
(* drains together: what a drain has taken is younger than what it left.   *)
(***************************************************************************)
LastInFirstOut ==
  \A j \in DOMAIN execs : \A b \in DOMAIN execs[j].todo :
    /\ \A a \in DOMAIN execs[j].todo :
         a < b /\ execs[j].todo[b] # Sentinel /\ execs[j].todo[a] # Sentinel
           => execs[j].todo[b].id < execs[j].todo[a].id
    /\ \A i \in DOMAIN frames : \A a \in DOMAIN frames[i].defers :
         frames[i].defers[a].owner = execs[j].todo[b].owner /\ execs[j].todo[b] # Sentinel
           => frames[i].defers[a].id < execs[j].todo[b].id

(***************************************************************************)
(* execute_stop_depth isolates a thunk: the nested execute() that runs it  *)
(* changes no frame at or below that depth, whatever the thunk calls and   *)
(* however it ends.                                                        *)
(***************************************************************************)
Isolation == [][\A i \in 1..stop : i \in DOMAIN frames' /\ frames'[i] = frames[i]]_vars

(***************************************************************************)
(* The result of a thunk is discarded: it reaches register 0 of the frame  *)
(* that registered it only when the thunk failed first, and was then run   *)
(* again outside its execute().                                            *)
(***************************************************************************)
RegistersKept ==
  \A i \in DOMAIN frames :
    frames[i].r0 = "foreign" => \E id \in DOMAIN fates : fates[id] = "failed"

(***************************************************************************)
(* A defer belongs to its block: once control has left the block the entry *)
(* does not wait any more, unless a brk or cnt of the activation crossed   *)
(* the scope of an inner block, whose mark was then popped instead, or the *)
(* frame is one that an ignored error left behind.                         *)
(***************************************************************************)
DrainedWithBlock ==
  \A i \in DOMAIN frames : \A k \in DOMAIN frames[i].defers :
    ~frames[i].strayed => frames[i].defers[k].nest <= Len(Around(i))

(***************************************************************************)
(* README.md promises "guaranteed cleanup regardless of exit path": in a   *)
(* program that ends without a runtime error, every defer has run or was   *)
(* an errdefer that did not apply.  The bare OP_RET of `!` and a tail call *)
(* to a function without defers break it.                                  *)
(***************************************************************************)
CleanupGuaranteed ==
  status = "done" => \A id \in DOMAIN fates : fates[id] \in {"ran", "skipped"}
=============================================================================
