--------------------------- MODULE VmFramesProofs ---------------------------
(***************************************************************************)
(* The properties of the VM's frames, for programs of any shape, depth and *)
(* number of defers, failing thunks included:                              *)
(*   VmTypeOK            the state is well typed;                          *)
(*   VmIsolation         a nested execute() leaves the frames at or below  *)
(*                       execute_stop_depth alone;                         *)
(*   VmWaitsOnce         a pending entry waits in one place;               *)
(*   VmLastInFirstOut    drains run last in first out;                     *)
(*   VmRegistersKept     a thunk's result reaches a register only after a  *)
(*                       thunk failed;                                     *)
(*   VmDrainedWithBlock  an entry does not wait for a block that control   *)
(*                       has left.                                         *)
(* Each rests on an inductive invariant of its own (TInv, OnceInv,         *)
(* LifoInv, RegsInv, ShapesInv), with one lemma per action.                *)
(***************************************************************************)
EXTENDS VmFrames, SequenceTheorems, FiniteSetTheorems, TLAPS

ExecType == [todo : Seq(Entries), isError : BOOLEAN, saved : Nat]

\* The stop depth under which execute() number j runs.
StopOf(j) == IF j = Len(execs) THEN stop ELSE execs[j].saved

(***************************************************************************)
(* Each execute() was started with more frames than it must stop at, and   *)
(* above the depth of the one that started it.                             *)
(***************************************************************************)
StopsNest ==
  /\ execs # <<>>
  /\ StopOf(1) = 0
  /\ \A j \in 1..Len(execs) - 1 : StopOf(j) < StopOf(j + 1)
  /\ status # "done" => stop < Len(frames)

\* A loop test is inside its loop.
LoopHasBlock(p) == p.op = "loop" => p.blocks # <<>>

LoopsOpen == LoopHasBlock(pc) /\ \A i \in 1..Len(frames) : LoopHasBlock(frames[i].ip)

TInv == TypeOK /\ StopsNest /\ LoopsOpen

-----------------------------------------------------------------------------
\* A list turned round holds what the list holds.
LEMMA ReversedType ==
  ASSUME NEW S, NEW s \in Seq(S)
  PROVE  Reversed(s) \in Seq(S)
<1>1. Len(s) \in Nat /\ \A i \in 1..Len(s) : s[Len(s) + 1 - i] \in S
  OBVIOUS
<1>2. QED
  BY <1>1 DEF Reversed

\* The first n of a list, and what follows the first m.
LEMMA PartsAre ==
  ASSUME NEW S, NEW s \in Seq(S), NEW n \in 0..Len(s)
  PROVE  /\ SubSeq(s, 1, n) \in Seq(S)
         /\ Len(SubSeq(s, 1, n)) = n
         /\ \A k \in 1..n : SubSeq(s, 1, n)[k] = s[k]
         /\ SubSeq(s, n + 1, Len(s)) \in Seq(S)
<1>1. Len(s) \in Nat /\ n \in Nat /\ \A i \in 1..Len(s) : s[i] \in S
  OBVIOUS
<1>2. (\A i \in 1..n : s[i] \in S) /\ (\A i \in (n + 1)..Len(s) : s[i] \in S)
  BY <1>1
<1>3. /\ SubSeq(s, 1, n) \in Seq(S)
      /\ Len(SubSeq(s, 1, n)) = n
      /\ \A k \in 1..n : SubSeq(s, 1, n)[k] = s[k]
  BY <1>1, <1>2, SubSeqProperties
<1>4. SubSeq(s, n + 1, Len(s)) \in Seq(S)
  BY <1>1, <1>2, SubSeqProperties
<1>5. QED
  BY <1>3, <1>4

\* The stack without its top.
LEMMA FrontIs ==
  ASSUME NEW S, NEW s \in Seq(S), s # <<>>
  PROVE  /\ Front(s) \in Seq(S)
         /\ Len(s) \in Nat \ {0}
         /\ Len(Front(s)) = Len(s) - 1
         /\ \A i \in 1..Len(s) - 1 : Front(s)[i] = s[i]
         /\ Last(s) = s[Len(s)]
         /\ Last(s) \in S
<1> DEFINE n == Len(s) - 1
<1>1. Len(s) \in Nat \ {0} /\ s[Len(s)] \in S /\ n \in 0..Len(s)
  OBVIOUS
<1>2. /\ SubSeq(s, 1, n) \in Seq(S)
      /\ Len(SubSeq(s, 1, n)) = n
      /\ \A k \in 1..n : SubSeq(s, 1, n)[k] = s[k]
  <2> HIDE DEF n
  <2> QED
    BY <1>1, PartsAre
<1>3. QED
  BY <1>1, <1>2 DEF Front, Last

\* The top of a stack is replaced.
LEMMA ReplaceIs ==
  ASSUME NEW S, NEW s \in Seq(S), s # <<>>, NEW x \in S
  PROVE  LET t == [s EXCEPT ![Len(s)] = x]
         IN  /\ t \in Seq(S)
             /\ Len(t) = Len(s)
             /\ t[Len(s)] = x
             /\ \A i \in 1..Len(s) - 1 : t[i] = s[i]
<1> DEFINE n == Len(s)
           t == [s EXCEPT ![n] = x]
<1>1. n \in Nat /\ n > 0 /\ DOMAIN s = 1..n /\ \A i \in 1..n : s[i] \in S
  OBVIOUS
<1>2. t = [i \in 1..n |-> IF i = n THEN x ELSE s[i]]
  BY <1>1
<1> HIDE DEF t, n
<1>3. t \in Seq(S) /\ Len(t) = n /\ t[n] = x /\ \A i \in 1..n - 1 : t[i] = s[i]
  BY <1>1, <1>2
<1>4. QED
  BY <1>3 DEF t, n

\* A stack with one more on top.
LEMMA PushIs ==
  ASSUME NEW S, NEW s \in Seq(S), NEW x \in S
  PROVE  /\ Append(s, x) \in Seq(S)
         /\ Len(Append(s, x)) = Len(s) + 1
         /\ Append(s, x)[Len(s) + 1] = x
         /\ \A i \in 1..Len(s) : Append(s, x)[i] = s[i]
OBVIOUS

\* The top of a stack is popped and the next element replaced.
LEMMA PopIs ==
  ASSUME NEW S, NEW s \in Seq(S), Len(s) > 1, NEW x \in S
  PROVE  LET t == [Front(s) EXCEPT ![Len(s) - 1] = x]
         IN  /\ t \in Seq(S)
             /\ Len(t) = Len(s) - 1
             /\ t[Len(s) - 1] = x
             /\ \A i \in 1..Len(s) - 2 : t[i] = s[i]
<1> DEFINE f == Front(s)
           t == [f EXCEPT ![Len(f)] = x]
<1>1. s # <<>> /\ Len(s) \in Nat
  OBVIOUS
<1>2. f \in Seq(S) /\ Len(f) = Len(s) - 1 /\ \A i \in 1..Len(s) - 1 : f[i] = s[i]
  BY <1>1, FrontIs
<1> HIDE DEF f
<1>3. f # <<>>
  BY <1>2
<1>4. /\ t \in Seq(S) /\ Len(t) = Len(f) /\ t[Len(f)] = x
      /\ \A i \in 1..Len(f) - 1 : t[i] = f[i]
  BY <1>2, <1>3, ReplaceIs
<1> HIDE DEF t
<1>5. /\ t \in Seq(S) /\ Len(t) = Len(s) - 1 /\ t[Len(s) - 1] = x
      /\ \A i \in 1..Len(s) - 2 : t[i] = s[i]
  BY <1>1, <1>2, <1>4
<1>6. QED
  BY <1>2, <1>5 DEF t, f

\* While the program runs there is a frame and an execute(), of the right types.
LEMMA Running ==
  ASSUME TInv, status = "running"
  PROVE  /\ frames # <<>> /\ Top \in Frames /\ Top = frames[Len(frames)]
         /\ execs # <<>> /\ Last(execs) \in ExecType /\ Last(execs) = execs[Len(execs)]
         /\ Len(frames) \in Nat \ {0} /\ Len(execs) \in Nat \ {0}
         /\ LoopHasBlock(Top.ip)
         /\ SetTop(Top) = frames /\ SetExec(Last(execs)) = execs
<1>1. frames \in Seq(Frames) /\ execs \in Seq(ExecType) /\ stop \in Nat
  BY DEF TInv, TypeOK, ExecType
<1>2. execs # <<>> /\ stop < Len(frames)
  BY DEF TInv, StopsNest
<1>3. frames # <<>>
  BY <1>1, <1>2
<1>4. /\ Len(frames) \in Nat \ {0} /\ Top = frames[Len(frames)] /\ Top \in Frames
      /\ Len(execs) \in Nat \ {0} /\ Last(execs) = execs[Len(execs)] /\ Last(execs) \in ExecType
  BY <1>1, <1>2, <1>3, FrontIs DEF Top
<1>5. SetTop(Top) = frames /\ SetExec(Last(execs)) = execs
  BY <1>1, <1>4 DEF SetTop, SetExec
<1>6. LoopHasBlock(Top.ip)
  BY <1>4 DEF TInv, LoopsOpen
<1>7. QED
  BY <1>2, <1>3, <1>4, <1>5, <1>6

(***************************************************************************)
(* The steps that stay in the top frame and the running execute().         *)
(***************************************************************************)
InPlace ==
  \E f \in Frames, e \in ExecType, p \in Points :
    /\ LoopHasBlock(f.ip) /\ LoopHasBlock(p)
    /\ frames' = SetTop(f) /\ execs' = SetExec(e) /\ pc' = p

\* They keep the stacks in shape.
LEMMA InPlaceKeeps ==
  ASSUME TInv, status = "running", InPlace, stop' = stop, status' = status
  PROVE  /\ frames' \in Seq(Frames) /\ pc' \in Points /\ execs' \in Seq(ExecType)
         /\ Len(frames') = Len(frames)
         /\ \A i \in 1..Len(frames) - 1 : frames'[i] = frames[i]
         /\ StopsNest' /\ LoopsOpen'
<1>1. PICK f \in Frames, e \in ExecType, p \in Points :
        /\ LoopHasBlock(f.ip) /\ LoopHasBlock(p)
        /\ frames' = SetTop(f) /\ execs' = SetExec(e) /\ pc' = p
  BY DEF InPlace
<1>2. frames \in Seq(Frames) /\ execs \in Seq(ExecType) /\ frames # <<>> /\ execs # <<>>
  BY Running DEF TInv, TypeOK, ExecType
<1>3. /\ frames' \in Seq(Frames) /\ Len(frames') = Len(frames) /\ frames'[Len(frames)] = f
      /\ \A i \in 1..Len(frames) - 1 : frames'[i] = frames[i]
  BY <1>1, <1>2, ReplaceIs DEF SetTop
<1>4. /\ execs' \in Seq(ExecType) /\ Len(execs') = Len(execs)
      /\ \A j \in 1..Len(execs) - 1 : execs'[j] = execs[j]
  BY <1>1, <1>2, ReplaceIs DEF SetExec
<1>5. \A j \in 1..Len(execs) : StopOf(j)' = StopOf(j)
  BY <1>2, <1>4 DEF StopOf
<1>6. StopsNest'
  <2>1. Len(execs) \in Nat \ {0} /\ execs' # <<>>
    BY <1>2, <1>4
  <2>2. QED
    BY <1>3, <1>4, <1>5, <2>1 DEF TInv, StopsNest
<1>7. LoopsOpen'
  BY <1>1, <1>2, <1>3 DEF TInv, LoopsOpen
<1>8. QED
  BY <1>1, <1>3, <1>4, <1>6, <1>7

\* A drain takes entries off the top frame.
LEMMA TakeFromInPlace ==
  ASSUME TInv, status = "running",
         NEW f \in Frames, LoopHasBlock(f.ip),
         NEW k \in 1..Len(f.defers) + 1, NEW v,
         NEW p \in Points, LoopHasBlock(p),
         TakeFrom(f, k, v, p)
  PROVE  InPlace
<1> DEFINE g == [f EXCEPT !.defers = SubSeq(@, 1, k - 1)]
           e == [Last(execs) EXCEPT !.todo = Reversed(SubSeq(f.defers, k, Len(f.defers))),
                                    !.isError = (k <= Len(f.defers) /\ v = "Err")]
<1>1. f.defers \in Seq(Entries) /\ Len(f.defers) \in Nat /\ k - 1 \in 0..Len(f.defers)
  BY DEF Frames
<1>2. SubSeq(f.defers, 1, k - 1) \in Seq(Entries) /\ SubSeq(f.defers, k, Len(f.defers)) \in Seq(Entries)
  BY <1>1, PartsAre
<1>3. g \in Frames /\ LoopHasBlock(g.ip)
  BY <1>2 DEF Frames, LoopHasBlock
<1>4. e \in ExecType
  BY <1>2, ReversedType, Running DEF ExecType
<1>5. QED
  BY <1>3, <1>4 DEF InPlace, TakeFrom

LEMMA GotoInPlace ==
  ASSUME TInv, status = "running",
         NEW f \in Frames, LoopHasBlock(f.ip), NEW p \in Points, LoopHasBlock(p),
         Goto(f, p)
  PROVE  InPlace
BY Running DEF InPlace, Goto

LEMMA ScopePopInPlace ==
  ASSUME TInv, status = "running",
         NEW f \in Frames, LoopHasBlock(f.ip), NEW scoped, NEW v,
         NEW p \in Points, LoopHasBlock(p),
         ScopePop(f, scoped, v, p)
  PROVE  InPlace
<1>1. ASSUME NEW k \in MarksOf(f), TakeFrom(f, k, v, p)
      PROVE  InPlace
  <2>1. k \in 1..Len(f.defers) + 1
    BY <1>1 DEF MarksOf, Frames
  <2>2. QED
    BY <1>1, <2>1, TakeFromInPlace
<1>2. QED
  BY <1>1, GotoInPlace DEF ScopePop

LEMMA EmitRetInPlace ==
  ASSUME TInv, status = "running", NEW v, EmitRet(v)
  PROVE  InPlace
<1>1. At(<<>>, "ret", "plain") \in Points /\ LoopHasBlock(At(<<>>, "ret", "plain"))
  BY DEF At, Points, Values, LoopHasBlock
<1>2. Top \in Frames /\ LoopHasBlock(Top.ip) /\ 1 \in 1..Len(Top.defers) + 1
  BY Running DEF Frames
<1>3. QED
  BY <1>1, <1>2, TakeFromInPlace, GotoInPlace DEF EmitRet

-----------------------------------------------------------------------------
\* What every step is shown to do.
Below == \A i \in 1..stop : i \in DOMAIN frames' /\ frames'[i] = frames[i]

Counters == calls' \in 1..MaxCalls /\ fates' \in Seq(Fates)

LEMMA InPlaceStep ==
  ASSUME TInv, status = "running", InPlace, Counters, stop' = stop, status' = status
  PROVE  TInv' /\ Below
<1>1. /\ frames' \in Seq(Frames) /\ pc' \in Points /\ execs' \in Seq(ExecType)
      /\ Len(frames') = Len(frames)
      /\ \A i \in 1..Len(frames) - 1 : frames'[i] = frames[i]
      /\ StopsNest' /\ LoopsOpen'
  BY InPlaceKeeps
<1>2. stop \in Nat /\ stop < Len(frames) /\ Len(frames) \in Nat
  BY Running DEF TInv, TypeOK, StopsNest
<1>3. Below
  BY <1>1, <1>2 DEF Below
<1>4. QED
  BY <1>1, <1>3 DEF TInv, TypeOK, Counters, ExecType

\* A point is a point of the same kind with other blocks.
LEMMA Around0 ==
  ASSUME TInv
  PROVE  /\ pc \in Points /\ pc.blocks \in Seq([form : Blocks, scoped : BOOLEAN])
         /\ LoopHasBlock(pc)
         /\ Start \in Points /\ LoopHasBlock(Start)
         /\ fates \in Seq(Fates) /\ calls \in 1..MaxCalls
         /\ MaxCalls \in Nat
BY VmAssumption DEF TInv, TypeOK, LoopsOpen, Points, Start, At, LoopHasBlock, Values

LEMMA FatesExcept ==
  ASSUME NEW x \in Seq(Fates), NEW i, NEW y \in Fates
  PROVE  [x EXCEPT ![i] = y] \in Seq(Fates)
<1> DEFINE n == Len(x)
           t == [x EXCEPT ![i] = y]
<1>1. n \in Nat /\ DOMAIN x = 1..n /\ \A j \in 1..n : x[j] \in Fates
  OBVIOUS
<1>2. t = [j \in 1..n |-> IF j = i THEN y ELSE x[j]]
  BY <1>1
<1> HIDE DEF t, n
<1>3. t \in Seq(Fates)
  BY <1>1, <1>2
<1>4. QED
  BY <1>3 DEF t

\* Another mark, or none, and the frame is a frame.
LEMMA MarkedIs ==
  ASSUME NEW f \in Frames, NEW scoped
  PROVE  Marked(f, scoped) \in Frames /\ Marked(f, scoped).ip = f.ip
<1>1. f.defers \in Seq(Entries) /\ Sentinel \in Entries
  BY DEF Frames, Entries
<1>2. Append(f.defers, Sentinel) \in Seq(Entries)
  BY <1>1, PushIs
<1>3. QED
  BY <1>2 DEF Marked, Frames

LEMMA OpenBlockKeeps ==
  ASSUME TInv, OpenBlock
  PROVE  TInv' /\ Below
<1>1. status = "running"
  BY DEF OpenBlock, InFn, InBody, Dispatching
<1>2. PICK form \in Forms, scoped \in BOOLEAN :
        /\ pc' = [pc EXCEPT !.blocks = Append(@, [form |-> form, scoped |-> scoped])]
        /\ frames' = SetTop(Marked(Top, scoped))
  BY DEF OpenBlock
<1>3. form \in Blocks
  BY VmAssumption
<1>4. pc' \in Points /\ LoopHasBlock(pc')
  <2>1. Append(pc.blocks, [form |-> form, scoped |-> scoped]) \in Seq([form : Blocks, scoped : BOOLEAN])
    BY <1>3, Around0
  <2>2. QED
    BY <1>2, <2>1, Around0 DEF Points, LoopHasBlock, OpenBlock, InFn, InBody
<1>5. InPlace
  <2>1. Marked(Top, scoped) \in Frames /\ LoopHasBlock(Marked(Top, scoped).ip)
    BY <1>1, Running, MarkedIs
  <2>2. execs' = SetExec(Last(execs)) /\ Last(execs) \in ExecType
    BY <1>1, Running DEF OpenBlock
  <2>3. QED
    BY <1>2, <1>4, <2>1, <2>2 DEF InPlace
<1>6. Counters /\ stop' = stop /\ status' = status
  BY Around0 DEF OpenBlock, Counters
<1>7. QED
  BY <1>1, <1>5, <1>6, InPlaceStep

LEMMA DeferKeeps ==
  ASSUME TInv, Defer
  PROVE  TInv' /\ Below
<1>1. status = "running" /\ Top.fn # 0
  BY DEF Defer, InFn, InBody, Dispatching
<1>2. PICK kind \in {"Always", "OnError"} :
        frames' = SetTop([Top EXCEPT !.defers = Append(@, Entry(kind))])
  BY DEF Defer
<1>3. InPlace
  <2>1. Top \in Frames /\ LoopHasBlock(Top.ip)
    BY <1>1, Running
  <2>2. Entry(kind) \in Entries
    BY <1>1, <2>1, Around0 DEF Entry, Entries, Frames
  <2>3. Append(Top.defers, Entry(kind)) \in Seq(Entries)
    BY <2>1, <2>2 DEF Frames
  <2>4. /\ [Top EXCEPT !.defers = Append(@, Entry(kind))] \in Frames
        /\ LoopHasBlock([Top EXCEPT !.defers = Append(@, Entry(kind))].ip)
    BY <2>1, <2>3 DEF Frames
  <2>5. execs' = SetExec(Last(execs)) /\ Last(execs) \in ExecType
    BY <1>1, Running DEF Defer
  <2>6. pc' \in Points /\ LoopHasBlock(pc')
    BY Around0 DEF Defer
  <2>7. QED
    BY <1>2, <2>4, <2>5, <2>6 DEF InPlace
<1>4. Counters /\ stop' = stop /\ status' = status
  BY Around0 DEF Defer, Counters, Fates
<1>5. QED
  BY <1>1, <1>3, <1>4, InPlaceStep

LEMMA EndBlockKeeps ==
  ASSUME TInv, EndBlock
  PROVE  TInv' /\ Below
<1>1. status = "running" /\ pc.blocks # <<>>
  BY DEF EndBlock, InFn, InBody, Dispatching
<1>2. /\ Front(pc.blocks) \in Seq([form : Blocks, scoped : BOOLEAN])
      /\ Last(pc.blocks).form \in Blocks
  <2> DEFINE B == [form : Blocks, scoped : BOOLEAN]
  <2>1. pc.blocks \in Seq(B)
    BY Around0
  <2> HIDE DEF B
  <2>2. Front(pc.blocks) \in Seq(B) /\ Last(pc.blocks) \in B
    BY <1>1, <2>1, FrontIs
  <2>3. QED
    BY <2>2 DEF B
<1>3. Top \in Frames /\ LoopHasBlock(Top.ip)
  BY <1>1, Running
<1>4. PICK v \in Values :
        LET b == Last(pc.blocks)
        IN  ScopePop(Top, b.scoped, v,
              CASE b.form = "loop"      -> At(pc.blocks, "loop", "plain")
                [] b.form = "branch"    -> At(Front(pc.blocks), "run", "plain")
                [] b.form = "braceless" -> At(Front(pc.blocks), "guardret", v))
  BY DEF EndBlock
<1> DEFINE p == CASE Last(pc.blocks).form = "loop"      -> At(pc.blocks, "loop", "plain")
                  [] Last(pc.blocks).form = "branch"    -> At(Front(pc.blocks), "run", "plain")
                  [] Last(pc.blocks).form = "braceless" -> At(Front(pc.blocks), "guardret", v)
<1>5. p \in Points /\ LoopHasBlock(p)
  BY <1>1, <1>2, Around0 DEF Points, At, LoopHasBlock, Blocks, Values
<1>6. ScopePop(Top, Last(pc.blocks).scoped, v, p)
  BY <1>4
<1> HIDE DEF p
<1>7. InPlace
  BY <1>1, <1>3, <1>5, <1>6, ScopePopInPlace
<1>8. Counters /\ stop' = stop /\ status' = status
  BY Around0 DEF EndBlock, Counters
<1>9. QED
  BY <1>1, <1>7, <1>8, InPlaceStep

LEMMA GuardRetKeeps ==
  ASSUME TInv, GuardRet
  PROVE  TInv' /\ Below
<1>1. status = "running" /\ EmitRet(pc.v) /\ stop' = stop /\ status' = status
  BY DEF GuardRet, Dispatching
<1>2. Counters
  BY Around0 DEF GuardRet, Counters
<1>3. QED
  BY <1>1, <1>2, EmitRetInPlace, InPlaceStep

LEMMA RetKeeps ==
  ASSUME TInv, Ret
  PROVE  TInv' /\ Below
<1>1. status = "running" /\ (\E v \in Values : EmitRet(v)) /\ stop' = stop /\ status' = status
  BY DEF Ret, InBody, Dispatching
<1>2. Counters
  BY Around0 DEF Ret, Counters
<1>3. QED
  BY <1>1, <1>2, EmitRetInPlace, InPlaceStep

LEMMA LoopTestKeeps ==
  ASSUME TInv, LoopTest
  PROVE  TInv' /\ Below
<1>1. status = "running" /\ pc.op = "loop"
  BY DEF LoopTest, Dispatching
<1>2. pc.blocks # <<>>
  BY <1>1, Around0 DEF LoopHasBlock
<1>3. Front(pc.blocks) \in Seq([form : Blocks, scoped : BOOLEAN])
  BY <1>2, Around0, FrontIs
<1>4. /\ At(pc.blocks, "run", "plain") \in Points /\ LoopHasBlock(At(pc.blocks, "run", "plain"))
      /\ At(Front(pc.blocks), "run", "plain") \in Points
      /\ LoopHasBlock(At(Front(pc.blocks), "run", "plain"))
  BY <1>3, Around0 DEF Points, At, LoopHasBlock, Values
<1>5. pc' \in Points /\ LoopHasBlock(pc')
  BY <1>4 DEF LoopTest
<1>6. \E f \in Frames : LoopHasBlock(f.ip) /\ frames' = SetTop(f)
  <2>1. Top \in Frames /\ LoopHasBlock(Top.ip) /\ SetTop(Top) = frames
    BY <1>1, Running
  <2>2. /\ Marked(Top, Last(pc.blocks).scoped) \in Frames
        /\ LoopHasBlock(Marked(Top, Last(pc.blocks).scoped).ip)
    BY <2>1, MarkedIs
  <2>3. frames' = SetTop(Marked(Top, Last(pc.blocks).scoped)) \/ frames' = frames
    BY DEF LoopTest
  <2>4. QED
    BY <2>1, <2>2, <2>3
<1>7. execs' = SetExec(Last(execs)) /\ Last(execs) \in ExecType
  BY <1>1, Running DEF LoopTest
<1>8. InPlace
  BY <1>5, <1>6, <1>7 DEF InPlace
<1>9. Counters /\ stop' = stop /\ status' = status
  BY Around0 DEF LoopTest, Counters
<1>10. QED
  BY <1>1, <1>8, <1>9, InPlaceStep

LEMMA EscapeKeeps ==
  ASSUME TInv, Escape
  PROVE  TInv' /\ Below
<1>1. status = "running"
  BY DEF Escape, InFn, InBody, Dispatching
<1>2. PICK i \in LoopPositions, v \in Values, op \in {"run", "loop"} :
        ScopePop([Top EXCEPT !.strayed = @ \/ \E j \in DOMAIN pc.blocks :
                                                  j > i /\ pc.blocks[j].scoped],
                 pc.blocks[i].scoped, v,
                 At(SubSeq(pc.blocks, 1, IF op = "loop" THEN i ELSE i - 1), op, "plain"))
  BY DEF Escape
<1> DEFINE crosses == \E j \in DOMAIN pc.blocks : j > i /\ pc.blocks[j].scoped
           f == [Top EXCEPT !.strayed = @ \/ crosses]
           k == IF op = "loop" THEN i ELSE i - 1
           p == At(SubSeq(pc.blocks, 1, k), op, "plain")
<1>3. i \in 1..Len(pc.blocks) /\ Len(pc.blocks) \in Nat
  BY Around0 DEF LoopPositions
<1>4. k \in 0..Len(pc.blocks) /\ (op = "loop" => k >= 1)
  BY <1>3
<1>5. /\ SubSeq(pc.blocks, 1, k) \in Seq([form : Blocks, scoped : BOOLEAN])
      /\ Len(SubSeq(pc.blocks, 1, k)) = k
  <2> HIDE DEF k
  <2> DEFINE R == [form : Blocks, scoped : BOOLEAN]
             s == pc.blocks
  <2>1. s \in Seq(R)
    BY Around0
  <2>2. k \in 0..Len(s)
    BY <1>4
  <2> HIDE DEF R, s
  <2>3. SubSeq(s, 1, k) \in Seq(R) /\ Len(SubSeq(s, 1, k)) = k
    BY <2>1, <2>2, PartsAre
  <2>4. QED
    BY <2>3 DEF R, s
<1>6. p \in Points /\ LoopHasBlock(p)
  <2> HIDE DEF k
  <2>1. op = "loop" => SubSeq(pc.blocks, 1, k) # <<>>
    BY <1>4, <1>5
  <2>2. QED
    BY <1>5, <2>1 DEF Points, At, LoopHasBlock, Values
<1>7. f \in Frames /\ LoopHasBlock(f.ip)
  <2>1. Top \in Frames /\ LoopHasBlock(Top.ip) /\ crosses \in BOOLEAN
    BY <1>1, Running
  <2> HIDE DEF crosses
  <2>2. QED
    BY <2>1 DEF Frames
<1>8. ScopePop(f, pc.blocks[i].scoped, v, p)
  BY <1>2
<1> HIDE DEF f, p
<1>9. InPlace
  BY <1>1, <1>6, <1>7, <1>8, ScopePopInPlace
<1>10. Counters /\ stop' = stop /\ status' = status
  BY Around0 DEF Escape, Counters
<1>11. QED
  BY <1>1, <1>9, <1>10, InPlaceStep

-----------------------------------------------------------------------------
\* A new frame is a frame.
LEMMA FrameIs ==
  ASSUME NEW fn \in Nat, NEW defer \in Nat, NEW hasDefer \in BOOLEAN
  PROVE  Frame(fn, defer, hasDefer) \in Frames /\ Frame(fn, defer, hasDefer).ip = Start
BY DEF Frame, Frames, Start, At, Points, Values

(***************************************************************************)
(* The top frame saves its place and another is pushed.                    *)
(***************************************************************************)
LEMMA PushKeeps ==
  ASSUME TInv, status = "running", NEW g \in Frames, g.ip = Start,
         frames' = Append(SetTop([Top EXCEPT !.ip = pc]), g), pc' = Start
  PROVE  /\ frames' \in Seq(Frames) /\ pc' \in Points
         /\ Len(frames') = Len(frames) + 1
         /\ Below /\ LoopsOpen'
<1> DEFINE f == [Top EXCEPT !.ip = pc]
           t == SetTop(f)
<1>1. frames \in Seq(Frames) /\ frames # <<>> /\ stop \in Nat /\ stop < Len(frames)
      /\ Len(frames) \in Nat \ {0}
  BY Running DEF TInv, TypeOK, StopsNest
<1>2. f \in Frames /\ f.ip = pc
  BY Running, Around0 DEF Frames
<1>3. /\ t \in Seq(Frames) /\ Len(t) = Len(frames) /\ t[Len(frames)] = f
      /\ \A i \in 1..Len(frames) - 1 : t[i] = frames[i]
  BY <1>1, <1>2, ReplaceIs DEF SetTop
<1> HIDE DEF t, f
<1>4. frames' = Append(t, g)
  BY DEF t, f
<1>5. /\ frames' \in Seq(Frames) /\ Len(frames') = Len(frames) + 1
      /\ frames'[Len(frames) + 1] = g
      /\ \A i \in 1..Len(frames) : frames'[i] = t[i]
  <2>1. /\ Append(t, g) \in Seq(Frames)
        /\ Len(Append(t, g)) = Len(t) + 1
        /\ Append(t, g)[Len(t) + 1] = g
        /\ \A i \in 1..Len(t) : Append(t, g)[i] = t[i]
    BY <1>3, PushIs
  <2>2. QED
    BY <1>3, <1>4, <2>1
<1>6. Below
  <2>1. DOMAIN frames' = 1..Len(frames) + 1
    BY <1>5
  <2>2. \A i \in 1..Len(frames) - 1 : i \in DOMAIN frames' /\ frames'[i] = frames[i]
    <3>1. TAKE i \in 1..Len(frames) - 1
    <3>2. i \in 1..Len(frames) /\ i \in 1..Len(frames) + 1
      BY <1>1
    <3>3. frames'[i] = t[i] /\ t[i] = frames[i]
      BY <1>3, <1>5, <3>2
    <3>4. QED
      BY <2>1, <3>2, <3>3
  <2>3. \A i \in 1..stop : i \in 1..Len(frames) - 1
    BY <1>1
  <2>4. QED
    BY <2>2, <2>3 DEF Below
<1>7. LoopsOpen'
  <2>1. LoopHasBlock(pc') /\ LoopHasBlock(g.ip) /\ LoopHasBlock(f.ip)
    BY <1>2, Around0
  <2>2. \A i \in 1..Len(frames') : LoopHasBlock(frames'[i].ip)
    <3>1. ASSUME NEW i \in 1..Len(frames) - 1 PROVE LoopHasBlock(frames'[i].ip)
      <4>1. i \in 1..Len(frames)
        BY <1>1
      <4>2. frames'[i] = frames[i]
        BY <1>3, <1>5, <4>1
      <4>3. QED
        BY <4>1, <4>2 DEF TInv, LoopsOpen
    <3>2. LoopHasBlock(frames'[Len(frames)].ip)
      <4>1. Len(frames) \in 1..Len(frames)
        BY <1>1
      <4>2. frames'[Len(frames)] = f
        BY <1>3, <1>5, <4>1
      <4>3. QED
        BY <2>1, <4>2, Zenon
    <3>3. LoopHasBlock(frames'[Len(frames) + 1].ip)
      BY <1>5, <2>1
    <3>4. \A i \in 1..Len(frames') :
            i \in 1..Len(frames) - 1 \/ i = Len(frames) \/ i = Len(frames) + 1
      BY <1>1, <1>5
    <3>5. QED
      BY <3>1, <3>2, <3>3, <3>4
  <2>3. QED
    BY <2>1, <2>2 DEF LoopsOpen
<1>8. QED
  BY <1>5, <1>6, <1>7, Around0

LEMMA EnterKeeps ==
  ASSUME TInv, NEW hasDefer \in BOOLEAN, Enter(hasDefer)
  PROVE  TInv' /\ Below
<1>1. status = "running" /\ calls < MaxCalls /\ stop' = stop /\ status' = status
      /\ execs' = execs /\ fates' = fates /\ calls' = calls + 1 /\ pc' = Start
  BY DEF Enter, CanCall, InBody, Dispatching
<1>2. frames' = Append(SetTop([Top EXCEPT !.ip = pc]), Frame(calls + 1, 0, hasDefer))
  BY DEF Enter
<1>3. Frame(calls + 1, 0, hasDefer) \in Frames /\ Frame(calls + 1, 0, hasDefer).ip = Start
  BY Around0, FrameIs
<1>4. /\ frames' \in Seq(Frames) /\ pc' \in Points /\ Len(frames') = Len(frames) + 1
      /\ Below /\ LoopsOpen'
  BY <1>1, <1>2, <1>3, PushKeeps
<1>5. StopsNest'
  BY <1>1, <1>4, Running DEF TInv, StopsNest, StopOf, TypeOK
<1>6. QED
  BY <1>1, <1>4, <1>5, Around0 DEF TInv, TypeOK

LEMMA CallKeeps ==
  ASSUME TInv, Call \/ CallHere
  PROVE  TInv' /\ Below
<1>1. PICK hasDefer \in BOOLEAN : Enter(hasDefer)
  BY DEF Call, CallHere
<1>2. QED
  BY <1>1, EnterKeeps

LEMMA TailCallKeeps ==
  ASSUME TInv, TailCall
  PROVE  TInv' /\ Below
<1>1. status = "running" /\ calls < MaxCalls
  BY DEF TailCall, InBody, Dispatching
<1>2. PICK hasDefer \in BOOLEAN :
        frames' = SetTop([Top EXCEPT !.fn = calls + 1, !.hasDefer = hasDefer, !.ip = Start])
  BY DEF TailCall
<1>3. Counters /\ stop' = stop /\ status' = status
  BY <1>1, Around0 DEF TailCall, Counters
<1>4. InPlace
  <2>1. /\ [Top EXCEPT !.fn = calls + 1, !.hasDefer = hasDefer, !.ip = Start] \in Frames
        /\ [Top EXCEPT !.fn = calls + 1, !.hasDefer = hasDefer, !.ip = Start].ip = Start
    <3>1. Top \in Frames /\ calls + 1 \in Nat /\ Start \in Points
      BY <1>1, Running, Around0
    <3> HIDE DEF Start
    <3>2. QED
      BY <3>1 DEF Frames
  <2>2. execs' = SetExec(Last(execs)) /\ Last(execs) \in ExecType /\ pc' = Start
    BY <1>1, Running DEF TailCall
  <2>3. QED
    BY <1>2, <2>1, <2>2, Around0 DEF InPlace
<1>5. QED
  BY <1>1, <1>3, <1>4, InPlaceStep

LEMMA PropagateKeeps ==
  ASSUME TInv, Propagate
  PROVE  TInv' /\ Below
<1>1. status = "running"
  BY DEF Propagate, InBody, Dispatching
<1>2. Counters /\ stop' = stop /\ status' = status
  BY Around0 DEF Propagate, Counters
<1>3. At(pc.blocks, "bare", "plain") \in Points /\ LoopHasBlock(At(pc.blocks, "bare", "plain"))
  BY Around0 DEF At, Points, LoopHasBlock, Values
<1>4. InPlace
  BY <1>1, <1>3, Running DEF InPlace, Propagate
<1>5. QED
  BY <1>1, <1>2, <1>4, InPlaceStep

(***************************************************************************)
(* The innermost execute() ends, with at least the frames its drain had.   *)
(***************************************************************************)
LEMMA EndExecKeeps ==
  ASSUME TInv, status = "running", status' = "running", Len(execs) # 1,
         NEW fs \in Seq(Frames), fs # <<>>, Len(fs) >= stop,
         \A i \in 1..Len(fs) : LoopHasBlock(fs[i].ip),
         frames' = fs, EndExec(fs)
  PROVE  /\ pc' \in Points /\ execs' \in Seq(ExecType) /\ stop' \in Nat
         /\ StopsNest' /\ LoopsOpen'
<1>1. execs \in Seq(ExecType) /\ execs # <<>> /\ stop \in Nat
      /\ Len(execs) \in Nat /\ Len(execs) > 1 /\ Len(fs) \in Nat
  <2>1. execs \in Seq(ExecType) /\ stop \in Nat
    BY DEF TInv, TypeOK, ExecType
  <2>2. execs # <<>> /\ Len(execs) \in Nat \ {0}
    BY Running
  <2>3. Len(execs) > 1
    <3>1. \A k \in Nat \ {0} : k # 1 => k > 1
      OBVIOUS
    <3>2. QED
      BY ONLY <2>2, <3>1, Len(execs) # 1
  <2>4. Len(fs) \in Nat
    BY LenProperties
  <2>5. QED
    BY <2>1, <2>2, <2>3, <2>4
<1>2. PICK n \in Nat : n = Len(execs) - 1 /\ n >= 1 /\ n \in 1..Len(execs)
  <2>1. Len(execs) - 1 \in Nat /\ Len(execs) - 1 >= 1 /\ Len(execs) - 1 \in 1..Len(execs)
    BY <1>1
  <2>2. QED
    BY <2>1
<1>3. execs[n] \in ExecType /\ Front(execs)[n] = execs[n]
  <2>1. \A i \in 1..Len(execs) - 1 : Front(execs)[i] = execs[i]
    BY <1>1, FrontIs
  <2>2. \A i \in 1..Len(execs) : execs[i] \in ExecType
    BY <1>1
  <2>3. n \in 1..Len(execs) - 1
    BY <1>1, <1>2
  <2>4. QED
    BY <1>2, <2>1, <2>2, <2>3
<1>4. PICK x \in ExecType : x = [execs[n] EXCEPT !.saved = 0]
  BY <1>3 DEF ExecType
<1>5. execs' = [Front(execs) EXCEPT ![Len(execs) - 1] = x]
  BY <1>2, <1>3, <1>4 DEF EndExec
<1>6. /\ execs' \in Seq(ExecType) /\ Len(execs') = n
      /\ \A j \in 1..n - 1 : execs'[j] = execs[j]
  BY <1>1, <1>2, <1>5, PopIs
<1>7. stop' = execs[n].saved /\ stop' \in Nat
  BY <1>2, <1>3 DEF EndExec, ExecType
<1>8. \A j \in 1..n : StopOf(j)' = StopOf(j)
  <2> SUFFICES ASSUME NEW j \in 1..n PROVE StopOf(j)' = StopOf(j)
    OBVIOUS
  <2>1. StopOf(j) = execs[j].saved
    BY <1>1, <1>2 DEF StopOf
  <2>2. CASE j = n
    BY <1>6, <1>7, <2>1, <2>2 DEF StopOf
  <2>3. CASE j # n
    <3>1. j \in 1..n - 1
      BY <1>1, <1>2, <2>3
    <3>2. QED
      BY <1>6, <2>1, <2>3, <3>1 DEF StopOf
  <2>4. QED
    BY <2>2, <2>3
<1>9. stop' < Len(frames')
  <2>1. StopOf(n) < StopOf(n + 1)
    BY <1>1, <1>2 DEF TInv, StopsNest
  <2>2. StopOf(n) = stop' /\ StopOf(n + 1) = stop
    BY <1>1, <1>2, <1>7 DEF StopOf
  <2>3. QED
    BY <1>1, <1>7, <2>1, <2>2
<1>10. StopsNest'
  <2>1. execs' # <<>>
    BY <1>2, <1>6
  <2>2. StopOf(1)' = 0
    BY <1>2, <1>8 DEF TInv, StopsNest
  <2>3. \A j \in 1..n - 1 : StopOf(j)' < StopOf(j + 1)'
    <3>1. \A j \in 1..n : StopOf(j) < StopOf(j + 1)
      BY <1>1, <1>2 DEF TInv, StopsNest
    <3>2. QED
      BY <1>2, <1>8, <3>1
  <2>4. QED
    BY <1>6, <1>9, <2>1, <2>2, <2>3 DEF StopsNest
<1>11. pc' \in Points /\ LoopHasBlock(pc')
  <2>1. Last(fs) = fs[Len(fs)] /\ Last(fs) \in Frames /\ Len(fs) \in 1..Len(fs)
    BY <1>1, FrontIs
  <2>2. QED
    BY <2>1 DEF EndExec, Frames
<1>12. LoopsOpen'
  BY <1>11 DEF LoopsOpen
<1>13. QED
  BY <1>6, <1>7, <1>10, <1>11, <1>12

LEMMA RuntimeErrorKeeps ==
  ASSUME TInv, RuntimeError
  PROVE  TInv' /\ Below
<1>1. status = "running" /\ calls' = calls
  BY DEF RuntimeError, InBody, Dispatching
<1>2. CASE Len(execs) = 1
  <2>1. status' = "failed" /\ UNCHANGED <<frames, pc, execs, stop, fates>>
    BY <1>2 DEF RuntimeError
  <2>2. stop < Len(frames) /\ stop \in Nat /\ Len(frames) \in Nat /\ DOMAIN frames = 1..Len(frames)
    BY <1>1, Running DEF TInv, TypeOK, StopsNest
  <2>3. QED
    BY <1>1, <2>1, <2>2 DEF TInv, TypeOK, StopsNest, StopOf, LoopsOpen, Below
<1>3. CASE Len(execs) # 1
  <2> DEFINE fs == [i \in DOMAIN frames |-> [frames[i] EXCEPT !.strayed = @ \/ i > stop]]
  <2>1. /\ frames' = fs /\ EndExec(fs) /\ status' = status
        /\ fates' = [id \in DOMAIN fates |->
                       IF frames[stop + 1].defer = id THEN "failed" ELSE fates[id]]
    BY <1>3 DEF RuntimeError
  <2>2. frames \in Seq(Frames) /\ Len(frames) \in Nat \ {0} /\ DOMAIN frames = 1..Len(frames)
        /\ stop \in Nat /\ stop < Len(frames)
    BY <1>1, Running DEF TInv, TypeOK, StopsNest
  <2>3. \A i \in 1..Len(frames) :
          /\ fs[i] \in Frames
          /\ fs[i].ip = frames[i].ip
          /\ i <= stop => fs[i] = frames[i]
    <3>1. TAKE i \in 1..Len(frames)
    <3>2. frames[i] \in Frames
      BY <2>2
    <3>3. fs[i] = [frames[i] EXCEPT !.strayed = @ \/ i > stop]
      BY <2>2
    <3>4. (i > stop) \in BOOLEAN /\ (frames[i].strayed \/ i > stop) \in BOOLEAN
      OBVIOUS
    <3>5. fs[i] \in Frames /\ fs[i].ip = frames[i].ip
      <4> HIDE DEF fs
      <4> QED
        BY <3>2, <3>3, <3>4 DEF Frames
    <3>6. i <= stop => fs[i] = frames[i]
      <4> HIDE DEF fs
      <4>1. i <= stop => ~(i > stop)
        BY <2>2
      <4>2. frames[i].strayed \in BOOLEAN
        BY <3>2 DEF Frames
      <4>3. i <= stop => (frames[i].strayed \/ i > stop) = frames[i].strayed
        BY <4>1, <4>2
      <4>4. [frames[i] EXCEPT !.strayed = frames[i].strayed] = frames[i]
        BY <3>2 DEF Frames
      <4>5. QED
        BY <3>3, <4>3, <4>4
    <3>7. QED
      BY <3>5, <3>6
  <2>4. fs \in Seq(Frames) /\ Len(fs) = Len(frames)
    <3>1. DOMAIN fs = 1..Len(frames)
      BY <2>2
    <3>2. fs = [i \in 1..Len(frames) |-> fs[i]]
      BY <3>1
    <3> HIDE DEF fs
    <3>3. QED
      BY <2>2, <2>3, <3>1, <3>2
  <2> HIDE DEF fs
  <2>5. \A i \in 1..Len(fs) : LoopHasBlock(fs[i].ip)
    BY <2>3, <2>4 DEF TInv, LoopsOpen
  <2>6. /\ pc' \in Points /\ execs' \in Seq(ExecType) /\ stop' \in Nat
        /\ StopsNest' /\ LoopsOpen'
    BY <1>1, <1>3, <2>1, <2>2, <2>4, <2>5, EndExecKeeps
  <2>7. fates' \in Seq(Fates)
    BY <2>1, Around0 DEF Fates
  <2>8. Below
    BY <2>1, <2>2, <2>3, <2>4 DEF Below
  <2>9. QED
    BY <1>1, <2>1, <2>4, <2>6, <2>7, <2>8, Around0 DEF TInv, TypeOK, ExecType
<1>4. QED
  BY <1>2, <1>3

LEMMA ReturnKeeps ==
  ASSUME TInv, Return
  PROVE  TInv' /\ Below
<1> DEFINE fs == Front(frames)
           g == [fs EXCEPT ![Len(fs)].r0 = "foreign"]
<1>1. status = "running" /\ calls' = calls
  BY DEF Return, Dispatching
<1>2. /\ frames \in Seq(Frames) /\ frames # <<>> /\ Len(frames) \in Nat \ {0}
      /\ stop \in Nat /\ stop < Len(frames) /\ execs \in Seq(ExecType)
      /\ Len(execs) \in Nat \ {0}
  BY <1>1, Running DEF TInv, TypeOK, StopsNest, ExecType
<1>3. /\ fs \in Seq(Frames) /\ Len(fs) = Len(frames) - 1
      /\ \A i \in 1..Len(frames) - 1 : fs[i] = frames[i]
  BY <1>2, FrontIs
<1>4. \A i \in 1..Len(fs) : LoopHasBlock(fs[i].ip)
  BY <1>2, <1>3 DEF TInv, LoopsOpen
<1>5. fates' \in Seq(Fates)
  BY Around0 DEF Return, Fates
<1>6. /\ frames' = fs \/ frames' = g
      /\ Len(fs) = stop => frames' = fs
      /\ Len(fs) = stop /\ Len(execs) = 1 => status' = "done" /\ UNCHANGED <<pc, execs, stop>>
      /\ Len(fs) = stop /\ Len(execs) # 1 => EndExec(fs) /\ status' = status
      /\ Len(fs) # stop => pc' = Last(fs).ip /\ UNCHANGED <<execs, stop, status>>
  BY DEF Return, AtStop
<1> HIDE DEF fs
<1>7. Len(fs) >= stop /\ Len(fs) \in Nat
  BY <1>2, <1>3
<1>8. stop < Len(fs) => /\ g \in Seq(Frames) /\ Len(g) = Len(fs)
                        /\ \A i \in 1..Len(fs) : g[i].ip = fs[i].ip
                        /\ \A i \in 1..Len(fs) - 1 : g[i] = fs[i]
  <2> SUFFICES ASSUME stop < Len(fs)
               PROVE  /\ g \in Seq(Frames) /\ Len(g) = Len(fs)
                      /\ \A i \in 1..Len(fs) : g[i].ip = fs[i].ip
                      /\ \A i \in 1..Len(fs) - 1 : g[i] = fs[i]
    OBVIOUS
  <2>1. fs # <<>> /\ Len(fs) \in 1..Len(fs)
    BY <1>2, <1>7
  <2>2. fs[Len(fs)] \in Frames
    BY <1>3, <2>1
  <2>3. PICK y \in Frames : y = [fs[Len(fs)] EXCEPT !.r0 = "foreign"] /\ y.ip = fs[Len(fs)].ip
    <3>1. \A z \in Frames : /\ [z EXCEPT !.r0 = "foreign"] \in Frames
                            /\ [z EXCEPT !.r0 = "foreign"].ip = z.ip
      BY DEF Frames
    <3>2. QED
      BY <2>2, <3>1
  <2>4. g = [fs EXCEPT ![Len(fs)] = y]
    BY <2>3
  <2> HIDE DEF g
  <2>5. /\ g \in Seq(Frames) /\ Len(g) = Len(fs) /\ g[Len(fs)] = y
        /\ \A i \in 1..Len(fs) - 1 : g[i] = fs[i]
    BY <1>3, <2>1, <2>4, ReplaceIs
  <2>6. \A i \in 1..Len(fs) : i = Len(fs) \/ i \in 1..Len(fs) - 1
    BY <1>7
  <2>7. QED
    BY <2>3, <2>5, <2>6
<1> HIDE DEF g
<1>9. frames' \in Seq(Frames) /\ Len(frames') = Len(fs) /\ Below
      /\ \A i \in 1..Len(fs) : frames'[i].ip = fs[i].ip
  <2>1. DOMAIN fs = 1..Len(fs) /\ (stop < Len(fs) => DOMAIN g = 1..Len(fs))
    BY <1>3, <1>8
  <2>2. CASE Len(fs) = stop
    <3>1. frames' = fs
      BY <1>6, <2>2
    <3>2. \A i \in 1..stop : i \in DOMAIN fs /\ fs[i] = frames[i]
      BY <1>2, <1>3, <2>1, <2>2
    <3>3. QED
      BY <1>3, <3>1, <3>2 DEF Below
  <2>3. CASE Len(fs) # stop
    <3>1. stop < Len(fs) /\ \A i \in 1..stop : i \in 1..Len(fs) - 1 /\ i \in 1..Len(frames) - 1
      BY <1>2, <1>3, <1>7, <2>3
    <3>2. \A i \in 1..stop : i \in 1..Len(fs) /\ fs[i] = frames[i] /\ g[i] = fs[i]
      BY <1>3, <1>7, <1>8, <3>1
    <3>3. QED
      BY <1>3, <1>6, <1>8, <2>1, <3>1, <3>2 DEF Below
  <2>4. QED
    BY <2>2, <2>3
<1>10. \A i \in 1..Len(frames') : LoopHasBlock(frames'[i].ip)
  BY <1>4, <1>9
<1>11. CASE Len(fs) = stop /\ Len(execs) = 1
  <2>1. status' = "done" /\ UNCHANGED <<pc, execs, stop>>
    BY <1>6, <1>11
  <2>2. StopsNest' /\ LoopsOpen'
    BY <1>10, <2>1 DEF TInv, StopsNest, StopOf, LoopsOpen
  <2>3. QED
    BY <1>1, <1>5, <1>9, <2>1, <2>2 DEF TInv, TypeOK
<1>12. CASE Len(fs) = stop /\ Len(execs) # 1
  <2>1. EndExec(fs) /\ status' = status /\ frames' = fs
    BY <1>6, <1>12
  <2>2. stop >= 1
    <3>1. Len(execs) - 1 \in 1..Len(execs) - 1 /\ Len(execs) - 1 # Len(execs)
      <4>1. \A m \in Nat \ {0} : m # 1 => m - 1 \in 1..m - 1 /\ m - 1 # m
        OBVIOUS
      <4>2. QED
        BY <1>2, <1>12, <4>1
    <3>2. StopOf(Len(execs) - 1) < StopOf(Len(execs) - 1 + 1)
      BY <3>1 DEF TInv, StopsNest
    <3>3. StopOf(Len(execs) - 1) = execs[Len(execs) - 1].saved /\ StopOf(Len(execs)) = stop
      BY <3>1 DEF StopOf
    <3>4. execs[Len(execs) - 1].saved \in Nat
      <4>1. Len(execs) - 1 \in 1..Len(execs)
        BY <1>2, <3>1
      <4>2. execs[Len(execs) - 1] \in ExecType
        BY <1>2, <4>1
      <4>3. QED
        BY <4>2 DEF ExecType
    <3>5. QED
      BY <1>2, <3>2, <3>3, <3>4
  <2>3. fs # <<>>
    BY <1>12, <2>2
  <2>4. /\ pc' \in Points /\ execs' \in Seq(ExecType) /\ stop' \in Nat
        /\ StopsNest' /\ LoopsOpen'
    BY <1>1, <1>3, <1>4, <1>7, <1>12, <2>1, <2>3, EndExecKeeps
  <2>5. QED
    BY <1>1, <1>5, <1>9, <2>1, <2>4, Around0 DEF TInv, TypeOK, ExecType
<1>13. CASE Len(fs) # stop
  <2>1. pc' = Last(fs).ip /\ UNCHANGED <<execs, stop, status>>
    BY <1>6, <1>13
  <2>2. fs # <<>> /\ Len(fs) \in 1..Len(fs) /\ stop < Len(fs)
    BY <1>2, <1>7, <1>13
  <2>3. Last(fs) = fs[Len(fs)] /\ Last(fs) \in Frames
    BY <1>3, <2>2, FrontIs
  <2>4. pc' \in Points /\ LoopHasBlock(pc')
    BY <1>4, <2>1, <2>2, <2>3 DEF Frames
  <2>5. StopsNest' /\ LoopsOpen'
    BY <1>9, <1>10, <2>1, <2>2, <2>4 DEF TInv, StopsNest, StopOf, LoopsOpen
  <2>6. QED
    BY <1>1, <1>5, <1>9, <2>1, <2>4, <2>5, Around0 DEF TInv, TypeOK
<1>14. QED
  BY <1>11, <1>12, <1>13

LEMMA DrainKeeps ==
  ASSUME TInv, Drain
  PROVE  TInv' /\ Below
<1> DEFINE e == Last(execs)
           d == Head(e.todo)
           rest == [e EXCEPT !.todo = Tail(@)]
           runs == d.kind = "Always" \/ (d.kind = "OnError" /\ e.isError)
<1>1. status = "running" /\ e.todo # <<>> /\ calls' = calls /\ status' = status
  BY DEF Drain
<1>2. e \in ExecType /\ d \in Entries /\ rest \in ExecType
  <2>1. e \in ExecType
    BY <1>1, Running
  <2>2. e.todo \in Seq(Entries)
    BY <2>1 DEF ExecType
  <2>3. d \in Entries /\ Tail(e.todo) \in Seq(Entries)
    BY <1>1, <2>2
  <2>4. QED
    BY <2>1, <2>3 DEF ExecType
<1>3. CASE ~runs
  <2>1. /\ execs' = SetExec(rest) /\ UNCHANGED <<frames, pc, stop>>
        /\ fates' = IF d = Sentinel THEN fates ELSE [fates EXCEPT ![d.id] = "skipped"]
    BY <1>3 DEF Drain
  <2>2. InPlace
    BY <1>1, <1>2, <2>1, Running, Around0 DEF InPlace
  <2>3. Counters
    <3>1. "skipped" \in Fates
      BY DEF Fates
    <3>2. fates' \in Seq(Fates)
      BY <2>1, <3>1, FatesExcept, Around0
    <3>3. QED
      BY <1>1, <3>2, Around0 DEF Counters
  <2>4. QED
    BY <1>1, <2>1, <2>2, <2>3, InPlaceStep
<1>4. CASE runs
  <2> DEFINE y == [rest EXCEPT !.saved = stop]
  <2>1. /\ frames' = Append(SetTop([Top EXCEPT !.ip = pc]), Frame(0, d.id, FALSE))
        /\ execs' = Append(SetExec(y), Exec)
        /\ stop' = Len(frames) /\ pc' = Start
        /\ fates' = [fates EXCEPT ![d.id] = "ran"]
    BY <1>4 DEF Drain, StopDepth
  <2>2. /\ stop \in Nat /\ execs \in Seq(ExecType) /\ stop < Len(frames)
        /\ Len(execs) \in Nat \ {0} /\ Len(frames) \in Nat \ {0} /\ execs # <<>>
    BY <1>1, Running DEF TInv, TypeOK, ExecType, StopsNest
  <2>3. y \in ExecType /\ y.saved = stop
    BY <1>2, <2>2 DEF ExecType
  <2>4. Frame(0, d.id, FALSE) \in Frames /\ Frame(0, d.id, FALSE).ip = Start
    <3>1. d.id \in Nat
      BY <1>2 DEF Entries, Sentinel
    <3>2. QED
      BY <3>1, FrameIs
  <2> HIDE DEF y
  <2>5. /\ frames' \in Seq(Frames) /\ pc' \in Points /\ Len(frames') = Len(frames) + 1
        /\ Below /\ LoopsOpen'
    BY <1>1, <2>1, <2>4, PushKeeps
  <2>6. Exec \in ExecType
    BY DEF Exec, ExecType
  <2>7. /\ execs' \in Seq(ExecType) /\ Len(execs') = Len(execs) + 1
        /\ execs'[Len(execs)] = y
        /\ \A j \in 1..Len(execs) - 1 : execs'[j] = execs[j]
    <3> DEFINE t == SetExec(y)
    <3>1. /\ t \in Seq(ExecType) /\ Len(t) = Len(execs) /\ t[Len(execs)] = y
          /\ \A j \in 1..Len(execs) - 1 : t[j] = execs[j]
      BY <2>2, <2>3, ReplaceIs DEF SetExec
    <3>2. execs' = Append(t, Exec)
      BY <2>1
    <3> HIDE DEF t
    <3>3. /\ Append(t, Exec) \in Seq(ExecType) /\ Len(Append(t, Exec)) = Len(t) + 1
          /\ \A j \in 1..Len(t) : Append(t, Exec)[j] = t[j]
      BY <2>6, <3>1, PushIs
    <3>4. Len(execs) \in 1..Len(execs) /\ \A j \in 1..Len(execs) - 1 : j \in 1..Len(execs)
      BY <2>2
    <3>5. Append(t, Exec)[Len(execs)] = y
      BY <3>1, <3>3, <3>4
    <3>6. \A j \in 1..Len(execs) - 1 : Append(t, Exec)[j] = execs[j]
      BY <3>1, <3>3, <3>4
    <3>7. QED
      BY <3>1, <3>2, <3>3, <3>5, <3>6
  <2>8. PICK m \in Nat : m = Len(execs) /\ m >= 1
    BY <2>2
  <2>9. /\ \A j \in 1..m : StopOf(j)' = StopOf(j)
        /\ StopOf(m) = stop /\ StopOf(m + 1)' = Len(frames)
    BY <2>1, <2>2, <2>3, <2>7, <2>8 DEF StopOf
  <2>10. StopsNest'
    <3>1. execs' # <<>>
      BY <2>7, <2>8
    <3>2. StopOf(1)' = 0
      BY <2>8, <2>9 DEF TInv, StopsNest
    <3>3. \A j \in 1..m : StopOf(j)' < StopOf(j + 1)'
      <4>1. \A j \in 1..m - 1 : StopOf(j)' < StopOf(j + 1)'
        <5>1. \A j \in 1..m - 1 : j \in 1..m /\ j + 1 \in 1..m
          BY <2>8
        <5>2. \A j \in 1..m - 1 : StopOf(j) < StopOf(j + 1)
          BY <2>8 DEF TInv, StopsNest
        <5>3. QED
          BY <2>9, <5>1, <5>2
      <4>2. StopOf(m)' < StopOf(m + 1)'
        BY <2>2, <2>8, <2>9
      <4>3. TAKE j \in 1..m
      <4>4. CASE j = m
        BY <4>2, <4>4
      <4>5. CASE j # m
        BY <2>8, <4>1, <4>5
      <4>6. QED
        BY <4>4, <4>5
    <3>4. stop' < Len(frames')
      BY <2>1, <2>2, <2>5
    <3>5. Len(execs') - 1 = m
      BY <2>7, <2>8
    <3>6. QED
      BY <3>1, <3>2, <3>3, <3>4, <3>5 DEF StopsNest
  <2>11. fates' \in Seq(Fates)
    <3>1. "ran" \in Fates
      BY DEF Fates
    <3>2. QED
      BY <2>1, <3>1, FatesExcept, Around0
  <2>12. stop' \in Nat
    BY <2>1, <2>2
  <2>13. QED
    BY <1>1, <2>5, <2>7, <2>10, <2>11, <2>12, Around0 DEF TInv, TypeOK, ExecType
<1>5. QED
  BY <1>3, <1>4

-----------------------------------------------------------------------------
LEMMA TInvInit ==
  ASSUME Init
  PROVE  TInv
<1>1. PICK hasDefer \in BOOLEAN : frames = <<Frame(1, 0, hasDefer)>>
  BY DEF Init
<1>2. Frame(1, 0, hasDefer) \in Frames /\ Frame(1, 0, hasDefer).ip = Start
  BY FrameIs
<1>3. frames \in Seq(Frames) /\ Len(frames) = 1 /\ frames[1].ip = Start
  BY <1>1, <1>2
<1>4. Start \in Points /\ LoopHasBlock(Start) /\ 1 \in 1..MaxCalls
  BY VmAssumption DEF Start, At, Points, Values, LoopHasBlock
<1>5. Exec \in ExecType
  BY DEF Exec, ExecType
<1>6. execs \in Seq(ExecType) /\ Len(execs) = 1 /\ execs # <<>> /\ fates \in Seq(Fates)
  BY <1>5 DEF Init
<1>7. StopsNest
  BY <1>3, <1>6 DEF Init, StopsNest, StopOf
<1>8. LoopsOpen
  BY <1>3, <1>4 DEF Init, LoopsOpen
<1>9. QED
  BY <1>3, <1>4, <1>6, <1>7, <1>8 DEF Init, TInv, TypeOK, ExecType

LEMMA TInvStep ==
  ASSUME TInv, [Next]_vars
  PROVE  TInv' /\ (Below \/ UNCHANGED vars)
<1>1. CASE Next
  BY <1>1, OpenBlockKeeps, DeferKeeps, EndBlockKeeps, GuardRetKeeps, LoopTestKeeps, RetKeeps,
     EscapeKeeps, CallKeeps, TailCallKeeps, PropagateKeeps, RuntimeErrorKeeps, ReturnKeeps,
     DrainKeeps DEF Next
<1>2. CASE UNCHANGED vars
  BY <1>2 DEF vars, TInv, TypeOK, StopsNest, StopOf, LoopsOpen
<1>3. QED
  BY <1>1, <1>2

(***************************************************************************)
(* The stacks, the code points and the fates have their types in every     *)
(* reachable state, however deep the calls and drains nest.                *)
(***************************************************************************)
THEOREM VmTypeOK == Spec => []TypeOK
<1>1. Init => TInv
  BY TInvInit
<1>2. TInv /\ [Next]_vars => TInv'
  BY TInvStep
<1>3. TInv => TypeOK
  BY DEF TInv
<1>4. QED
  BY <1>1, <1>2, <1>3, PTL DEF Spec

(***************************************************************************)
(* No step of a nested execute() changes, pops or writes a register of a   *)
(* frame at or below its execute_stop_depth (14899-14916).                 *)
(***************************************************************************)
THEOREM VmIsolation == Spec => Isolation
<1>1. Init => TInv
  BY TInvInit
<1>2. TInv /\ [Next]_vars => TInv'
  BY TInvStep
<1>3. TInv /\ [Next]_vars =>
        [\A i \in 1..stop : i \in DOMAIN frames' /\ frames'[i] = frames[i]]_vars
  BY TInvStep DEF Below
<1>4. QED
  BY <1>1, <1>2, <1>3, PTL DEF Spec, Isolation

(***************************************************************************)
(* An entry waits in one place.  There is a list for every frame, its      *)
(* defer stack (c = 0), and one for every execute(), the entries of its    *)
(* drain (c = 1).  Over all of them every entry is of another defer        *)
(* statement, which is pending, and every pending statement has an entry.  *)
(* A failing thunk is marked "failed" over "ran", never over "pending":    *)
(* the statement of a thunk's frame has been taken off the lists.          *)
(***************************************************************************)
List(fs, es, c, i) ==
  IF c = 0 /\ i \in 1..Len(fs) THEN fs[i].defers
  ELSE IF c = 1 /\ i \in 1..Len(es) THEN es[i].todo ELSE <<>>

\* The k-th entry of a list is that of the defer statement id.
Has(fs, es, c, i, k, id) ==
  /\ k \in 1..Len(List(fs, es, c, i))
  /\ List(fs, es, c, i)[k].id = id
  /\ id # 0

Distinct(fs, es) ==
  \A c, i, k, d, j, l, id :
    Has(fs, es, c, i, k, id) /\ Has(fs, es, d, j, l, id) => c = d /\ i = j /\ k = l

AllPending(fs, es, ft) ==
  \A c, i, k, id : Has(fs, es, c, i, k, id) => id \in 1..Len(ft) /\ ft[id] = "pending"

PendingWaits(fs, es, ft) ==
  \A id \in 1..Len(ft) : ft[id] = "pending" => \E c, i, k : Has(fs, es, c, i, k, id)

Waiting(fs, es, ft) == Distinct(fs, es) /\ AllPending(fs, es, ft) /\ PendingWaits(fs, es, ft)

ThunkRan(fs, ft) ==
  \A i \in 1..Len(fs) : fs[i].defer # 0 => fs[i].defer \in 1..Len(ft) /\ ft[fs[i].defer] # "pending"

OnceInv == TInv /\ Waiting(frames, execs, fates) /\ ThunkRan(frames, fates)

-----------------------------------------------------------------------------
\* The lists of the two tops.
LEMMA TopLists ==
  ASSUME TInv, status = "running"
  PROVE  /\ List(frames, execs, 0, Len(frames)) = Top.defers
         /\ List(frames, execs, 1, Len(execs)) = Last(execs).todo
         /\ Top.defers \in Seq(Entries) /\ Last(execs).todo \in Seq(Entries)
BY Running DEF List, Frames, ExecType

\* Lists hold entries.
LEMMA ListType ==
  ASSUME TInv, NEW c, NEW i
  PROVE  List(frames, execs, c, i) \in Seq(Entries)
<1>1. \A j \in 1..Len(frames) : frames[j].defers \in Seq(Entries)
  <2>1. \A j \in 1..Len(frames) : frames[j] \in Frames
    BY DEF TInv, TypeOK
  <2>2. QED
    BY <2>1 DEF Frames
<1>2. \A j \in 1..Len(execs) : execs[j].todo \in Seq(Entries)
  <2>1. execs \in Seq(ExecType)
    BY DEF TInv, TypeOK, ExecType
  <2>2. \A j \in 1..Len(execs) : execs[j] \in ExecType
    BY <2>1
  <2>3. QED
    BY <2>2 DEF ExecType
<1>3. <<>> \in Seq(Entries)
  OBVIOUS
<1>4. QED
  BY <1>1, <1>2, <1>3 DEF List

\* A step in the top frame and the running execute() changes their lists only.
LEMMA InPlaceLists ==
  ASSUME TInv, status = "running", NEW f \in Frames, NEW e \in ExecType,
         frames' = SetTop(f), execs' = SetExec(e)
  PROVE  /\ List(frames', execs', 0, Len(frames)) = f.defers
         /\ List(frames', execs', 1, Len(execs)) = e.todo
         /\ \A c, i : \/ c = 0 /\ i = Len(frames)
                      \/ c = 1 /\ i = Len(execs)
                      \/ List(frames', execs', c, i) = List(frames, execs, c, i)
         /\ Len(frames') = Len(frames) /\ frames'[Len(frames)] = f
         /\ \A i \in 1..Len(frames) - 1 : frames'[i] = frames[i]
         /\ Len(execs') = Len(execs) /\ execs'[Len(execs)] = e
         /\ \A i \in 1..Len(execs) - 1 : execs'[i] = execs[i]
<1>1. frames \in Seq(Frames) /\ execs \in Seq(ExecType) /\ frames # <<>> /\ execs # <<>>
      /\ Len(frames) \in Nat \ {0} /\ Len(execs) \in Nat \ {0}
  BY Running DEF TInv, TypeOK, ExecType
<1>2. /\ Len(frames') = Len(frames) /\ frames'[Len(frames)] = f
      /\ \A i \in 1..Len(frames) - 1 : frames'[i] = frames[i]
  BY <1>1, ReplaceIs DEF SetTop
<1>3. /\ Len(execs') = Len(execs) /\ execs'[Len(execs)] = e
      /\ \A i \in 1..Len(execs) - 1 : execs'[i] = execs[i]
  BY <1>1, ReplaceIs DEF SetExec
<1>4. /\ \A i \in 1..Len(frames) : i = Len(frames) \/ i \in 1..Len(frames) - 1
      /\ \A i \in 1..Len(execs) : i = Len(execs) \/ i \in 1..Len(execs) - 1
      /\ Len(frames) \in 1..Len(frames) /\ Len(execs) \in 1..Len(execs)
  BY <1>1
<1>5. QED
  BY <1>2, <1>3, <1>4 DEF List

-----------------------------------------------------------------------------
(***************************************************************************)
(* The lists hold the same entries in the same places, sentinels aside,    *)
(* and the same statements are pending.                                    *)
(***************************************************************************)
SamePlaces(fs, es, gs, ds) ==
  \A c, i, k, id : Has(gs, ds, c, i, k, id) <=> Has(fs, es, c, i, k, id)

SamePending(ft, gt) ==
  /\ Len(gt) = Len(ft)
  /\ \A id \in 1..Len(ft) : gt[id] = "pending" <=> ft[id] = "pending"

LEMMA CarriedWaiting ==
  ASSUME NEW fs, NEW es, NEW ft, NEW gs, NEW ds, NEW gt, Waiting(fs, es, ft),
         SamePlaces(fs, es, gs, ds), SamePending(ft, gt)
  PROVE  Waiting(gs, ds, gt)
<1>1. Distinct(gs, ds)
  BY DEF Waiting, Distinct, SamePlaces
<1>2. AllPending(gs, ds, gt)
  BY DEF Waiting, AllPending, SamePlaces, SamePending
<1>3. PendingWaits(gs, ds, gt)
  BY DEF Waiting, PendingWaits, SamePlaces, SamePending
<1>4. QED
  BY <1>1, <1>2, <1>3 DEF Waiting

\* Every list is what it was, or has a sentinel more.
LEMMA MarkedPlaces ==
  ASSUME TInv, NEW gs, NEW ds,
         \A c, i : \/ List(gs, ds, c, i) = List(frames, execs, c, i)
                   \/ List(gs, ds, c, i) = Append(List(frames, execs, c, i), Sentinel)
  PROVE  SamePlaces(frames, execs, gs, ds)
<1> SUFFICES ASSUME NEW c, NEW i, NEW k, NEW id
             PROVE  Has(gs, ds, c, i, k, id) <=> Has(frames, execs, c, i, k, id)
  BY DEF SamePlaces
<1> DEFINE u == List(frames, execs, c, i)
           t == List(gs, ds, c, i)
<1>1. u \in Seq(Entries) /\ Len(u) \in Nat
  BY ListType
<1>2. CASE t = u
  BY <1>2 DEF Has
<1>3. CASE t = Append(u, Sentinel)
  <2> HIDE DEF u
  <2>1. /\ Len(t) = Len(u) + 1 /\ t[Len(u) + 1].id = 0
        /\ \A x \in 1..Len(u) : t[x] = u[x] /\ x \in 1..Len(u) + 1
        /\ \A x \in 1..Len(u) + 1 : x \in 1..Len(u) \/ x = Len(u) + 1
    BY <1>1, <1>3 DEF Sentinel
  <2>2. QED
    BY <2>1 DEF Has, u
<1>4. QED
  BY <1>2, <1>3

\* Every list is what it was.
LEMMA SameLists ==
  ASSUME TInv, Waiting(frames, execs, fates), NEW gs, NEW ds,
         \A c, i : List(gs, ds, c, i) = List(frames, execs, c, i),
         NEW gt, SamePending(fates, gt)
  PROVE  Waiting(gs, ds, gt)
BY MarkedPlaces, CarriedWaiting

-----------------------------------------------------------------------------
\* The part of a list after n, turned round.
LEMMA ReversedRest ==
  ASSUME NEW S, NEW s \in Seq(S), NEW n \in 0..Len(s)
  PROVE  LET t == Reversed(SubSeq(s, n + 1, Len(s)))
         IN  /\ t \in Seq(S) /\ Len(t) = Len(s) - n
             /\ \A k \in 1..(Len(s) - n) : t[k] = s[Len(s) + 1 - k]
<1> DEFINE u == SubSeq(s, n + 1, Len(s))
<1>1. Len(s) \in Nat /\ n \in Nat /\ n <= Len(s)
  OBVIOUS
<1>2. u \in Seq(S) /\ Len(u) = Len(s) - n /\ \A k \in 1..(Len(s) - n) : u[k] = s[n + k]
  <2>1. \A i \in (n + 1)..Len(s) : s[i] \in S
    BY <1>1
  <2>2. /\ u \in Seq(S)
        /\ Len(u) = IF n + 1 <= Len(s) THEN Len(s) - (n + 1) + 1 ELSE 0
        /\ \A k \in 1..(Len(s) - (n + 1) + 1) : u[k] = s[n + 1 + k - 1]
    BY <1>1, <2>1, SubSeqProperties
  <2>3. QED
    BY <1>1, <2>2
<1> HIDE DEF u
<1>3. Reversed(u) \in Seq(S)
  BY <1>2, ReversedType
<1>4. \A k \in 1..(Len(s) - n) : Len(u) + 1 - k \in 1..(Len(s) - n) /\ n + (Len(u) + 1 - k) = Len(s) + 1 - k
  BY <1>1, <1>2
<1>5. Len(Reversed(u)) = Len(s) - n /\ \A k \in 1..(Len(s) - n) : Reversed(u)[k] = s[Len(s) + 1 - k]
  BY <1>1, <1>2, <1>4 DEF Reversed
<1>6. QED
  BY <1>3, <1>5 DEF u

(***************************************************************************)
(* A drain of the running execute() takes the entries of frame f after the *)
(* first n, the last of them first.                                        *)
(***************************************************************************)
Taken(f, n, v, g, e) ==
  /\ g \in Frames /\ e \in ExecType
  /\ g.fn = f.fn /\ g.defer = f.defer /\ g.hasDefer = f.hasDefer /\ g.ip = f.ip
  /\ g.result = f.result /\ g.r0 = f.r0 /\ g.strayed = f.strayed
  /\ n \in 0..Len(f.defers) /\ Len(g.defers) = n
  /\ \A a \in 1..n : g.defers[a] = f.defers[a]
  /\ Len(e.todo) = Len(f.defers) - n
  /\ \A b \in 1..Len(e.todo) : e.todo[b] = f.defers[Len(f.defers) + 1 - b]
  /\ e.saved = Last(execs).saved

LEMMA TakenIs ==
  ASSUME TInv, status = "running",
         NEW f \in Frames, NEW k \in 1..Len(f.defers) + 1, NEW v, NEW p, TakeFrom(f, k, v, p)
  PROVE  \E g, e : /\ Taken(f, k - 1, v, g, e)
                   /\ frames' = SetTop(g) /\ execs' = SetExec(e) /\ pc' = p
<1> DEFINE L == Len(f.defers)
           n == k - 1
           todo == Reversed(SubSeq(f.defers, n + 1, L))
           kept == SubSeq(f.defers, 1, n)
           b == (k <= L /\ v = "Err")
           g == [f EXCEPT !.defers = kept]
           e == [Last(execs) EXCEPT !.todo = todo, !.isError = b]
<1>1. f.defers \in Seq(Entries) /\ L \in Nat /\ n \in 0..L /\ n + 1 = k /\ Last(execs) \in ExecType
      /\ b \in BOOLEAN
  BY Running DEF Frames
<1>2. frames' = SetTop(g) /\ execs' = SetExec(e) /\ pc' = p
  <2>1. frames' = SetTop([f EXCEPT !.defers = SubSeq(@, 1, k - 1)])
    BY DEF TakeFrom
  <2>2. execs' = SetExec([Last(execs) EXCEPT
                 !.todo = Reversed(SubSeq(f.defers, k, Len(f.defers))),
                 !.isError = (k <= Len(f.defers) /\ v = "Err")]) /\ pc' = p
    BY DEF TakeFrom
  <2>3. QED
    BY <1>1, <2>1, <2>2
<1> HIDE DEF b
<1>3. /\ kept \in Seq(Entries) /\ Len(kept) = n /\ \A a \in 1..n : kept[a] = f.defers[a]
  <2> HIDE DEF n
  <2> QED
    BY <1>1, PartsAre
<1>4. /\ todo \in Seq(Entries) /\ Len(todo) = L - n
      /\ \A a \in 1..(L - n) : todo[a] = f.defers[L + 1 - a]
  <2> HIDE DEF n
  <2> QED
    BY <1>1, ReversedRest
<1> HIDE DEF kept, todo, n, L
<1>5. /\ g \in Frames /\ g.defers = kept
      /\ g.fn = f.fn /\ g.defer = f.defer /\ g.hasDefer = f.hasDefer /\ g.ip = f.ip
      /\ g.result = f.result /\ g.r0 = f.r0 /\ g.strayed = f.strayed
  BY <1>3 DEF Frames
<1>6. e \in ExecType /\ e.todo = todo /\ e.saved = Last(execs).saved
  BY <1>1, <1>4 DEF ExecType
<1> HIDE DEF g, e
<1>7. Taken(f, n, v, g, e)
  BY <1>1, <1>3, <1>4, <1>5, <1>6 DEF Taken, L
<1>8. QED
  BY <1>2, <1>7 DEF n

\* What a drain takes moves to the empty list of the running execute().
LEMMA TakenWaiting ==
  ASSUME TInv, status = "running", Last(execs).todo = <<>>, Waiting(frames, execs, fates),
         NEW f \in Frames, f.defers = Top.defers, NEW n, NEW v, NEW g, NEW e, Taken(f, n, v, g, e),
         frames' = SetTop(g), execs' = SetExec(e)
  PROVE  Waiting(frames', execs', fates)
<1> DEFINE N == Len(frames)
           M == Len(execs)
           L == Len(Top.defers)
           Old(c, i, k, id) == Has(frames, execs, c, i, k, id)
           New(c, i, k, id) == Has(frames', execs', c, i, k, id)
<1>1. /\ List(frames', execs', 0, N) = g.defers
      /\ List(frames', execs', 1, M) = e.todo
      /\ \A c, i : \/ c = 0 /\ i = N
                   \/ c = 1 /\ i = M
                   \/ List(frames', execs', c, i) = List(frames, execs, c, i)
  BY InPlaceLists DEF Taken
<1>2. List(frames, execs, 0, N) = Top.defers /\ List(frames, execs, 1, M) = <<>>
      /\ L \in Nat
  BY TopLists
<1>3. /\ n \in 0..L /\ Len(g.defers) = n
      /\ \A a \in 1..n : g.defers[a] = Top.defers[a]
      /\ Len(e.todo) = L - n
      /\ \A b \in 1..(L - n) : e.todo[b] = Top.defers[L + 1 - b]
  BY DEF Taken
<1> HIDE DEF N, M, L
<1>4. \A c, i, k, id : ~(c = 0 /\ i = N) /\ ~(c = 1 /\ i = M) => (New(c, i, k, id) <=> Old(c, i, k, id))
  BY <1>1 DEF Has
<1>5. \A k, id : New(0, N, k, id) <=> Old(0, N, k, id) /\ k \in 1..n
  <2>1. \A k \in 1..n : k \in 1..L
    BY <1>2, <1>3
  <2>2. QED
    BY <1>1, <1>2, <1>3, <2>1 DEF Has, L
<1>6. \A k, id : ~Old(1, M, k, id)
  BY <1>2 DEF Has
<1>7. \A k \in 1..(L - n) : L + 1 - k \in 1..L /\ ~(L + 1 - k \in 1..n) /\ k \in Nat
  BY <1>2, <1>3
<1>8. \A k, id : New(1, M, k, id) <=> k \in 1..(L - n) /\ Old(0, N, L + 1 - k, id)
  BY <1>1, <1>2, <1>3, <1>7 DEF Has, L
<1>9. \A k, l \in 1..(L - n) : L + 1 - k = L + 1 - l => k = l
  BY <1>2, <1>7
<1>10. \A k \in 1..L : ~(k \in 1..n) => L + 1 - k \in 1..(L - n) /\ L + 1 - (L + 1 - k) = k
  BY <1>2, <1>3
<1>11. \A k, id : Old(0, N, k, id) => k \in 1..L
  BY <1>2 DEF Has, L
<1>12. Distinct(frames, execs) /\ AllPending(frames, execs, fates) /\ PendingWaits(frames, execs, fates)
  BY DEF Waiting
<1>13. /\ \A c, i, k, d, j, l, id : Old(c, i, k, id) /\ Old(d, j, l, id) => c = d /\ i = j /\ k = l
       /\ \A c, i, k, id : Old(c, i, k, id) => id \in 1..Len(fates) /\ fates[id] = "pending"
       /\ \A id \in 1..Len(fates) : fates[id] = "pending" => \E c, i, k : Old(c, i, k, id)
  BY <1>12 DEF Distinct, AllPending, PendingWaits
<1> HIDE DEF Old, New
<1>14. ASSUME NEW c, NEW i, NEW k, NEW d, NEW j, NEW l, NEW id, New(c, i, k, id), New(d, j, l, id)
       PROVE  c = d /\ i = j /\ k = l
  <2>1. CASE c = 1 /\ i = M /\ d = 1 /\ j = M
    <3>1. k \in 1..(L - n) /\ l \in 1..(L - n) /\ L + 1 - k = L + 1 - l
      BY <1>8, <1>13, <1>14, <2>1
    <3>2. QED
      BY <1>9, <2>1, <3>1
  <2>2. CASE c = 1 /\ i = M /\ ~(d = 1 /\ j = M)
    <3>1. k \in 1..(L - n) /\ Old(0, N, L + 1 - k, id)
      BY <1>8, <1>14, <2>2
    <3>2. Old(d, j, l, id) /\ (d = 0 /\ j = N => l \in 1..n)
      BY <1>4, <1>5, <1>14, <2>2
    <3>3. d = 0 /\ j = N /\ l = L + 1 - k
      BY <1>13, <3>1, <3>2
    <3>4. QED
      BY <1>7, <3>1, <3>2, <3>3
  <2>3. CASE ~(c = 1 /\ i = M) /\ d = 1 /\ j = M
    <3>1. l \in 1..(L - n) /\ Old(0, N, L + 1 - l, id)
      BY <1>8, <1>14, <2>3
    <3>2. Old(c, i, k, id) /\ (c = 0 /\ i = N => k \in 1..n)
      BY <1>4, <1>5, <1>14, <2>3
    <3>3. c = 0 /\ i = N /\ k = L + 1 - l
      BY <1>13, <3>1, <3>2
    <3>4. QED
      BY <1>7, <3>1, <3>2, <3>3
  <2>4. CASE ~(c = 1 /\ i = M) /\ ~(d = 1 /\ j = M)
    <3>1. Old(c, i, k, id) /\ Old(d, j, l, id)
      BY <1>4, <1>5, <1>14, <2>4
    <3>2. QED
      BY <1>13, <3>1
  <2>5. QED
    BY <2>1, <2>2, <2>3, <2>4
<1>15. ASSUME NEW c, NEW i, NEW k, NEW id, New(c, i, k, id)
       PROVE  id \in 1..Len(fates) /\ fates[id] = "pending"
  <2>1. Old(0, N, L + 1 - k, id) \/ Old(c, i, k, id)
    BY <1>4, <1>5, <1>8, <1>15
  <2>2. QED
    BY <1>13, <2>1
<1>16. ASSUME NEW id \in 1..Len(fates), fates[id] = "pending"
       PROVE  \E c, i, k : New(c, i, k, id)
  <2>1. PICK c, i, k : Old(c, i, k, id)
    BY <1>13, <1>16
  <2>2. CASE c = 0 /\ i = N /\ ~(k \in 1..n)
    <3>1. New(1, M, L + 1 - k, id)
      BY <1>8, <1>10, <1>11, <2>1, <2>2
    <3>2. QED
      BY <3>1
  <2>3. CASE ~(c = 0 /\ i = N /\ ~(k \in 1..n))
    <3>1. New(c, i, k, id)
      BY <1>4, <1>5, <1>6, <2>1, <2>3
    <3>2. QED
      BY <3>1
  <2>4. QED
    BY <2>2, <2>3
<1>17. Distinct(frames', execs') /\ AllPending(frames', execs', fates) /\ PendingWaits(frames', execs', fates)
  BY <1>14, <1>15, <1>16 DEF Distinct, AllPending, PendingWaits, New
<1>18. QED
  BY <1>17 DEF Waiting

-----------------------------------------------------------------------------
\* The lists are what a step makes of them, sentinels aside; frames keep the
\* thunk they are of.
SameThunks == 
  /\ Len(frames') = Len(frames)
  /\ \A i \in 1..Len(frames) : frames'[i].defer = frames[i].defer

LEMMA ThunksRan ==
  ASSUME ThunkRan(frames, fates), SameThunks, NEW gt, SamePending(fates, gt)
  PROVE  ThunkRan(frames', gt)
BY DEF ThunkRan, SameThunks, SamePending

\* A new top frame of the same thunk, with the entries of the old one.
LEMMA ReplacedOnce ==
  ASSUME OnceInv, status = "running", NEW f \in Frames, f.defer = Top.defer,
         f.defers = Top.defers \/ f.defers = Append(Top.defers, Sentinel),
         frames' = SetTop(f), execs' = execs, fates' = fates
  PROVE  Waiting(frames', execs', fates') /\ ThunkRan(frames', fates')
<1>1. TInv /\ Waiting(frames, execs, fates) /\ ThunkRan(frames, fates)
  BY DEF OnceInv
<1>2. Last(execs) \in ExecType /\ execs' = SetExec(Last(execs)) /\ Top = frames[Len(frames)]
      /\ Len(frames) \in Nat \ {0}
  BY <1>1, Running
<1>3. /\ List(frames', execs', 0, Len(frames)) = f.defers
      /\ \A c, i : \/ c = 0 /\ i = Len(frames)
                   \/ c = 1 /\ i = Len(execs)
                   \/ List(frames', execs', c, i) = List(frames, execs, c, i)
      /\ List(frames', execs', 1, Len(execs)) = Last(execs).todo
      /\ Len(frames') = Len(frames) /\ frames'[Len(frames)] = f
      /\ \A i \in 1..Len(frames) - 1 : frames'[i] = frames[i]
  BY <1>1, <1>2, InPlaceLists
<1>4. /\ List(frames, execs, 0, Len(frames)) = Top.defers
      /\ List(frames, execs, 1, Len(execs)) = Last(execs).todo
  BY <1>1, TopLists
<1>5. \A c, i : \/ List(frames', execs', c, i) = List(frames, execs, c, i)
                \/ List(frames', execs', c, i) = Append(List(frames, execs, c, i), Sentinel)
  BY <1>3, <1>4
<1>6. SamePending(fates, fates')
  BY DEF SamePending
<1>7. SameThunks
  <2>1. \A n \in Nat \ {0} : \A i \in 1..n : i = n \/ i \in 1..n - 1
    OBVIOUS
  <2>2. QED
    BY <1>2, <1>3, <2>1 DEF SameThunks
<1>8. SamePlaces(frames, execs, frames', execs')
  BY <1>1, <1>5, MarkedPlaces
<1>9. QED
  BY <1>1, <1>6, <1>7, <1>8, CarriedWaiting, ThunksRan

\* A drain takes entries of the top frame.
LEMMA TakeFromOnce ==
  ASSUME OnceInv, Dispatching, NEW f \in Frames, f.defer = Top.defer, f.defers = Top.defers,
         NEW k \in 1..Len(f.defers) + 1, NEW v, NEW p, TakeFrom(f, k, v, p), fates' = fates
  PROVE  Waiting(frames', execs', fates') /\ ThunkRan(frames', fates')
<1>1. /\ TInv /\ Waiting(frames, execs, fates) /\ ThunkRan(frames, fates)
      /\ status = "running" /\ Last(execs).todo = <<>>
  BY DEF OnceInv, Dispatching
<1>2. PICK g, e : /\ Taken(f, k - 1, v, g, e)
                  /\ frames' = SetTop(g) /\ execs' = SetExec(e) /\ pc' = p
  BY <1>1, TakenIs
<1>3. Waiting(frames', execs', fates)
  BY <1>1, <1>2, TakenWaiting
<1>4. SameThunks
  <2>1. g \in Frames /\ e \in ExecType /\ g.defer = Top.defer
    BY <1>2 DEF Taken
  <2>2. /\ Len(frames') = Len(frames) /\ frames'[Len(frames)] = g
        /\ \A i \in 1..Len(frames) - 1 : frames'[i] = frames[i]
    BY <1>1, <1>2, <2>1, InPlaceLists
  <2>3. Top = frames[Len(frames)] /\ Len(frames) \in Nat \ {0}
    BY <1>1, Running
  <2>4. QED
    BY <2>1, <2>2, <2>3 DEF SameThunks
<1>5. SamePending(fates, fates')
  BY DEF SamePending
<1>6. QED
  BY <1>1, <1>3, <1>4, <1>5, ThunksRan

LEMMA ScopePopOnce ==
  ASSUME OnceInv, Dispatching, NEW f \in Frames, f.defer = Top.defer, f.defers = Top.defers,
         NEW scoped, NEW v, NEW p, ScopePop(f, scoped, v, p), fates' = fates
  PROVE  Waiting(frames', execs', fates') /\ ThunkRan(frames', fates')
<1>1. ASSUME NEW k \in MarksOf(f), TakeFrom(f, k, v, p)
      PROVE  Waiting(frames', execs', fates') /\ ThunkRan(frames', fates')
  <2>1. k \in 1..Len(f.defers) + 1
    BY <1>1 DEF MarksOf, Frames
  <2>2. QED
    BY <1>1, <2>1, TakeFromOnce
<1>2. CASE Goto(f, p)
  BY <1>2, ReplacedOnce DEF Goto, Dispatching
<1>3. QED
  BY <1>1, <1>2 DEF ScopePop

LEMMA EmitRetOnce ==
  ASSUME OnceInv, Dispatching, NEW v, EmitRet(v), fates' = fates
  PROVE  Waiting(frames', execs', fates') /\ ThunkRan(frames', fates')
<1>1. Top \in Frames /\ 1 \in 1..Len(Top.defers) + 1
  BY Running DEF OnceInv, Dispatching, Frames
<1>2. QED
  BY <1>1, TakeFromOnce, ReplacedOnce DEF EmitRet, Goto, Dispatching

-----------------------------------------------------------------------------
LEMMA OpenBlockOnce == OnceInv /\ OpenBlock => Waiting(frames, execs, fates)' /\ ThunkRan(frames, fates)'
<1> SUFFICES ASSUME OnceInv, OpenBlock
             PROVE  Waiting(frames', execs', fates') /\ ThunkRan(frames', fates')
  OBVIOUS
<1>1. status = "running" /\ TInv /\ execs' = execs /\ fates' = fates
  BY DEF OpenBlock, InFn, InBody, Dispatching, OnceInv
<1>2. PICK scoped \in BOOLEAN : frames' = SetTop(Marked(Top, scoped))
  BY DEF OpenBlock
<1>3. Top \in Frames /\ Marked(Top, scoped) \in Frames
  BY <1>1, Running, MarkedIs
<1>4. /\ Marked(Top, scoped).defer = Top.defer
      /\ \/ Marked(Top, scoped).defers = Top.defers
         \/ Marked(Top, scoped).defers = Append(Top.defers, Sentinel)
  BY <1>3 DEF Marked, Frames
<1>5. QED
  BY <1>1, <1>2, <1>3, <1>4, ReplacedOnce

LEMMA LoopTestOnce == OnceInv /\ LoopTest => Waiting(frames, execs, fates)' /\ ThunkRan(frames, fates)'
<1> SUFFICES ASSUME OnceInv, LoopTest
             PROVE  Waiting(frames', execs', fates') /\ ThunkRan(frames', fates')
  OBVIOUS
<1>1. status = "running" /\ TInv /\ execs' = execs /\ fates' = fates
  BY DEF LoopTest, Dispatching, OnceInv
<1>2. Top \in Frames /\ SetTop(Top) = frames
  BY <1>1, Running
<1>3. CASE frames' = SetTop(Marked(Top, Last(pc.blocks).scoped))
  <2> DEFINE scoped == Last(pc.blocks).scoped
  <2>1. Marked(Top, scoped) \in Frames
    BY <1>2, MarkedIs
  <2>2. /\ Marked(Top, scoped).defer = Top.defer
        /\ \/ Marked(Top, scoped).defers = Top.defers
           \/ Marked(Top, scoped).defers = Append(Top.defers, Sentinel)
    BY <1>2 DEF Marked, Frames
  <2>3. QED
    BY <1>1, <1>2, <1>3, <2>1, <2>2, ReplacedOnce
<1>4. CASE frames' = frames
  BY <1>1, <1>2, <1>4, ReplacedOnce
<1>5. QED
  BY <1>3, <1>4 DEF LoopTest

LEMMA EndBlockOnce == OnceInv /\ EndBlock => Waiting(frames, execs, fates)' /\ ThunkRan(frames, fates)'
<1> SUFFICES ASSUME OnceInv, EndBlock
             PROVE  Waiting(frames', execs', fates') /\ ThunkRan(frames', fates')
  OBVIOUS
<1>1. Dispatching /\ TInv /\ status = "running" /\ fates' = fates
  BY DEF EndBlock, InFn, InBody, Dispatching, OnceInv
<1>2. \E v \in Values : \E p : ScopePop(Top, Last(pc.blocks).scoped, v, p)
  BY DEF EndBlock
<1>3. Top \in Frames
  BY <1>1, Running
<1>4. QED
  BY <1>1, <1>2, <1>3, ScopePopOnce

LEMMA EscapeOnce == OnceInv /\ Escape => Waiting(frames, execs, fates)' /\ ThunkRan(frames, fates)'
<1> SUFFICES ASSUME OnceInv, Escape
             PROVE  Waiting(frames', execs', fates') /\ ThunkRan(frames', fates')
  OBVIOUS
<1>1. Dispatching /\ TInv /\ status = "running" /\ fates' = fates
  BY DEF Escape, InFn, InBody, Dispatching, OnceInv
<1>2. PICK i \in LoopPositions : \E v \in Values : \E p :
        ScopePop([Top EXCEPT !.strayed = @ \/ \E j \in DOMAIN pc.blocks :
                                                  j > i /\ pc.blocks[j].scoped],
                 pc.blocks[i].scoped, v, p)
  BY DEF Escape
<1> DEFINE crosses == \E j \in DOMAIN pc.blocks : j > i /\ pc.blocks[j].scoped
           f == [Top EXCEPT !.strayed = @ \/ crosses]
<1>3. f \in Frames /\ f.defer = Top.defer /\ f.defers = Top.defers
  <2>1. Top \in Frames /\ crosses \in BOOLEAN
    BY <1>1, Running
  <2> HIDE DEF crosses
  <2>2. QED
    BY <2>1 DEF Frames
<1>4. \E v \in Values : \E p : ScopePop(f, pc.blocks[i].scoped, v, p)
  BY <1>2
<1> HIDE DEF f
<1>5. QED
  BY <1>1, <1>3, <1>4, ScopePopOnce

LEMMA RetOnce == OnceInv /\ (Ret \/ GuardRet) => Waiting(frames, execs, fates)' /\ ThunkRan(frames, fates)'
<1> SUFFICES ASSUME OnceInv, Ret \/ GuardRet
             PROVE  Waiting(frames', execs', fates') /\ ThunkRan(frames', fates')
  OBVIOUS
<1>1. Dispatching /\ fates' = fates /\ \E v : EmitRet(v)
  BY DEF Ret, GuardRet, InBody, Dispatching
<1>2. QED
  BY <1>1, EmitRetOnce

LEMMA TailCallOnce == OnceInv /\ TailCall => Waiting(frames, execs, fates)' /\ ThunkRan(frames, fates)'
<1> SUFFICES ASSUME OnceInv, TailCall
             PROVE  Waiting(frames', execs', fates') /\ ThunkRan(frames', fates')
  OBVIOUS
<1>1. status = "running" /\ calls < MaxCalls /\ TInv /\ execs' = execs /\ fates' = fates
  BY DEF TailCall, InBody, Dispatching, OnceInv
<1>2. PICK hasDefer \in BOOLEAN :
        frames' = SetTop([Top EXCEPT !.fn = calls + 1, !.hasDefer = hasDefer, !.ip = Start])
  BY DEF TailCall
<1> DEFINE f == [Top EXCEPT !.fn = calls + 1, !.hasDefer = hasDefer, !.ip = Start]
<1>3. f \in Frames /\ f.defer = Top.defer /\ f.defers = Top.defers
  <2>1. Top \in Frames /\ calls + 1 \in Nat /\ Start \in Points
    BY <1>1, Running, Around0
  <2> HIDE DEF Start
  <2>2. QED
    BY <2>1 DEF Frames
<1>4. frames' = SetTop(f)
  BY <1>2
<1> HIDE DEF f
<1>5. QED
  BY <1>1, <1>3, <1>4, ReplacedOnce

LEMMA PropagateOnce == OnceInv /\ Propagate => Waiting(frames, execs, fates)' /\ ThunkRan(frames, fates)'
BY DEF OnceInv, Propagate

\* What a push makes of the stack.
LEMMA PushedIs ==
  ASSUME TInv, status = "running", NEW g \in Frames,
         frames' = Append(SetTop([Top EXCEPT !.ip = pc]), g)
  PROVE  \E f \in Frames :
           /\ f = [Top EXCEPT !.ip = pc]
           /\ Len(frames') = Len(frames) + 1 /\ frames'[Len(frames) + 1] = g
           /\ frames'[Len(frames)] = f
           /\ \A i \in 1..Len(frames) - 1 : frames'[i] = frames[i]
           /\ f.fn = Top.fn /\ f.defer = Top.defer /\ f.defers = Top.defers /\ f.result = Top.result
           /\ f.r0 = Top.r0 /\ f.strayed = Top.strayed /\ f.hasDefer = Top.hasDefer /\ f.ip = pc
<1> DEFINE f == [Top EXCEPT !.ip = pc]
           t == SetTop(f)
           n == Len(frames)
<1>1. frames \in Seq(Frames) /\ frames # <<>> /\ n \in Nat \ {0} /\ Top \in Frames
  BY Running DEF TInv, TypeOK, StopsNest
<1>2. /\ f \in Frames /\ f.fn = Top.fn /\ f.defer = Top.defer /\ f.defers = Top.defers
      /\ f.result = Top.result
      /\ f.r0 = Top.r0 /\ f.strayed = Top.strayed /\ f.hasDefer = Top.hasDefer /\ f.ip = pc
  BY <1>1, Around0 DEF Frames
<1> HIDE DEF f
<1>3. /\ t \in Seq(Frames) /\ Len(t) = n /\ t[n] = f
      /\ \A i \in 1..n - 1 : t[i] = frames[i]
  BY <1>1, <1>2, ReplaceIs DEF SetTop
<1>4. frames' = Append(t, g)
  BY DEF f
<1> HIDE DEF t, n
<1>5. /\ Len(Append(t, g)) = Len(t) + 1 /\ Append(t, g)[Len(t) + 1] = g
      /\ \A i \in 1..Len(t) : Append(t, g)[i] = t[i]
  BY <1>3, PushIs
<1>6. n \in 1..n /\ \A i \in 1..n - 1 : i \in 1..n
  BY <1>1
<1>7. /\ Len(frames') = n + 1 /\ frames'[n + 1] = g /\ frames'[n] = f
      /\ \A i \in 1..n - 1 : frames'[i] = frames[i]
  BY <1>3, <1>4, <1>5, <1>6
<1>8. QED
  BY <1>2, <1>7 DEF f, n

\* Its lists are the old ones.
LEMMA PushedLists ==
  ASSUME TInv, status = "running", NEW g \in Frames, g.defers = <<>>,
         frames' = Append(SetTop([Top EXCEPT !.ip = pc]), g), NEW ds
  PROVE  \A i : List(frames', ds, 0, i) = List(frames, ds, 0, i)
<1>1. PICK f \in Frames :
        /\ Len(frames') = Len(frames) + 1 /\ frames'[Len(frames) + 1] = g
        /\ frames'[Len(frames)] = f
        /\ \A i \in 1..Len(frames) - 1 : frames'[i] = frames[i]
        /\ f.defers = Top.defers
  BY PushedIs
<1>2. Len(frames) \in Nat \ {0} /\ Top = frames[Len(frames)]
  BY Running
<1>3. \A n \in Nat \ {0} : /\ n \in 1..n + 1 /\ n \in 1..n /\ n + 1 \in 1..n + 1 /\ ~(n + 1 \in 1..n)
                           /\ \A i \in 1..n - 1 : i \in 1..n /\ i \in 1..n + 1
                           /\ \A i \in 1..n + 1 : i = n + 1 \/ i = n \/ i \in 1..n - 1
  OBVIOUS
<1>4. QED
  BY <1>1, <1>2, <1>3 DEF List

LEMMA EnterOnce == OnceInv /\ (Call \/ CallHere) => Waiting(frames, execs, fates)' /\ ThunkRan(frames, fates)'
<1> SUFFICES ASSUME OnceInv, Call \/ CallHere
             PROVE  Waiting(frames', execs', fates') /\ ThunkRan(frames', fates')
  OBVIOUS
<1>1. PICK hasDefer \in BOOLEAN : Enter(hasDefer)
  BY DEF Call, CallHere
<1> DEFINE g == Frame(calls + 1, 0, hasDefer)
<1>2. /\ status = "running" /\ TInv /\ execs' = execs /\ fates' = fates
      /\ frames' = Append(SetTop([Top EXCEPT !.ip = pc]), g)
  BY <1>1 DEF Enter, InBody, Dispatching, OnceInv
<1>3. g \in Frames /\ g.defers = <<>> /\ g.defer = 0
  <2>1. g \in Frames
    BY <1>2, Around0, FrameIs
  <2>2. QED
    BY <2>1 DEF Frame
<1> HIDE DEF g
<1>4. \A i : List(frames', execs, 0, i) = List(frames, execs, 0, i)
  BY <1>2, <1>3, PushedLists
<1>5. \A c, i : List(frames', execs', c, i) = List(frames, execs, c, i)
  BY <1>2, <1>4 DEF List
<1>6. SamePending(fates, fates')
  BY <1>2 DEF SamePending
<1>7. Waiting(frames', execs', fates')
  BY <1>2, <1>5, <1>6, SameLists DEF OnceInv
<1>8. ThunkRan(frames', fates')
  <2>1. PICK f \in Frames :
          /\ Len(frames') = Len(frames) + 1 /\ frames'[Len(frames) + 1] = g
          /\ frames'[Len(frames)] = f
          /\ \A i \in 1..Len(frames) - 1 : frames'[i] = frames[i]
          /\ f.defer = Top.defer
    BY <1>2, <1>3, PushedIs
  <2>2. Len(frames) \in Nat \ {0} /\ Top = frames[Len(frames)]
    BY <1>2, Running
  <2>3. \A n \in Nat \ {0} : /\ n \in 1..n
                             /\ \A i \in 1..n - 1 : i \in 1..n
                             /\ \A i \in 1..n + 1 : i = n + 1 \/ i = n \/ i \in 1..n - 1
    OBVIOUS
  <2>4. \A i \in 1..Len(frames') : \/ frames'[i].defer = 0
                                   \/ i \in 1..Len(frames) /\ frames'[i].defer = frames[i].defer
    BY <1>3, <2>1, <2>2, <2>3
  <2>5. QED
    BY <1>2, <2>4 DEF ThunkRan, OnceInv
<1>9. QED
  BY <1>7, <1>8

LEMMA DeferOnce == OnceInv /\ Defer => Waiting(frames, execs, fates)' /\ ThunkRan(frames, fates)'
<1> SUFFICES ASSUME OnceInv, Defer
             PROVE  Waiting(frames', execs', fates') /\ ThunkRan(frames', fates')
  OBVIOUS
<1>1. /\ status = "running" /\ TInv /\ execs' = execs /\ fates' = Append(fates, "pending")
      /\ Top.fn # 0 /\ fates \in Seq(Fates)
  BY Around0 DEF Defer, InFn, InBody, Dispatching, OnceInv
<1>2. PICK kind \in {"Always", "OnError"} :
        frames' = SetTop([Top EXCEPT !.defers = Append(@, Entry(kind))])
  BY DEF Defer
<1> DEFINE n == Len(fates)
           N == Len(frames)
           u == Top.defers
           L == Len(u)
           f == [Top EXCEPT !.defers = Append(u, Entry(kind))]
<1>3. u \in Seq(Entries) /\ L \in Nat /\ Top \in Frames /\ n \in Nat /\ N \in Nat \ {0}
  BY <1>1, Running DEF Frames
<1>4. Entry(kind) \in Entries /\ Entry(kind).id = n + 1
  BY <1>1, <1>3, Around0 DEF Entry, Entries, Frames
<1>5. /\ f \in Frames /\ f.defer = Top.defer /\ Len(f.defers) = L + 1
      /\ f.defers[L + 1].id = n + 1 /\ \A a \in 1..L : f.defers[a] = u[a]
  <2>1. Append(u, Entry(kind)) \in Seq(Entries)
    BY <1>3, <1>4
  <2>2. f \in Frames /\ f.defer = Top.defer /\ f.defers = Append(u, Entry(kind))
    BY <1>3, <2>1 DEF Frames
  <2>3. QED
    BY <1>3, <1>4, <2>2
<1>6. /\ frames' = SetTop(f) /\ Last(execs) \in ExecType /\ execs' = SetExec(Last(execs))
      /\ Top = frames[N]
  BY <1>1, <1>2, Running
<1> HIDE DEF f, L, u
<1>7. /\ List(frames', execs', 0, N) = f.defers
      /\ \A c, i : \/ c = 0 /\ i = N
                   \/ c = 1 /\ i = Len(execs)
                   \/ List(frames', execs', c, i) = List(frames, execs, c, i)
      /\ List(frames', execs', 1, Len(execs)) = Last(execs).todo
      /\ Len(frames') = N /\ frames'[N] = f
      /\ \A i \in 1..N - 1 : frames'[i] = frames[i]
  BY <1>1, <1>5, <1>6, InPlaceLists
<1>8. /\ List(frames, execs, 0, N) = u
      /\ List(frames, execs, 1, Len(execs)) = Last(execs).todo
  BY <1>1, TopLists DEF u
<1>9. \A c, i : ~(c = 0 /\ i = N) => List(frames', execs', c, i) = List(frames, execs, c, i)
  BY <1>7, <1>8
<1> DEFINE Old(c, i, k, id) == Has(frames, execs, c, i, k, id)
           New(c, i, k, id) == Has(frames', execs', c, i, k, id)
<1>10. \A x \in Nat : /\ x + 1 \in 1..x + 1 /\ ~(x + 1 \in 1..x) /\ x + 1 # 0
                      /\ \A a \in 1..x : a \in 1..x + 1
                      /\ \A a \in 1..x + 1 : a \in 1..x \/ a = x + 1
  OBVIOUS
<1>11. \A k, id : New(0, N, k, id) <=> Old(0, N, k, id) \/ (k = L + 1 /\ id = n + 1)
  <2>1. \A k, id : New(0, N, k, id) <=> k \in 1..L + 1 /\ f.defers[k].id = id /\ id # 0
    BY <1>5, <1>7 DEF Has
  <2>2. \A k, id : Old(0, N, k, id) <=> k \in 1..L /\ u[k].id = id /\ id # 0
    BY <1>8 DEF Has, L
  <2> HIDE DEF Old, New
  <2>3. \A k, id : New(0, N, k, id) => Old(0, N, k, id) \/ (k = L + 1 /\ id = n + 1)
    BY <1>3, <1>5, <1>10, <2>1, <2>2
  <2>4. \A k, id : Old(0, N, k, id) => New(0, N, k, id)
    BY <1>3, <1>5, <1>10, <2>1, <2>2
  <2>5. n + 1 # 0 /\ L + 1 \in 1..L + 1
    BY <1>3, <1>10
  <2>6. New(0, N, L + 1, n + 1)
    BY <1>5, <2>1, <2>5
  <2>7. QED
    BY <2>3, <2>4, <2>6
<1>12. \A c, i, k, id : New(c, i, k, id) <=> \/ Old(c, i, k, id)
                                             \/ c = 0 /\ i = N /\ k = L + 1 /\ id = n + 1
  <2>1. \A c, i, k, id : ~(c = 0 /\ i = N) => (New(c, i, k, id) <=> Old(c, i, k, id))
    BY <1>9 DEF Has
  <2> HIDE DEF Old, New
  <2>2. QED
    BY <1>11, <2>1
<1>13. /\ \A c, i, k, d, j, l, id : Old(c, i, k, id) /\ Old(d, j, l, id) => c = d /\ i = j /\ k = l
       /\ \A c, i, k, id : Old(c, i, k, id) => id \in 1..n /\ fates[id] = "pending"
       /\ \A id \in 1..n : fates[id] = "pending" => \E c, i, k : Old(c, i, k, id)
  BY DEF Distinct, AllPending, PendingWaits, Waiting, OnceInv
<1> HIDE DEF Old, New
<1>14. /\ Len(fates') = n + 1 /\ fates'[n + 1] = "pending"
       /\ \A id \in 1..n : fates'[id] = fates[id] /\ id \in 1..n + 1
  BY <1>1, <1>3
<1> HIDE DEF n
<1>15. \A c, i, k, d, j, l, id : New(c, i, k, id) /\ New(d, j, l, id) => c = d /\ i = j /\ k = l
  <2>1. ~(n + 1 \in 1..n)
    BY <1>3, <1>10
  <2>2. QED
    BY <1>12, <1>13, <2>1
<1>16. \A c, i, k, id : New(c, i, k, id) => id \in 1..n + 1 /\ fates'[id] = "pending"
  BY <1>3, <1>10, <1>12, <1>13, <1>14
<1>17. \A id \in 1..n + 1 : fates'[id] = "pending" => \E c, i, k : New(c, i, k, id)
  <2> SUFFICES ASSUME NEW id \in 1..n + 1, fates'[id] = "pending"
               PROVE  \E c, i, k : New(c, i, k, id)
    OBVIOUS
  <2>1. CASE id = n + 1
    BY <1>12, <2>1
  <2>2. CASE id \in 1..n
    <3>1. PICK c, i, k : Old(c, i, k, id)
      BY <1>13, <1>14, <2>2
    <3>2. New(c, i, k, id)
      BY <1>12, <3>1
    <3>3. QED
      BY <3>2
  <2>3. QED
    BY <1>3, <1>10, <2>1, <2>2
<1>18. Waiting(frames', execs', fates')
  BY <1>14, <1>15, <1>16, <1>17 DEF Waiting, Distinct, AllPending, PendingWaits, New
<1>19. ThunkRan(frames', fates')
  <2>1. \A x \in Nat \ {0} : \A i \in 1..x : i = x \/ i \in 1..x - 1
    OBVIOUS
  <2>2. \A i \in 1..N : frames'[i].defer = frames[i].defer
    BY <1>3, <1>5, <1>6, <1>7, <2>1
  <2>3. \A i \in 1..N : frames[i].defer # 0 => frames[i].defer \in 1..n /\ fates[frames[i].defer] # "pending"
    BY DEF OnceInv, ThunkRan, n
  <2>4. QED
    BY <1>7, <1>14, <2>2, <2>3 DEF ThunkRan
<1>20. QED
  BY <1>18, <1>19

-----------------------------------------------------------------------------
\* The end of an execute(): the others keep what they have to drain.
LEMMA EndedIs ==
  ASSUME TInv, status = "running", Len(execs) # 1, NEW fs, EndExec(fs)
  PROVE  \E n \in Nat \ {0} :
           /\ Len(execs) = n + 1 /\ Len(execs') = n
           /\ \A j \in 1..n : execs'[j].todo = execs[j].todo
           /\ \A j \in 1..n - 1 : execs'[j] = execs[j]
           /\ stop' = execs[n].saved
<1>1. execs \in Seq(ExecType) /\ execs # <<>> /\ Len(execs) \in Nat \ {0}
  BY Running DEF TInv, TypeOK, ExecType
<1>2. PICK n \in Nat \ {0} : Len(execs) = n + 1
  <2>1. \A m \in Nat \ {0} : m # 1 => m - 1 \in Nat \ {0} /\ m = (m - 1) + 1
    OBVIOUS
  <2>2. Len(execs) - 1 \in Nat \ {0} /\ Len(execs) = (Len(execs) - 1) + 1
    BY <1>1, <2>1
  <2>3. QED
    BY <2>2
<1>3. /\ n + 1 - 1 = n /\ n \in 1..n + 1 /\ n \in 1..n /\ n + 1 > 1 /\ n + 1 - 2 = n - 1
      /\ \A j \in 1..n : j = n \/ j \in 1..n - 1
  OBVIOUS
<1>4. /\ Len(Front(execs)) = n /\ \A i \in 1..n : Front(execs)[i] = execs[i]
      /\ execs[n] \in ExecType
  <2>1. /\ Len(Front(execs)) = Len(execs) - 1
        /\ \A i \in 1..Len(execs) - 1 : Front(execs)[i] = execs[i]
    BY <1>1, FrontIs
  <2>2. execs[n] \in ExecType
    BY <1>1, <1>2, <1>3
  <2>3. QED
    BY <1>2, <1>3, <2>1, <2>2
<1>5. PICK x \in ExecType : x = [execs[n] EXCEPT !.saved = 0] /\ x.todo = execs[n].todo
  <2>1. \A y \in ExecType : /\ [y EXCEPT !.saved = 0] \in ExecType
                            /\ [y EXCEPT !.saved = 0].todo = y.todo
    BY DEF ExecType
  <2>2. QED
    BY <1>4, <2>1
<1>6. execs' = [Front(execs) EXCEPT ![Len(execs) - 1] = x] /\ stop' = execs[n].saved
  <2>1. /\ execs' = [Front(execs) EXCEPT ![Len(execs) - 1].saved = 0]
        /\ stop' = execs[Len(execs) - 1].saved
    BY DEF EndExec
  <2>2. Len(execs) - 1 = n
    BY <1>2, <1>3
  <2>3. QED
    BY <1>3, <1>4, <1>5, <2>1, <2>2
<1>7. /\ Len(execs') = n /\ execs'[n] = x /\ \A j \in 1..n - 1 : execs'[j] = execs[j]
  <2>1. Len(execs) > 1
    BY <1>2, <1>3
  <2>2. /\ Len(execs') = Len(execs) - 1 /\ execs'[Len(execs) - 1] = x
        /\ \A i \in 1..Len(execs) - 2 : execs'[i] = execs[i]
    BY <1>1, <1>6, <2>1, PopIs
  <2>3. QED
    BY <1>2, <1>3, <2>2
<1>8. \A j \in 1..n : execs'[j].todo = execs[j].todo
  BY <1>3, <1>5, <1>7
<1>9. QED
  BY <1>2, <1>6, <1>7, <1>8

\* If its own drain is done, nothing is dropped.
LEMMA EndedLists ==
  ASSUME TInv, status = "running", Len(execs) # 1, NEW fs, EndExec(fs), Last(execs).todo = <<>>, NEW gs
  PROVE  \A i : List(gs, execs', 1, i) = List(gs, execs, 1, i)
<1>1. PICK n \in Nat \ {0} :
           /\ Len(execs) = n + 1 /\ Len(execs') = n
           /\ \A j \in 1..n : execs'[j].todo = execs[j].todo
  BY EndedIs
<1>2. execs[n + 1].todo = <<>>
  BY <1>1, Running
<1>3. (\A j \in 1..n : j \in 1..n + 1) /\ (\A j \in 1..n + 1 : j \in 1..n \/ j = n + 1)
  OBVIOUS
<1>4. QED
  BY <1>1, <1>2, <1>3 DEF List

\* Frames that differ in their history only.
LEMMA StrayedIs ==
  ASSUME TInv, status = "running", Len(execs) # 1, RuntimeError
  PROVE  /\ Len(frames') = Len(frames)
         /\ \A i \in 1..Len(frames) : frames'[i] = [frames[i] EXCEPT !.strayed = @ \/ i > stop]
         /\ \A i \in 1..Len(frames) :
              /\ frames'[i].defers = frames[i].defers /\ frames'[i].defer = frames[i].defer
              /\ frames'[i].fn = frames[i].fn /\ frames'[i].result = frames[i].result
              /\ frames'[i].r0 = frames[i].r0
         /\ EndExec(frames') /\ Last(execs).todo = <<>> /\ status' = status /\ calls' = calls
         /\ stop + 1 \in 1..Len(frames)
         /\ fates' = [id \in DOMAIN fates |->
                        IF frames[stop + 1].defer = id THEN "failed" ELSE fates[id]]
<1> DEFINE fs == [i \in DOMAIN frames |-> [frames[i] EXCEPT !.strayed = @ \/ i > stop]]
<1>1. /\ frames' = fs /\ EndExec(fs) /\ status' = status /\ calls' = calls
      /\ fates' = [id \in DOMAIN fates |->
                     IF frames[stop + 1].defer = id THEN "failed" ELSE fates[id]]
      /\ Last(execs).todo = <<>>
  BY DEF RuntimeError, InBody, Dispatching
<1>2. /\ frames \in Seq(Frames) /\ Len(frames) \in Nat \ {0} /\ DOMAIN frames = 1..Len(frames)
      /\ stop \in Nat /\ stop < Len(frames)
  BY Running DEF TInv, TypeOK, StopsNest
<1>3. \A i \in 1..Len(frames) : fs[i] = [frames[i] EXCEPT !.strayed = @ \/ i > stop]
  BY <1>2
<1>4. Len(fs) = Len(frames)
  <2>1. DOMAIN fs = 1..Len(frames)
    BY <1>2
  <2> HIDE DEF fs
  <2>2. QED
    BY <1>2, <2>1
<1> HIDE DEF fs
<1>5. \A i \in 1..Len(frames) : frames[i] \in Frames
  BY <1>2
<1>6. \A f \in Frames : \A b : /\ [f EXCEPT !.strayed = b].defers = f.defers
                                 /\ [f EXCEPT !.strayed = b].defer = f.defer
                                 /\ [f EXCEPT !.strayed = b].fn = f.fn
                                 /\ [f EXCEPT !.strayed = b].result = f.result
                                 /\ [f EXCEPT !.strayed = b].r0 = f.r0
  BY DEF Frames
<1>7. stop + 1 \in 1..Len(frames)
  BY <1>2
<1>8. \A i \in 1..Len(frames) :
              /\ fs[i].defers = frames[i].defers /\ fs[i].defer = frames[i].defer
              /\ fs[i].fn = frames[i].fn /\ fs[i].result = frames[i].result
              /\ fs[i].r0 = frames[i].r0
  <2> SUFFICES ASSUME NEW i \in 1..Len(frames)
               PROVE  /\ fs[i].defers = frames[i].defers /\ fs[i].defer = frames[i].defer
                      /\ fs[i].fn = frames[i].fn /\ fs[i].result = frames[i].result
                      /\ fs[i].r0 = frames[i].r0
    OBVIOUS
  <2>1. PICK f \in Frames : f = frames[i]
    BY <1>5
  <2>2. PICK b : b = (f.strayed \/ i > stop)
    OBVIOUS
  <2>3. fs[i] = [f EXCEPT !.strayed = b]
    BY <1>3, <2>1, <2>2
  <2>4. QED
    BY <1>6, <2>1, <2>3
<1>9. QED
  BY <1>1, <1>3, <1>4, <1>7, <1>8

LEMMA RuntimeErrorOnce == OnceInv /\ RuntimeError => Waiting(frames, execs, fates)' /\ ThunkRan(frames, fates)'
<1> SUFFICES ASSUME OnceInv, RuntimeError
             PROVE  Waiting(frames', execs', fates') /\ ThunkRan(frames', fates')
  OBVIOUS
<1>1. status = "running" /\ TInv
  BY DEF RuntimeError, InBody, Dispatching, OnceInv
<1>2. CASE Len(execs) = 1
  BY <1>2 DEF RuntimeError, OnceInv
<1>3. CASE Len(execs) # 1
  <2>1. /\ Len(frames') = Len(frames)
        /\ \A i \in 1..Len(frames) : frames'[i].defers = frames[i].defers /\ frames'[i].defer = frames[i].defer
        /\ EndExec(frames') /\ Last(execs).todo = <<>>
        /\ stop + 1 \in 1..Len(frames)
        /\ fates' = [id \in DOMAIN fates |->
                       IF frames[stop + 1].defer = id THEN "failed" ELSE fates[id]]
    BY <1>1, <1>3, StrayedIs
  <2>2. \A i : List(frames', execs', 1, i) = List(frames', execs, 1, i)
    BY <1>1, <1>3, <2>1, EndedLists
  <2>3. \A c, i : List(frames', execs', c, i) = List(frames, execs, c, i)
    BY <2>1, <2>2 DEF List
  <2>4. SamePending(fates, fates')
    <3>1. fates \in Seq(Fates) /\ DOMAIN fates = 1..Len(fates) /\ Len(fates) \in Nat
      BY <1>1, Around0
    <3>2. DOMAIN fates' = 1..Len(fates) /\ Len(fates') = Len(fates)
      BY <2>1, <3>1
    <3>3. \A id \in 1..Len(fates) : frames[stop + 1].defer = id => fates[id] # "pending" /\ fates'[id] = "failed"
      <4>1. 0 \notin 1..Len(fates)
        BY <3>1
      <4>2. QED
        BY <2>1, <3>1, <4>1 DEF OnceInv, ThunkRan
    <3>4. \A id \in 1..Len(fates) : frames[stop + 1].defer # id => fates'[id] = fates[id]
      BY <2>1, <3>1
    <3>5. QED
      BY <3>2, <3>3, <3>4 DEF SamePending
  <2>5. SameThunks
    BY <2>1 DEF SameThunks
  <2>6. QED
    BY <1>1, <2>3, <2>4, <2>5, SameLists, ThunksRan DEF OnceInv
<1>4. QED
  BY <1>2, <1>3

-----------------------------------------------------------------------------
(***************************************************************************)
(* OP_RET: what is left of the stacks, and the statements that are lost.   *)
(***************************************************************************)
LEMMA ReturnIs ==
  ASSUME TInv, Return
  PROVE  \E n \in Nat :
           /\ Len(frames) = n + 1 /\ Len(frames') = n
           /\ \A i \in 1..n : /\ frames'[i].defers = frames[i].defers /\ frames'[i].defer = frames[i].defer
                              /\ frames'[i].fn = frames[i].fn /\ frames'[i].result = frames[i].result
                              /\ frames'[i].strayed = frames[i].strayed
                              /\ frames'[i].hasDefer = frames[i].hasDefer /\ frames'[i].ip = frames[i].ip
           /\ \A i \in 1..n : \/ frames'[i].r0 = frames[i].r0
                              \/ i = n /\ n # stop /\ Top.result = "r0"
           /\ Top = frames[n + 1] /\ Last(execs).todo = <<>> /\ status = "running" /\ calls' = calls
           /\ fates' = [id \in DOMAIN fates |->
                          IF \E k \in DOMAIN Top.defers : Top.defers[k].id = id THEN "lost" ELSE fates[id]]
           /\ \/ n = stop /\ Len(execs) = 1 /\ execs' = execs /\ stop' = stop /\ status' = "done" /\ pc' = pc
              \/ n = stop /\ Len(execs) # 1 /\ EndExec(Front(frames)) /\ status' = status
              \/ n # stop /\ execs' = execs /\ stop' = stop /\ status' = status /\ pc' = Last(Front(frames)).ip
           /\ n # 0 => Last(Front(frames)).ip = frames[n].ip
<1> DEFINE fs == Front(frames)
           g == [fs EXCEPT ![Len(fs)].r0 = "foreign"]
<1>1. status = "running" /\ calls' = calls /\ Last(execs).todo = <<>>
  BY DEF Return, Dispatching
<1>2. /\ frames \in Seq(Frames) /\ frames # <<>> /\ Len(frames) \in Nat \ {0}
      /\ Top = frames[Len(frames)]
  BY <1>1, Running DEF TInv, TypeOK, StopsNest, ExecType
<1>3. /\ fs \in Seq(Frames) /\ Len(fs) = Len(frames) - 1
      /\ \A i \in 1..Len(frames) - 1 : fs[i] = frames[i]
  BY <1>2, FrontIs
<1>4. /\ frames' = fs \/ (frames' = g /\ Len(fs) # stop /\ Top.result = "r0")
      /\ \/ Len(fs) = stop /\ Len(execs) = 1 /\ execs' = execs /\ stop' = stop /\ status' = "done" /\ pc' = pc
         \/ Len(fs) = stop /\ Len(execs) # 1 /\ EndExec(fs) /\ status' = status
         \/ Len(fs) # stop /\ execs' = execs /\ stop' = stop /\ status' = status /\ pc' = Last(fs).ip
      /\ fates' = [id \in DOMAIN fates |->
            IF \E k \in DOMAIN Top.defers : Top.defers[k].id = id THEN "lost" ELSE fates[id]]
  BY DEF Return, AtStop
<1> HIDE DEF fs
<1>5. PICK n \in Nat : Len(frames) = n + 1 /\ n = Len(fs)
  BY <1>2, <1>3
<1>6. \A i \in 1..n : fs[i] = frames[i] /\ fs[i] \in Frames
  BY <1>3, <1>5
<1>7. /\ Len(g) = n
      /\ \A i \in 1..n : g[i] = IF i = n THEN [frames[i] EXCEPT !.r0 = "foreign"] ELSE frames[i]
  <2>1. DOMAIN fs = 1..n
    BY <1>3, <1>5
  <2>2. \A i \in 1..n : g[i] = IF i = n THEN [fs[i] EXCEPT !.r0 = "foreign"] ELSE fs[i]
    BY <1>5, <2>1
  <2>3. DOMAIN g = 1..n
    BY <2>1
  <2> HIDE DEF g
  <2>4. QED
    BY <1>6, <2>2, <2>3
<1> HIDE DEF g
<1>8. \A f \in Frames : /\ [f EXCEPT !.r0 = "foreign"].defers = f.defers
                        /\ [f EXCEPT !.r0 = "foreign"].defer = f.defer
                        /\ [f EXCEPT !.r0 = "foreign"].fn = f.fn
                        /\ [f EXCEPT !.r0 = "foreign"].result = f.result
                        /\ [f EXCEPT !.r0 = "foreign"].strayed = f.strayed
                        /\ [f EXCEPT !.r0 = "foreign"].hasDefer = f.hasDefer
                        /\ [f EXCEPT !.r0 = "foreign"].ip = f.ip
  BY DEF Frames
<1>9. \A i \in 1..n : /\ g[i].defers = frames[i].defers /\ g[i].defer = frames[i].defer
                      /\ g[i].fn = frames[i].fn /\ g[i].result = frames[i].result
                      /\ g[i].strayed = frames[i].strayed
                      /\ g[i].hasDefer = frames[i].hasDefer /\ g[i].ip = frames[i].ip
  <2> SUFFICES ASSUME NEW i \in 1..n
               PROVE  /\ g[i].defers = frames[i].defers /\ g[i].defer = frames[i].defer
                      /\ g[i].fn = frames[i].fn /\ g[i].result = frames[i].result
                      /\ g[i].strayed = frames[i].strayed
                      /\ g[i].hasDefer = frames[i].hasDefer /\ g[i].ip = frames[i].ip
    OBVIOUS
  <2>1. PICK f \in Frames : f = frames[i]
    BY <1>6
  <2>2. g[i] = f \/ g[i] = [f EXCEPT !.r0 = "foreign"]
    BY <1>7, <2>1
  <2>3. QED
    BY <1>8, <2>1, <2>2
<1>10. \A i \in 1..n : i # n => g[i].r0 = frames[i].r0
  BY <1>7
<1>11. n # 0 => Last(fs).ip = frames[n].ip
  BY <1>5, <1>6 DEF Last
<1>12. /\ Len(frames') = n
       /\ \A i \in 1..n : /\ frames'[i].defers = frames[i].defers /\ frames'[i].defer = frames[i].defer
                          /\ frames'[i].fn = frames[i].fn /\ frames'[i].result = frames[i].result
                          /\ frames'[i].strayed = frames[i].strayed
                          /\ frames'[i].hasDefer = frames[i].hasDefer /\ frames'[i].ip = frames[i].ip
       /\ \A i \in 1..n : \/ frames'[i].r0 = frames[i].r0
                          \/ i = n /\ n # stop /\ Top.result = "r0"
  <2>1. CASE frames' = fs
    BY <1>5, <1>6, <2>1
  <2>2. CASE frames' = g /\ Len(fs) # stop /\ Top.result = "r0"
    BY <1>5, <1>7, <1>9, <1>10, <2>2
  <2>3. QED
    BY <1>4, <2>1, <2>2
<1>13. Top = frames[n + 1]
  BY <1>2, <1>5
<1>14. QED
  BY <1>1, <1>4, <1>5, <1>11, <1>12, <1>13 DEF fs

LEMMA ReturnOnce == OnceInv /\ Return => Waiting(frames, execs, fates)' /\ ThunkRan(frames, fates)'
<1> SUFFICES ASSUME OnceInv, Return
             PROVE  Waiting(frames', execs', fates') /\ ThunkRan(frames', fates')
  OBVIOUS
<1>1. TInv /\ Waiting(frames, execs, fates) /\ ThunkRan(frames, fates)
  BY DEF OnceInv
<1>2. PICK n \in Nat :
           /\ Len(frames) = n + 1 /\ Len(frames') = n
           /\ \A i \in 1..n : /\ frames'[i].defers = frames[i].defers /\ frames'[i].defer = frames[i].defer
           /\ Top = frames[n + 1] /\ Last(execs).todo = <<>> /\ status = "running"
           /\ fates' = [id \in DOMAIN fates |->
                          IF \E k \in DOMAIN Top.defers : Top.defers[k].id = id THEN "lost" ELSE fates[id]]
           /\ execs' = execs \/ (Len(execs) # 1 /\ EndExec(Front(frames)))
  BY <1>1, ReturnIs
<1>3. (\A i \in 1..n : i \in 1..n + 1) /\ (\A i \in 1..n + 1 : i \in 1..n \/ i = n + 1)
      /\ ~(n + 1 \in 1..n) /\ n + 1 \in 1..n + 1
  OBVIOUS
<1>4. \A i : List(frames', execs', 1, i) = List(frames', execs, 1, i)
  BY <1>1, <1>2, EndedLists
<1>5. List(frames', execs', 0, n + 1) = <<>>
  BY <1>2, <1>3 DEF List
<1>6. \A c, i : ~(c = 0 /\ i = n + 1) => List(frames', execs', c, i) = List(frames, execs, c, i)
  BY <1>2, <1>3, <1>4 DEF List
<1>7. List(frames, execs, 0, n + 1) = Top.defers /\ Top.defers \in Seq(Entries)
  BY <1>1, <1>2, TopLists
<1> DEFINE Old(c, i, k, id) == Has(frames, execs, c, i, k, id)
           New(c, i, k, id) == Has(frames', execs', c, i, k, id)
<1>8. \A c, i, k, id : New(c, i, k, id) <=> Old(c, i, k, id) /\ ~(c = 0 /\ i = n + 1)
  <2>1. \A c, i, k, id : ~(c = 0 /\ i = n + 1) => (New(c, i, k, id) <=> Old(c, i, k, id))
    BY <1>6 DEF Has
  <2>2. \A k, id : ~New(0, n + 1, k, id)
    BY <1>5 DEF Has
  <2> HIDE DEF Old, New
  <2>3. QED
    BY <2>1, <2>2
<1>9. fates \in Seq(Fates) /\ DOMAIN fates = 1..Len(fates) /\ Len(fates) \in Nat
  BY <1>1, Around0
<1>10. Len(fates') = Len(fates) /\ DOMAIN fates' = 1..Len(fates)
  BY <1>2, <1>9
<1> DEFINE lost(id) == \E k \in DOMAIN Top.defers : Top.defers[k].id = id
<1>11. \A id \in 1..Len(fates) : fates'[id] = IF lost(id) THEN "lost" ELSE fates[id]
  BY <1>2, <1>9
<1>12. \A id \in 1..Len(fates) : lost(id) <=> \E k : Old(0, n + 1, k, id)
  <2>1. DOMAIN Top.defers = 1..Len(Top.defers) /\ 0 \notin 1..Len(fates)
    BY <1>7, <1>9
  <2>2. QED
    BY <1>7, <2>1 DEF Has
<1>13. /\ \A c, i, k, d, j, l, id : Old(c, i, k, id) /\ Old(d, j, l, id) => c = d /\ i = j /\ k = l
       /\ \A c, i, k, id : Old(c, i, k, id) => id \in 1..Len(fates) /\ fates[id] = "pending"
       /\ \A id \in 1..Len(fates) : fates[id] = "pending" => \E c, i, k : Old(c, i, k, id)
  BY <1>1 DEF Distinct, AllPending, PendingWaits, Waiting
<1> HIDE DEF Old, New, lost
<1>14. \A c, i, k, d, j, l, id : New(c, i, k, id) /\ New(d, j, l, id) => c = d /\ i = j /\ k = l
  BY <1>8, <1>13
<1>15. \A c, i, k, id : New(c, i, k, id) => id \in 1..Len(fates) /\ fates'[id] = "pending"
  <2> SUFFICES ASSUME NEW c, NEW i, NEW k, NEW id, New(c, i, k, id)
               PROVE  id \in 1..Len(fates) /\ fates'[id] = "pending"
    OBVIOUS
  <2>1. Old(c, i, k, id) /\ ~(c = 0 /\ i = n + 1) /\ id \in 1..Len(fates) /\ fates[id] = "pending"
    BY <1>8, <1>13
  <2>2. ~lost(id)
    BY <1>12, <1>13, <2>1
  <2>3. QED
    BY <1>11, <2>1, <2>2
<1>16. \A id \in 1..Len(fates) : fates'[id] = "pending" => \E c, i, k : New(c, i, k, id)
  <2> SUFFICES ASSUME NEW id \in 1..Len(fates), fates'[id] = "pending"
               PROVE  \E c, i, k : New(c, i, k, id)
    OBVIOUS
  <2>1. ~lost(id) /\ fates[id] = "pending"
    BY <1>11
  <2>2. PICK c, i, k : Old(c, i, k, id)
    BY <1>13, <2>1
  <2>3. ~(c = 0 /\ i = n + 1)
    BY <1>12, <2>1, <2>2
  <2>4. New(c, i, k, id)
    BY <1>8, <2>2, <2>3
  <2>5. QED
    BY <2>4
<1>17. Waiting(frames', execs', fates')
  BY <1>10, <1>14, <1>15, <1>16 DEF Waiting, Distinct, AllPending, PendingWaits, New
<1>18. ThunkRan(frames', fates')
  <2>1. \A id \in 1..Len(fates) : fates[id] # "pending" => fates'[id] # "pending"
    BY <1>11
  <2>2. QED
    BY <1>1, <1>2, <1>3, <1>10, <2>1 DEF ThunkRan
<1>19. QED
  BY <1>17, <1>18

-----------------------------------------------------------------------------
\* The entry at the head of a drain's list is settled.
LEMMA SettledWaiting ==
  ASSUME TInv, status = "running", Waiting(frames, execs, fates), Last(execs).todo # <<>>,
         NEW d, d = Head(Last(execs).todo), NEW gs, NEW ds,
         List(gs, ds, 1, Len(execs)) = Tail(Last(execs).todo),
         \A c, i : ~(c = 1 /\ i = Len(execs)) => List(gs, ds, c, i) = List(frames, execs, c, i),
         NEW gt, Len(gt) = Len(fates),
         \A id \in 1..Len(fates) : id # d.id => gt[id] = fates[id],
         d.id \in 1..Len(fates) => gt[d.id] # "pending"
  PROVE  Waiting(gs, ds, gt)
<1> DEFINE M == Len(execs)
           u == Last(execs).todo
           Old(c, i, k, id) == Has(frames, execs, c, i, k, id)
           New(c, i, k, id) == Has(gs, ds, c, i, k, id)
<1>1. PICK L \in Nat : /\ Len(u) = L + 1 /\ u[1] = d /\ Len(Tail(u)) = L
                       /\ \A k \in 1..L : Tail(u)[k] = u[k + 1]
  <2>1. u \in Seq(Entries) /\ u # <<>>
    BY TopLists
  <2>2. Len(u) \in Nat \ {0} /\ Len(u) - 1 \in Nat /\ Len(u) = (Len(u) - 1) + 1
    BY <2>1
  <2>3. u[1] = d /\ Len(Tail(u)) = Len(u) - 1 /\ \A k \in 1..(Len(u) - 1) : Tail(u)[k] = u[k + 1]
    BY <2>1
  <2>4. QED
    BY <2>2, <2>3
<1>2. List(frames, execs, 1, M) = u
  BY TopLists
<1>3. /\ \A k \in 1..L : k + 1 \in 1..L + 1 /\ k + 1 # 1 /\ k \in Nat
      /\ \A k \in 1..L + 1 : k = 1 \/ (k - 1 \in 1..L /\ (k - 1) + 1 = k)
      /\ \A k, l \in 1..L : k + 1 = l + 1 => k = l
      /\ 1 \in 1..L + 1
  OBVIOUS
<1>4. \A c, i, k, id : ~(c = 1 /\ i = M) => (New(c, i, k, id) <=> Old(c, i, k, id))
  BY DEF Has
<1>5. \A k, id : Old(1, M, k, id) <=> k \in 1..L + 1 /\ u[k].id = id /\ id # 0
  BY <1>1, <1>2 DEF Has
<1>6. \A k, id : New(1, M, k, id) <=> k \in 1..L /\ Tail(u)[k].id = id /\ id # 0
  BY <1>1 DEF Has
<1>7. /\ \A c, i, k, x, j, l, id : Old(c, i, k, id) /\ Old(x, j, l, id) => c = x /\ i = j /\ k = l
      /\ \A c, i, k, id : Old(c, i, k, id) => id \in 1..Len(fates) /\ fates[id] = "pending"
      /\ \A id \in 1..Len(fates) : fates[id] = "pending" => \E c, i, k : Old(c, i, k, id)
  BY DEF Distinct, AllPending, PendingWaits, Waiting
<1> HIDE DEF Old, New, u
<1>8. \A k, id : New(1, M, k, id) <=> k \in 1..L /\ Old(1, M, k + 1, id)
  BY <1>1, <1>3, <1>5, <1>6
<1> HIDE DEF M
<1>9. ASSUME NEW c, NEW i, NEW k, NEW id, New(c, i, k, id)
      PROVE  \/ c = 1 /\ i = M /\ k \in 1..L /\ Old(1, M, k + 1, id)
             \/ ~(c = 1 /\ i = M) /\ Old(c, i, k, id)
  BY <1>4, <1>8, <1>9
<1>10. ASSUME NEW c, NEW i, NEW k, NEW x, NEW j, NEW l, NEW id, New(c, i, k, id), New(x, j, l, id)
       PROVE  c = x /\ i = j /\ k = l
  <2>1. CASE c = 1 /\ i = M /\ x = 1 /\ j = M
    <3>1. k \in 1..L /\ l \in 1..L /\ k + 1 = l + 1
      BY <1>7, <1>8, <1>10, <2>1
    <3>2. QED
      BY <1>3, <2>1, <3>1
  <2>2. CASE ~(c = 1 /\ i = M /\ x = 1 /\ j = M)
    <3>1. CASE ~(c = 1 /\ i = M) /\ ~(x = 1 /\ j = M)
      BY <1>7, <1>9, <1>10, <3>1
    <3>2. CASE c = 1 /\ i = M
      BY <1>7, <1>9, <1>10, <2>2, <3>2
    <3>3. CASE x = 1 /\ j = M
      BY <1>7, <1>9, <1>10, <2>2, <3>3
    <3>4. QED
      BY <3>1, <3>2, <3>3
  <2>3. QED
    BY <2>1, <2>2
<1>11. \A id : d.id = id /\ id # 0 => Old(1, M, 1, id)
  <2>1. 1 \in 1..L + 1 /\ u[1] = d
    BY <1>1, <1>3
  <2>2. \A id : Old(1, M, 1, id) <=> u[1].id = id /\ id # 0
    BY <1>5, <2>1
  <2>3. QED
    BY <2>1, <2>2
<1>12. ASSUME NEW c, NEW i, NEW k, NEW id, New(c, i, k, id)
       PROVE  id \in 1..Len(gt) /\ gt[id] = "pending"
  <2>1. \E k2 : Old(c, i, k2, id) /\ ~(c = 1 /\ i = M /\ k2 = 1)
    BY <1>3, <1>9, <1>12
  <2>2. id \in 1..Len(fates) /\ fates[id] = "pending" /\ id # 0
    BY <1>7, <2>1 DEF Old, Has
  <2>3. id # d.id
    BY <1>7, <1>11, <2>1, <2>2
  <2>4. QED
    BY <2>2, <2>3
<1>13. ASSUME NEW id \in 1..Len(gt), gt[id] = "pending"
       PROVE  \E c, i, k : New(c, i, k, id)
  <2>1. id # d.id /\ fates[id] = "pending" /\ id \in 1..Len(fates)
    BY <1>13
  <2>2. PICK c, i, k : Old(c, i, k, id)
    BY <1>7, <2>1
  <2>3. CASE c = 1 /\ i = M
    <3>1. k \in 1..L + 1 /\ u[k].id = id
      BY <1>5, <2>2, <2>3 DEF M
    <3>2. k # 1
      BY <1>1, <2>1, <3>1
    <3>3. k - 1 \in 1..L /\ (k - 1) + 1 = k
      BY <1>3, <3>1, <3>2
    <3>4. New(1, M, k - 1, id)
      BY <1>8, <2>2, <2>3, <3>3 DEF M
    <3>5. QED
      BY <3>4
  <2>4. CASE ~(c = 1 /\ i = M)
    <3>1. New(c, i, k, id)
      BY <1>4, <2>2, <2>4 DEF M
    <3>2. QED
      BY <3>1
  <2>5. QED
    BY <2>3, <2>4
<1>14. QED
  BY <1>10, <1>12, <1>13 DEF Waiting, Distinct, AllPending, PendingWaits, New

(***************************************************************************)
(* One round of a drain.                                                   *)
(***************************************************************************)
LEMMA DrainIs ==
  ASSUME TInv, Drain
  PROVE  \E d \in Entries, y \in ExecType :
    LET M == Len(execs)
        N == Len(frames)
        g == Frame(0, d.id, FALSE)
    IN  /\ status = "running" /\ status' = status /\ calls' = calls
        /\ Last(execs).todo # <<>> /\ d = Head(Last(execs).todo) /\ y.todo = Tail(Last(execs).todo)
        /\ execs'[M] = y /\ \A j \in 1..M - 1 : execs'[j] = execs[j]
        /\ \/ /\ d.kind # "Sentinel" /\ d.id \in Nat \ {0} /\ y.saved = stop
              /\ frames' = Append(SetTop([Top EXCEPT !.ip = pc]), g)
              /\ g \in Frames /\ g.defers = <<>> /\ g.defer = d.id /\ g.fn = 0 /\ g.result = "r0"
              /\ g.r0 = "own" /\ g.strayed = FALSE /\ g.hasDefer = FALSE
              /\ Len(execs') = M + 1 /\ execs'[M + 1] = Exec
              /\ stop' = N /\ pc' = Start /\ fates' = [fates EXCEPT ![d.id] = "ran"]
           \/ /\ frames' = frames /\ pc' = pc /\ stop' = stop /\ Len(execs') = M
              /\ y.saved = execs[M].saved
              /\ \/ d = Sentinel /\ fates' = fates
                 \/ d # Sentinel /\ d.id \in Nat \ {0} /\ fates' = [fates EXCEPT ![d.id] = "skipped"]
<1> DEFINE e == Last(execs)
           d == Head(e.todo)
           rest == [e EXCEPT !.todo = Tail(@)]
           runs == d.kind = "Always" \/ (d.kind = "OnError" /\ e.isError)
           M == Len(execs)
           N == Len(frames)
<1>1. status = "running" /\ e.todo # <<>> /\ calls' = calls /\ status' = status
  BY DEF Drain
<1>2. /\ e \in ExecType /\ d \in Entries /\ rest \in ExecType /\ rest.todo = Tail(e.todo)
      /\ rest.saved = e.saved /\ e = execs[M]
      /\ execs \in Seq(ExecType) /\ execs # <<>> /\ M \in Nat \ {0} /\ stop \in Nat
  <2>1. e \in ExecType /\ e = execs[M] /\ execs \in Seq(ExecType) /\ execs # <<>> /\ M \in Nat \ {0}
        /\ stop \in Nat
    BY <1>1, Running DEF TInv, TypeOK, ExecType
  <2>2. e.todo \in Seq(Entries)
    BY <2>1 DEF ExecType
  <2>3. d \in Entries /\ Tail(e.todo) \in Seq(Entries)
    BY <1>1, <2>2
  <2>4. QED
    BY <2>1, <2>3 DEF ExecType
<1>3. d # Sentinel => d.id \in Nat \ {0}
  BY <1>2 DEF Entries
<1>4. d.kind # "Sentinel" => d # Sentinel
  BY DEF Sentinel
<1>5. CASE ~runs
  <2>1. /\ execs' = SetExec(rest) /\ UNCHANGED <<frames, pc, stop>>
        /\ fates' = IF d = Sentinel THEN fates ELSE [fates EXCEPT ![d.id] = "skipped"]
    BY <1>5 DEF Drain
  <2> HIDE DEF rest, d, e
  <2>2. /\ Len(execs') = M /\ execs'[M] = rest
        /\ \A j \in 1..M - 1 : execs'[j] = execs[j]
    BY <1>2, <2>1, ReplaceIs DEF SetExec
  <2>3. \/ d = Sentinel /\ fates' = fates
        \/ d # Sentinel /\ d.id \in Nat \ {0} /\ fates' = [fates EXCEPT ![d.id] = "skipped"]
    BY <1>3, <2>1
  <2>4. QED
    BY <1>1, <1>2, <2>1, <2>2, <2>3 DEF d, e
<1>6. CASE runs
  <2> DEFINE y == [rest EXCEPT !.saved = stop]
             t == SetExec(y)
             g == Frame(0, d.id, FALSE)
  <2>1. /\ frames' = Append(SetTop([Top EXCEPT !.ip = pc]), g)
        /\ execs' = Append(t, Exec)
        /\ stop' = N /\ pc' = Start
        /\ fates' = [fates EXCEPT ![d.id] = "ran"]
    BY <1>6 DEF Drain, StopDepth
  <2>2. d.kind # "Sentinel" /\ d.id \in Nat \ {0}
    <3>1. d.kind # "Sentinel"
      BY <1>6
    <3>2. QED
      BY <1>3, <1>4, <3>1
  <2>3. y \in ExecType /\ y.saved = stop /\ y.todo = Tail(e.todo)
    BY <1>2 DEF ExecType
  <2>4. /\ g \in Frames /\ g.defers = <<>> /\ g.defer = d.id /\ g.fn = 0 /\ g.result = "r0"
        /\ g.r0 = "own" /\ g.strayed = FALSE /\ g.hasDefer = FALSE
    <3>1. g \in Frames
      BY <2>2, FrameIs
    <3>2. QED
      BY <3>1 DEF Frame
  <2> HIDE DEF y, g, rest, d, e
  <2>5. /\ t \in Seq(ExecType) /\ Len(t) = M /\ t[M] = y
        /\ \A j \in 1..M - 1 : t[j] = execs[j]
    BY <1>2, <2>3, ReplaceIs DEF SetExec
  <2> HIDE DEF t
  <2>6. Exec \in ExecType
    BY DEF Exec, ExecType
  <2>7. /\ Len(Append(t, Exec)) = Len(t) + 1 /\ Append(t, Exec)[Len(t) + 1] = Exec
        /\ \A j \in 1..Len(t) : Append(t, Exec)[j] = t[j]
    BY <2>5, <2>6, PushIs
  <2>8. M \in 1..M /\ \A j \in 1..M - 1 : j \in 1..M
    BY <1>2
  <2> HIDE DEF M
  <2>9. /\ Len(execs') = M + 1 /\ execs'[M + 1] = Exec /\ execs'[M] = y
        /\ \A j \in 1..M - 1 : execs'[j] = execs[j]
    BY <2>1, <2>5, <2>7, <2>8
  <2>10. QED
    BY <1>1, <1>2, <2>1, <2>2, <2>3, <2>4, <2>9 DEF d, e, g, M
<1>7. QED
  BY <1>5, <1>6

LEMMA DrainOnce == OnceInv /\ Drain => Waiting(frames, execs, fates)' /\ ThunkRan(frames, fates)'
<1> SUFFICES ASSUME OnceInv, Drain
             PROVE  Waiting(frames', execs', fates') /\ ThunkRan(frames', fates')
  OBVIOUS
<1>1. TInv /\ Waiting(frames, execs, fates) /\ ThunkRan(frames, fates)
  BY DEF OnceInv
<1> DEFINE M == Len(execs)
           N == Len(frames)
<1>2. PICK d \in Entries, y \in ExecType :
        /\ status = "running"
        /\ Last(execs).todo # <<>> /\ d = Head(Last(execs).todo) /\ y.todo = Tail(Last(execs).todo)
        /\ execs'[M] = y /\ \A j \in 1..M - 1 : execs'[j] = execs[j]
        /\ \/ /\ d.kind # "Sentinel" /\ d.id \in Nat \ {0}
              /\ frames' = Append(SetTop([Top EXCEPT !.ip = pc]), Frame(0, d.id, FALSE))
              /\ Frame(0, d.id, FALSE) \in Frames /\ Frame(0, d.id, FALSE).defers = <<>>
              /\ Frame(0, d.id, FALSE).defer = d.id
              /\ Len(execs') = M + 1 /\ execs'[M + 1] = Exec
              /\ fates' = [fates EXCEPT ![d.id] = "ran"]
           \/ /\ frames' = frames /\ Len(execs') = M
              /\ \/ d = Sentinel /\ fates' = fates
                 \/ d # Sentinel /\ d.id \in Nat \ {0} /\ fates' = [fates EXCEPT ![d.id] = "skipped"]
  BY <1>1, DrainIs
<1> DEFINE g == Frame(0, d.id, FALSE)
<1>3. M \in Nat \ {0} /\ N \in Nat \ {0} /\ Top = frames[N]
  BY <1>1, <1>2, Running
<1>4. fates \in Seq(Fates) /\ Len(fates) \in Nat /\ DOMAIN fates = 1..Len(fates)
  BY <1>1, Around0
<1>5. d.id \in 1..Len(fates) \/ d = Sentinel
  <2>1. Last(execs).todo \in Seq(Entries) /\ List(frames, execs, 1, M) = Last(execs).todo
    BY <1>1, <1>2, TopLists
  <2>2. 1 \in 1..Len(Last(execs).todo) /\ Last(execs).todo[1] = d
    BY <1>2, <2>1
  <2>3. d # Sentinel => d.id # 0
    BY DEF Entries
  <2>4. d # Sentinel => Has(frames, execs, 1, M, 1, d.id)
    BY <2>1, <2>2, <2>3 DEF Has
  <2>5. QED
    BY <1>1, <2>4 DEF Waiting, AllPending
<1>6. \A z : [fates EXCEPT ![d.id] = z] = [id \in DOMAIN fates |-> IF id = d.id THEN z ELSE fates[id]]
  OBVIOUS
<1>7. /\ Len(fates') = Len(fates) /\ \A id \in 1..Len(fates) : id # d.id => fates'[id] = fates[id]
      /\ d.id \in 1..Len(fates) => fates'[d.id] # "pending"
  <2>1. CASE fates' = fates /\ d = Sentinel
    <3>1. 0 \notin 1..Len(fates) /\ d.id = 0
      BY <1>4, <2>1 DEF Sentinel
    <3>2. QED
      BY <2>1, <3>1
  <2>2. CASE \E z \in {"ran", "skipped"} : fates' = [fates EXCEPT ![d.id] = z]
    <3>1. PICK z \in {"ran", "skipped"} :
            fates' = [id \in 1..Len(fates) |-> IF id = d.id THEN z ELSE fates[id]]
      BY <1>4, <1>6, <2>2
    <3>2. Len(fates') = Len(fates)
      BY <1>4, <3>1
    <3>3. QED
      BY <3>1, <3>2
  <2>3. QED
    BY <1>2, <2>1, <2>2
<1>8. \A i : List(frames', execs', 0, i) = List(frames, execs, 0, i)
  <2>1. CASE frames' = frames
    BY <2>1 DEF List
  <2>2. CASE /\ frames' = Append(SetTop([Top EXCEPT !.ip = pc]), g)
             /\ g \in Frames /\ g.defers = <<>>
    <3> HIDE DEF g
    <3>1. \A i : List(frames', execs', 0, i) = List(frames, execs', 0, i)
      BY <1>1, <1>2, <2>2, PushedLists
    <3>2. QED
      BY <3>1 DEF List
  <2>3. QED
    BY <1>2, <2>1, <2>2
<1>9. /\ List(frames', execs', 1, M) = Tail(Last(execs).todo)
      /\ \A i : i # M => List(frames', execs', 1, i) = List(frames, execs, 1, i)
  <2>1. /\ Exec.todo = <<>>
        /\ \A i : Len(execs') = M => (i \in 1..Len(execs') <=> i \in 1..M)
        /\ \A i \in 1..M : i # M => i \in 1..M - 1
        /\ M \in 1..M /\ M \in 1..M + 1 /\ \A i \in 1..M : i \in 1..M + 1
        /\ \A i \in 1..M + 1 : i \in 1..M \/ i = M + 1
        /\ ~(M + 1 \in 1..M)
    BY <1>3 DEF Exec
  <2>2. Len(execs') = M \/ (Len(execs') = M + 1 /\ execs'[M + 1] = Exec)
    BY <1>2
  <2>3. /\ execs'[M] = y /\ y.todo = Tail(Last(execs).todo)
        /\ \A j \in 1..M - 1 : execs'[j] = execs[j]
    BY <1>2
  <2>4. M \in 1..Len(execs')
    BY <2>1, <2>2
  <2>5. List(frames', execs', 1, M) = Tail(Last(execs).todo)
    BY <2>3, <2>4 DEF List
  <2>6. ASSUME NEW i, i \in 1..M, i # M
        PROVE  List(frames', execs', 1, i) = List(frames, execs, 1, i)
    <3>1. i \in 1..Len(execs') /\ i \in 1..M - 1
      BY <2>1, <2>2, <2>6
    <3>2. QED
      BY <2>3, <2>6, <3>1 DEF List
  <2>7. ASSUME NEW i, i \notin 1..M
        PROVE  List(frames', execs', 1, i) = List(frames, execs, 1, i)
    <3>1. i \notin 1..Len(execs') \/ (i = M + 1 /\ i \in 1..Len(execs') /\ execs'[i] = Exec)
      BY <2>1, <2>2, <2>7
    <3>2. QED
      BY <2>1, <2>7, <3>1 DEF List
  <2>8. QED
    BY <2>5, <2>6, <2>7
<1>10. \A c, i : ~(c = 1 /\ i = M) => List(frames', execs', c, i) = List(frames, execs, c, i)
  BY <1>8, <1>9 DEF List
<1>11. Waiting(frames', execs', fates')
  <2>1. Last(execs).todo # <<>> /\ d = Head(Last(execs).todo) /\ M = Len(execs) /\ status = "running"
    BY <1>1, <1>2
  <2>2. TInv /\ Waiting(frames, execs, fates)
    BY <1>1
  <2> HIDE DEF M
  <2>3. QED
    BY <1>7, <1>9, <1>10, <2>1, <2>2, SettledWaiting
<1>12. ThunkRan(frames', fates')
  <2>1. \A id \in 1..Len(fates) : fates[id] # "pending" => fates'[id] # "pending"
    BY <1>7
  <2>2. CASE frames' = frames
    BY <1>1, <1>7, <2>1, <2>2 DEF ThunkRan
  <2>3. CASE /\ frames' = Append(SetTop([Top EXCEPT !.ip = pc]), g)
             /\ g \in Frames /\ g.defer = d.id /\ d.id \in Nat \ {0}
    <3>1. d.id \in 1..Len(fates)
      BY <1>5, <2>3 DEF Sentinel
    <3> HIDE DEF g
    <3>2. PICK f \in Frames :
           /\ Len(frames') = Len(frames) + 1 /\ frames'[Len(frames) + 1] = g
           /\ frames'[Len(frames)] = f
           /\ \A i \in 1..Len(frames) - 1 : frames'[i] = frames[i]
           /\ f.defer = Top.defer
      BY <1>1, <1>2, <2>3, PushedIs
    <3>3. \A n \in Nat \ {0} : /\ n \in 1..n
                               /\ \A i \in 1..n - 1 : i \in 1..n
                               /\ \A i \in 1..n + 1 : i = n + 1 \/ i = n \/ i \in 1..n - 1
      OBVIOUS
    <3>4. \A i \in 1..Len(frames') : \/ i \in 1..N /\ frames'[i].defer = frames[i].defer
                                     \/ frames'[i].defer = d.id
      <4> HIDE DEF N
      <4>1. Len(frames') = N + 1 /\ frames'[N + 1].defer = d.id /\ frames'[N].defer = frames[N].defer
            /\ \A i \in 1..N - 1 : frames'[i].defer = frames[i].defer
        BY <1>3, <2>3, <3>2 DEF N
      <4>2. QED
        BY <1>3, <3>3, <4>1
    <3>5. QED
      BY <1>1, <1>7, <2>1, <3>1, <3>4 DEF ThunkRan
  <2>4. QED
    BY <1>2, <2>2, <2>3
<1>13. QED
  BY <1>11, <1>12

LEMMA InitOnce == Init => OnceInv
<1> SUFFICES ASSUME Init PROVE OnceInv
  OBVIOUS
<1>1. TInv
  BY TInvInit
<1>2. PICK hasDefer \in BOOLEAN : frames = <<Frame(1, 0, hasDefer)>>
  BY DEF Init
<1>3. Len(frames) = 1 /\ frames[1].defers = <<>> /\ frames[1].defer = 0
  BY <1>2 DEF Frame
<1>4. Len(execs) = 1 /\ execs[1].todo = <<>> /\ Len(fates) = 0
  BY DEF Init, Exec
<1>5. \A c, i : List(frames, execs, c, i) = <<>>
  BY <1>3, <1>4 DEF List
<1>6. \A c, i, k, id : ~Has(frames, execs, c, i, k, id)
  BY <1>5 DEF Has
<1>7. Waiting(frames, execs, fates)
  BY <1>4, <1>6 DEF Waiting, Distinct, AllPending, PendingWaits
<1>8. ThunkRan(frames, fates)
  BY <1>3 DEF ThunkRan
<1>9. QED
  BY <1>1, <1>7, <1>8 DEF OnceInv

LEMMA OnceStep == OnceInv /\ [Next]_vars => OnceInv'
<1>1. OnceInv => TInv
  BY DEF OnceInv
<1>2. OnceInv /\ [Next]_vars => TInv'
  BY <1>1, TInvStep
<1>3. OnceInv /\ UNCHANGED vars => Waiting(frames, execs, fates)' /\ ThunkRan(frames, fates)'
  BY DEF OnceInv, vars
<1>4. OnceInv /\ Next => Waiting(frames, execs, fates)' /\ ThunkRan(frames, fates)'
  BY OpenBlockOnce, DeferOnce, EndBlockOnce, RetOnce, LoopTestOnce, EscapeOnce, EnterOnce,
     TailCallOnce, PropagateOnce, RuntimeErrorOnce, ReturnOnce, DrainOnce DEF Next
<1>5. QED
  BY <1>2, <1>3, <1>4 DEF OnceInv

(***************************************************************************)
(* Where the entries of the defer statements wait, with what it rests on:  *)
(* the lists of the frames and of the drains hold every pending statement  *)
(* once, and a running thunk's statement is on none of them.               *)
(***************************************************************************)
THEOREM VmOnce == Spec => []OnceInv
BY InitOnce, OnceStep, PTL DEF Spec

-----------------------------------------------------------------------------
\* Where an entry waits, in the two ways of saying it.
LEMMA PlaceOfEntry ==
  ASSUME TInv, NEW id \in 1..Len(fates), NEW w
  PROVE  w \in Places(id) <=> \E c, i, k : Has(frames, execs, c, i, k, id) /\ w = <<i, c, k>>
<1> DEFINE A == UNION {{<<i, 0, k>> : k \in {k \in DOMAIN frames[i].defers : frames[i].defers[k].id = id}} :
                       i \in DOMAIN frames}
           B == UNION {{<<j, 1, k>> : k \in {k \in DOMAIN execs[j].todo : execs[j].todo[k].id = id}} :
                       j \in DOMAIN execs}
<1>1. Places(id) = A \cup B
  BY DEF Places
<1>2. id # 0
  BY Around0
<1>3. /\ DOMAIN frames = 1..Len(frames) /\ DOMAIN execs = 1..Len(execs)
      /\ \A i \in 1..Len(frames) : DOMAIN frames[i].defers = 1..Len(frames[i].defers)
      /\ \A j \in 1..Len(execs) : DOMAIN execs[j].todo = 1..Len(execs[j].todo)
  <2>1. frames \in Seq(Frames) /\ execs \in Seq(ExecType)
    BY DEF TInv, TypeOK, ExecType
  <2>2. \A i \in 1..Len(frames) : frames[i] \in Frames
    BY <2>1
  <2>3. \A i \in 1..Len(frames) : frames[i].defers \in Seq(Entries)
    BY <2>2 DEF Frames
  <2>4. \A j \in 1..Len(execs) : execs[j] \in ExecType
    BY <2>1
  <2>5. \A j \in 1..Len(execs) : execs[j].todo \in Seq(Entries)
    BY <2>4 DEF ExecType
  <2>6. QED
    BY <2>1, <2>3, <2>5
<1>4. w \in A <=> \E i, k : Has(frames, execs, 0, i, k, id) /\ w = <<i, 0, k>>
  <2>1. w \in A <=> \E i \in 1..Len(frames) : \E k \in 1..Len(frames[i].defers) :
                      frames[i].defers[k].id = id /\ w = <<i, 0, k>>
    <3>1. w \in A <=> \E i \in DOMAIN frames : \E k \in DOMAIN frames[i].defers :
                        frames[i].defers[k].id = id /\ w = <<i, 0, k>>
      OBVIOUS
    <3> HIDE DEF A
    <3>2. QED
      BY <1>3, <3>1
  <2>2. \A i, k : Has(frames, execs, 0, i, k, id) <=>
          i \in 1..Len(frames) /\ k \in 1..Len(frames[i].defers) /\ frames[i].defers[k].id = id
    BY <1>2 DEF Has, List
  <2>3. QED
    BY <2>1, <2>2
<1>5. w \in B <=> \E i, k : Has(frames, execs, 1, i, k, id) /\ w = <<i, 1, k>>
  <2>1. w \in B <=> \E j \in 1..Len(execs) : \E k \in 1..Len(execs[j].todo) :
                      execs[j].todo[k].id = id /\ w = <<j, 1, k>>
    <3>1. w \in B <=> \E j \in DOMAIN execs : \E k \in DOMAIN execs[j].todo :
                        execs[j].todo[k].id = id /\ w = <<j, 1, k>>
      OBVIOUS
    <3> HIDE DEF B
    <3>2. QED
      BY <1>3, <3>1
  <2>2. \A i, k : Has(frames, execs, 1, i, k, id) <=>
          i \in 1..Len(execs) /\ k \in 1..Len(execs[i].todo) /\ execs[i].todo[k].id = id
    BY <1>2 DEF Has, List
  <2>3. QED
    BY <2>1, <2>2
<1>6. \A c, i, k : Has(frames, execs, c, i, k, id) => c = 0 \/ c = 1
  BY DEF Has, List
<1> HIDE DEF A, B
<1>7. QED
  BY <1>1, <1>4, <1>5, <1>6

(***************************************************************************)
(* The entry of a defer statement is in one place until it is run, skipped *)
(* or lost with its frame, and nowhere afterwards (OP_DEFER_PUSH,          *)
(* OP_DEFER_SCOPE_POP and OP_DEFER_DRAIN over nested execute() calls).     *)
(***************************************************************************)
THEOREM VmWaitsOnce == Spec => []WaitsOnce
<1>1. ASSUME OnceInv PROVE WaitsOnce
  <2>1. TInv /\ Distinct(frames, execs) /\ AllPending(frames, execs, fates)
        /\ PendingWaits(frames, execs, fates) /\ DOMAIN fates = 1..Len(fates)
    BY <1>1, Around0 DEF OnceInv, Waiting
  <2> SUFFICES ASSUME NEW id \in 1..Len(fates)
               PROVE  Cardinality(Places(id)) = IF fates[id] = "pending" THEN 1 ELSE 0
    BY <2>1 DEF WaitsOnce
  <2> DEFINE P == Places(id)
  <2>2. \A v, w \in P : v = w
    BY <2>1, PlaceOfEntry DEF Distinct
  <2>3. P # {} => fates[id] = "pending"
    BY <2>1, PlaceOfEntry DEF AllPending
  <2>4. fates[id] = "pending" => P # {}
    <3> SUFFICES ASSUME fates[id] = "pending" PROVE P # {}
      OBVIOUS
    <3>1. PICK c, i, k : Has(frames, execs, c, i, k, id)
      BY <2>1 DEF PendingWaits
    <3>2. <<i, c, k>> \in P
      BY <2>1, <3>1, PlaceOfEntry
    <3>3. QED
      BY <3>2
  <2> HIDE DEF P
  <2>5. CASE P = {}
    <3>1. Cardinality(P) = 0
      BY <2>5, FS_EmptySet
    <3>2. QED
      BY <2>4, <2>5, <3>1 DEF P
  <2>6. CASE P # {}
    <3>1. PICK w \in P : TRUE
      BY <2>6
    <3>2. P = {w}
      BY <2>2, <3>1
    <3>3. Cardinality(P) = 1
      BY <3>2, FS_Singleton
    <3>4. QED
      BY <2>3, <2>6, <3>3 DEF P
  <2>7. QED
    BY <2>5, <2>6
<1>2. QED
  BY <1>1, VmOnce, PTL

-----------------------------------------------------------------------------
(***************************************************************************)
(* Defers of one activation run last in first out.  Entries stand in the   *)
(* order of their statements on a defer stack, and against it on the list  *)
(* of a drain, and those a drain has taken are younger than those of the   *)
(* same activation still on a defer stack.  For a new statement to be      *)
(* younger than all that is being drained, its activation must not be the  *)
(* one a suspended drain belongs to: the entries of an activation are on   *)
(* the stack of one frame, and what a suspended execute() still has to     *)
(* drain is of no activation that runs above its thunk.                    *)
(***************************************************************************)
\* The k-th entry of a list is d, an entry of a defer statement.
PutAt(fs, es, c, i, k, d) ==
  /\ k \in 1..Len(List(fs, es, c, i))
  /\ List(fs, es, c, i)[k] = d
  /\ d # Sentinel

Put(c, i, k, d) == PutAt(frames, execs, c, i, k, d)

OwnersKnown ==
  /\ \A i \in 1..Len(frames) : frames[i].fn <= calls
  /\ \A c, i, k, d : Put(c, i, k, d) => d.owner <= calls

OneFrame ==
  /\ \A i, j \in 1..Len(frames) : frames[i].fn = frames[j].fn /\ frames[i].fn # 0 => i = j
  /\ \A i, k, d : Put(0, i, k, d) => \A j \in 1..Len(frames) : d.owner = frames[j].fn => i = j
  /\ \A i, k, d, j, l, x : Put(0, i, k, d) /\ Put(0, j, l, x) /\ d.owner = x.owner => i = j

Suspended ==
  \A j \in 1..Len(execs) - 1 : \A k, d : Put(1, j, k, d) =>
    \A i \in StopOf(j + 1) + 1..Len(frames) : d.owner # frames[i].fn

Ordered ==
  \A i, k, d, l, x : k < l =>
    /\ Put(0, i, k, d) /\ Put(0, i, l, x) => d.id < x.id
    /\ Put(1, i, k, d) /\ Put(1, i, l, x) => x.id < d.id

Younger ==
  \A j, k, d, i, l, x : Put(1, j, k, d) /\ Put(0, i, l, x) /\ d.owner = x.owner => x.id < d.id

\* Each execute() must stop above those it was started from.
StopsRise == \A i, j \in 1..Len(execs) : i < j => StopOf(i) < StopOf(j)

Lifo == OwnersKnown /\ OneFrame /\ Suspended /\ Ordered /\ Younger /\ StopsRise

LifoInv == OnceInv /\ Lifo

-----------------------------------------------------------------------------
\* What an entry is.
LEMMA PutType ==
  ASSUME TInv, NEW c, NEW i, NEW k, NEW d, Put(c, i, k, d)
  PROVE  /\ d.owner \in Nat \ {0} /\ d.id \in Nat \ {0} /\ k \in Nat \ {0}
         /\ Has(frames, execs, c, i, k, d.id)
<1>1. List(frames, execs, c, i) \in Seq(Entries)
  BY ListType
<1>2. d \in Entries /\ d # Sentinel /\ k \in 1..Len(List(frames, execs, c, i))
      /\ List(frames, execs, c, i)[k] = d
  BY <1>1 DEF Put, PutAt
<1>3. d.owner \in Nat \ {0} /\ d.id \in Nat \ {0}
  BY <1>2 DEF Entries
<1>4. k \in Nat \ {0}
  BY <1>1, <1>2
<1>5. QED
  BY <1>2, <1>3, <1>4 DEF Has

\* The functions of the frames are what they were, except that a new frame, or
\* a tail call in the top one, has a new activation or none.
FnsKept ==
  /\ calls' \in Nat /\ calls <= calls'
  /\ \A i \in 1..Len(frames') :
       \/ frames'[i].fn = 0
       \/ i \in 1..Len(frames) /\ frames'[i].fn = frames[i].fn
       \/ i = Len(frames') /\ frames'[i].fn = calls' /\ calls < calls'

\* Every entry of a list was on that list, with s others before it gone.
Carried ==
  \A c, i : \E s \in Nat : \A k, d :
    Put(c, i, k, d)' => k \in Nat /\ Put(c, i, k + s, d)

\* The execute() activations are those there were or fewer, or one more, which
\* must stop below its thunk alone.
StopsKept ==
  /\ Len(execs') <= Len(execs) \/ (Len(execs') = Len(execs) + 1 /\ stop < Len(frames))
  /\ \A j \in 1..Len(execs') : StopOf(j)' = IF j <= Len(execs) THEN StopOf(j) ELSE Len(frames)

LEMMA CarriedLifo ==
  ASSUME TInv, Lifo, Carried, FnsKept, StopsKept, TInv'
  PROVE  Lifo'
<1>1. calls \in Nat /\ calls' \in Nat /\ calls <= calls' /\ Len(frames) \in Nat /\ Len(frames') \in Nat
  BY VmAssumption DEF TInv, TypeOK, FnsKept
<1>2. /\ \A i \in 1..Len(frames) : frames[i].fn \in Nat /\ frames[i].fn <= calls
      /\ \A c, i, k, d : Put(c, i, k, d) => d.owner \in Nat \ {0} /\ d.owner <= calls
  <2>1. \A i \in 1..Len(frames) : frames[i] \in Frames
    BY DEF TInv, TypeOK
  <2>2. QED
    BY <2>1, PutType DEF Lifo, OwnersKnown, Frames
<1>3. \A c, i, k, d : Put(c, i, k, d)' => \E l : Put(c, i, l, d)
  BY DEF Carried
<1>4. ASSUME NEW i \in 1..Len(frames')
      PROVE  \/ frames'[i].fn = 0
             \/ i \in 1..Len(frames) /\ frames'[i].fn = frames[i].fn /\ frames'[i].fn <= calls
             \/ i = Len(frames') /\ frames'[i].fn = calls' /\ calls < calls'
  BY <1>2 DEF FnsKept
<1>5. OwnersKnown'
  <2>1. \A i \in 1..Len(frames') : frames'[i].fn <= calls'
    <3>1. TAKE i \in 1..Len(frames')
    <3>2. CASE i \in 1..Len(frames) /\ frames'[i].fn = frames[i].fn
      BY <1>1, <1>2, <3>2
    <3>3. QED
      BY <1>1, <1>4, <3>2
  <2>2. \A c, i, k, d : Put(c, i, k, d)' => d.owner <= calls'
    <3> SUFFICES ASSUME NEW c, NEW i, NEW k, NEW d, Put(c, i, k, d)' PROVE d.owner <= calls'
      OBVIOUS
    <3>1. d.owner \in Nat /\ d.owner <= calls
      BY <1>2, <1>3
    <3>2. QED
      BY <1>1, <3>1
  <2>3. QED
    BY <2>1, <2>2 DEF OwnersKnown
<1>6. \A c, i, k, d : Put(c, i, k, d)' => /\ d.owner \in Nat \ {0} /\ d.owner <= calls /\ d.owner # 0
                                          /\ calls < calls' => d.owner # calls'
  <2> SUFFICES ASSUME NEW c, NEW i, NEW k, NEW d, Put(c, i, k, d)'
               PROVE  /\ d.owner \in Nat \ {0} /\ d.owner <= calls /\ d.owner # 0
                      /\ calls < calls' => d.owner # calls'
    OBVIOUS
  <2>1. d.owner \in Nat \ {0} /\ d.owner <= calls
    BY <1>2, <1>3
  <2>2. QED
    BY <1>1, <2>1
<1>7. OneFrame'
  <2>1. \A i, j \in 1..Len(frames') : frames'[i].fn = frames'[j].fn /\ frames'[i].fn # 0 => i = j
    <3> SUFFICES ASSUME NEW i \in 1..Len(frames'), NEW j \in 1..Len(frames'),
                        frames'[i].fn = frames'[j].fn, frames'[i].fn # 0
                 PROVE  i = j
      OBVIOUS
    <3>1. frames'[i].fn = calls' /\ calls < calls' => ~(frames'[j].fn <= calls)
      BY <1>1
    <3>2. frames'[j].fn = calls' /\ calls < calls' => ~(frames'[i].fn <= calls)
      BY <1>1
    <3>3. \/ /\ i \in 1..Len(frames) /\ frames'[i].fn = frames[i].fn
             /\ j \in 1..Len(frames) /\ frames'[j].fn = frames[j].fn
          \/ i = Len(frames') /\ j = Len(frames')
      BY <1>4, <3>1, <3>2
    <3>4. QED
      BY <3>3 DEF Lifo, OneFrame
  <2>2. \A i, k, d : Put(0, i, k, d)' => \A j \in 1..Len(frames') : d.owner = frames'[j].fn => i = j
    <3> SUFFICES ASSUME NEW i, NEW k, NEW d, Put(0, i, k, d)', NEW j \in 1..Len(frames'),
                        d.owner = frames'[j].fn
                 PROVE  i = j
      OBVIOUS
    <3>1. j \in 1..Len(frames) /\ frames'[j].fn = frames[j].fn
      BY <1>4, <1>6
    <3>2. QED
      BY <1>3, <3>1 DEF Lifo, OneFrame
  <2>3. \A i, k, d, j, l, x : Put(0, i, k, d)' /\ Put(0, j, l, x)' /\ d.owner = x.owner => i = j
    BY <1>3 DEF Lifo, OneFrame
  <2>4. QED
    BY <2>1, <2>2, <2>3 DEF OneFrame
<1>8. Suspended'
  <2> SUFFICES ASSUME NEW j \in 1..Len(execs') - 1, NEW k, NEW d, Put(1, j, k, d)',
                      NEW i \in StopOf(j + 1)' + 1..Len(frames')
               PROVE  d.owner # frames'[i].fn
    BY DEF Suspended
  <2>1. StopOf(j + 1)' \in Nat
    <3>1. execs' \in Seq(ExecType) /\ stop' \in Nat
      BY DEF TInv, TypeOK, ExecType
    <3>2. j + 1 \in 1..Len(execs')
      BY <3>1
    <3>3. execs'[j + 1] \in ExecType
      BY <3>1, <3>2
    <3>4. QED
      BY <3>1, <3>3 DEF StopOf, ExecType
  <2>2. i \in 1..Len(frames')
    BY <1>1, <2>1
  <2>3. CASE i \in 1..Len(frames) /\ frames'[i].fn = frames[i].fn
    <3>1. j \in 1..Len(execs) - 1 /\ StopOf(j + 1)' = StopOf(j + 1)
      <4>1. StopOf(j + 1)' # Len(frames)
        BY <1>1, <2>1, <2>3
      <4>2. Len(execs) \in Nat /\ Len(execs') \in Nat
        <5>1. execs \in Seq(ExecType) /\ execs' \in Seq(ExecType)
          BY DEF TInv, TypeOK, ExecType
        <5>2. QED
          BY <5>1
      <4>3. j + 1 \in 1..Len(execs') /\ j \in Nat
        BY <4>2
      <4>4. j + 1 <= Len(execs)
        BY <4>1, <4>3 DEF StopsKept
      <4>5. j \in 1..Len(execs) - 1
        BY <4>2, <4>3, <4>4
      <4>6. QED
        BY <4>3, <4>4, <4>5 DEF StopsKept
    <3>2. PICK l : Put(1, j, l, d)
      BY <1>3
    <3>3. i \in StopOf(j + 1) + 1..Len(frames)
      BY <1>1, <2>1, <2>3, <3>1
    <3>4. d.owner # frames[i].fn
      BY <3>1, <3>2, <3>3 DEF Lifo, Suspended
    <3>5. QED
      BY <2>3, <3>4
  <2>4. QED
    BY <1>4, <1>6, <2>2, <2>3
<1>9. Ordered'
  <2> SUFFICES ASSUME NEW i, NEW k, NEW d, NEW l, NEW x, k < l
               PROVE  /\ Put(0, i, k, d)' /\ Put(0, i, l, x)' => d.id < x.id
                      /\ Put(1, i, k, d)' /\ Put(1, i, l, x)' => x.id < d.id
    BY DEF Ordered
  <2>1. ASSUME NEW c, Put(c, i, k, d)', Put(c, i, l, x)'
        PROVE  \E a, b : a < b /\ Put(c, i, a, d) /\ Put(c, i, b, x)
    <3>1. PICK s \in Nat : \A kk, dd : Put(c, i, kk, dd)' => kk \in Nat /\ Put(c, i, kk + s, dd)
      BY DEF Carried
    <3>2. k \in Nat /\ l \in Nat /\ Put(c, i, k + s, d) /\ Put(c, i, l + s, x)
      BY <2>1, <3>1
    <3>3. k + s < l + s
      BY <3>2
    <3>4. QED
      BY <3>2, <3>3
  <2>2. QED
    BY <2>1 DEF Lifo, Ordered
<1>10. Younger'
  BY <1>3 DEF Lifo, Younger
<1>11. StopsRise'
  <2>1. execs \in Seq(ExecType) /\ execs' \in Seq(ExecType) /\ stop \in Nat /\ execs # <<>>
    BY DEF TInv, TypeOK, ExecType, StopsNest
  <2>2. PICK m \in Nat \ {0} : m = Len(execs)
    BY <2>1
  <2>3. ASSUME NEW i \in 1..m PROVE StopOf(i) <= stop /\ StopOf(i) \in Nat
    <3>1. execs[i] \in ExecType
      BY <2>1, <2>2
    <3>2. StopOf(i) \in Nat
      BY <2>1, <3>1 DEF StopOf, ExecType
    <3>3. m \in 1..m /\ (i < m \/ i = m) /\ StopOf(m) = stop
      BY <2>2 DEF StopOf
    <3>4. QED
      BY <2>1, <2>2, <3>2, <3>3 DEF Lifo, StopsRise
  <2> SUFFICES ASSUME NEW i \in 1..Len(execs'), NEW j \in 1..Len(execs'), i < j
               PROVE  StopOf(i)' < StopOf(j)'
    BY DEF StopsRise
  <2>4. Len(execs') \in Nat /\ (Len(execs') <= m \/ (Len(execs') = m + 1 /\ stop < Len(frames)))
    BY <2>1, <2>2 DEF StopsKept
  <2>5. /\ StopOf(i)' = IF i <= m THEN StopOf(i) ELSE Len(frames)
        /\ StopOf(j)' = IF j <= m THEN StopOf(j) ELSE Len(frames)
    BY <2>2 DEF StopsKept
  <2>6. i \in 1..m /\ (j \in 1..m \/ (~(j <= m) /\ stop < Len(frames)))
    BY <2>4
  <2>7. CASE j \in 1..m
    BY <2>2, <2>5, <2>6, <2>7 DEF Lifo, StopsRise
  <2>8. CASE ~(j <= m) /\ stop < Len(frames)
    BY <1>1, <2>1, <2>3, <2>5, <2>6, <2>8
  <2>9. QED
    BY <2>6, <2>7, <2>8
<1>12. QED
  BY <1>5, <1>7, <1>8, <1>9, <1>10, <1>11 DEF Lifo

\* Every list is what it was, or has a sentinel more, or lost its head, or is empty.
Shrunken(u, t) ==
  t = u \/ t = Append(u, Sentinel) \/ t = <<>> \/ (u # <<>> /\ t = Tail(u))

ListsShrink == \A c, i : Shrunken(List(frames, execs, c, i), List(frames', execs', c, i))

LEMMA ShrinkCarried ==
  ASSUME TInv, ListsShrink
  PROVE  Carried
<1> SUFFICES ASSUME NEW c, NEW i
             PROVE  \E s \in Nat : \A k, d : Put(c, i, k, d)' => k \in Nat /\ Put(c, i, k + s, d)
  BY DEF Carried
<1> DEFINE u == List(frames, execs, c, i)
           t == List(frames', execs', c, i)
<1>1. u \in Seq(Entries) /\ Len(u) \in Nat
  BY ListType
<1>2. \A k, d : Put(c, i, k, d)' <=> k \in 1..Len(t) /\ t[k] = d /\ d # Sentinel
  BY DEF Put, PutAt
<1>3. \A k, d : Put(c, i, k, d) <=> k \in 1..Len(u) /\ u[k] = d /\ d # Sentinel
  BY DEF Put, PutAt
<1> HIDE DEF u, t
<1>4. \A n \in Nat : \A k \in 1..n : k \in Nat /\ k + 0 = k
  OBVIOUS
<1>5. ASSUME \A k, d : Put(c, i, k, d)' => Put(c, i, k, d) PROVE \E s \in Nat : \A k, d : Put(c, i, k, d)' => k \in Nat /\ Put(c, i, k + s, d)
  <2>1. \A k, d : Put(c, i, k, d)' => k \in Nat /\ Put(c, i, k + 0, d)
    BY <1>1, <1>3, <1>4, <1>5
  <2>2. 0 \in Nat
    OBVIOUS
  <2>3. QED
    BY <2>1, <2>2
<1>6. CASE t = u
  BY <1>2, <1>3, <1>5, <1>6
<1>7. CASE t = Append(u, Sentinel)
  <2>1. /\ Len(t) = Len(u) + 1 /\ t[Len(u) + 1] = Sentinel
        /\ \A x \in 1..Len(u) : t[x] = u[x]
        /\ \A x \in 1..Len(u) + 1 : x \in 1..Len(u) \/ x = Len(u) + 1
    BY <1>1, <1>7
  <2>2. \A k, d : Put(c, i, k, d)' => Put(c, i, k, d)
    BY <1>2, <1>3, <2>1
  <2>3. QED
    BY <1>5, <2>2
<1>8. CASE t = <<>>
  BY <1>2, <1>5, <1>8
<1>9. CASE u # <<>> /\ t = Tail(u)
  <2>1. PICK n \in Nat : /\ Len(u) = n + 1 /\ Len(t) = n /\ \A x \in 1..n : t[x] = u[x + 1]
    <3>1. Len(u) - 1 \in Nat /\ Len(u) = (Len(u) - 1) + 1 /\ Len(t) = Len(u) - 1
          /\ \A x \in 1..(Len(u) - 1) : t[x] = u[x + 1]
      BY <1>1, <1>9
    <3>2. QED
      BY <3>1
  <2>2. \A x \in 1..n : x + 1 \in 1..n + 1 /\ x \in Nat
    OBVIOUS
  <2>3. \A k, d : Put(c, i, k, d)' => k \in Nat /\ Put(c, i, k + 1, d)
    BY <1>2, <1>3, <2>1, <2>2
  <2>4. 1 \in Nat
    OBVIOUS
  <2>5. QED
    BY <2>3, <2>4
<1>10. QED
  BY <1>6, <1>7, <1>8, <1>9 DEF ListsShrink, Shrunken, u, t

-----------------------------------------------------------------------------
\* The execute() activations go on as they were, the running one with another drain.
SameStops ==
  /\ Len(execs') = Len(execs) /\ stop' = stop
  /\ \A j \in 1..Len(execs) - 1 : execs'[j].saved = execs[j].saved

LEMMA SameStopsKept ==
  ASSUME TInv, SameStops
  PROVE  /\ StopsKept
         /\ \A j \in 1..Len(execs) : StopOf(j)' = StopOf(j)
<1>1. execs # <<>> /\ execs \in Seq(ExecType)
  BY DEF TInv, TypeOK, StopsNest, ExecType
<1>2. Len(execs) \in Nat \ {0}
  BY <1>1
<1>3. \A n \in Nat \ {0} : /\ \A j \in 1..n : j = n \/ j \in 1..n - 1
                           /\ \A j \in 1..n - 1 : j + 1 \in 1..n
  OBVIOUS
<1>4. \A j \in 1..Len(execs) : StopOf(j)' = StopOf(j)
  BY <1>2, <1>3 DEF SameStops, StopOf
<1>5. QED
  BY <1>2, <1>3, <1>4 DEF StopsKept, SameStops

\* The top frame alone is replaced, by one of the same function or a new one.
LEMMA InPlaceFns ==
  ASSUME TInv, status = "running", NEW f \in Frames, NEW e \in ExecType,
         frames' = SetTop(f), execs' = SetExec(e), stop' = stop,
         calls' \in Nat, calls <= calls',
         f.fn = Top.fn \/ (f.fn = calls' /\ calls < calls')
  PROVE  FnsKept /\ SameStops
<1>1. Len(frames) \in Nat \ {0} /\ Top = frames[Len(frames)]
  BY Running
<1>2. /\ Len(frames') = Len(frames) /\ frames'[Len(frames)] = f
      /\ \A i \in 1..Len(frames) - 1 : frames'[i] = frames[i]
      /\ Len(execs') = Len(execs) /\ \A i \in 1..Len(execs) - 1 : execs'[i] = execs[i]
  BY InPlaceLists
<1>3. \A n \in Nat \ {0} : \A j \in 1..n : j = n \/ j \in 1..n - 1
  OBVIOUS
<1>4. FnsKept
  BY <1>1, <1>2, <1>3 DEF FnsKept
<1>5. SameStops
  BY <1>2 DEF SameStops
<1>6. QED
  BY <1>4, <1>5

\* A step of the top frame that adds no entry and moves none.
LEMMA ReplacedLifo ==
  ASSUME LifoInv, TInv', status = "running", NEW f \in Frames,
         f.defers = Top.defers \/ f.defers = Append(Top.defers, Sentinel),
         frames' = SetTop(f), execs' = execs, stop' = stop, calls' \in Nat, calls <= calls',
         f.fn = Top.fn \/ (f.fn = calls' /\ calls < calls')
  PROVE  Lifo'
<1>1. TInv /\ Lifo
  BY DEF LifoInv, OnceInv
<1>2. Last(execs) \in ExecType /\ execs' = SetExec(Last(execs))
  BY <1>1, Running
<1>3. /\ List(frames', execs', 0, Len(frames)) = f.defers
      /\ \A c, i : \/ c = 0 /\ i = Len(frames)
                   \/ c = 1 /\ i = Len(execs)
                   \/ List(frames', execs', c, i) = List(frames, execs, c, i)
      /\ List(frames', execs', 1, Len(execs)) = Last(execs).todo
  BY <1>1, <1>2, InPlaceLists
<1>4. /\ List(frames, execs, 0, Len(frames)) = Top.defers
      /\ List(frames, execs, 1, Len(execs)) = Last(execs).todo
  BY <1>1, TopLists
<1>5. ListsShrink
  BY <1>3, <1>4 DEF ListsShrink, Shrunken
<1>6. FnsKept /\ SameStops
  BY <1>1, <1>2, InPlaceFns
<1>7. QED
  BY <1>1, <1>5, <1>6, ShrinkCarried, SameStopsKept, CarriedLifo

(***************************************************************************)
(* Entries move from the top frame to the empty list of the running        *)
(* execute(): those that stay are older.                                   *)
(***************************************************************************)
LEMMA TakenPuts ==
  ASSUME TInv, status = "running", Last(execs).todo = <<>>,
         NEW f \in Frames, f.defers = Top.defers, NEW n, NEW v, NEW g, NEW e, Taken(f, n, v, g, e),
         frames' = SetTop(g), execs' = SetExec(e)
  PROVE  \E L \in Nat :
           /\ n \in 0..L
           /\ \A c, i, k, d : PutAt(frames', execs', c, i, k, d) /\ ~(c = 1 /\ i = Len(execs)) => Put(c, i, k, d)
           /\ \A k, d : PutAt(frames', execs', 0, Len(frames), k, d) => k \in 1..n
           /\ \A k, d : PutAt(frames', execs', 1, Len(execs), k, d) =>
                k \in 1..(L - n) /\ L + 1 - k \in (n + 1)..L /\ Put(0, Len(frames), L + 1 - k, d)
<1> DEFINE N == Len(frames)
           M == Len(execs)
           L == Len(Top.defers)
<1>1. /\ List(frames', execs', 0, N) = g.defers
      /\ List(frames', execs', 1, M) = e.todo
      /\ \A c, i : \/ c = 0 /\ i = N
                   \/ c = 1 /\ i = M
                   \/ List(frames', execs', c, i) = List(frames, execs, c, i)
  BY InPlaceLists DEF Taken
<1>2. List(frames, execs, 0, N) = Top.defers /\ L \in Nat
  BY TopLists
<1>3. /\ n \in 0..L /\ Len(g.defers) = n
      /\ \A a \in 1..n : g.defers[a] = Top.defers[a]
      /\ Len(e.todo) = L - n
      /\ \A b \in 1..(L - n) : e.todo[b] = Top.defers[L + 1 - b]
  BY DEF Taken
<1>4. /\ \A k \in 1..n : k \in 1..L
      /\ \A k \in 1..(L - n) : L + 1 - k \in 1..L /\ L + 1 - k \in (n + 1)..L
  BY <1>2, <1>3
<1> HIDE DEF N, M, L
<1>5. \A c, i, k, d : PutAt(frames', execs', c, i, k, d) /\ ~(c = 1 /\ i = M) /\ ~(c = 0 /\ i = N)
                         => Put(c, i, k, d)
  BY <1>1 DEF Put, PutAt
<1>6. \A k, d : Put(0, N, k, d) <=> k \in 1..L /\ Top.defers[k] = d /\ d # Sentinel
  BY <1>2 DEF Put, PutAt, L
<1>7. \A k, d : PutAt(frames', execs', 0, N, k, d) => k \in 1..n /\ Put(0, N, k, d)
  <2>1. \A k, d : PutAt(frames', execs', 0, N, k, d) => k \in 1..n /\ g.defers[k] = d /\ d # Sentinel
    BY <1>1, <1>3 DEF PutAt
  <2>2. QED
    BY <1>3, <1>4, <1>6, <2>1
<1>8. \A k, d : PutAt(frames', execs', 1, M, k, d) =>
                k \in 1..(L - n) /\ L + 1 - k \in (n + 1)..L /\ Put(0, N, L + 1 - k, d)
  <2>1. \A k, d : PutAt(frames', execs', 1, M, k, d) => k \in 1..(L - n) /\ e.todo[k] = d /\ d # Sentinel
    BY <1>1, <1>3 DEF PutAt
  <2>2. QED
    BY <1>3, <1>4, <1>6, <2>1
<1>9. L \in Nat /\ n \in 0..L
  BY <1>2, <1>3
<1>10. \A c, i, k, d : PutAt(frames', execs', c, i, k, d) /\ ~(c = 1 /\ i = M) => Put(c, i, k, d)
  BY <1>5, <1>7
<1>11. QED
  BY <1>7, <1>8, <1>9, <1>10 DEF N, M

LEMMA TakenLifo ==
  ASSUME LifoInv, TInv', status = "running", Last(execs).todo = <<>>,
         NEW f \in Frames, f.defers = Top.defers, f.fn = Top.fn,
         NEW n, NEW v, NEW g, NEW e, Taken(f, n, v, g, e),
         frames' = SetTop(g), execs' = SetExec(e), stop' = stop, calls' = calls
  PROVE  Lifo'
<1>1. TInv /\ Lifo /\ calls \in Nat
  BY VmAssumption DEF LifoInv, OnceInv, TInv, TypeOK
<1> DEFINE N == Len(frames)
           M == Len(execs)
           New(c, i, k, d) == PutAt(frames', execs', c, i, k, d)
<1>2. PICK L \in Nat :
        /\ n \in 0..L
        /\ \A c, i, k, d : New(c, i, k, d) /\ ~(c = 1 /\ i = M) => Put(c, i, k, d)
        /\ \A k, d : New(0, N, k, d) => k \in 1..n
        /\ \A k, d : New(1, M, k, d) =>
             k \in 1..(L - n) /\ L + 1 - k \in (n + 1)..L /\ Put(0, N, L + 1 - k, d)
  BY <1>1, TakenPuts
<1>3. FnsKept /\ SameStops
  BY <1>1, InPlaceFns DEF Taken
<1>4. M \in Nat \ {0} /\ N \in Nat \ {0}
  BY <1>1, Running
<1>5. /\ Len(frames') = N /\ \A i \in 1..N : frames'[i].fn = frames[i].fn
      /\ Len(execs') = M
      /\ \A j \in 1..M : StopOf(j)' = StopOf(j)
  <2>1. /\ Len(frames') = N /\ frames'[N] = g
        /\ \A i \in 1..N - 1 : frames'[i] = frames[i]
        /\ Len(execs') = M
    BY <1>1, InPlaceLists DEF Taken
  <2>2. g.fn = frames[N].fn
    BY <1>1, Running DEF Taken
  <2>3. \A m \in Nat \ {0} : \A j \in 1..m : j = m \/ j \in 1..m - 1
    OBVIOUS
  <2>4. QED
    BY <1>1, <1>3, <1>4, <2>1, <2>2, <2>3, SameStopsKept
<1>0. \A c, i, k, d : Put(c, i, k, d)' <=> New(c, i, k, d)
  BY DEF Put
<1> HIDE DEF N, M, New
<1>6. ASSUME NEW c, NEW i, NEW k, NEW d, New(c, i, k, d)
      PROVE  \E j, l : Put(c, j, l, d) \/ Put(0, j, l, d)
  <2>1. CASE c = 1 /\ i = M
    BY <1>2, <1>6, <2>1
  <2>2. CASE ~(c = 1 /\ i = M)
    BY <1>2, <1>6, <2>2
  <2>3. QED
    BY <2>1, <2>2
<1>7. /\ \A i \in 1..N : frames[i].fn <= calls
      /\ \A c, i, k, d : Put(c, i, k, d) => d.owner <= calls
      /\ \A i, j \in 1..N : frames[i].fn = frames[j].fn /\ frames[i].fn # 0 => i = j
      /\ \A i, k, d : Put(0, i, k, d) => \A j \in 1..N : d.owner = frames[j].fn => i = j
      /\ \A i, k, d, j, l, x : Put(0, i, k, d) /\ Put(0, j, l, x) /\ d.owner = x.owner => i = j
      /\ \A j \in 1..M - 1 : \A k, d : Put(1, j, k, d) =>
           \A i \in StopOf(j + 1) + 1..N : d.owner # frames[i].fn
  BY <1>1 DEF Lifo, OwnersKnown, OneFrame, Suspended, N, M
<1>8. OwnersKnown'
  BY <1>0, <1>5, <1>6, <1>7 DEF OwnersKnown
<1>9. OneFrame'
  <2>1. \A i, k, d : Put(0, i, k, d)' => Put(0, i, k, d)
    BY <1>0, <1>2
  <2>2. QED
    BY <1>5, <1>7, <2>1 DEF OneFrame
<1>10. Suspended'
  <2>1. \A j \in 1..M - 1 : j # M /\ j + 1 \in 1..M
    BY <1>4
  <2>2. \A j \in 1..M - 1 : \A k, d : Put(1, j, k, d)' => Put(1, j, k, d)
    BY <1>0, <1>2, <2>1
  <2>3. \A j \in 1..M - 1 : \A i \in StopOf(j + 1) + 1..N : i \in 1..N
    <3>1. ASSUME NEW j \in 1..M - 1 PROVE StopOf(j + 1) \in Nat
      <4>1. execs \in Seq(ExecType) /\ stop \in Nat
        BY <1>1 DEF TInv, TypeOK, ExecType
      <4>2. execs[j + 1] \in ExecType
        BY <2>1, <4>1 DEF M
      <4>3. QED
        BY <4>1, <4>2 DEF StopOf, ExecType
    <3>2. QED
      BY <1>4, <3>1
  <2> SUFFICES ASSUME NEW j \in 1..M - 1, NEW k, NEW d, Put(1, j, k, d)',
                      NEW i \in StopOf(j + 1) + 1..N
               PROVE  d.owner # frames'[i].fn
    BY <1>5, <2>1 DEF Suspended
  <2>4. QED
    BY <1>5, <1>7, <2>2, <2>3
<1>11. Ordered'
  <2> SUFFICES ASSUME NEW i, NEW k, NEW d, NEW l, NEW x, k < l
               PROVE  /\ Put(0, i, k, d)' /\ Put(0, i, l, x)' => d.id < x.id
                      /\ Put(1, i, k, d)' /\ Put(1, i, l, x)' => x.id < d.id
    BY DEF Ordered
  <2>1. Put(0, i, k, d)' /\ Put(0, i, l, x)' => d.id < x.id
    BY <1>0, <1>1, <1>2 DEF Lifo, Ordered
  <2>2. CASE i # M
    BY <1>0, <1>1, <1>2, <2>1, <2>2 DEF Lifo, Ordered
  <2>3. ASSUME i = M, Put(1, i, k, d)', Put(1, i, l, x)' PROVE x.id < d.id
    <3>1. /\ k \in 1..(L - n) /\ Put(0, N, L + 1 - k, d)
          /\ l \in 1..(L - n) /\ Put(0, N, L + 1 - l, x)
      BY <1>0, <1>2, <2>3
    <3>2. L + 1 - l < L + 1 - k
      BY <1>2, <3>1
    <3>3. QED
      BY <1>1, <3>1, <3>2 DEF Lifo, Ordered
  <2>4. QED
    BY <2>1, <2>2, <2>3
<1>12. Younger'
  <2> SUFFICES ASSUME NEW j, NEW k, NEW d, NEW i, NEW l, NEW x,
                      Put(1, j, k, d)', Put(0, i, l, x)', d.owner = x.owner
               PROVE  x.id < d.id
    BY DEF Younger
  <2>1. Put(0, i, l, x) /\ New(0, i, l, x)
    BY <1>0, <1>2
  <2>2. CASE j # M
    BY <1>0, <1>1, <1>2, <2>1, <2>2 DEF Lifo, Younger
  <2>3. CASE j = M
    <3>1. k \in 1..(L - n) /\ L + 1 - k \in (n + 1)..L /\ Put(0, N, L + 1 - k, d)
      BY <1>0, <1>2, <2>3
    <3>2. i = N
      BY <1>7, <2>1, <3>1
    <3>3. l \in 1..n
      BY <1>2, <2>1, <3>2
    <3>4. l < L + 1 - k
      BY <1>2, <3>1, <3>3
    <3>5. QED
      BY <1>1, <2>1, <3>1, <3>2, <3>4 DEF Lifo, Ordered
  <2>4. QED
    BY <2>2, <2>3
<1>13. StopsRise'
  BY <1>1, <1>5 DEF Lifo, StopsRise, M
<1>14. QED
  BY <1>8, <1>9, <1>10, <1>11, <1>12, <1>13 DEF Lifo

LEMMA TakeFromLifo ==
  ASSUME LifoInv, TInv', Dispatching, NEW f \in Frames, f.fn = Top.fn, f.defers = Top.defers,
         NEW k \in 1..Len(f.defers) + 1, NEW v, NEW p, TakeFrom(f, k, v, p),
         stop' = stop, calls' = calls
  PROVE  Lifo'
<1>1. TInv /\ status = "running" /\ Last(execs).todo = <<>>
  BY DEF LifoInv, OnceInv, Dispatching
<1>2. PICK g, e : /\ Taken(f, k - 1, v, g, e)
                  /\ frames' = SetTop(g) /\ execs' = SetExec(e) /\ pc' = p
  BY <1>1, TakenIs
<1>3. QED
  BY <1>1, <1>2, TakenLifo

LEMMA GotoLifo ==
  ASSUME LifoInv, TInv', Dispatching, NEW f \in Frames, f.fn = Top.fn, f.defers = Top.defers,
         NEW p, Goto(f, p), stop' = stop, calls' = calls
  PROVE  Lifo'
<1>1. calls' \in Nat /\ calls <= calls'
  BY Around0 DEF LifoInv, OnceInv
<1>2. QED
  BY <1>1, ReplacedLifo DEF Goto, Dispatching

LEMMA ScopePopLifo ==
  ASSUME LifoInv, TInv', Dispatching, NEW f \in Frames, f.fn = Top.fn, f.defers = Top.defers,
         NEW scoped, NEW v, NEW p, ScopePop(f, scoped, v, p), stop' = stop, calls' = calls
  PROVE  Lifo'
<1>1. ASSUME NEW k \in MarksOf(f), TakeFrom(f, k, v, p) PROVE Lifo'
  <2>1. k \in 1..Len(f.defers) + 1
    BY <1>1 DEF MarksOf, Frames
  <2>2. QED
    BY <1>1, <2>1, TakeFromLifo
<1>2. QED
  BY <1>1, GotoLifo DEF ScopePop

LEMMA EmitRetLifo ==
  ASSUME LifoInv, TInv', Dispatching, NEW v, EmitRet(v), stop' = stop, calls' = calls
  PROVE  Lifo'
<1>1. Top \in Frames /\ 1 \in 1..Len(Top.defers) + 1
  BY Running DEF LifoInv, OnceInv, Dispatching, Frames
<1>2. QED
  BY <1>1, TakeFromLifo, GotoLifo DEF EmitRet

-----------------------------------------------------------------------------
LEMMA OpenBlockLifo == LifoInv /\ TInv' /\ OpenBlock => Lifo'
<1> SUFFICES ASSUME LifoInv, TInv', OpenBlock PROVE Lifo'
  OBVIOUS
<1>1. status = "running" /\ TInv /\ execs' = execs /\ stop' = stop /\ calls' = calls
  BY DEF OpenBlock, InFn, InBody, Dispatching, LifoInv, OnceInv
<1>2. PICK scoped \in BOOLEAN : frames' = SetTop(Marked(Top, scoped))
  BY DEF OpenBlock
<1>3. Top \in Frames /\ Marked(Top, scoped) \in Frames
  BY <1>1, Running, MarkedIs
<1>4. /\ Marked(Top, scoped).fn = Top.fn
      /\ \/ Marked(Top, scoped).defers = Top.defers
         \/ Marked(Top, scoped).defers = Append(Top.defers, Sentinel)
  BY <1>3 DEF Marked, Frames
<1>5. calls' \in Nat /\ calls <= calls'
  BY <1>1, Around0
<1>6. QED
  BY <1>1, <1>2, <1>3, <1>4, <1>5, ReplacedLifo

LEMMA LoopTestLifo == LifoInv /\ TInv' /\ LoopTest => Lifo'
<1> SUFFICES ASSUME LifoInv, TInv', LoopTest PROVE Lifo'
  OBVIOUS
<1>1. status = "running" /\ TInv /\ execs' = execs /\ stop' = stop /\ calls' = calls
  BY DEF LoopTest, Dispatching, LifoInv, OnceInv
<1>2. Top \in Frames /\ SetTop(Top) = frames
  BY <1>1, Running
<1>3. calls' \in Nat /\ calls <= calls'
  BY <1>1, Around0
<1>4. CASE frames' = SetTop(Marked(Top, Last(pc.blocks).scoped))
  <2> DEFINE scoped == Last(pc.blocks).scoped
  <2>1. Marked(Top, scoped) \in Frames
    BY <1>2, MarkedIs
  <2>2. /\ Marked(Top, scoped).fn = Top.fn
        /\ \/ Marked(Top, scoped).defers = Top.defers
           \/ Marked(Top, scoped).defers = Append(Top.defers, Sentinel)
    BY <1>2 DEF Marked, Frames
  <2>3. QED
    BY <1>1, <1>3, <1>4, <2>1, <2>2, ReplacedLifo
<1>5. CASE frames' = frames
  BY <1>1, <1>2, <1>3, <1>5, ReplacedLifo
<1>6. QED
  BY <1>4, <1>5 DEF LoopTest

LEMMA EndBlockLifo == LifoInv /\ TInv' /\ EndBlock => Lifo'
<1> SUFFICES ASSUME LifoInv, TInv', EndBlock PROVE Lifo'
  OBVIOUS
<1>1. Dispatching /\ TInv /\ status = "running" /\ stop' = stop /\ calls' = calls
  BY DEF EndBlock, InFn, InBody, Dispatching, LifoInv, OnceInv
<1>2. \E v \in Values : \E p : ScopePop(Top, Last(pc.blocks).scoped, v, p)
  BY DEF EndBlock
<1>3. Top \in Frames
  BY <1>1, Running
<1>4. QED
  BY <1>1, <1>2, <1>3, ScopePopLifo

LEMMA EscapeLifo == LifoInv /\ TInv' /\ Escape => Lifo'
<1> SUFFICES ASSUME LifoInv, TInv', Escape PROVE Lifo'
  OBVIOUS
<1>1. Dispatching /\ TInv /\ status = "running" /\ stop' = stop /\ calls' = calls
  BY DEF Escape, InFn, InBody, Dispatching, LifoInv, OnceInv
<1>2. PICK i \in LoopPositions : \E v \in Values : \E p :
        ScopePop([Top EXCEPT !.strayed = @ \/ \E j \in DOMAIN pc.blocks :
                                                  j > i /\ pc.blocks[j].scoped],
                 pc.blocks[i].scoped, v, p)
  BY DEF Escape
<1> DEFINE crosses == \E j \in DOMAIN pc.blocks : j > i /\ pc.blocks[j].scoped
           f == [Top EXCEPT !.strayed = @ \/ crosses]
<1>3. f \in Frames /\ f.fn = Top.fn /\ f.defers = Top.defers
  <2>1. Top \in Frames /\ crosses \in BOOLEAN
    BY <1>1, Running
  <2> HIDE DEF crosses
  <2>2. QED
    BY <2>1 DEF Frames
<1>4. \E v \in Values : \E p : ScopePop(f, pc.blocks[i].scoped, v, p)
  BY <1>2
<1> HIDE DEF f
<1>5. QED
  BY <1>1, <1>3, <1>4, ScopePopLifo

LEMMA RetLifo == LifoInv /\ TInv' /\ (Ret \/ GuardRet) => Lifo'
<1> SUFFICES ASSUME LifoInv, TInv', Ret \/ GuardRet PROVE Lifo'
  OBVIOUS
<1>1. Dispatching /\ stop' = stop /\ calls' = calls /\ \E v : EmitRet(v)
  BY DEF Ret, GuardRet, InBody, Dispatching
<1>2. QED
  BY <1>1, EmitRetLifo

LEMMA TailCallLifo == LifoInv /\ TInv' /\ TailCall => Lifo'
<1> SUFFICES ASSUME LifoInv, TInv', TailCall PROVE Lifo'
  OBVIOUS
<1>1. /\ status = "running" /\ calls < MaxCalls /\ TInv /\ execs' = execs /\ stop' = stop
      /\ calls' = calls + 1
  BY DEF TailCall, InBody, Dispatching, LifoInv, OnceInv
<1>2. PICK hasDefer \in BOOLEAN :
        frames' = SetTop([Top EXCEPT !.fn = calls + 1, !.hasDefer = hasDefer, !.ip = Start])
  BY DEF TailCall
<1> DEFINE f == [Top EXCEPT !.fn = calls + 1, !.hasDefer = hasDefer, !.ip = Start]
<1>3. f \in Frames /\ f.fn = calls + 1 /\ f.defers = Top.defers
  <2>1. Top \in Frames /\ calls + 1 \in Nat /\ Start \in Points
    BY <1>1, Running, Around0
  <2> HIDE DEF Start
  <2>2. QED
    BY <2>1 DEF Frames
<1>4. frames' = SetTop(f)
  BY <1>2
<1> HIDE DEF f
<1>5. calls' \in Nat /\ calls < calls' /\ calls <= calls'
  BY <1>1, Around0
<1>6. QED
  BY <1>1, <1>3, <1>4, <1>5, ReplacedLifo

LEMMA PropagateLifo == LifoInv /\ Propagate => Lifo'
BY DEF LifoInv, Lifo, OwnersKnown, OneFrame, Suspended, Ordered, Younger, StopsRise, Put, StopOf, Propagate

LEMMA EnterLifo == LifoInv /\ TInv' /\ (Call \/ CallHere) => Lifo'
<1> SUFFICES ASSUME LifoInv, TInv', Call \/ CallHere PROVE Lifo'
  OBVIOUS
<1>1. PICK hasDefer \in BOOLEAN : Enter(hasDefer)
  BY DEF Call, CallHere
<1> DEFINE g == Frame(calls + 1, 0, hasDefer)
<1>2. /\ status = "running" /\ TInv /\ Lifo /\ execs' = execs /\ stop' = stop /\ calls' = calls + 1
      /\ frames' = Append(SetTop([Top EXCEPT !.ip = pc]), g)
  BY <1>1 DEF Enter, InBody, Dispatching, LifoInv, OnceInv
<1>3. g \in Frames /\ g.defers = <<>> /\ g.fn = calls + 1
  <2>1. g \in Frames
    BY <1>2, Around0, FrameIs
  <2>2. QED
    BY <2>1 DEF Frame
<1> HIDE DEF g
<1>4. \A i : List(frames', execs, 0, i) = List(frames, execs, 0, i)
  BY <1>2, <1>3, PushedLists
<1>5. ListsShrink
  <2>1. \A i : List(frames', execs', 1, i) = List(frames, execs, 1, i)
    BY <1>2 DEF List
  <2>2. \A i : List(frames', execs', 0, i) = List(frames, execs, 0, i)
    BY <1>2, <1>4
  <2>3. \A c, i : c # 0 /\ c # 1 => List(frames', execs', c, i) = List(frames, execs, c, i)
    BY DEF List
  <2>4. \A c, i : List(frames', execs', c, i) = List(frames, execs, c, i)
    BY <2>1, <2>2, <2>3
  <2>5. \A u : Shrunken(u, u)
    BY DEF Shrunken
  <2>6. QED
    BY <2>4, <2>5 DEF ListsShrink
<1>6. FnsKept
  <2>1. PICK f \in Frames :
          /\ Len(frames') = Len(frames) + 1 /\ frames'[Len(frames) + 1] = g
          /\ frames'[Len(frames)] = f
          /\ \A i \in 1..Len(frames) - 1 : frames'[i] = frames[i]
          /\ f.fn = Top.fn
    BY <1>2, <1>3, PushedIs
  <2>2. Len(frames) \in Nat \ {0} /\ Top = frames[Len(frames)]
    BY <1>2, Running
  <2>3. \A n \in Nat \ {0} : /\ n \in 1..n
                             /\ \A i \in 1..n - 1 : i \in 1..n
                             /\ \A i \in 1..n + 1 : i = n + 1 \/ i = n \/ i \in 1..n - 1
    OBVIOUS
  <2>4. calls' \in Nat /\ calls < calls' /\ calls <= calls'
    BY <1>2, Around0
  <2>5. \A i \in 1..Len(frames') : \/ i = Len(frames') /\ frames'[i].fn = calls'
                                   \/ i \in 1..Len(frames) /\ frames'[i].fn = frames[i].fn
    <3> SUFFICES ASSUME NEW i \in 1..Len(frames')
                 PROVE  \/ i = Len(frames') /\ frames'[i].fn = calls'
                        \/ i \in 1..Len(frames) /\ frames'[i].fn = frames[i].fn
      OBVIOUS
    <3>1. i = Len(frames) + 1 \/ i = Len(frames) \/ i \in 1..Len(frames) - 1
      BY <2>1, <2>2, <2>3
    <3>2. CASE i = Len(frames) + 1
      BY <1>2, <1>3, <2>1, <3>2
    <3>3. CASE i = Len(frames)
      BY <2>1, <2>2, <2>3, <3>3
    <3>4. CASE i \in 1..Len(frames) - 1
      BY <2>1, <2>2, <2>3, <3>4
    <3>5. QED
      BY <3>1, <3>2, <3>3, <3>4
  <2>6. QED
    BY <2>4, <2>5 DEF FnsKept
<1>7. StopsKept
  BY <1>2, SameStopsKept DEF SameStops
<1>8. QED
  BY <1>2, <1>5, <1>6, <1>7, ShrinkCarried, CarriedLifo

\* The end of an execute() leaves the other stop depths.
LEMMA EndedStops ==
  ASSUME TInv, status = "running", Len(execs) # 1, NEW fs, EndExec(fs)
  PROVE  StopsKept
<1>1. PICK n \in Nat \ {0} :
           /\ Len(execs) = n + 1 /\ Len(execs') = n
           /\ \A j \in 1..n - 1 : execs'[j] = execs[j]
           /\ stop' = execs[n].saved
  BY EndedIs
<1>2. /\ n + 1 # n /\ n <= n + 1
      /\ \A j \in 1..n : (j = n \/ j \in 1..n - 1) /\ j <= n + 1 /\ j # n + 1
  OBVIOUS
<1>3. QED
  BY <1>1, <1>2 DEF StopsKept, StopOf

LEMMA RuntimeErrorLifo == LifoInv /\ TInv' /\ RuntimeError => Lifo'
<1> SUFFICES ASSUME LifoInv, TInv', RuntimeError PROVE Lifo'
  OBVIOUS
<1>1. status = "running" /\ TInv /\ Lifo
  BY DEF RuntimeError, InBody, Dispatching, LifoInv, OnceInv
<1>2. CASE Len(execs) = 1
  <2>1. UNCHANGED <<frames, execs, stop, calls>>
    BY <1>2 DEF RuntimeError
  <2>2. QED
    BY <1>1, <2>1 DEF Lifo, OwnersKnown, OneFrame, Suspended, Ordered, Younger, StopsRise, Put, StopOf
<1>3. CASE Len(execs) # 1
  <2>1. /\ Len(frames') = Len(frames)
        /\ \A i \in 1..Len(frames) : frames'[i].defers = frames[i].defers /\ frames'[i].fn = frames[i].fn
        /\ EndExec(frames') /\ Last(execs).todo = <<>> /\ calls' = calls
    BY <1>1, <1>3, StrayedIs
  <2>2. \A i : List(frames', execs', 1, i) = List(frames', execs, 1, i)
    BY <1>1, <1>3, <2>1, EndedLists
  <2>3. ListsShrink
    BY <2>1, <2>2 DEF List, ListsShrink, Shrunken
  <2>4. FnsKept
    BY <1>1, <2>1, Around0 DEF FnsKept
  <2>5. QED
    BY <1>1, <1>3, <2>1, <2>3, <2>4, EndedStops, ShrinkCarried, CarriedLifo
<1>4. QED
  BY <1>2, <1>3

LEMMA ReturnLifo == LifoInv /\ TInv' /\ Return => Lifo'
<1> SUFFICES ASSUME LifoInv, TInv', Return PROVE Lifo'
  OBVIOUS
<1>1. TInv /\ Lifo
  BY DEF LifoInv, OnceInv
<1>2. PICK n \in Nat :
           /\ Len(frames) = n + 1 /\ Len(frames') = n
           /\ \A i \in 1..n : /\ frames'[i].defers = frames[i].defers /\ frames'[i].fn = frames[i].fn
           /\ Top = frames[n + 1] /\ Last(execs).todo = <<>> /\ status = "running" /\ calls' = calls
           /\ \/ execs' = execs /\ stop' = stop
              \/ Len(execs) # 1 /\ EndExec(Front(frames))
  BY <1>1, ReturnIs
<1>3. (\A i \in 1..n : i \in 1..n + 1) /\ (\A i \in 1..n + 1 : i \in 1..n \/ i = n + 1)
      /\ ~(n + 1 \in 1..n) /\ n + 1 \in 1..n + 1
  OBVIOUS
<1>4. \A i : List(frames', execs', 1, i) = List(frames', execs, 1, i)
  BY <1>1, <1>2, EndedLists
<1>5. List(frames', execs', 0, n + 1) = <<>>
  BY <1>2, <1>3 DEF List
<1>6. \A c, i : ~(c = 0 /\ i = n + 1) => List(frames', execs', c, i) = List(frames, execs, c, i)
  BY <1>2, <1>3, <1>4 DEF List
<1>7. ListsShrink
  BY <1>5, <1>6 DEF ListsShrink, Shrunken
<1>8. FnsKept
  BY <1>1, <1>2, <1>3, Around0 DEF FnsKept
<1>9. StopsKept
  BY <1>1, <1>2, EndedStops, SameStopsKept DEF SameStops
<1>10. QED
  BY <1>1, <1>7, <1>8, <1>9, ShrinkCarried, CarriedLifo

\* A drain adds the execute() of its thunk, or none.
LEMMA DrainStops ==
  ASSUME TInv, Drain
  PROVE  StopsKept
<1> DEFINE M == Len(execs)
           N == Len(frames)
<1>1. PICK d \in Entries, y \in ExecType :
        /\ status = "running"
        /\ execs'[M] = y /\ \A j \in 1..M - 1 : execs'[j] = execs[j]
        /\ \/ y.saved = stop /\ Len(execs') = M + 1 /\ stop' = N
           \/ stop' = stop /\ Len(execs') = M /\ y.saved = execs[M].saved
  BY DrainIs
<1>2. M \in Nat \ {0} /\ stop < N
  BY <1>1, Running DEF TInv, StopsNest
<1>3. CASE stop' = stop /\ Len(execs') = M /\ y.saved = execs[M].saved
  <2>1. \A j \in 1..M : j # M => j \in 1..M - 1
    BY <1>2
  <2>2. \A j \in 1..M : j # M => execs'[j].saved = execs[j].saved
    BY <1>1, <2>1
  <2>3. SameStops
    BY <1>3, <2>2 DEF SameStops
  <2>4. QED
    BY <2>3, SameStopsKept
<1>4. CASE y.saved = stop /\ Len(execs') = M + 1 /\ stop' = N
  <2>1. \A j \in 1..M + 1 : (j <= M <=> j # M + 1) /\ (j <= M => j = M \/ j \in 1..M - 1)
    BY <1>2
  <2>2. \A j \in 1..M + 1 : StopOf(j)' = IF j <= M THEN StopOf(j) ELSE N
    <3> SUFFICES ASSUME NEW j \in 1..M + 1 PROVE StopOf(j)' = IF j <= M THEN StopOf(j) ELSE N
      OBVIOUS
    <3>1. StopOf(j)' = IF j = M + 1 THEN N ELSE execs'[j].saved
      BY <1>4 DEF StopOf
    <3>2. StopOf(j) = IF j = M THEN stop ELSE execs[j].saved
      BY DEF StopOf
    <3>3. CASE j = M + 1
      BY <2>1, <3>1, <3>3
    <3>4. CASE j = M /\ j # M + 1
      BY <1>1, <1>4, <2>1, <3>1, <3>2, <3>4
    <3>5. CASE j \in 1..M - 1 /\ j # M + 1 /\ j # M
      BY <1>1, <2>1, <3>1, <3>2, <3>5
    <3>6. QED
      BY <2>1, <3>3, <3>4, <3>5
  <2>3. QED
    BY <1>2, <1>4, <2>2 DEF StopsKept
<1>5. QED
  BY <1>1, <1>3, <1>4

LEMMA DrainLifo == LifoInv /\ TInv' /\ Drain => Lifo'
<1> SUFFICES ASSUME LifoInv, TInv', Drain PROVE Lifo'
  OBVIOUS
<1>1. TInv /\ Lifo
  BY DEF LifoInv, OnceInv
<1> DEFINE M == Len(execs)
           N == Len(frames)
<1>2. PICK d \in Entries, y \in ExecType :
        /\ status = "running" /\ calls' = calls
        /\ Last(execs).todo # <<>> /\ y.todo = Tail(Last(execs).todo)
        /\ execs'[M] = y /\ \A j \in 1..M - 1 : execs'[j] = execs[j]
        /\ \/ /\ y.saved = stop
              /\ frames' = Append(SetTop([Top EXCEPT !.ip = pc]), Frame(0, d.id, FALSE))
              /\ Frame(0, d.id, FALSE) \in Frames /\ Frame(0, d.id, FALSE).defers = <<>>
              /\ Frame(0, d.id, FALSE).fn = 0
              /\ Len(execs') = M + 1 /\ execs'[M + 1] = Exec /\ stop' = N
           \/ /\ frames' = frames /\ stop' = stop /\ Len(execs') = M
              /\ y.saved = execs[M].saved
  BY <1>1, DrainIs
<1>3. M \in Nat \ {0} /\ N \in Nat \ {0} /\ Top = frames[N] /\ stop < N /\ calls \in Nat /\ calls <= calls
  BY <1>1, <1>2, Running, Around0 DEF TInv, StopsNest
<1> DEFINE g == Frame(0, d.id, FALSE)
<1>4. /\ Exec.todo = <<>>
      /\ \A i \in 1..M : i # M => i \in 1..M - 1
      /\ M \in 1..M /\ M \in 1..M + 1 /\ \A i \in 1..M : i \in 1..M + 1
      /\ \A i \in 1..M + 1 : i \in 1..M \/ i = M + 1
      /\ ~(M + 1 \in 1..M)
  BY <1>3 DEF Exec
<1>5. /\ List(frames', execs', 1, M) = Tail(Last(execs).todo)
      /\ \A i : i # M => List(frames', execs', 1, i) = List(frames, execs, 1, i)
  <2>1. Len(execs') = M \/ (Len(execs') = M + 1 /\ execs'[M + 1] = Exec)
    BY <1>2
  <2>2. /\ execs'[M] = y /\ y.todo = Tail(Last(execs).todo)
        /\ \A j \in 1..M - 1 : execs'[j] = execs[j]
    BY <1>2
  <2>3. QED
    BY <1>4, <2>1, <2>2 DEF List
<1>6. /\ \A i : List(frames', execs', 0, i) = List(frames, execs, 0, i)
      /\ FnsKept
  <2>1. CASE frames' = frames
    BY <1>2, <1>3, <2>1 DEF List, FnsKept
  <2>2. CASE /\ frames' = Append(SetTop([Top EXCEPT !.ip = pc]), g)
             /\ g \in Frames /\ g.defers = <<>> /\ g.fn = 0
    <3> HIDE DEF g
    <3>1. \A i : List(frames', execs', 0, i) = List(frames, execs', 0, i)
      BY <1>1, <1>2, <2>2, PushedLists
    <3>2. PICK f \in Frames :
           /\ Len(frames') = Len(frames) + 1 /\ frames'[Len(frames) + 1] = g
           /\ frames'[Len(frames)] = f
           /\ \A i \in 1..Len(frames) - 1 : frames'[i] = frames[i]
           /\ f.fn = Top.fn
      BY <1>1, <1>2, <2>2, PushedIs
    <3>3. \A n \in Nat \ {0} : /\ n \in 1..n
                               /\ \A i \in 1..n - 1 : i \in 1..n
                               /\ \A i \in 1..n + 1 : i = n + 1 \/ i = n \/ i \in 1..n - 1
      OBVIOUS
    <3>4. \A i \in 1..Len(frames') : \/ frames'[i].fn = 0
                                     \/ i \in 1..Len(frames) /\ frames'[i].fn = frames[i].fn
      <4> HIDE DEF N
      <4>1. /\ Len(frames') = N + 1 /\ frames'[N + 1].fn = 0 /\ frames'[N].fn = frames[N].fn
            /\ \A i \in 1..N - 1 : frames'[i].fn = frames[i].fn
        BY <1>3, <2>2, <3>2 DEF N
      <4>2. QED
        BY <1>3, <3>3, <4>1 DEF N
    <3>5. FnsKept
      BY <1>2, <1>3, <3>4 DEF FnsKept
    <3>6. QED
      BY <3>1, <3>5 DEF List
  <2>3. QED
    BY <1>2, <2>1, <2>2
<1>7. List(frames, execs, 1, M) = Last(execs).todo
  BY <1>1, <1>2, TopLists
<1>8. \A c, i : \/ List(frames', execs', c, i) = List(frames, execs, c, i)
                \/ c = 1 /\ i = M
  <2>1. \A c, i : c # 0 /\ c # 1 => List(frames', execs', c, i) = List(frames, execs, c, i)
    BY DEF List
  <2>2. QED
    BY <1>5, <1>6, <2>1
<1>9. ListsShrink
  BY <1>2, <1>5, <1>7, <1>8 DEF ListsShrink, Shrunken
<1>10. StopsKept
  BY <1>1, DrainStops
<1>11. QED
  BY <1>1, <1>6, <1>9, <1>10, ShrinkCarried, CarriedLifo

(***************************************************************************)
(* A new entry is the youngest, and no suspended drain has one of its      *)
(* activation.                                                             *)
(***************************************************************************)
LEMMA DeferLifo == LifoInv /\ TInv' /\ Defer => Lifo'
<1> SUFFICES ASSUME LifoInv, TInv', Defer PROVE Lifo'
  OBVIOUS
<1>1. /\ status = "running" /\ TInv /\ Lifo /\ execs' = execs /\ stop' = stop /\ calls' = calls
      /\ Top.fn # 0 /\ Last(execs).todo = <<>> /\ fates \in Seq(Fates) /\ AllPending(frames, execs, fates)
  BY Around0 DEF Defer, InFn, InBody, Dispatching, OnceInv, LifoInv, Waiting
<1>2. PICK kind \in {"Always", "OnError"} :
        frames' = SetTop([Top EXCEPT !.defers = Append(@, Entry(kind))])
  BY DEF Defer
<1> DEFINE n == Len(fates)
           N == Len(frames)
           M == Len(execs)
           u == Top.defers
           L == Len(u)
           z == Entry(kind)
           f == [Top EXCEPT !.defers = Append(u, z)]
<1>3. u \in Seq(Entries) /\ L \in Nat /\ Top \in Frames /\ n \in Nat /\ N \in Nat \ {0} /\ M \in Nat \ {0}
      /\ Top = frames[N] /\ calls \in Nat
  BY <1>1, Running, Around0 DEF Frames
<1>4. z \in Entries /\ z.id = n + 1 /\ z.owner = Top.fn
  BY <1>1, <1>3, Around0 DEF Entry, Entries, Frames
<1> HIDE DEF z
<1>5. /\ f \in Frames /\ f.fn = Top.fn /\ Len(f.defers) = L + 1
      /\ f.defers[L + 1] = z /\ \A a \in 1..L : f.defers[a] = u[a]
  <2>1. Append(u, z) \in Seq(Entries)
    BY <1>3, <1>4
  <2>2. f \in Frames /\ f.fn = Top.fn /\ f.defers = Append(u, z)
    BY <1>3, <2>1 DEF Frames
  <2>3. QED
    BY <1>3, <1>4, <2>2
<1>6. /\ frames' = SetTop(f) /\ Last(execs) \in ExecType /\ execs' = SetExec(Last(execs))
  BY <1>1, <1>2, Running DEF z
<1> HIDE DEF f, L, u
<1>7. /\ List(frames', execs', 0, N) = f.defers
      /\ \A c, i : \/ c = 0 /\ i = N
                   \/ c = 1 /\ i = M
                   \/ List(frames', execs', c, i) = List(frames, execs, c, i)
      /\ List(frames', execs', 1, M) = Last(execs).todo
      /\ Len(frames') = N /\ frames'[N] = f
      /\ \A i \in 1..N - 1 : frames'[i] = frames[i]
  BY <1>1, <1>5, <1>6, InPlaceLists
<1>8. /\ List(frames, execs, 0, N) = u
      /\ List(frames, execs, 1, M) = <<>> /\ Last(execs).todo = <<>>
  BY <1>1, TopLists DEF u
<1> DEFINE New(c, i, k, d) == PutAt(frames', execs', c, i, k, d)
<1>9. \A c, i, k, d : ~(c = 0 /\ i = N) => (New(c, i, k, d) <=> Put(c, i, k, d))
  BY <1>7, <1>8 DEF Put, PutAt
<1>10. \A k, d : New(0, N, k, d) => Put(0, N, k, d) \/ (k = L + 1 /\ d = z)
  <2>1. \A k, d : New(0, N, k, d) <=> k \in 1..L + 1 /\ f.defers[k] = d /\ d # Sentinel
    BY <1>5, <1>7 DEF PutAt
  <2>2. \A k, d : Put(0, N, k, d) <=> k \in 1..L /\ u[k] = d /\ d # Sentinel
    BY <1>8 DEF Put, PutAt, L
  <2>3. \A k \in 1..L + 1 : k \in 1..L \/ k = L + 1
    BY <1>3
  <2> HIDE DEF New
  <2>4. QED
    BY <1>5, <2>1, <2>2, <2>3
<1>11. \A k, d : Put(0, N, k, d) => k \in 1..L
  BY <1>8 DEF Put, PutAt, L
<1>12. \A k, d : ~Put(1, M, k, d)
  BY <1>8 DEF Put, PutAt
<1>13. \A c, i, k, d : Put(c, i, k, d) => d.id < z.id /\ d.owner \in Nat \ {0}
  <2> SUFFICES ASSUME NEW c, NEW i, NEW k, NEW d, Put(c, i, k, d)
               PROVE  d.id < z.id /\ d.owner \in Nat \ {0}
    OBVIOUS
  <2>1. Has(frames, execs, c, i, k, d.id) /\ d.owner \in Nat \ {0}
    BY <1>1, PutType
  <2>2. d.id \in 1..n
    BY <1>1, <2>1 DEF AllPending
  <2>3. QED
    BY <1>3, <1>4, <2>1, <2>2
<1>14. \A c, i, k, d : Put(c, i, k, d)' <=> New(c, i, k, d)
  BY DEF Put
<1> HIDE DEF New
<1>15. \A c, i, k, d : New(c, i, k, d) => Put(c, i, k, d) \/ (c = 0 /\ i = N /\ k = L + 1 /\ d = z)
  BY <1>9, <1>10
<1>16. \A i \in 1..N : frames'[i].fn = frames[i].fn
  <2>1. \A i \in 1..N : i = N \/ i \in 1..N - 1
    BY <1>3
  <2>2. QED
    BY <1>3, <1>5, <1>7, <2>1
<1>17. \A j \in 1..M : StopOf(j)' = StopOf(j)
  BY <1>1 DEF StopOf
<1> HIDE DEF N, M
<1>18. /\ \A i \in 1..N : frames[i].fn <= calls
       /\ \A c, i, k, d : Put(c, i, k, d) => d.owner <= calls
       /\ \A i, j \in 1..N : frames[i].fn = frames[j].fn /\ frames[i].fn # 0 => i = j
       /\ \A i, k, d : Put(0, i, k, d) => \A j \in 1..N : d.owner = frames[j].fn => i = j
       /\ \A i, k, d, j, l, x : Put(0, i, k, d) /\ Put(0, j, l, x) /\ d.owner = x.owner => i = j
       /\ \A j \in 1..M - 1 : \A k, d : Put(1, j, k, d) =>
            \A i \in StopOf(j + 1) + 1..N : d.owner # frames[i].fn
  BY <1>1 DEF Lifo, OwnersKnown, OneFrame, Suspended, N, M
<1>19. N \in 1..N /\ z.owner = frames[N].fn /\ frames[N].fn # 0
  BY <1>1, <1>3, <1>4
<1>20. OwnersKnown'
  <2>1. \A c, i, k, d : New(c, i, k, d) => d.owner <= calls
    BY <1>15, <1>18, <1>19
  <2>2. QED
    BY <1>1, <1>7, <1>14, <1>16, <1>18, <2>1 DEF OwnersKnown
<1>21. OneFrame'
  <2>1. \A i, k, d : New(0, i, k, d) => \A j \in 1..N : d.owner = frames[j].fn => i = j
    BY <1>15, <1>18, <1>19
  <2>2. \A i, k, d, j, l, x : New(0, i, k, d) /\ New(0, j, l, x) /\ d.owner = x.owner => i = j
    BY <1>15, <1>18, <1>19
  <2>3. \A i, j \in 1..N : frames'[i].fn = frames'[j].fn /\ frames'[i].fn # 0 => i = j
    BY <1>16, <1>18
  <2>4. QED
    BY <1>7, <1>14, <1>16, <2>1, <2>2, <2>3 DEF OneFrame
<1>22. \A j \in 1..M - 1 : j \in 1..M /\ j + 1 \in 1..M /\ StopOf(j + 1) < N /\ StopOf(j + 1) \in Nat
  <2> SUFFICES ASSUME NEW j \in 1..M - 1
               PROVE  j \in 1..M /\ j + 1 \in 1..M /\ StopOf(j + 1) < N /\ StopOf(j + 1) \in Nat
    OBVIOUS
  <2>1. j \in 1..M /\ j + 1 \in 1..M /\ M \in 1..M /\ (j + 1 = M \/ j + 1 < M)
    BY <1>3
  <2>2. StopOf(M) = stop /\ stop < N /\ stop \in Nat
    BY <1>1, Running DEF StopOf, M, N, TInv, TypeOK, StopsNest
  <2>3. StopOf(j + 1) \in Nat
    <3>1. execs \in Seq(ExecType)
      BY <1>1 DEF TInv, TypeOK, ExecType
    <3>2. execs[j + 1] \in ExecType
      BY <2>1, <3>1 DEF M
    <3>3. QED
      BY <2>2, <3>2 DEF StopOf, ExecType
  <2>4. j + 1 < M => StopOf(j + 1) < StopOf(M)
    BY <1>1, <2>1 DEF Lifo, StopsRise, M
  <2>5. QED
    BY <1>3, <2>1, <2>2, <2>3, <2>4
<1>23. Suspended'
  <2> SUFFICES ASSUME NEW j \in 1..M - 1, NEW k, NEW d, New(1, j, k, d),
                      NEW i \in StopOf(j + 1)' + 1..N
               PROVE  d.owner # frames'[i].fn
    BY <1>1, <1>7, <1>14 DEF Suspended, M
  <2>1. Put(1, j, k, d)
    BY <1>15
  <2>2. StopOf(j + 1)' = StopOf(j + 1) /\ i \in 1..N
    BY <1>3, <1>17, <1>22
  <2>3. QED
    BY <1>16, <1>18, <2>1, <2>2
<1>24. Ordered'
  <2> SUFFICES ASSUME NEW i, NEW k, NEW d, NEW l, NEW x, k < l
               PROVE  /\ New(0, i, k, d) /\ New(0, i, l, x) => d.id < x.id
                      /\ New(1, i, k, d) /\ New(1, i, l, x) => x.id < d.id
    BY <1>14 DEF Ordered
  <2>1. ASSUME New(1, i, k, d), New(1, i, l, x) PROVE x.id < d.id
    <3>1. Put(1, i, k, d) /\ Put(1, i, l, x)
      BY <1>15, <2>1
    <3>2. QED
      BY <1>1, <3>1 DEF Lifo, Ordered
  <2>2. ASSUME New(0, i, k, d), New(0, i, l, x) PROVE d.id < x.id
    <3>1. CASE Put(0, i, k, d) /\ Put(0, i, l, x)
      BY <1>1, <3>1 DEF Lifo, Ordered
    <3>2. CASE Put(0, i, k, d) /\ x = z
      BY <1>13, <3>2
    <3>3. CASE k = L + 1 /\ i = N
      <4>1. l \in 1..L \/ l = L + 1
        BY <1>11, <1>15, <2>2, <3>3
      <4>2. QED
        BY <1>3, <3>3, <4>1
    <3>4. QED
      BY <1>15, <2>2, <3>1, <3>2, <3>3
  <2>3. QED
    BY <2>1, <2>2
<1>25. Younger'
  <2> SUFFICES ASSUME NEW j, NEW k, NEW d, NEW i, NEW l, NEW x,
                      New(1, j, k, d), New(0, i, l, x), d.owner = x.owner
               PROVE  x.id < d.id
    BY <1>14 DEF Younger
  <2>1. Put(1, j, k, d)
    BY <1>15
  <2>2. CASE Put(0, i, l, x)
    BY <1>1, <2>1, <2>2 DEF Lifo, Younger
  <2>3. CASE x = z
    <3>1. j \in 1..M
      BY <2>1 DEF Put, PutAt, List, M
    <3>2. j # M
      BY <1>12, <2>1
    <3>3. j \in 1..M - 1
      BY <1>3, <3>1, <3>2
    <3>4. N \in StopOf(j + 1) + 1..N
      BY <1>3, <1>22, <3>3
    <3>5. d.owner # frames[N].fn
      BY <1>18, <2>1, <3>3, <3>4
    <3>6. QED
      BY <1>19, <2>3, <3>5
  <2>4. QED
    BY <1>15, <2>2, <2>3
<1>26. StopsRise'
  BY <1>1, <1>17 DEF Lifo, StopsRise, M
<1>27. QED
  BY <1>20, <1>21, <1>23, <1>24, <1>25, <1>26 DEF Lifo

-----------------------------------------------------------------------------
LEMMA InitLifo == Init => LifoInv
<1> SUFFICES ASSUME Init PROVE LifoInv
  OBVIOUS
<1>1. PICK hasDefer \in BOOLEAN : frames = <<Frame(1, 0, hasDefer)>>
  BY DEF Init
<1>2. Len(frames) = 1 /\ frames[1].defers = <<>> /\ frames[1].fn = 1
  BY <1>1 DEF Frame
<1>3. Len(execs) = 1 /\ execs[1].todo = <<>> /\ calls = 1
  BY DEF Init, Exec
<1>4. \A c, i : List(frames, execs, c, i) = <<>>
  BY <1>2, <1>3 DEF List
<1>5. \A c, i, k, d : ~Put(c, i, k, d)
  BY <1>4 DEF Put, PutAt
<1>6. \A i \in 1..1 : i = 1
  OBVIOUS
<1>7. OwnersKnown /\ OneFrame /\ Suspended /\ Ordered /\ Younger
  BY <1>2, <1>3, <1>5, <1>6 DEF OwnersKnown, OneFrame, Suspended, Ordered, Younger
<1>8. StopsRise
  <2>1. \A i, j \in 1..1 : ~(i < j)
    OBVIOUS
  <2>2. QED
    BY <1>3, <2>1 DEF StopsRise
<1>9. QED
  BY <1>7, <1>8, InitOnce DEF LifoInv, Lifo

LEMMA LifoStep == LifoInv /\ [Next]_vars => LifoInv'
<1>1. LifoInv => OnceInv
  BY DEF LifoInv
<1>2. LifoInv /\ [Next]_vars => OnceInv' /\ TInv'
  BY <1>1, OnceStep DEF OnceInv
<1>3. LifoInv /\ UNCHANGED vars => Lifo'
  BY DEF LifoInv, Lifo, OwnersKnown, OneFrame, Suspended, Ordered, Younger, StopsRise, Put, StopOf, vars
<1>4. LifoInv /\ TInv' /\ Next => Lifo'
  BY OpenBlockLifo, DeferLifo, EndBlockLifo, RetLifo, LoopTestLifo, EscapeLifo, EnterLifo,
     TailCallLifo, PropagateLifo, RuntimeErrorLifo, ReturnLifo, DrainLifo DEF Next
<1>5. QED
  BY <1>2, <1>3, <1>4 DEF LifoInv

(***************************************************************************)
(* The order of the entries on and between the lists, with what it rests   *)
(* on: an activation's entries are in one frame, and a suspended drain     *)
(* has none of an activation that runs above it.                           *)
(***************************************************************************)
THEOREM VmLifo == Spec => []LifoInv
BY InitLifo, LifoStep, PTL DEF Spec

(***************************************************************************)
(* What a drain of the VM has taken is in the order last in first out, and *)
(* younger than the entries of the activation still on its defer stack.    *)
(***************************************************************************)
THEOREM VmLastInFirstOut == Spec => []LastInFirstOut
<1>1. ASSUME LifoInv PROVE LastInFirstOut
  <2>1. TInv /\ Ordered /\ Younger
    BY <1>1 DEF LifoInv, OnceInv, Lifo
  <2>2. /\ DOMAIN frames = 1..Len(frames) /\ DOMAIN execs = 1..Len(execs)
        /\ \A i \in 1..Len(frames) : /\ DOMAIN frames[i].defers = 1..Len(frames[i].defers)
                                     /\ List(frames, execs, 0, i) = frames[i].defers
                                     /\ frames[i].defers \in Seq(Entries)
        /\ \A j \in 1..Len(execs) : /\ DOMAIN execs[j].todo = 1..Len(execs[j].todo)
                                    /\ List(frames, execs, 1, j) = execs[j].todo
                                    /\ execs[j].todo \in Seq(Entries)
    <3>1. \A i \in 1..Len(frames) : List(frames, execs, 0, i) = frames[i].defers
      BY DEF List
    <3>2. \A j \in 1..Len(execs) : List(frames, execs, 1, j) = execs[j].todo
      BY DEF List
    <3>3. frames \in Seq(Frames) /\ execs \in Seq(ExecType)
      BY <2>1 DEF TInv, TypeOK, ExecType
    <3>4. \A c, i : List(frames, execs, c, i) \in Seq(Entries)
      BY <2>1, ListType
    <3>5. /\ \A i \in 1..Len(frames) : frames[i].defers \in Seq(Entries)
          /\ \A j \in 1..Len(execs) : execs[j].todo \in Seq(Entries)
      BY <3>1, <3>2, <3>4
    <3>6. QED
      BY <3>1, <3>2, <3>3, <3>5
  <2> SUFFICES ASSUME NEW j \in 1..Len(execs), NEW b \in 1..Len(execs[j].todo)
               PROVE  /\ \A a \in 1..Len(execs[j].todo) :
                           a < b /\ execs[j].todo[b] # Sentinel /\ execs[j].todo[a] # Sentinel
                             => execs[j].todo[b].id < execs[j].todo[a].id
                      /\ \A i \in 1..Len(frames) : \A a \in 1..Len(frames[i].defers) :
                           frames[i].defers[a].owner = execs[j].todo[b].owner /\ execs[j].todo[b] # Sentinel
                             => frames[i].defers[a].id < execs[j].todo[b].id
    <3>1. DOMAIN execs = 1..Len(execs) /\ DOMAIN frames = 1..Len(frames)
      BY <2>2
    <3>2. \A j \in 1..Len(execs) : DOMAIN execs[j].todo = 1..Len(execs[j].todo)
      BY <2>2
    <3>3. \A i \in 1..Len(frames) : DOMAIN frames[i].defers = 1..Len(frames[i].defers)
      BY <2>2
    <3>4. QED
      BY <3>1, <3>2, <3>3 DEF LastInFirstOut
  <2>3. execs[j].todo[b] # Sentinel => Put(1, j, b, execs[j].todo[b])
    BY <2>2 DEF Put, PutAt
  <2>4. \A a \in 1..Len(execs[j].todo) : execs[j].todo[a] # Sentinel => Put(1, j, a, execs[j].todo[a])
    BY <2>2 DEF Put, PutAt
  <2>5. ASSUME NEW i \in 1..Len(frames), NEW a \in 1..Len(frames[i].defers),
               frames[i].defers[a].owner = execs[j].todo[b].owner, execs[j].todo[b] # Sentinel
        PROVE  frames[i].defers[a].id < execs[j].todo[b].id
    <3>1. execs[j].todo[b].owner \in Nat \ {0}
      BY <2>1, <2>3, <2>5, PutType
    <3>2. frames[i].defers[a] # Sentinel
      BY <2>5, <3>1 DEF Sentinel
    <3>3. Put(0, i, a, frames[i].defers[a])
      BY <2>2, <3>2 DEF Put, PutAt
    <3>4. QED
      BY <2>1, <2>3, <2>5, <3>3 DEF Younger
  <2>6. QED
    BY <2>1, <2>3, <2>4, <2>5 DEF Ordered
<1>2. QED
  BY <1>1, VmLifo, PTL

-----------------------------------------------------------------------------
(***************************************************************************)
(* A thunk's result reaches a register only after a thunk has failed: a    *)
(* frame that hands its result to register 0 is the first above a stop     *)
(* depth, so that its OP_RET leaves execute(), unless a failure has left   *)
(* it behind.  For a failure to be seen in the fates, the frame above each *)
(* stop depth must be of a defer statement, which nothing marks again.     *)
(***************************************************************************)
AnyFailed == \E id \in 1..Len(fates) : fates[id] = "failed"

ThunkAtStop ==
  \A i \in 1..Len(frames) :
    frames[i].result = "r0" => AnyFailed \/ \E j \in 2..Len(execs) : i = StopOf(j) + 1

ForeignFailed == \A i \in 1..Len(frames) : frames[i].r0 = "foreign" => AnyFailed

StopOfDefer == \A j \in 2..Len(execs) : frames[StopOf(j) + 1].defer \in 1..Len(fates)

Regs == ThunkAtStop /\ ForeignFailed /\ StopOfDefer

RegsInv == LifoInv /\ Regs

-----------------------------------------------------------------------------
\* The stop depths are below that of the running execute().
LEMMA StopsBelow ==
  ASSUME TInv, Lifo, NEW j \in 1..Len(execs)
  PROVE  StopOf(j) \in Nat /\ StopOf(j) <= stop /\ (j < Len(execs) => StopOf(j) < stop)
<1>1. execs \in Seq(ExecType) /\ stop \in Nat
  BY DEF TInv, TypeOK, ExecType
<1>2. execs[j] \in ExecType /\ Len(execs) \in Nat
  BY <1>1
<1>3. StopOf(j) \in Nat
  BY <1>1, <1>2 DEF StopOf, ExecType
<1>4. Len(execs) \in 1..Len(execs) /\ (j < Len(execs) \/ j = Len(execs)) /\ StopOf(Len(execs)) = stop
  BY <1>2 DEF StopOf
<1>5. QED
  BY <1>1, <1>3, <1>4 DEF Lifo, StopsRise

\* What a frame keeps: its thunk, where its result goes, and what came to its register.
SameRegs(f, g) == g.defer = f.defer /\ g.result = f.result /\ g.r0 = f.r0

FatesGrow == Len(fates) <= Len(fates') /\ (AnyFailed => AnyFailed')

LEMMA KeptRegs ==
  ASSUME RegsInv, status = "running", TInv', StopsKept, Len(execs') >= Len(execs), FatesGrow,
         Len(frames') >= Len(frames),
         \A i \in 1..Len(frames) : SameRegs(frames[i], frames'[i]),
         \A i \in 1..Len(frames') : i > Len(frames) =>
           /\ frames'[i].r0 = "own" /\ i = Len(frames) + 1
           /\ \/ frames'[i].result = "temp" /\ Len(execs') = Len(execs)
              \/ frames'[i].defer \in 1..Len(fates') /\ Len(execs') = Len(execs) + 1,
         Len(execs') = Len(execs) + 1 => Len(frames') = Len(frames) + 1
  PROVE  Regs'
<1>1. TInv /\ Lifo /\ Regs /\ Len(frames) \in Nat \ {0} /\ Len(execs) \in Nat \ {0} /\ stop < Len(frames)
      /\ stop \in Nat
  BY Running DEF RegsInv, LifoInv, OnceInv, TInv, TypeOK, StopsNest
<1>2. Len(execs') \in Nat /\ Len(fates) \in Nat /\ Len(fates') \in Nat /\ Len(frames') \in Nat
  BY DEF TInv, TypeOK, RegsInv, LifoInv, OnceInv
<1>3. \A i \in 1..Len(frames') : i \in 1..Len(frames) \/ i > Len(frames)
  BY <1>1, <1>2
<1>4. \A j \in 1..Len(execs') : StopOf(j)' = IF j <= Len(execs) THEN StopOf(j) ELSE Len(frames)
  BY DEF StopsKept
<1>5. ThunkAtStop'
  <2> SUFFICES ASSUME NEW i \in 1..Len(frames'), frames'[i].result = "r0"
               PROVE  AnyFailed' \/ \E j \in 2..Len(execs') : i = StopOf(j)' + 1
    BY DEF ThunkAtStop
  <2>1. CASE i \in 1..Len(frames)
    <3>1. frames[i].result = "r0"
      BY <2>1 DEF SameRegs
    <3>2. CASE AnyFailed
      BY <3>2 DEF FatesGrow
    <3>3. CASE \E j \in 2..Len(execs) : i = StopOf(j) + 1
      <4>1. PICK j \in 2..Len(execs) : i = StopOf(j) + 1
        BY <3>3
      <4>2. j \in 2..Len(execs') /\ j \in 1..Len(execs') /\ j <= Len(execs)
        BY <1>1, <1>2
      <4>3. StopOf(j)' = StopOf(j)
        BY <1>4, <4>2
      <4>4. QED
        BY <4>1, <4>2, <4>3
    <3>4. QED
      BY <1>1, <2>1, <3>1, <3>2, <3>3 DEF Regs, ThunkAtStop
  <2>2. CASE i > Len(frames)
    <3>1. i = Len(frames) + 1 /\ Len(execs') = Len(execs) + 1
      BY <2>2
    <3>2. PICK j \in 2..Len(execs') : j = Len(execs) + 1 /\ ~(j <= Len(execs)) /\ j \in 1..Len(execs')
      BY <1>1, <3>1
    <3>3. StopOf(j)' = Len(frames)
      BY <1>4, <3>2
    <3>4. QED
      BY <3>1, <3>3
  <2>3. QED
    BY <1>3, <2>1, <2>2
<1>6. ForeignFailed'
  <2> SUFFICES ASSUME NEW i \in 1..Len(frames'), frames'[i].r0 = "foreign" PROVE AnyFailed'
    BY DEF ForeignFailed
  <2>1. i \in 1..Len(frames) /\ frames[i].r0 = "foreign"
    BY <1>3 DEF SameRegs
  <2>2. QED
    BY <1>1, <2>1 DEF Regs, ForeignFailed, FatesGrow
<1>7. StopOfDefer'
  <2> SUFFICES ASSUME NEW j \in 2..Len(execs')
               PROVE  frames'[StopOf(j)' + 1].defer \in 1..Len(fates')
    BY DEF StopOfDefer
  <2>1. CASE j \in 2..Len(execs)
    <3>1. j \in 1..Len(execs) /\ j \in 1..Len(execs') /\ j <= Len(execs)
      BY <1>1, <1>2, <2>1
    <3>2. StopOf(j)' = StopOf(j) /\ StopOf(j) \in Nat /\ StopOf(j) <= stop
      BY <1>1, <1>4, <3>1, StopsBelow
    <3>3. StopOf(j) + 1 \in 1..Len(frames)
      BY <1>1, <3>2
    <3>4. frames'[StopOf(j) + 1].defer = frames[StopOf(j) + 1].defer
      BY <3>3 DEF SameRegs
    <3>5. frames[StopOf(j) + 1].defer \in 1..Len(fates)
      BY <1>1, <2>1 DEF Regs, StopOfDefer
    <3>6. QED
      BY <1>2, <3>2, <3>4, <3>5 DEF FatesGrow
  <2>2. CASE ~(j \in 2..Len(execs))
    <3>1. j \in 1..Len(execs') /\ ~(j <= Len(execs)) /\ Len(execs') = Len(execs) + 1
      BY <1>1, <1>2, <2>2 DEF StopsKept
    <3>2. StopOf(j)' = Len(frames)
      BY <1>4, <3>1
    <3>3. Len(frames) + 1 \in 1..Len(frames') /\ Len(frames) + 1 > Len(frames)
      BY <1>1, <1>2, <3>1
    <3>4. Len(execs') # Len(execs)
      BY <1>1, <3>1
    <3>5. QED
      BY <3>2, <3>3, <3>4
  <2>3. QED
    BY <2>1, <2>2
<1>8. QED
  BY <1>5, <1>6, <1>7 DEF Regs

\* A step in the top frame keeps what the registers depend on.
LEMMA InPlaceRegs ==
  ASSUME RegsInv, status = "running", TInv', NEW f \in Frames, NEW e \in ExecType,
         e.saved = Last(execs).saved, SameRegs(Top, f),
         frames' = SetTop(f), execs' = SetExec(e), stop' = stop, FatesGrow
  PROVE  Regs'
<1>1. TInv /\ Len(frames) \in Nat \ {0} /\ Top = frames[Len(frames)] /\ Len(execs) \in Nat \ {0}
  BY Running DEF RegsInv, LifoInv, OnceInv
<1>2. /\ Len(frames') = Len(frames) /\ frames'[Len(frames)] = f
      /\ \A i \in 1..Len(frames) - 1 : frames'[i] = frames[i]
      /\ Len(execs') = Len(execs) /\ \A i \in 1..Len(execs) - 1 : execs'[i] = execs[i]
  BY <1>1, InPlaceLists
<1>3. StopsKept
  BY <1>1, <1>2, SameStopsKept DEF SameStops
<1>4. \A n \in Nat \ {0} : /\ \A j \in 1..n : j = n \/ j \in 1..n - 1
                           /\ \A j \in 1..n : ~(j > n)
                           /\ n >= n /\ n # n + 1
  OBVIOUS
<1>5. \A i \in 1..Len(frames) : SameRegs(frames[i], frames'[i])
  BY <1>1, <1>2, <1>4 DEF SameRegs
<1>6. /\ Len(execs') >= Len(execs) /\ Len(frames') >= Len(frames)
      /\ \A i \in 1..Len(frames') : ~(i > Len(frames))
      /\ Len(execs') # Len(execs) + 1
  BY <1>1, <1>2, <1>4
<1>7. QED
  BY <1>3, <1>5, <1>6, KeptRegs

LEMMA SameFates ==
  ASSUME fates' = fates, NEW n \in Nat, Len(fates) = n
  PROVE  FatesGrow
BY DEF FatesGrow, AnyFailed

LEMMA TakeFromRegs ==
  ASSUME RegsInv, TInv', Dispatching, NEW f \in Frames, SameRegs(Top, f),
         NEW k \in 1..Len(f.defers) + 1, NEW v, NEW p, TakeFrom(f, k, v, p),
         stop' = stop, fates' = fates
  PROVE  Regs'
<1>1. TInv /\ status = "running"
  BY DEF RegsInv, LifoInv, OnceInv, Dispatching
<1>2. PICK g, e : /\ Taken(f, k - 1, v, g, e)
                  /\ frames' = SetTop(g) /\ execs' = SetExec(e) /\ pc' = p
  BY <1>1, TakenIs
<1>3. g \in Frames /\ e \in ExecType /\ e.saved = Last(execs).saved /\ SameRegs(Top, g)
  BY <1>2 DEF Taken, SameRegs
<1>4. FatesGrow
  BY <1>1, Around0, SameFates
<1>5. QED
  BY <1>1, <1>2, <1>3, <1>4, InPlaceRegs

LEMMA GotoRegs ==
  ASSUME RegsInv, TInv', status = "running", NEW f \in Frames, SameRegs(Top, f),
         frames' = SetTop(f), execs' = execs, stop' = stop, fates' = fates
  PROVE  Regs'
<1>1. TInv
  BY DEF RegsInv, LifoInv, OnceInv
<1>2. Last(execs) \in ExecType /\ execs' = SetExec(Last(execs))
  BY <1>1, Running
<1>3. FatesGrow
  BY <1>1, Around0, SameFates
<1>4. QED
  BY <1>2, <1>3, InPlaceRegs

LEMMA ScopePopRegs ==
  ASSUME RegsInv, TInv', Dispatching, NEW f \in Frames, SameRegs(Top, f),
         NEW scoped, NEW v, NEW p, ScopePop(f, scoped, v, p), stop' = stop, fates' = fates
  PROVE  Regs'
<1>1. ASSUME NEW k \in MarksOf(f), TakeFrom(f, k, v, p) PROVE Regs'
  <2>1. k \in 1..Len(f.defers) + 1
    BY <1>1 DEF MarksOf, Frames
  <2>2. QED
    BY <1>1, <2>1, TakeFromRegs
<1>2. QED
  BY <1>1, GotoRegs DEF ScopePop, Goto, Dispatching

LEMMA EmitRetRegs ==
  ASSUME RegsInv, TInv', Dispatching, NEW v, EmitRet(v), stop' = stop, fates' = fates
  PROVE  Regs'
<1>1. Top \in Frames /\ 1 \in 1..Len(Top.defers) + 1 /\ SameRegs(Top, Top)
  BY Running DEF RegsInv, LifoInv, OnceInv, Dispatching, Frames, SameRegs
<1>2. QED
  BY <1>1, TakeFromRegs, GotoRegs DEF EmitRet, Goto, Dispatching

-----------------------------------------------------------------------------
LEMMA OpenBlockRegs == RegsInv /\ TInv' /\ OpenBlock => Regs'
<1> SUFFICES ASSUME RegsInv, TInv', OpenBlock PROVE Regs'
  OBVIOUS
<1>1. status = "running" /\ TInv /\ execs' = execs /\ stop' = stop /\ fates' = fates
  BY DEF OpenBlock, InFn, InBody, Dispatching, RegsInv, LifoInv, OnceInv
<1>2. PICK scoped \in BOOLEAN : frames' = SetTop(Marked(Top, scoped))
  BY DEF OpenBlock
<1>3. Top \in Frames /\ Marked(Top, scoped) \in Frames
  BY <1>1, Running, MarkedIs
<1>4. SameRegs(Top, Marked(Top, scoped))
  BY <1>3 DEF Marked, Frames, SameRegs
<1>5. QED
  BY <1>1, <1>2, <1>3, <1>4, GotoRegs

LEMMA LoopTestRegs == RegsInv /\ TInv' /\ LoopTest => Regs'
<1> SUFFICES ASSUME RegsInv, TInv', LoopTest PROVE Regs'
  OBVIOUS
<1>1. status = "running" /\ TInv /\ execs' = execs /\ stop' = stop /\ fates' = fates
  BY DEF LoopTest, Dispatching, RegsInv, LifoInv, OnceInv
<1>2. Top \in Frames /\ SetTop(Top) = frames
  BY <1>1, Running
<1>3. CASE frames' = SetTop(Marked(Top, Last(pc.blocks).scoped))
  <2> DEFINE scoped == Last(pc.blocks).scoped
  <2>1. Marked(Top, scoped) \in Frames
    BY <1>2, MarkedIs
  <2>2. SameRegs(Top, Marked(Top, scoped))
    BY <1>2 DEF Marked, Frames, SameRegs
  <2>3. QED
    BY <1>1, <1>3, <2>1, <2>2, GotoRegs
<1>4. CASE frames' = frames
  BY <1>1, <1>2, <1>4, GotoRegs DEF SameRegs
<1>5. QED
  BY <1>3, <1>4 DEF LoopTest

LEMMA EndBlockRegs == RegsInv /\ TInv' /\ EndBlock => Regs'
<1> SUFFICES ASSUME RegsInv, TInv', EndBlock PROVE Regs'
  OBVIOUS
<1>1. Dispatching /\ TInv /\ status = "running" /\ stop' = stop /\ fates' = fates
  BY DEF EndBlock, InFn, InBody, Dispatching, RegsInv, LifoInv, OnceInv
<1>2. \E v \in Values : \E p : ScopePop(Top, Last(pc.blocks).scoped, v, p)
  BY DEF EndBlock
<1>3. Top \in Frames /\ SameRegs(Top, Top)
  BY <1>1, Running DEF SameRegs
<1>4. QED
  BY <1>1, <1>2, <1>3, ScopePopRegs

LEMMA EscapeRegs == RegsInv /\ TInv' /\ Escape => Regs'
<1> SUFFICES ASSUME RegsInv, TInv', Escape PROVE Regs'
  OBVIOUS
<1>1. Dispatching /\ TInv /\ status = "running" /\ stop' = stop /\ fates' = fates
  BY DEF Escape, InFn, InBody, Dispatching, RegsInv, LifoInv, OnceInv
<1>2. PICK i \in LoopPositions : \E v \in Values : \E p :
        ScopePop([Top EXCEPT !.strayed = @ \/ \E j \in DOMAIN pc.blocks :
                                                  j > i /\ pc.blocks[j].scoped],
                 pc.blocks[i].scoped, v, p)
  BY DEF Escape
<1> DEFINE crosses == \E j \in DOMAIN pc.blocks : j > i /\ pc.blocks[j].scoped
           f == [Top EXCEPT !.strayed = @ \/ crosses]
<1>3. f \in Frames /\ SameRegs(Top, f)
  <2>1. Top \in Frames /\ crosses \in BOOLEAN
    BY <1>1, Running
  <2> HIDE DEF crosses
  <2>2. QED
    BY <2>1 DEF Frames, SameRegs
<1>4. \E v \in Values : \E p : ScopePop(f, pc.blocks[i].scoped, v, p)
  BY <1>2
<1> HIDE DEF f
<1>5. QED
  BY <1>1, <1>3, <1>4, ScopePopRegs

LEMMA RetRegs == RegsInv /\ TInv' /\ (Ret \/ GuardRet) => Regs'
<1> SUFFICES ASSUME RegsInv, TInv', Ret \/ GuardRet PROVE Regs'
  OBVIOUS
<1>1. Dispatching /\ stop' = stop /\ fates' = fates /\ \E v : EmitRet(v)
  BY DEF Ret, GuardRet, InBody, Dispatching
<1>2. QED
  BY <1>1, EmitRetRegs

LEMMA TailCallRegs == RegsInv /\ TInv' /\ TailCall => Regs'
<1> SUFFICES ASSUME RegsInv, TInv', TailCall PROVE Regs'
  OBVIOUS
<1>1. status = "running" /\ TInv /\ execs' = execs /\ stop' = stop /\ fates' = fates
  BY DEF TailCall, InBody, Dispatching, RegsInv, LifoInv, OnceInv
<1>2. PICK hasDefer \in BOOLEAN :
        frames' = SetTop([Top EXCEPT !.fn = calls + 1, !.hasDefer = hasDefer, !.ip = Start])
  BY DEF TailCall
<1> DEFINE f == [Top EXCEPT !.fn = calls + 1, !.hasDefer = hasDefer, !.ip = Start]
<1>3. f \in Frames /\ SameRegs(Top, f)
  <2>1. Top \in Frames /\ calls + 1 \in Nat /\ Start \in Points
    BY <1>1, Running, Around0
  <2> HIDE DEF Start
  <2>2. QED
    BY <2>1 DEF Frames, SameRegs
<1>4. frames' = SetTop(f)
  BY <1>2
<1> HIDE DEF f
<1>5. QED
  BY <1>1, <1>3, <1>4, GotoRegs

LEMMA PropagateRegs == RegsInv /\ Propagate => Regs'
BY DEF RegsInv, Regs, ThunkAtStop, ForeignFailed, StopOfDefer, AnyFailed, StopOf, Propagate

LEMMA DeferRegs == RegsInv /\ TInv' /\ Defer => Regs'
<1> SUFFICES ASSUME RegsInv, TInv', Defer PROVE Regs'
  OBVIOUS
<1>1. /\ status = "running" /\ TInv /\ execs' = execs /\ fates' = Append(fates, "pending")
      /\ stop' = stop /\ Top.fn # 0
  BY DEF Defer, InFn, InBody, Dispatching, RegsInv, LifoInv, OnceInv
<1>2. PICK kind \in {"Always", "OnError"} :
        frames' = SetTop([Top EXCEPT !.defers = Append(@, Entry(kind))])
  BY DEF Defer
<1> DEFINE f == [Top EXCEPT !.defers = Append(Top.defers, Entry(kind))]
<1>3. Top \in Frames /\ Top.defers \in Seq(Entries)
  BY <1>1, Running DEF Frames
<1>4. Entry(kind) \in Entries
  BY <1>1, <1>3, Around0 DEF Entry, Entries, Frames
<1>5. f \in Frames /\ SameRegs(Top, f)
  <2>1. Append(Top.defers, Entry(kind)) \in Seq(Entries)
    BY <1>3, <1>4
  <2>2. QED
    BY <1>3, <2>1 DEF Frames, SameRegs
<1>6. FatesGrow
  <2>1. fates \in Seq(Fates)
    BY <1>1, Around0
  <2>2. Len(fates) \in Nat /\ Len(fates') = Len(fates) + 1 /\ \A id \in 1..Len(fates) : fates'[id] = fates[id]
    BY <1>1, <2>1
  <2>3. \A n \in Nat : n <= n + 1 /\ \A id \in 1..n : id \in 1..n + 1
    OBVIOUS
  <2>4. QED
    BY <2>2, <2>3 DEF FatesGrow, AnyFailed
<1>7. frames' = SetTop(f) /\ Last(execs) \in ExecType /\ execs' = SetExec(Last(execs))
  BY <1>1, <1>2, Running
<1> HIDE DEF f
<1>8. QED
  BY <1>1, <1>5, <1>6, <1>7, InPlaceRegs

LEMMA EnterRegs == RegsInv /\ TInv' /\ (Call \/ CallHere) => Regs'
<1> SUFFICES ASSUME RegsInv, TInv', Call \/ CallHere PROVE Regs'
  OBVIOUS
<1>1. PICK hasDefer \in BOOLEAN : Enter(hasDefer)
  BY DEF Call, CallHere
<1> DEFINE g == Frame(calls + 1, 0, hasDefer)
<1>2. /\ status = "running" /\ TInv /\ execs' = execs /\ stop' = stop /\ fates' = fates
      /\ frames' = Append(SetTop([Top EXCEPT !.ip = pc]), g)
  BY <1>1 DEF Enter, InBody, Dispatching, RegsInv, LifoInv, OnceInv
<1>3. g \in Frames /\ g.r0 = "own" /\ g.result = "temp"
  <2>1. g \in Frames
    BY <1>2, Around0, FrameIs
  <2>2. calls + 1 # 0
    BY <1>2, Around0
  <2>3. QED
    BY <2>1, <2>2 DEF Frame
<1> HIDE DEF g
<1>4. PICK f \in Frames :
        /\ Len(frames') = Len(frames) + 1 /\ frames'[Len(frames) + 1] = g
        /\ frames'[Len(frames)] = f
        /\ \A i \in 1..Len(frames) - 1 : frames'[i] = frames[i]
        /\ f.defer = Top.defer /\ f.result = Top.result /\ f.r0 = Top.r0
  BY <1>2, <1>3, PushedIs
<1>5. Len(frames) \in Nat \ {0} /\ Top = frames[Len(frames)] /\ Len(execs) \in Nat \ {0}
  BY <1>2, Running
<1>6. StopsKept
  BY <1>2, SameStopsKept DEF SameStops
<1>7. \A n \in Nat \ {0} : /\ \A i \in 1..n : i = n \/ i \in 1..n - 1
                           /\ \A i \in 1..n + 1 : i > n => i = n + 1
                           /\ n + 1 >= n /\ n >= n /\ n # n + 1
  OBVIOUS
<1>8. \A i \in 1..Len(frames) : SameRegs(frames[i], frames'[i])
  BY <1>4, <1>5, <1>7 DEF SameRegs
<1>9. FatesGrow
  BY <1>2, Around0, SameFates
<1>10. \A i \in 1..Len(frames') : i > Len(frames) =>
         i = Len(frames) + 1 /\ frames'[i].r0 = "own" /\ frames'[i].result = "temp"
  BY <1>3, <1>4, <1>5, <1>7
<1>11. Len(frames') >= Len(frames) /\ Len(execs') >= Len(execs) /\ Len(execs') = Len(execs)
       /\ Len(execs') # Len(execs) + 1
  BY <1>2, <1>4, <1>5, <1>7
<1>12. QED
  BY <1>2, <1>6, <1>8, <1>9, <1>10, <1>11, KeptRegs

-----------------------------------------------------------------------------
LEMMA DrainRegs == RegsInv /\ TInv' /\ Drain => Regs'
<1> SUFFICES ASSUME RegsInv, TInv', Drain PROVE Regs'
  OBVIOUS
<1>1. TInv /\ Waiting(frames, execs, fates)
  BY DEF RegsInv, LifoInv, OnceInv
<1> DEFINE M == Len(execs)
           N == Len(frames)
<1>2. PICK d \in Entries, y \in ExecType :
        /\ status = "running"
        /\ Last(execs).todo # <<>> /\ d = Head(Last(execs).todo)
        /\ \/ /\ frames' = Append(SetTop([Top EXCEPT !.ip = pc]), Frame(0, d.id, FALSE))
              /\ d.id \in Nat \ {0}
              /\ Frame(0, d.id, FALSE) \in Frames /\ Frame(0, d.id, FALSE).defer = d.id
              /\ Frame(0, d.id, FALSE).r0 = "own"
              /\ Len(execs') = M + 1 /\ fates' = [fates EXCEPT ![d.id] = "ran"]
           \/ /\ frames' = frames /\ Len(execs') = M
              /\ \/ fates' = fates
                 \/ d.id \in Nat \ {0} /\ fates' = [fates EXCEPT ![d.id] = "skipped"]
  BY <1>1, DrainIs
<1> DEFINE g == Frame(0, d.id, FALSE)
<1>3. M \in Nat \ {0} /\ N \in Nat \ {0} /\ Top = frames[N]
  BY <1>1, <1>2, Running
<1>4. fates \in Seq(Fates) /\ Len(fates) \in Nat /\ DOMAIN fates = 1..Len(fates)
  BY <1>1, Around0
<1>5. d.id # 0 => d.id \in 1..Len(fates) /\ fates[d.id] = "pending"
  <2>1. Last(execs).todo \in Seq(Entries) /\ List(frames, execs, 1, M) = Last(execs).todo
    BY <1>1, <1>2, TopLists
  <2>2. 1 \in 1..Len(Last(execs).todo) /\ Last(execs).todo[1] = d
    BY <1>2, <2>1
  <2>3. d.id # 0 => Has(frames, execs, 1, M, 1, d.id)
    BY <2>1, <2>2 DEF Has
  <2>4. QED
    BY <1>1, <2>3 DEF Waiting, AllPending
<1>6. Len(fates') = Len(fates) /\ FatesGrow
  <2>1. CASE fates' = fates
    BY <1>4, <2>1, SameFates
  <2>2. CASE d.id \in Nat \ {0} /\ \E z : fates' = [fates EXCEPT ![d.id] = z]
    <3>1. Len(fates') = Len(fates) /\ \A id \in 1..Len(fates) : id # d.id => fates'[id] = fates[id]
      BY <1>4, <2>2
    <3>2. \A id \in 1..Len(fates) : fates[id] = "failed" => fates'[id] = "failed"
      BY <1>5, <2>2, <3>1
    <3>3. Len(fates) <= Len(fates)
      BY <1>4
    <3>4. QED
      BY <3>1, <3>2, <3>3 DEF FatesGrow, AnyFailed
  <2>3. QED
    BY <1>2, <2>1, <2>2
<1>7. StopsKept
  BY <1>1, DrainStops
<1>8. \A n \in Nat \ {0} : /\ \A i \in 1..n : i = n \/ i \in 1..n - 1
                           /\ \A i \in 1..n + 1 : i > n => i = n + 1
                           /\ \A i \in 1..n : ~(i > n)
                           /\ n + 1 >= n /\ n >= n /\ n # n + 1
  OBVIOUS
<1>9. CASE frames' = frames /\ Len(execs') = M
  <2>1. \A i \in 1..N : SameRegs(frames[i], frames'[i])
    BY <1>9 DEF SameRegs
  <2>2. Len(execs') >= M /\ Len(execs') # M + 1 /\ Len(frames') >= N
        /\ \A i \in 1..Len(frames') : ~(i > N)
    BY <1>3, <1>8, <1>9
  <2>3. QED
    BY <1>2, <1>6, <1>7, <2>1, <2>2, KeptRegs
<1>10. CASE /\ frames' = Append(SetTop([Top EXCEPT !.ip = pc]), g) /\ d.id \in Nat \ {0}
            /\ g \in Frames /\ g.defer = d.id /\ g.r0 = "own" /\ Len(execs') = M + 1
  <2> HIDE DEF g
  <2>1. PICK f \in Frames :
          /\ Len(frames') = Len(frames) + 1 /\ frames'[Len(frames) + 1] = g
          /\ frames'[Len(frames)] = f
          /\ \A i \in 1..Len(frames) - 1 : frames'[i] = frames[i]
          /\ f.defer = Top.defer /\ f.result = Top.result /\ f.r0 = Top.r0
    BY <1>1, <1>2, <1>10, PushedIs
  <2>2. \A i \in 1..N : SameRegs(frames[i], frames'[i])
    BY <1>3, <1>8, <2>1 DEF SameRegs
  <2>3. d.id \in 1..Len(fates')
    BY <1>5, <1>6, <1>10
  <2>4. \A i \in 1..Len(frames') : i > N =>
          i = N + 1 /\ frames'[i].r0 = "own" /\ frames'[i].defer \in 1..Len(fates')
    BY <1>3, <1>8, <1>10, <2>1, <2>3
  <2>5. Len(execs') >= M /\ Len(frames') >= N /\ Len(frames') = N + 1
    BY <1>3, <1>8, <1>10, <2>1
  <2>6. QED
    BY <1>2, <1>6, <1>7, <1>10, <2>2, <2>4, <2>5, KeptRegs
<1>11. QED
  BY <1>2, <1>9, <1>10

(***************************************************************************)
(* The error of a thunk is seen in the fates from then on.                 *)
(***************************************************************************)
LEMMA RuntimeErrorRegs == RegsInv /\ TInv' /\ RuntimeError => Regs'
<1> SUFFICES ASSUME RegsInv, TInv', RuntimeError PROVE Regs'
  OBVIOUS
<1>1. status = "running" /\ TInv /\ Lifo /\ Regs
  BY DEF RuntimeError, InBody, Dispatching, RegsInv, LifoInv, OnceInv
<1>2. CASE Len(execs) = 1
  <2>1. UNCHANGED <<frames, execs, stop, fates>>
    BY <1>2 DEF RuntimeError
  <2>2. QED
    BY <1>1, <2>1 DEF Regs, ThunkAtStop, ForeignFailed, StopOfDefer, AnyFailed, StopOf
<1>3. CASE Len(execs) # 1
  <2>1. /\ Len(frames') = Len(frames)
        /\ \A i \in 1..Len(frames) : frames'[i].defer = frames[i].defer
        /\ EndExec(frames') /\ stop + 1 \in 1..Len(frames)
        /\ fates' = [id \in DOMAIN fates |->
                       IF frames[stop + 1].defer = id THEN "failed" ELSE fates[id]]
    BY <1>1, <1>3, StrayedIs
  <2>2. fates \in Seq(Fates) /\ DOMAIN fates = 1..Len(fates) /\ Len(fates) \in Nat
    BY <1>1, Around0
  <2>3. Len(fates') = Len(fates) /\ \A id \in 1..Len(fates) : frames[stop + 1].defer = id => fates'[id] = "failed"
    BY <2>1, <2>2
  <2>4. PICK n \in Nat \ {0} : Len(execs) = n + 1 /\ Len(execs') = n
    BY <1>1, <1>3, <2>1, EndedIs
  <2>5. /\ n + 1 \in 2..n + 1
        /\ \A j \in 2..n : j \in 1..n + 1 /\ j \in 1..n /\ j < n + 1 /\ j <= n + 1 /\ j \in 2..n + 1
    OBVIOUS
  <2>6. AnyFailed'
    <3>1. StopOf(n + 1) = stop
      BY <2>4 DEF StopOf
    <3>2. frames[stop + 1].defer \in 1..Len(fates)
      BY <1>1, <2>4, <2>5, <3>1 DEF Regs, StopOfDefer
    <3>3. QED
      BY <2>3, <3>2 DEF AnyFailed
  <2>7. StopsKept
    BY <1>1, <1>3, <2>1, EndedStops
  <2>8. StopOfDefer'
    <3> SUFFICES ASSUME NEW j \in 2..n
                 PROVE  frames'[StopOf(j)' + 1].defer \in 1..Len(fates')
      BY <2>4 DEF StopOfDefer
    <3>1. StopOf(j)' = StopOf(j)
      BY <2>4, <2>5, <2>7 DEF StopsKept
    <3>2. StopOf(j) \in Nat /\ StopOf(j) <= stop
      BY <1>1, <2>4, <2>5, StopsBelow
    <3>3. stop \in Nat /\ Len(frames) \in Nat
      BY <1>1, Running DEF TInv, TypeOK
    <3>4. StopOf(j) + 1 \in 1..Len(frames)
      BY <2>1, <3>2, <3>3
    <3>5. frames[StopOf(j) + 1].defer \in 1..Len(fates)
      BY <1>1, <2>4, <2>5 DEF Regs, StopOfDefer
    <3>6. QED
      BY <2>1, <2>3, <3>1, <3>4, <3>5
  <2>9. QED
    BY <2>6, <2>8 DEF Regs, ThunkAtStop, ForeignFailed
<1>4. QED
  BY <1>2, <1>3

(***************************************************************************)
(* A thunk's frame that returns into a frame of its own execute() has been *)
(* left behind by an error.                                                *)
(***************************************************************************)
LEMMA ReturnRegs == RegsInv /\ TInv' /\ Return => Regs'
<1> SUFFICES ASSUME RegsInv, TInv', Return PROVE Regs'
  OBVIOUS
<1>1. TInv /\ Lifo /\ Regs /\ Waiting(frames, execs, fates)
  BY DEF RegsInv, LifoInv, OnceInv
<1>2. PICK n \in Nat :
           /\ Len(frames) = n + 1 /\ Len(frames') = n
           /\ \A i \in 1..n : frames'[i].defer = frames[i].defer /\ frames'[i].result = frames[i].result
           /\ \A i \in 1..n : \/ frames'[i].r0 = frames[i].r0
                              \/ i = n /\ n # stop /\ Top.result = "r0"
           /\ Top = frames[n + 1] /\ status = "running"
           /\ fates' = [id \in DOMAIN fates |->
                          IF \E k \in DOMAIN Top.defers : Top.defers[k].id = id THEN "lost" ELSE fates[id]]
           /\ \/ n = stop /\ Len(execs) = 1 /\ execs' = execs /\ stop' = stop
              \/ n = stop /\ Len(execs) # 1 /\ EndExec(Front(frames))
              \/ n # stop /\ execs' = execs /\ stop' = stop
  BY <1>1, ReturnIs
<1>3. (\A i \in 1..n : i \in 1..n + 1 /\ i # n + 1) /\ n + 1 \in 1..n + 1
  OBVIOUS
<1>4. stop \in Nat /\ stop <= n /\ Len(execs) \in Nat \ {0}
  <2>1. stop \in Nat /\ stop < n + 1
    BY <1>1, <1>2 DEF TInv, TypeOK, StopsNest
  <2>2. QED
    BY <1>1, <1>2, <2>1, Running
<1>5. fates \in Seq(Fates) /\ DOMAIN fates = 1..Len(fates) /\ Len(fates) \in Nat
  BY <1>1, Around0
<1>6. Len(fates') = Len(fates) /\ FatesGrow
  <2>1. /\ Len(fates') = Len(fates) /\ DOMAIN fates' = 1..Len(fates)
        /\ \A id \in 1..Len(fates) : \/ fates'[id] = fates[id]
                                     \/ \E k \in DOMAIN Top.defers : Top.defers[k].id = id
    BY <1>2, <1>5
  <2>2. \A id \in 1..Len(fates) : (\E k \in DOMAIN Top.defers : Top.defers[k].id = id) => fates[id] = "pending"
    <3>1. List(frames, execs, 0, n + 1) = Top.defers /\ Top.defers \in Seq(Entries)
      BY <1>1, <1>2, TopLists
    <3>2. DOMAIN Top.defers = 1..Len(Top.defers) /\ 0 \notin 1..Len(fates)
      BY <1>5, <3>1
    <3>3. QED
      BY <1>1, <3>1, <3>2 DEF Has, Waiting, AllPending
  <2>3. Len(fates) <= Len(fates)
    BY <1>5
  <2>4. QED
    BY <2>1, <2>2, <2>3 DEF FatesGrow, AnyFailed
<1>7. StopsKept
  BY <1>1, <1>2, EndedStops, SameStopsKept DEF SameStops
<1>8. /\ Len(execs') \in Nat /\ Len(execs') <= Len(execs)
      /\ \A j \in 1..Len(execs') : StopOf(j)' = StopOf(j)
      /\ \A j \in 1..Len(execs) : StopOf(j) \in Nat /\ StopOf(j) <= stop /\ (j < Len(execs) => StopOf(j) < stop)
      /\ \/ n = stop /\ (Len(execs) = 1 \/ (Len(execs) = Len(execs') + 1))
         \/ n > stop /\ Len(execs') = Len(execs)
  <2>1. Len(execs') = Len(execs) \/ (Len(execs) = Len(execs') + 1 /\ n = stop /\ Len(execs') \in Nat)
    BY <1>1, <1>2, EndedIs
  <2>2. Len(execs') \in Nat /\ Len(execs') <= Len(execs)
    BY <1>4, <2>1
  <2>3. \A j \in 1..Len(execs') : j <= Len(execs)
    BY <1>4, <2>2
  <2>4. \A j \in 1..Len(execs') : StopOf(j)' = StopOf(j)
    BY <1>7, <2>3 DEF StopsKept
  <2>5. \A j \in 1..Len(execs) : StopOf(j) \in Nat /\ StopOf(j) <= stop /\ (j < Len(execs) => StopOf(j) < stop)
    BY <1>1, StopsBelow
  <2>6. \/ n = stop /\ (Len(execs) = 1 \/ (Len(execs) = Len(execs') + 1))
        \/ n > stop /\ Len(execs') = Len(execs)
    <3>1. n # stop => n > stop
      BY <1>4
    <3>2. n = stop /\ Len(execs) # 1 => Len(execs) = Len(execs') + 1
      BY <1>1, <1>2, EndedIs
    <3>3. QED
      BY <1>2, <3>1, <3>2
  <2>7. QED
    BY <2>2, <2>4, <2>5, <2>6
<1>9. /\ \A j \in 2..Len(execs') : /\ j \in 1..Len(execs') /\ j \in 1..Len(execs) /\ j \in 2..Len(execs)
                                   /\ StopOf(j) < n
      /\ \A j \in 2..Len(execs) : j \in 2..Len(execs') \/ StopOf(j) = n
  <2>1. ASSUME NEW j \in 2..Len(execs')
        PROVE  j \in 1..Len(execs') /\ j \in 1..Len(execs) /\ j \in 2..Len(execs) /\ StopOf(j) < n
    <3>1. j \in 1..Len(execs') /\ j \in 1..Len(execs) /\ j \in 2..Len(execs)
      BY <1>4, <1>8
    <3>2. CASE n = stop
      <4>1. j < Len(execs)
        BY <1>4, <1>8, <3>1, <3>2
      <4>2. QED
        BY <1>8, <3>1, <3>2, <4>1
    <3>3. CASE n > stop
      <4>1. StopOf(j) \in Nat /\ StopOf(j) <= stop
        BY <1>8, <3>1
      <4>2. QED
        BY <1>4, <3>1, <3>3, <4>1
    <3>4. QED
      BY <1>8, <3>1, <3>2, <3>3
  <2>2. ASSUME NEW j \in 2..Len(execs)
        PROVE  j \in 2..Len(execs') \/ StopOf(j) = n
    <3>1. CASE n = stop /\ j = Len(execs)
      BY <3>1 DEF StopOf
    <3>2. CASE j \in 2..Len(execs')
      BY <3>2
    <3>3. \A a, b \in Nat : (a = b \/ a = 1 \/ a = b + 1)
            => \A x \in 2..a : x \in 2..b \/ (x = a /\ a # b)
      OBVIOUS
    <3>4. j \in 2..Len(execs') \/ (j = Len(execs) /\ Len(execs) # Len(execs'))
      BY <1>4, <1>8, <3>3
    <3>5. QED
      BY <1>8, <3>1, <3>2, <3>4
  <2>3. QED
    BY <2>1, <2>2
<1>10. ThunkAtStop'
  <2> SUFFICES ASSUME NEW i \in 1..n, frames'[i].result = "r0"
               PROVE  AnyFailed' \/ \E j \in 2..Len(execs') : i = StopOf(j)' + 1
    BY <1>2 DEF ThunkAtStop
  <2>1. frames[i].result = "r0" /\ i \in 1..Len(frames) /\ i # n + 1
    BY <1>2, <1>3
  <2>2. CASE AnyFailed
    BY <1>6, <2>2 DEF FatesGrow
  <2>3. CASE \E j \in 2..Len(execs) : i = StopOf(j) + 1
    <3>1. PICK j \in 2..Len(execs) : i = StopOf(j) + 1
      BY <2>3
    <3>2. j \in 2..Len(execs')
      BY <1>9, <2>1, <3>1
    <3>3. StopOf(j)' = StopOf(j)
      BY <1>8, <1>9, <3>2
    <3>4. QED
      BY <3>1, <3>2, <3>3
  <2>4. QED
    BY <1>1, <2>1, <2>2, <2>3 DEF Regs, ThunkAtStop
<1>11. ForeignFailed'
  <2> SUFFICES ASSUME NEW i \in 1..n, frames'[i].r0 = "foreign" PROVE AnyFailed'
    BY <1>2 DEF ForeignFailed
  <2>1. CASE frames[i].r0 = "foreign"
    BY <1>1, <1>2, <1>3, <1>6, <2>1 DEF Regs, ForeignFailed, FatesGrow
  <2>2. CASE n # stop /\ Top.result = "r0"
    <3>1. \A j \in 2..Len(execs) : n + 1 # StopOf(j) + 1
      <4> SUFFICES ASSUME NEW j \in 2..Len(execs) PROVE n + 1 # StopOf(j) + 1
        OBVIOUS
      <4>1. j \in 1..Len(execs)
        BY <1>4
      <4>2. StopOf(j) \in Nat /\ StopOf(j) <= stop
        BY <1>8, <4>1
      <4>3. QED
        BY <1>4, <2>2, <4>2
    <3>2. AnyFailed
      BY <1>1, <1>2, <1>3, <2>2, <3>1 DEF Regs, ThunkAtStop
    <3>3. QED
      BY <1>6, <3>2 DEF FatesGrow
  <2>3. QED
    BY <1>2, <2>1, <2>2
<1>12. StopOfDefer'
  <2> SUFFICES ASSUME NEW j \in 2..Len(execs')
               PROVE  frames'[StopOf(j)' + 1].defer \in 1..Len(fates')
    BY DEF StopOfDefer
  <2>1. StopOf(j)' = StopOf(j) /\ StopOf(j) \in Nat /\ StopOf(j) < n /\ j \in 2..Len(execs)
    BY <1>8, <1>9
  <2>2. StopOf(j) + 1 \in 1..n
    BY <2>1
  <2>3. frames[StopOf(j) + 1].defer \in 1..Len(fates)
    BY <1>1, <2>1 DEF Regs, StopOfDefer
  <2>4. QED
    BY <1>2, <1>6, <2>1, <2>2, <2>3
<1>13. QED
  BY <1>10, <1>11, <1>12 DEF Regs

-----------------------------------------------------------------------------
LEMMA InitRegs == Init => RegsInv
<1> SUFFICES ASSUME Init PROVE RegsInv
  OBVIOUS
<1>1. PICK hasDefer \in BOOLEAN : frames = <<Frame(1, 0, hasDefer)>>
  BY DEF Init
<1>2. Len(frames) = 1 /\ frames[1].result = "temp" /\ frames[1].r0 = "own"
  BY <1>1 DEF Frame
<1>3. Len(execs) = 1
  BY DEF Init
<1>4. (\A i \in 1..1 : i = 1) /\ (\A j \in 2..1 : FALSE)
  OBVIOUS
<1>5. Regs
  BY <1>2, <1>3, <1>4 DEF Regs, ThunkAtStop, ForeignFailed, StopOfDefer
<1>6. QED
  BY <1>5, InitLifo DEF RegsInv

LEMMA RegsStep == RegsInv /\ [Next]_vars => RegsInv'
<1>1. RegsInv /\ [Next]_vars => LifoInv' /\ TInv'
  BY LifoStep DEF RegsInv, LifoInv, OnceInv
<1>2. RegsInv /\ UNCHANGED vars => Regs'
  BY DEF RegsInv, Regs, ThunkAtStop, ForeignFailed, StopOfDefer, AnyFailed, StopOf, vars
<1>3. RegsInv /\ TInv' /\ Next => Regs'
  BY OpenBlockRegs, DeferRegs, EndBlockRegs, RetRegs, LoopTestRegs, EscapeRegs, EnterRegs,
     TailCallRegs, PropagateRegs, RuntimeErrorRegs, ReturnRegs, DrainRegs DEF Next
<1>4. QED
  BY <1>1, <1>2, <1>3 DEF RegsInv

(***************************************************************************)
(* The strengthening that says where a thunk's result may go, with what it *)
(* rests on, holds in every reachable state.                               *)
(***************************************************************************)
THEOREM VmRegs == Spec => []RegsInv
BY InitRegs, RegsStep, PTL DEF Spec

(***************************************************************************)
(* A thunk's result is stored in a register of another frame only after a  *)
(* thunk has failed.                                                       *)
(***************************************************************************)
THEOREM VmRegistersKept == Spec => []RegistersKept
<1>1. ASSUME RegsInv PROVE RegistersKept
  <2>1. TInv /\ ForeignFailed
    BY <1>1 DEF RegsInv, LifoInv, OnceInv, Regs
  <2>2. frames \in Seq(Frames) /\ fates \in Seq(Fates)
    BY <2>1 DEF TInv, TypeOK
  <2>3. DOMAIN frames = 1..Len(frames) /\ DOMAIN fates = 1..Len(fates)
    BY <2>2
  <2>4. QED
    BY <2>1, <2>3 DEF RegistersKept, ForeignFailed, AnyFailed
<1>2. QED
  BY <1>1, VmRegs, PTL

-----------------------------------------------------------------------------
(***************************************************************************)
(* A defer belongs to its block.  In a frame that no escape or ignored     *)
(* error has put out of step, the compiler's blocks and the marks on the   *)
(* defer stack go together: the outermost t blocks are those with a scope, *)
(* there is a mark for each of them (but none for a loop between two       *)
(* iterations), and an entry stands behind the marks of the blocks that    *)
(* are around its statement.                                               *)
(***************************************************************************)
Nested(D, s) ==
  \E m \in [1..s -> 1..Len(D)] :
    /\ \A r, q \in 1..s : r < q => m[r] < m[q]
    /\ \A k \in 1..Len(D) : D[k] = Sentinel <=> \E r \in 1..s : m[r] = k
    /\ \A r \in 1..s : \A k \in 1..Len(D) : k < m[r] => D[k].nest < r
    /\ \A k \in 1..Len(D) : D[k].nest <= s

\* The marks there are at a point with t scoped blocks around it.
MarksAt(p, t) == IF p.op = "loop" /\ t = Len(p.blocks) THEN t - 1 ELSE t

Shape(h, D, p) ==
  \E t \in 0..Len(p.blocks) :
    /\ \A r \in 1..Len(p.blocks) : p.blocks[r].scoped <=> r <= t
    /\ h \/ t = 0
    /\ Nested(D, MarksAt(p, t))

\* The point at which a frame goes on.
PointOf(i) == IF i = Len(frames) THEN pc ELSE frames[i].ip

Shapes ==
  \A i \in 1..Len(frames) :
    ~frames[i].strayed => Shape(frames[i].hasDefer, frames[i].defers, PointOf(i))

ShapesInv == TInv /\ Shapes

-----------------------------------------------------------------------------
LEMMA EmptyNested == Nested(<<>>, 0)
<1> DEFINE m == [r \in 1..0 |-> r]
<1>1. Len(<<>>) = 0 /\ \A k \in 1..0 : FALSE
  OBVIOUS
<1>2. m \in [1..0 -> 1..0]
  BY <1>1
<1> HIDE DEF m
<1>3. QED
  BY <1>1, <1>2 DEF Nested

\* Without marks, every entry is of the body itself.
LEMMA NoMarks ==
  ASSUME NEW D \in Seq(Entries), Nested(D, 0)
  PROVE  \A k \in 1..Len(D) : D[k] # Sentinel /\ D[k].nest = 0
<1>1. \A k \in 1..Len(D) : D[k] # Sentinel /\ D[k].nest <= 0
  <2>1. \A r \in 1..0 : FALSE
    OBVIOUS
  <2>2. QED
    BY <2>1 DEF Nested
<1>2. \A k \in 1..Len(D) : D[k].nest \in Nat
  <2>1. \A d \in Entries : d.nest \in Nat
    BY DEF Entries, Sentinel
  <2>2. QED
    BY <2>1
<1>3. QED
  BY <1>1, <1>2

\* A block with a scope begins.
LEMMA MarkNested ==
  ASSUME NEW D \in Seq(Entries), NEW s \in Nat, Nested(D, s)
  PROVE  Nested(Append(D, Sentinel), s + 1)
<1> DEFINE n == Len(D)
           t == Append(D, Sentinel)
<1>1. PICK m \in [1..s -> 1..n] :
        /\ \A r, q \in 1..s : r < q => m[r] < m[q]
        /\ \A k \in 1..n : D[k] = Sentinel <=> \E r \in 1..s : m[r] = k
        /\ \A r \in 1..s : \A k \in 1..n : k < m[r] => D[k].nest < r
        /\ \A k \in 1..n : D[k].nest <= s
  BY DEF Nested
<1> DEFINE g == [r \in 1..s + 1 |-> IF r = s + 1 THEN n + 1 ELSE m[r]]
<1>2. n \in Nat /\ Len(t) = n + 1 /\ t[n + 1] = Sentinel /\ \A k \in 1..n : t[k] = D[k]
  OBVIOUS
<1>3. \A x \in Nat : /\ \A k \in 1..x + 1 : k = x + 1 \/ (k \in 1..x /\ k # x + 1)
                     /\ x + 1 \in 1..x + 1 /\ \A k \in 1..x : k \in 1..x + 1 /\ k # x + 1 /\ k < x + 1
  OBVIOUS
<1>4. \A k \in 1..n : D[k].nest \in Nat
  <2>1. \A d \in Entries : d.nest \in Nat
    BY DEF Entries, Sentinel
  <2>2. QED
    BY <2>1
<1> HIDE DEF n, t
<1>5. /\ g \in [1..s + 1 -> 1..n + 1]
      /\ g[s + 1] = n + 1 /\ \A r \in 1..s : g[r] = m[r] /\ m[r] \in 1..n
  BY <1>2, <1>3
<1> HIDE DEF g
<1>6. \A r, q \in 1..s + 1 : r < q => g[r] < g[q]
  <2> SUFFICES ASSUME NEW r \in 1..s + 1, NEW q \in 1..s + 1, r < q PROVE g[r] < g[q]
    OBVIOUS
  <2>1. r \in 1..s
    OBVIOUS
  <2>2. CASE q = s + 1
    BY <1>3, <1>5, <1>2, <2>1, <2>2
  <2>3. CASE q \in 1..s
    BY <1>1, <1>5, <2>1, <2>3
  <2>4. QED
    BY <1>3, <2>2, <2>3
<1>7. \A k \in 1..n + 1 : t[k] = Sentinel <=> \E r \in 1..s + 1 : g[r] = k
  <2> SUFFICES ASSUME NEW k \in 1..n + 1 PROVE t[k] = Sentinel <=> \E r \in 1..s + 1 : g[r] = k
    OBVIOUS
  <2>1. CASE k = n + 1
    BY <1>2, <1>3, <1>5, <2>1
  <2>2. CASE k \in 1..n /\ k # n + 1
    <3>1. (\E r \in 1..s + 1 : g[r] = k) <=> (\E r \in 1..s : m[r] = k)
      BY <1>3, <1>5, <2>2
    <3>2. QED
      BY <1>1, <1>2, <2>2, <3>1
  <2>3. QED
    BY <1>2, <1>3, <2>1, <2>2
<1>8. \A k \in 1..n + 1 : t[k].nest \in Nat /\ t[k].nest < s + 1
  <2> SUFFICES ASSUME NEW k \in 1..n + 1 PROVE t[k].nest \in Nat /\ t[k].nest < s + 1
    OBVIOUS
  <2>1. CASE k = n + 1
    BY <1>2, <2>1 DEF Sentinel
  <2>2. CASE k \in 1..n
    BY <1>1, <1>2, <1>4, <2>2
  <2>3. QED
    BY <1>2, <1>3, <2>1, <2>2
<1>9. \A r \in 1..s + 1 : \A k \in 1..n + 1 : k < g[r] => t[k].nest < r
  <2> SUFFICES ASSUME NEW r \in 1..s + 1, NEW k \in 1..n + 1, k < g[r] PROVE t[k].nest < r
    OBVIOUS
  <2>1. CASE r = s + 1
    BY <1>8, <2>1
  <2>2. CASE r \in 1..s
    <3>1. k < m[r] /\ m[r] \in 1..n
      BY <1>5, <2>2
    <3>2. k \in 1..n
      BY <1>2, <3>1
    <3>3. QED
      BY <1>1, <1>2, <2>2, <3>1, <3>2
  <2>3. QED
    BY <1>3, <2>1, <2>2
<1>10. \A k \in 1..n + 1 : t[k].nest <= s + 1
  BY <1>8
<1>11. Nested(t, s + 1)
  <2>1. Len(t) = n + 1 /\ g \in [1..s + 1 -> 1..n + 1]
    BY <1>2, <1>5
  <2>2. PICK z \in Nat : z = s + 1
    OBVIOUS
  <2>3. /\ Len(t) = n + 1 /\ g \in [1..z -> 1..n + 1]
        /\ \A r, q \in 1..z : r < q => g[r] < g[q]
        /\ \A k \in 1..n + 1 : t[k] = Sentinel <=> \E r \in 1..z : g[r] = k
        /\ \A r \in 1..z : \A k \in 1..n + 1 : k < g[r] => t[k].nest < r
        /\ \A k \in 1..n + 1 : t[k].nest <= z
    BY <1>6, <1>7, <1>9, <1>10, <2>1, <2>2
  <2>4. Nested(t, z)
    BY <2>3 DEF Nested
  <2>5. QED
    BY <2>2, <2>4
<1>12. QED
  BY <1>11 DEF t

\* A defer statement inside s scoped blocks.
LEMMA EntryNested ==
  ASSUME NEW D \in Seq(Entries), NEW s \in Nat, Nested(D, s), NEW d, d # Sentinel, d.nest = s
  PROVE  Nested(Append(D, d), s)
<1> DEFINE n == Len(D)
           t == Append(D, d)
<1>1. PICK m \in [1..s -> 1..n] :
        /\ \A r, q \in 1..s : r < q => m[r] < m[q]
        /\ \A k \in 1..n : D[k] = Sentinel <=> \E r \in 1..s : m[r] = k
        /\ \A r \in 1..s : \A k \in 1..n : k < m[r] => D[k].nest < r
        /\ \A k \in 1..n : D[k].nest <= s
  BY DEF Nested
<1>2. n \in Nat /\ Len(t) = n + 1 /\ t[n + 1] = d /\ \A k \in 1..n : t[k] = D[k]
  OBVIOUS
<1>3. \A x \in Nat : /\ \A k \in 1..x + 1 : k = x + 1 \/ (k \in 1..x /\ k # x + 1)
                     /\ \A k \in 1..x : k \in 1..x + 1 /\ k # x + 1 /\ ~(x + 1 < k)
  OBVIOUS
<1> HIDE DEF n, t
<1>4. m \in [1..s -> 1..n + 1] /\ \A r \in 1..s : m[r] \in 1..n
  BY <1>2, <1>3
<1>5. \A k \in 1..n + 1 : t[k] = Sentinel <=> \E r \in 1..s : m[r] = k
  <2> SUFFICES ASSUME NEW k \in 1..n + 1
               PROVE  t[k] = Sentinel <=> \E r \in 1..s : m[r] = k
    OBVIOUS
  <2>1. CASE k = n + 1
    <3>1. ~\E r \in 1..s : m[r] = k
      BY <1>2, <1>3, <1>4, <2>1
    <3>2. QED
      BY <1>2, <2>1, <3>1
  <2>2. CASE k \in 1..n
    BY <1>1, <1>2, <2>2
  <2>3. QED
    BY <1>2, <1>3, <2>1, <2>2
<1>6. \A r \in 1..s : \A k \in 1..n + 1 : k < m[r] => t[k].nest < r
  <2> SUFFICES ASSUME NEW r \in 1..s, NEW k \in 1..n + 1, k < m[r]
               PROVE  t[k].nest < r
    OBVIOUS
  <2>1. m[r] \in 1..n
    BY <1>4
  <2>2. k \in 1..n
    BY <1>2, <2>1
  <2>3. QED
    BY <1>1, <1>2, <2>2
<1>7. \A k \in 1..n + 1 : t[k].nest <= s
  <2> SUFFICES ASSUME NEW k \in 1..n + 1
               PROVE  t[k].nest <= s
    OBVIOUS
  <2>1. CASE k = n + 1
    BY <1>2, <2>1
  <2>2. CASE k \in 1..n
    BY <1>1, <1>2, <2>2
  <2>3. QED
    BY <1>2, <1>3, <2>1, <2>2
<1>8. Nested(t, s)
  <2>1. Len(t) = n + 1 /\ m \in [1..s -> 1..n + 1] /\ \A r, q \in 1..s : r < q => m[r] < m[q]
    BY <1>1, <1>2, <1>4
  <2>2. QED
    <3> DEFINE Marks(w) == /\ \A r, q \in 1..s : r < q => w[r] < w[q]
                           /\ \A k \in 1..Len(t) : t[k] = Sentinel <=> \E r \in 1..s : w[r] = k
                           /\ \A r \in 1..s : \A k \in 1..Len(t) : k < w[r] => t[k].nest < r
                           /\ \A k \in 1..Len(t) : t[k].nest <= s
    <3>1. m \in [1..s -> 1..Len(t)] /\ Marks(m)
      BY <1>5, <1>6, <1>7, <2>1
    <3> HIDE DEF Marks
    <3>2. \E w \in [1..s -> 1..Len(t)] : Marks(w)
      BY <3>1
    <3>3. QED
      BY <3>2 DEF Nested, Marks
<1>9. QED
  BY <1>8 DEF t

\* The innermost scope is popped.
LEMMA PopNested ==
  ASSUME NEW D \in Seq(Entries), NEW s \in Nat, Nested(D, s + 1)
  PROVE  /\ \E k \in 1..Len(D) : D[k] = Sentinel
         /\ \A k \in 1..Len(D) :
              D[k] = Sentinel /\ (\A j \in 1..Len(D) : D[j] = Sentinel => j <= k)
                => Nested(SubSeq(D, 1, k - 1), s)
<1> DEFINE n == Len(D)
<1>1. PICK m \in [1..s + 1 -> 1..n] :
        /\ \A r, q \in 1..s + 1 : r < q => m[r] < m[q]
        /\ \A k \in 1..n : D[k] = Sentinel <=> \E r \in 1..s + 1 : m[r] = k
        /\ \A r \in 1..s + 1 : \A k \in 1..n : k < m[r] => D[k].nest < r
        /\ \A k \in 1..n : D[k].nest <= s + 1
  BY DEF Nested
<1>2. n \in Nat /\ s + 1 \in 1..s + 1 /\ \A r \in 1..s : r \in 1..s + 1 /\ r < s + 1
  OBVIOUS
<1>3. m[s + 1] \in 1..n /\ D[m[s + 1]] = Sentinel
  BY <1>1, <1>2
<1>4. ASSUME NEW k \in 1..n, D[k] = Sentinel, \A j \in 1..n : D[j] = Sentinel => j <= k
      PROVE  Nested(SubSeq(D, 1, k - 1), s)
  <2> DEFINE t == SubSeq(D, 1, k - 1)
             g == [r \in 1..s |-> m[r]]
  <2>1. k = m[s + 1]
    <3>1. m[s + 1] <= k
      BY <1>3, <1>4
    <3>2. PICK r \in 1..s + 1 : m[r] = k
      BY <1>1, <1>4
    <3>3. r = s + 1 \/ r < s + 1
      OBVIOUS
    <3>4. r < s + 1 => k < m[s + 1]
      BY <1>1, <1>2, <3>2
    <3>5. QED
      BY <1>3, <3>1, <3>2, <3>3, <3>4
  <2>2. /\ k - 1 \in 0..n /\ k - 1 \in Nat
        /\ \A j \in 1..k - 1 : j \in 1..n /\ j < k
        /\ \A j \in 1..n : j < k => j \in 1..k - 1
    BY <1>2
  <2>3. Len(t) = k - 1 /\ \A j \in 1..k - 1 : t[j] = D[j]
    BY <2>2, PartsAre
  <2> HIDE DEF t
  <2>4. \A r \in 1..s : m[r] \in 1..k - 1
    BY <1>1, <1>2, <2>1, <2>2
  <2>5. g \in [1..s -> 1..k - 1] /\ \A r \in 1..s : g[r] = m[r]
    BY <2>4
  <2> HIDE DEF g
  <2>6. \A r, q \in 1..s : r < q => g[r] < g[q]
    BY <1>1, <1>2, <2>5
  <2>7. \A j \in 1..k - 1 : t[j] = Sentinel <=> \E r \in 1..s : g[r] = j
    <3> SUFFICES ASSUME NEW j \in 1..k - 1 PROVE t[j] = Sentinel <=> \E r \in 1..s : g[r] = j
      OBVIOUS
    <3>1. j \in 1..n /\ j # k
      BY <2>2
    <3>2. \A r \in 1..s + 1 : r = s + 1 \/ r \in 1..s
      OBVIOUS
    <3>3. (\E r \in 1..s + 1 : m[r] = j) <=> \E r \in 1..s : g[r] = j
      BY <1>2, <2>1, <2>5, <3>1, <3>2
    <3>4. QED
      BY <1>1, <2>3, <3>1, <3>3
  <2>8. \A r \in 1..s : \A j \in 1..k - 1 : j < g[r] => t[j].nest < r
    BY <1>1, <1>2, <2>2, <2>3, <2>5
  <2>9. \A j \in 1..k - 1 : t[j].nest <= s
    <3> SUFFICES ASSUME NEW j \in 1..k - 1 PROVE t[j].nest <= s
      OBVIOUS
    <3>1. D[j].nest < s + 1
      BY <1>1, <1>2, <2>1, <2>2
    <3>2. D[j] \in Entries
      BY <2>2
    <3>3. D[j].nest \in Nat
      BY <3>2 DEF Entries, Sentinel
    <3>4. QED
      BY <2>3, <3>1, <3>3
  <2>10. QED
    BY <2>3, <2>5, <2>6, <2>7, <2>8, <2>9 DEF Nested, t
<1>5. QED
  BY <1>3, <1>4

BlockType == [form : Blocks, scoped : BOOLEAN]

LEMMA PointIs ==
  ASSUME NEW p \in Points
  PROVE  /\ p.blocks \in Seq(BlockType) /\ Len(p.blocks) \in Nat
         /\ \A r \in 1..Len(p.blocks) : p.blocks[r] \in BlockType /\ p.blocks[r].scoped \in BOOLEAN
<1>1. p.blocks \in Seq(BlockType)
  BY DEF Points, BlockType
<1>2. \A r \in 1..Len(p.blocks) : p.blocks[r] \in BlockType
  BY <1>1
<1>3. QED
  BY <1>1, <1>2 DEF BlockType

\* A shape from its number of scoped blocks and of marks.
LEMMA ShapeIs ==
  ASSUME NEW h, NEW D, NEW q, NEW n \in Nat, Len(q.blocks) = n, NEW t \in 0..n,
         \A r \in 1..n : q.blocks[r].scoped <=> r <= t, h \/ t = 0,
         NEW s, Nested(D, s), s = MarksAt(q, t)
  PROVE  Shape(h, D, q)
BY DEF Shape

\* A block begins.
LEMMA OpenedShape ==
  ASSUME NEW h, NEW D \in Seq(Entries), NEW p \in Points, p.op # "loop", Shape(h, D, p),
         NEW b \in BlockType, NEW q, q.blocks = Append(p.blocks, b), q.op # "loop",
         b.scoped => h /\ \A r \in 1..Len(p.blocks) : p.blocks[r].scoped
  PROVE  Shape(h, IF b.scoped THEN Append(D, Sentinel) ELSE D, q)
<1> DEFINE n == Len(p.blocks)
<1>1. PICK t \in 0..n : /\ \A r \in 1..n : p.blocks[r].scoped <=> r <= t
                        /\ h \/ t = 0
                        /\ Nested(D, t)
  BY DEF Shape, MarksAt
<1>2. n \in Nat /\ Len(q.blocks) = n + 1 /\ q.blocks[n + 1] = b
      /\ \A r \in 1..n : q.blocks[r] = p.blocks[r]
  BY PointIs
<1> HIDE DEF n
<1>3. \A r \in 1..n + 1 : r = n + 1 \/ r \in 1..n
  BY <1>2
<1>4. CASE b.scoped
  <2>1. t = n
    <3>1. n # 0 => n \in 1..n
      BY <1>2
    <3>2. QED
      BY <1>1, <1>2, <1>4, <3>1 DEF n
  <2>2. n + 1 \in 0..n + 1 /\ n + 1 \in Nat /\ \A r \in 1..n + 1 : r <= n + 1 /\ r \in 1..n + 1
    BY <1>2
  <2>3. \A r \in 1..n + 1 : q.blocks[r].scoped <=> r <= n + 1
    BY <1>2, <1>3, <1>4, <2>2 DEF n
  <2>4. Nested(Append(D, Sentinel), n + 1)
    BY <1>1, <1>2, <2>1, MarkNested
  <2>5. MarksAt(q, n + 1) = n + 1
    BY DEF MarksAt
  <2>6. QED
    BY <1>2, <1>4, <2>2, <2>3, <2>4, <2>5, ShapeIs
<1>5. CASE ~b.scoped
  <2>1. t \in 0..n + 1 /\ n + 1 \in Nat /\ ~(n + 1 <= t)
    BY <1>1, <1>2
  <2>2. \A r \in 1..n + 1 : q.blocks[r].scoped <=> r <= t
    BY <1>1, <1>2, <1>3, <1>5, <2>1
  <2>3. MarksAt(q, t) = t
    BY DEF MarksAt
  <2>4. QED
    BY <1>1, <1>2, <1>5, <2>1, <2>2, <2>3, ShapeIs
<1>6. QED
  BY <1>4, <1>5

\* A defer statement is executed.
LEMMA DeferredShape ==
  ASSUME NEW h, NEW D \in Seq(Entries), NEW p \in Points, p.op # "loop", Shape(h, D, p),
         \A r \in 1..Len(p.blocks) : p.blocks[r].scoped,
         NEW d, d # Sentinel, d.nest = Len(p.blocks)
  PROVE  Shape(h, Append(D, d), p)
<1> DEFINE n == Len(p.blocks)
<1>1. PICK t \in 0..n : /\ \A r \in 1..n : p.blocks[r].scoped <=> r <= t
                        /\ h \/ t = 0
                        /\ Nested(D, t)
  BY DEF Shape, MarksAt
<1>2. n \in Nat /\ t = n
  <2>1. n \in Nat /\ (n # 0 => n \in 1..n)
    BY PointIs
  <2>2. QED
    BY <1>1, <2>1
<1>3. Nested(Append(D, d), t)
  BY <1>1, <1>2, EntryNested
<1>4. MarksAt(p, t) = t
  BY DEF MarksAt
<1>5. QED
  BY <1>1, <1>2, <1>3, <1>4, ShapeIs

\* Control leaves block i, or goes to the test of loop i, from blocks without a scope inside it.
LEMMA LeftShape ==
  ASSUME NEW h, NEW D \in Seq(Entries), NEW p \in Points, p.op # "loop", Shape(h, D, p),
         NEW i \in 1..Len(p.blocks),
         \A r \in 1..Len(p.blocks) : r > i => ~p.blocks[r].scoped,
         NEW q, NEW m \in Nat, Len(q.blocks) = m, \A r \in 1..m : q.blocks[r] = p.blocks[r],
         (m = i /\ q.op = "loop") \/ (m = i - 1 /\ q.op # "loop")
  PROVE  /\ p.blocks[i].scoped =>
              /\ \E k \in 1..Len(D) : D[k] = Sentinel
              /\ \A k \in 1..Len(D) :
                   D[k] = Sentinel /\ (\A j \in 1..Len(D) : D[j] = Sentinel => j <= k)
                     => Shape(h, SubSeq(D, 1, k - 1), q)
         /\ ~p.blocks[i].scoped => Shape(h, D, q)
<1> DEFINE n == Len(p.blocks)
<1>1. PICK t \in 0..n : /\ \A r \in 1..n : p.blocks[r].scoped <=> r <= t
                        /\ h \/ t = 0
                        /\ Nested(D, t)
  BY DEF Shape, MarksAt
<1>2. n \in Nat /\ i \in 1..n
  BY PointIs
<1> HIDE DEF n
<1>3. \A r \in 1..m : r \in 1..n
  BY <1>2
<1>4. CASE p.blocks[i].scoped
  <2>1. t = i
    <3>1. i <= t
      BY <1>1, <1>2, <1>4
    <3>2. t > i => t \in 1..n
      BY <1>2
    <3>3. ~(t > i)
      BY <1>1, <3>2 DEF n
    <3>4. QED
      BY <1>2, <3>1, <3>3
  <2>2. PICK s \in Nat : i = s + 1
    <3>1. i - 1 \in Nat /\ i = (i - 1) + 1
      BY <1>2
    <3>2. QED
      BY <3>1
  <2>3. /\ \E k \in 1..Len(D) : D[k] = Sentinel
        /\ \A k \in 1..Len(D) :
             D[k] = Sentinel /\ (\A j \in 1..Len(D) : D[j] = Sentinel => j <= k)
               => Nested(SubSeq(D, 1, k - 1), s)
    BY <1>1, <2>1, <2>2, PopNested
  <2>4. \A r \in 1..m : q.blocks[r].scoped <=> r <= m
    <3>1. \A r \in 1..m : r <= t /\ r <= m
      BY <1>2, <2>1
    <3>2. QED
      BY <1>1, <1>3, <3>1
  <2>5. s = MarksAt(q, m) /\ m \in 0..m
    BY <1>2, <2>2 DEF MarksAt
  <2>6. h
    BY <1>1, <1>2, <2>1
  <2>7. \A E : Nested(E, s) => Shape(h, E, q)
    BY <2>4, <2>5, <2>6, ShapeIs
  <2>8. QED
    BY <1>4, <2>3, <2>7
<1>5. CASE ~p.blocks[i].scoped
  <2>1. t \in 0..m /\ (m = i => t # m)
    BY <1>1, <1>2, <1>5
  <2>2. \A r \in 1..m : q.blocks[r].scoped <=> r <= t
    BY <1>1, <1>3
  <2>3. MarksAt(q, t) = t
    BY <2>1 DEF MarksAt
  <2>4. QED
    BY <1>1, <1>5, <2>1, <2>2, <2>3, ShapeIs
<1>6. QED
  BY <1>4, <1>5

\* A loop goes round again, with another mark, or ends.
LEMMA LoopShape ==
  ASSUME NEW h, NEW D \in Seq(Entries), NEW p \in Points, p.op = "loop", p.blocks # <<>>, Shape(h, D, p),
         NEW q, q.op # "loop"
  PROVE  /\ q.blocks = p.blocks =>
              Shape(h, IF Last(p.blocks).scoped THEN Append(D, Sentinel) ELSE D, q)
         /\ q.blocks = Front(p.blocks) => Shape(h, D, q)
<1>1. PICK n \in Nat : Len(p.blocks) = n + 1
  <2>1. p.blocks \in Seq(BlockType)
    BY PointIs
  <2>2. Len(p.blocks) - 1 \in Nat /\ Len(p.blocks) = (Len(p.blocks) - 1) + 1
    BY <2>1
  <2>3. QED
    BY <2>2
<1>2. /\ n + 1 \in 1..n + 1 /\ n + 1 \in Nat /\ n + 1 \in 0..n + 1 /\ n + 1 - 1 = n /\ n \in 0..n
      /\ \A r \in 1..n : r \in 1..n + 1
      /\ \A t \in 0..n + 1 : t = n + 1 \/ (t \in 0..n /\ t # n + 1 /\ ~(n + 1 <= t))
      /\ \A r \in 1..n : r <= n + 1 /\ r <= n
  OBVIOUS
<1>3. PICK t \in 0..n + 1 : /\ \A r \in 1..n + 1 : p.blocks[r].scoped <=> r <= t
                            /\ h \/ t = 0
                            /\ Nested(D, IF t = n + 1 THEN n ELSE t)
  BY <1>1, <1>2 DEF Shape, MarksAt
<1>4. Last(p.blocks) = p.blocks[n + 1] /\ Len(Front(p.blocks)) = n
      /\ \A r \in 1..n : Front(p.blocks)[r] = p.blocks[r]
  <2>1. /\ Len(Front(p.blocks)) = Len(p.blocks) - 1 /\ Last(p.blocks) = p.blocks[Len(p.blocks)]
        /\ \A r \in 1..Len(p.blocks) - 1 : Front(p.blocks)[r] = p.blocks[r]
    BY PointIs, FrontIs
  <2>2. QED
    BY <1>1, <1>2, <2>1
<1>5. \A x : MarksAt(q, x) = x
  BY DEF MarksAt
<1>6. ASSUME q.blocks = p.blocks
      PROVE  Shape(h, IF Last(p.blocks).scoped THEN Append(D, Sentinel) ELSE D, q)
  <2>1. \A r \in 1..n + 1 : q.blocks[r].scoped <=> r <= t
    BY <1>3, <1>6
  <2>2. CASE t = n + 1
    <3>1. Last(p.blocks).scoped
      BY <1>2, <1>3, <1>4, <2>2
    <3>2. Nested(Append(D, Sentinel), n + 1)
      BY <1>3, <2>2, MarkNested
    <3>3. QED
      BY <1>1, <1>2, <1>3, <1>5, <1>6, <2>1, <2>2, <3>1, <3>2, ShapeIs
  <2>3. CASE t # n + 1
    <3>1. ~Last(p.blocks).scoped
      BY <1>2, <1>3, <1>4, <2>3
    <3>2. Nested(D, t)
      BY <1>3, <2>3
    <3>3. QED
      BY <1>1, <1>2, <1>3, <1>5, <1>6, <2>1, <3>1, <3>2, ShapeIs
  <2>4. QED
    BY <2>2, <2>3
<1>7. ASSUME q.blocks = Front(p.blocks) PROVE Shape(h, D, q)
  <2> DEFINE z == IF t = n + 1 THEN n ELSE t
  <2>1. z \in 0..n /\ \A r \in 1..n : r <= t <=> r <= z
    BY <1>2
  <2>2. \A r \in 1..n : q.blocks[r].scoped <=> r <= z
    BY <1>2, <1>3, <1>4, <1>7, <2>1
  <2>3. h \/ z = 0
    BY <1>2, <1>3
  <2>4. Nested(D, z)
    BY <1>3
  <2> HIDE DEF z
  <2>5. QED
    BY <1>4, <1>5, <1>7, <2>1, <2>2, <2>3, <2>4, ShapeIs
<1>8. QED
  BY <1>6, <1>7

\* Outside all blocks, or in a function without defers, there is no mark.
LEMMA BareNested ==
  ASSUME NEW h, NEW D, NEW p, p.op # "loop", Shape(h, D, p), ~h \/ p.blocks = <<>>
  PROVE  Nested(D, 0)
<1>1. PICK t \in 0..Len(p.blocks) : (h \/ t = 0) /\ Nested(D, t)
  BY DEF Shape, MarksAt
<1>2. Len(p.blocks) = 0 => t = 0
  BY <1>1
<1>3. QED
  BY <1>1, <1>2

LEMMA BareShape ==
  ASSUME NEW h, NEW D, Nested(D, 0), NEW q, q.blocks = <<>>, q.op # "loop"
  PROVE  Shape(h, D, q)
<1>1. Len(q.blocks) = 0 /\ 0 \in 0..0 /\ 0 \in Nat /\ \A r \in 1..0 : FALSE
  OBVIOUS
<1>2. MarksAt(q, 0) = 0
  BY DEF MarksAt
<1>3. QED
  BY <1>1, <1>2, ShapeIs

\* No entry is of a block that control has left.
LEMMA ShapeDrained ==
  ASSUME NEW h, NEW D \in Seq(Entries), NEW p \in Points, Shape(h, D, p), NEW k \in 1..Len(D)
  PROVE  D[k].nest <= Len(p.blocks)
<1>1. PICK t \in 0..Len(p.blocks) : Nested(D, MarksAt(p, t))
  BY DEF Shape
<1>2. Len(p.blocks) \in Nat
  BY PointIs
<1>3. D[k].nest <= MarksAt(p, t)
  BY <1>1 DEF Nested
<1>4. D[k] \in Entries
  OBVIOUS
<1>5. D[k].nest \in Nat
  BY <1>4 DEF Entries, Sentinel
<1>6. QED
  BY <1>2, <1>3, <1>5 DEF MarksAt

\* A frame that would go on at p.
FrameShape(f, p) == ~f.strayed => Shape(f.hasDefer, f.defers, p)

LEMMA TopShape ==
  ASSUME ShapesInv, status = "running"
  PROVE  FrameShape(Top, pc) /\ Top.defers \in Seq(Entries)
<1>1. Len(frames) \in Nat \ {0} /\ Top = frames[Len(frames)] /\ Top \in Frames
  BY Running DEF ShapesInv
<1>2. Len(frames) \in 1..Len(frames)
  BY <1>1
<1>3. QED
  BY <1>1, <1>2 DEF ShapesInv, Shapes, PointOf, FrameShape, Frames

\* A step in the top frame, to the point p.
LEMMA InPlaceShapes ==
  ASSUME ShapesInv, status = "running", NEW f \in Frames, NEW p,
         frames' = SetTop(f), pc' = p, FrameShape(f, p)
  PROVE  Shapes'
<1>1. frames \in Seq(Frames) /\ frames # <<>> /\ Len(frames) \in Nat \ {0}
  BY Running DEF ShapesInv, TInv, TypeOK
<1>2. /\ Len(frames') = Len(frames) /\ frames'[Len(frames)] = f
      /\ \A i \in 1..Len(frames) - 1 : frames'[i] = frames[i]
  BY <1>1, ReplaceIs DEF SetTop
<1> SUFFICES ASSUME NEW i \in 1..Len(frames), ~frames'[i].strayed
             PROVE  Shape(frames'[i].hasDefer, frames'[i].defers,
                          IF i = Len(frames) THEN p ELSE frames'[i].ip)
  BY <1>2 DEF Shapes, PointOf
<1>3. CASE i = Len(frames)
  BY <1>2, <1>3 DEF FrameShape
<1>4. CASE i \in 1..Len(frames) - 1 /\ i # Len(frames)
  BY <1>2, <1>4 DEF ShapesInv, Shapes, PointOf
<1>5. QED
  BY <1>1, <1>3, <1>4

LEMMA TakeFromShapes ==
  ASSUME ShapesInv, status = "running", NEW f \in Frames, NEW k \in 1..Len(f.defers) + 1, NEW v, NEW p,
         TakeFrom(f, k, v, p), ~f.strayed => Shape(f.hasDefer, SubSeq(f.defers, 1, k - 1), p)
  PROVE  Shapes'
<1> DEFINE g == [f EXCEPT !.defers = SubSeq(@, 1, k - 1)]
<1>1. f.defers \in Seq(Entries) /\ k - 1 \in 0..Len(f.defers)
  BY DEF Frames
<1>2. SubSeq(f.defers, 1, k - 1) \in Seq(Entries)
  BY <1>1, PartsAre
<1>3. g \in Frames /\ FrameShape(g, p)
  BY <1>2 DEF Frames, FrameShape
<1>4. frames' = SetTop(g) /\ pc' = p
  BY DEF TakeFrom
<1> HIDE DEF g
<1>5. QED
  BY <1>3, <1>4, InPlaceShapes

LEMMA ScopePopShapes ==
  ASSUME ShapesInv, status = "running", NEW f \in Frames, NEW scoped, NEW v, NEW p,
         ScopePop(f, scoped, v, p),
         ~f.strayed =>
           /\ scoped => /\ \E k \in 1..Len(f.defers) : f.defers[k] = Sentinel
                        /\ \A k \in 1..Len(f.defers) :
                             f.defers[k] = Sentinel
                               /\ (\A j \in 1..Len(f.defers) : f.defers[j] = Sentinel => j <= k)
                               => Shape(f.hasDefer, SubSeq(f.defers, 1, k - 1), p)
           /\ ~scoped => Shape(f.hasDefer, f.defers, p)
  PROVE  Shapes'
<1>1. f.defers \in Seq(Entries) /\ DOMAIN f.defers = 1..Len(f.defers)
  BY DEF Frames
<1>2. \A k : k \in MarksOf(f) <=> k \in 1..Len(f.defers) /\ f.defers[k] = Sentinel
  BY <1>1 DEF MarksOf
<1>3. CASE scoped /\ MarksOf(f) # {}
  <2>1. PICK k \in MarksOf(f) : Innermost(k, MarksOf(f)) /\ TakeFrom(f, k, v, p)
    BY <1>3 DEF ScopePop
  <2>2. k \in 1..Len(f.defers) + 1
    BY <1>1, <1>2, <2>1
  <2>3. ~f.strayed => Shape(f.hasDefer, SubSeq(f.defers, 1, k - 1), p)
    BY <1>2, <1>3, <2>1 DEF Innermost
  <2>4. QED
    BY <2>1, <2>2, <2>3, TakeFromShapes
<1>4. CASE ~(scoped /\ MarksOf(f) # {})
  <2>1. frames' = SetTop(f) /\ pc' = p
    BY <1>4 DEF ScopePop, Goto
  <2>2. FrameShape(f, p)
    BY <1>2, <1>4 DEF FrameShape
  <2>3. QED
    BY <2>1, <2>2, InPlaceShapes
<1>5. QED
  BY <1>3, <1>4

LEMMA EmitRetShapes ==
  ASSUME ShapesInv, status = "running", pc.op # "loop", NEW v, EmitRet(v)
  PROVE  Shapes'
<1> DEFINE q == At(<<>>, "ret", "plain")
<1>1. q.blocks = <<>> /\ q.op # "loop"
  BY DEF At
<1> HIDE DEF q
<1>2. Top \in Frames /\ FrameShape(Top, pc) /\ Top.defers \in Seq(Entries)
  BY Running, TopShape DEF ShapesInv
<1>3. CASE Top.hasDefer
  <2>1. TakeFrom(Top, 1, v, q)
    BY <1>3 DEF EmitRet, q
  <2>2. SubSeq(Top.defers, 1, 1 - 1) = <<>> /\ 1 \in 1..Len(Top.defers) + 1
    BY <1>2
  <2>3. Shape(Top.hasDefer, <<>>, q)
    BY <1>1, BareShape, EmptyNested
  <2>4. QED
    BY <1>2, <2>1, <2>2, <2>3, TakeFromShapes
<1>4. CASE ~Top.hasDefer
  <2>1. frames' = SetTop(Top) /\ pc' = q
    BY <1>4 DEF EmitRet, Goto, q
  <2>2. FrameShape(Top, q)
    BY <1>1, <1>2, <1>4, BareNested, BareShape DEF FrameShape
  <2>3. QED
    BY <1>2, <2>1, <2>2, InPlaceShapes
<1>5. QED
  BY <1>3, <1>4

-----------------------------------------------------------------------------
LEMMA OpenBlockShapes == ShapesInv /\ OpenBlock => Shapes'
<1> SUFFICES ASSUME ShapesInv, OpenBlock PROVE Shapes'
  OBVIOUS
<1>1. status = "running" /\ TInv /\ pc.op = "run"
  BY DEF OpenBlock, InFn, InBody, Dispatching, ShapesInv
<1>2. PICK form \in Forms, scoped \in BOOLEAN :
        /\ scoped => DefersAllowed
        /\ pc' = [pc EXCEPT !.blocks = Append(@, [form |-> form, scoped |-> scoped])]
        /\ frames' = SetTop(Marked(Top, scoped))
  BY DEF OpenBlock
<1> DEFINE b == [form |-> form, scoped |-> scoped]
           q == [pc EXCEPT !.blocks = Append(@, b)]
<1>3. b \in BlockType /\ b.scoped = scoped
  BY VmAssumption DEF BlockType
<1>4. pc \in Points /\ pc.blocks \in Seq(BlockType) /\ q.blocks = Append(pc.blocks, b) /\ q.op # "loop"
  BY <1>1, Around0 DEF Points, BlockType
<1>5. Top \in Frames /\ Marked(Top, scoped) \in Frames /\ FrameShape(Top, pc) /\ Top.defers \in Seq(Entries)
  BY <1>1, Running, MarkedIs, TopShape
<1>6. /\ Marked(Top, scoped).hasDefer = Top.hasDefer /\ Marked(Top, scoped).strayed = Top.strayed
      /\ Marked(Top, scoped).defers = IF scoped THEN Append(Top.defers, Sentinel) ELSE Top.defers
  BY <1>5 DEF Marked, Frames
<1>7. frames' = SetTop(Marked(Top, scoped)) /\ pc' = q
  BY <1>2
<1>8. DOMAIN pc.blocks = 1..Len(pc.blocks)
  BY <1>4
<1> HIDE DEF b, q
<1>9. b.scoped => Top.hasDefer /\ \A r \in 1..Len(pc.blocks) : pc.blocks[r].scoped
  BY <1>2, <1>3, <1>8 DEF DefersAllowed
<1>10. FrameShape(Marked(Top, scoped), q)
  <2> SUFFICES ASSUME ~Top.strayed
               PROVE  Shape(Top.hasDefer, IF scoped THEN Append(Top.defers, Sentinel) ELSE Top.defers, q)
    BY <1>6 DEF FrameShape
  <2>1. Shape(Top.hasDefer, Top.defers, pc) /\ pc.op # "loop"
    BY <1>1, <1>5 DEF FrameShape
  <2>2. QED
    BY <1>3, <1>4, <1>5, <1>9, <2>1, OpenedShape
<1>11. QED
  BY <1>1, <1>5, <1>7, <1>10, InPlaceShapes

LEMMA DeferShapes == ShapesInv /\ Defer => Shapes'
<1> SUFFICES ASSUME ShapesInv, Defer PROVE Shapes'
  OBVIOUS
<1>1. status = "running" /\ TInv /\ pc.op = "run" /\ DefersAllowed /\ pc' = pc /\ Top.fn # 0
  BY DEF Defer, InFn, InBody, Dispatching, ShapesInv
<1>2. PICK kind \in {"Always", "OnError"} :
        frames' = SetTop([Top EXCEPT !.defers = Append(@, Entry(kind))])
  BY DEF Defer
<1> DEFINE d == Entry(kind)
           f == [Top EXCEPT !.defers = Append(@, d)]
<1>3. Top \in Frames /\ FrameShape(Top, pc) /\ Top.defers \in Seq(Entries)
  BY <1>1, Running, TopShape
<1>4. pc \in Points /\ pc.blocks \in Seq(BlockType)
  BY <1>1, Around0 DEF BlockType
<1>5. d \in Entries /\ d # Sentinel /\ d.nest = Len(pc.blocks)
  BY <1>1, <1>3, Around0 DEF Entry, Entries, Frames, Sentinel
<1> HIDE DEF d
<1>6. f \in Frames /\ f.hasDefer = Top.hasDefer /\ f.strayed = Top.strayed /\ f.defers = Append(Top.defers, d)
  <2>1. Append(Top.defers, d) \in Seq(Entries)
    BY <1>3, <1>5
  <2>2. QED
    BY <1>3, <2>1 DEF Frames
<1>7. frames' = SetTop(f)
  BY <1>2 DEF d
<1> HIDE DEF f
<1>8. \A r \in 1..Len(pc.blocks) : pc.blocks[r].scoped
  BY <1>1, <1>4 DEF DefersAllowed
<1>9. FrameShape(f, pc)
  <2> SUFFICES ASSUME ~Top.strayed PROVE Shape(Top.hasDefer, Append(Top.defers, d), pc)
    BY <1>6 DEF FrameShape
  <2>1. Shape(Top.hasDefer, Top.defers, pc) /\ pc.op # "loop"
    BY <1>1, <1>3 DEF FrameShape
  <2>2. QED
    BY <1>3, <1>4, <1>5, <1>8, <2>1, DeferredShape
<1>10. QED
  BY <1>1, <1>6, <1>7, <1>9, InPlaceShapes

LEMMA EndBlockShapes == ShapesInv /\ EndBlock => Shapes'
<1> SUFFICES ASSUME ShapesInv, EndBlock PROVE Shapes'
  OBVIOUS
<1>1. status = "running" /\ TInv /\ pc.op = "run" /\ pc.blocks # <<>>
  BY DEF EndBlock, InFn, InBody, Dispatching, ShapesInv
<1> DEFINE b == Last(pc.blocks)
           q(v) == CASE b.form = "loop"      -> At(pc.blocks, "loop", "plain")
                     [] b.form = "branch"    -> At(Front(pc.blocks), "run", "plain")
                     [] b.form = "braceless" -> At(Front(pc.blocks), "guardret", v)
<1>2. PICK v \in Values : ScopePop(Top, b.scoped, v, q(v))
  BY DEF EndBlock
<1>3. Top \in Frames /\ FrameShape(Top, pc) /\ Top.defers \in Seq(Entries)
  BY <1>1, Running, TopShape
<1>4. pc \in Points /\ pc.blocks \in Seq(BlockType)
  BY <1>1, Around0 DEF BlockType
<1>5. PICK n \in Nat \ {0} :
        /\ n = Len(pc.blocks) /\ b = pc.blocks[n] /\ b \in BlockType
        /\ Len(Front(pc.blocks)) = n - 1 /\ \A r \in 1..n - 1 : Front(pc.blocks)[r] = pc.blocks[r]
  <2>1. /\ Len(pc.blocks) \in Nat \ {0} /\ b = pc.blocks[Len(pc.blocks)] /\ b \in BlockType
        /\ Len(Front(pc.blocks)) = Len(pc.blocks) - 1
        /\ \A r \in 1..Len(pc.blocks) - 1 : Front(pc.blocks)[r] = pc.blocks[r]
    BY <1>1, <1>4, FrontIs
  <2>2. QED
    BY <2>1
<1>6. b.form \in Blocks
  BY <1>5 DEF BlockType
<1> HIDE DEF b
<1> DEFINE p == q(v)
<1>7. PICK m \in Nat :
        /\ Len(p.blocks) = m /\ \A r \in 1..m : p.blocks[r] = pc.blocks[r]
        /\ (m = n /\ p.op = "loop") \/ (m = n - 1 /\ p.op # "loop")
  <2>1. CASE b.form = "loop"
    <3>1. p = At(pc.blocks, "loop", "plain")
      BY <2>1
    <3> HIDE DEF p
    <3>2. p.blocks = pc.blocks /\ p.op = "loop"
      BY <3>1 DEF At
    <3>3. QED
      BY <1>5, <3>2
  <2>2. CASE b.form # "loop"
    <3>1. p = At(Front(pc.blocks), "run", "plain") \/ p = At(Front(pc.blocks), "guardret", v)
      BY <1>6, <2>2 DEF Blocks
    <3> HIDE DEF p
    <3>2. p.blocks = Front(pc.blocks) /\ p.op # "loop"
      BY <3>1 DEF At
    <3>3. n - 1 \in Nat
      OBVIOUS
    <3>4. QED
      BY <1>5, <3>2, <3>3
  <2>3. QED
    BY <2>1, <2>2
<1>8. ScopePop(Top, b.scoped, v, p)
  BY <1>2
<1> HIDE DEF p, q
<1>9. ASSUME ~Top.strayed
      PROVE  /\ b.scoped =>
                  /\ \E k \in 1..Len(Top.defers) : Top.defers[k] = Sentinel
                  /\ \A k \in 1..Len(Top.defers) :
                       Top.defers[k] = Sentinel
                         /\ (\A j \in 1..Len(Top.defers) : Top.defers[j] = Sentinel => j <= k)
                         => Shape(Top.hasDefer, SubSeq(Top.defers, 1, k - 1), p)
             /\ ~b.scoped => Shape(Top.hasDefer, Top.defers, p)
  <2>1. Shape(Top.hasDefer, Top.defers, pc) /\ pc.op # "loop"
    BY <1>1, <1>3, <1>9 DEF FrameShape
  <2>2. n \in 1..Len(pc.blocks) /\ \A r \in 1..Len(pc.blocks) : r > n => ~pc.blocks[r].scoped
    BY <1>5
  <2>3. Top.defers \in Seq(Entries) /\ pc \in Points /\ m \in Nat /\ Len(p.blocks) = m
        /\ (\A r \in 1..m : p.blocks[r] = pc.blocks[r])
        /\ ((m = n /\ p.op = "loop") \/ (m = n - 1 /\ p.op # "loop"))
    BY <1>3, <1>4, <1>7
  <2>4. /\ pc.blocks[n].scoped =>
             /\ \E k \in 1..Len(Top.defers) : Top.defers[k] = Sentinel
             /\ \A k \in 1..Len(Top.defers) :
                  Top.defers[k] = Sentinel
                    /\ (\A j \in 1..Len(Top.defers) : Top.defers[j] = Sentinel => j <= k)
                    => Shape(Top.hasDefer, SubSeq(Top.defers, 1, k - 1), p)
        /\ ~pc.blocks[n].scoped => Shape(Top.hasDefer, Top.defers, p)
    BY <2>1, <2>2, <2>3, LeftShape
  <2>5. QED
    BY <1>5, <2>4
<1>10. QED
  BY <1>1, <1>3, <1>8, <1>9, ScopePopShapes

LEMMA EscapeShapes == ShapesInv /\ Escape => Shapes'
<1> SUFFICES ASSUME ShapesInv, Escape PROVE Shapes'
  OBVIOUS
<1>1. status = "running" /\ TInv /\ pc.op = "run"
  BY DEF Escape, InFn, InBody, Dispatching, ShapesInv
<1> DEFINE crosses(i) == \E j \in DOMAIN pc.blocks : j > i /\ pc.blocks[j].scoped
           f(i) == [Top EXCEPT !.strayed = @ \/ crosses(i)]
           q(i, op) == At(SubSeq(pc.blocks, 1, IF op = "loop" THEN i ELSE i - 1), op, "plain")
<1>2. PICK i \in LoopPositions, v \in Values, op \in {"run", "loop"} :
        ScopePop(f(i), pc.blocks[i].scoped, v, q(i, op))
  BY DEF Escape
<1>3. Top \in Frames /\ FrameShape(Top, pc) /\ Top.defers \in Seq(Entries)
  BY <1>1, Running, TopShape
<1>4. pc \in Points /\ pc.blocks \in Seq(BlockType) /\ DOMAIN pc.blocks = 1..Len(pc.blocks)
      /\ Len(pc.blocks) \in Nat
  BY <1>1, Around0 DEF BlockType
<1>5. i \in 1..Len(pc.blocks)
  BY <1>4 DEF LoopPositions
<1>6. /\ f(i) \in Frames /\ f(i).hasDefer = Top.hasDefer /\ f(i).defers = Top.defers
      /\ f(i).strayed = (Top.strayed \/ crosses(i))
  <2>1. crosses(i) \in BOOLEAN
    OBVIOUS
  <2> HIDE DEF crosses
  <2>2. QED
    BY <1>3, <2>1 DEF Frames
<1> DEFINE p == q(i, op)
<1>7. PICK m \in Nat :
        /\ Len(p.blocks) = m /\ \A r \in 1..m : p.blocks[r] = pc.blocks[r]
        /\ (m = i /\ p.op = "loop") \/ (m = i - 1 /\ p.op # "loop")
  <2> DEFINE z == IF op = "loop" THEN i ELSE i - 1
  <2>1. z \in 0..Len(pc.blocks) /\ z \in Nat /\ (op = "loop" => z = i) /\ (op # "loop" => z = i - 1)
    BY <1>4, <1>5
  <2>2. p.blocks = SubSeq(pc.blocks, 1, z) /\ p.op = op
    BY DEF At
  <2> HIDE DEF z, p
  <2>3. Len(SubSeq(pc.blocks, 1, z)) = z /\ \A r \in 1..z : SubSeq(pc.blocks, 1, z)[r] = pc.blocks[r]
    BY <1>4, <2>1, PartsAre
  <2>4. QED
    BY <2>1, <2>2, <2>3
<1> DEFINE g == f(i)
<1>8. ScopePop(g, pc.blocks[i].scoped, v, p)
  BY <1>2
<1>9. crosses(i) <=> \E r \in 1..Len(pc.blocks) : r > i /\ pc.blocks[r].scoped
  BY <1>4
<1>10. /\ g \in Frames /\ g.hasDefer = Top.hasDefer /\ g.defers = Top.defers
       /\ g.strayed = (Top.strayed \/ crosses(i))
  BY <1>6
<1> HIDE DEF f, g, p, q, crosses
<1>11. ASSUME ~g.strayed
       PROVE  /\ pc.blocks[i].scoped =>
                   /\ \E k \in 1..Len(g.defers) : g.defers[k] = Sentinel
                   /\ \A k \in 1..Len(g.defers) :
                        g.defers[k] = Sentinel
                          /\ (\A j \in 1..Len(g.defers) : g.defers[j] = Sentinel => j <= k)
                          => Shape(g.hasDefer, SubSeq(g.defers, 1, k - 1), p)
              /\ ~pc.blocks[i].scoped => Shape(g.hasDefer, g.defers, p)
  <2>1. ~Top.strayed /\ ~crosses(i)
    BY <1>10, <1>11
  <2>2. Shape(g.hasDefer, g.defers, pc) /\ pc.op # "loop" /\ g.defers \in Seq(Entries)
    BY <1>1, <1>3, <1>10, <2>1 DEF FrameShape
  <2>3. \A r \in 1..Len(pc.blocks) : r > i => ~pc.blocks[r].scoped
    BY <1>9, <2>1
  <2>4. QED
    BY <1>4, <1>5, <1>7, <2>2, <2>3, LeftShape
<1>12. QED
  BY <1>1, <1>8, <1>10, <1>11, ScopePopShapes

LEMMA LoopTestShapes == ShapesInv /\ LoopTest => Shapes'
<1> SUFFICES ASSUME ShapesInv, LoopTest PROVE Shapes'
  OBVIOUS
<1>1. status = "running" /\ TInv /\ pc.op = "loop"
  BY DEF LoopTest, Dispatching, ShapesInv
<1>2. Top \in Frames /\ FrameShape(Top, pc) /\ Top.defers \in Seq(Entries) /\ SetTop(Top) = frames
  BY <1>1, Running, TopShape
<1>3. pc \in Points /\ pc.blocks # <<>>
  BY <1>1, Around0 DEF LoopHasBlock
<1>4. ASSUME frames' = SetTop(Marked(Top, Last(pc.blocks).scoped)), pc' = At(pc.blocks, "run", "plain")
      PROVE  Shapes'
  <2> DEFINE b == Last(pc.blocks).scoped
             f == Marked(Top, b)
             q == At(pc.blocks, "run", "plain")
  <2>1. q.blocks = pc.blocks /\ q.op # "loop"
    BY DEF At
  <2> HIDE DEF q
  <2>2. /\ f \in Frames /\ f.hasDefer = Top.hasDefer /\ f.strayed = Top.strayed
        /\ f.defers = IF b THEN Append(Top.defers, Sentinel) ELSE Top.defers
    BY <1>2, MarkedIs DEF Marked, Frames
  <2>3. FrameShape(f, q)
    BY <1>1, <1>2, <1>3, <2>1, <2>2, LoopShape DEF FrameShape
  <2>4. QED
    BY <1>1, <1>4, <2>2, <2>3, InPlaceShapes DEF q
<1>5. ASSUME frames' = frames, pc' = At(Front(pc.blocks), "run", "plain")
      PROVE  Shapes'
  <2> DEFINE q == At(Front(pc.blocks), "run", "plain")
  <2>1. q.blocks = Front(pc.blocks) /\ q.op # "loop"
    BY DEF At
  <2> HIDE DEF q
  <2>2. FrameShape(Top, q)
    BY <1>1, <1>2, <1>3, <2>1, LoopShape DEF FrameShape
  <2>3. QED
    BY <1>1, <1>2, <1>5, <2>2, InPlaceShapes DEF q
<1>6. QED
  BY <1>4, <1>5 DEF LoopTest

LEMMA RetShapes == ShapesInv /\ (Ret \/ GuardRet) => Shapes'
<1> SUFFICES ASSUME ShapesInv, Ret \/ GuardRet PROVE Shapes'
  OBVIOUS
<1>1. status = "running" /\ pc.op # "loop" /\ \E v : EmitRet(v)
  BY DEF Ret, GuardRet, InBody, Dispatching
<1>2. QED
  BY <1>1, EmitRetShapes

LEMMA TailCallShapes == ShapesInv /\ TailCall => Shapes'
<1> SUFFICES ASSUME ShapesInv, TailCall PROVE Shapes'
  OBVIOUS
<1>1. status = "running" /\ TInv /\ pc.op = "run" /\ pc.blocks = <<>> /\ pc' = Start
  BY DEF TailCall, InBody, Dispatching, ShapesInv
<1>2. PICK hasDefer \in BOOLEAN :
        frames' = SetTop([Top EXCEPT !.fn = calls + 1, !.hasDefer = hasDefer, !.ip = Start])
  BY DEF TailCall
<1> DEFINE f == [Top EXCEPT !.fn = calls + 1, !.hasDefer = hasDefer, !.ip = Start]
<1>3. Top \in Frames /\ FrameShape(Top, pc) /\ calls + 1 \in Nat /\ Start \in Points
      /\ Start.blocks = <<>> /\ Start.op # "loop"
  BY <1>1, Running, TopShape, Around0 DEF Start, At
<1> HIDE DEF Start
<1>4. f \in Frames /\ f.defers = Top.defers /\ f.strayed = Top.strayed
  BY <1>3 DEF Frames
<1>5. frames' = SetTop(f)
  BY <1>2
<1> HIDE DEF f
<1>6. FrameShape(f, Start)
  BY <1>1, <1>3, <1>4, BareNested, BareShape DEF FrameShape
<1>7. QED
  BY <1>1, <1>4, <1>5, <1>6, InPlaceShapes

LEMMA PropagateShapes == ShapesInv /\ Propagate => Shapes'
<1> SUFFICES ASSUME ShapesInv, Propagate PROVE Shapes'
  OBVIOUS
<1> DEFINE q == At(pc.blocks, "bare", "plain")
<1>1. status = "running" /\ TInv /\ pc.op = "run" /\ pc' = q /\ frames' = frames
  BY DEF Propagate, InBody, Dispatching, ShapesInv
<1>2. Top \in Frames /\ FrameShape(Top, pc) /\ SetTop(Top) = frames
  BY <1>1, Running, TopShape
<1>3. q.blocks = pc.blocks /\ q.op # "loop"
  BY DEF At
<1> HIDE DEF q
<1>4. FrameShape(Top, q)
  BY <1>1, <1>2, <1>3 DEF FrameShape, Shape, MarksAt
<1>5. QED
  BY <1>1, <1>2, <1>4, InPlaceShapes

\* A frame with no defers is put on top.
LEMMA PushedShapes ==
  ASSUME ShapesInv, status = "running", NEW g \in Frames, g.defers = <<>>,
         frames' = Append(SetTop([Top EXCEPT !.ip = pc]), g), pc' = Start
  PROVE  Shapes'
<1>1. PICK f \in Frames :
        /\ Len(frames') = Len(frames) + 1 /\ frames'[Len(frames) + 1] = g
        /\ frames'[Len(frames)] = f
        /\ \A i \in 1..Len(frames) - 1 : frames'[i] = frames[i]
        /\ f.defers = Top.defers /\ f.strayed = Top.strayed /\ f.hasDefer = Top.hasDefer /\ f.ip = pc
  BY PushedIs DEF ShapesInv
<1>2. PICK n \in Nat \ {0} : n = Len(frames)
  BY Running DEF ShapesInv
<1>3. /\ \A i \in 1..n - 1 : i \in 1..n /\ i # n /\ i # n + 1
      /\ \A i \in 1..n + 1 : i = n + 1 \/ i = n \/ i \in 1..n - 1
      /\ n # n + 1
  BY <1>2
<1>4. FrameShape(Top, pc)
  BY TopShape
<1>5. Start.blocks = <<>> /\ Start.op # "loop"
  BY DEF Start, At
<1> HIDE DEF Start
<1> SUFFICES ASSUME NEW i \in 1..n + 1, ~frames'[i].strayed
             PROVE  Shape(frames'[i].hasDefer, frames'[i].defers, IF i = n + 1 THEN Start ELSE frames'[i].ip)
  BY <1>1, <1>2 DEF Shapes, PointOf
<1>6. CASE i = n + 1
  BY <1>1, <1>2, <1>5, <1>6, EmptyNested, BareShape
<1>7. CASE i = n
  BY <1>1, <1>2, <1>3, <1>4, <1>7 DEF FrameShape
<1>8. CASE i \in 1..n - 1
  BY <1>1, <1>2, <1>3, <1>8 DEF ShapesInv, Shapes, PointOf
<1>9. QED
  BY <1>3, <1>6, <1>7, <1>8

LEMMA EnterShapes == ShapesInv /\ (Call \/ CallHere) => Shapes'
<1> SUFFICES ASSUME ShapesInv, Call \/ CallHere PROVE Shapes'
  OBVIOUS
<1>1. PICK hasDefer \in BOOLEAN : Enter(hasDefer)
  BY DEF Call, CallHere
<1> DEFINE g == Frame(calls + 1, 0, hasDefer)
<1>2. /\ status = "running" /\ TInv /\ pc' = Start
      /\ frames' = Append(SetTop([Top EXCEPT !.ip = pc]), g)
  BY <1>1 DEF Enter, InBody, Dispatching, ShapesInv
<1>3. g \in Frames /\ g.defers = <<>>
  <2>1. g \in Frames
    BY <1>2, Around0, FrameIs
  <2>2. QED
    BY <2>1 DEF Frame
<1> HIDE DEF g
<1>4. QED
  BY <1>2, <1>3, PushedShapes

LEMMA DrainShapes == ShapesInv /\ Drain => Shapes'
<1> SUFFICES ASSUME ShapesInv, Drain PROVE Shapes'
  OBVIOUS
<1>1. PICK d \in Entries :
        /\ status = "running"
        /\ \/ /\ frames' = Append(SetTop([Top EXCEPT !.ip = pc]), Frame(0, d.id, FALSE))
              /\ Frame(0, d.id, FALSE) \in Frames /\ Frame(0, d.id, FALSE).defers = <<>>
              /\ pc' = Start
           \/ frames' = frames /\ pc' = pc
  BY DrainIs DEF ShapesInv
<1> DEFINE g == Frame(0, d.id, FALSE)
<1>2. CASE frames' = frames /\ pc' = pc
  BY <1>2 DEF ShapesInv, Shapes, PointOf
<1>3. CASE /\ frames' = Append(SetTop([Top EXCEPT !.ip = pc]), g)
           /\ g \in Frames /\ g.defers = <<>> /\ pc' = Start
  <2> HIDE DEF g
  <2>1. QED
    BY <1>1, <1>3, PushedShapes
<1>4. QED
  BY <1>1, <1>2, <1>3

(***************************************************************************)
(* The frames that an ignored error leaves behind have strayed; the others *)
(* are as they were.                                                       *)
(***************************************************************************)
LEMMA RuntimeErrorShapes == ShapesInv /\ RuntimeError => Shapes'
<1> SUFFICES ASSUME ShapesInv, RuntimeError PROVE Shapes'
  OBVIOUS
<1>1. status = "running" /\ TInv
  BY DEF RuntimeError, InBody, Dispatching, ShapesInv
<1>2. CASE Len(execs) = 1
  <2>1. frames' = frames /\ pc' = pc
    BY <1>2 DEF RuntimeError
  <2>2. QED
    BY <2>1 DEF ShapesInv, Shapes, PointOf
<1>3. CASE Len(execs) # 1
  <2>1. /\ Len(frames') = Len(frames)
        /\ \A i \in 1..Len(frames) : frames'[i] = [frames[i] EXCEPT !.strayed = @ \/ i > stop]
    BY <1>1, <1>3, StrayedIs
  <2>2. \A i \in 1..stop : frames'[i] = frames[i]
    BY <1>1, RuntimeErrorKeeps DEF Below
  <2>3. stop \in Nat /\ Len(frames) \in Nat \ {0} /\ stop < Len(frames) /\ frames \in Seq(Frames)
    BY <1>1, Running DEF TInv, TypeOK, StopsNest
  <2> SUFFICES ASSUME NEW i \in 1..Len(frames), ~frames'[i].strayed
               PROVE  Shape(frames'[i].hasDefer, frames'[i].defers, PointOf(i)')
    BY <2>1 DEF Shapes
  <2>4. ~(i > stop)
    <3>1. PICK f \in Frames : f = frames[i]
      BY <2>3
    <3>2. [f EXCEPT !.strayed = @ \/ i > stop].strayed = (f.strayed \/ i > stop)
      BY <3>1 DEF Frames
    <3>3. QED
      BY <2>1, <3>1, <3>2
  <2>5. i \in 1..stop /\ i # Len(frames)
    BY <2>3, <2>4
  <2>6. QED
    BY <2>1, <2>2, <2>5 DEF ShapesInv, Shapes, PointOf
<1>4. QED
  BY <1>2, <1>3

LEMMA ReturnShapes == ShapesInv /\ Return => Shapes'
<1> SUFFICES ASSUME ShapesInv, Return PROVE Shapes'
  OBVIOUS
<1>1. TInv
  BY DEF ShapesInv
<1>2. PICK n \in Nat :
           /\ Len(frames) = n + 1 /\ Len(frames') = n
           /\ \A i \in 1..n : /\ frames'[i].defers = frames[i].defers
                              /\ frames'[i].strayed = frames[i].strayed
                              /\ frames'[i].hasDefer = frames[i].hasDefer /\ frames'[i].ip = frames[i].ip
           /\ \/ n = stop /\ Len(execs) = 1
              \/ EndExec(Front(frames))
              \/ pc' = Last(Front(frames)).ip
           /\ n # 0 => Last(Front(frames)).ip = frames[n].ip
  BY <1>1, ReturnIs
<1>3. \A i \in 1..n : i \in 1..n + 1 /\ i # n + 1 /\ n # 0
  OBVIOUS
<1>4. n # 0 => pc' = frames[n].ip
  <2>1. Len(execs) = 1 => stop = 0
    BY <1>1 DEF TInv, StopsNest, StopOf
  <2>2. QED
    BY <1>2, <2>1 DEF EndExec
<1> SUFFICES ASSUME NEW i \in 1..n, ~frames'[i].strayed
             PROVE  Shape(frames'[i].hasDefer, frames'[i].defers, PointOf(i)')
  BY <1>2 DEF Shapes
<1>5. PointOf(i)' = frames[i].ip
  BY <1>2, <1>3, <1>4 DEF PointOf
<1>6. PointOf(i) = frames[i].ip
  BY <1>2, <1>3 DEF PointOf
<1>7. QED
  BY <1>2, <1>3, <1>5, <1>6 DEF ShapesInv, Shapes

-----------------------------------------------------------------------------
LEMMA InitShapes == Init => ShapesInv
<1> SUFFICES ASSUME Init PROVE ShapesInv
  OBVIOUS
<1>1. PICK hasDefer \in BOOLEAN : frames = <<Frame(1, 0, hasDefer)>>
  BY DEF Init
<1>2. Len(frames) = 1 /\ frames[1].defers = <<>> /\ pc = Start
  BY <1>1 DEF Frame, Init
<1>3. Start.blocks = <<>> /\ Start.op # "loop"
  BY DEF Start, At
<1>4. \A i \in 1..1 : i = 1
  OBVIOUS
<1>5. Shapes
  BY <1>2, <1>3, <1>4, EmptyNested, BareShape DEF Shapes, PointOf
<1>6. QED
  BY <1>5, TInvInit DEF ShapesInv

LEMMA ShapesStep == ShapesInv /\ [Next]_vars => ShapesInv'
<1>1. ShapesInv /\ [Next]_vars => TInv'
  BY TInvStep DEF ShapesInv
<1>2. ShapesInv /\ UNCHANGED vars => Shapes'
  BY DEF ShapesInv, Shapes, PointOf, vars
<1>3. ShapesInv /\ Next => Shapes'
  BY OpenBlockShapes, DeferShapes, EndBlockShapes, RetShapes, LoopTestShapes, EscapeShapes,
     EnterShapes, TailCallShapes, PropagateShapes, RuntimeErrorShapes, ReturnShapes, DrainShapes
     DEF Next
<1>4. QED
  BY <1>1, <1>2, <1>3 DEF ShapesInv

(***************************************************************************)
(* The blocks of a frame that has not strayed and the marks on its defer   *)
(* stack go together in every reachable state.                             *)
(***************************************************************************)
THEOREM VmShapes == Spec => []ShapesInv
BY InitShapes, ShapesStep, PTL DEF Spec

(***************************************************************************)
(* No entry waits for a block that control has left, in a frame that no    *)
(* brk or cnt out of an inner scope and no ignored error put out of step.  *)
(***************************************************************************)
THEOREM VmDrainedWithBlock == Spec => []DrainedWithBlock
<1>1. ASSUME ShapesInv PROVE DrainedWithBlock
  <2>1. TInv /\ Shapes /\ frames \in Seq(Frames) /\ pc \in Points
    BY <1>1 DEF ShapesInv, TInv, TypeOK
  <2>2. DOMAIN frames = 1..Len(frames) /\ \A i \in 1..Len(frames) : frames[i] \in Frames
    BY <2>1
  <2> SUFFICES ASSUME NEW i \in 1..Len(frames), NEW k \in DOMAIN frames[i].defers, ~frames[i].strayed
               PROVE  frames[i].defers[k].nest <= Len(Around(i))
    BY <2>2 DEF DrainedWithBlock
  <2>3. frames[i].defers \in Seq(Entries) /\ frames[i].ip \in Points
    BY <2>2 DEF Frames
  <2>4. k \in 1..Len(frames[i].defers)
    BY <2>3
  <2>5. PointOf(i) \in Points /\ Around(i) = PointOf(i).blocks
    BY <2>1, <2>3 DEF PointOf, Around
  <2>6. Shape(frames[i].hasDefer, frames[i].defers, PointOf(i))
    BY <2>1 DEF Shapes
  <2>7. QED
    BY <2>3, <2>4, <2>5, <2>6, ShapeDrained
<1>2. QED
  BY <1>1, VmShapes, PTL

=============================================================================
