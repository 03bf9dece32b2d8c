--------------------------- MODULE ChildRunProofs ---------------------------
(***************************************************************************)
(* What `run` and its variants guarantee about the child and its output,   *)
(* for every cap, every pipe size, every stdin text and every amount the   *)
(* child writes.                                                           *)
(***************************************************************************)
EXTENDS ChildRun, TLAPS

\* Which answers, children and readers each stage of the call knows.
StageInv ==
  /\ caller = "spawn" => child = "none"
  /\ caller \in {"feed", "scope", "kill", "wait"} => child \in {"running", "exited"}
  /\ caller = "returned" => child \in {"none", "reaped", "gone"}
  /\ caller \in {"spawn", "feed"} => \A s \in Streams : reader[s] = "idle"
  /\ answer = "none" <=> caller \in {"spawn", "feed", "scope"}
  /\ answer = "ok" => \A s \in Streams : reader[s] = "eof"

\* Every unit that the child has written is captured or still in the pipe until
\* the cap is hit, and a reader has seen the end only of an empty closed pipe.
\* Only a kill closes a stream that the child had not finished.
FlowInv ==
  \A s \in Streams :
    /\ reader[s] # "over" => captured[s] + pipe[s] = wrote[s]
    /\ reader[s] = "eof" => pipe[s] = 0 /\ ~open[s]
    /\ ~open[s] => left[s] = 0 \/ answer = "err"

IInv == TypeOK /\ StageInv /\ FlowInv

-----------------------------------------------------------------------------
LEMMA InitInv == Init => IInv
<1> SUFFICES ASSUME Init PROVE IInv
  OBVIOUS
<1>1. TypeOK
  <2>1. 0 \in 0..PipeCap /\ 0 \in 0..OutputCap
    BY ChildRunAssumption
  <2>2. text \in Nat /\ left \in [Streams -> Nat]
    BY ChildRunAssumption DEF Init
  <2>3. stdin \in [units : 0..PipeCap, open : BOOLEAN]
    BY <2>1 DEF Init
  <2>4. pipe \in [Streams -> 0..PipeCap] /\ captured \in [Streams -> 0..OutputCap]
    BY <2>1 DEF Init
  <2>5. QED
    BY <2>2, <2>3, <2>4 DEF Init, TypeOK
<1>2. StageInv /\ FlowInv
  BY DEF Init, StageInv, FlowInv
<1>3. QED
  BY <1>1, <1>2 DEF IInv

LEMMA CallerInv == IInv /\ CallerStep => IInv'
<1> SUFFICES ASSUME IInv, CallerStep PROVE IInv'
  OBVIOUS
<1> USE DEF IInv, TypeOK, StageInv, FlowInv
<1>1. CASE Spawn
  BY <1>1 DEF Spawn
<1>2. CASE SpawnFails
  BY <1>2 DEF SpawnFails
<1>3. CASE Feed
  <2>1. text' \in Nat /\ stdin' \in [units : 0..PipeCap, open : BOOLEAN]
    BY <1>3, ChildRunAssumption DEF Feed
  <2>2. QED
    BY <1>3, <2>1 DEF Feed
<1>4. CASE FeedFails
  BY <1>4 DEF FeedFails
<1>5. CASE CloseStdin
  BY <1>5 DEF CloseStdin
<1>6. CASE Join
  BY <1>6 DEF Join
<1>7. CASE Kill
  BY <1>7 DEF Kill
<1>8. CASE Wait
  BY <1>8 DEF Wait
<1>9. CASE WaitFails
  BY <1>9 DEF WaitFails
<1>10. QED
  BY <1>1, <1>2, <1>3, <1>4, <1>5, <1>6, <1>7, <1>8, <1>9 DEF CallerStep

LEMMA ReaderInv ==
  ASSUME IInv, NEW s \in Streams, ReaderStep(s) \/ ReadFails(s)
  PROVE  IInv'
<1> USE DEF IInv, TypeOK, StageInv, FlowInv, childVars
<1>1. CASE Read(s)
  <2>1. PICK n \in 1..pipe[s] :
          /\ pipe' = [pipe EXCEPT ![s] = @ - n]
          /\ IF captured[s] + n > OutputCap
             THEN reader' = [reader EXCEPT ![s] = "over"] /\ UNCHANGED captured
             ELSE captured' = [captured EXCEPT ![s] = @ + n] /\ UNCHANGED reader
    BY <1>1 DEF Read
  <2>2. n \in Nat /\ n >= 1 /\ n <= pipe[s] /\ pipe[s] \in Nat /\ pipe[s] <= PipeCap
    BY ChildRunAssumption
  <2>3. /\ UNCHANGED <<caller, answer, text, stdin, child, reads, left, open, wrote>>
        /\ reader[s] = "reading"
    BY <1>1 DEF Read
  <2>4. TypeOK'
    <3>1. pipe[s] - n \in 0..PipeCap
      BY <2>2, ChildRunAssumption
    <3>2. pipe' \in [Streams -> 0..PipeCap]
      BY <2>1, <3>1
    <3>3. captured' \in [Streams -> 0..OutputCap]
      <4>1. CASE captured[s] + n > OutputCap
        BY <2>1, <4>1
      <4>2. CASE ~(captured[s] + n > OutputCap)
        <5>1. captured[s] + n \in 0..OutputCap
          BY <2>2, <4>2, ChildRunAssumption
        <5>. QED
          BY <2>1, <4>2, <5>1
      <4>. QED
        BY <4>1, <4>2
    <3>4. reader' \in [Streams -> {"idle", "reading", "eof", "over", "failed"}]
      BY <2>1
    <3>. QED
      BY <2>3, <3>2, <3>3, <3>4
  <2>5. StageInv'
    BY <2>1, <2>3
  <2>6. FlowInv'
    BY <2>1, <2>2, <2>3, ChildRunAssumption
  <2>7. QED
    BY <2>4, <2>5, <2>6
<1>2. CASE ReadEof(s)
  BY <1>2 DEF ReadEof
<1>3. CASE ReadFails(s)
  BY <1>3 DEF ReadFails
<1>4. QED
  BY <1>1, <1>2, <1>3 DEF ReaderStep

LEMMA ChildInv ==
  ASSUME IInv, ChildStep \/ \E s \in Streams : ChildCloses(s)
  PROVE  IInv'
<1> USE DEF IInv, TypeOK, StageInv, FlowInv, childVars
<1>1. ASSUME NEW s \in Streams, ChildWrites(s)
      PROVE  IInv'
  <2>1. /\ left[s] \in Nat /\ left[s] > 0 /\ pipe[s] \in Nat /\ pipe[s] < PipeCap
        /\ wrote[s] \in Nat /\ open[s] /\ PipeCap \in Nat
    BY <1>1, ChildRunAssumption DEF ChildWrites
  <2>2. TypeOK'
    BY <1>1, <2>1 DEF ChildWrites
  <2>3. StageInv'
    BY <1>1 DEF ChildWrites
  <2>4. FlowInv'
    BY <1>1, <2>1, ChildRunAssumption DEF ChildWrites
  <2>5. QED
    BY <2>2, <2>3, <2>4
<1>2. CASE ChildReads
  <2>1. stdin' \in [units : 0..PipeCap, open : BOOLEAN]
    BY <1>2, ChildRunAssumption DEF ChildReads
  <2>2. QED
    BY <1>2, <2>1 DEF ChildReads
<1>3. ASSUME NEW s \in Streams, ChildCloses(s)
      PROVE  IInv'
  BY <1>3 DEF ChildCloses
<1>4. CASE ChildExits
  BY <1>4 DEF ChildExits
<1>5. QED
  BY <1>1, <1>2, <1>3, <1>4 DEF ChildStep

LEMMA NextInv == IInv /\ [Next]_vars => IInv'
<1>1. IInv /\ UNCHANGED vars => IInv'
  BY DEF vars, IInv, TypeOK, StageInv, FlowInv
<1>2. QED
  BY <1>1, CallerInv, ReaderInv, ChildInv DEF Next

THEOREM Invariance == Spec => []IInv
BY InitInv, NextInv, PTL DEF Spec

\* Every state has the types the module declares; in particular neither reader
\* ever holds more than RUN_OUTPUT_CAP.
THEOREM TypeCorrect == Spec => []TypeOK
BY Invariance, PTL DEF IInv

\* An Ok result of run and run2 is complete on both streams and within the cap,
\* for every interleaving of the child with the two read_capped threads.
THEOREM Complete == Spec => []NeverTruncated
<1>1. IInv => NeverTruncated
  BY ChildRunAssumption DEF IInv, TypeOK, StageInv, FlowInv, NeverTruncated
<1>2. QED
  BY <1>1, Invariance, PTL

\* Every path out of run and run2 has waited for the child it spawned, or found
\* that the system had reaped it.
THEOREM Reaped == Spec => []ChildReaped
<1>1. IInv => ChildReaped
  BY DEF IInv, StageInv, ChildReaped
<1>2. QED
  BY <1>1, Invariance, PTL
=============================================================================
