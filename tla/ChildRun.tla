------------------------------ MODULE ChildRun ------------------------------
(***************************************************************************)
(* The process builtins `run` and `run2`, with and without a stdin text    *)
(* (run_spawn_inner, run_spawn_with_stdin and their structured twins in    *)
(* src/interpreter/mod.rs): spawn a child with piped output, write the     *)
(* stdin text and close the pipe, drain stdout and stderr in two scoped    *)
(* threads that each stop at RUN_OUTPUT_CAP, join both, then kill and wait *)
(* when a capture failed, or wait and return what was captured.            *)
(*                                                                         *)
(* The other side of the pipes is the operating system and the child: a    *)
(* pipe holds PipeCap units and blocks its writer when it is full; the     *)
(* child writes what it has to write in any interleaving, may close a      *)
(* stream early, and exits when it is done.  Bytes are counted in units,   *)
(* and their decoding is left out.                                         *)
(***************************************************************************)
EXTENDS Naturals

CONSTANTS
  OutputCap,  \* RUN_OUTPUT_CAP
  PipeCap,    \* what a pipe of the OS buffers
  Outputs,    \* what a child may write on one stream
  Inputs      \* the lengths of the stdin text, 0 for none

ASSUME ChildRunAssumption ==
  /\ OutputCap \in Nat
  /\ PipeCap \in Nat \ {0}
  /\ Outputs \subseteq Nat
  /\ Inputs \subseteq Nat

VARIABLES
  caller,   \* "spawn", "feed", "scope", "kill", "wait" or "returned"
  answer,   \* "none", "ok" or "err"
  text,     \* stdin text still to be written
  stdin,    \* units in the stdin pipe, and whether the caller holds it open
  child,    \* "none", "running", "exited", "reaped", or "gone": reaped, but not
            \* by this call
  reads,    \* does the child read its stdin to the end?
  left,     \* what the child has still to write on each stream
  pipe,     \* units in each output pipe
  open,     \* the child's end of each output pipe
  reader,   \* each reader thread: "idle", "reading", "eof", "over" or "failed"
  captured, \* buf of each reader thread
  wrote     \* history: what the child has written on each stream

childVars == <<child, reads, left, open, wrote>>
vars == <<caller, answer, text, stdin, child, reads, left, pipe, open, reader,
          captured, wrote>>

Streams == {"stdout", "stderr"}

Init ==
  /\ caller = "spawn"
  /\ answer = "none"
  /\ text \in Inputs
  /\ stdin = [units |-> 0, open |-> TRUE]
  /\ child = "none"
  /\ reads \in BOOLEAN
  /\ left \in [Streams -> Outputs]
  /\ pipe = [s \in Streams |-> 0]
  /\ open = [s \in Streams |-> TRUE]
  /\ reader = [s \in Streams |-> "idle"]
  /\ captured = [s \in Streams |-> 0]
  /\ wrote = [s \in Streams |-> 0]

(***************************************************************************)
(* The caller.                                                             *)
(***************************************************************************)
Spawn ==
  /\ caller = "spawn"
  /\ child' = "running"
  /\ caller' = "feed"
  /\ UNCHANGED <<answer, text, stdin, reads, left, pipe, open, reader, captured, wrote>>

\* Command::spawn fails: no such program, permission denied.
SpawnFails ==
  /\ caller = "spawn"
  /\ answer' = "err"
  /\ caller' = "returned"
  /\ UNCHANGED <<text, stdin, child, reads, left, pipe, open, reader, captured, wrote>>

\* write_all blocks while the pipe is full.
Feed ==
  /\ caller = "feed"
  /\ text > 0
  /\ child = "running"
  /\ stdin.units < PipeCap
  /\ text' = text - 1
  /\ stdin' = [stdin EXCEPT !.units = @ + 1]
  /\ UNCHANGED <<caller, answer, child, reads, left, pipe, open, reader, captured, wrote>>

\* EPIPE: nobody reads the stdin pipe any more.
FeedFails ==
  /\ caller = "feed"
  /\ text > 0
  /\ child # "running"
  /\ answer' = "err"
  /\ caller' = "kill"
  /\ UNCHANGED <<text, stdin, child, reads, left, pipe, open, reader, captured, wrote>>

\* Dropping stdin_pipe closes it; the scope starts both readers.
CloseStdin ==
  /\ caller = "feed"
  /\ text = 0
  /\ stdin' = [stdin EXCEPT !.open = FALSE]
  /\ reader' = [s \in Streams |-> "reading"]
  /\ caller' = "scope"
  /\ UNCHANGED <<answer, text, child, reads, left, pipe, open, captured, wrote>>

\* Both joins, in either order of completion. A capture over the cap and one whose
\* read failed are both an Err of read_capped.
Join ==
  /\ caller = "scope"
  /\ \A s \in Streams : reader[s] \in {"eof", "over", "failed"}
  /\ IF \E s \in Streams : reader[s] # "eof"
     THEN answer' = "err" /\ caller' = "kill"
     ELSE answer' = "ok" /\ caller' = "wait"
  /\ UNCHANGED <<text, stdin, child, reads, left, pipe, open, reader, captured, wrote>>

\* Mutant: the killed child is not waited for.
KillOnly ==
  /\ caller = "kill"
  /\ child' = "exited"
  /\ open' = [s \in Streams |-> FALSE]
  /\ caller' = "returned"
  /\ UNCHANGED <<answer, text, stdin, reads, left, pipe, reader, captured, wrote>>

Kill ==
  /\ caller = "kill"
  /\ child' = "exited"
  /\ open' = [s \in Streams |-> FALSE]
  /\ caller' = "wait"
  /\ UNCHANGED <<answer, text, stdin, reads, left, pipe, reader, captured, wrote>>

Wait ==
  /\ caller = "wait"
  /\ child = "exited"
  /\ child' = "reaped"
  /\ caller' = "returned"
  /\ UNCHANGED <<answer, text, stdin, reads, left, pipe, open, reader, captured, wrote>>

\* "wait failed": the child has exited and the system knows it no more (ECHILD),
\* because ilo was started with SIGCHLD ignored. After a kill the Err of the
\* capture is kept and the one of wait dropped.
WaitFails ==
  /\ caller = "wait"
  /\ child = "exited"
  /\ child' = "gone"
  /\ answer' = "err"
  /\ caller' = "returned"
  /\ UNCHANGED <<text, stdin, reads, left, pipe, open, reader, captured, wrote>>

\* Mutant: what exceeds the cap is dropped and the capture goes on.
ReadDroppingExcess(s) ==
  /\ reader[s] = "reading"
  /\ \E n \in 1..pipe[s] :
       /\ pipe' = [pipe EXCEPT ![s] = @ - n]
       /\ IF captured[s] + n > OutputCap
          THEN captured' = [captured EXCEPT ![s] = OutputCap]
          ELSE captured' = [captured EXCEPT ![s] = @ + n]
  /\ UNCHANGED <<caller, answer, text, stdin, childVars, reader>>

\* Mutant: stderr is read after stdout has ended.
ReadInTurn(s) ==
  /\ reader[s] = "reading"
  /\ s = "stderr" => reader["stdout"] # "reading"
  /\ \E n \in 1..pipe[s] :
       /\ pipe' = [pipe EXCEPT ![s] = @ - n]
       /\ IF captured[s] + n > OutputCap
          THEN reader' = [reader EXCEPT ![s] = "over"] /\ UNCHANGED captured
          ELSE captured' = [captured EXCEPT ![s] = @ + n] /\ UNCHANGED reader
  /\ UNCHANGED <<caller, answer, text, stdin, childVars>>

(***************************************************************************)
(* read_capped, in the reader thread of stream s: a read takes any part of *)
(* what the pipe holds; one that would exceed the cap ends the capture.    *)
(* The pipe stays open after that: it belongs to the caller's frame.       *)
(***************************************************************************)
Read(s) ==
  /\ reader[s] = "reading"
  /\ \E n \in 1..pipe[s] :
       /\ pipe' = [pipe EXCEPT ![s] = @ - n]
       /\ IF captured[s] + n > OutputCap
          THEN reader' = [reader EXCEPT ![s] = "over"] /\ UNCHANGED captured
          ELSE captured' = [captured EXCEPT ![s] = @ + n] /\ UNCHANGED reader
  /\ UNCHANGED <<caller, answer, text, stdin, childVars>>

ReadEof(s) ==
  /\ reader[s] = "reading"
  /\ pipe[s] = 0
  /\ ~open[s]
  /\ reader' = [reader EXCEPT ![s] = "eof"]
  /\ UNCHANGED <<caller, answer, text, stdin, childVars, pipe, captured>>

\* The read itself fails: the capture ends with what it had, which is dropped.
ReadFails(s) ==
  /\ reader[s] = "reading"
  /\ reader' = [reader EXCEPT ![s] = "failed"]
  /\ UNCHANGED <<caller, answer, text, stdin, childVars, pipe, captured>>

(***************************************************************************)
(* The child.                                                              *)
(***************************************************************************)
ChildWrites(s) ==
  /\ child = "running"
  /\ open[s]
  /\ left[s] > 0
  /\ pipe[s] < PipeCap
  /\ left' = [left EXCEPT ![s] = @ - 1]
  /\ pipe' = [pipe EXCEPT ![s] = @ + 1]
  /\ wrote' = [wrote EXCEPT ![s] = @ + 1]
  /\ UNCHANGED <<caller, answer, text, stdin, child, reads, open, reader, captured>>

ChildReads ==
  /\ child = "running"
  /\ reads
  /\ stdin.units > 0
  /\ stdin' = [stdin EXCEPT !.units = @ - 1]
  /\ UNCHANGED <<caller, answer, text, childVars, pipe, reader, captured>>

ChildCloses(s) ==
  /\ child = "running"
  /\ open[s]
  /\ left[s] = 0
  /\ open' = [open EXCEPT ![s] = FALSE]
  /\ UNCHANGED <<caller, answer, text, stdin, child, reads, left, pipe, reader,
                 captured, wrote>>

ChildExits ==
  /\ child = "running"
  /\ \A s \in Streams : left[s] = 0
  /\ reads => stdin.units = 0 /\ ~stdin.open
  /\ child' = "exited"
  /\ open' = [s \in Streams |-> FALSE]
  /\ UNCHANGED <<caller, answer, text, stdin, reads, left, pipe, reader, captured, wrote>>

(***************************************************************************)
(* The specification: no thread stops by itself, and the child reads,      *)
(* writes and exits as long as it is not blocked, but need not close early *)
(* and no read has to fail.                                                *)
(***************************************************************************)
CallerStep ==
  \/ Spawn \/ SpawnFails \/ Feed \/ FeedFails \/ CloseStdin \/ Join \/ Kill
  \/ Wait \/ WaitFails

ReaderStep(s) == Read(s) \/ ReadEof(s)

ChildStep == ChildReads \/ ChildExits \/ \E s \in Streams : ChildWrites(s)

Next ==
  \/ CallerStep
  \/ ChildStep
  \/ \E s \in Streams : ReaderStep(s) \/ ReadFails(s) \/ ChildCloses(s)

Fairness ==
  /\ WF_vars(CallerStep)
  /\ WF_vars(ChildStep)
  /\ \A s \in Streams : WF_vars(ReaderStep(s))

Spec == Init /\ [][Next]_vars /\ Fairness

(***************************************************************************)
(* Properties.                                                             *)
(***************************************************************************)
TypeOK ==
  /\ caller \in {"spawn", "feed", "scope", "kill", "wait", "returned"}
  /\ answer \in {"none", "ok", "err"}
  /\ text \in Nat
  /\ stdin \in [units : 0..PipeCap, open : BOOLEAN]
  /\ child \in {"none", "running", "exited", "reaped", "gone"}
  /\ reads \in BOOLEAN
  /\ left \in [Streams -> Nat]
  /\ pipe \in [Streams -> 0..PipeCap]
  /\ open \in [Streams -> BOOLEAN]
  /\ reader \in [Streams -> {"idle", "reading", "eof", "over", "failed"}]
  /\ captured \in [Streams -> 0..OutputCap]
  /\ wrote \in [Streams -> Nat]

\* "A typed Err rather than partial capture": an Ok result holds, for both
\* streams, every byte the child has written, whatever was still in the pipe
\* when it exited, and a stream over the cap is never an Ok.
NeverTruncated ==
  caller = "returned" /\ answer = "ok" =>
    \A s \in Streams : captured[s] = wrote[s] /\ left[s] = 0 /\ wrote[s] <= OutputCap

\* No child outlives the call and none is left a zombie: when the builtin
\* returns, the child it started has been waited for, on every error path too; if
\* that wait failed, the system had already done away with the child.
ChildReaped == caller = "returned" => child \in {"none", "reaped", "gone"}

\* What the code reads the streams in two threads for: a child whose streams
\* both stay within the cap, and whose stdin text fits in the pipe, never
\* blocks for ever on one stream while the other is drained. A stream that is no
\* longer read can block it, so this does not speak of reads that fail.
ReturnsWithinCap ==
  (caller = "spawn" /\ text <= PipeCap /\ \A s \in Streams : left[s] <= OutputCap)
    ~> (caller = "returned" \/ \E s \in Streams : reader[s] = "failed")
=============================================================================
