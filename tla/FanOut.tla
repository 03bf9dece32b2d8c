------------------------------- MODULE FanOut -------------------------------
(***************************************************************************)
(* The two scoped-thread fan-outs of the runtime (src/interpreter/mod.rs): *)
(* `par-map fn xs [n]` (par_map_run) gives each of at most n threads one   *)
(* contiguous chunk of the list and lets the first runtime error cancel    *)
(* what has not started, through a Relaxed flag; `get-many urls`           *)
(* (get_many_fetch) gives every URL a thread of its own, in waves of at    *)
(* most GET_MANY_MAX_CONCURRENCY.  Both join in list order and write the   *)
(* results of chunk k at its base.                                         *)
(*                                                                         *)
(* A worker is identified with the number of its chunk, an item with its   *)
(* position in the list.  What a call computes is abstracted to how it     *)
(* ends: a value, an Err value, a runtime error, a panic.                  *)
(***************************************************************************)
EXTENDS Naturals, Sequences, FiniteSets

CONSTANTS
  MaxItems,    \* bound: the longest list a call is given
  Requests,    \* third arguments of par-map; 0 also stands for none
  EnvSetting,  \* ILO_PAR_MAP_CONCURRENCY, 0 when unset or not a number
  Cpus,        \* available_parallelism
  MaxFetches   \* GET_MANY_MAX_CONCURRENCY

ASSUME FanOutAssumption ==
  /\ MaxItems \in Nat
  /\ Requests \subseteq Nat
  /\ EnvSetting \in Nat
  /\ Cpus \in Nat \ {0}
  /\ MaxFetches \in Nat \ {0}

VARIABLES
  op,         \* "par_map" or "get_many"
  size,       \* the length of the list
  threads,    \* n_threads of par_map_run, 1 (and unused) for get-many
  caller,     \* "idle", "spawn", "join", "unwind", "returned" or "panicked"
  spawned,    \* chunks whose thread has been started
  joined,     \* chunks whose thread has been joined
  worker,     \* each chunk's thread: where it is, whether it has seen the
              \* flag set, and its `local` results
  cancelled,  \* the shared AtomicBool
  results,    \* the vector the caller fills
  called      \* history: the items whose call has ended

vars == <<op, size, threads, caller, spawned, joined, worker, cancelled,
          results, called>>

Items == 1..MaxItems

Nil == <<"nil", 0>>
Cancelled == <<"cancelled", 0>>
Panicked == <<"panicked", 0>>

Delivered == {"ok", "ok_err", "err"} \X Items
Cell == Delivered \cup {Nil, Cancelled, Panicked}

Asleep == [pc |-> "unborn", saw |-> FALSE, local |-> <<>>]

(***************************************************************************)
(* The work each thread is given.                                          *)
(***************************************************************************)
DefaultConcurrency == IF EnvSetting > 0 THEN EnvSetting ELSE Cpus

Concurrency(n) == IF n = 0 THEN DefaultConcurrency ELSE n

DivCeil(a, b) == (a + b - 1) \div b

\* Mutant: the division rounds down.
ChunkSizeFloor == IF op = "get_many" \/ size < threads THEN 1 ELSE size \div threads

ChunkSize == IF op = "get_many" THEN 1 ELSE DivCeil(size, threads)

Base(k) == (k - 1) * ChunkSize

Length(k) == IF Base(k) + ChunkSize <= size THEN ChunkSize ELSE size - Base(k)

Chunk(k) == Base(k) + 1 .. Base(k) + Length(k)

\* n chunks hold the whole list: items.chunks(chunk_size) has no more.
Exhausted(n) == n * ChunkSize >= size

WaveSize == IF op = "get_many" THEN MaxFetches ELSE size

(***************************************************************************)
(* The caller.                                                             *)
(***************************************************************************)
Init ==
  /\ op = "par_map"
  /\ size = 0
  /\ threads = 1
  /\ caller = "idle"
  /\ spawned = 0
  /\ joined = 0
  /\ worker = [k \in Items |-> Asleep]
  /\ cancelled = FALSE
  /\ results = <<>>
  /\ called = {}

Call(f, n) ==
  /\ caller = "idle"
  /\ op' = f
  /\ size' = n
  /\ IF f = "par_map"
     THEN \E r \in Requests : threads' = Concurrency(r)
     ELSE threads' = 1
  /\ caller' = IF n = 0 THEN "returned" ELSE "spawn"
  /\ results' = [i \in 1..n |-> Nil]
  /\ UNCHANGED <<spawned, joined, worker, cancelled, called>>

Spawn ==
  /\ caller = "spawn"
  /\ spawned' = spawned + 1
  /\ worker' = [worker EXCEPT ![spawned + 1].pc =
                  IF op = "par_map" THEN "check" ELSE "run"]
  /\ caller' = IF Exhausted(spawned + 1) \/ spawned + 1 = joined + WaveSize
               THEN "join" ELSE "spawn"
  /\ UNCHANGED <<op, size, threads, joined, cancelled, results, called>>

\* The OS refuses a thread: Scope::spawn panics, and the scope waits for the
\* threads it has started before the panic leaves it.
SpawnFails ==
  /\ caller = "spawn"
  /\ caller' = "unwind"
  /\ UNCHANGED <<op, size, threads, spawned, joined, worker, cancelled,
                 results, called>>

Finished(k) == worker[k].pc \in {"done", "panicked"}

ScopeUnwinds ==
  /\ caller = "unwind"
  /\ \A k \in 1..spawned : Finished(k)
  /\ caller' = "panicked"
  /\ UNCHANGED <<op, size, threads, spawned, joined, worker, cancelled,
                 results, called>>

\* Mutant: the join does not return from a panicked thread.
JoinWaitsForValue ==
  LET k == joined + 1 IN
  /\ caller = "join"
  /\ worker[k].pc = "done"
  /\ joined' = k
  /\ results' = [i \in 1..size |->
                   IF i \in Chunk(k) THEN worker[k].local[i - Base(k)]
                   ELSE results[i]]
  /\ caller' = IF joined' < spawned THEN "join"
               ELSE IF Exhausted(spawned) THEN "returned" ELSE "spawn"
  /\ UNCHANGED <<op, size, threads, spawned, worker, cancelled, called>>

\* Mutant: results are written at the joined count, not at the base.
JoinUnbased ==
  LET k == joined + 1 IN
  /\ caller = "join"
  /\ Finished(k)
  /\ joined' = k
  /\ results' = [i \in 1..size |->
                   IF i > Length(k) THEN results[i]
                   ELSE IF worker[k].pc = "panicked" THEN Panicked
                   ELSE worker[k].local[i]]
  /\ caller' = IF joined' < spawned THEN "join"
               ELSE IF Exhausted(spawned) THEN "returned" ELSE "spawn"
  /\ UNCHANGED <<op, size, threads, spawned, worker, cancelled, called>>

Join ==
  LET k == joined + 1 IN
  /\ caller = "join"
  /\ Finished(k)
  /\ joined' = k
  /\ results' = [i \in 1..size |->
                   IF i \notin Chunk(k) THEN results[i]
                   ELSE IF worker[k].pc = "panicked" THEN Panicked
                   ELSE worker[k].local[i - Base(k)]]
  /\ caller' = IF joined' < spawned THEN "join"
               ELSE IF Exhausted(spawned) THEN "returned" ELSE "spawn"
  /\ UNCHANGED <<op, size, threads, spawned, worker, cancelled, called>>

(***************************************************************************)
(* The worker of chunk k.  A Relaxed load may miss another thread's store, *)
(* but never one that this thread made or has already observed.            *)
(***************************************************************************)
Loads(k) == IF worker[k].saw THEN {TRUE} ELSE {FALSE, cancelled}

Pending(k) == Base(k) + Len(worker[k].local) + 1

Push(k, cell, saw) ==
  worker' = [worker EXCEPT ![k] = [pc |-> "check", saw |-> saw,
                                   local |-> Append(@.local, cell)]]

CallerWaits == UNCHANGED <<op, size, threads, caller, spawned, joined, results>>

CheckFlag(k) ==
  /\ worker[k].pc = "check"
  /\ Len(worker[k].local) < Length(k)
  /\ \E seen \in Loads(k) :
       \/ /\ seen
          /\ Push(k, Cancelled, TRUE)
       \/ /\ ~seen
          /\ worker' = [worker EXCEPT ![k].pc = "run"]
  /\ CallerWaits
  /\ UNCHANGED <<cancelled, called>>

\* The call returns: a value, or an Err value, which is wrapped in Ok.
CallReturns(k) ==
  /\ worker[k].pc = "run"
  /\ \E kind \in {"ok", "ok_err"} : Push(k, <<kind, Pending(k)>>, worker[k].saw)
  /\ called' = called \cup {Pending(k)}
  /\ CallerWaits
  /\ UNCHANGED cancelled

\* Mutant: the worker does not stop at its error.
CallFailsQuietly(k) ==
  /\ worker[k].pc = "run"
  /\ Push(k, <<"err", Pending(k)>>, worker[k].saw)
  /\ called' = called \cup {Pending(k)}
  /\ CallerWaits
  /\ UNCHANGED cancelled

\* The call raises a RuntimeError, or the fetch fails.
CallFails(k) ==
  /\ worker[k].pc = "run"
  /\ Push(k, <<"err", Pending(k)>>, op = "par_map")
  /\ called' = called \cup {Pending(k)}
  /\ cancelled' = (cancelled \/ op = "par_map")
  /\ CallerWaits

\* Mutant: a panic sets the flag.
CallPanicsCancelling(k) ==
  /\ worker[k].pc = "run"
  /\ worker' = [worker EXCEPT ![k].pc = "panicked", ![k].local = <<>>]
  /\ called' = called \cup {Pending(k)}
  /\ cancelled' = (cancelled \/ op = "par_map")
  /\ CallerWaits

\* The call panics: the thread dies, and what it had computed is lost.
CallPanics(k) ==
  /\ worker[k].pc = "run"
  /\ worker' = [worker EXCEPT ![k].pc = "panicked", ![k].local = <<>>]
  /\ called' = called \cup {Pending(k)}
  /\ CallerWaits
  /\ UNCHANGED cancelled

WorkerEnds(k) ==
  /\ worker[k].pc = "check"
  /\ Len(worker[k].local) = Length(k)
  /\ worker' = [worker EXCEPT ![k].pc = "done"]
  /\ CallerWaits
  /\ UNCHANGED <<cancelled, called>>

(***************************************************************************)
(* The specification.                                                      *)
(***************************************************************************)
CallerStep == Spawn \/ SpawnFails \/ ScopeUnwinds \/ Join

WorkerStep(k) ==
  \/ CheckFlag(k) \/ CallReturns(k) \/ CallFails(k) \/ CallPanics(k)
  \/ WorkerEnds(k)

Next ==
  \/ \E f \in {"par_map", "get_many"}, n \in 0..MaxItems : Call(f, n)
  \/ CallerStep
  \/ \E k \in Items : WorkerStep(k)

Fairness == WF_vars(CallerStep) /\ \A k \in Items : WF_vars(WorkerStep(k))

Spec == Init /\ [][Next]_vars /\ Fairness

(***************************************************************************)
(* Properties.                                                             *)
(***************************************************************************)
TypeOK ==
  /\ op \in {"par_map", "get_many"}
  /\ size \in 0..MaxItems
  /\ threads \in Nat \ {0}
  /\ caller \in {"idle", "spawn", "join", "unwind", "returned", "panicked"}
  /\ spawned \in 0..MaxItems
  /\ joined \in 0..spawned
  /\ worker \in [Items -> [pc : {"unborn", "check", "run", "done", "panicked"},
                           saw : BOOLEAN, local : Seq(Cell)]]
  /\ cancelled \in BOOLEAN
  /\ results \in Seq(Cell) /\ Len(results) = size
  /\ called \subseteq Items

\* "Order-preserving": whatever order the threads run and end in, a result is
\* found at the position of the item it was computed from, and the list that
\* is returned has no position left at the Nil it was filled with.
OrderPreserved ==
  /\ \A i \in 1..Len(results) : results[i] \in Delivered => results[i][2] = i
  /\ caller = "returned" => \A i \in 1..size : results[i] # Nil

\* The caps that the two builtins promise: par-map never has more threads
\* than the concurrency it was asked for (or the default), get-many never
\* more than GET_MANY_MAX_CONCURRENCY.
ThreadsBounded ==
  Cardinality({k \in 1..spawned : ~Finished(k)}) <=
    IF op = "par_map" THEN threads ELSE MaxFetches

\* The documented cancellation of par_map_run ("subsequent items inside the same
\* worker are skipped"): a chunk whose thread did not panic delivers results up to
\* the first error or the first time the flag was seen, and only cancellation
\* sentinels after it, so no call is started once the worker knows. Other texts of
\* the repository promise the opposite: see NoShortCircuit.
ChunkStopsAtError ==
  op = "par_map" =>
    \A k \in 1..joined : \A i, j \in Chunk(k) :
      i < j /\ results[i] \in {Cancelled} \cup {<<"err", i>>} => results[j] = Cancelled

\* No item is skipped without a reason the returned list shows: a par-map item
\* the function was never called on is a cancellation, and then another
\* position holds the error that caused it, or it lies in a chunk whose thread
\* panicked; get-many fetches every URL.
SkipsExplained ==
  caller = "returned" =>
    \A i \in 1..size \ called :
      /\ op = "par_map"
      /\ \/ results[i] = Panicked
         \/ /\ results[i] = Cancelled
            /\ \E j \in 1..size : results[j] = <<"err", j>>

\* What the user documentation says of par-map, "per-item errors surface as Err in
\* the list without short-circuiting": when the list is returned the function has
\* been called on every item, those of a panicked thread apart. The code cancels.
NoShortCircuit ==
  op = "par_map" /\ caller = "returned" =>
    \A i \in 1..size : i \in called \/ results[i] = Panicked

\* If every call ends, the fan-out ends: the joins never wait on a thread that
\* will not finish, whatever panics or is cancelled.
CallEnds == caller = "spawn" ~> caller \in {"returned", "panicked"}
=============================================================================
