---------------------------- MODULE FanOutProofs ----------------------------
(***************************************************************************)
(* What the two fan-outs guarantee for every list length, every requested  *)
(* concurrency, every number of CPUs and every fetch cap, whatever the     *)
(* order in which the threads run, see the flag, panic and end.            *)
(***************************************************************************)
EXTENDS FanOut, FiniteSetTheorems, TLAPS

\* Where the caller stands, and how far the chunks it has started reach.
CallerInv ==
  /\ caller = "idle" => spawned = 0 /\ size = 0
  /\ caller \in {"spawn", "join", "unwind"} => size > 0
  /\ caller = "spawn" => /\ ~Exhausted(spawned)
                         /\ spawned < joined + WaveSize
  /\ spawned <= joined + WaveSize
  /\ caller = "join" => joined < spawned
  /\ spawned > 0 => (spawned - 1) * ChunkSize < size
  /\ caller = "returned" => joined = spawned /\ Exhausted(spawned)

\* Only started threads have moved, and a joined thread has finished.
ThreadInv ==
  \A k \in Items :
    /\ k > spawned => worker[k] = Asleep
    /\ k <= spawned => worker[k].pc # "unborn"
    /\ k <= joined => Finished(k)

\* What the i-th call of chunk k can leave behind.
Own(k, i) == {<<"ok", Base(k) + i>>, <<"ok_err", Base(k) + i>>, <<"err", Base(k) + i>>}

\* How a thread w of chunk k stands when the calls on `ended` have ended and the
\* flag is `flag`: its results are those of the items the chunk begins with, and
\* knowing of an error it neither calls nor panics.
Sound(k, w, ended, flag) ==
  /\ Len(w.local) <= Length(k)
  /\ w.pc = "run" => Len(w.local) < Length(k) /\ ~w.saw
  /\ w.pc = "done" => Len(w.local) = Length(k)
  /\ w.pc = "panicked" => ~w.saw
  /\ w.pc = "panicked" /\ op = "get_many" => Base(k) + 1 \in ended
  /\ w.saw => flag
  /\ op = "get_many" /\ w.pc = "check" => Len(w.local) = Length(k)
  /\ \A i \in 1..Len(w.local) :
       /\ w.local[i] \in Own(k, i) \cup {Cancelled}
       /\ w.local[i] = Cancelled => op = "par_map"
       /\ w.local[i] # Cancelled => Base(k) + i \in ended
       /\ op = "par_map" /\ w.local[i] \in {<<"err", Base(k) + i>>, Cancelled} =>
            /\ w.saw
            /\ \A j \in i + 1 .. Len(w.local) : w.local[j] = Cancelled

LocalInv == \A k \in 1..spawned : Sound(k, worker[k], called, cancelled)

\* The flag is set by a thread that holds the error that set it.
Holds(k, w) == w.saw /\ \E i \in 1..Len(w.local) : w.local[i] = <<"err", Base(k) + i>>

CauseInv ==
  cancelled => op = "par_map" /\ \E k \in 1..spawned : Holds(k, worker[k])

\* What the join of chunk k writes for item i.
Written(k, i) ==
  IF worker[k].pc = "panicked" THEN Panicked ELSE worker[k].local[i - Base(k)]

\* The positions of the joined chunks are written, the others untouched.
ResultInv ==
  \A i \in 1..size :
    \/ i > joined * ChunkSize /\ results[i] = Nil
    \/ \E k \in 1..joined : i \in Chunk(k) /\ results[i] = Written(k, i)

IInv == /\ TypeOK /\ CallerInv /\ ThreadInv
        /\ LocalInv /\ CauseInv /\ ResultInv

-----------------------------------------------------------------------------
\* What rounding up returns: the least number of b's that reaches a.
LEMMA DivCeilIs ==
  ASSUME NEW a \in Nat \ {0}, NEW b \in Nat \ {0}
  PROVE  /\ DivCeil(a, b) \in Nat \ {0}
         /\ DivCeil(a, b) * b >= a
<1> DEFINE q == (a + b - 1) \div b
           r == (a + b - 1) % b
<1>1. a + b - 1 \in Nat /\ a + b - 1 >= b
  OBVIOUS
<1>2. q \in Nat /\ r \in 0..(b - 1) /\ a + b - 1 = b * q + r
  BY <1>1
<1>3. q # 0
  BY <1>1, <1>2
<1>4. q * b >= a
  BY <1>2
<1>5. QED
  BY <1>2, <1>3, <1>4 DEF DivCeil

LEMMA DivCeilNat ==
  ASSUME NEW a \in Nat, NEW b \in Nat \ {0}
  PROVE  DivCeil(a, b) \in Nat
<1>1. a + b - 1 \in Nat
  OBVIOUS
<1>2. QED
  BY <1>1 DEF DivCeil

\* A chunk is never empty, and par-map's chunks are long enough for its threads
\* to hold the list.
LEMMA ChunkSizeIs ==
  TypeOK => /\ ChunkSize \in Nat
            /\ size > 0 => ChunkSize > 0
            /\ size > 0 /\ op = "par_map" => ChunkSize * threads >= size
<1> SUFFICES ASSUME TypeOK
             PROVE  /\ ChunkSize \in Nat
                    /\ size > 0 => ChunkSize > 0
                    /\ size > 0 /\ op = "par_map" => ChunkSize * threads >= size
  OBVIOUS
<1>1. CASE size > 0
  <2>1. size \in Nat \ {0} /\ threads \in Nat \ {0}
    BY <1>1, FanOutAssumption DEF TypeOK
  <2>2. DivCeil(size, threads) \in Nat \ {0} /\ DivCeil(size, threads) * threads >= size
    BY <2>1, DivCeilIs
  <2>3. QED
    BY <2>2 DEF ChunkSize
<1>2. CASE size = 0
  <2>1. threads \in Nat \ {0}
    BY DEF TypeOK
  <2>2. DivCeil(0, threads) \in Nat
    BY <2>1, DivCeilNat
  <2>3. QED
    BY <1>2, <2>2 DEF ChunkSize
<1>3. size \in Nat
  BY FanOutAssumption DEF TypeOK
<1>4. QED
  BY <1>1, <1>2, <1>3

LEMMA ChunkSizeNext ==
  TypeOK' => ChunkSize' \in Nat /\ (size' > 0 => ChunkSize' > 0)
<1> SUFFICES ASSUME TypeOK'
             PROVE  ChunkSize' \in Nat /\ (size' > 0 => ChunkSize' > 0)
  OBVIOUS
<1>1. size' \in Nat /\ threads' \in Nat \ {0}
  BY FanOutAssumption DEF TypeOK
<1>2. ChunkSize' = IF op' = "get_many" THEN 1 ELSE DivCeil(size', threads')
  BY DEF ChunkSize
<1>3. CASE size' > 0
  <2>1. DivCeil(size', threads') \in Nat \ {0}
    BY <1>1, <1>3, DivCeilIs
  <2>2. QED
    BY <1>2, <2>1
<1>4. CASE size' = 0
  <2>1. DivCeil(0, threads') \in Nat
    BY <1>1, DivCeilNat
  <2>2. QED
    BY <1>2, <1>4, <2>1
<1>5. QED
  BY <1>1, <1>3, <1>4

LEMMA ZeroTimes == \A c \in Nat : 0 * c = 0
OBVIOUS

\* Where the chunk of a started thread lies.
LEMMA ChunkIs ==
  ASSUME TypeOK, CallerInv, NEW k \in 1..spawned
  PROVE  /\ k \in Items
         /\ Base(k) \in Nat
         /\ Length(k) \in Nat \ {0}
         /\ Base(k) + Length(k) <= size
         /\ op = "get_many" => Length(k) = 1
         /\ Length(k) <= ChunkSize
         /\ Base(k) + Length(k) < size => Length(k) = ChunkSize
<1> DEFINE c == ChunkSize
<1>1. /\ size \in Nat /\ size > 0 /\ spawned \in Nat
      /\ k \in Nat /\ k >= 1 /\ k <= spawned /\ size <= MaxItems
      /\ (spawned - 1) * c < size
      /\ op = "get_many" => c = 1
  BY FanOutAssumption, ChunkSizeIs DEF TypeOK, CallerInv, ChunkSize
<1>2. c \in Nat \ {0}
  BY <1>1, ChunkSizeIs
<1> HIDE DEF c
<1>3. /\ (k - 1) * c \in Nat /\ (spawned - 1) * c \in Nat
      /\ (k - 1) * c <= (spawned - 1) * c
  BY <1>1, <1>2
<1>4. k - 1 <= (k - 1) * c
  BY <1>1, <1>2
<1>5. k \in 1..spawned /\ spawned \in 0..MaxItems
  BY DEF TypeOK
<1>6. Base(k) = (k - 1) * c
  BY DEF Base, c
<1>7. Length(k) = IF Base(k) + c <= size THEN c ELSE size - Base(k)
  BY DEF Length, c
<1>8. k \in Items
  BY <1>1, <1>5, FanOutAssumption DEF Items
<1>9. /\ Base(k) \in Nat /\ Base(k) < size
  <2> DEFINE x == (k - 1) * c
             y == (spawned - 1) * c
  <2>1. x \in Nat /\ y \in Nat /\ x <= y /\ y < size /\ size \in Nat /\ Base(k) = x
    BY <1>1, <1>3, <1>6
  <2> HIDE DEF x, y
  <2>2. QED
    BY <2>1
<1>10. /\ Length(k) \in Nat \ {0} /\ Base(k) + Length(k) <= size
       /\ Length(k) <= c
       /\ Base(k) + Length(k) < size => Length(k) = c
  <2>1. CASE Base(k) + c <= size
    BY <1>1, <1>2, <1>7, <1>9, <2>1
  <2>2. CASE ~(Base(k) + c <= size)
    <3>1. Length(k) = size - Base(k)
      BY <1>7, <2>2
    <3>2. QED
      BY <1>1, <1>2, <1>9, <2>2, <3>1
  <2>3. QED
    BY <2>1, <2>2
<1>11. QED
  BY <1>1, <1>8, <1>9, <1>10 DEF c

\* Nothing but Call changes how the list is cut.
LEMMA Cut ==
  ASSUME UNCHANGED <<op, size, threads>>
  PROVE  /\ ChunkSize' = ChunkSize
         /\ WaveSize' = WaveSize
         /\ \A k : Base(k)' = Base(k) /\ Length(k)' = Length(k) /\ Pending(k)' = Base(k) + Len(worker'[k].local) + 1
         /\ \A n : Exhausted(n)' = Exhausted(n)
BY DEF ChunkSize, WaveSize, Base, Length, Pending, Exhausted

LEMMA SoundNext ==
  ASSUME UNCHANGED <<op, size, threads>>, NEW k, Sound(k, worker'[k], called', cancelled')
  PROVE  Sound(k, worker[k], called, cancelled)'
<1>1. Base(k)' = Base(k) /\ Length(k)' = Length(k)
  BY Cut
<1>2. QED
  BY <1>1 DEF Sound, Own

-----------------------------------------------------------------------------
LEMMA InitInv == Init => IInv
<1> SUFFICES ASSUME Init PROVE IInv
  OBVIOUS
<1>1. TypeOK
  <2>1. <<>> \in Seq(Cell) /\ Len(<<>>) = 0
    OBVIOUS
  <2>2. worker \in [Items -> [pc : {"unborn", "check", "run", "done", "panicked"},
                            saw : BOOLEAN, local : Seq(Cell)]]
    BY <2>1 DEF Init, Asleep
  <2>3. size \in 0..MaxItems /\ spawned \in 0..MaxItems /\ joined \in 0..spawned
    BY FanOutAssumption DEF Init
  <2>4. /\ op \in {"par_map", "get_many"} /\ threads \in Nat \ {0}
        /\ caller \in {"idle", "spawn", "join", "unwind", "returned", "panicked"}
    BY DEF Init
  <2>5. called \subseteq Items /\ cancelled \in BOOLEAN
    BY Zenon DEF Init
  <2>6. results \in Seq(Cell) /\ Len(results) = size
    BY <2>1 DEF Init
  <2>7. QED
    BY <2>2, <2>3, <2>4, <2>6, <2>5 DEF TypeOK
<1>2. ChunkSize \in Nat /\ WaveSize = 0
  BY <1>1, ChunkSizeIs DEF Init, WaveSize
<1>3. CallerInv
  BY <1>2 DEF Init, CallerInv
<1>4. ThreadInv /\ LocalInv /\ CauseInv /\ ResultInv
  BY DEF Init, ThreadInv, LocalInv, CauseInv, ResultInv, Items, Finished
<1>5. QED
  BY <1>1, <1>3, <1>4 DEF IInv

\* Call: the list is cut, and nothing has started.
LEMMA CallInv ==
  ASSUME IInv, NEW f \in {"par_map", "get_many"}, NEW n \in 0..MaxItems, Call(f, n)
  PROVE  IInv'
<1>1. /\ spawned = 0 /\ joined = 0
      /\ results' = [i \in 1..n |-> Nil] /\ size' = n /\ op' = f
      /\ caller' = IF n = 0 THEN "returned" ELSE "spawn"
      /\ UNCHANGED <<spawned, joined, worker, cancelled, called>>
      /\ n \in Nat
  BY FanOutAssumption DEF IInv, TypeOK, CallerInv, Call
<1>2. threads' \in Nat \ {0}
  <2>1. DefaultConcurrency \in Nat \ {0}
    BY FanOutAssumption DEF DefaultConcurrency
  <2>2. \A r \in Requests : Concurrency(r) \in Nat \ {0}
    BY <2>1, FanOutAssumption DEF Concurrency
  <2>3. QED
    BY <2>2 DEF Call
<1>3. TypeOK'
  <2>1. results' \in Seq(Cell) /\ Len(results') = n
    BY <1>1 DEF Cell
  <2>2. QED
    BY <1>1, <1>2, <2>1, FanOutAssumption DEF IInv, TypeOK
<1>4. ChunkSize' \in Nat /\ (n > 0 => ChunkSize' > 0 /\ WaveSize' > 0)
  BY <1>1, <1>3, ChunkSizeNext, FanOutAssumption DEF WaveSize
<1>5. CallerInv'
  <2>1. WaveSize' \in Nat
    BY <1>1, FanOutAssumption DEF WaveSize
  <2>2. 0 * ChunkSize' = 0
    BY <1>4, ZeroTimes
  <2>3. spawned' = 0 /\ joined' = 0 /\ size' = n
    BY <1>1
  <2>4. spawned' * ChunkSize' = 0
    BY <2>2, <2>3
  <2>5. Exhausted(spawned)' <=> n = 0
    BY <1>1, <2>3, <2>4 DEF Exhausted
  <2>6. caller' = "spawn" => n > 0 /\ WaveSize' > 0
    BY <1>1, <1>4
  <2>7. caller' \in {"spawn", "returned"} /\ (caller' = "returned" => n = 0)
    BY <1>1
  <2> DEFINE ws == WaveSize'
  <2>8. ws \in Nat /\ (caller' = "spawn" => ws > 0)
    BY <2>1, <2>6
  <2> HIDE DEF ws
  <2>9. /\ spawned' <= joined' + ws /\ ~(spawned' > 0) /\ joined' = spawned'
         /\ (caller' = "spawn" => spawned' < joined' + ws)
    BY <2>3, <2>8
  <2>10. /\ spawned' <= joined' + WaveSize' /\ ~(spawned' > 0) /\ joined' = spawned'
        /\ (caller' = "spawn" => spawned' < joined' + WaveSize')
    BY <2>9 DEF ws
  <2>11. /\ (caller' = "spawn" => size' > 0 /\ ~Exhausted(spawned)')
        /\ (caller' = "returned" => Exhausted(spawned)')
    BY <1>1, <2>3, <2>5, <2>6, <2>7
  <2>12. QED
    BY <2>7, <2>10, <2>11 DEF CallerInv
<1>6. ThreadInv' /\ LocalInv' /\ CauseInv'
  <2>1. ThreadInv'
    BY <1>1 DEF IInv, ThreadInv, Finished, Items
  <2>2. spawned' = 0
    BY <1>1
  <2>3. LocalInv'
    BY <2>2 DEF LocalInv
  <2>4. ~cancelled
    BY <1>1 DEF IInv, CauseInv
  <2>5. CauseInv'
    BY <1>1, <2>4 DEF CauseInv
  <2>6. QED
    BY <2>1, <2>3, <2>5
<1>7. ResultInv'
  <2>1. 0 * ChunkSize' = 0
    BY <1>4, ZeroTimes
  <2>2. QED
    BY <1>1, <2>1 DEF ResultInv
<1>8. QED
  BY <1>3, <1>5, <1>6, <1>7 DEF IInv

\* A joined thread has finished, and is that of a started chunk.
LEMMA JoinedFinished ==
  ASSUME IInv, NEW k \in 1..joined
  PROVE  k \in 1..spawned /\ k \in Items /\ Finished(k)
<1>1. /\ joined \in Nat /\ spawned \in Nat /\ MaxItems \in Nat
      /\ joined <= spawned /\ spawned <= MaxItems
  BY FanOutAssumption DEF IInv, TypeOK
<1>2. k \in Nat /\ k >= 1 /\ k <= joined /\ k \in Items
  BY <1>1 DEF Items
<1>3. QED
  BY <1>1, <1>2 DEF IInv, ThreadInv

\* Nothing that a step leaves alone can lose its invariant.
LEMMA KeepThreads ==
  ASSUME IInv, UNCHANGED <<op, size, threads, spawned, worker, cancelled, called>>,
         joined' \in 0..spawned, \A k \in 1..joined' : Finished(k)
  PROVE  ThreadInv' /\ LocalInv' /\ CauseInv'
<1>1. ThreadInv'
  BY DEF IInv, TypeOK, ThreadInv, Finished, Items
<1>2. \A k : Length(k)' = Length(k) /\ Base(k)' = Base(k)
  BY Cut
<1>3. \A k : Sound(k, worker[k], called, cancelled)' <=> Sound(k, worker[k], called, cancelled)
  BY <1>2 DEF Sound, Own
<1>4. \A k : Holds(k, worker[k])' <=> Holds(k, worker[k])
  BY <1>2 DEF Holds
<1>5. QED
  BY <1>1, <1>3, <1>4 DEF IInv, LocalInv, CauseInv

\* The OS refuses a thread, or the scope has waited for the started ones.
LEMMA UnwindInv == IInv /\ (SpawnFails \/ ScopeUnwinds) => IInv'
<1> SUFFICES ASSUME IInv, SpawnFails \/ ScopeUnwinds PROVE IInv'
  OBVIOUS
<1>1. /\ UNCHANGED <<op, size, threads, spawned, joined, worker, cancelled, results, called>>
      /\ caller' \in {"unwind", "panicked"}
      /\ caller \in {"spawn", "unwind"}
  BY DEF SpawnFails, ScopeUnwinds
<1>2. TypeOK'
  BY <1>1 DEF IInv, TypeOK
<1>3. joined' \in 0..spawned /\ \A k \in 1..joined' : Finished(k)
  BY <1>1, JoinedFinished DEF IInv, TypeOK
<1>4. ThreadInv' /\ LocalInv' /\ CauseInv'
  BY <1>1, <1>3, KeepThreads DEF IInv, TypeOK
<1>5. ChunkSize' = ChunkSize /\ WaveSize' = WaveSize /\ \A k : Base(k)' = Base(k) /\ Length(k)' = Length(k)
  BY <1>1, Cut
<1>6. CallerInv'
  BY <1>1, <1>5 DEF IInv, CallerInv, Exhausted
<1>7. \A k, i : Written(k, i)' = Written(k, i)
  BY <1>1, <1>5 DEF Written
<1>8. \A k : Chunk(k)' = Chunk(k)
  BY <1>5 DEF Chunk
<1>9. ResultInv'
  BY <1>1, <1>5, <1>7, <1>8 DEF IInv, ResultInv
<1>10. QED
  BY <1>2, <1>4, <1>6, <1>9 DEF IInv

\* A thread is started on a chunk that the list still reaches.
LEMMA SpawnInv == IInv /\ Spawn => IInv'
<1> SUFFICES ASSUME IInv, Spawn PROVE IInv'
  OBVIOUS
<1> DEFINE m == spawned + 1
           first == [worker[m] EXCEPT !.pc = IF op = "par_map" THEN "check" ELSE "run"]
<1>1. /\ caller = "spawn" /\ size > 0 /\ size \in Nat /\ size <= MaxItems
      /\ ~Exhausted(spawned) /\ spawned < joined + WaveSize
      /\ spawned \in Nat /\ joined \in 0..spawned
      /\ UNCHANGED <<op, size, threads, joined, cancelled, results, called>>
      /\ spawned' = m
  BY FanOutAssumption DEF IInv, TypeOK, CallerInv, Spawn
<1>2. /\ ChunkSize \in Nat /\ ChunkSize > 0
      /\ ChunkSize' = ChunkSize /\ WaveSize' = WaveSize
      /\ \A k : Base(k)' = Base(k) /\ Length(k)' = Length(k)
      /\ \A n : Exhausted(n)' = Exhausted(n)
  BY <1>1, Cut, ChunkSizeIs DEF IInv
<1>3. spawned * ChunkSize < size
  <2>1. spawned * ChunkSize \in Nat
    BY <1>1, <1>2
  <2>2. QED
    BY <1>1, <2>1 DEF Exhausted
<1>4. m \in Items
  <2> DEFINE c == ChunkSize
  <2>1. c \in Nat \ {0} /\ spawned * c < size
    BY <1>2, <1>3
  <2> HIDE DEF c
  <2>2. spawned <= spawned * c
    BY <1>1, <2>1
  <2>3. QED
    BY <1>1, <2>1, <2>2, FanOutAssumption DEF Items
<1>5. /\ worker[m] = Asleep
      /\ worker' = [worker EXCEPT ![m] = first]
  <2>1. worker[m] = Asleep
    BY <1>1, <1>4 DEF IInv, ThreadInv
  <2>2. worker' = [worker EXCEPT ![m] = first]
    BY DEF Spawn
  <2>3. QED
    BY <2>1, <2>2
<1>6. /\ first \in [pc : {"unborn", "check", "run", "done", "panicked"},
                    saw : BOOLEAN, local : Seq(Cell)]
      /\ Len(first.local) = 0 /\ first.saw = FALSE
      /\ first.pc = IF op = "par_map" THEN "check" ELSE "run"
  <2>1. worker[m] \in [pc : {"unborn", "check", "run", "done", "panicked"},
                       saw : BOOLEAN, local : Seq(Cell)]
    BY <1>4 DEF IInv, TypeOK
  <2>2. worker[m].local = <<>> /\ worker[m].saw = FALSE
    BY <1>5 DEF Asleep
  <2>3. QED
    BY <2>1, <2>2
<1> HIDE DEF first
<1>7. TypeOK'
  <2>1. worker' \in [Items -> [pc : {"unborn", "check", "run", "done", "panicked"},
                               saw : BOOLEAN, local : Seq(Cell)]]
    BY <1>6, <1>5 DEF IInv, TypeOK
  <2>2. spawned' \in 0..MaxItems /\ joined' \in 0..spawned'
    BY <1>1, <1>4 DEF Items
  <2>3. caller' \in {"join", "spawn"}
    BY DEF Spawn
  <2>4. QED
    BY <1>1, <2>1, <2>2, <2>3 DEF IInv, TypeOK
<1>8. CallerInv'
  <2>1. WaveSize \in Nat
    BY <1>1, FanOutAssumption DEF WaveSize
  <2>2. caller' = IF Exhausted(m) \/ m = joined + WaveSize THEN "join" ELSE "spawn"
    BY DEF Spawn
  <2>3. (m - 1) * ChunkSize' < size' /\ spawned' - 1 = m - 1
    BY <1>1, <1>2, <1>3
  <2>4. caller' # "returned" /\ caller' # "idle"
    BY <2>2
  <2>5. spawned' <= joined' + WaveSize' /\ (caller' = "join" => joined' < spawned')
    BY <1>1, <1>2, <2>1
  <2>6. caller' = "spawn" => ~Exhausted(m) /\ m < joined + WaveSize
    BY <1>1, <2>1, <2>2
  <2>7. Exhausted(spawned)' <=> Exhausted(m)
    BY <1>1, <1>2 DEF Exhausted
  <2>8. caller' = "spawn" => ~Exhausted(spawned)' /\ spawned' < joined' + WaveSize'
    BY <1>1, <1>2, <2>6, <2>7
  <2>9. size' > 0 /\ (spawned' - 1) * ChunkSize' < size'
    BY <1>1, <2>3
  <2>10. QED
    BY <2>4, <2>5, <2>8, <2>9 DEF CallerInv
<1>9. ThreadInv'
  <2>1. \A k \in Items : k # m => worker'[k] = worker[k]
    BY <1>5 DEF IInv, TypeOK
  <2>2. worker'[m].pc # "unborn"
    BY <1>6, <1>4, <1>5 DEF IInv, TypeOK
  <2>3. QED
    BY <1>1, <1>4, <2>1, <2>2 DEF IInv, ThreadInv, Finished, Items
<1>10. \A k \in 1..spawned : worker'[k] = worker[k] /\ k \in 1..spawned'
  BY <1>1, <1>4, <1>5 DEF IInv, TypeOK, Items
<1>11. LocalInv'
  <2>1. worker'[m] = first
    BY <1>4, <1>5 DEF IInv, TypeOK
  <2>2. Length(m) \in Nat \ {0}
    <3>1. Base(m) = spawned * ChunkSize /\ spawned * ChunkSize \in Nat
      BY <1>1, <1>2 DEF Base
    <3>2. QED
      BY <1>1, <1>2, <1>3, <3>1 DEF Length
  <2>3. ASSUME NEW k, k = m
        PROVE  Sound(k, worker[k], called, cancelled)'
    <3>1. /\ Len(first.local) = 0 /\ first.saw = FALSE
          /\ first.pc \in {"check", "run"} /\ (op = "get_many" => first.pc # "check")
      BY <1>6
    <3>2. Sound(m, first, called', cancelled')
      BY <2>2, <3>1 DEF Sound
    <3>3. QED
      BY <1>1, <2>1, <2>3, <3>2, SoundNext
  <2>4. ASSUME NEW k \in 1..spawned
        PROVE  Sound(k, worker[k], called, cancelled)'
    <3>1. Sound(k, worker'[k], called', cancelled')
      BY <1>1, <1>10 DEF IInv, LocalInv
    <3>2. QED
      BY <1>1, <3>1, SoundNext
  <2>5. \A k \in 1..spawned' : k = m \/ k \in 1..spawned
    BY <1>1
  <2>6. QED
    BY <2>3, <2>4, <2>5 DEF LocalInv
<1>12. CauseInv'
  BY <1>1, <1>2, <1>10 DEF IInv, CauseInv, Holds
<1>13. ResultInv'
  <2>1. \A k \in 1..joined : k \in 1..spawned
    BY <1>1
  <2>2. \A k \in 1..joined : Chunk(k)' = Chunk(k) /\ \A i : Written(k, i)' = Written(k, i)
    BY <1>2, <1>10, <2>1 DEF Chunk, Written
  <2>3. QED
    BY <1>1, <1>2, <2>2 DEF IInv, ResultInv
<1>14. QED
  BY <1>7, <1>8, <1>9, <1>11, <1>12, <1>13 DEF IInv

\* The next thread in list order has finished: its chunk is written.
LEMMA JoinInv == IInv /\ Join => IInv'
<1> SUFFICES ASSUME IInv, Join PROVE IInv'
  OBVIOUS
<1> DEFINE m == joined + 1
<1>1. /\ caller = "join" /\ size > 0 /\ size \in Nat /\ joined < spawned
      /\ spawned \in Nat /\ joined \in Nat /\ m \in 1..spawned
      /\ spawned \in 0..MaxItems
      /\ UNCHANGED <<op, size, threads, spawned, worker, cancelled, called>>
      /\ joined' = m /\ Finished(m)
      /\ spawned <= joined + WaveSize
  BY FanOutAssumption DEF IInv, TypeOK, CallerInv, Join
<1>2. /\ ChunkSize \in Nat /\ ChunkSize > 0
      /\ ChunkSize' = ChunkSize /\ WaveSize' = WaveSize
      /\ \A k : Base(k)' = Base(k) /\ Length(k)' = Length(k)
      /\ \A n : Exhausted(n)' = Exhausted(n)
      /\ WaveSize \in Nat \ {0}
  BY <1>1, Cut, ChunkSizeIs, FanOutAssumption DEF IInv, WaveSize
<1>3. /\ m \in Items /\ Base(m) \in Nat /\ Length(m) \in Nat \ {0}
      /\ Base(m) + Length(m) <= size
      /\ Base(m) + Length(m) < size => Length(m) = ChunkSize
  BY <1>1, ChunkIs DEF IInv
<1>4. results' = [i \in 1..size |-> IF i \notin Chunk(m) THEN results[i] ELSE Written(m, i)]
  BY DEF Join, Written
<1>5. \A i \in Chunk(m) : Written(m, i) \in Cell
  <2>1. CASE worker[m].pc = "panicked"
    BY <2>1 DEF Written, Cell
  <2>2. CASE worker[m].pc = "done"
    <3>1. worker[m].local \in Seq(Cell) /\ Len(worker[m].local) = Length(m)
      BY <1>1, <1>3, <2>2 DEF IInv, TypeOK, LocalInv, Sound
    <3>2. \A i \in Chunk(m) : i - Base(m) \in 1..Length(m)
      BY <1>3 DEF Chunk
    <3>3. QED
      BY <2>2, <3>1, <3>2 DEF Written
  <2>3. QED
    BY <1>1, <2>1, <2>2 DEF Finished
<1>6. TypeOK'
  <2>1. \A i \in 1..size : results'[i] \in Cell
    BY <1>4, <1>5 DEF IInv, TypeOK
  <2>2. results' \in Seq(Cell) /\ Len(results') = size
    BY <1>1, <1>4, <2>1
  <2>3. caller' \in {"join", "spawn", "returned"}
    BY DEF Join
  <2>4. QED
    BY <1>1, <2>2, <2>3 DEF IInv, TypeOK
<1>7. CallerInv'
  <2>1. caller' = IF m < spawned THEN "join"
                  ELSE IF Exhausted(spawned) THEN "returned" ELSE "spawn"
    BY <1>1 DEF Join
  <2>2. spawned' <= joined' + WaveSize' /\ (spawned' - 1) * ChunkSize' < size'
    BY <1>1, <1>2 DEF IInv, CallerInv
  <2>3. QED
    BY <1>1, <1>2, <2>1, <2>2 DEF CallerInv
<1>8. ThreadInv' /\ LocalInv' /\ CauseInv'
  <2>1. \A k \in 1..joined' : Finished(k)
    <3>1. \A k \in 1..joined' : k = m \/ k \in 1..joined
      BY <1>1
    <3>2. QED
      BY <1>1, <3>1, JoinedFinished
  <2>2. QED
    BY <1>1, <2>1, KeepThreads
<1>9. ResultInv'
  <2>1. \A k : Chunk(k)' = Chunk(k) /\ \A i : Written(k, i)' = Written(k, i)
    BY <1>1, <1>2 DEF Chunk, Written
  <2>2. m * ChunkSize = Base(m) + ChunkSize /\ Base(m) = joined * ChunkSize
    BY <1>1, <1>2 DEF Base
  <2>3. ASSUME NEW i \in 1..size
        PROVE  \/ i > m * ChunkSize /\ results'[i] = Nil
               \/ \E k \in 1..m : i \in Chunk(k) /\ results'[i] = Written(k, i)
    <3>1. CASE i \in Chunk(m)
      BY <1>1, <1>4, <3>1
    <3>2. CASE i \notin Chunk(m)
      <4>1. results'[i] = results[i]
        BY <1>4, <3>2
      <4>2. CASE i > joined * ChunkSize /\ results[i] = Nil
        <5>1. i > Base(m) + Length(m)
          BY <1>3, <2>2, <3>2, <4>2 DEF Chunk
        <5>2. Length(m) = ChunkSize
          BY <1>1, <1>3, <5>1
        <5>3. QED
          BY <2>2, <4>1, <4>2, <5>1, <5>2
      <4>3. CASE \E k \in 1..joined : i \in Chunk(k) /\ results[i] = Written(k, i)
        BY <1>1, <4>1, <4>3
      <4>4. QED
        BY <4>2, <4>3 DEF IInv, ResultInv
    <3>3. QED
      BY <3>1, <3>2
  <2>4. QED
    BY <1>1, <1>2, <2>1, <2>3 DEF ResultInv
<1>10. QED
  BY <1>6, <1>7, <1>8, <1>9 DEF IInv

-----------------------------------------------------------------------------
(***************************************************************************)
(* A step of a worker that keeps its own thread sound, and forgets neither *)
(* a call nor the flag nor the error that set it, keeps the invariant.     *)
(***************************************************************************)
Record == [pc : {"unborn", "check", "run", "done", "panicked"},
           saw : BOOLEAN, local : Seq(Cell)]

LEMMA MoveInv ==
  ASSUME IInv, NEW k \in Items, NEW w \in Record,
         worker[k].pc \in {"check", "run"}, w.pc # "unborn",
         worker' = [worker EXCEPT ![k] = w],
         UNCHANGED <<op, size, threads, caller, spawned, joined, results>>,
         cancelled' \in BOOLEAN, called' \in SUBSET Items,
         cancelled => cancelled', called \subseteq called',
         Sound(k, w, called', cancelled'),
         Holds(k, worker[k]) => Holds(k, w),
         cancelled' => cancelled \/ (op = "par_map" /\ Holds(k, w))
  PROVE  IInv'
<1>1. /\ spawned \in 0..MaxItems /\ joined \in 0..spawned /\ MaxItems \in Nat
      /\ k \in 1..spawned /\ k > joined
      /\ worker'[k] = w /\ \A j \in Items : j # k => worker'[j] = worker[j]
  <2>1. /\ spawned \in 0..MaxItems /\ joined \in 0..spawned /\ MaxItems \in Nat
        /\ worker'[k] = w /\ \A j \in Items : j # k => worker'[j] = worker[j]
    BY FanOutAssumption DEF IInv, TypeOK
  <2>2. ~(k > spawned)
    BY DEF IInv, ThreadInv, Asleep
  <2>3. ~(k <= joined)
    BY DEF IInv, ThreadInv, Finished
  <2>4. QED
    BY <2>1, <2>2, <2>3 DEF Items
<1>2. /\ ChunkSize' = ChunkSize /\ WaveSize' = WaveSize
      /\ \A j : Base(j)' = Base(j) /\ Length(j)' = Length(j)
  BY Cut
<1>3. TypeOK'
  BY DEF IInv, TypeOK, Record
<1>4. CallerInv'
  BY <1>2 DEF IInv, CallerInv, Exhausted
<1>5. ThreadInv'
  BY <1>1 DEF IInv, ThreadInv, Finished, Items
<1>6. \A j \in 1..spawned : j \in Items
  BY <1>1 DEF Items
<1>7. LocalInv'
  <2>1. \A j \in 1..spawned : j # k => Sound(j, worker[j], called, cancelled)'
    <3> SUFFICES ASSUME NEW j \in 1..spawned, j # k
                 PROVE  Sound(j, worker[j], called, cancelled)'
      OBVIOUS
    <3>1. worker'[j] = worker[j] /\ Sound(j, worker[j], called, cancelled)
      BY <1>1, <1>6 DEF IInv, LocalInv
    <3>2. Sound(j, worker'[j], called', cancelled')
      BY <3>1 DEF Sound
    <3>3. QED
      BY <3>2, SoundNext
  <2>2. Sound(k, worker[k], called, cancelled)'
    BY <1>1, SoundNext
  <2>3. QED
    BY <2>1, <2>2 DEF LocalInv
<1>8. CauseInv'
  <2> SUFFICES ASSUME cancelled' PROVE CauseInv'
    BY DEF CauseInv
  <2>1. CASE cancelled
    <3>1. PICK j \in 1..spawned : Holds(j, worker[j])
      BY <2>1 DEF IInv, CauseInv
    <3>2. Holds(j, worker[j])'
      BY <1>1, <1>2, <1>6, <3>1 DEF Holds
    <3>3. QED
      BY <2>1, <3>2 DEF IInv, CauseInv
  <2>2. CASE op = "par_map" /\ Holds(k, w)
    <3>1. Holds(k, worker[k])'
      BY <1>1, <1>2, <2>2 DEF Holds
    <3>2. QED
      BY <1>1, <2>2, <3>1 DEF CauseInv
  <2>3. QED
    BY <2>1, <2>2
<1>9. ResultInv'
  <2>1. \A j \in 1..joined : /\ Chunk(j)' = Chunk(j)
                             /\ \A i : Written(j, i)' = Written(j, i)
    BY <1>1, <1>2, <1>6 DEF Chunk, Written
  <2>2. QED
    BY <1>2, <2>1 DEF IInv, ResultInv
<1>10. QED
  BY <1>3, <1>4, <1>5, <1>7, <1>8, <1>9 DEF IInv

\* What is known of a worker that takes a step.
LEMMA Stepping ==
  ASSUME IInv, NEW k \in Items, worker[k].pc \in {"check", "run"}
  PROVE  /\ k \in 1..spawned
         /\ worker[k] \in Record
         /\ Base(k) \in Nat /\ Length(k) \in Nat /\ Base(k) + Length(k) <= size
         /\ size \in Nat /\ size <= MaxItems
         /\ op = "get_many" => Length(k) = 1
         /\ Sound(k, worker[k], called, cancelled)
         /\ Len(worker[k].local) \in Nat
<1>1. k \in 1..spawned
  BY FanOutAssumption DEF IInv, TypeOK, ThreadInv, Asleep, Items
<1>2. worker[k] \in Record
  BY DEF IInv, TypeOK, Record
<1>3. Sound(k, worker[k], called, cancelled)
  BY <1>1 DEF IInv, LocalInv
<1>4. size \in Nat /\ size <= MaxItems
  BY FanOutAssumption DEF IInv, TypeOK
<1>5. Len(worker[k].local) \in Nat
  <2>1. worker[k].local \in Seq(Cell)
    BY <1>2 DEF Record
  <2>2. QED
    BY <2>1
<1>6. QED
  BY <1>1, <1>2, <1>3, <1>4, <1>5, ChunkIs DEF IInv

(***************************************************************************)
(* Pushing the result of the pending item: its own, or a sentinel once the *)
(* thread has seen the flag.                                               *)
(***************************************************************************)
LEMMA PushInv ==
  ASSUME IInv, NEW k \in Items, NEW cell, NEW saw \in BOOLEAN,
         worker[k].pc \in {"check", "run"},
         Len(worker[k].local) < Length(k),
         Push(k, cell, saw),
         UNCHANGED <<op, size, threads, caller, spawned, joined, results>>,
         cancelled' \in BOOLEAN, called' \in SUBSET Items,
         cancelled => cancelled', called \subseteq called',
         \/ cell = Cancelled /\ op = "par_map" /\ saw
         \/ /\ cell \in Own(k, Len(worker[k].local) + 1)
            /\ ~worker[k].saw
            /\ Pending(k) \in called'
            /\ op = "par_map" /\ cell = <<"err", Pending(k)>> => saw,
         worker[k].saw => saw,
         saw => cancelled',
         cancelled' => cancelled \/ (op = "par_map" /\ saw /\ cell = <<"err", Pending(k)>>)
  PROVE  IInv'
<1> DEFINE n == Len(worker[k].local)
           w == [pc |-> "check", saw |-> saw, local |-> Append(worker[k].local, cell)]
<1>1. /\ k \in 1..spawned /\ worker[k] \in Record /\ worker[k].local \in Seq(Cell)
      /\ Base(k) \in Nat /\ Length(k) \in Nat /\ Base(k) + Length(k) <= size
      /\ size \in Nat /\ size <= MaxItems /\ n \in Nat /\ n < Length(k)
      /\ op = "get_many" => Length(k) = 1
      /\ Sound(k, worker[k], called, cancelled)
  BY Stepping DEF Record
<1>2. Pending(k) = Base(k) + (n + 1)
  <2>1. Pending(k) = Base(k) + n + 1
    BY DEF Pending
  <2> HIDE DEF n
  <2>2. QED
    BY <1>1, <2>1
<1>3. \A j : Base(j)' = Base(j) /\ Length(j)' = Length(j)
  BY Cut
<1>4. Pending(k) = Base(k) + (n + 1) /\ Pending(k) \in Items
  <2> HIDE DEF n
  <2>1. QED
    BY <1>2, <1>1, FanOutAssumption DEF Items
<1>5. cell \in Cell
  BY <1>4 DEF Own, Cell, Delivered
<1>6. /\ w \in Record /\ Len(w.local) = n + 1 /\ w.local[n + 1] = cell
      /\ \A i \in 1..n : w.local[i] = worker[k].local[i]
      /\ w.saw = saw /\ w.pc = "check"
  BY <1>1, <1>5 DEF Record
<1>7. worker' = [worker EXCEPT ![k] = w]
  BY DEF Push, IInv, TypeOK
<1>8. \/ cell = Cancelled /\ op = "par_map" /\ saw
      \/ /\ cell \in Own(k, n + 1)
         /\ ~worker[k].saw
         /\ Pending(k) \in called'
         /\ op = "par_map" /\ cell = <<"err", Pending(k)>> => saw
  OBVIOUS
<1>9. Len(worker[k].local) = n
  OBVIOUS
<1> HIDE DEF w, n
<1>10. \A i \in 1..n + 1 :
        /\ w.local[i] \in Own(k, i) \cup {Cancelled}
        /\ w.local[i] = Cancelled => op = "par_map"
        /\ w.local[i] # Cancelled => Base(k) + i \in called'
  <2>1. \A i \in 1..n : /\ w.local[i] \in Own(k, i) \cup {Cancelled}
                        /\ w.local[i] = Cancelled => op = "par_map"
                        /\ w.local[i] # Cancelled => Base(k) + i \in called'
    BY <1>1, <1>6, <1>9 DEF Sound
  <2>2. cell # Cancelled => cell \in Own(k, n + 1) /\ Base(k) + (n + 1) \in called'
    BY <1>4, <1>8
  <2>3. cell = Cancelled => op = "par_map"
    BY <1>8 DEF Own, Cancelled
  <2>4. \A i \in 1..n + 1 : i = n + 1 \/ i \in 1..n
    BY <1>1
  <2>5. QED
    BY <1>6, <2>1, <2>2, <2>3, <2>4
<1>11. \A i \in 1..n + 1 :
        op = "par_map" /\ w.local[i] \in {<<"err", Base(k) + i>>, Cancelled} =>
          w.saw /\ \A j \in i + 1 .. n + 1 : w.local[j] = Cancelled
  <2>1. ASSUME NEW i \in 1..n, op = "par_map",
               w.local[i] \in {<<"err", Base(k) + i>>, Cancelled}
        PROVE  w.saw /\ \A j \in i + 1 .. n + 1 : w.local[j] = Cancelled
    <3>1. worker[k].saw /\ \A j \in i + 1 .. n : worker[k].local[j] = Cancelled
      BY <1>1, <1>6, <1>9, <2>1 DEF Sound
    <3>2. cell = Cancelled /\ saw
      BY <1>8, <3>1
    <3>3. \A j \in i + 1 .. n + 1 : j = n + 1 \/ (j \in 1..n /\ j \in i + 1 .. n)
      BY <1>1
    <3>4. QED
      BY <1>6, <3>1, <3>2, <3>3
  <2>2. op = "par_map" /\ cell \in {<<"err", Base(k) + (n + 1)>>, Cancelled} => w.saw
    BY <1>4, <1>6, <1>8 DEF Own, Cancelled
  <2>3. \A j \in n + 1 + 1 .. n + 1 : w.local[j] = Cancelled
    BY <1>1
  <2>4. \A i \in 1..n + 1 : i = n + 1 \/ i \in 1..n
    BY <1>1
  <2>5. QED
    BY <1>6, <2>1, <2>2, <2>3, <2>4
<1>12. Sound(k, w, called', cancelled')
  <2>1. n + 1 <= Length(k) /\ (op = "get_many" => n + 1 = Length(k))
    BY <1>1
  <2>2. w.saw => cancelled'
    BY <1>6
  <2>3. QED
    BY <1>6, <1>10, <1>11, <2>1, <2>2 DEF Sound
<1>13. Holds(k, worker[k]) => Holds(k, w)
  <2> SUFFICES ASSUME Holds(k, worker[k]) PROVE Holds(k, w)
    OBVIOUS
  <2>1. PICK i \in 1..n : worker[k].local[i] = <<"err", Base(k) + i>>
    BY <1>9 DEF Holds
  <2>2. worker[k].saw
    BY DEF Holds
  <2>3. w.saw /\ i \in 1..n + 1 /\ w.local[i] = <<"err", Base(k) + i>>
    <3>1. i \in 1..n + 1
      BY <1>1
    <3>2. QED
      BY <1>6, <2>1, <2>2, <3>1
  <2>4. i \in 1..Len(w.local)
    BY <1>6, <2>3
  <2>5. QED
    BY <2>3, <2>4 DEF Holds
<1>14. cancelled' => cancelled \/ (op = "par_map" /\ Holds(k, w))
  <2> SUFFICES ASSUME saw, cell = <<"err", Pending(k)>> PROVE Holds(k, w)
    OBVIOUS
  <2>1. n + 1 \in 1..n + 1 /\ w.local[n + 1] = <<"err", Base(k) + (n + 1)>>
    BY <1>1, <1>4, <1>6
  <2>2. QED
    BY <1>6, <2>1 DEF Holds
<1>15. w.pc # "unborn"
  BY <1>6
<1>16. QED
  BY <1>6, <1>7, <1>12, <1>13, <1>14, <1>15, MoveInv

LEMMA CheckFlagInv ==
  ASSUME IInv, NEW k \in Items, CheckFlag(k)
  PROVE  IInv'
<1>1. /\ worker[k].pc = "check" /\ Len(worker[k].local) < Length(k)
      /\ UNCHANGED <<op, size, threads, caller, spawned, joined, results, cancelled, called>>
      /\ cancelled' \in BOOLEAN /\ called' \in SUBSET Items
  BY DEF CheckFlag, CallerWaits, IInv, TypeOK
<1>2. /\ worker[k] \in Record /\ Sound(k, worker[k], called, cancelled)
      /\ op \in {"par_map", "get_many"}
  BY <1>1, Stepping DEF IInv, TypeOK
<1>3. op = "par_map"
  BY <1>1, <1>2, Stepping DEF Sound
<1>4. PICK seen \in Loads(k) :
        \/ seen /\ Push(k, Cancelled, TRUE)
        \/ ~seen /\ worker' = [worker EXCEPT ![k].pc = "run"]
  BY DEF CheckFlag
<1>5. seen \in BOOLEAN /\ (seen => cancelled) /\ (~seen => ~worker[k].saw)
  BY <1>1, <1>2 DEF Loads, Sound, Record
<1>6. CASE seen /\ Push(k, Cancelled, TRUE)
  BY <1>1, <1>3, <1>5, <1>6, PushInv
<1>7. CASE ~seen /\ worker' = [worker EXCEPT ![k].pc = "run"]
  <2> DEFINE w == [worker[k] EXCEPT !.pc = "run"]
  <2>1. /\ w \in Record /\ w.pc = "run" /\ w.saw = worker[k].saw
        /\ w.local = worker[k].local
    BY <1>2 DEF Record
  <2>2. worker' = [worker EXCEPT ![k] = w]
    BY <1>7 DEF IInv, TypeOK
  <2> HIDE DEF w
  <2>3. \A j : Base(j)' = Base(j) /\ Length(j)' = Length(j)
    BY <1>1, Cut
  <2>4. Sound(k, w, called', cancelled')
    BY <1>1, <1>2, <1>5, <1>7, <2>1, <2>3 DEF Sound, Own
  <2>5. Holds(k, worker[k]) => Holds(k, w)
    BY <2>1 DEF Holds
  <2>6. w.pc # "unborn"
    BY <2>1
  <2>7. QED
    BY <1>1, <2>1, <2>2, <2>4, <2>5, <2>6, MoveInv
<1>8. QED
  BY <1>4, <1>6, <1>7

\* What a call that ends leaves in `called`, and that its thread had not seen
\* the flag.
LEMMA CallEnding ==
  ASSUME IInv, NEW k \in Items, worker[k].pc = "run"
  PROVE  /\ Len(worker[k].local) < Length(k)
         /\ ~worker[k].saw
         /\ Pending(k) = Base(k) + (Len(worker[k].local) + 1)
         /\ called \cup {Pending(k)} \in SUBSET Items
<1>1. /\ Base(k) \in Nat /\ Length(k) \in Nat /\ Base(k) + Length(k) <= size
      /\ size \in Nat /\ size <= MaxItems /\ Len(worker[k].local) \in Nat
      /\ Sound(k, worker[k], called, cancelled)
  BY Stepping
<1>2. Len(worker[k].local) < Length(k) /\ ~worker[k].saw
  BY <1>1 DEF Sound
<1>3. Pending(k) = Base(k) + (Len(worker[k].local) + 1)
  <2> DEFINE n == Len(worker[k].local)
  <2>1. Pending(k) = Base(k) + n + 1 /\ n \in Nat
    BY <1>1 DEF Pending
  <2> HIDE DEF n
  <2>2. Pending(k) = Base(k) + (n + 1)
    BY <1>1, <2>1
  <2>3. QED
    BY <2>2 DEF n
<1>4. called \subseteq Items
  BY DEF IInv, TypeOK
<1>5. Pending(k) \in Items
  <2> DEFINE n == Len(worker[k].local)
  <2>1. n \in Nat /\ n < Length(k) /\ Pending(k) = Base(k) + (n + 1)
    BY <1>1, <1>2, <1>3
  <2> HIDE DEF n
  <2>2. QED
    BY <1>1, <2>1, FanOutAssumption DEF Items
<1>6. QED
  BY <1>2, <1>3, <1>4, <1>5

LEMMA CallReturnsInv ==
  ASSUME IInv, NEW k \in Items, CallReturns(k)
  PROVE  IInv'
<1>1. /\ worker[k].pc = "run" /\ called' = called \cup {Pending(k)}
      /\ UNCHANGED <<op, size, threads, caller, spawned, joined, results, cancelled>>
      /\ cancelled' \in BOOLEAN
  BY DEF CallReturns, CallerWaits, IInv, TypeOK
<1>2. /\ Len(worker[k].local) < Length(k) /\ ~worker[k].saw
      /\ Pending(k) = Base(k) + (Len(worker[k].local) + 1)
      /\ called' \in SUBSET Items /\ Pending(k) \in called'
  BY <1>1, CallEnding
<1>3. worker[k].saw = FALSE
  BY <1>1, <1>2, Stepping DEF Record
<1>4. PICK kind \in {"ok", "ok_err"} : Push(k, <<kind, Pending(k)>>, FALSE)
  BY <1>3 DEF CallReturns
<1>5. /\ <<kind, Pending(k)>> \in Own(k, Len(worker[k].local) + 1)
      /\ <<kind, Pending(k)>> # <<"err", Pending(k)>>
  BY <1>2 DEF Own
<1>6. QED
  BY <1>1, <1>2, <1>4, <1>5, PushInv

LEMMA CallFailsInv ==
  ASSUME IInv, NEW k \in Items, CallFails(k)
  PROVE  IInv'
<1> DEFINE saw == op = "par_map"
<1>1. /\ worker[k].pc = "run" /\ called' = called \cup {Pending(k)}
      /\ UNCHANGED <<op, size, threads, caller, spawned, joined, results>>
      /\ cancelled' = (cancelled \/ op = "par_map")
      /\ cancelled \in BOOLEAN
      /\ Push(k, <<"err", Pending(k)>>, saw)
  BY DEF CallFails, CallerWaits, IInv, TypeOK
<1>2. /\ Len(worker[k].local) < Length(k) /\ ~worker[k].saw
      /\ Pending(k) = Base(k) + (Len(worker[k].local) + 1)
      /\ called' \in SUBSET Items /\ Pending(k) \in called'
  BY <1>1, CallEnding
<1>3. <<"err", Pending(k)>> \in Own(k, Len(worker[k].local) + 1)
  BY <1>2 DEF Own
<1>4. saw \in BOOLEAN /\ (saw <=> op = "par_map")
  OBVIOUS
<1> HIDE DEF saw
<1>5. QED
  BY <1>1, <1>2, <1>3, <1>4, PushInv

\* A thread that panics had not seen the flag, so no error is lost with it.
LEMMA CallPanicsInv ==
  ASSUME IInv, NEW k \in Items, CallPanics(k)
  PROVE  IInv'
<1> DEFINE w == [worker[k] EXCEPT !.pc = "panicked", !.local = <<>>]
<1>1. /\ worker[k].pc = "run" /\ called' = called \cup {Pending(k)}
      /\ UNCHANGED <<op, size, threads, caller, spawned, joined, results, cancelled>>
      /\ cancelled' \in BOOLEAN
      /\ worker' = [worker EXCEPT ![k].pc = "panicked", ![k].local = <<>>]
  BY DEF CallPanics, CallerWaits, IInv, TypeOK
<1>2. ~worker[k].saw /\ called' \in SUBSET Items
  BY <1>1, CallEnding
<1>3. worker[k] \in Record /\ Length(k) \in Nat
  BY <1>1, Stepping
<1>4. /\ w \in Record /\ w.pc = "panicked" /\ w.saw = worker[k].saw
      /\ w.local = <<>>
  <2>1. <<>> \in Seq(Cell)
    OBVIOUS
  <2>2. w.pc = "panicked" /\ w.saw = worker[k].saw /\ w.local = <<>>
    BY <1>3 DEF Record
  <2>3. worker[k].saw \in BOOLEAN
    BY <1>3 DEF Record
  <2>4. w \in Record
    <3>1. \A r \in Record : [r EXCEPT !.pc = "panicked", !.local = <<>>] \in Record
      BY <2>1 DEF Record
    <3>2. QED
      BY <1>3, <3>1
  <2>5. QED
    BY <2>2, <2>4
<1>5. worker' = [worker EXCEPT ![k] = w]
  BY <1>1 DEF IInv, TypeOK
<1> HIDE DEF w
<1>6. Length(k)' \in Nat
  BY <1>1, <1>3, Cut
<1>7. op = "get_many" => (Base(k) + 1)' \in called'
  <2>1. Base(k)' = Base(k)
    BY <1>1, Cut
  <2>2. op = "get_many" => Len(worker[k].local) = 0
    BY <1>1, Stepping, CallEnding
  <2>3. Pending(k) = Base(k) + (Len(worker[k].local) + 1)
    BY <1>1, CallEnding
  <2>4. QED
    BY <1>1, <2>1, <2>2, <2>3
<1>8. Sound(k, w, called', cancelled')
  <2>1. Len(w.local) = 0 /\ ~w.saw /\ Base(k)' = Base(k)
    BY <1>1, <1>2, <1>4, Cut
  <2>2. QED
    BY <1>1, <1>3, <1>4, <1>7, <2>1 DEF Sound
<1>9. ~Holds(k, worker[k])
  BY <1>2 DEF Holds
<1>10. w.pc # "unborn"
  BY <1>4
<1>11. QED
  BY <1>1, <1>2, <1>4, <1>5, <1>8, <1>9, <1>10, MoveInv

LEMMA WorkerEndsInv ==
  ASSUME IInv, NEW k \in Items, WorkerEnds(k)
  PROVE  IInv'
<1> DEFINE w == [worker[k] EXCEPT !.pc = "done"]
<1>1. /\ worker[k].pc = "check" /\ Len(worker[k].local) = Length(k)
      /\ UNCHANGED <<op, size, threads, caller, spawned, joined, results, cancelled, called>>
      /\ cancelled' \in BOOLEAN /\ called' \in SUBSET Items
      /\ worker' = [worker EXCEPT ![k].pc = "done"]
  BY DEF WorkerEnds, CallerWaits, IInv, TypeOK
<1>2. worker[k] \in Record /\ Sound(k, worker[k], called, cancelled)
  BY <1>1, Stepping
<1>3. /\ w \in Record /\ w.pc = "done" /\ w.saw = worker[k].saw
      /\ w.local = worker[k].local
  BY <1>2 DEF Record
<1>4. worker' = [worker EXCEPT ![k] = w]
  BY <1>1 DEF IInv, TypeOK
<1> HIDE DEF w
<1>5. \A j : Base(j)' = Base(j) /\ Length(j)' = Length(j)
  BY <1>1, Cut
<1>6. Sound(k, w, called', cancelled')
  BY <1>1, <1>2, <1>3, <1>5 DEF Sound, Own
<1>7. Holds(k, worker[k]) => Holds(k, w)
  BY <1>3 DEF Holds
<1>8. w.pc # "unborn"
  BY <1>3
<1>9. QED
  BY <1>1, <1>3, <1>4, <1>6, <1>7, <1>8, MoveInv

-----------------------------------------------------------------------------
LEMMA NextInv == IInv /\ [Next]_vars => IInv'
<1> SUFFICES ASSUME IInv, [Next]_vars PROVE IInv'
  OBVIOUS
<1>1. ASSUME NEW f \in {"par_map", "get_many"}, NEW n \in 0..MaxItems, Call(f, n)
      PROVE  IInv'
  BY <1>1, CallInv
<1>2. CASE CallerStep
  BY <1>2, SpawnInv, UnwindInv, JoinInv DEF CallerStep
<1>3. ASSUME NEW k \in Items, WorkerStep(k)
      PROVE  IInv'
  BY <1>3, CheckFlagInv, CallReturnsInv, CallFailsInv, CallPanicsInv, WorkerEndsInv
  DEF WorkerStep
<1>4. CASE UNCHANGED vars
  <2>1. \A k \in 1..joined' : Finished(k)
    BY <1>4, JoinedFinished DEF vars
  <2>2. ThreadInv' /\ LocalInv' /\ CauseInv'
    BY <1>4, <2>1, KeepThreads DEF vars, IInv, TypeOK
  <2>3. TypeOK'
    BY <1>4 DEF vars, IInv, TypeOK
  <2>4. CallerInv' /\ ResultInv'
    BY <1>4 DEF vars, IInv, CallerInv, ResultInv, Exhausted, WaveSize, ChunkSize,
                Chunk, Written, Base, Length
  <2>5. QED
    BY <2>2, <2>3, <2>4 DEF IInv
<1>5. QED
  BY <1>1, <1>2, <1>3, <1>4 DEF Next

THEOREM Invariance == Spec => []IInv
BY InitInv, NextInv, PTL DEF Spec

\* Every state has the types the module declares, for every list length, every
\* requested concurrency, every CPU count and every fetch cap.
THEOREM TypeCorrect == Spec => []TypeOK
BY Invariance, PTL DEF IInv

-----------------------------------------------------------------------------
\* Two chunks do not share an item.
LEMMA Disjoint ==
  ASSUME IInv, NEW j \in 1..spawned, NEW k \in 1..spawned,
         NEW i \in Chunk(j), i \in Chunk(k)
  PROVE  j = k
<1> DEFINE c == ChunkSize
<1>1. /\ c \in Nat /\ j \in Nat /\ k \in Nat
      /\ Base(j) = (j - 1) * c /\ Base(k) = (k - 1) * c
      /\ Base(j) \in Nat /\ Base(k) \in Nat
      /\ Length(j) \in Nat /\ Length(k) \in Nat /\ Length(j) <= c /\ Length(k) <= c
  <2>1. c \in Nat /\ j \in Nat /\ k \in Nat
    BY ChunkSizeIs DEF IInv
  <2>2. Base(j) = (j - 1) * c /\ Base(k) = (k - 1) * c
    BY DEF Base
  <2>3. /\ Base(j) \in Nat /\ Base(k) \in Nat
        /\ Length(j) \in Nat /\ Length(k) \in Nat /\ Length(j) <= c /\ Length(k) <= c
    BY ChunkIs DEF IInv
  <2>4. QED
    BY <2>1, <2>2, <2>3
<1>2. i \in Nat /\ Base(j) < i /\ i <= Base(j) + c /\ Base(k) < i /\ i <= Base(k) + c
  BY <1>1 DEF Chunk
<1> HIDE DEF c
<1>3. ASSUME NEW m \in Nat \ {0}, NEW n \in Nat \ {0}, m < n
      PROVE  (m - 1) * c + c <= (n - 1) * c
  <2>1. m * c <= (n - 1) * c
    BY <1>1, <1>3
  <2>2. (m - 1) * c + c = m * c
    BY <1>1
  <2>3. QED
    BY <2>1, <2>2
<1>4. ~(j < k) /\ ~(k < j)
  BY <1>1, <1>2, <1>3
<1>5. QED
  BY <1>1, <1>4

\* What a join writes: a sentinel, or what the item's own call left.
LEMMA WrittenIs ==
  ASSUME IInv, NEW k \in 1..joined, NEW i \in Chunk(k)
  PROVE  /\ k \in 1..spawned
         /\ i \in Nat /\ i - Base(k) \in Nat
         /\ \/ worker[k].pc = "panicked" /\ Written(k, i) = Panicked
            \/ /\ i - Base(k) \in 1..Len(worker[k].local)
               /\ Len(worker[k].local) \in Nat
               /\ Written(k, i) = worker[k].local[i - Base(k)]
               /\ Written(k, i) \in {Cancelled, <<"ok", i>>, <<"ok_err", i>>, <<"err", i>>}
<1>1. k \in 1..spawned /\ k \in Items /\ Finished(k)
  BY JoinedFinished
<1>2. Base(k) \in Nat /\ Length(k) \in Nat
  BY <1>1, ChunkIs DEF IInv
<1>3. i \in Nat /\ i - Base(k) \in 1..Length(k)
  BY <1>2 DEF Chunk
<1>4. CASE worker[k].pc = "panicked"
  BY <1>1, <1>3, <1>4 DEF Written
<1>5. CASE worker[k].pc = "done"
  <2>1. Len(worker[k].local) = Length(k)
    BY <1>1, <1>5 DEF IInv, LocalInv, Sound
  <2>2. Written(k, i) = worker[k].local[i - Base(k)]
    BY <1>5 DEF Written
  <2>3. Written(k, i) \in Own(k, i - Base(k)) \cup {Cancelled}
    BY <1>1, <1>3, <2>1, <2>2 DEF IInv, LocalInv, Sound
  <2>4. Base(k) + (i - Base(k)) = i
    BY <1>2, <1>3
  <2>5. QED
    BY <1>1, <1>2, <1>3, <2>1, <2>2, <2>3, <2>4 DEF Own
<1>6. QED
  BY <1>1, <1>4, <1>5 DEF Finished

\* When the call has returned, every position is in a chunk that was joined.
LEMMA AllWritten ==
  ASSUME IInv, caller = "returned", NEW i \in 1..size
  PROVE  \E k \in 1..joined : i \in Chunk(k) /\ results[i] = Written(k, i)
<1>1. size \in Nat /\ i \in Nat /\ i <= size /\ joined * ChunkSize >= size
  BY FanOutAssumption DEF IInv, TypeOK, CallerInv, Exhausted
<1>2. joined * ChunkSize \in Nat
  BY ChunkSizeIs DEF IInv, TypeOK
<1>3. ~(i > joined * ChunkSize)
  BY <1>1, <1>2
<1>4. QED
  BY <1>3 DEF IInv, ResultInv

\* "Order-preserving": for every length, concurrency and schedule, position i
\* of the list holds what item i's own call left, or a sentinel, and the list
\* that par_map_run and get_many_fetch return has no unwritten position.
THEOREM Ordered == Spec => []OrderPreserved
<1>1. IInv => OrderPreserved
  <2> SUFFICES ASSUME IInv PROVE OrderPreserved
    OBVIOUS
  <2>1. Len(results) = size
    BY DEF IInv, TypeOK
  <2>2. ASSUME NEW i \in 1..size, results[i] \in Delivered
        PROVE  results[i][2] = i
    <3>1. results[i] # Nil
      BY <2>2 DEF Nil, Delivered
    <3>2. PICK k \in 1..joined : i \in Chunk(k) /\ results[i] = Written(k, i)
      BY <3>1 DEF IInv, ResultInv
    <3>3. results[i] \in {Panicked, Cancelled, <<"ok", i>>, <<"ok_err", i>>, <<"err", i>>}
      BY <3>2, WrittenIs
    <3>4. QED
      BY <2>2, <3>3 DEF Panicked, Cancelled, Delivered
  <2>3. ASSUME caller = "returned", NEW i \in 1..size
        PROVE  results[i] # Nil
    <3>1. PICK k \in 1..joined : i \in Chunk(k) /\ results[i] = Written(k, i)
      BY <2>3, AllWritten
    <3>2. results[i] \in {Panicked, Cancelled, <<"ok", i>>, <<"ok_err", i>>, <<"err", i>>}
      BY <3>1, WrittenIs
    <3>3. QED
      BY <3>2 DEF Nil, Panicked, Cancelled
  <2>4. QED
    BY <2>1, <2>2, <2>3 DEF OrderPreserved
<1>2. QED
  BY <1>1, Invariance, PTL

\* par_map_run never has more live threads than the concurrency it was given,
\* and get_many_fetch never more than its cap, for every length of the list.
THEOREM Capped == Spec => []ThreadsBounded
<1>1. IInv => ThreadsBounded
  <2> SUFFICES ASSUME IInv PROVE ThreadsBounded
    OBVIOUS
  <2> DEFINE Live == {k \in 1..spawned : ~Finished(k)}
             c == ChunkSize
  <2>1. /\ spawned \in Nat /\ joined \in Nat /\ joined <= spawned
        /\ threads \in Nat \ {0} /\ spawned <= joined + WaveSize /\ size \in Nat
        /\ MaxFetches \in Nat /\ spawned \in 0..MaxItems
        /\ op \in {"par_map", "get_many"}
    BY FanOutAssumption DEF IInv, TypeOK, CallerInv
  <2>2. Live \in SUBSET (joined + 1 .. spawned)
    <3>1. \A k \in Live : k \in 1..spawned /\ k \notin 1..joined
      BY JoinedFinished
    <3>2. QED
      BY <2>1, <3>1
  <2>3. /\ IsFiniteSet(joined + 1 .. spawned)
        /\ Cardinality(joined + 1 .. spawned) = spawned - joined
    <3>1. joined + 1 \in Int /\ spawned \in Int
      BY <2>1
    <3>2. IsFiniteSet(joined + 1 .. spawned)
      BY <3>1, FS_Interval
    <3>3. Cardinality(joined + 1 .. spawned) =
            IF joined + 1 > spawned THEN 0 ELSE spawned - (joined + 1) + 1
      BY <3>1, FS_Interval
    <3>4. QED
      BY <2>1, <3>2, <3>3
  <2>4. Cardinality(Live) \in Nat /\ Cardinality(Live) <= spawned - joined
    <3>1. IsFiniteSet(Live) /\ Cardinality(Live) <= Cardinality(joined + 1 .. spawned)
      BY <2>2, <2>3, FS_Subset
    <3>2. Cardinality(Live) \in Nat
      BY <3>1, FS_CardinalityType
    <3> HIDE DEF Live
    <3>3. QED
      BY <2>3, <3>1, <3>2
  <2>5. CASE op = "get_many"
    <3> DEFINE n == Cardinality(Live)
    <3>1. n \in Nat /\ n <= spawned - joined
      BY <2>4
    <3> HIDE DEF n
    <3>2. n <= MaxFetches
      BY <2>1, <2>5, <3>1 DEF WaveSize
    <3>3. QED
      BY <2>5, <3>2 DEF n, ThreadsBounded
  <2>6. CASE op = "par_map"
    <3>1. spawned > 0 => size > 0 /\ c > 0 /\ (spawned - 1) * c < size /\ c * threads >= size
      BY <2>1, <2>6, ChunkSizeIs DEF IInv, CallerInv, TypeOK
    <3>2. c \in Nat
      BY ChunkSizeIs DEF IInv
    <3> HIDE DEF c
    <3>3. spawned > threads => (spawned - 1) * c >= threads * c
      BY <2>1, <3>2
    <3>4. threads * c = c * threads /\ threads * c \in Nat /\ (spawned > 0 => (spawned - 1) * c \in Nat)
      BY <2>1, <3>2
    <3>5. spawned <= threads
      BY <2>1, <3>1, <3>3, <3>4
    <3>6. QED
      BY <2>1, <2>4, <2>6, <3>5 DEF ThreadsBounded
  <2>7. QED
    BY <2>1, <2>5, <2>6
<1>2. QED
  BY <1>1, Invariance, PTL

\* What the join of a chunk wrote is still there.
LEMMA StillWritten ==
  ASSUME IInv, NEW k \in 1..joined, NEW i \in Chunk(k)
  PROVE  i \in 1..size /\ results[i] = Written(k, i)
<1>1. /\ k \in 1..spawned /\ joined \in 0..spawned /\ spawned \in Nat
      /\ joined \in Nat /\ k \in Nat /\ k <= joined
      /\ size \in Nat
  BY FanOutAssumption DEF IInv, TypeOK
<1>2. /\ Base(k) \in Nat /\ Length(k) \in Nat /\ Base(k) + Length(k) <= size
      /\ Length(k) <= ChunkSize /\ ChunkSize \in Nat
  BY <1>1, ChunkIs, ChunkSizeIs DEF IInv
<1>3. i \in 1..size /\ i \in Nat /\ i <= Base(k) + ChunkSize
  BY <1>1, <1>2 DEF Chunk
<1>4. ~(i > joined * ChunkSize)
  <2> DEFINE c == ChunkSize
  <2>1. c \in Nat /\ Base(k) = (k - 1) * c
    BY <1>2 DEF Base
  <2>2. i <= (k - 1) * c + c
    BY <1>3, <2>1
  <2> HIDE DEF c
  <2> DEFINE x == (k - 1) * c + c
             y == joined * c
  <2>3. x = k * c
    BY <1>1, <2>1
  <2>4. k * c \in Nat /\ y \in Nat /\ k * c <= y
    BY <1>1, <2>1
  <2>5. i <= x
    BY <2>2
  <2> HIDE DEF x, y
  <2>6. ~(i > y)
    BY <1>3, <2>3, <2>4, <2>5
  <2>7. QED
    BY <2>6 DEF y, c
<1>5. PICK j \in 1..joined : i \in Chunk(j) /\ results[i] = Written(j, i)
  BY <1>3, <1>4 DEF IInv, ResultInv
<1>6. j \in 1..spawned
  BY <1>1
<1>7. j = k
  BY <1>1, <1>5, <1>6, Disjoint
<1>8. QED
  BY <1>3, <1>5, <1>7

\* par_map_run: in a joined chunk, everything after the first error, or after
\* the first time its thread saw the flag, is the cancellation sentinel.
THEOREM ChunksStop == Spec => []ChunkStopsAtError
<1>1. IInv => ChunkStopsAtError
  <2> SUFFICES ASSUME IInv, op = "par_map", NEW k \in 1..joined,
                      NEW i \in Chunk(k), NEW j \in Chunk(k), i < j,
                      results[i] \in {Cancelled, <<"err", i>>}
               PROVE  results[j] = Cancelled
    BY DEF ChunkStopsAtError
  <2>1. results[i] = Written(k, i) /\ results[j] = Written(k, j)
    BY StillWritten
  <2>2. worker[k].pc # "panicked"
    BY <2>1, WrittenIs DEF Written, Panicked, Cancelled
  <2>3. /\ k \in 1..spawned /\ i \in Nat /\ j \in Nat
        /\ i - Base(k) \in 1..Len(worker[k].local) /\ j - Base(k) \in 1..Len(worker[k].local)
        /\ Len(worker[k].local) \in Nat
        /\ worker[k].local[i - Base(k)] \in {Cancelled, <<"err", i>>}
        /\ results[j] = worker[k].local[j - Base(k)]
    BY <2>1, <2>2, WrittenIs
  <2>4. Base(k) \in Nat
    BY <2>3, ChunkIs DEF IInv
  <2>5. Base(k) + (i - Base(k)) = i
    BY <2>3, <2>4
  <2>6. \A m \in (i - Base(k)) + 1 .. Len(worker[k].local) : worker[k].local[m] = Cancelled
    BY <2>3, <2>5 DEF IInv, LocalInv, Sound
  <2>7. j - Base(k) \in (i - Base(k)) + 1 .. Len(worker[k].local)
    BY <2>3, <2>4
  <2>8. QED
    BY <2>3, <2>6, <2>7
<1>2. QED
  BY <1>1, Invariance, PTL

\* An item the function was never called on is never silent: in the list that
\* par_map_run returns it is a cancellation beside the error that caused it, or
\* lies in a panicked chunk; get_many_fetch skips nothing.
THEOREM Skipped == Spec => []SkipsExplained
<1>1. IInv => SkipsExplained
  <2> SUFFICES ASSUME IInv, caller = "returned", NEW i \in 1..size, i \notin called,
                      results[i] # Panicked \/ op # "par_map"
               PROVE  /\ op = "par_map"
                      /\ results[i] = Cancelled
                      /\ \E j \in 1..size : results[j] = <<"err", j>>
    BY DEF SkipsExplained
  <2>1. PICK k \in 1..joined : i \in Chunk(k) /\ results[i] = Written(k, i)
    BY AllWritten
  <2>2. /\ k \in 1..spawned /\ k \in Items /\ Sound(k, worker[k], called, cancelled)
        /\ Base(k) \in Nat /\ Length(k) \in Nat
        /\ op \in {"par_map", "get_many"}
        /\ op = "get_many" => Length(k) = 1
    BY <2>1, WrittenIs, ChunkIs DEF IInv, LocalInv, TypeOK
  <2>3. CASE worker[k].pc = "panicked"
    <3>1. Written(k, i) = Panicked
      BY <2>3 DEF Written
    <3>2. op = "get_many" /\ Base(k) + 1 \in called
      BY <2>1, <2>2, <2>3, <3>1 DEF Sound
    <3>3. i = Base(k) + 1
      BY <2>1, <2>2, <3>2 DEF Chunk
    <3>4. QED
      BY <3>2, <3>3
  <2>4. CASE worker[k].pc # "panicked"
    <3>1. /\ i - Base(k) \in 1..Len(worker[k].local)
          /\ Len(worker[k].local) \in Nat
          /\ results[i] = worker[k].local[i - Base(k)]
          /\ i \in Nat
      BY <2>1, <2>4, WrittenIs
    <3>2. Base(k) + (i - Base(k)) = i
      BY <2>2, <3>1
    <3>3. results[i] = Cancelled /\ op = "par_map"
      BY <2>2, <3>1, <3>2 DEF Sound
    <3>4. cancelled
      BY <2>2, <3>1, <3>3 DEF Sound
    <3>5. PICK m \in 1..spawned : Holds(m, worker[m])
      BY <3>4 DEF IInv, CauseInv
    <3>6. PICK n \in 1..Len(worker[m].local) : worker[m].local[n] = <<"err", Base(m) + n>>
      BY <3>5 DEF Holds
    <3> DEFINE j == Base(m) + n
    <3>7. /\ m \in 1..joined /\ m \in Items /\ Finished(m) /\ worker[m].saw
          /\ Sound(m, worker[m], called, cancelled)
      <4>1. m \in 1..joined
        BY <3>5 DEF IInv, CallerInv
      <4>2. m \in Items /\ Finished(m)
        BY <4>1, JoinedFinished
      <4>3. worker[m].saw
        BY <3>5 DEF Holds
      <4>4. Sound(m, worker[m], called, cancelled)
        BY <3>5 DEF IInv, LocalInv
      <4>5. QED
        BY <4>1, <4>2, <4>3, <4>4
    <3>8. worker[m].pc # "panicked"
      BY <3>7 DEF Sound
    <3>9. /\ Base(m) \in Nat /\ Length(m) \in Nat
          /\ Len(worker[m].local) \in Nat /\ Len(worker[m].local) <= Length(m)
      <4>1. worker[m].local \in Seq(Cell)
        BY <3>7 DEF IInv, TypeOK
      <4>2. QED
        BY <3>7, <4>1, ChunkIs DEF IInv, Sound
    <3>10. j \in Chunk(m) /\ j - Base(m) = n
      BY <3>9 DEF Chunk
    <3>11. Written(m, j) = <<"err", j>>
      BY <3>6, <3>8, <3>10 DEF Written
    <3>12. j \in 1..size /\ results[j] = <<"err", j>>
      BY <3>7, <3>10, <3>11, StillWritten
    <3>13. QED
      BY <3>3, <3>12
  <2>5. QED
    BY <2>3, <2>4
<1>2. QED
  BY <1>1, Invariance, PTL

=============================================================================
