---------------------------- MODULE VmHeapProofs ----------------------------
(***************************************************************************)
(* Proofs about module VmHeap, for every size of the heap, length of an    *)
(* object, depth of the stack and number of calls.                         *)
(*                                                                         *)
(* The invariant is in two layers.  Sound is about the books: every count  *)
(* is the number of references that the registers of the frames, the pool  *)
(* and the items of the objects hold (Ledger), a view looks into a list    *)
(* that is there, and a text has no counted items.  While an instruction   *)
(* runs, references are also in hand: counted, and not in a register yet.  *)
(* So the lemmas about clone_rc, drop_rc, the writes to a register and     *)
(* each instruction are about the running frame's machine (Books), what    *)
(* the other frames hold (rest) and what is in hand; dropping a reference  *)
(* takes one from the hand and frees whatever nothing else holds.          *)
(*                                                                         *)
(* Meant is about values: there is an assignment T of a value to each cell *)
(* such that an object's value is composed of those of its items, an order *)
(* in which items come before the objects that hold them, and the locals   *)
(* have under T the values that vals says.  An instruction that writes in  *)
(* place changes T at the one cell it writes, and nothing else refers to   *)
(* that cell when its count is 1.  The order is why the values are those   *)
(* that Tree computes, and why nothing survives only because it is part of *)
(* a cycle.                                                                *)
(*                                                                         *)
(* The second layer assumes Shapes = {}.  With "selfstore" or "ownalias"   *)
(* it fails, as the code does: the run VmAlias shows it.                   *)
(***************************************************************************)
EXTENDS VmHeap, FiniteSetTheorems, FunctionTheorems, SequenceTheorems,
        WellFoundedInduction, TLAPS

\* What a register or an item can hold.
Refs == 0..MaxCells

\* 1 if P holds, 0 otherwise.
Bit(P) == IF P THEN 1 ELSE 0

-----------------------------------------------------------------------------
(***************************************************************************)
(* Occurrences in registers and sequences.                                 *)
(***************************************************************************)
\* Where v is in s.
At(s, v) == {i \in DOMAIN s : s[i] = v}

\* Occurrences are counted by their places.
LEMMA OccursIs == \A s, v : Occurs(s, v) = Cardinality(At(s, v))
BY DEF Occurs, At

\* A finite set with and without one element.
LEMMA WithAndWithout ==
  ASSUME NEW S, IsFiniteSet(S), NEW x
  PROVE  /\ IsFiniteSet(S \ {x})
         /\ Cardinality(S) \in Nat
         /\ Cardinality(S \ {x}) \in Nat
         /\ Cardinality(S) = Cardinality(S \ {x}) + Bit(x \in S)
<1>1. /\ Cardinality(S) \in Nat
      /\ IsFiniteSet(S \ {x})
      /\ Cardinality(S \ {x}) = IF x \in S THEN Cardinality(S) - 1 ELSE Cardinality(S)
  BY FS_CardinalityType, FS_RemoveElement
<1>2. Cardinality(S \ {x}) \in Nat
  BY <1>1, FS_CardinalityType
<1>3. QED
  BY <1>1, <1>2 DEF Bit

\* A finite number of places, none when v does not occur.
LEMMA AtFinite ==
  ASSUME NEW s, IsFiniteSet(DOMAIN s), NEW v
  PROVE  IsFiniteSet(At(s, v)) /\ Occurs(s, v) \in Nat
         /\ (Occurs(s, v) = 0 <=> \A i \in DOMAIN s : s[i] # v)
<1>1. At(s, v) \in SUBSET DOMAIN s
  BY DEF At
<1>2. IsFiniteSet(At(s, v))
  BY <1>1, FS_Subset
<1>3. Cardinality(At(s, v)) \in Nat /\ (Cardinality(At(s, v)) = 0 <=> At(s, v) = {})
  BY <1>2, FS_CardinalityType, FS_EmptySet
<1>4. At(s, v) = {} <=> \A i \in DOMAIN s : s[i] # v
  BY DEF At
<1>5. QED
  BY <1>2, <1>3, <1>4, OccursIs

\* One place of s is overwritten.
LEMMA OccursExcept ==
  ASSUME NEW s, IsFiniteSet(DOMAIN s), NEW a \in DOMAIN s, NEW w, NEW v, NEW t,
         DOMAIN t = DOMAIN s, t[a] = w, \A i \in DOMAIN s : i # a => t[i] = s[i]
  PROVE  Occurs(t, v) = Occurs(s, v) - Bit(s[a] = v) + Bit(w = v)
<1>1. DOMAIN t = DOMAIN s /\ t[a] = w /\ \A i \in DOMAIN s : i # a => t[i] = s[i]
  OBVIOUS
<1>2. At(t, v) \ {a} = At(s, v) \ {a}
  BY <1>1 DEF At
<1>3. IsFiniteSet(At(t, v)) /\ IsFiniteSet(At(s, v))
  BY <1>1, AtFinite
<1>4. /\ Cardinality(At(t, v)) = Cardinality(At(t, v) \ {a}) + Bit(a \in At(t, v))
      /\ Cardinality(At(s, v)) = Cardinality(At(t, v) \ {a}) + Bit(a \in At(s, v))
      /\ Cardinality(At(t, v) \ {a}) \in Nat
  BY <1>2, <1>3, WithAndWithout
<1>5. (a \in At(t, v) <=> w = v) /\ (a \in At(s, v) <=> s[a] = v)
  BY <1>1 DEF At
<1>6. QED
  BY <1>4, <1>5, OccursIs DEF Bit

\* A bijection keeps the size.
LEMMA SameSize ==
  ASSUME NEW S, NEW T, IsFiniteSet(S), NEW f \in Bijection(S, T)
  PROVE  IsFiniteSet(T) /\ Cardinality(T) = Cardinality(S)
BY FS_Bijection DEF ExistsBijection

\* Places shifted by n.
LEMMA Shifted ==
  ASSUME NEW n \in Nat, NEW S \in SUBSET Nat, IsFiniteSet(S), NEW T,
         \A j \in S : n + j \in T, \A i \in T : \E j \in S : i = n + j
  PROVE  IsFiniteSet(T) /\ Cardinality(T) = Cardinality(S)
<1> DEFINE f == [j \in S |-> n + j]
<1>1. f \in [S -> T]
  OBVIOUS
<1>2. \A i, j \in S : f[i] = f[j] => i = j
  <2> SUFFICES ASSUME NEW i \in S, NEW j \in S, f[i] = f[j] PROVE i = j
    OBVIOUS
  <2>1. n + i = n + j /\ i \in Nat /\ j \in Nat
    OBVIOUS
  <2>2. QED
    BY <2>1
<1>3. \A i \in T : \E j \in S : f[j] = i
  OBVIOUS
<1>4. f \in Bijection(S, T)
  BY <1>1, <1>2, <1>3 DEF Bijection, Injection, Surjection, IsInjective
<1>5. QED
  BY <1>4, SameSize

\* The places of a list.
LEMMA SeqFinite == ASSUME NEW S, NEW s \in Seq(S) PROVE IsFiniteSet(DOMAIN s) /\ DOMAIN s = 1..Len(s) /\ Len(s) \in Nat
BY FS_Interval

\* Occurrences in two lists, one after the other.
LEMMA OccursConcat ==
  ASSUME NEW S, NEW s \in Seq(S), NEW t \in Seq(S), NEW v
  PROVE  Occurs(s \o t, v) = Occurs(s, v) + Occurs(t, v)
<1> DEFINE n == Len(s)
           B == {i \in (n + 1)..(n + Len(t)) : t[i - n] = v}
<1>1. /\ n \in Nat /\ Len(t) \in Nat
      /\ DOMAIN s = 1..n /\ DOMAIN t = 1..Len(t) /\ DOMAIN (s \o t) = 1..(n + Len(t))
      /\ \A i \in 1..n : (s \o t)[i] = s[i]
      /\ \A i \in (n + 1)..(n + Len(t)) : (s \o t)[i] = t[i - n]
  OBVIOUS
<1>2. At(s \o t, v) = At(s, v) \cup B
  <2>1. ASSUME NEW i \in 1..(n + Len(t)) PROVE i \in 1..n \/ i \in (n + 1)..(n + Len(t))
    BY <1>1
  <2>2. QED
    BY <1>1, <2>1 DEF At
<1>3. At(s, v) \cap B = {}
  BY <1>1 DEF At
<1>4. IsFiniteSet(At(s, v)) /\ IsFiniteSet(At(t, v)) /\ Cardinality(At(s, v)) \in Nat /\ Cardinality(At(t, v)) \in Nat
  BY SeqFinite, AtFinite, OccursIs
<1>5. IsFiniteSet(B) /\ Cardinality(B) = Cardinality(At(t, v))
  <2>1. At(t, v) \in SUBSET Nat
    BY <1>1 DEF At
  <2>2. \A j \in At(t, v) : n + j \in B
    BY <1>1 DEF At
  <2>3. \A i \in B : i - n \in At(t, v) /\ i = n + (i - n)
    BY <1>1 DEF At
  <2> HIDE DEF B, n
  <2>5. \A i \in B : \E j \in At(t, v) : i = n + j
    BY <2>3
  <2>4. QED
    BY <1>1, <1>4, <2>1, <2>2, <2>5, Shifted
<1> HIDE DEF B
<1>6. Cardinality(At(s \o t, v)) = Cardinality(At(s, v)) + Cardinality(At(t, v))
  <2>1. Cardinality(At(s, v) \cap B) = 0
    BY <1>3, FS_EmptySet
  <2>2. Cardinality(At(s, v) \cup B) = Cardinality(At(s, v)) + Cardinality(B) - Cardinality(At(s, v) \cap B)
    BY <1>4, <1>5, FS_Union
  <2>3. QED
    BY <1>2, <1>4, <1>5, <2>1, <2>2
<1>7. QED
  BY <1>6, OccursIs

\* Occurrences in a list of one.
LEMMA OccursOne == \A w, v : Occurs(<<w>>, v) = Bit(w = v)
<1> SUFFICES ASSUME NEW w, NEW v PROVE Occurs(<<w>>, v) = Bit(w = v)
  OBVIOUS
<1>1. At(<<w>>, v) = IF w = v THEN {1} ELSE {}
  BY DEF At
<1>2. QED
  BY <1>1, OccursIs, FS_Singleton, FS_EmptySet DEF Bit

\* Nothing occurs in the empty list.
LEMMA OccursNone == \A v : Occurs(<<>>, v) = 0
<1> SUFFICES ASSUME NEW v PROVE Occurs(<<>>, v) = 0
  OBVIOUS
<1>1. At(<<>>, v) = {}
  BY DEF At
<1>2. QED
  BY <1>1, OccursIs, FS_EmptySet

\* What is taken from the front of a list.
LEMMA OccursHead ==
  ASSUME NEW S, NEW s \in Seq(S), s # <<>>, NEW v
  PROVE  Occurs(s, v) = Bit(Head(s) = v) + Occurs(Tail(s), v)
<1>1. s = <<Head(s)>> \o Tail(s) /\ <<Head(s)>> \in Seq(S) /\ Tail(s) \in Seq(S)
  OBVIOUS
<1>2. Occurs(<<Head(s)>> \o Tail(s), v) = Occurs(<<Head(s)>>, v) + Occurs(Tail(s), v)
  BY <1>1, OccursConcat
<1>3. Occurs(s, v) = Occurs(<<Head(s)>> \o Tail(s), v)
  BY <1>1, Zenon
<1>4. Occurs(<<Head(s)>>, v) = Bit(Head(s) = v)
  BY OccursOne
<1>5. QED
  BY <1>2, <1>3, <1>4

\* One more at the end.
LEMMA OccursAppend ==
  ASSUME NEW S, NEW s \in Seq(S), NEW w \in S, NEW v
  PROVE  Occurs(Append(s, w), v) = Occurs(s, v) + Bit(w = v)
<1>1. <<w>> \in Seq(S)
  OBVIOUS
<1>2. Occurs(s \o <<w>>, v) = Occurs(s, v) + Occurs(<<w>>, v)
  BY <1>1, OccursConcat
<1>3. Occurs(Append(s, w), v) = Occurs(s \o <<w>>, v)
  <2>1. Append(s, w) = s \o <<w>>
    OBVIOUS
  <2>2. QED
    BY <2>1, Zenon
<1>4. Occurs(<<w>>, v) = Bit(w = v)
  BY OccursOne
<1>5. QED
  BY <1>2, <1>3, <1>4

\* The same places in another order.
LEMMA OccursReverse ==
  ASSUME NEW S, NEW s \in Seq(S), NEW v
  PROVE  Occurs(Reverse(s), v) = Occurs(s, v) /\ Reverse(s) \in Seq(S) /\ Len(Reverse(s)) = Len(s)
         /\ \A i \in 1..Len(s) : Reverse(s)[i] = s[Len(s) + 1 - i]
<1> DEFINE n == Len(s)
           r == [i \in 1..n |-> s[(n - i) + 1]]
           f == [i \in At(s, v) |-> n + 1 - i]
<1>1. n \in Nat /\ DOMAIN s = 1..n /\ \A i \in 1..n : s[i] \in S
  OBVIOUS
<1>2. Reverse(s) = r
  BY DEF Reverse
<1>3. r \in Seq(S) /\ Len(r) = n /\ DOMAIN r = 1..n /\ \A i \in 1..n : r[i] = s[n + 1 - i]
  BY <1>1
<1> HIDE DEF r, n
<1>4. At(r, v) = {i \in 1..n : s[n + 1 - i] = v} /\ At(s, v) = {i \in 1..n : s[i] = v}
  BY <1>1, <1>3 DEF At
<1>5. f \in [At(s, v) -> At(r, v)]
  BY <1>1, <1>4
<1>6. \A i, j \in At(s, v) : f[i] = f[j] => i = j
  BY <1>1, <1>4
<1>7. \A i \in At(r, v) : \E j \in At(s, v) : f[j] = i
  <2> SUFFICES ASSUME NEW i \in At(r, v) PROVE \E j \in At(s, v) : f[j] = i
    OBVIOUS
  <2>1. n + 1 - i \in At(s, v) /\ f[n + 1 - i] = i
    BY <1>1, <1>4
  <2>2. QED
    BY <2>1
<1>8. f \in Bijection(At(s, v), At(r, v))
  BY <1>5, <1>6, <1>7 DEF Bijection, Injection, Surjection, IsInjective
<1>9. IsFiniteSet(At(s, v))
  BY SeqFinite, AtFinite
<1> HIDE DEF f
<1>10. Cardinality(At(r, v)) = Cardinality(At(s, v))
  BY <1>8, <1>9, SameSize
<1>11. QED
  BY <1>2, <1>3, <1>10, OccursIs DEF n

-----------------------------------------------------------------------------
(***************************************************************************)
(* The items of the objects outside a set X.                               *)
(***************************************************************************)
Objects ==
  [kind : Kinds \cup {"free"}, items : {s \in Seq(Refs) : Len(s) <= MaxLen}, start : Nat, rc : Nat]

Heaps == [Cells -> Objects]

HeldIn(h, X, o) ==
  {s \in (Cells \ X) \X (1..MaxLen) : s[2] <= Len(h[s[1]].items) /\ h[s[1]].items[s[2]] = o}

InItems(h, X, o) == Cardinality(HeldIn(h, X, o))

\* The parts of an object.
LEMMA ObjectIs ==
  ASSUME NEW h \in Heaps, NEW p \in Cells
  PROVE  /\ h[p] \in Objects
         /\ h[p].kind \in Kinds \cup {"free"}
         /\ h[p].items \in Seq(Refs) /\ Len(h[p].items) \in Nat /\ Len(h[p].items) <= MaxLen
         /\ DOMAIN h[p].items = 1..Len(h[p].items)
         /\ \A i \in 1..Len(h[p].items) : h[p].items[i] \in Refs
         /\ h[p].start \in Nat /\ h[p].rc \in Nat
BY DEF Heaps, Objects

\* What the constants are.
LEMMA BoundsAre == /\ MaxCells \in Nat \ {0} /\ MaxLen \in Nat \ {0} /\ MaxDepth \in Nat \ {0}
                   /\ IsFiniteSet(Cells) /\ IsFiniteSet(1..MaxLen) /\ IsFiniteSet(Refs) /\ IsFiniteSet(Regs)
                   /\ Cells \subseteq Refs /\ Nil \in Refs /\ Nil \notin Cells
<1>1. /\ MaxCells \in Nat \ {0} /\ MaxLen \in Nat \ {0} /\ MaxDepth \in Nat \ {0}
  BY HeapAssumption
<1>2. IsFiniteSet(1..MaxCells) /\ IsFiniteSet(1..MaxLen) /\ IsFiniteSet(0..MaxCells) /\ IsFiniteSet(1..5)
  <2>1. \A m, n \in Int : IsFiniteSet(m..n)
    BY FS_Interval
  <2>2. MaxCells \in Int /\ MaxLen \in Int /\ 0 \in Int /\ 1 \in Int /\ 5 \in Int
    BY <1>1
  <2>3. QED
    BY <2>1, <2>2
<1>3. QED
  BY <1>1, <1>2 DEF Cells, Refs, Regs, Nil

\* The items that refer to o are counted by a number.
LEMMA HeldFinite ==
  ASSUME NEW h, NEW X, NEW o
  PROVE  /\ IsFiniteSet(HeldIn(h, X, o)) /\ InItems(h, X, o) \in Nat
         /\ (InItems(h, X, o) = 0 <=> HeldIn(h, X, o) = {})
<1>1. IsFiniteSet(Cells \X (1..MaxLen))
  BY BoundsAre, FS_Product
<1>2. HeldIn(h, X, o) \in SUBSET (Cells \X (1..MaxLen))
  BY DEF HeldIn
<1>3. IsFiniteSet(HeldIn(h, X, o))
  BY <1>1, <1>2, FS_Subset
<1>4. QED
  BY <1>3, FS_CardinalityType, FS_EmptySet DEF InItems

\* Nobody holds o.
LEMMA NoneHeld ==
  ASSUME NEW h \in Heaps, NEW X \in SUBSET Cells, NEW o
  PROVE  InItems(h, X, o) = 0 <=> \A p \in Cells \ X : \A i \in DOMAIN h[p].items : h[p].items[i] # o
<1>1. ASSUME HeldIn(h, X, o) = {}, NEW p \in Cells \ X, NEW i \in DOMAIN h[p].items PROVE h[p].items[i] # o
  <2>1. i \in 1..Len(h[p].items) /\ Len(h[p].items) \in Nat /\ Len(h[p].items) <= MaxLen
    BY ObjectIs
  <2>2. <<p, i>> \in (Cells \ X) \X (1..MaxLen)
    BY <2>1, BoundsAre
  <2>3. QED
    BY <1>1, <2>1, <2>2 DEF HeldIn
<1>2. ASSUME \A p \in Cells \ X : \A i \in DOMAIN h[p].items : h[p].items[i] # o, NEW s \in HeldIn(h, X, o) PROVE FALSE
  <2>1. s[1] \in Cells \ X /\ s[2] \in 1..MaxLen /\ s[2] <= Len(h[s[1]].items) /\ h[s[1]].items[s[2]] = o
    BY DEF HeldIn
  <2>2. s[2] \in DOMAIN h[s[1]].items
    BY <2>1, ObjectIs, BoundsAre
  <2>3. QED
    BY <1>2, <2>1, <2>2
<1>3. QED
  BY <1>1, <1>2, HeldFinite

\* The items of one object apart.
LEMMA Split ==
  ASSUME NEW h \in Heaps, NEW X \in SUBSET Cells, NEW p \in Cells \ X, NEW o
  PROVE  InItems(h, X, o) = InItems(h, X \cup {p}, o) + Occurs(h[p].items, o)
<1> DEFINE A == At(h[p].items, o)
           B == {s \in {p} \X (1..MaxLen) : s[2] \in A}
           f == [i \in A |-> <<p, i>>]
<1>1. /\ DOMAIN h[p].items = 1..Len(h[p].items) /\ Len(h[p].items) \in Nat /\ Len(h[p].items) <= MaxLen
      /\ h[p].items \in Seq(Refs)
  BY ObjectIs
<1>2. A \subseteq 1..MaxLen /\ A = {i \in 1..Len(h[p].items) : h[p].items[i] = o}
  BY <1>1, BoundsAre DEF At
<1>3. HeldIn(h, X, o) = HeldIn(h, X \cup {p}, o) \cup B
  <2>1. ASSUME NEW s \in HeldIn(h, X, o) PROVE s \in HeldIn(h, X \cup {p}, o) \cup B
    <3>1. s \in (Cells \ X) \X (1..MaxLen) /\ s[2] <= Len(h[s[1]].items) /\ h[s[1]].items[s[2]] = o
      BY DEF HeldIn
    <3>2. CASE s[1] = p
      <4>1. s[2] \in A
        BY <3>1, <3>2, <1>2
      <4>2. s \in {p} \X (1..MaxLen)
        BY <3>1, <3>2
      <4>3. QED
        BY <4>1, <4>2
    <3>3. CASE s[1] # p
      <4>1. s \in (Cells \ (X \cup {p})) \X (1..MaxLen)
        BY <3>1, <3>3
      <4>2. QED
        BY <3>1, <4>1 DEF HeldIn
    <3>4. QED
      BY <3>2, <3>3
  <2>2. ASSUME NEW s \in HeldIn(h, X \cup {p}, o) PROVE s \in HeldIn(h, X, o)
    <3>1. s \in (Cells \ (X \cup {p})) \X (1..MaxLen) /\ s[2] <= Len(h[s[1]].items) /\ h[s[1]].items[s[2]] = o
      BY DEF HeldIn
    <3>2. s \in (Cells \ X) \X (1..MaxLen)
      BY <3>1
    <3>3. QED
      BY <3>1, <3>2 DEF HeldIn
  <2>3. ASSUME NEW s \in B PROVE s \in HeldIn(h, X, o)
    <3>1. s \in (Cells \ X) \X (1..MaxLen) /\ s[1] = p /\ s[2] \in A
      OBVIOUS
    <3>2. s[2] <= Len(h[s[1]].items) /\ h[s[1]].items[s[2]] = o
      BY <1>1, <1>2, <3>1
    <3> HIDE DEF B, A
    <3>3. QED
      BY <3>1, <3>2 DEF HeldIn
  <2> HIDE DEF B
  <2>4. QED
    BY <2>1, <2>2, <2>3
<1>4. HeldIn(h, X \cup {p}, o) \cap B = {}
  BY DEF HeldIn
<1>5. f \in Bijection(A, B)
  <2>1. f \in [A -> B]
    BY <1>2
  <2>2. \A i, j \in A : f[i] = f[j] => i = j
    OBVIOUS
  <2>3. \A s \in B : f[s[2]] = s /\ s[2] \in A
    OBVIOUS
  <2> HIDE DEF f, B, A
  <2>4. QED
    BY <2>1, <2>2, <2>3 DEF Bijection, Injection, Surjection, IsInjective
<1>6. IsFiniteSet(A) /\ Cardinality(A) = Occurs(h[p].items, o) /\ Occurs(h[p].items, o) \in Nat
  <2>1. IsFiniteSet(DOMAIN h[p].items)
    BY <1>1, FS_Interval
  <2>2. QED
    BY <2>1, AtFinite, OccursIs
<1> HIDE DEF f, B, A
<1>7. IsFiniteSet(B) /\ Cardinality(B) = Occurs(h[p].items, o)
  BY <1>5, <1>6, SameSize
<1>8. Cardinality(HeldIn(h, X \cup {p}, o) \cap B) = 0
  BY <1>4, FS_EmptySet
<1>9. Cardinality(HeldIn(h, X \cup {p}, o) \cup B)
        = Cardinality(HeldIn(h, X \cup {p}, o)) + Cardinality(B) - Cardinality(HeldIn(h, X \cup {p}, o) \cap B)
  BY <1>7, HeldFinite, FS_Union
<1>10. Cardinality(HeldIn(h, X \cup {p}, o)) \in Nat
  BY HeldFinite, FS_CardinalityType
<1>11. QED
  BY <1>3, <1>6, <1>7, <1>8, <1>9, <1>10 DEF InItems

\* The same items refer to the same objects.
LEMMA SameItems ==
  ASSUME NEW h, NEW g, NEW X \in SUBSET Cells, NEW o,
         \A p \in Cells \ X : g[p].items = h[p].items
  PROVE  InItems(g, X, o) = InItems(h, X, o)
<1>1. HeldIn(g, X, o) = HeldIn(h, X, o)
  BY DEF HeldIn
<1>2. QED
  BY <1>1 DEF InItems

\* The items of one object change.
LEMMA ItemsChange ==
  ASSUME NEW h \in Heaps, NEW g \in Heaps, NEW X \in SUBSET Cells, NEW p \in Cells, NEW o,
         \A q \in Cells \ {p} : g[q].items = h[q].items
  PROVE  InItems(g, X, o) =
           IF p \in X THEN InItems(h, X, o)
           ELSE InItems(h, X, o) - Occurs(h[p].items, o) + Occurs(g[p].items, o)
<1>1. CASE p \in X
  <2>1. \A q \in Cells \ X : g[q].items = h[q].items
    BY <1>1
  <2>2. QED
    BY <1>1, <2>1, SameItems
<1>2. CASE p \notin X
  <2>1. InItems(h, X, o) = InItems(h, X \cup {p}, o) + Occurs(h[p].items, o)
    BY <1>2, Split
  <2>2. InItems(g, X, o) = InItems(g, X \cup {p}, o) + Occurs(g[p].items, o)
    BY <1>2, Split
  <2>3. InItems(g, X \cup {p}, o) = InItems(h, X \cup {p}, o)
    BY SameItems
  <2>4. Occurs(h[p].items, o) \in Nat /\ Occurs(g[p].items, o) \in Nat
    <3>1. IsFiniteSet(DOMAIN h[p].items) /\ IsFiniteSet(DOMAIN g[p].items)
      BY ObjectIs, SeqFinite
    <3>2. QED
      BY <3>1, AtFinite
  <2>5. InItems(h, X \cup {p}, o) \in Nat
    BY HeldFinite
  <2>6. QED
    BY <1>2, <2>1, <2>2, <2>3, <2>4, <2>5
<1>3. QED
  BY <1>1, <1>2

-----------------------------------------------------------------------------
(***************************************************************************)
(* The books of the heap h: the count of each object is what is held       *)
(* elsewhere (rest), by the references in hand, and by items of objects    *)
(* that are not in X, whose items are being replaced.                      *)
(***************************************************************************)
Counted(h, X, rest, hand) ==
  \A o \in Cells : h[o].rc = rest[o] + Occurs(hand, o) + InItems(h, X, o)

\* An object is there while its count is positive.
FreeIffZero(h) ==
  \A o \in Cells : /\ h[o].kind = "free" <=> h[o].rc = 0
                   /\ h[o].kind = "free" => h[o].items = <<>>

\* A view looks into a list, at one of its places.
ViewOk(h, o) ==
  /\ Len(h[o].items) = 1 /\ h[o].items[1] \in Cells
  /\ h[h[o].items[1]].kind = "list"
  /\ h[o].start \in 1..Len(h[h[o].items[1]].items)

ViewsOk(h, X) == \A o \in Cells \ X : h[o].kind = "view" => ViewOk(h, o)

\* A text refers to nothing.
TextsPlain(h) ==
  \A o \in Cells : h[o].kind = "text" => \A i \in DOMAIN h[o].items : h[o].items[i] = Nil

Ledger(h, X, rest, hand) ==
  /\ h \in Heaps /\ X \in SUBSET Cells /\ rest \in [Cells -> Nat] /\ hand \in Seq(Refs)
  /\ \A o \in X : rest[o] > 0
  /\ Counted(h, X, rest, hand)
  /\ FreeIffZero(h) /\ ViewsOk(h, X) /\ TextsPlain(h)

\* Objects are freed and counts change, and nothing else.
Shrunk(h, g) ==
  \A o \in Cells : \/ g[o].kind = "free"
                   \/ g[o].kind = h[o].kind /\ g[o].items = h[o].items /\ g[o].start = h[o].start

\* Freeing twice is freeing.
LEMMA ShrunkTwice ==
  ASSUME NEW h, NEW g, NEW k, Shrunk(h, g), Shrunk(g, k) PROVE Shrunk(h, k)
BY DEF Shrunk

\* Nothing has to be freed.
LEMMA ShrunkItself == \A h : Shrunk(h, h)
BY DEF Shrunk

\* The parts of the equation are numbers.
LEMMA Numbers ==
  ASSUME NEW h \in Heaps, NEW X \in SUBSET Cells, NEW rest \in [Cells -> Nat], NEW hand \in Seq(Refs), NEW o \in Cells
  PROVE  /\ h[o].rc \in Nat /\ rest[o] \in Nat /\ Occurs(hand, o) \in Nat /\ InItems(h, X, o) \in Nat
         /\ Occurs(h[o].items, o) \in Nat
<1>1. IsFiniteSet(DOMAIN hand) /\ IsFiniteSet(DOMAIN h[o].items)
  BY ObjectIs, SeqFinite
<1>2. QED
  BY <1>1, AtFinite, HeldFinite, ObjectIs

\* What is in hand is there.
LEMMA InHandIsThere ==
  ASSUME NEW h, NEW X, NEW rest, NEW hand, Ledger(h, X, rest, hand), NEW i \in DOMAIN hand, hand[i] # Nil
  PROVE  hand[i] \in Cells /\ h[hand[i]].rc > 0 /\ h[hand[i]].kind # "free"
<1>1. hand[i] \in Cells
  <2>1. hand \in Seq(Refs)
    BY DEF Ledger
  <2>2. hand[i] \in Refs
    BY <2>1
  <2>3. QED
    BY <2>2, BoundsAre DEF Refs, Cells, Nil
<1>2. IsFiniteSet(DOMAIN hand)
  BY SeqFinite DEF Ledger
<1>3. Occurs(hand, hand[i]) # 0
  BY <1>2, AtFinite
<1>4. h[hand[i]].rc > 0
  BY <1>1, <1>3, Numbers DEF Ledger, Counted
<1>5. QED
  BY <1>1, <1>4 DEF Ledger, FreeIffZero

\* No item refers to an object that no item holds.
LEMMA NotHeld ==
  ASSUME NEW h \in Heaps, NEW X \in SUBSET Cells, NEW o, InItems(h, X, o) = 0,
         NEW p \in Cells \ X, NEW i \in DOMAIN h[p].items
  PROVE  h[p].items[i] # o
BY NoneHeld

\* The live objects.
Live(h) == {o \in Cells : h[o].kind # "free"}

\* The live objects are counted by a number.
LEMMA LiveIs == \A h : IsFiniteSet(Live(h)) /\ Cardinality(Live(h)) \in Nat /\ Cardinality(Live(h)) <= MaxCells
<1> SUFFICES ASSUME NEW h PROVE IsFiniteSet(Live(h)) /\ Cardinality(Live(h)) \in Nat /\ Cardinality(Live(h)) <= MaxCells
  OBVIOUS
<1>1. Live(h) \in SUBSET Cells
  BY DEF Live
<1>2. Cardinality(Cells) = MaxCells
  BY BoundsAre, FS_Interval DEF Cells
<1>3. QED
  BY <1>1, <1>2, BoundsAre, FS_Subset, FS_CardinalityType

\* At most so many references are still to be dropped.
Work(t) == Len(t.todo) + MaxLen * Cardinality(Live(t.heap))

-----------------------------------------------------------------------------
\* The first reference is nil.
LEMMA ReleaseNil ==
  ASSUME NEW h, NEW X, NEW rest, NEW todo, Ledger(h, X, rest, todo), todo # <<>>, Head(todo) = Nil
  PROVE  Ledger(h, X, rest, Tail(todo)) /\ Len(Tail(todo)) = Len(todo) - 1
<1>1. todo \in Seq(Refs) /\ Tail(todo) \in Seq(Refs) /\ Len(Tail(todo)) = Len(todo) - 1
  BY DEF Ledger
<1>2. \A o \in Cells : Occurs(todo, o) = Bit(Head(todo) = o) + Occurs(Tail(todo), o)
  BY <1>1, OccursHead
<1>3. \A o \in Cells : Bit(Head(todo) = o) = 0
  BY BoundsAre DEF Bit
<1>4. \A o \in Cells : Occurs(Tail(todo), o) \in Nat
  BY <1>1, SeqFinite, AtFinite
<1>5. \A o \in Cells : Occurs(todo, o) = Occurs(Tail(todo), o)
  BY <1>2, <1>3, <1>4
<1>6. Counted(h, X, rest, Tail(todo))
  BY <1>5 DEF Ledger, Counted
<1>7. QED
  BY <1>1, <1>6 DEF Ledger

\* One cell of the heap is replaced.
LEMMA HeapExcept ==
  ASSUME NEW h \in Heaps, NEW v \in Cells, NEW x \in Objects
  PROVE  /\ [h EXCEPT ![v] = x] \in Heaps
         /\ \A o \in Cells \ {v} : [h EXCEPT ![v] = x][o] = h[o]
         /\ [h EXCEPT ![v] = x][v] = x
BY DEF Heaps

\* A free cell is an object of the heap.
LEMMA FreeObject == Free \in Objects
<1>1. <<>> \in Seq(Refs) /\ Len(<<>>) = 0
  OBVIOUS
<1>2. QED
  BY <1>1, BoundsAre DEF Free, Objects

\* The count of an object is replaced.
LEMMA Recounted ==
  ASSUME NEW x \in Objects, NEW n \in Nat
  PROVE  LET y == [x EXCEPT !.rc = n]
         IN  y \in Objects /\ y.kind = x.kind /\ y.items = x.items /\ y.start = x.start /\ y.rc = n
BY DEF Objects

\* It is one of several references to its object.
LEMMA ReleaseOne ==
  ASSUME NEW h, NEW X, NEW rest, NEW todo, Ledger(h, X, rest, todo), todo # <<>>, NEW v \in Cells, Head(todo) = v,
         h[v].rc > 1, NEW g \in Heaps, \A o \in Cells \ {v} : g[o] = h[o],
         g[v].kind = h[v].kind, g[v].items = h[v].items, g[v].start = h[v].start, g[v].rc = h[v].rc - 1
  PROVE  /\ Ledger(g, X, rest, Tail(todo)) /\ Len(Tail(todo)) = Len(todo) - 1
         /\ Shrunk(h, g) /\ Live(g) = Live(h)
<1>1. /\ todo \in Seq(Refs) /\ Tail(todo) \in Seq(Refs) /\ Len(Tail(todo)) = Len(todo) - 1
      /\ h \in Heaps /\ X \in SUBSET Cells /\ rest \in [Cells -> Nat]
  BY DEF Ledger
<1>2. g[v].rc \in Nat /\ g[v].rc > 0
  BY <1>1, ObjectIs
<1>4. \A o \in Cells : g[o].kind = h[o].kind /\ g[o].items = h[o].items /\ g[o].start = h[o].start
  OBVIOUS
<1>5. Counted(g, X, rest, Tail(todo))
  <2> SUFFICES ASSUME NEW o \in Cells
               PROVE  g[o].rc = rest[o] + Occurs(Tail(todo), o) + InItems(g, X, o)
    BY DEF Counted
  <2>1. InItems(g, X, o) = InItems(h, X, o)
    <3>1. \A p \in Cells \ X : g[p].items = h[p].items
      BY <1>4
    <3> HIDE DEF Heaps
    <3>2. QED
      BY <1>1, <3>1, SameItems
  <2>2. Occurs(todo, o) = Bit(v = o) + Occurs(Tail(todo), o)
    BY <1>1, OccursHead
  <2>3. h[o].rc = rest[o] + Occurs(todo, o) + InItems(h, X, o)
    BY DEF Ledger, Counted
  <2>4. /\ h[o].rc \in Nat /\ rest[o] \in Nat /\ Occurs(Tail(todo), o) \in Nat /\ InItems(h, X, o) \in Nat
    BY <1>1, Numbers
  <2>5. g[o].rc = h[o].rc - Bit(v = o)
    BY <1>2, <2>4 DEF Bit
  <2>6. Bit(v = o) \in Nat
    BY DEF Bit
  <2>7. QED
    BY <2>1, <2>2, <2>3, <2>4, <2>5, <2>6
<1>6. FreeIffZero(g)
  BY <1>2, <1>4 DEF Ledger, FreeIffZero
<1>7. ViewsOk(g, X) /\ TextsPlain(g)
  <2>1. ViewsOk(h, X) /\ TextsPlain(h)
    BY DEF Ledger
  <2>2. ASSUME NEW o \in Cells \ X, g[o].kind = "view" PROVE ViewOk(g, o)
    <3>1. ViewOk(h, o)
      BY <1>4, <2>1, <2>2 DEF ViewsOk
    <3>2. QED
      BY <1>4, <3>1 DEF ViewOk
  <2>3. TextsPlain(g)
    BY <1>4, <2>1 DEF TextsPlain
  <2>4. QED
    BY <2>2, <2>3 DEF ViewsOk
<1>8. Shrunk(h, g) /\ Live(g) = Live(h)
  BY <1>4 DEF Shrunk, Live
<1>9. QED
  BY <1>1, <1>5, <1>6, <1>7, <1>8 DEF Ledger

\* It is the last one: the object goes, and its items are to be dropped.
LEMMA ReleaseLast ==
  ASSUME NEW h, NEW X, NEW rest, NEW todo, Ledger(h, X, rest, todo), todo # <<>>, NEW v \in Cells, Head(todo) = v,
         ~(h[v].rc > 1), NEW g \in Heaps, \A o \in Cells \ {v} : g[o] = h[o], g[v] = Free
  PROVE  /\ Ledger(g, X, rest, h[v].items \o Tail(todo))
         /\ Len(h[v].items \o Tail(todo)) + 1 <= Len(todo) + MaxLen
         /\ Shrunk(h, g) /\ Live(g) = Live(h) \ {v} /\ v \in Live(h)
<1>1. /\ todo \in Seq(Refs) /\ Tail(todo) \in Seq(Refs) /\ Len(Tail(todo)) = Len(todo) - 1
      /\ h \in Heaps /\ X \in SUBSET Cells /\ rest \in [Cells -> Nat] /\ Len(todo) \in Nat
  BY DEF Ledger
<1>2. h[v].items \in Seq(Refs) /\ Len(h[v].items) \in Nat /\ Len(h[v].items) <= MaxLen
  BY <1>1, ObjectIs
<1>3. /\ h[v].items \o Tail(todo) \in Seq(Refs)
      /\ Len(h[v].items \o Tail(todo)) = Len(h[v].items) + Len(Tail(todo))
  BY <1>1, <1>2
<1>4. 1 \in DOMAIN todo /\ todo[1] = v
  BY <1>1
<1>5. /\ h[v].rc = 1 /\ h[v].kind # "free" /\ rest[v] = 0 /\ InItems(h, X, v) = 0
  <2>1. h[v].rc > 0 /\ h[v].kind # "free"
    BY <1>4, InHandIsThere, BoundsAre
  <2>2. Occurs(todo, v) = Bit(v = v) + Occurs(Tail(todo), v)
    BY <1>1, OccursHead
  <2>3. h[v].rc = rest[v] + Occurs(todo, v) + InItems(h, X, v)
    BY DEF Ledger, Counted
  <2>4. /\ h[v].rc \in Nat /\ rest[v] \in Nat /\ Occurs(Tail(todo), v) \in Nat /\ InItems(h, X, v) \in Nat
    BY <1>1, Numbers
  <2>5. QED
    BY <2>1, <2>2, <2>3, <2>4 DEF Bit
<1>6. v \notin X
  BY <1>5 DEF Ledger
<1>10. Counted(g, X, rest, h[v].items \o Tail(todo))
  <2> SUFFICES ASSUME NEW o \in Cells
               PROVE  g[o].rc = rest[o] + Occurs(h[v].items \o Tail(todo), o) + InItems(g, X, o)
    BY DEF Counted
  <2>1. InItems(g, X, o) = InItems(h, X, o) - Occurs(h[v].items, o)
    <3>1. InItems(g, X, o) = InItems(h, X, o) - Occurs(h[v].items, o) + Occurs(<<>>, o)
      <4>1. (\A q \in Cells \ {v} : g[q].items = h[q].items) /\ g[v].items = <<>>
        BY DEF Free
      <4>2. InItems(g, X, o) = IF v \in X THEN InItems(h, X, o)
                                ELSE InItems(h, X, o) - Occurs(h[v].items, o) + Occurs(g[v].items, o)
        BY <1>1, <4>1, ItemsChange
      <4>3. QED
        BY <1>6, <4>1, <4>2
    <3>2. IsFiniteSet(DOMAIN h[v].items)
      BY <1>2, SeqFinite
    <3>3. Occurs(h[v].items, o) \in Nat /\ InItems(h, X, o) \in Nat
      BY <3>2, AtFinite, HeldFinite
    <3>4. QED
      BY <3>1, <3>3, OccursNone
  <2>2. Occurs(todo, o) = Bit(v = o) + Occurs(Tail(todo), o)
    BY <1>1, OccursHead
  <2>3. Occurs(h[v].items \o Tail(todo), o) = Occurs(h[v].items, o) + Occurs(Tail(todo), o)
    <3> DEFINE s == h[v].items
               r == Tail(todo)
    <3>1. s \in Seq(Refs) /\ r \in Seq(Refs)
      BY <1>1, <1>2
    <3> HIDE DEF s, r
    <3>2. Occurs(s \o r, o) = Occurs(s, o) + Occurs(r, o)
      BY <3>1, OccursConcat
    <3>3. QED
      BY <3>2 DEF s, r
  <2>4. h[o].rc = rest[o] + Occurs(todo, o) + InItems(h, X, o)
    BY DEF Ledger, Counted
  <2>5. /\ h[o].rc \in Nat /\ rest[o] \in Nat /\ Occurs(Tail(todo), o) \in Nat /\ InItems(h, X, o) \in Nat
    BY <1>1, Numbers
  <2>6. Occurs(h[v].items, o) \in Nat
    BY <1>2, SeqFinite, AtFinite
  <2>7. g[o].rc = h[o].rc - Bit(v = o)
    BY <1>5, <2>5 DEF Bit, Free
  <2>8. Bit(v = o) \in Nat
    BY DEF Bit
  <2>9. QED
    BY <2>1, <2>2, <2>3, <2>4, <2>5, <2>6, <2>7, <2>8
<1>11. FreeIffZero(g)
  BY DEF Ledger, FreeIffZero, Free
<1>12. ViewsOk(g, X)
  <2> SUFFICES ASSUME NEW o \in Cells \ X, g[o].kind = "view" PROVE ViewOk(g, o)
    BY DEF ViewsOk
  <2>1. o # v /\ g[o] = h[o]
    BY DEF Free
  <2>2. ViewOk(h, o)
    BY <2>1 DEF Ledger, ViewsOk
  <2>3. 1 \in DOMAIN h[o].items
    BY <1>1, <2>2, ObjectIs DEF ViewOk
  <2>4. h[o].items[1] # v
    <3>1. h \in Heaps /\ X \in SUBSET Cells /\ InItems(h, X, v) = 0
      BY <1>1, <1>5
    <3>2. \A p \in Cells \ X : \A i \in DOMAIN h[p].items : h[p].items[i] # v
      BY <3>1, NotHeld
    <3>3. QED
      BY <2>3, <3>2
  <2>5. QED
    BY <2>1, <2>2, <2>4 DEF ViewOk
<1>13. TextsPlain(g)
  BY DEF Ledger, TextsPlain, Free
<1>14. Shrunk(h, g) /\ Live(g) = Live(h) \ {v} /\ v \in Live(h)
  BY <1>5 DEF Shrunk, Live, Free
<1>15. Ledger(g, X, rest, h[v].items \o Tail(todo))
  BY <1>1, <1>3, <1>10, <1>11, <1>12, <1>13 DEF Ledger
<1>16. Len(h[v].items \o Tail(todo)) + 1 <= Len(todo) + MaxLen
  BY <1>1, <1>2, <1>3, BoundsAre
<1>17. QED
  BY <1>14, <1>15, <1>16

\* One step keeps the books, and there is less to do after it.
LEMMA ReleaseStep ==
  ASSUME NEW t, NEW X, NEW rest, Ledger(t.heap, X, rest, t.todo)
  PROVE  /\ Ledger(Release(t).heap, X, rest, Release(t).todo)
         /\ Shrunk(t.heap, Release(t).heap)
         /\ Work(t) \in Nat
         /\ t.todo = <<>> => Release(t) = t
         /\ t.todo # <<>> => Work(Release(t)) <= Work(t) - 1
<1> DEFINE h == t.heap
           todo == t.todo
           v == Head(todo)
<1>1. todo \in Seq(Refs) /\ Len(todo) \in Nat /\ (todo # <<>> => v \in Refs)
  BY DEF Ledger
<1>2. MaxLen \in Nat /\ IsFiniteSet(Live(h)) /\ Cardinality(Live(h)) \in Nat
  BY BoundsAre, LiveIs
<1>3. Work(t) \in Nat
  BY <1>1, <1>2 DEF Work
<1>4. CASE todo = <<>>
  <2>1. Release(t) = t
    BY <1>4 DEF Release
  <2>2. QED
    BY <1>3, <1>4, <2>1, ShrunkItself
<1>5. CASE todo # <<>> /\ v = Nil
  <2>1. Release(t) = [heap |-> h, todo |-> Tail(todo)]
    <3>1. ~IsRef(Nil)
      BY DEF IsRef, Nil
    <3>2. QED
      BY <1>5, <3>1, Zenon DEF Release
  <2>2. Ledger(h, X, rest, Tail(todo)) /\ Len(Tail(todo)) = Len(todo) - 1
    BY <1>5, ReleaseNil
  <2>3. Work(Release(t)) <= Work(t) - 1
    BY <1>1, <1>2, <2>1, <2>2 DEF Work
  <2>4. QED
    BY <1>3, <1>5, <2>1, <2>2, <2>3, ShrunkItself
<1>6. CASE todo # <<>> /\ v # Nil /\ h[v].rc > 1
  <2> DEFINE g == [h EXCEPT ![v].rc = @ - 1]
  <2>1. v \in Cells /\ IsRef(v)
    BY <1>1, <1>6 DEF Refs, Cells, Nil, IsRef
  <2>2. Release(t) = [heap |-> g, todo |-> Tail(todo)]
    BY <1>6, <2>1 DEF Release
  <2>5. /\ g \in Heaps /\ \A o \in Cells \ {v} : g[o] = h[o]
        /\ g[v].kind = h[v].kind /\ g[v].items = h[v].items /\ g[v].start = h[v].start
        /\ g[v].rc = h[v].rc - 1
    <3>1. h \in Heaps /\ h[v] \in Objects /\ h[v].rc - 1 \in Nat
      BY <1>6, <2>1, ObjectIs DEF Ledger
    <3> DEFINE y == [h[v] EXCEPT !.rc = h[v].rc - 1]
    <3>2. /\ y \in Objects /\ y.kind = h[v].kind /\ y.items = h[v].items
          /\ y.start = h[v].start /\ y.rc = h[v].rc - 1
      BY <3>1, Recounted
    <3>3. g = [h EXCEPT ![v] = y]
      OBVIOUS
    <3> DEFINE k == [h EXCEPT ![v] = y]
    <3> HIDE DEF y, h, v, g
    <3>4. k \in Heaps /\ k[v] = y /\ \A o \in Cells \ {v} : k[o] = h[o]
      BY <2>1, <3>1, <3>2, HeapExcept
    <3>5. g = k
      BY <3>3
    <3> HIDE DEF k
    <3>6. QED
      BY <3>2, <3>4, <3>5
  <2> HIDE DEF g
  <2>3. /\ Ledger(g, X, rest, Tail(todo)) /\ Len(Tail(todo)) = Len(todo) - 1
        /\ Shrunk(h, g) /\ Live(g) = Live(h)
    BY <1>6, <2>1, <2>5, ReleaseOne
  <2>4. Work(Release(t)) <= Work(t) - 1
    BY <1>1, <1>2, <2>2, <2>3 DEF Work
  <2>6. QED
    BY <1>3, <1>6, <2>2, <2>3, <2>4
<1>7. CASE todo # <<>> /\ v # Nil /\ ~(h[v].rc > 1)
  <2> DEFINE g == [h EXCEPT ![v] = Free]
             rest2 == h[v].items \o Tail(todo)
  <2>1. v \in Cells /\ IsRef(v)
    BY <1>1, <1>7 DEF Refs, Cells, Nil, IsRef
  <2>2. Release(t) = [heap |-> g, todo |-> rest2]
    BY <1>7, <2>1 DEF Release
  <2>10. g \in Heaps /\ (\A o \in Cells \ {v} : g[o] = h[o]) /\ g[v] = Free
    <3>1. h \in Heaps
      BY DEF Ledger
    <3> HIDE DEF h
    <3>2. QED
      BY <2>1, <3>1, FreeObject, HeapExcept
  <2> HIDE DEF g
  <2>3. /\ Ledger(g, X, rest, rest2) /\ Len(rest2) + 1 <= Len(todo) + MaxLen
        /\ Shrunk(h, g) /\ Live(g) = Live(h) \ {v} /\ v \in Live(h)
    <3>1. Ledger(h, X, rest, todo) /\ todo # <<>> /\ Head(todo) = v /\ ~(h[v].rc > 1)
      BY <1>7
    <3> HIDE DEF h, todo, v
    <3>2. QED
      BY <2>1, <2>10, <3>1, ReleaseLast DEF rest2
  <2> HIDE DEF rest2
  <2>4. Cardinality(Live(g)) = Cardinality(Live(h)) - 1
    BY <1>2, <2>3, FS_RemoveElement
  <2>5. MaxLen * Cardinality(Live(g)) = MaxLen * Cardinality(Live(h)) - MaxLen
    BY <1>2, <2>4
  <2>6. Len(rest2) \in Nat
    BY <2>3 DEF Ledger
  <2>7. MaxLen * Cardinality(Live(h)) \in Nat
    BY <1>2
  <2>8. Work(Release(t)) <= Work(t) - 1
    <3>1. Work(Release(t)) = Len(rest2) + MaxLen * Cardinality(Live(g))
      BY <2>2 DEF Work
    <3>2. Work(t) = Len(todo) + MaxLen * Cardinality(Live(h))
      BY DEF Work
    <3> HIDE DEF h, todo
    <3>3. QED
      BY <1>1, <1>2, <2>3, <2>5, <2>6, <2>7, <3>1, <3>2
  <2>9. QED
    BY <1>3, <1>7, <2>2, <2>3, <2>8
<1>8. QED
  BY <1>4, <1>5, <1>6, <1>7

-----------------------------------------------------------------------------
\* A set of numbers has a least one.
LEMMA Least == ASSUME NEW T \in SUBSET Nat, T # {} PROVE \E m \in T : \A k \in T : m <= k
<1>1. PICK m \in T : \A k \in T : ~(<<k, m>> \in OpToRel(<, Nat))
  BY NatLessThanWellFounded, WFMin
<1>2. \A k \in T : <<k, m>> \in Nat \X Nat /\ <<k, m>>[1] = k /\ <<k, m>>[2] = m
  OBVIOUS
<1>3. \A k \in T : ~(k < m)
  BY <1>1, <1>2 DEF OpToRel
<1>4. QED
  BY <1>3

\* The first m steps of DropAll, each from the one before it as g has it.
RunTo(h, s, m, g) ==
  [n \in 0..m |-> IF n = 0 THEN [heap |-> h, todo |-> s] ELSE Release(g[n - 1])]

\* There is such a run, by induction on its length.
LEMMA SomeRun == ASSUME NEW h, NEW s PROVE \A m \in Nat : \E g : g = RunTo(h, s, m, g)
<1> DEFINE T == {m \in Nat : ~\E g : g = RunTo(h, s, m, g)}
           start == [heap |-> h, todo |-> s]
<1>1. SUFFICES ASSUME T # {} PROVE FALSE
  OBVIOUS
<1>2. PICK m \in T : \A k \in T : m <= k
  BY <1>1, Least
<1> HIDE DEF start
<1>3. CASE m = 0
  <2> DEFINE g == [n \in 0..0 |-> start]
  <2>1. \A n \in 0..0 : n = 0
    OBVIOUS
  <2>2. g = RunTo(h, s, 0, g)
    BY <2>1 DEF RunTo, start
  <2>3. QED
    BY <1>2, <1>3, <2>2
<1>4. CASE m # 0
  <2>1. m - 1 \in Nat /\ m - 1 \notin T
    BY <1>2, <1>4
  <2>2. PICK g : g = RunTo(h, s, m - 1, g)
    BY <2>1
  <2> DEFINE k == [n \in 0..m |-> IF n = m THEN Release(g[m - 1]) ELSE g[n]]
  <2>3. \A n \in 0..m : n # 0 => n - 1 \in 0..m - 1 /\ n - 1 # m /\ n - 1 \in 0..m
    BY <1>2
  <2>4. \A n \in 0..m : n # 0 => k[n - 1] = g[n - 1]
    BY <2>3
  <2>5. \A n \in 0..m - 1 : g[n] = IF n = 0 THEN start ELSE Release(g[n - 1])
    <3> HIDE DEF T
    <3> QED
      BY <2>2 DEF RunTo, start
  <2>6. \A n \in 0..m : n = m \/ n \in 0..m - 1
    BY <1>2
  <2>7. \A n \in 0..m : k[n] = IF n = m THEN Release(g[m - 1]) ELSE g[n]
    OBVIOUS
  <2> HIDE DEF k
  <2>8. \A n \in 0..m : k[n] = IF n = 0 THEN start ELSE Release(k[n - 1])
    <3> SUFFICES ASSUME NEW n \in 0..m PROVE k[n] = IF n = 0 THEN start ELSE Release(k[n - 1])
      OBVIOUS
    <3>1. CASE n = m
      BY <1>4, <2>4, <2>7, <3>1
    <3>2. CASE n # m
      BY <2>4, <2>5, <2>6, <2>7, <3>2
    <3>3. QED
      BY <3>1, <3>2
  <2>9. k = [n \in 0..m |-> k[n]]
    BY DEF k
  <2>10. k = RunTo(h, s, m, k)
    BY <2>8, <2>9 DEF RunTo, start
  <2>11. QED
    BY <1>2, <2>10
<1>5. QED
  BY <1>3, <1>4

\* DropAll is the end of the run.
LEMMA DropAllRun ==
  ASSUME NEW h, NEW s \in Seq(Refs)
  PROVE  /\ MostDrops(s) \in Nat
         /\ \E g : g = RunTo(h, s, MostDrops(s), g) /\ DropAll(h, s) = g[MostDrops(s)].heap
<1>1. MostDrops(s) \in Nat
  <2>1. MaxLen \in Nat /\ MaxCells \in Nat /\ Len(s) \in Nat
    BY BoundsAre
  <2>2. MaxLen * MaxCells \in Nat
    BY <2>1
  <2>3. QED
    BY <2>1, <2>2 DEF MostDrops
<1> DEFINE a == CHOOSE g : g = RunTo(h, s, MostDrops(s), g)
<1>2. a = RunTo(h, s, MostDrops(s), a)
  BY <1>1, SomeRun
<1>3. DropAll(h, s) = a[MostDrops(s)].heap
  BY DEF DropAll, RunTo
<1> HIDE DEF a
<1>4. QED
  BY <1>1, <1>2, <1>3

(***************************************************************************)
(* DropAll drops what it is given: the books balance with nothing in hand. *)
(***************************************************************************)
LEMMA DropAllIs ==
  ASSUME NEW h, NEW X, NEW rest, NEW s, Ledger(h, X, rest, s)
  PROVE  Ledger(DropAll(h, s), X, rest, <<>>) /\ Shrunk(h, DropAll(h, s))
<1> DEFINE m == MostDrops(s)
<1>1. s \in Seq(Refs) /\ Len(s) \in Nat
  BY DEF Ledger
<1>2. m \in Nat
  BY <1>1, DropAllRun
<1>3. PICK g : g = RunTo(h, s, m, g) /\ DropAll(h, s) = g[m].heap
  BY <1>1, DropAllRun
<1>4. m = Len(s) + MaxLen * MaxCells
  BY DEF MostDrops
<1> HIDE DEF m
<1>5. g[0] = [heap |-> h, todo |-> s] /\ \A n \in 0..m : n # 0 => g[n] = Release(g[n - 1])
  <2>1. \A n \in 0..m : g[n] = IF n = 0 THEN [heap |-> h, todo |-> s] ELSE Release(g[n - 1])
    BY <1>3 DEF RunTo
  <2>2. 0 \in 0..m
    BY <1>2
  <2>3. QED
    BY <2>1, <2>2
<1> DEFINE Good(n) == /\ Ledger(g[n].heap, X, rest, g[n].todo)
                      /\ Shrunk(h, g[n].heap)
                      /\ g[n].todo = <<>> \/ Work(g[n]) + n <= m
           T == {n \in Nat : n \in 0..m /\ ~Good(n)}
<1>6. Good(0)
  <2>1. Ledger(g[0].heap, X, rest, g[0].todo) /\ Shrunk(h, g[0].heap)
    BY <1>5, ShrunkItself
  <2>2. Work(g[0]) = Len(s) + MaxLen * Cardinality(Live(h))
    BY <1>5 DEF Work
  <2>3. MaxLen * Cardinality(Live(h)) <= MaxLen * MaxCells
    <3>1. MaxLen \in Nat /\ MaxCells \in Nat /\ Cardinality(Live(h)) \in Nat /\ Cardinality(Live(h)) <= MaxCells
      BY BoundsAre, LiveIs
    <3>2. QED
      BY <3>1
  <2>4. MaxLen * Cardinality(Live(h)) \in Nat /\ MaxLen * MaxCells \in Nat
    BY BoundsAre, LiveIs
  <2>5. Work(g[0]) + 0 <= m
    BY <1>1, <1>4, <2>2, <2>3, <2>4
  <2>6. QED
    BY <2>1, <2>5
<1>7. \A n \in 0..m : Good(n)
  <2>1. SUFFICES ASSUME T # {} PROVE FALSE
    BY <1>2
  <2>2. PICK n \in T : \A k \in T : n <= k
    BY <2>1, Least
  <2>3. n # 0 /\ n \in 0..m /\ ~Good(n)
    BY <1>6, <2>2
  <2>4. n \in Nat /\ n - 1 \in Nat /\ n - 1 \in 0..m
    BY <1>2, <2>3
  <2>5. Good(n - 1)
    <3>1. n - 1 \notin T
      BY <2>2, <2>4
    <3>2. QED
      BY <2>4, <3>1
  <2> HIDE DEF T
  <2> DEFINE t == g[n - 1]
  <2>6. g[n] = Release(t)
    BY <1>5, <2>3
  <2>7. /\ Ledger(t.heap, X, rest, t.todo) /\ Shrunk(h, t.heap)
        /\ t.todo = <<>> \/ Work(t) + (n - 1) <= m
    BY <2>5
  <2> HIDE DEF t
  <2>8. /\ Ledger(Release(t).heap, X, rest, Release(t).todo)
        /\ Shrunk(t.heap, Release(t).heap)
        /\ Work(t) \in Nat
        /\ t.todo = <<>> => Release(t) = t
        /\ t.todo # <<>> => Work(Release(t)) <= Work(t) - 1
    BY <2>7, ReleaseStep
  <2>9. Shrunk(h, Release(t).heap)
    BY <2>7, <2>8, ShrunkTwice
  <2>10. Release(t).todo = <<>> \/ Work(Release(t)) + n <= m
    <3>1. CASE t.todo = <<>>
      BY <2>8, <3>1
    <3>2. CASE t.todo # <<>>
      <4>1. Work(t) + (n - 1) <= m /\ Work(Release(t)) <= Work(t) - 1
        BY <2>7, <2>8, <3>2
      <4>2. Work(Release(t)) \in Nat
        BY <2>8, ReleaseStep
      <4>3. QED
        BY <1>2, <2>4, <2>8, <4>1, <4>2
    <3>3. QED
      BY <3>1, <3>2
  <2>11. QED
    BY <2>3, <2>6, <2>8, <2>9, <2>10
<1>8. Good(m)
  BY <1>2, <1>7
<1>9. g[m].todo = <<>>
  <2>1. CASE Work(g[m]) + m <= m
    <3>1. g[m].todo \in Seq(Refs) /\ Len(g[m].todo) \in Nat
      BY <1>8 DEF Ledger
    <3>2. MaxLen * Cardinality(Live(g[m].heap)) \in Nat
      BY BoundsAre, LiveIs
    <3>3. Len(g[m].todo) = 0
      BY <1>2, <2>1, <3>1, <3>2 DEF Work
    <3>4. QED
      BY <3>1, <3>3
  <2>2. QED
    BY <1>8, <2>1
<1>10. QED
  BY <1>3, <1>8, <1>9

-----------------------------------------------------------------------------
\* Nil, or an object that is there.
Present(h, v) == v = Nil \/ (v \in Cells /\ h[v].kind # "free")

\* What is held elsewhere is there.
LEMMA HeldIsThere ==
  ASSUME NEW h, NEW X, NEW rest, NEW hand, Ledger(h, X, rest, hand), NEW o \in Cells, rest[o] > 0
  PROVE  h[o].rc > 0 /\ h[o].kind # "free"
<1>1. /\ h \in Heaps /\ X \in SUBSET Cells /\ rest \in [Cells -> Nat] /\ hand \in Seq(Refs)
      /\ h[o].rc = rest[o] + Occurs(hand, o) + InItems(h, X, o)
      /\ (h[o].kind = "free" <=> h[o].rc = 0)
  BY DEF Ledger, Counted, FreeIffZero
<1>2. /\ h[o].rc \in Nat /\ rest[o] \in Nat /\ Occurs(hand, o) \in Nat /\ InItems(h, X, o) \in Nat
  BY <1>1, Numbers
<1>3. QED
  BY <1>1, <1>2

\* The items of an object are there.
LEMMA ItemsAreThere ==
  ASSUME NEW h, NEW X, NEW rest, NEW hand, Ledger(h, X, rest, hand),
         NEW p \in Cells \ X, NEW i \in DOMAIN h[p].items
  PROVE  h[p].items[i] \in Refs /\ Present(h, h[p].items[i])
<1> DEFINE o == h[p].items[i]
<1>1. /\ h \in Heaps /\ X \in SUBSET Cells /\ rest \in [Cells -> Nat] /\ hand \in Seq(Refs)
  BY DEF Ledger
<1>2. o \in Refs
  BY <1>1, ObjectIs
<1>3. CASE o # Nil
  <2>1. o \in Cells
    BY <1>2, <1>3, BoundsAre DEF Refs, Cells, Nil
  <2>2. InItems(h, X, o) # 0
    <3> DEFINE v == o
    <3>1. v = h[p].items[i]
      OBVIOUS
    <3> HIDE DEF v
    <3>2. InItems(h, X, v) # 0
      BY <1>1, <3>1, NotHeld
    <3>3. QED
      BY <3>2 DEF v
  <2>3. /\ h[o].rc = rest[o] + Occurs(hand, o) + InItems(h, X, o)
        /\ (h[o].kind = "free" <=> h[o].rc = 0)
    BY <2>1 DEF Ledger, Counted, FreeIffZero
  <2>4. /\ h[o].rc \in Nat /\ rest[o] \in Nat /\ Occurs(hand, o) \in Nat /\ InItems(h, X, o) \in Nat
    BY <1>1, <2>1, Numbers
  <2>5. QED
    BY <1>2, <2>1, <2>2, <2>3, <2>4 DEF Present
<1>4. QED
  BY <1>2, <1>3 DEF Present

\* References change hands.
Evened(A, hand, B, hand2) ==
  \A o \in Cells : B[o] + Occurs(hand2, o) = A[o] + Occurs(hand, o)

LEMMA Rebalance ==
  ASSUME NEW A, NEW B \in [Cells -> Nat], NEW h, NEW hand, Ledger(h, {}, A, hand),
         NEW hand2 \in Seq(Refs), Evened(A, hand, B, hand2)
  PROVE  Ledger(h, {}, B, hand2)
<1> DEFINE X == {}
<1>1. Ledger(h, X, A, hand) /\ \A o \in X : B[o] > 0
  OBVIOUS
<1> HIDE DEF X
<1>2. Counted(h, X, B, hand2)
  <2> SUFFICES ASSUME NEW o \in Cells PROVE h[o].rc = B[o] + Occurs(hand2, o) + InItems(h, X, o)
    BY DEF Counted
  <2>1. h[o].rc = A[o] + Occurs(hand, o) + InItems(h, X, o)
    BY <1>1 DEF Ledger, Counted
  <2>2. B[o] + Occurs(hand2, o) = A[o] + Occurs(hand, o)
    BY DEF Evened
  <2>3. QED
    BY <2>1, <2>2
<1>3. Ledger(h, X, B, hand2)
  BY <1>1, <1>2 DEF Ledger
<1>4. QED
  BY <1>3 DEF X

\* clone_rc of what is there: another reference in hand.
LEMMA CloneAllIs ==
  ASSUME NEW h, NEW X, NEW rest, NEW hand, Ledger(h, X, rest, hand),
         NEW s \in Seq(Refs), \A i \in 1..Len(s) : Present(h, s[i])
  PROVE  LET g == CloneAll(h, s)
         IN  /\ Ledger(g, X, rest, hand \o s)
             /\ \A o \in Cells : g[o].kind = h[o].kind /\ g[o].items = h[o].items /\ g[o].start = h[o].start
<1> DEFINE g == CloneAll(h, s)
<1>1. /\ h \in Heaps /\ DOMAIN h = Cells /\ X \in SUBSET Cells /\ rest \in [Cells -> Nat] /\ hand \in Seq(Refs)
  BY DEF Ledger, Heaps
<1>2. IsFiniteSet(DOMAIN s) /\ DOMAIN s = 1..Len(s)
  BY SeqFinite
<1>3. \A o \in Cells : Occurs(s, o) \in Nat
  BY <1>2, AtFinite
<1>4. \A o \in Cells : /\ g[o] \in Objects /\ g[o].kind = h[o].kind /\ g[o].items = h[o].items
                       /\ g[o].start = h[o].start /\ g[o].rc = h[o].rc + Occurs(s, o)
  <2> SUFFICES ASSUME NEW o \in Cells
               PROVE  /\ g[o] \in Objects /\ g[o].kind = h[o].kind /\ g[o].items = h[o].items
                      /\ g[o].start = h[o].start /\ g[o].rc = h[o].rc + Occurs(s, o)
    OBVIOUS
  <2>1. g[o] = [h[o] EXCEPT !.rc = h[o].rc + Occurs(s, o)]
    BY <1>1 DEF CloneAll
  <2>2. h[o] \in Objects /\ h[o].rc + Occurs(s, o) \in Nat
    BY <1>1, <1>3, ObjectIs
  <2> HIDE DEF g
  <2>3. QED
    BY <2>1, <2>2, Recounted
<1>5. g \in Heaps
  <2>1. g = [o \in Cells |-> g[o]]
    BY <1>1 DEF CloneAll
  <2> HIDE DEF g
  <2>2. QED
    BY <1>4, <2>1 DEF Heaps
<1>6. \A o \in Cells : h[o].kind = "free" => Occurs(s, o) = 0
  <2> SUFFICES ASSUME NEW o \in Cells, h[o].kind = "free" PROVE Occurs(s, o) = 0
    OBVIOUS
  <2>1. \A i \in DOMAIN s : s[i] # o
    BY <1>2, BoundsAre DEF Present
  <2>2. QED
    BY <1>2, <2>1, AtFinite
<1> HIDE DEF g
<1>7. hand \o s \in Seq(Refs)
  BY <1>1
<1>8. Counted(g, X, rest, hand \o s)
  <2> SUFFICES ASSUME NEW o \in Cells PROVE g[o].rc = rest[o] + Occurs(hand \o s, o) + InItems(g, X, o)
    BY DEF Counted
  <2>1. \A p \in Cells \ X : g[p].items = h[p].items
    BY <1>4
  <2>2. InItems(g, X, o) = InItems(h, X, o)
    BY <1>1, <2>1, SameItems
  <2>3. Occurs(hand \o s, o) = Occurs(hand, o) + Occurs(s, o)
    BY <1>1, OccursConcat
  <2>4. h[o].rc = rest[o] + Occurs(hand, o) + InItems(h, X, o)
    BY DEF Ledger, Counted
  <2>5. /\ rest[o] \in Nat /\ Occurs(hand, o) \in Nat /\ InItems(h, X, o) \in Nat
    BY <1>1, Numbers
  <2>6. QED
    BY <1>3, <1>4, <2>2, <2>3, <2>4, <2>5
<1>9. FreeIffZero(g)
  <2> SUFFICES ASSUME NEW o \in Cells
               PROVE  (g[o].kind = "free" <=> g[o].rc = 0) /\ (g[o].kind = "free" => g[o].items = <<>>)
    BY DEF FreeIffZero
  <2>1. (h[o].kind = "free" <=> h[o].rc = 0) /\ (h[o].kind = "free" => h[o].items = <<>>)
    BY DEF Ledger, FreeIffZero
  <2>2. h[o].rc \in Nat
    BY <1>1, ObjectIs
  <2>3. QED
    BY <1>3, <1>4, <1>6, <2>1, <2>2
<1>10. ViewsOk(g, X) /\ TextsPlain(g)
  <2>1. ViewsOk(h, X) /\ TextsPlain(h)
    BY DEF Ledger
  <2>2. ASSUME NEW o \in Cells \ X, g[o].kind = "view" PROVE ViewOk(g, o)
    <3>1. ViewOk(h, o)
      BY <1>4, <2>1, <2>2 DEF ViewsOk
    <3>2. QED
      BY <1>4, <3>1 DEF ViewOk
  <2>3. TextsPlain(g)
    BY <1>4, <2>1 DEF TextsPlain
  <2>4. QED
    BY <2>2, <2>3 DEF ViewsOk
<1>11. \A o \in X : rest[o] > 0
  BY DEF Ledger
<1>12. Ledger(g, X, rest, hand \o s)
  BY <1>1, <1>5, <1>7, <1>8, <1>9, <1>10, <1>11 DEF Ledger
<1>13. QED
  BY <1>4, <1>12 DEF g

\* clone_rc of one reference.
LEMMA CloneIs ==
  ASSUME NEW h, NEW X, NEW rest, Ledger(h, X, rest, <<>>), NEW v \in Refs, Present(h, v)
  PROVE  LET g == Clone(h, v)
         IN  /\ Ledger(g, X, rest, <<v>>)
             /\ \A o \in Cells : g[o].kind = h[o].kind /\ g[o].items = h[o].items /\ g[o].start = h[o].start
<1>1. <<v>> \in Seq(Refs) /\ (\A i \in 1..Len(<<v>>) : Present(h, <<v>>[i])) /\ <<>> \o <<v>> = <<v>>
  OBVIOUS
<1> DEFINE s == <<v>>
<1> HIDE DEF s
<1>2. s \in Seq(Refs) /\ (\A i \in 1..Len(s) : Present(h, s[i])) /\ <<>> \o s = s
  BY <1>1 DEF s
<1>3. LET g == CloneAll(h, s)
      IN  /\ Ledger(g, X, rest, <<>> \o s)
          /\ \A o \in Cells : g[o].kind = h[o].kind /\ g[o].items = h[o].items /\ g[o].start = h[o].start
  BY <1>2, CloneAllIs
<1>4. QED
  BY <1>2, <1>3 DEF Clone, s

\* drop_rc of one reference.
LEMMA DropIs ==
  ASSUME NEW h, NEW X, NEW rest, NEW v, Ledger(h, X, rest, <<v>>)
  PROVE  Ledger(Drop(h, v), X, rest, <<>>) /\ Shrunk(h, Drop(h, v))
BY DropAllIs DEF Drop

-----------------------------------------------------------------------------
(***************************************************************************)
(* The running frame: its registers hold some of the references, the       *)
(* other frames and the pool the rest.                                     *)
(***************************************************************************)
With(rest, regs) == [o \in Cells |-> rest[o] + Occurs(regs, o)]

RegFile == [Regs -> Refs]

Machines == [heap : Heaps, regs : RegFile]

Books(m, rest, hand) ==
  m \in Machines /\ rest \in [Cells -> Nat] /\ Ledger(m.heap, {}, With(rest, m.regs), hand)

\* The references of the others and of the registers.
LEMMA WithIs ==
  ASSUME NEW rest \in [Cells -> Nat], NEW regs \in RegFile
  PROVE  /\ With(rest, regs) \in [Cells -> Nat]
         /\ \A o \in Cells : Occurs(regs, o) \in Nat /\ With(rest, regs)[o] = rest[o] + Occurs(regs, o)
<1>1. DOMAIN regs = Regs /\ IsFiniteSet(Regs)
  BY BoundsAre DEF RegFile
<1>2. \A o \in Cells : Occurs(regs, o) \in Nat
  BY <1>1, AtFinite
<1>3. QED
  BY <1>2 DEF With

\* What the books of a machine say.
LEMMA BooksFacts ==
  ASSUME NEW m, NEW rest, NEW hand, Books(m, rest, hand)
  PROVE  /\ m \in Machines /\ m = [heap |-> m.heap, regs |-> m.regs]
         /\ rest \in [Cells -> Nat] /\ m.regs \in RegFile /\ hand \in Seq(Refs) /\ m.heap \in Heaps
         /\ Ledger(m.heap, {}, With(rest, m.regs), hand)
         /\ \A o \in Cells :
              /\ rest[o] \in Nat /\ Occurs(m.regs, o) \in Nat /\ Occurs(hand, o) \in Nat
              /\ InItems(m.heap, {}, o) \in Nat /\ m.heap[o].rc \in Nat
              /\ m.heap[o].rc = rest[o] + Occurs(m.regs, o) + Occurs(hand, o) + InItems(m.heap, {}, o)
<1> DEFINE h == m.heap
           regs == m.regs
<1>1. /\ m \in Machines /\ m = [heap |-> h, regs |-> regs]
      /\ rest \in [Cells -> Nat] /\ regs \in RegFile /\ hand \in Seq(Refs) /\ h \in Heaps
      /\ Ledger(h, {}, With(rest, regs), hand)
  BY DEF Books, Ledger, Machines
<1> HIDE DEF h, regs
<1>2. ASSUME NEW o \in Cells
      PROVE  /\ rest[o] \in Nat /\ Occurs(regs, o) \in Nat /\ Occurs(hand, o) \in Nat
             /\ InItems(h, {}, o) \in Nat /\ h[o].rc \in Nat
             /\ h[o].rc = rest[o] + Occurs(regs, o) + Occurs(hand, o) + InItems(h, {}, o)
  <2>1. Occurs(regs, o) \in Nat /\ With(rest, regs)[o] = rest[o] + Occurs(regs, o) /\ rest[o] \in Nat
    BY <1>1, WithIs
  <2>2. Occurs(hand, o) \in Nat
    BY <1>1, SeqFinite, AtFinite
  <2>3. InItems(h, {}, o) \in Nat /\ h[o].rc \in Nat
    BY <1>1, HeldFinite, ObjectIs
  <2>4. h[o].rc = With(rest, regs)[o] + Occurs(hand, o) + InItems(h, {}, o)
    BY <1>1 DEF Ledger, Counted
  <2>5. QED
    BY <2>1, <2>2, <2>3, <2>4
<1>3. QED
  BY <1>1, <1>2 DEF h, regs

\* The books of a machine made of a heap and registers.
LEMMA BooksOf ==
  ASSUME NEW rest \in [Cells -> Nat], NEW h, NEW regs \in RegFile, NEW hand, Ledger(h, {}, With(rest, regs), hand)
  PROVE  Books([heap |-> h, regs |-> regs], rest, hand)
BY DEF Books, Ledger, Machines

\* As many references in registers and hand.
Balanced(regs, hand, regs2, hand2) ==
  \A o \in Cells : Occurs(regs2, o) + Occurs(hand2, o) = Occurs(regs, o) + Occurs(hand, o)

\* References move between the registers and the hand.
LEMMA Moved ==
  ASSUME NEW h, NEW rest \in [Cells -> Nat], NEW regs \in RegFile, NEW hand,
         Ledger(h, {}, With(rest, regs), hand),
         NEW regs2 \in RegFile, NEW hand2 \in Seq(Refs),
         Balanced(regs, hand, regs2, hand2)
  PROVE  Ledger(h, {}, With(rest, regs2), hand2)
<1> DEFINE w == With(rest, regs)
           w2 == With(rest, regs2)
<1>1. hand \in Seq(Refs) /\ Ledger(h, {}, w, hand)
  BY DEF Ledger
<1>2. w2 \in [Cells -> Nat]
  BY <1>1, WithIs
<1>3. ASSUME NEW o \in Cells
      PROVE  w2[o] + Occurs(hand2, o) = w[o] + Occurs(hand, o)
  <2>1. /\ Occurs(regs, o) \in Nat /\ w[o] = rest[o] + Occurs(regs, o) /\ rest[o] \in Nat
        /\ Occurs(regs2, o) \in Nat /\ w2[o] = rest[o] + Occurs(regs2, o)
    BY <1>1, WithIs
  <2>2. Occurs(hand, o) \in Nat /\ Occurs(hand2, o) \in Nat
    BY <1>1, SeqFinite, AtFinite
  <2>3. Occurs(regs2, o) + Occurs(hand2, o) = Occurs(regs, o) + Occurs(hand, o)
    BY DEF Balanced
  <2> DEFINE x == Occurs(regs, o)
             x2 == Occurs(regs2, o)
             y == Occurs(hand, o)
             y2 == Occurs(hand2, o)
             z == rest[o]
             u == w[o]
             u2 == w2[o]
  <2>4. u2 + y2 = u + y
    <3>1. u = z + x /\ u2 = z + x2 /\ z \in Nat /\ x \in Nat /\ x2 \in Nat
      BY <2>1
    <3>2. y \in Nat /\ y2 \in Nat /\ x2 + y2 = x + y
      BY <2>2, <2>3
    <3> HIDE DEF x, x2, y, y2, z, u, u2
    <3>3. QED
      BY <3>1, <3>2
  <2>5. QED
    BY <2>4
<1> HIDE DEF w, w2
<1>4. Evened(w, hand, w2, hand2)
  BY <1>3 DEF Evened
<1>5. Ledger(h, {}, w2, hand2)
  BY <1>1, <1>2, <1>4, Rebalance
<1>6. QED
  BY <1>5 DEF w2

\* The register a is set.
Put(regs, a, v) == [regs EXCEPT ![a] = v]

\* The registers after one is set.
LEMMA PutIs ==
  ASSUME NEW regs \in RegFile, NEW a \in Regs, NEW v \in Refs
  PROVE  /\ Put(regs, a, v) \in RegFile /\ regs[a] \in Refs
         /\ Put(regs, a, v)[a] = v /\ \A r \in Regs \ {a} : Put(regs, a, v)[r] = regs[r]
BY DEF RegFile, Put

\* Occurrences in the registers after one is set.
LEMMA PutCounts ==
  ASSUME NEW regs \in RegFile, NEW a \in Regs, NEW v \in Refs, NEW o
  PROVE  Occurs(Put(regs, a, v), o) = Occurs(regs, o) - Bit(regs[a] = o) + Bit(v = o)
<1> DEFINE t == Put(regs, a, v)
<1>1. /\ DOMAIN t = DOMAIN regs /\ t[a] = v /\ a \in DOMAIN regs /\ IsFiniteSet(DOMAIN regs)
      /\ \A i \in DOMAIN regs : i # a => t[i] = regs[i]
  BY BoundsAre DEF RegFile, Put
<1> HIDE DEF t
<1>2. Occurs(t, o) = Occurs(regs, o) - Bit(regs[a] = o) + Bit(v = o)
  BY <1>1, OccursExcept
<1>3. QED
  BY <1>2 DEF t

\* A register that is not nil refers to what is there.
LEMMA RegisterIsThere ==
  ASSUME NEW m, NEW rest, NEW hand, Books(m, rest, hand), NEW a \in Regs
  PROVE  m.regs[a] \in Refs /\ Present(m.heap, m.regs[a])
<1> DEFINE h == m.heap
           regs == m.regs
<1>1. rest \in [Cells -> Nat] /\ regs \in RegFile /\ Ledger(h, {}, With(rest, regs), hand)
  BY BooksFacts
<1> HIDE DEF h, regs
<1>2. regs[a] \in Refs /\ DOMAIN regs = Regs /\ IsFiniteSet(Regs)
  BY <1>1, BoundsAre DEF RegFile
<1>3. CASE regs[a] # Nil
  <2>1. regs[a] \in Cells
    BY <1>2, <1>3, BoundsAre DEF Refs, Cells, Nil
  <2>2. Occurs(regs, regs[a]) # 0
    BY <1>2, AtFinite
  <2>3. With(rest, regs)[regs[a]] > 0
    <3>1. /\ Occurs(regs, regs[a]) \in Nat /\ rest[regs[a]] \in Nat
          /\ With(rest, regs)[regs[a]] = rest[regs[a]] + Occurs(regs, regs[a])
      BY <1>1, <2>1, WithIs
    <3>2. QED
      BY <2>2, <3>1
  <2>4. h[regs[a]].kind # "free"
    BY <1>1, <2>1, <2>3, HeldIsThere
  <2>5. QED
    BY <1>2, <2>1, <2>4 DEF Present, h, regs
<1>4. QED
  BY <1>2, <1>3 DEF Present, h, regs

\* An item of an object refers to what is there.
LEMMA ItemIsThere ==
  ASSUME NEW m, NEW rest, NEW hand, Books(m, rest, hand), NEW p \in Cells, NEW i \in DOMAIN m.heap[p].items
  PROVE  m.heap[p].items[i] \in Refs /\ Present(m.heap, m.heap[p].items[i])
<1>1. p \in Cells \ {} /\ Ledger(m.heap, {}, With(rest, m.regs), hand)
  BY BooksFacts
<1>2. QED
  BY <1>1, ItemsAreThere

\* reg_set! puts the reference in hand into the register.
LEMMA WriteIs ==
  ASSUME NEW m, NEW rest, NEW v, Books(m, rest, <<v>>), NEW a \in Regs
  PROVE  LET w == Write(m, a, v)
         IN  /\ Books(w, rest, <<>>) /\ Shrunk(m.heap, w.heap)
             /\ w.regs = Put(m.regs, a, v) /\ v \in Refs
<1> DEFINE h == m.heap
           regs == m.regs
           regs2 == Put(regs, a, v)
           old == regs[a]
           hand == <<v>>
           hand2 == <<old>>
<1>1. v \in Refs
  <2>0. hand \in Seq(Refs)
    BY BooksFacts
  <2>1. hand \in Seq(Refs) /\ 1 \in DOMAIN hand /\ hand[1] = v
    BY <2>0
  <2> HIDE DEF hand
  <2>2. hand[1] \in Refs
    BY <2>1
  <2>3. QED
    BY <2>1, <2>2
<1>2. regs \in RegFile /\ rest \in [Cells -> Nat] /\ Ledger(h, {}, With(rest, regs), hand)
  BY BooksFacts
<1>3. /\ regs2 \in RegFile /\ old \in Refs
  BY <1>1, <1>2, PutIs
<1>4. hand2 \in Seq(Refs)
  BY <1>3
<1>5. ASSUME NEW o \in Cells
      PROVE  Occurs(regs2, o) + Occurs(hand2, o) = Occurs(regs, o) + Occurs(hand, o)
  <2>1. Occurs(regs2, o) = Occurs(regs, o) - Bit(old = o) + Bit(v = o)
    BY <1>1, <1>2, PutCounts
  <2>2. Occurs(hand2, o) = Bit(old = o) /\ Occurs(hand, o) = Bit(v = o)
    BY OccursOne
  <2>3. Occurs(regs, o) \in Nat
    BY <1>2, WithIs
  <2>4. Bit(old = o) \in Nat /\ Bit(v = o) \in Nat
    BY DEF Bit
  <2> HIDE DEF regs2, old, regs, hand, hand2
  <2>5. QED
    BY <2>1, <2>2, <2>3, <2>4
<1>6. Write(m, a, v) = [heap |-> Drop(h, old), regs |-> regs2]
  BY DEF Write, Put
<1>7. hand2 = <<old>>
  OBVIOUS
<1> HIDE DEF regs2, old, regs, h, hand, hand2
<1>8. Ledger(h, {}, With(rest, regs2), hand2)
  <2>1. Balanced(regs, hand, regs2, hand2)
    BY <1>5 DEF Balanced
  <2>2. QED
    BY <1>2, <1>3, <1>4, <2>1, Moved
<1>9. Ledger(Drop(h, old), {}, With(rest, regs2), <<>>) /\ Shrunk(h, Drop(h, old))
  <2>1. Ledger(h, {}, With(rest, regs2), <<old>>)
    BY <1>7, <1>8, Zenon
  <2>2. QED
    BY <2>1, DropIs
<1>10. Books([heap |-> Drop(h, old), regs |-> regs2], rest, <<>>)
  BY <1>2, <1>3, <1>9, BooksOf
<1>11. QED
  BY <1>1, <1>6, <1>9, <1>10 DEF h, regs, regs2

\* OP_MOVE and OP_LOADK of what is there.
LEMMA CopyIs ==
  ASSUME NEW m, NEW rest, NEW v \in Refs, Books(m, rest, <<>>), Present(m.heap, v), NEW a \in Regs
  PROVE  LET w == Copy(m, a, v)
         IN  /\ Books(w, rest, <<>>) /\ Shrunk(m.heap, w.heap)
             /\ w.regs = Put(m.regs, a, v)
<1> DEFINE h == m.heap
           g == Clone(h, v)
           n == [heap |-> g, regs |-> m.regs]
           w == Write(n, a, v)
<1>1. Ledger(h, {}, With(rest, m.regs), <<>>) /\ rest \in [Cells -> Nat] /\ m.regs \in RegFile
  BY BooksFacts
<1>2. /\ Ledger(g, {}, With(rest, m.regs), <<v>>)
      /\ \A o \in Cells : g[o].kind = h[o].kind /\ g[o].items = h[o].items /\ g[o].start = h[o].start
  BY <1>1, CloneIs
<1>3. Copy(m, a, v) = w
  <2>1. m = [heap |-> m.heap, regs |-> m.regs]
    BY BooksFacts
  <2>2. [m EXCEPT !.heap = Clone(@, v)] = n
    BY <2>1
  <2>3. QED
    BY <2>2 DEF Copy
<1> HIDE DEF g
<1>4. Books(n, rest, <<v>>) /\ Shrunk(h, g) /\ n.heap = g /\ n.regs = m.regs
  BY <1>1, <1>2, BooksOf DEF Shrunk
<1> HIDE DEF n, h
<1>5. Books(w, rest, <<>>) /\ Shrunk(n.heap, w.heap) /\ w.regs = Put(n.regs, a, v)
  BY <1>4, WriteIs
<1> HIDE DEF w
<1>6. Shrunk(h, w.heap)
  BY <1>4, <1>5, ShrunkTwice
<1>7. QED
  BY <1>3, <1>4, <1>5, <1>6 DEF h

\* OP_MOVE_OWN between two registers.
LEMMA MoveOwnIs ==
  ASSUME NEW m, NEW rest, Books(m, rest, <<>>), NEW a \in Regs, NEW b \in Regs, a # b
  PROVE  LET w == MoveOwn(m, a, b)
         IN  /\ Books(w, rest, <<>>) /\ Shrunk(m.heap, w.heap)
             /\ w.regs = Put(Put(m.regs, a, m.regs[b]), b, Nil)
<1> DEFINE h == m.heap
           regs == m.regs
           v == regs[b]
           mid == Put(regs, a, v)
           regs2 == Put(mid, b, Nil)
           old == regs[a]
           hand == <<>>
           hand2 == <<old>>
<1>1. regs \in RegFile /\ rest \in [Cells -> Nat] /\ Ledger(h, {}, With(rest, regs), hand) /\ hand \in Seq(Refs)
  BY BooksFacts
<1>2. v \in Refs /\ Nil \in Refs
  BY <1>1, BoundsAre DEF RegFile
<1>3. mid \in RegFile /\ old \in Refs /\ mid[b] = v
  <2> HIDE DEF regs, v
  <2>1. mid \in RegFile /\ old \in Refs /\ \A r \in Regs \ {a} : mid[r] = regs[r]
    BY <1>1, <1>2, PutIs
  <2>2. mid[b] = regs[b]
    BY <2>1
  <2>3. QED
    BY <2>1, <2>2 DEF v
<1>4. regs2 \in RegFile
  <2> HIDE DEF mid
  <2> QED
    BY <1>2, <1>3, PutIs
<1>5. hand2 \in Seq(Refs) /\ hand2 = <<old>>
  BY <1>3
<1>6. ASSUME NEW o \in Cells
      PROVE  Occurs(regs2, o) + Occurs(hand2, o) = Occurs(regs, o) + Occurs(hand, o)
  <2>0. Occurs(mid, o) = Occurs(regs, o) - Bit(old = o) + Bit(v = o)
    BY <1>1, <1>2, PutCounts
  <2> HIDE DEF mid
  <2>5. Occurs(regs2, o) = Occurs(mid, o) - Bit(mid[b] = o) + Bit(Nil = o)
    BY <1>2, <1>3, PutCounts
  <2>1. Occurs(regs2, o) = Occurs(mid, o) - Bit(v = o) + Bit(Nil = o)
    <3>1. mid[b] = v
      BY <1>3
    <3> HIDE DEF v, regs2
    <3>2. QED
      BY <2>5, <3>1, Zenon
  <2>2. Occurs(hand2, o) = Bit(old = o) /\ Occurs(hand, o) = 0
    BY OccursOne, OccursNone
  <2>3. Occurs(regs, o) \in Nat
    BY <1>1, WithIs
  <2>4. Bit(old = o) \in Nat /\ Bit(v = o) \in Nat /\ Bit(Nil = o) = 0
    BY BoundsAre DEF Bit
  <2> HIDE DEF regs2, old, regs, hand, hand2, v, mid
  <2>6. QED
    BY <2>0, <2>1, <2>2, <2>3, <2>4
<1>7. MoveOwn(m, a, b) = [heap |-> Drop(h, old), regs |-> regs2]
  BY DEF MoveOwn, Write, Put
<1> HIDE DEF regs2, old, regs, h, hand, hand2, v, mid
<1>8. Ledger(h, {}, With(rest, regs2), hand2)
  <2>1. regs2 \in RegFile /\ hand2 \in Seq(Refs)
    BY <1>4, <1>5
  <2>2. Balanced(regs, hand, regs2, hand2)
    BY <1>6 DEF Balanced
  <2>3. QED
    BY <1>1, <2>1, <2>2, Moved
<1>9. Ledger(Drop(h, old), {}, With(rest, regs2), <<>>) /\ Shrunk(h, Drop(h, old))
  <2>1. Ledger(h, {}, With(rest, regs2), <<old>>)
    BY <1>5, <1>8, Zenon
  <2>2. QED
    BY <2>1, DropIs
<1>10. Books([heap |-> Drop(h, old), regs |-> regs2], rest, <<>>)
  BY <1>1, <1>4, <1>9, BooksOf
<1>11. QED
  BY <1>7, <1>9, <1>10 DEF h, regs, regs2, mid, v

-----------------------------------------------------------------------------
(***************************************************************************)
(* New objects, and objects whose items are replaced.                      *)
(***************************************************************************)
\* Only the cell x is written, apart from objects that are freed and counts.
Rewritten(h, g, x) ==
  \A o \in Cells \ {x} : \/ g[o].kind = "free"
                         \/ g[o].kind = h[o].kind /\ g[o].items = h[o].items /\ g[o].start = h[o].start

\* Written, then freed.
LEMMA RewrittenThenShrunk ==
  ASSUME NEW h, NEW g, NEW k, NEW x, Rewritten(h, g, x), Shrunk(g, k) PROVE Rewritten(h, k, x)
BY DEF Rewritten, Shrunk

\* Freed, then written.
LEMMA ShrunkThenRewritten ==
  ASSUME NEW h, NEW g, NEW k, NEW x, Shrunk(h, g), Rewritten(g, k, x) PROVE Rewritten(h, k, x)
BY DEF Rewritten, Shrunk

\* What a new object may be.
Sensible(h, kind, items, start) ==
  /\ kind \in Kinds /\ items \in Seq(Refs) /\ Len(items) <= MaxLen /\ start \in Nat
  /\ \A i \in 1..Len(items) : Present(h, items[i])
  /\ kind = "text" => \A i \in 1..Len(items) : items[i] = Nil
  /\ kind = "view" => /\ Len(items) = 1 /\ items[1] \in Cells /\ h[items[1]].kind = "list"
                      /\ start \in 1..Len(h[items[1]].items)

\* The chosen cell is free.
LEMMA NewCellIs ==
  ASSUME NEW h \in Heaps, FreeCells(h) # {}
  PROVE  NewCell(h) \in Cells /\ h[NewCell(h)].kind = "free"
<1>1. FreeCells(h) \in SUBSET Cells
  BY DEF FreeCells, Heaps
<1>2. FreeCells(h) \in SUBSET Nat
  BY <1>1 DEF Cells
<1>3. \E o \in FreeCells(h) : \A p \in FreeCells(h) : o <= p
  BY <1>2, Least
<1>4. NewCell(h) \in FreeCells(h)
  BY <1>3 DEF NewCell
<1>5. QED
  BY <1>1, <1>4 DEF FreeCells

\* The case of no object left out.
LEMMA AllItemsChange ==
  ASSUME NEW h \in Heaps, NEW g \in Heaps, NEW p \in Cells, NEW o,
         \A q \in Cells \ {p} : g[q].items = h[q].items
  PROVE  InItems(g, {}, o) = InItems(h, {}, o) - Occurs(h[p].items, o) + Occurs(g[p].items, o)
<1> DEFINE X == {}
<1>1. X \in SUBSET Cells /\ p \notin X
  OBVIOUS
<1> HIDE DEF X
<1>2. InItems(g, X, o) = InItems(h, X, o) - Occurs(h[p].items, o) + Occurs(g[p].items, o)
  BY <1>1, ItemsChange
<1>3. QED
  BY <1>2 DEF X

\* No item refers to an object that no item holds.
LEMMA NotAnItem ==
  ASSUME NEW h \in Heaps, NEW o, InItems(h, {}, o) = 0, NEW p \in Cells, NEW i \in DOMAIN h[p].items
  PROVE  h[p].items[i] # o
<1> DEFINE X == {}
<1>1. X \in SUBSET Cells /\ p \in Cells \ X /\ InItems(h, X, o) = 0
  OBVIOUS
<1> HIDE DEF X
<1>2. QED
  BY <1>1, NotHeld

\* A free cell is referred to by nothing.
LEMMA FreeIsUnheld ==
  ASSUME NEW h, NEW X, NEW rest, NEW hand, Ledger(h, X, rest, hand), NEW o \in Cells, h[o].kind = "free"
  PROVE  rest[o] = 0 /\ Occurs(hand, o) = 0 /\ InItems(h, X, o) = 0 /\ h[o].items = <<>> /\ h[o].rc = 0
<1>1. /\ h \in Heaps /\ X \in SUBSET Cells /\ rest \in [Cells -> Nat] /\ hand \in Seq(Refs)
      /\ h[o].rc = rest[o] + Occurs(hand, o) + InItems(h, X, o) /\ h[o].rc = 0 /\ h[o].items = <<>>
  BY DEF Ledger, Counted, FreeIffZero
<1>2. rest[o] \in Nat /\ Occurs(hand, o) \in Nat /\ InItems(h, X, o) \in Nat
  BY <1>1, Numbers
<1>3. QED
  BY <1>1, <1>2

\* The object is made of the counted items: they are in hand no more, it is.
LEMMA NewObject ==
  ASSUME NEW h, NEW rest, NEW items, Ledger(h, {}, rest, items),
         NEW o \in Cells, h[o].kind = "free", NEW kind, NEW start, Sensible(h, kind, items, start),
         NEW g \in Heaps, \A p \in Cells \ {o} : g[p] = h[p],
         g[o].kind = kind, g[o].items = items, g[o].start = start, g[o].rc = 1
  PROVE  Ledger(g, {}, rest, <<o>>)
<1>1. h \in Heaps /\ {} \in SUBSET Cells /\ rest \in [Cells -> Nat] /\ items \in Seq(Refs) /\ Len(items) <= MaxLen
  BY DEF Ledger, Sensible
<1>2. rest[o] = 0 /\ Occurs(items, o) = 0 /\ InItems(h, {}, o) = 0 /\ h[o].items = <<>>
  BY FreeIsUnheld
<1>3. <<o>> \in Seq(Refs)
  BY BoundsAre
<1>4. \A p \in Cells : InItems(g, {}, p) = InItems(h, {}, p) + Occurs(items, p)
  <2> SUFFICES ASSUME NEW p \in Cells PROVE InItems(g, {}, p) = InItems(h, {}, p) + Occurs(items, p)
    OBVIOUS
  <2>1. InItems(g, {}, p) = InItems(h, {}, p) - Occurs(h[o].items, p) + Occurs(g[o].items, p)
    <3>1. \A q \in Cells \ {o} : g[q].items = h[q].items
      OBVIOUS
    <3>2. QED
      BY <1>1, <3>1, AllItemsChange
  <2>2. Occurs(h[o].items, p) = 0
    BY <1>2, OccursNone
  <2>3. InItems(h, {}, p) \in Nat
    BY HeldFinite
  <2>4. QED
    BY <2>1, <2>2, <2>3
<1>5. Counted(g, {}, rest, <<o>>)
  <2> SUFFICES ASSUME NEW p \in Cells PROVE g[p].rc = rest[p] + Occurs(<<o>>, p) + InItems(g, {}, p)
    BY DEF Counted
  <2>1. h[p].rc = rest[p] + Occurs(items, p) + InItems(h, {}, p)
    BY DEF Ledger, Counted
  <2>2. rest[p] \in Nat /\ Occurs(items, p) \in Nat /\ InItems(h, {}, p) \in Nat
    BY <1>1, Numbers
  <2>3. Occurs(<<o>>, p) = Bit(o = p)
    BY OccursOne
  <2>4. CASE p = o
    <3>1. g[o].rc = 1 /\ rest[o] = 0 /\ Bit(o = o) = 1 /\ InItems(g, {}, o) = InItems(h, {}, o) + Occurs(items, o)
      BY <1>2, <1>4 DEF Bit
    <3>2. Occurs(<<o>>, o) = 1
      BY <3>1, OccursOne
    <3>3. g[o].rc = rest[o] + Occurs(<<o>>, o) + InItems(g, {}, o)
      BY <1>2, <3>1, <3>2
    <3>4. QED
      BY <2>4, <3>3, Zenon
  <2>5. CASE p # o
    BY <1>4, <2>1, <2>2, <2>3, <2>5 DEF Bit
  <2>6. QED
    BY <2>4, <2>5
<1>6. FreeIffZero(g)
  <2>1. FreeIffZero(h) /\ kind # "free"
    BY DEF Ledger, Sensible, Kinds
  <2>2. QED
    BY <2>1 DEF FreeIffZero
<1>7. ViewsOk(g, {})
  <2> SUFFICES ASSUME NEW p \in Cells, g[p].kind = "view" PROVE ViewOk(g, p)
    BY DEF ViewsOk
  <2>1. CASE p = o
    <3>1. /\ Len(items) = 1 /\ items[1] \in Cells /\ h[items[1]].kind = "list"
          /\ start \in 1..Len(h[items[1]].items)
      BY <2>1 DEF Sensible
    <3>2. items[1] # o
      BY <3>1
    <3>3. QED
      BY <2>1, <3>1, <3>2 DEF ViewOk
  <2>2. CASE p # o
    <3>1. g[p] = h[p] /\ ViewOk(h, p)
      BY <2>2 DEF Ledger, ViewsOk
    <3>2. 1 \in DOMAIN h[p].items
      BY <1>1, <3>1, ObjectIs DEF ViewOk
    <3>3. h[p].items[1] # o
      BY <1>1, <1>2, <3>2, NotAnItem
    <3>4. QED
      BY <3>1, <3>3 DEF ViewOk
  <2>3. QED
    BY <2>1, <2>2
<1>8. TextsPlain(g)
  <2> SUFFICES ASSUME NEW p \in Cells, g[p].kind = "text", NEW i \in DOMAIN g[p].items PROVE g[p].items[i] = Nil
    BY DEF TextsPlain
  <2>1. CASE p = o
    BY <1>1, <2>1 DEF Sensible
  <2>2. CASE p # o
    BY <2>2 DEF Ledger, TextsPlain
  <2>3. QED
    BY <2>1, <2>2
<1>9. QED
  BY <1>1, <1>3, <1>5, <1>6, <1>7, <1>8 DEF Ledger

\* What the items of object o may become.
Fits(h, o, items) ==
  /\ o \in Cells /\ h[o].kind # "free" /\ h[o].kind # "view"
  /\ items \in Seq(Refs) /\ Len(items) <= MaxLen
  /\ h[o].kind = "text" => \A i \in 1..Len(items) : items[i] = Nil

\* The heap g is h but for the items of o.
Refilled(h, g, o, items) ==
  /\ g \in Heaps /\ \A p \in Cells \ {o} : g[p] = h[p]
  /\ g[o].kind = h[o].kind /\ g[o].items = items /\ g[o].start = h[o].start /\ g[o].rc = h[o].rc

\* The items of an object nothing looks into are replaced.
LEMMA NewItems ==
  ASSUME NEW h, NEW rest, NEW hand, Ledger(h, {}, rest, hand),
         NEW o, NEW items, Fits(h, o, items), InItems(h, {}, o) = 0,
         NEW hand2 \in Seq(Refs), Balanced(h[o].items, hand, items, hand2),
         NEW g, Refilled(h, g, o, items)
  PROVE  Ledger(g, {}, rest, hand2)
<1> USE DEF Fits, Refilled
<1>1. h \in Heaps /\ {} \in SUBSET Cells /\ rest \in [Cells -> Nat] /\ hand \in Seq(Refs)
  BY DEF Ledger
<1>4. \A p \in Cells : InItems(g, {}, p) = InItems(h, {}, p) - Occurs(h[o].items, p) + Occurs(items, p)
  <2> SUFFICES ASSUME NEW p \in Cells PROVE InItems(g, {}, p) = InItems(h, {}, p) - Occurs(h[o].items, p) + Occurs(items, p)
    OBVIOUS
  <2>1. InItems(g, {}, p) = InItems(h, {}, p) - Occurs(h[o].items, p) + Occurs(g[o].items, p)
    <3>1. \A q \in Cells \ {o} : g[q].items = h[q].items
      OBVIOUS
    <3>2. QED
      BY <1>1, <3>1, AllItemsChange
  <2>2. QED
    BY <2>1
<1>5. Counted(g, {}, rest, hand2)
  <2> SUFFICES ASSUME NEW p \in Cells PROVE g[p].rc = rest[p] + Occurs(hand2, p) + InItems(g, {}, p)
    BY DEF Counted
  <2> DEFINE were == InItems(h, {}, p)
             are == InItems(g, {}, p)
             gone == Occurs(h[o].items, p)
             come == Occurs(items, p)
             x == Occurs(hand, p)
             y == Occurs(hand2, p)
             z == rest[p]
             n == g[p].rc
  <2>1. n = z + x + were
    <3>1. h[p].rc = rest[p] + Occurs(hand, p) + InItems(h, {}, p) /\ g[p].rc = h[p].rc
      BY DEF Ledger, Counted
    <3>2. QED
      BY <3>1
  <2>2. z \in Nat /\ x \in Nat /\ were \in Nat
    BY <1>1, Numbers
  <2>3. gone \in Nat /\ come \in Nat /\ y \in Nat
    <3>1. h[o].items \in Seq(Refs) /\ items \in Seq(Refs) /\ hand2 \in Seq(Refs)
      BY <1>1, ObjectIs
    <3>2. \A s \in Seq(Refs) : Occurs(s, p) \in Nat
      BY SeqFinite, AtFinite
    <3>3. QED
      BY <3>1, <3>2
  <2>4. come + y = gone + x
    BY DEF Balanced
  <2>5. are = were - gone + come
    BY <1>4
  <2>6. n = z + y + are
    <3> HIDE DEF n, z, x, y, were, are, gone, come, Fits, Refilled
    <3>1. QED
      BY <2>1, <2>2, <2>3, <2>4, <2>5
  <2>7. QED
    BY <2>6
<1>6. FreeIffZero(g)
  <2>1. FreeIffZero(h)
    BY DEF Ledger
  <2>2. QED
    BY <2>1 DEF FreeIffZero
<1>7. ViewsOk(g, {})
  <2> SUFFICES ASSUME NEW p \in Cells, g[p].kind = "view" PROVE ViewOk(g, p)
    BY DEF ViewsOk
  <2>2. p # o
    OBVIOUS
  <2>3. g[p] = h[p] /\ ViewOk(h, p)
    BY <2>2 DEF Ledger, ViewsOk
  <2>4. 1 \in DOMAIN h[p].items
    BY <1>1, <2>3, ObjectIs DEF ViewOk
  <2>5. h[p].items[1] # o
    BY <1>1, <2>4, NotAnItem
  <2>6. QED
    BY <2>3, <2>5 DEF ViewOk
<1>8. TextsPlain(g)
  <2> SUFFICES ASSUME NEW p \in Cells, g[p].kind = "text", NEW i \in DOMAIN g[p].items PROVE g[p].items[i] = Nil
    BY DEF TextsPlain
  <2>1. CASE p = o
    BY <2>1
  <2>2. CASE p # o
    BY <2>2 DEF Ledger, TextsPlain
  <2>3. QED
    BY <2>1, <2>2
<1>9. QED
  BY <1>1, <1>5, <1>6, <1>7, <1>8 DEF Ledger

\* The register a holds the one reference to x.
Only(m, rest, a, x) ==
  /\ x \in Cells /\ m.regs[a] = x /\ rest[x] = 0
  /\ \A r \in Regs \ {a} : m.regs[r] # x
  /\ InItems(m.heap, {}, x) = 0

\* Of an object that has been written.
Written(m, x, kind, items, start) ==
  m.heap[x].kind = kind /\ m.heap[x].items = items /\ m.heap[x].start = start

\* Freeing adds no holder.
LEMMA ShrunkItems ==
  ASSUME NEW h \in Heaps, NEW g \in Heaps, Shrunk(h, g), FreeIffZero(g), NEW x, InItems(h, {}, x) = 0
  PROVE  InItems(g, {}, x) = 0
<1> DEFINE X == {}
<1>1. X \in SUBSET Cells /\ InItems(h, X, x) = 0 /\ Cells \ X = Cells
  OBVIOUS
<1> HIDE DEF X
<1>2. \A p \in Cells \ X : \A i \in DOMAIN h[p].items : h[p].items[i] # x
  BY <1>1, NoneHeld
<1>3. \A p \in Cells \ X : \A i \in DOMAIN g[p].items : g[p].items[i] # x
  <2> SUFFICES ASSUME NEW p \in Cells, NEW i \in DOMAIN g[p].items PROVE g[p].items[i] # x
    BY <1>1
  <2>1. CASE g[p].kind = "free"
    <3>1. g[p].items = <<>>
      BY <2>1 DEF FreeIffZero
    <3>2. QED
      BY <3>1
  <2>2. CASE g[p].items = h[p].items
    BY <1>1, <1>2, <2>2
  <2>3. QED
    BY <2>1, <2>2 DEF Shrunk
<1>4. InItems(g, X, x) = 0
  BY <1>1, <1>3, NoneHeld
<1>5. QED
  BY <1>4 DEF X

\* What is left of the free cells.
LEMMA RoomAfter ==
  ASSUME NEW h \in Heaps, NEW g \in Heaps, NEW x \in Cells, Rewritten(h, g, x)
  PROVE  /\ IsFiniteSet(FreeCells(h)) /\ IsFiniteSet(FreeCells(g))
         /\ Cardinality(FreeCells(h)) \in Nat /\ Cardinality(FreeCells(g)) \in Nat
         /\ Cardinality(FreeCells(g)) >= Cardinality(FreeCells(h)) - 1
<1> DEFINE F == FreeCells(h)
           G == FreeCells(g)
<1>1. F = {o \in Cells : h[o].kind = "free"} /\ G = {o \in Cells : g[o].kind = "free"}
  BY DEF FreeCells, Heaps
<1>2. F \in SUBSET Cells /\ G \in SUBSET Cells /\ F \ {x} \in SUBSET G
  BY <1>1 DEF Rewritten
<1> HIDE DEF F, G
<1>3. IsFiniteSet(F) /\ IsFiniteSet(G) /\ Cardinality(F) \in Nat /\ Cardinality(G) \in Nat
  BY <1>2, BoundsAre, FS_Subset, FS_CardinalityType
<1>4. Cardinality(F \ {x}) <= Cardinality(G)
  BY <1>2, <1>3, FS_Subset
<1>5. Cardinality(F) = Cardinality(F \ {x}) + Bit(x \in F) /\ Cardinality(F \ {x}) \in Nat
  BY <1>3, WithAndWithout
<1>6. Cardinality(G) >= Cardinality(F) - 1
  BY <1>3, <1>4, <1>5 DEF Bit
<1>7. QED
  BY <1>3, <1>6 DEF F, G

\* A new object in a register.
LEMMA WriteNewIs ==
  ASSUME NEW m, NEW rest, Books(m, rest, <<>>), FreeCells(m.heap) # {}, NEW a \in Regs,
         NEW kind, NEW items, NEW start, Sensible(m.heap, kind, items, start)
  PROVE  LET w == WriteNew(m, a, kind, items, start)
             x == NewCell(m.heap)
         IN  /\ Books(w, rest, <<>>) /\ w.regs = Put(m.regs, a, x)
             /\ x \in Cells /\ m.heap[x].kind = "free"
             /\ Rewritten(m.heap, w.heap, x) /\ Written(w, x, kind, items, start) /\ Only(w, rest, a, x)
<1> DEFINE h == m.heap
           regs == m.regs
           x == NewCell(h)
           g == CloneAll(h, items)
           object == Object(kind, items, start)
           k == [g EXCEPT ![x] = object]
           n == [heap |-> k, regs |-> regs]
           w == Write(n, a, x)
           wr == With(rest, regs)
<1>1. h \in Heaps /\ regs \in RegFile /\ rest \in [Cells -> Nat] /\ Ledger(h, {}, wr, <<>>)
  BY BooksFacts
<1>2. x \in Cells /\ h[x].kind = "free"
  BY <1>1, NewCellIs
<1>3. items \in Seq(Refs) /\ \A i \in 1..Len(items) : Present(h, items[i])
  BY DEF Sensible
<1>4. WriteNew(m, a, kind, items, start) = w
  <2>1. m = [heap |-> m.heap, regs |-> m.regs]
    BY BooksFacts
  <2>2. [m EXCEPT !.heap = [CloneAll(@, items) EXCEPT ![NewCell(m.heap)] = Object(kind, items, start)]] = n
    BY <2>1
  <2>3. QED
    BY <2>2 DEF WriteNew
<1>5. /\ Ledger(g, {}, wr, items)
      /\ \A o \in Cells : g[o].kind = h[o].kind /\ g[o].items = h[o].items /\ g[o].start = h[o].start
  <2> HIDE DEF g, h, wr
  <2>1. /\ Ledger(g, {}, wr, <<>> \o items)
        /\ \A o \in Cells : g[o].kind = h[o].kind /\ g[o].items = h[o].items /\ g[o].start = h[o].start
    BY <1>1, <1>3, CloneAllIs DEF g
  <2>2. <<>> \o items = items
    BY <1>3
  <2>3. QED
    BY <2>1, <2>2
<1>6. g \in Heaps
  <2> HIDE DEF g, wr
  <2> QED
    BY <1>5 DEF Ledger
<1>7. object \in Objects /\ object.kind = kind /\ object.items = items /\ object.start = start /\ object.rc = 1
  BY DEF Sensible, Object, Objects
<1> HIDE DEF g, object, x, wr
<1>8. k \in Heaps /\ (\A p \in Cells \ {x} : k[p] = g[p]) /\ k[x] = object
  BY <1>2, <1>6, <1>7, HeapExcept
<1>9. n.heap = k /\ n.regs = regs
  OBVIOUS
<1> HIDE DEF k
<1>10. Sensible(g, kind, items, start)
  BY <1>5 DEF Sensible, Present
<1>11. Ledger(k, {}, wr, <<x>>)
  <2>1. k[x].kind = kind /\ k[x].items = items /\ k[x].start = start /\ k[x].rc = 1
    BY <1>7, <1>8
  <2>2. g[x].kind = "free"
    BY <1>2, <1>5
  <2>3. QED
    BY <1>2, <1>5, <1>8, <1>10, <2>1, <2>2, NewObject
<1>12. Books(n, rest, <<x>>)
  BY <1>1, <1>11, BooksOf DEF wr
<1> HIDE DEF n, h, regs
<1>13. Books(w, rest, <<>>) /\ Shrunk(n.heap, w.heap) /\ w.regs = Put(n.regs, a, x)
  BY <1>12, WriteIs
<1> HIDE DEF w
<1>14. Rewritten(h, w.heap, x)
  BY <1>5, <1>8, <1>9, <1>13 DEF Rewritten, Shrunk
<1>15. w.regs[a] = x /\ \A r \in Regs \ {a} : w.regs[r] = regs[r]
  BY <1>1, <1>2, <1>9, <1>13, PutIs, BoundsAre
<1>16. w.heap[x].kind # "free"
  <2>1. Present(w.heap, w.regs[a])
    BY <1>13, RegisterIsThere
  <2>2. QED
    BY <1>2, <1>15, <2>1, BoundsAre DEF Present
<1>17. Written(w, x, kind, items, start)
  BY <1>2, <1>7, <1>8, <1>9, <1>13, <1>16 DEF Written, Shrunk
<1>18. rest[x] = 0
  <2>1. wr[x] = 0
    BY <1>1, <1>2, FreeIsUnheld
  <2>2. Occurs(regs, x) \in Nat /\ wr[x] = rest[x] + Occurs(regs, x) /\ rest[x] \in Nat
    BY <1>1, <1>2, WithIs DEF wr
  <2>3. QED
    BY <2>1, <2>2
<1>19. \A r \in Regs \ {a} : w.regs[r] # x
  <2> SUFFICES ASSUME NEW r \in Regs \ {a} PROVE w.regs[r] # x
    OBVIOUS
  <2>1. Present(h, regs[r])
    BY RegisterIsThere DEF h, regs
  <2>2. QED
    BY <1>2, <1>15, <2>1, BoundsAre DEF Present
<1>20. InItems(w.heap, {}, x) = 0
  <2>1. InItems(k, {}, x) = 0
    <3>1. k[x].rc = wr[x] + Occurs(<<x>>, x) + InItems(k, {}, x) /\ k[x].rc = 1
      BY <1>2, <1>7, <1>8, <1>11 DEF Ledger, Counted
    <3>2. Occurs(<<x>>, x) = 1
      BY OccursOne DEF Bit
    <3>3. wr[x] \in Nat /\ InItems(k, {}, x) \in Nat
      BY <1>1, <1>2, HeldFinite DEF Ledger
    <3>4. QED
      BY <3>1, <3>2, <3>3
  <2>2. w.heap \in Heaps /\ FreeIffZero(w.heap)
    BY <1>13, BooksFacts DEF Ledger
  <2>3. QED
    BY <1>8, <1>9, <1>13, <2>1, <2>2, ShrunkItems
<1>21. Only(w, rest, a, x)
  BY <1>2, <1>15, <1>18, <1>19, <1>20 DEF Only
<1>22. QED
  BY <1>2, <1>4, <1>9, <1>13, <1>14, <1>17, <1>21 DEF h, regs, x

-----------------------------------------------------------------------------
\* The items a list operation sees in a view or a list.
LEMMA SliceIs ==
  ASSUME NEW m, NEW rest, NEW hand, Books(m, rest, hand), NEW o \in Cells
  PROVE  LET s == Slice(m.heap, o)
         IN  /\ s \in Seq(Refs) /\ Len(s) <= MaxLen /\ DOMAIN s = 1..Len(s)
             /\ \A i \in 1..Len(s) : Present(m.heap, s[i])
<1> DEFINE h == m.heap
           l == h[o].items[1]
           e == h[l].items[h[o].start]
<1>1. h \in Heaps /\ ViewsOk(h, {})
  BY BooksFacts DEF Ledger
<1>2. CASE h[o].kind = "view"
  <2>1. ViewOk(h, o)
    BY <1>1, <1>2 DEF ViewsOk
  <2>2. l \in Cells /\ h[o].start \in 1..Len(h[l].items)
    BY <2>1 DEF ViewOk
  <2>3. DOMAIN h[l].items = 1..Len(h[l].items)
    BY <1>1, <2>2, ObjectIs
  <2>4. e \in Refs /\ Present(h, e)
    <3> DEFINE i == h[o].start
    <3>1. i \in DOMAIN h[l].items
      BY <2>2, <2>3
    <3> HIDE DEF i, l
    <3>2. h[l].items[i] \in Refs /\ Present(h, h[l].items[i])
      BY <2>2, <3>1, ItemIsThere
    <3>3. QED
      BY <3>2 DEF i
  <2>5. Slice(h, o) = <<e>>
    BY <1>2 DEF Slice
  <2> HIDE DEF e
  <2> DEFINE s == <<e>>
  <2>6. s \in Seq(Refs) /\ Len(s) = 1 /\ DOMAIN s = 1..Len(s) /\ \A i \in 1..Len(s) : s[i] = e
    BY <2>4
  <2> HIDE DEF s
  <2>7. 1 <= MaxLen
    BY BoundsAre
  <2>8. QED
    BY <2>4, <2>5, <2>6, <2>7 DEF s
<1>3. CASE h[o].kind # "view"
  <2>1. Slice(h, o) = h[o].items
    BY <1>3 DEF Slice
  <2>2. \A i \in DOMAIN h[o].items : Present(h, h[o].items[i])
    BY ItemIsThere
  <2>3. QED
    BY <1>1, <2>1, <2>2, ObjectIs
<1>4. QED
  BY <1>2, <1>3

\* A count of 1 in a register: it holds the one reference.
LEMMA SoleIs ==
  ASSUME NEW m, NEW rest, Books(m, rest, <<>>), NEW a \in Regs, m.regs[a] \in Cells, m.heap[m.regs[a]].rc = 1
  PROVE  Only(m, rest, a, m.regs[a])
<1> DEFINE o == m.regs[a]
           regs == m.regs
<1>1. o \in Cells /\ regs \in RegFile /\ o \in Refs /\ Nil \in Refs /\ Nil # o
  BY BooksFacts, BoundsAre
<1>2. /\ rest[o] \in Nat /\ Occurs(regs, o) \in Nat /\ InItems(m.heap, {}, o) \in Nat
      /\ 1 = rest[o] + Occurs(regs, o) + Occurs(<<>>, o) + InItems(m.heap, {}, o)
  BY <1>1, BooksFacts
<1>3. Occurs(<<>>, o) = 0
  BY OccursNone
<1> DEFINE t == Put(regs, a, Nil)
<1>4. t \in RegFile /\ \A r \in Regs \ {a} : t[r] = regs[r]
  BY <1>1, PutIs
<1>5. Occurs(t, o) = Occurs(regs, o) - Bit(o = o) + Bit(Nil = o)
  BY <1>1, PutCounts
<1> HIDE DEF t
<1>6. Occurs(t, o) \in Nat
  BY <1>1, <1>4, WithIs, BooksFacts
<1> HIDE DEF o, regs
<1>7. Occurs(t, o) = Occurs(regs, o) - 1
  BY <1>1, <1>2, <1>5 DEF Bit
<1>8. Occurs(t, o) = 0 /\ rest[o] = 0 /\ InItems(m.heap, {}, o) = 0
  BY <1>2, <1>3, <1>6, <1>7
<1>9. \A r \in DOMAIN t : t[r] # o
  <2>1. IsFiniteSet(DOMAIN t)
    BY <1>4, BoundsAre DEF RegFile
  <2>2. QED
    BY <1>8, <2>1, AtFinite
<1>10. \A r \in Regs \ {a} : regs[r] # o
  BY <1>4, <1>9 DEF RegFile
<1>11. QED
  BY <1>1, <1>8, <1>10 DEF Only, o, regs

\* The items of an object are overwritten in place.
LEMMA InPlaceIs ==
  ASSUME NEW h, NEW rest, NEW hand, Ledger(h, {}, rest, hand),
         NEW o, NEW items, Fits(h, o, items), InItems(h, {}, o) = 0,
         NEW hand2 \in Seq(Refs), Balanced(h[o].items, hand, items, hand2)
  PROVE  /\ Ledger(Overwritten(h, o, items), {}, rest, hand2)
         /\ \A p \in Cells \ {o} : Overwritten(h, o, items)[p] = h[p]
         /\ Overwritten(h, o, items)[o].kind = h[o].kind
         /\ Overwritten(h, o, items)[o].items = items
         /\ Overwritten(h, o, items)[o].start = h[o].start
<1> DEFINE y == [h[o] EXCEPT !.items = items]
           g == [h EXCEPT ![o] = y]
<1>0. o \in Cells /\ items \in Seq(Refs) /\ Len(items) <= MaxLen
  BY DEF Fits
<1>1. h \in Heaps /\ h[o] \in Objects
  BY <1>0, ObjectIs DEF Ledger
<1>2. y \in Objects /\ y.kind = h[o].kind /\ y.items = items /\ y.start = h[o].start /\ y.rc = h[o].rc
  BY <1>0, <1>1 DEF Objects
<1>3. Overwritten(h, o, items) = g
  BY DEF Overwritten
<1> HIDE DEF y
<1>4. g \in Heaps /\ (\A p \in Cells \ {o} : g[p] = h[p]) /\ g[o] = y
  BY <1>0, <1>1, <1>2, HeapExcept
<1> HIDE DEF g
<1>5. g[o].kind = h[o].kind /\ g[o].items = items /\ g[o].start = h[o].start /\ g[o].rc = h[o].rc
  BY <1>2, <1>4
<1>6. Ledger(g, {}, rest, hand2)
  <2>1. Refilled(h, g, o, items)
    BY <1>4, <1>5 DEF Refilled
  <2>2. QED
    BY <2>1, NewItems
<1>7. QED
  BY <1>3, <1>4, <1>5, <1>6

\* A view becomes a list of its own.
LEMMA MaterializeIs ==
  ASSUME NEW m, NEW rest, Books(m, rest, <<>>), NEW a \in Regs, ViewIn(m, a), FreeCells(m.heap) # {}
  PROVE  LET w == Materialize(m, a)
             x == NewCell(m.heap)
         IN  /\ Books(w, rest, <<>>) /\ w.regs = Put(m.regs, a, x)
             /\ x \in Cells /\ m.heap[x].kind = "free" /\ m.regs[a] \in Cells
             /\ Rewritten(m.heap, w.heap, x) /\ Written(w, x, "list", Slice(m.heap, m.regs[a]), 0)
             /\ Only(w, rest, a, x)
<1> DEFINE s == Slice(m.heap, m.regs[a])
<1>1. m.regs[a] \in Refs /\ m.regs[a] \in Cells
  BY RegisterIsThere DEF ViewIn, IsRef, Refs, Cells
<1>2. s \in Seq(Refs) /\ Len(s) <= MaxLen /\ \A i \in 1..Len(s) : Present(m.heap, s[i])
  BY <1>1, SliceIs
<1>3. Materialize(m, a) = WriteNew(m, a, "list", s, 0)
  BY DEF Materialize, ViewIn
<1> HIDE DEF s
<1>4. Sensible(m.heap, "list", s, 0)
  BY <1>2 DEF Sensible, Kinds
<1>5. LET w == WriteNew(m, a, "list", s, 0)
          x == NewCell(m.heap)
      IN  /\ Books(w, rest, <<>>) /\ w.regs = Put(m.regs, a, x)
          /\ x \in Cells /\ m.heap[x].kind = "free"
          /\ Rewritten(m.heap, w.heap, x) /\ Written(w, x, "list", s, 0) /\ Only(w, rest, a, x)
  BY <1>4, WriteNewIs
<1>6. QED
  BY <1>1, <1>3, <1>5 DEF s

\* Anything else stays as it is.
LEMMA NothingToMaterialize ==
  ASSUME NEW m, NEW a, ~ViewIn(m, a) PROVE Materialize(m, a) = m
BY DEF Materialize, ViewIn

-----------------------------------------------------------------------------
\* The one item of a view is taken in hand: the view is open.
LEMMA OpenView ==
  ASSUME NEW h, NEW rest, Ledger(h, {}, rest, <<>>), NEW w \in Cells, h[w].kind = "view", rest[w] > 0
  PROVE  /\ Ledger(h, {w}, rest, <<h[w].items[1]>>) /\ h[w].items[1] \in Refs
         /\ h[w].items = <<h[w].items[1]>>
<1> DEFINE X == {w}
           hand == h[w].items
           Z == {}
<1>1. /\ h \in Heaps /\ rest \in [Cells -> Nat] /\ Counted(h, Z, rest, <<>>) /\ FreeIffZero(h)
      /\ ViewsOk(h, Z) /\ TextsPlain(h)
  BY DEF Ledger
<1>2. ViewOk(h, w)
  BY <1>1 DEF ViewsOk
<1>3. hand \in Seq(Refs) /\ Len(hand) = 1
  BY <1>1, <1>2, ObjectIs DEF ViewOk
<1>4. X \in SUBSET Cells /\ Z \in SUBSET Cells /\ w \in Cells \ Z /\ Z \cup {w} = X
  OBVIOUS
<1> HIDE DEF hand
<1>5. Counted(h, X, rest, hand)
  <2> SUFFICES ASSUME NEW o \in Cells PROVE h[o].rc = rest[o] + Occurs(hand, o) + InItems(h, X, o)
    BY DEF Counted
  <2> HIDE DEF X, Z
  <2>1. InItems(h, Z, o) = InItems(h, Z \cup {w}, o) + Occurs(hand, o)
    BY <1>1, <1>4, Split DEF hand
  <2>2. InItems(h, Z, o) = InItems(h, X, o) + Occurs(hand, o)
    BY <1>4, <2>1, Zenon
  <2>3. h[o].rc = rest[o] + Occurs(<<>>, o) + InItems(h, Z, o)
    BY <1>1 DEF Counted
  <2>4. Occurs(<<>>, o) = 0
    BY OccursNone
  <2>5. rest[o] \in Nat /\ InItems(h, X, o) \in Nat /\ Occurs(hand, o) \in Nat
    BY <1>1, <1>3, <1>4, Numbers
  <2>6. QED
    BY <2>2, <2>3, <2>4, <2>5
<1>6. ViewsOk(h, X)
  BY <1>1 DEF ViewsOk
<1>7. Ledger(h, X, rest, hand)
  BY <1>1, <1>3, <1>4, <1>5, <1>6 DEF Ledger
<1>8. hand = <<hand[1]>> /\ hand[1] \in Refs
  <2> DEFINE e == hand[1]
             s == <<e>>
  <2>0. e \in Refs
    BY <1>3
  <2> HIDE DEF e
  <2>1. s \in Seq(Refs) /\ Len(s) = Len(hand)
    BY <1>3, <2>0
  <2>2. \A i \in 1..Len(hand) : i = 1
    BY <1>3
  <2>3. s[1] = hand[1]
    BY DEF e
  <2> HIDE DEF s
  <2>4. \A i \in 1..Len(s) : s[i] = hand[i]
    BY <2>1, <2>2, <2>3
  <2>5. s = hand
    BY <1>3, <2>1, <2>4, SeqEqual
  <2>6. QED
    BY <2>0, <2>5 DEF s, e
<1>9. Ledger(h, X, rest, <<hand[1]>>)
  BY <1>7, <1>8, Zenon
<1>10. QED
  BY <1>8, <1>9 DEF hand

\* It is closed on another list.
Pointed(h, g, w, src, i) ==
  /\ \A p \in Cells \ {w} : g[p] = h[p]
  /\ g[w].kind = h[w].kind /\ g[w].items = <<src>> /\ g[w].start = i /\ g[w].rc = h[w].rc

\* The view takes the list that is in hand.
LEMMA CloseView ==
  ASSUME NEW h, NEW rest, NEW w \in Cells, NEW src \in Cells, Ledger(h, {w}, rest, <<src>>),
         h[w].kind = "view", h[src].kind = "list", NEW i \in 1..Len(h[src].items),
         NEW g \in Heaps, Pointed(h, g, w, src, i)
  PROVE  Ledger(g, {}, rest, <<>>)
<1> DEFINE X == {w}
           Z == {}
           hand == <<src>>
<1>1. /\ h \in Heaps /\ rest \in [Cells -> Nat] /\ hand \in Seq(Refs) /\ Counted(h, X, rest, hand) /\ FreeIffZero(h)
      /\ ViewsOk(h, X) /\ TextsPlain(h)
  BY DEF Ledger
<1>2. X \in SUBSET Cells /\ Z \in SUBSET Cells /\ w \in Cells \ Z /\ Z \cup {w} = X
  OBVIOUS
<1>3. g[w].items = hand
  BY DEF Pointed
<1>10. /\ \A p \in Cells \ {w} : g[p] = h[p]
       /\ g[w].kind = h[w].kind /\ g[w].items = <<src>> /\ g[w].start = i /\ g[w].rc = h[w].rc
  BY DEF Pointed
<1>4. Counted(g, Z, rest, <<>>)
  <2> SUFFICES ASSUME NEW o \in Cells PROVE g[o].rc = rest[o] + Occurs(<<>>, o) + InItems(g, Z, o)
    BY DEF Counted
  <2> HIDE DEF hand
  <2>0. \A p \in Cells \ X : g[p].items = h[p].items
    BY <1>10
  <2> HIDE DEF X, Z
  <2>1. InItems(g, Z, o) = InItems(g, Z \cup {w}, o) + Occurs(g[w].items, o)
    BY <1>2, Split
  <2>2. InItems(g, Z, o) = InItems(g, X, o) + Occurs(hand, o)
    BY <1>2, <1>3, <2>1, Zenon
  <2>3. InItems(g, X, o) = InItems(h, X, o)
    BY <1>2, <2>0, SameItems
  <2>4. h[o].rc = rest[o] + Occurs(hand, o) + InItems(h, X, o)
    BY <1>1 DEF Counted
  <2>5. Occurs(<<>>, o) = 0
    BY OccursNone
  <2>6. rest[o] \in Nat /\ InItems(h, X, o) \in Nat /\ Occurs(hand, o) \in Nat
    BY <1>1, <1>2, Numbers
  <2>7. g[o].rc = h[o].rc
    BY <1>10
  <2>8. QED
    BY <2>2, <2>3, <2>4, <2>5, <2>6, <2>7
<1>5. FreeIffZero(g)
  BY <1>1, <1>10 DEF FreeIffZero
<1>6. ViewsOk(g, Z)
  <2> SUFFICES ASSUME NEW p \in Cells, g[p].kind = "view" PROVE ViewOk(g, p)
    BY DEF ViewsOk
  <2>1. CASE p = w
    <3>1. src # w /\ g[src] = h[src]
      BY <1>10
    <3>2. QED
      BY <1>10, <2>1, <3>1 DEF ViewOk
  <2>2. CASE p # w
    <3>1. g[p] = h[p] /\ ViewOk(h, p)
      BY <1>1, <1>10, <2>2 DEF ViewsOk
    <3>2. h[p].items[1] # w
      BY <3>1 DEF ViewOk
    <3>3. QED
      BY <1>10, <3>1, <3>2 DEF ViewOk
  <2>3. QED
    BY <2>1, <2>2
<1>7. TextsPlain(g)
  BY <1>1, <1>10 DEF TextsPlain
<1>8. <<>> \in Seq(Refs)
  OBVIOUS
<1>9. QED
  BY <1>1, <1>4, <1>5, <1>6, <1>7, <1>8 DEF Ledger

\* A view that is in no other hands is pointed at another list.
Rebound(m, w, src, i) ==
  [m EXCEPT !.heap = [Clone(Drop(@, @[w].items[1]), src) EXCEPT ![w].items = <<src>>, ![w].start = i]]

\* OP_WINDOW_VIEW on the view of the last round.
LEMMA ReboundIs ==
  ASSUME NEW m, NEW rest, Books(m, rest, <<>>), NEW a \in Regs, NEW b \in Regs, a # b,
         m.regs[a] \in Cells, m.heap[m.regs[a]].kind = "view", m.heap[m.regs[a]].rc = 1,
         m.regs[b] \in Cells, m.heap[m.regs[b]].kind = "list",
         NEW i \in 1..Len(m.heap[m.regs[b]].items)
  PROVE  LET w == m.regs[a]
             src == m.regs[b]
             n == Rebound(m, w, src, i)
         IN  /\ Books(n, rest, <<>>) /\ n.regs = m.regs /\ Rewritten(m.heap, n.heap, w)
             /\ Written(n, w, "view", <<src>>, i) /\ Only(n, rest, a, w)
<1> DEFINE h == m.heap
           regs == m.regs
           w == regs[a]
           src == regs[b]
           wr == With(rest, regs)
           old == h[w].items[1]
           g == Drop(h, old)
           k == Clone(g, src)
           y == [k[w] EXCEPT !.items = <<src>>, !.start = i]
           l == [k EXCEPT ![w] = y]
           n == [heap |-> l, regs |-> regs]
<1>1. /\ h \in Heaps /\ regs \in RegFile /\ rest \in [Cells -> Nat] /\ Ledger(h, {}, wr, <<>>)
      /\ m = [heap |-> h, regs |-> regs]
  BY BooksFacts
<1>2. w \in Cells /\ src \in Cells /\ w # src /\ w \in Refs /\ src \in Refs
  BY BoundsAre
<1>3. \A r \in Regs : regs[r] \in Cells => wr[regs[r]] > 0
  <2> SUFFICES ASSUME NEW r \in Regs, regs[r] \in Cells PROVE wr[regs[r]] > 0
    OBVIOUS
  <2> DEFINE o == regs[r]
  <2>1. IsFiniteSet(DOMAIN regs) /\ r \in DOMAIN regs
    BY <1>1, BoundsAre DEF RegFile
  <2>2. Occurs(regs, o) # 0
    BY <2>1, AtFinite
  <2>3. Occurs(regs, o) \in Nat /\ wr[o] = rest[o] + Occurs(regs, o) /\ rest[o] \in Nat
    BY <1>1, WithIs
  <2>4. QED
    BY <2>2, <2>3
<1>4. wr[w] > 0 /\ wr[src] > 0
  BY <1>2, <1>3
<1>5. Only(m, rest, a, w)
  BY SoleIs
<1>7. /\ h[w].kind = "view" /\ h[src].kind = "list" /\ i \in 1..Len(h[src].items) /\ a # b
      /\ regs[a] = w /\ regs[b] = src
  OBVIOUS
<1> HIDE DEF y, k, g, wr, src, w, regs, h
<1>8. Ledger(h, {w}, wr, <<old>>) /\ old \in Refs
  BY <1>1, <1>2, <1>4, <1>7, OpenView
<1> HIDE DEF old
<1>9. Ledger(g, {w}, wr, <<>>) /\ Shrunk(h, g)
  BY <1>8, DropIs DEF g
<1>10. g[w].kind # "free" /\ g[src].kind # "free"
  BY <1>2, <1>4, <1>9, HeldIsThere
<1>11. Present(g, src)
  BY <1>2, <1>10 DEF Present
<1>12. /\ Ledger(k, {w}, wr, <<src>>)
       /\ \A o \in Cells : k[o].kind = g[o].kind /\ k[o].items = g[o].items /\ k[o].start = g[o].start
  BY <1>2, <1>9, <1>11, CloneIs DEF k
<1>13. k \in Heaps /\ k[w] \in Objects
  BY <1>2, <1>12, ObjectIs DEF Ledger
<1>14. i \in Nat
  OBVIOUS
<1>15. y \in Objects /\ y.kind = k[w].kind /\ y.items = <<src>> /\ y.start = i /\ y.rc = k[w].rc
  <2> DEFINE s == <<src>>
  <2>1. s \in Seq(Refs) /\ Len(s) = 1 /\ 1 <= MaxLen
    BY <1>2, BoundsAre
  <2>2. y = [k[w] EXCEPT !.items = s, !.start = i]
    BY DEF y
  <2> HIDE DEF s
  <2>3. y \in Objects /\ y.kind = k[w].kind /\ y.items = s /\ y.start = i /\ y.rc = k[w].rc
    BY <1>13, <1>14, <2>1, <2>2 DEF Objects
  <2>4. QED
    BY <2>3 DEF s
<1>16. l \in Heaps /\ (\A p \in Cells \ {w} : l[p] = k[p]) /\ l[w] = y
  BY <1>2, <1>13, <1>15, HeapExcept
<1>6. Rebound(m, w, src, i) = n
  <2>1. [k EXCEPT ![w].items = <<src>>, ![w].start = i] = l
    BY <1>2, <1>13 DEF Heaps, y
  <2>2. Rebound(m, w, src, i)
          = [m EXCEPT !.heap = [k EXCEPT ![w].items = <<src>>, ![w].start = i]]
    BY DEF Rebound, k, g, old, h
  <2>3. [m EXCEPT !.heap = l] = n
    BY <1>1
  <2>4. QED
    BY <2>1, <2>2, <2>3, Zenon
<1>17. n.heap = l /\ n.regs = regs
  OBVIOUS
<1> HIDE DEF l
<1>18. k[w].kind = "view" /\ k[src].kind = "list" /\ k[src].items = h[src].items
  BY <1>2, <1>7, <1>9, <1>10, <1>12 DEF Shrunk
<1>19. Ledger(l, {}, wr, <<>>)
  <2>1. Pointed(k, l, w, src, i) /\ i \in 1..Len(k[src].items)
    BY <1>7, <1>15, <1>16, <1>18 DEF Pointed
  <2>2. QED
    BY <1>2, <1>12, <1>16, <1>18, <2>1, CloseView
<1>20. Books(n, rest, <<>>)
  BY <1>1, <1>19, BooksOf DEF wr
<1> HIDE DEF n
<1>21. Rewritten(h, l, w)
  BY <1>9, <1>12, <1>16 DEF Rewritten, Shrunk
<1>22. Written(n, w, "view", <<src>>, i)
  BY <1>15, <1>16, <1>17, <1>18 DEF Written
<1>23. InItems(l, {}, w) = 0
  <2> DEFINE Z == {}
  <2>1. \A p \in Cells : \A j \in DOMAIN h[p].items : h[p].items[j] # w
    <3>1. InItems(h, {}, w) = 0
      BY <1>5 DEF Only, h
    <3>2. QED
      BY <1>1, <3>1, NotAnItem
  <2>2. ASSUME NEW p \in Cells, NEW j \in DOMAIN l[p].items PROVE l[p].items[j] # w
    <3>1. CASE p = w
      <4>1. l[w].items = <<src>>
        BY <1>15, <1>16
      <4>2. QED
        BY <1>2, <3>1, <4>1
    <3>2. CASE p # w
      <4>1. l[p].items = g[p].items
        BY <1>12, <1>16, <3>2
      <4>2. CASE g[p].kind = "free"
        <5>1. g[p].items = <<>>
          BY <1>9, <4>2 DEF Ledger, FreeIffZero
        <5>2. QED
          BY <4>1, <5>1
      <4>3. CASE g[p].items = h[p].items
        BY <2>1, <4>1, <4>3
      <4>4. QED
        BY <1>9, <4>2, <4>3 DEF Shrunk
    <3>3. QED
      BY <3>1, <3>2
  <2>3. Z \in SUBSET Cells /\ Cells \ Z = Cells
    OBVIOUS
  <2> HIDE DEF Z
  <2>4. InItems(l, Z, w) = 0
    <3>1. \A p \in Cells \ Z : \A j \in DOMAIN l[p].items : l[p].items[j] # w
      BY <2>2, <2>3
    <3>2. l \in Heaps
      BY <1>16
    <3>3. InItems(l, Z, w) = 0 <=> \A p \in Cells \ Z : \A j \in DOMAIN l[p].items : l[p].items[j] # w
      BY <2>3, <3>2, NoneHeld
    <3>4. QED
      BY <3>1, <3>3
  <2>5. QED
    BY <2>4 DEF Z
<1>24. Only(n, rest, a, w)
  BY <1>5, <1>17, <1>23 DEF Only, h, regs
<1>25. QED
  BY <1>6, <1>17, <1>20, <1>21, <1>22, <1>24 DEF h, regs, w, src

-----------------------------------------------------------------------------
(***************************************************************************)
(* What the objects mean.  T gives every reference a value that agrees     *)
(* with the items of its object; ord ranks the objects above their items.  *)
(***************************************************************************)
Told(h, o) == IF h[o].kind = "view" THEN "list" ELSE h[o].kind

\* The value of the object o whose items stand for what T says.
Composed(h, T, o) == Value(Told(h, o), [i \in DOMAIN Slice(h, o) |-> T[Slice(h, o)[i]]])

Meaning(h, T) ==
  /\ T[Nil] = NilValue
  /\ \A o \in Cells : h[o].kind # "free" => T[o] = Composed(h, T, o)

Ordered(h, ord) ==
  /\ ord \in [Cells -> 1..MaxCells]
  /\ \A o, p \in Cells : ord[o] = ord[p] => o = p
  /\ \A o \in Cells : \A i \in DOMAIN h[o].items :
       h[o].items[i] \in Cells => ord[h[o].items[i]] < ord[o]

\* The object x goes to the top of the order.
Raise(ord, x) ==
  [o \in Cells |-> IF o = x THEN MaxCells ELSE IF ord[o] > ord[x] THEN ord[o] - 1 ELSE ord[o]]

\* The object that goes to the top ranks above the others, which keep their order.
LEMMA RaiseIs ==
  ASSUME NEW ord \in [Cells -> 1..MaxCells], \A o, p \in Cells : ord[o] = ord[p] => o = p, NEW x \in Cells
  PROVE  /\ Raise(ord, x) \in [Cells -> 1..MaxCells]
         /\ \A o, p \in Cells : Raise(ord, x)[o] = Raise(ord, x)[p] => o = p
         /\ \A o \in Cells \ {x} : Raise(ord, x)[o] < Raise(ord, x)[x]
         /\ \A o, p \in Cells \ {x} : ord[o] < ord[p] => Raise(ord, x)[o] < Raise(ord, x)[p]
<1> DEFINE r == Raise(ord, x)
<1>1. MaxCells \in Nat \ {0} /\ ord[x] \in 1..MaxCells /\ \A o \in Cells : ord[o] \in 1..MaxCells
  BY BoundsAre
<1>2. r[x] = MaxCells /\ \A o \in Cells \ {x} : r[o] = IF ord[o] > ord[x] THEN ord[o] - 1 ELSE ord[o]
  BY DEF Raise
<1>3. r = [o \in Cells |-> r[o]]
  BY DEF Raise
<1> HIDE DEF r
<1>4. \A o \in Cells \ {x} : ord[o] # ord[x] /\ r[o] \in 1..MaxCells /\ r[o] < MaxCells
  <2> SUFFICES ASSUME NEW o \in Cells \ {x} PROVE ord[o] # ord[x] /\ r[o] \in 1..MaxCells /\ r[o] < MaxCells
    OBVIOUS
  <2>1. ord[o] # ord[x]
    OBVIOUS
  <2>2. ord[o] \in 1..MaxCells
    BY <1>1
  <2>3. QED
    BY <1>1, <1>2, <2>1, <2>2
<1>5. r \in [Cells -> 1..MaxCells]
  <2>1. \A o \in Cells : r[o] \in 1..MaxCells
    BY <1>1, <1>2, <1>4
  <2>2. QED
    BY <1>3, <2>1
<1>6. ASSUME NEW o \in Cells \ {x}, NEW p \in Cells \ {x}
      PROVE  (r[o] = r[p] => o = p) /\ (ord[o] < ord[p] => r[o] < r[p])
  <2>1. ord[o] # ord[x] /\ ord[p] # ord[x] /\ (ord[o] = ord[p] => o = p)
    BY <1>4
  <2>2. ord[o] \in Int /\ ord[p] \in Int /\ ord[x] \in Int
    BY <1>1
  <2>3. /\ r[o] = IF ord[o] > ord[x] THEN ord[o] - 1 ELSE ord[o]
        /\ r[p] = IF ord[p] > ord[x] THEN ord[p] - 1 ELSE ord[p]
    BY <1>2
  <2> DEFINE i == ord[o]
             j == ord[p]
             n == ord[x]
             s == r[o]
             t == r[p]
  <2>4. /\ i # n /\ j # n /\ (i = j => o = p) /\ i \in Int /\ j \in Int /\ n \in Int
        /\ s = (IF i > n THEN i - 1 ELSE i) /\ t = (IF j > n THEN j - 1 ELSE j)
    BY <2>1, <2>2, <2>3
  <2> HIDE DEF i, j, n, s, t
  <2>5. (s = t => i = j) /\ (i < j => s < t)
    BY <2>4
  <2>6. QED
    BY <2>4, <2>5 DEF i, j, s, t
<1>7. \A o, p \in Cells : r[o] = r[p] => o = p
  <2> SUFFICES ASSUME NEW o \in Cells, NEW p \in Cells, r[o] = r[p] PROVE o = p
    OBVIOUS
  <2>1. CASE o # x /\ p # x
    BY <1>6, <2>1
  <2>2. CASE o = x \/ p = x
    <3>1. \A q \in Cells \ {x} : r[q] # r[x]
      BY <1>1, <1>2, <1>4
    <3>2. QED
      BY <2>2, <3>1
  <2>3. QED
    BY <2>1, <2>2
<1>8. QED
  BY <1>2, <1>4, <1>5, <1>6, <1>7 DEF r

\* The slices of objects that are left alone stay what they were.
LEMMA SliceKept ==
  ASSUME NEW h, NEW g, NEW x, NEW rest, NEW w, Ledger(g, {}, rest, <<>>), Ledger(h, {}, w, <<>>),
         Rewritten(h, g, x), InItems(g, {}, x) = 0, NEW o \in Cells \ {x}, g[o].kind # "free"
  PROVE  /\ Told(g, o) = Told(h, o) /\ Slice(g, o) = Slice(h, o) /\ h[o].kind # "free"
         /\ g[o].items = h[o].items
         /\ \A i \in DOMAIN Slice(g, o) : Slice(g, o)[i] # x
<1>1. g \in Heaps /\ ViewsOk(g, {}) /\ h \in Heaps
  BY DEF Ledger
<1>2. g[o].kind = h[o].kind /\ g[o].items = h[o].items /\ g[o].start = h[o].start
  BY DEF Rewritten
<1>3. \A p \in Cells : \A i \in DOMAIN g[p].items : g[p].items[i] # x
  BY <1>1, NotAnItem
<1>4. CASE g[o].kind = "view"
  <2> DEFINE l == g[o].items[1]
  <2>1. ViewOk(g, o)
    BY <1>1, <1>4 DEF ViewsOk
  <2>2. l \in Cells /\ g[l].kind = "list" /\ g[o].start \in 1..Len(g[l].items) /\ Len(g[o].items) = 1
    BY <2>1 DEF ViewOk
  <2>3. l # x
    <3>1. 1 \in DOMAIN g[o].items
      BY <1>1, <2>2, ObjectIs
    <3>2. QED
      BY <1>3, <3>1
  <2>4. g[l].items = h[l].items
    BY <2>2, <2>3 DEF Rewritten
  <2>5. g[o].start \in DOMAIN g[l].items
    BY <1>1, <2>2, ObjectIs
  <2>6. g[l].items[g[o].start] # x
    BY <1>3, <2>2, <2>5
  <2>7. h[o].items[1] = l
    BY <1>2
  <2> HIDE DEF l
  <2>8. Slice(g, o) = <<g[l].items[g[o].start]>>
    BY <1>4 DEF Slice, l
  <2>9. Slice(h, o) = <<h[l].items[h[o].start]>>
    BY <1>2, <1>4, <2>7 DEF Slice
  <2>10. Slice(g, o) = Slice(h, o)
    BY <1>2, <2>4, <2>8, <2>9
  <2>11. \A i \in DOMAIN Slice(g, o) : Slice(g, o)[i] # x
    <3> DEFINE e == g[l].items[g[o].start]
               s == <<e>>
    <3>1. DOMAIN s = {1} /\ s[1] = e
      OBVIOUS
    <3>2. Slice(g, o) = s
      BY <2>8
    <3> HIDE DEF s
    <3>3. QED
      BY <2>6, <3>1, <3>2
  <2>12. QED
    BY <1>2, <1>4, <2>10, <2>11 DEF Told
<1>5. CASE g[o].kind # "view"
  BY <1>2, <1>3, <1>5 DEF Told, Slice
<1>6. QED
  BY <1>4, <1>5

\* The value of one reference changes.
Renamed(T, x, v) == [p \in Refs |-> IF p = x THEN v ELSE T[p]]

\* The other references keep their values.
LEMMA RenamedIs ==
  ASSUME NEW T, NEW x \in Cells, NEW v
  PROVE  Renamed(T, x, v)[x] = v /\ \A p \in Refs : p # x => Renamed(T, x, v)[p] = T[p]
BY BoundsAre DEF Renamed

\* The cells of a slice are references.
LEMMA SliceRefs ==
  ASSUME NEW h, NEW rest, Ledger(h, {}, rest, <<>>), NEW o \in Cells
  PROVE  \A i \in DOMAIN Slice(h, o) : Slice(h, o)[i] \in Refs
<1> DEFINE regs == [r \in Regs |-> Nil]
           m == [heap |-> h, regs |-> regs]
<1>1. regs \in RegFile
  BY BoundsAre DEF RegFile
<1>2. rest \in [Cells -> Nat]
  BY DEF Ledger
<1>3. With(rest, regs) = rest
  <2>1. IsFiniteSet(DOMAIN regs)
    BY BoundsAre
  <2>2. \A o2 \in Cells : \A r \in DOMAIN regs : regs[r] # o2
    BY BoundsAre
  <2>3. \A o2 \in Cells : Occurs(regs, o2) = 0
    <3> HIDE DEF regs
    <3> QED
      BY <2>1, <2>2, AtFinite
  <2>4. With(rest, regs) \in [Cells -> Nat] /\ \A o2 \in Cells : With(rest, regs)[o2] = rest[o2] + Occurs(regs, o2)
    BY <1>1, <1>2, WithIs
  <2> HIDE DEF regs
  <2>5. \A o2 \in Cells : With(rest, regs)[o2] = rest[o2]
    BY <1>2, <2>3, <2>4
  <2>6. QED
    BY <1>2, <2>4, <2>5
<1> HIDE DEF regs
<1>4. Ledger(h, {}, With(rest, regs), <<>>)
  BY <1>3, Zenon
<1>5. Books(m, rest, <<>>) /\ m.heap = h
  BY <1>1, <1>2, <1>4, BooksOf
<1> HIDE DEF m
<1>6. Slice(m.heap, o) \in Seq(Refs)
  BY <1>5, SliceIs
<1>7. QED
  BY <1>5, <1>6

\* One object is written, to which nothing refers but the register that gets it.
LEMMA RewriteMeans ==
  ASSUME NEW h, NEW g, NEW x \in Cells, NEW rest, NEW w, Ledger(g, {}, rest, <<>>), Ledger(h, {}, w, <<>>),
         Rewritten(h, g, x), InItems(g, {}, x) = 0, NEW T, Meaning(h, T),
         \A i \in DOMAIN Slice(g, x) : Slice(g, x)[i] # x
  PROVE  Meaning(g, Renamed(T, x, Composed(g, T, x)))
<1> DEFINE S == Renamed(T, x, Composed(g, T, x))
<1>1. S[x] = Composed(g, T, x) /\ \A p \in Refs : p # x => S[p] = T[p]
  BY RenamedIs
<1> HIDE DEF S
<1>2. S[Nil] = NilValue
  BY <1>1, BoundsAre DEF Meaning
<1>3. ASSUME NEW o \in Cells, \A i \in DOMAIN Slice(g, o) : Slice(g, o)[i] # x
      PROVE  Composed(g, S, o) = Composed(g, T, o)
  <2>1. \A i \in DOMAIN Slice(g, o) : S[Slice(g, o)[i]] = T[Slice(g, o)[i]]
    BY <1>1, <1>3, SliceRefs
  <2>2. [i \in DOMAIN Slice(g, o) |-> S[Slice(g, o)[i]]] = [i \in DOMAIN Slice(g, o) |-> T[Slice(g, o)[i]]]
    BY <2>1
  <2>3. QED
    BY <2>2 DEF Composed
<1>4. ASSUME NEW o \in Cells, g[o].kind # "free" PROVE S[o] = Composed(g, S, o)
  <2>1. CASE o = x
    <3>1. Composed(g, S, x) = Composed(g, T, x)
      BY <1>3
    <3>2. QED
      BY <1>1, <2>1, <3>1
  <2>2. CASE o # x
    <3>1. /\ Told(g, o) = Told(h, o) /\ Slice(g, o) = Slice(h, o) /\ h[o].kind # "free"
          /\ \A i \in DOMAIN Slice(g, o) : Slice(g, o)[i] # x
      BY <1>4, <2>2, SliceKept
    <3>2. Composed(g, S, o) = Composed(g, T, o)
      BY <1>3, <3>1
    <3>3. Composed(g, T, o) = Composed(h, T, o)
      BY <3>1 DEF Composed
    <3>4. T[o] = Composed(h, T, o)
      BY <3>1 DEF Meaning
    <3>5. S[o] = T[o]
      BY <1>1, <2>2, BoundsAre
    <3>6. QED
      BY <3>2, <3>3, <3>4, <3>5
  <2>3. QED
    BY <2>1, <2>2
<1>5. QED
  BY <1>2, <1>4 DEF Meaning, S

\* The object that is written ranks highest: nothing holds it.
LEMMA RewriteOrders ==
  ASSUME NEW h, NEW g \in Heaps, NEW x \in Cells, Rewritten(h, g, x), FreeIffZero(g), InItems(g, {}, x) = 0,
         NEW ord, Ordered(h, ord)
  PROVE  Ordered(g, Raise(ord, x))
<1> DEFINE r == Raise(ord, x)
<1>1. ord \in [Cells -> 1..MaxCells] /\ \A o, p \in Cells : ord[o] = ord[p] => o = p
  BY DEF Ordered
<1>2. /\ r \in [Cells -> 1..MaxCells]
      /\ \A o, p \in Cells : r[o] = r[p] => o = p
      /\ \A o \in Cells \ {x} : r[o] < r[x]
      /\ \A o, p \in Cells \ {x} : ord[o] < ord[p] => r[o] < r[p]
  BY <1>1, RaiseIs
<1> HIDE DEF r
<1>3. ASSUME NEW o \in Cells, NEW i \in DOMAIN g[o].items, g[o].items[i] \in Cells PROVE r[g[o].items[i]] < r[o]
  <2>1. g[o].items[i] # x
    BY NotAnItem
  <2>2. CASE o = x
    BY <1>2, <1>3, <2>1, <2>2
  <2>3. CASE o # x /\ g[o].kind = "free"
    <3>1. g[o].items = <<>>
      BY <2>3 DEF FreeIffZero
    <3>2. QED
      BY <3>1
  <2>4. CASE o # x /\ g[o].kind # "free"
    <3>1. g[o].items = h[o].items
      BY <2>4 DEF Rewritten
    <3>2. ord[g[o].items[i]] < ord[o]
      BY <1>3, <3>1 DEF Ordered
    <3>3. QED
      BY <1>2, <1>3, <2>1, <2>4, <3>2
  <2>5. QED
    BY <2>2, <2>3, <2>4
<1>4. QED
  BY <1>2, <1>3 DEF Ordered, r

\* Freeing changes no value and no rank.
LEMMA ShrunkMeans ==
  ASSUME NEW h, NEW g, NEW rest, NEW w, Ledger(g, {}, rest, <<>>), Ledger(h, {}, w, <<>>),
         Shrunk(h, g), NEW T, Meaning(h, T), NEW ord, Ordered(h, ord)
  PROVE  Meaning(g, T) /\ Ordered(g, ord)
<1>1. g \in Heaps /\ FreeIffZero(g) /\ ViewsOk(g, {})
  BY DEF Ledger
<1>2. ASSUME NEW o \in Cells, g[o].kind # "free" PROVE T[o] = Composed(g, T, o)
  <2>1. g[o].kind = h[o].kind /\ g[o].items = h[o].items /\ g[o].start = h[o].start
    BY <1>2 DEF Shrunk
  <2>2. Slice(g, o) = Slice(h, o)
    <3>1. CASE g[o].kind = "view"
      <4>1. ViewOk(g, o)
        BY <1>1, <3>1 DEF ViewsOk
      <4>2. g[o].items[1] \in Cells /\ g[g[o].items[1]].kind = "list"
        BY <4>1 DEF ViewOk
      <4>3. g[g[o].items[1]].items = h[g[o].items[1]].items
        BY <4>2 DEF Shrunk
      <4>4. QED
        BY <2>1, <3>1, <4>3 DEF Slice
    <3>2. CASE g[o].kind # "view"
      BY <2>1, <3>2 DEF Slice
    <3>3. QED
      BY <3>1, <3>2
  <2>3. T[o] = Composed(h, T, o)
    BY <1>2, <2>1 DEF Meaning
  <2>4. Told(g, o) = Told(h, o)
    BY <2>1 DEF Told
  <2>5. QED
    BY <2>2, <2>3, <2>4 DEF Composed
<1>3. ASSUME NEW o \in Cells, NEW i \in DOMAIN g[o].items, g[o].items[i] \in Cells PROVE ord[g[o].items[i]] < ord[o]
  <2>1. CASE g[o].kind = "free"
    <3>1. g[o].items = <<>>
      BY <1>1, <2>1 DEF FreeIffZero
    <3>2. QED
      BY <3>1
  <2>2. CASE g[o].kind # "free"
    <3>1. g[o].items = h[o].items
      BY <2>2 DEF Shrunk
    <3>2. QED
      BY <1>3, <3>1 DEF Ordered
  <2>3. QED
    BY <2>1, <2>2
<1>4. Meaning(g, T)
  BY <1>2 DEF Meaning
<1>5. Ordered(g, ord)
  BY <1>3 DEF Ordered
<1>6. QED
  BY <1>4, <1>5

-----------------------------------------------------------------------------
(***************************************************************************)
(* What a step does to the values: T is what the references stand for      *)
(* before it and S after it.                                               *)
(***************************************************************************)
Sens(m, T) == \E ord : Ordered(m.heap, ord) /\ Meaning(m.heap, T)

\* The references of the other frames and of the registers rs keep their values.
Effect(m, T, n, S, rest, rs) ==
  /\ Sens(n, S)
  /\ S[Nil] = T[Nil]
  /\ \A o \in Cells : rest[o] > 0 => S[o] = T[o]
  /\ \A r \in rs : S[n.regs[r]] = T[m.regs[r]]

\* One step after the other.
LEMMA EffectTwice ==
  ASSUME NEW m, NEW T, NEW n, NEW S, NEW k, NEW R, NEW rest, NEW rs, NEW qs, qs \subseteq rs,
         Effect(m, T, n, S, rest, rs), Effect(n, S, k, R, rest, qs)
  PROVE  Effect(m, T, k, R, rest, qs)
BY DEF Effect

\* A register is set to a reference that is there.
LEMMA WriteEffect ==
  ASSUME NEW m, NEW rest, NEW w, Books(m, rest, <<>>), Books(w, rest, <<>>), Shrunk(m.heap, w.heap),
         NEW a \in Regs, NEW v \in Refs, w.regs = Put(m.regs, a, v), NEW T, Sens(m, T)
  PROVE  Effect(m, T, w, T, rest, Regs \ {a}) /\ w.regs[a] = v
<1>1. PICK ord : Ordered(m.heap, ord) /\ Meaning(m.heap, T)
  BY DEF Sens
<1>2. Ledger(m.heap, {}, With(rest, m.regs), <<>>) /\ Ledger(w.heap, {}, With(rest, w.regs), <<>>)
      /\ m.regs \in RegFile
  BY BooksFacts
<1>3. Meaning(w.heap, T) /\ Ordered(w.heap, ord)
  BY <1>1, <1>2, ShrunkMeans
<1>4. Sens(w, T)
  BY <1>3 DEF Sens
<1>5. w.regs[a] = v /\ \A r \in Regs \ {a} : w.regs[r] = m.regs[r]
  BY <1>2, PutIs
<1>6. QED
  BY <1>4, <1>5 DEF Effect

\* The other registers are left alone.
SameBut(m, w, a) == \A r \in Regs \ {a} : w.regs[r] = m.regs[r]

\* The register a gets a value that is composed of values from before.
Composes(m, T, w, rest, a, x) ==
  \E S : Effect(m, T, w, S, rest, Regs \ {a}) /\ S[w.regs[a]] = Composed(w.heap, T, x)

\* An object is written to which only the register a refers.
LEMMA RewriteEffect ==
  ASSUME NEW m, NEW rest, NEW w, Books(m, rest, <<>>), Books(w, rest, <<>>), NEW a \in Regs, NEW x,
         Rewritten(m.heap, w.heap, x), Only(w, rest, a, x),
         SameBut(m, w, a), NEW T, Sens(m, T)
  PROVE  Composes(m, T, w, rest, a, x)
<1> DEFINE h == m.heap
           g == w.heap
           S == Renamed(T, x, Composed(g, T, x))
<1>1. PICK ord : Ordered(h, ord) /\ Meaning(h, T)
  BY DEF Sens
<1>2. /\ Ledger(h, {}, With(rest, m.regs), <<>>) /\ Ledger(g, {}, With(rest, w.regs), <<>>)
      /\ m.regs \in RegFile /\ w.regs \in RegFile /\ rest \in [Cells -> Nat]
      /\ g \in Heaps /\ FreeIffZero(g) /\ ViewsOk(g, {})
  BY BooksFacts DEF Ledger
<1>3. /\ x \in Cells /\ w.regs[a] = x /\ rest[x] = 0 /\ InItems(g, {}, x) = 0
      /\ \A r \in Regs \ {a} : w.regs[r] # x
  BY DEF Only
<1> HIDE DEF h, g
<1>4. \A i \in DOMAIN Slice(g, x) : Slice(g, x)[i] # x
  <2>1. CASE g[x].kind = "view"
    <3> DEFINE l == g[x].items[1]
               e == g[l].items[g[x].start]
    <3>1. ViewOk(g, x)
      BY <1>2, <1>3, <2>1 DEF ViewsOk
    <3>2. l \in Cells /\ g[x].start \in 1..Len(g[l].items)
      BY <3>1 DEF ViewOk
    <3>3. g[x].start \in DOMAIN g[l].items
      BY <1>2, <3>2, ObjectIs
    <3>4. e # x
      <4> DEFINE i == g[x].start
      <4>1. i \in DOMAIN g[l].items
        BY <3>3
      <4> HIDE DEF i, l
      <4>2. g[l].items[i] # x
        BY <1>2, <1>3, <3>2, <4>1, NotAnItem
      <4>3. QED
        BY <4>2 DEF i
    <3>5. Slice(g, x) = <<e>>
      BY <2>1 DEF Slice
    <3> HIDE DEF e
    <3> DEFINE s == <<e>>
    <3>6. DOMAIN s = {1} /\ s[1] = e
      OBVIOUS
    <3>7. Slice(g, x) = s
      BY <3>5
    <3> HIDE DEF s
    <3>8. QED
      BY <3>4, <3>6, <3>7
  <2>2. CASE g[x].kind # "view"
    <3>1. Slice(g, x) = g[x].items
      BY <2>2 DEF Slice
    <3>2. \A i \in DOMAIN g[x].items : g[x].items[i] # x
      BY <1>2, <1>3, NotAnItem
    <3>3. QED
      BY <3>1, <3>2
  <2>3. QED
    BY <2>1, <2>2
<1>5. Rewritten(h, g, x)
  BY DEF h, g
<1>6. Meaning(g, S)
  BY <1>1, <1>2, <1>3, <1>4, <1>5, RewriteMeans
<1>7. Ordered(g, Raise(ord, x))
  BY <1>1, <1>2, <1>3, <1>5, RewriteOrders
<1>8. S[x] = Composed(g, T, x) /\ \A p \in Refs : p # x => S[p] = T[p]
  BY <1>3, RenamedIs
<1> HIDE DEF S
<1>9. Sens(w, S)
  BY <1>6, <1>7 DEF Sens, g
<1>10. \A o \in Cells : rest[o] > 0 => S[o] = T[o]
  BY <1>2, <1>3, <1>8, BoundsAre
<1>11. S[Nil] = T[Nil]
  BY <1>3, <1>8, BoundsAre
<1>12. \A r \in Regs \ {a} : S[w.regs[r]] = T[m.regs[r]]
  <2> SUFFICES ASSUME NEW r \in Regs \ {a} PROVE S[w.regs[r]] = T[m.regs[r]]
    OBVIOUS
  <2>1. w.regs[r] = m.regs[r] /\ w.regs[r] # x
    BY <1>3 DEF SameBut
  <2>2. m.regs[r] \in Refs
    BY <1>2 DEF RegFile
  <2>3. QED
    BY <1>8, <2>1, <2>2
<1>13. Effect(m, T, w, S, rest, Regs \ {a})
  BY <1>9, <1>10, <1>11, <1>12 DEF Effect
<1>14. S[w.regs[a]] = Composed(g, T, x)
  BY <1>3, <1>8
<1>15. QED
  BY <1>13, <1>14 DEF g, Composes

-----------------------------------------------------------------------------
\* The objects of the registers that are not written.
LEMMA OthersKept ==
  ASSUME NEW m, NEW rest, NEW w, Books(m, rest, <<>>), Books(w, rest, <<>>), NEW a \in Regs, NEW x,
         Rewritten(m.heap, w.heap, x), Only(w, rest, a, x),
         SameBut(m, w, a)
  PROVE  \A r \in Regs \ {a} : m.regs[r] \in Cells =>
           /\ w.heap[m.regs[r]].kind = m.heap[m.regs[r]].kind
           /\ w.heap[m.regs[r]].items = m.heap[m.regs[r]].items
           /\ Slice(w.heap, m.regs[r]) = Slice(m.heap, m.regs[r])
<1> SUFFICES ASSUME NEW r \in Regs \ {a}, m.regs[r] \in Cells
             PROVE  /\ w.heap[m.regs[r]].kind = m.heap[m.regs[r]].kind
                    /\ w.heap[m.regs[r]].items = m.heap[m.regs[r]].items
                    /\ Slice(w.heap, m.regs[r]) = Slice(m.heap, m.regs[r])
  OBVIOUS
<1> DEFINE h == m.heap
           g == w.heap
           o == m.regs[r]
<1>1. /\ Ledger(h, {}, With(rest, m.regs), <<>>) /\ Ledger(g, {}, With(rest, w.regs), <<>>)
  BY BooksFacts
<1>2. x \in Cells /\ InItems(g, {}, x) = 0 /\ o # x /\ w.regs[r] = o
  BY DEF Only, SameBut
<1>3. Present(g, w.regs[r])
  BY RegisterIsThere
<1>4. g[o].kind # "free" /\ o \in Cells \ {x} /\ Rewritten(h, g, x)
  BY <1>2, <1>3, BoundsAre DEF Present
<1> HIDE DEF h, g, o
<1>5. Slice(g, o) = Slice(h, o)
  BY <1>1, <1>2, <1>4, SliceKept
<1>6. g[o].kind = h[o].kind /\ g[o].items = h[o].items
  BY <1>4 DEF Rewritten
<1>7. QED
  BY <1>5, <1>6 DEF h, g, o

\* A register is made ready: a view in it becomes a list.
Ready(m, w, rest, a) ==
  /\ Books(w, rest, <<>>)
  /\ \A r \in Regs \ {a} : w.regs[r] = m.regs[r]
  /\ \A r \in Regs \ {a} : m.regs[r] \in Cells =>
       /\ w.heap[m.regs[r]].kind = m.heap[m.regs[r]].kind
       /\ w.heap[m.regs[r]].items = m.heap[m.regs[r]].items
       /\ Slice(w.heap, m.regs[r]) = Slice(m.heap, m.regs[r])
  /\ w.regs[a] \in Cells <=> m.regs[a] \in Cells
  /\ m.regs[a] \in Cells =>
       /\ w.heap[w.regs[a]].kind = Told(m.heap, m.regs[a])
       /\ w.heap[w.regs[a]].items = Slice(m.heap, m.regs[a])
  /\ Cardinality(FreeCells(w.heap)) \in Nat
  /\ Cardinality(FreeCells(w.heap)) >= Cardinality(FreeCells(m.heap)) - Bit(ViewIn(m, a))
  /\ \A T : Sens(m, T) => \E S : Effect(m, T, w, S, rest, Regs)

\* The free cells are counted by a number.
LEMMA FreeCellsAre ==
  ASSUME NEW h \in Heaps
  PROVE  /\ IsFiniteSet(FreeCells(h)) /\ Cardinality(FreeCells(h)) \in Nat
         /\ Cardinality(FreeCells(h)) >= 1 => FreeCells(h) # {}
<1>1. FreeCells(h) \in SUBSET Cells
  BY DEF FreeCells, Heaps
<1>2. IsFiniteSet(FreeCells(h)) /\ Cardinality(FreeCells(h)) \in Nat
  BY <1>1, BoundsAre, FS_Subset, FS_CardinalityType
<1>3. FreeCells(h) = {} => Cardinality(FreeCells(h)) = 0
  BY FS_EmptySet
<1>4. QED
  BY <1>2, <1>3

\* materialize_at_slot makes a register ready.
LEMMA MaterializeReadies ==
  ASSUME NEW m, NEW rest, Books(m, rest, <<>>), NEW a \in Regs,
         Cardinality(FreeCells(m.heap)) >= Bit(ViewIn(m, a))
  PROVE  Ready(m, Materialize(m, a), rest, a)
<1>1. /\ m.heap \in Heaps /\ m.regs \in RegFile /\ m.regs[a] \in Refs
      /\ Ledger(m.heap, {}, With(rest, m.regs), <<>>)
      /\ Cardinality(FreeCells(m.heap)) \in Nat
  BY BooksFacts, RegisterIsThere, FreeCellsAre
<1>2. CASE ~ViewIn(m, a)
  <2>1. Materialize(m, a) = m
    BY <1>2, NothingToMaterialize
  <2>2. m.regs[a] \in Cells =>
       /\ m.heap[m.regs[a]].kind = Told(m.heap, m.regs[a])
       /\ m.heap[m.regs[a]].items = Slice(m.heap, m.regs[a])
    <3>1. m.regs[a] \in Cells => m.heap[m.regs[a]].kind # "view"
      BY <1>2 DEF ViewIn, IsRef, Cells
    <3>2. QED
      BY <3>1 DEF Told, Slice
  <2>3. \A T : Sens(m, T) => Effect(m, T, m, T, rest, Regs)
    BY DEF Effect
  <2>4. Bit(ViewIn(m, a)) = 0
    BY <1>2 DEF Bit
  <2>5. Ready(m, m, rest, a)
    BY <1>1, <2>2, <2>3, <2>4 DEF Ready
  <2>6. QED
    BY <2>1, <2>5
<1>3. CASE ViewIn(m, a)
  <2> DEFINE w == Materialize(m, a)
             x == NewCell(m.heap)
             o == m.regs[a]
             s == Slice(m.heap, o)
  <2>1. Bit(ViewIn(m, a)) = 1
    BY <1>3 DEF Bit
  <2>2. FreeCells(m.heap) # {}
    BY <1>1, <2>1, FreeCellsAre
  <2>3. /\ Books(w, rest, <<>>) /\ w.regs = Put(m.regs, a, x)
        /\ x \in Cells /\ m.heap[x].kind = "free" /\ o \in Cells
        /\ Rewritten(m.heap, w.heap, x) /\ Written(w, x, "list", s, 0)
        /\ Only(w, rest, a, x)
    BY <1>3, <2>2, MaterializeIs
  <2> HIDE DEF w, x
  <2>4. x \in Refs
    BY <2>3, BoundsAre
  <2>5. w.regs[a] = x /\ \A r \in Regs \ {a} : w.regs[r] = m.regs[r]
    BY <1>1, <2>3, <2>4, PutIs
  <2>14. SameBut(m, w, a)
    BY <2>5 DEF SameBut
  <2>6. \A r \in Regs \ {a} : m.regs[r] \in Cells =>
           /\ w.heap[m.regs[r]].kind = m.heap[m.regs[r]].kind
           /\ w.heap[m.regs[r]].items = m.heap[m.regs[r]].items
           /\ Slice(w.heap, m.regs[r]) = Slice(m.heap, m.regs[r])
    BY <2>3, <2>14, OthersKept
  <2>7. m.heap[o].kind = "view"
    BY <1>3 DEF ViewIn
  <2>8. w.heap[x].kind = Told(m.heap, o) /\ w.heap[x].items = s
    BY <2>3, <2>7 DEF Written, Told
  <2>9. w.heap \in Heaps
    BY <2>3, BooksFacts
  <2>10. /\ Cardinality(FreeCells(w.heap)) \in Nat
         /\ Cardinality(FreeCells(w.heap)) >= Cardinality(FreeCells(m.heap)) - 1
    BY <1>1, <2>3, <2>9, RoomAfter
  <2>11. ASSUME NEW T, Sens(m, T) PROVE \E S : Effect(m, T, w, S, rest, Regs)
    <3>1. PICK S : Effect(m, T, w, S, rest, Regs \ {a}) /\ S[w.regs[a]] = Composed(w.heap, T, x)
      <4>1. Books(w, rest, <<>>) /\ Rewritten(m.heap, w.heap, x) /\ Only(w, rest, a, x) /\ Sens(m, T)
        BY <2>3, <2>11
      <4> HIDE DEF s, o
      <4>2. Composes(m, T, w, rest, a, x)
        BY <4>1, <2>14, RewriteEffect
      <4>3. QED
        BY <4>2 DEF Composes
    <3>2. T[o] = Composed(m.heap, T, o)
      BY <2>3, <2>7, <2>11 DEF Sens, Meaning
    <3>3. Told(w.heap, x) = Told(m.heap, o) /\ Slice(w.heap, x) = s
      BY <2>3, <2>7 DEF Told, Slice, Written
    <3>4. Composed(w.heap, T, x) = Composed(m.heap, T, o)
      BY <3>3 DEF Composed
    <3>5. S[w.regs[a]] = T[m.regs[a]]
      BY <3>1, <3>2, <3>4
    <3>6. Effect(m, T, w, S, rest, Regs)
      BY <3>1, <3>5 DEF Effect
    <3>7. QED
      BY <3>6
  <2>12. Ready(m, w, rest, a)
    BY <2>1, <2>3, <2>5, <2>6, <2>8, <2>10, <2>11 DEF Ready
  <2>13. QED
    BY <2>12 DEF w
<1>4. QED
  BY <1>2, <1>3

-----------------------------------------------------------------------------
\* The values of a sequence of references.
Mapped(T, s) == [i \in DOMAIN s |-> T[s[i]]]

\* The value of an object, by its items.
LEMMA ComposedIs == \A h, T, o : Composed(h, T, o) = Value(Told(h, o), Mapped(T, Slice(h, o)))
BY DEF Composed, Mapped

Values(T) == {T[p] : p \in Refs}

\* The values of a sequence, one by one.
LEMMA MappedIs ==
  ASSUME NEW T, NEW s \in Seq(Refs)
  PROVE  /\ Mapped(T, s) \in Seq(Values(T)) /\ Len(Mapped(T, s)) = Len(s)
         /\ \A i \in 1..Len(s) : Mapped(T, s)[i] = T[s[i]]
<1>1. Len(s) \in Nat /\ DOMAIN s = 1..Len(s) /\ \A i \in 1..Len(s) : s[i] \in Refs
  OBVIOUS
<1>2. \A i \in 1..Len(s) : T[s[i]] \in Values(T)
  BY <1>1 DEF Values
<1>3. QED
  BY <1>1, <1>2 DEF Mapped

\* The values of a longer list.
LEMMA MapAppend ==
  ASSUME NEW T, NEW s \in Seq(Refs), NEW e \in Refs
  PROVE  Mapped(T, Append(s, e)) = Append(Mapped(T, s), T[e])
<1> DEFINE u == Append(s, e)
           l == Mapped(T, u)
           k == Mapped(T, s)
           r == Append(k, T[e])
<1>1. u \in Seq(Refs) /\ Len(u) = Len(s) + 1 /\ (\A i \in 1..Len(s) : u[i] = s[i]) /\ u[Len(s) + 1] = e
      /\ Len(s) \in Nat
  OBVIOUS
<1> HIDE DEF u
<1>2. l \in Seq(Values(T)) /\ Len(l) = Len(u) /\ \A i \in 1..Len(u) : l[i] = T[u[i]]
  BY <1>1, MappedIs
<1>3. k \in Seq(Values(T)) /\ Len(k) = Len(s) /\ \A i \in 1..Len(s) : k[i] = T[s[i]]
  BY MappedIs
<1>4. T[e] \in Values(T)
  BY DEF Values
<1> HIDE DEF l, k
<1>5. r \in Seq(Values(T)) /\ Len(r) = Len(s) + 1 /\ (\A i \in 1..Len(s) : r[i] = k[i]) /\ r[Len(s) + 1] = T[e]
  BY <1>3, <1>4
<1> HIDE DEF r
<1>6. \A i \in 1..Len(l) : l[i] = r[i]
  <2> SUFFICES ASSUME NEW i \in 1..(Len(s) + 1) PROVE l[i] = r[i]
    BY <1>1, <1>2
  <2>1. CASE i \in 1..Len(s)
    BY <1>1, <1>2, <1>3, <1>5, <2>1
  <2>2. CASE i = Len(s) + 1
    BY <1>1, <1>2, <1>5, <2>2
  <2>3. QED
    BY <1>1, <2>1, <2>2
<1>7. l = r
  BY <1>1, <1>2, <1>5, <1>6, SeqEqual
<1>8. QED
  BY <1>7 DEF l, r, u, k

\* Two lists, one after the other, place by place.
LEMMA ConcatIs ==
  ASSUME NEW W, NEW k \in Seq(W), NEW j \in Seq(W)
  PROVE  /\ k \o j \in Seq(W) /\ Len(k \o j) = Len(k) + Len(j)
         /\ \A i \in 1..(Len(k) + Len(j)) : (k \o j)[i] = IF i <= Len(k) THEN k[i] ELSE j[i - Len(k)]
OBVIOUS

\* A list the other way round, place by place.
LEMMA ReverseIs ==
  ASSUME NEW W, NEW s \in Seq(W)
  PROVE  Reverse(s) \in Seq(W) /\ Len(Reverse(s)) = Len(s)
         /\ \A i \in 1..Len(s) : Reverse(s)[i] = s[Len(s) + 1 - i]
<1>1. Occurs(Reverse(s), 0) = Occurs(s, 0) /\ Reverse(s) \in Seq(W) /\ Len(Reverse(s)) = Len(s)
         /\ \A i \in 1..Len(s) : Reverse(s)[i] = s[Len(s) + 1 - i]
  BY OccursReverse
<1>2. QED
  BY <1>1

\* The values of two lists, one after the other.
LEMMA MapConcat ==
  ASSUME NEW T, NEW s \in Seq(Refs), NEW t \in Seq(Refs)
  PROVE  Mapped(T, s \o t) = Mapped(T, s) \o Mapped(T, t)
<1> DEFINE u == s \o t
           l == Mapped(T, u)
           k == Mapped(T, s)
           j == Mapped(T, t)
           r == k \o j
           n == Len(s)
<1>1. /\ u \in Seq(Refs) /\ Len(u) = n + Len(t) /\ n \in Nat /\ Len(t) \in Nat
      /\ \A i \in 1..(n + Len(t)) : u[i] = IF i <= n THEN s[i] ELSE t[i - n]
  OBVIOUS
<1> HIDE DEF u
<1>2. l \in Seq(Values(T)) /\ Len(l) = Len(u) /\ \A i \in 1..Len(u) : l[i] = T[u[i]]
  BY <1>1, MappedIs
<1>3. k \in Seq(Values(T)) /\ Len(k) = n /\ \A i \in 1..n : k[i] = T[s[i]]
  BY MappedIs
<1>4. j \in Seq(Values(T)) /\ Len(j) = Len(t) /\ \A i \in 1..Len(t) : j[i] = T[t[i]]
  BY MappedIs
<1> HIDE DEF l, k, j
<1>5. /\ r \in Seq(Values(T)) /\ Len(r) = n + Len(t)
      /\ \A i \in 1..(n + Len(t)) : r[i] = IF i <= n THEN k[i] ELSE j[i - n]
  <2> DEFINE W == Values(T)
  <2>0. k \in Seq(W) /\ j \in Seq(W)
    BY <1>3, <1>4
  <2> HIDE DEF W
  <2>1. /\ r \in Seq(W) /\ Len(r) = Len(k) + Len(j)
        /\ \A i \in 1..(Len(k) + Len(j)) : r[i] = IF i <= Len(k) THEN k[i] ELSE j[i - Len(k)]
    BY <2>0, ConcatIs
  <2> HIDE DEF r, n
  <2>2. QED
    BY <1>3, <1>4, <2>1 DEF W
<1> HIDE DEF r, n
<1>6. \A i \in 1..Len(l) : l[i] = r[i]
  <2> SUFFICES ASSUME NEW i \in 1..(n + Len(t)) PROVE l[i] = r[i]
    BY <1>1, <1>2
  <2>1. l[i] = T[u[i]] /\ u[i] = (IF i <= n THEN s[i] ELSE t[i - n]) /\ r[i] = IF i <= n THEN k[i] ELSE j[i - n]
    BY <1>1, <1>2, <1>5
  <2>2. CASE i <= n
    <3>1. i \in 1..n
      BY <1>1, <2>2
    <3>2. k[i] = T[s[i]]
      BY <1>3, <3>1
    <3>3. QED
      BY <2>1, <2>2, <3>2
  <2>3. CASE ~(i <= n)
    <3>1. i - n \in 1..Len(t)
      BY <1>1, <2>3
    <3>2. j[i - n] = T[t[i - n]]
      BY <1>4, <3>1
    <3>3. QED
      BY <2>1, <2>3, <3>2
  <2>4. QED
    BY <2>2, <2>3
<1>7. l = r
  BY <1>1, <1>2, <1>5, <1>6, SeqEqual
<1>8. QED
  BY <1>7 DEF l, r, u, k, j

\* The values of a list the other way round.
LEMMA MapReverse ==
  ASSUME NEW T, NEW s \in Seq(Refs)
  PROVE  Mapped(T, Reverse(s)) = Reverse(Mapped(T, s))
<1> DEFINE u == Reverse(s)
           l == Mapped(T, u)
           k == Mapped(T, s)
           r == Reverse(k)
           n == Len(s)
<1>1. u \in Seq(Refs) /\ Len(u) = n /\ (\A i \in 1..n : u[i] = s[n + 1 - i]) /\ n \in Nat
  BY ReverseIs
<1> HIDE DEF u
<1>2. l \in Seq(Values(T)) /\ Len(l) = n /\ \A i \in 1..n : l[i] = T[u[i]]
  BY <1>1, MappedIs
<1>3. k \in Seq(Values(T)) /\ Len(k) = n /\ \A i \in 1..n : k[i] = T[s[i]]
  BY MappedIs
<1> HIDE DEF l, k
<1>4. r \in Seq(Values(T)) /\ Len(r) = n /\ \A i \in 1..n : r[i] = k[n + 1 - i]
  BY <1>3, ReverseIs
<1> HIDE DEF r, n
<1>5. \A i \in 1..n : l[i] = r[i]
  <2> SUFFICES ASSUME NEW i \in 1..n PROVE l[i] = r[i]
    OBVIOUS
  <2> DEFINE q == n + 1 - i
  <2>1. q \in 1..n
    BY <1>1
  <2>2. u[i] = s[q] /\ r[i] = k[q]
    BY <1>1, <1>4
  <2> HIDE DEF q
  <2>3. QED
    BY <1>2, <1>3, <2>1, <2>2
<1>6. l = r
  BY <1>2, <1>4, <1>5, SeqEqual
<1>7. QED
  BY <1>6 DEF l, r, u, k

-----------------------------------------------------------------------------
\* The books balance and register a has the value v, the others what they had.
Leaves(m, T, w, rest, a, v) ==
  \E S : Effect(m, T, w, S, rest, Regs \ {a}) /\ S[w.regs[a]] = v

\* A new object that is not a view: its value is made of its items' values.
LEMMA NewIs ==
  ASSUME NEW m, NEW rest, Books(m, rest, <<>>), FreeCells(m.heap) # {}, NEW a \in Regs,
         NEW kind, kind # "view", NEW items, Sensible(m.heap, kind, items, 0)
  PROVE  LET w == WriteNew(m, a, kind, items, 0)
         IN  /\ Books(w, rest, <<>>)
             /\ \A T : Sens(m, T) => Leaves(m, T, w, rest, a, Value(kind, Mapped(T, items)))
<1> DEFINE w == WriteNew(m, a, kind, items, 0)
           x == NewCell(m.heap)
<1>1. /\ Books(w, rest, <<>>) /\ w.regs = Put(m.regs, a, x)
      /\ x \in Cells /\ m.heap[x].kind = "free"
      /\ Rewritten(m.heap, w.heap, x) /\ Written(w, x, kind, items, 0) /\ Only(w, rest, a, x)
  BY WriteNewIs
<1> HIDE DEF w, x
<1>2. m.regs \in RegFile /\ x \in Refs
  BY <1>1, BooksFacts, BoundsAre
<1>3. SameBut(m, w, a)
  BY <1>1, <1>2, PutIs DEF SameBut
<1>4. ASSUME NEW T, Sens(m, T)
      PROVE  Leaves(m, T, w, rest, a, Value(kind, Mapped(T, items)))
  <2>1. Books(w, rest, <<>>) /\ Rewritten(m.heap, w.heap, x) /\ Only(w, rest, a, x) /\ Sens(m, T)
    BY <1>1, <1>4
  <2>0. Composes(m, T, w, rest, a, x)
    BY <1>3, <2>1, RewriteEffect
  <2>2. PICK S : Effect(m, T, w, S, rest, Regs \ {a}) /\ S[w.regs[a]] = Composed(w.heap, T, x)
    BY <2>0 DEF Composes
  <2>3. Told(w.heap, x) = kind /\ Slice(w.heap, x) = items
    BY <1>1 DEF Written, Told, Slice
  <2>4. Composed(w.heap, T, x) = Value(kind, Mapped(T, items))
    BY <2>3, ComposedIs
  <2>5. QED
    BY <2>2, <2>4 DEF Leaves
<1>5. QED
  BY <1>1, <1>4 DEF w

\* The operands b and c of an instruction are made ready.
LEMMA TwoReady ==
  ASSUME NEW m, NEW rest, Books(m, rest, <<>>), NEW b \in Regs, NEW c \in Regs, m.regs[b] \in Cells,
         Cardinality(FreeCells(m.heap)) >= 1 + Cardinality({r \in {b, c} : ViewIn(m, r)})
  PROVE  LET n == Materialize(Materialize(m, b), c)
         IN  /\ Books(n, rest, <<>>) /\ FreeCells(n.heap) # {}
             /\ n.regs[b] \in Cells /\ n.heap[n.regs[b]].kind = Told(m.heap, m.regs[b])
             /\ n.heap[n.regs[b]].items = Slice(m.heap, m.regs[b])
             /\ \A T : Sens(m, T) => \E S : Effect(m, T, n, S, rest, Regs)
<1> DEFINE k == Materialize(m, b)
           n == Materialize(k, c)
           free == Cardinality(FreeCells(m.heap))
<1>1. free \in Nat
  BY BooksFacts, FreeCellsAre
<1>2. /\ Cardinality({r \in {b, c} : ViewIn(m, r)}) \in Nat
      /\ Cardinality({r \in {b, c} : ViewIn(m, r)}) >= Bit(ViewIn(m, b))
      /\ b # c => Cardinality({r \in {b, c} : ViewIn(m, r)}) = Bit(ViewIn(m, b)) + Bit(ViewIn(m, c))
  <2> DEFINE both == {r \in {b, c} : ViewIn(m, r)}
  <2>1. IsFiniteSet(both)
    <3>1. IsFiniteSet({b, c}) /\ both \in SUBSET {b, c}
      <4>1. IsFiniteSet({b}) /\ {b, c} = {b} \cup {c}
        BY FS_Singleton
      <4>2. QED
        BY <4>1, FS_AddElement
    <3>2. QED
      BY <3>1, FS_Subset
  <2>2. Cardinality(both) = Cardinality(both \ {b}) + Bit(b \in both) /\ IsFiniteSet(both \ {b}) /\ Cardinality(both \ {b}) \in Nat
    <3> HIDE DEF both
    <3> QED BY <2>1, WithAndWithout
  <2>3. Cardinality(both \ {b}) = Cardinality((both \ {b}) \ {c}) + Bit(c \in both \ {b})
    <3> HIDE DEF both
    <3> QED BY <2>2, WithAndWithout
  <2>4. (both \ {b}) \ {c} = {} /\ (b \in both <=> ViewIn(m, b)) /\ (b # c => (c \in both \ {b} <=> ViewIn(m, c)))
    OBVIOUS
  <2> HIDE DEF both
  <2>5. Cardinality((both \ {b}) \ {c}) = 0
    BY <2>4, FS_EmptySet
  <2>6. /\ Bit(b \in both) = Bit(ViewIn(m, b)) /\ Bit(b \in both) \in Nat /\ Bit(c \in both \ {b}) \in Nat
        /\ (b # c => Bit(c \in both \ {b}) = Bit(ViewIn(m, c)))
    BY <2>4 DEF Bit
  <2>7. /\ Cardinality(both) \in Nat /\ Cardinality(both) >= Bit(ViewIn(m, b))
        /\ b # c => Cardinality(both) = Bit(ViewIn(m, b)) + Bit(ViewIn(m, c))
    BY <2>2, <2>3, <2>5, <2>6
  <2>8. QED
    BY <2>7 DEF both
<1>3. free >= Bit(ViewIn(m, b)) /\ Bit(ViewIn(m, b)) \in Nat /\ Bit(ViewIn(m, c)) \in Nat
  BY <1>1, <1>2 DEF Bit
<1>4. Ready(m, k, rest, b)
  BY <1>3, MaterializeReadies
<1> HIDE DEF k
<1>5. /\ Books(k, rest, <<>>) /\ k.regs[b] \in Cells
      /\ k.heap[k.regs[b]].kind = Told(m.heap, m.regs[b])
      /\ k.heap[k.regs[b]].items = Slice(m.heap, m.regs[b])
      /\ Told(m.heap, m.regs[b]) # "view"
  BY <1>4 DEF Ready, Told
<1>6. /\ Cardinality(FreeCells(k.heap)) \in Nat
      /\ Cardinality(FreeCells(k.heap)) >= 1 + Bit(ViewIn(k, c))
  <2>1. /\ Cardinality(FreeCells(k.heap)) \in Nat
        /\ Cardinality(FreeCells(k.heap)) >= free - Bit(ViewIn(m, b))
    BY <1>4 DEF Ready
  <2>2. CASE b = c
    <3>1. Bit(ViewIn(k, c)) = 0
      BY <1>5, <2>2 DEF Bit, ViewIn
    <3>2. QED
      BY <1>1, <1>2, <1>3, <2>1, <3>1
  <2>3. CASE b # c
    <3>1. k.regs[c] = m.regs[c] /\ (m.regs[c] \in Cells => k.heap[m.regs[c]].kind = m.heap[m.regs[c]].kind)
      BY <1>4, <2>3 DEF Ready
    <3>2. m.regs[c] \in Refs
      BY RegisterIsThere
    <3>3. IsRef(m.regs[c]) => m.regs[c] \in Cells
      BY <3>2 DEF IsRef, Refs, Cells
    <3>4. ViewIn(k, c) <=> ViewIn(m, c)
      BY <3>1, <3>3 DEF ViewIn
    <3>5. Bit(ViewIn(k, c)) = Bit(ViewIn(m, c))
      BY <3>4 DEF Bit
    <3>6. QED
      BY <1>1, <1>2, <1>3, <2>1, <2>3, <3>5
  <2>4. QED
    BY <2>2, <2>3
<1>7. Bit(ViewIn(k, c)) \in Nat
  BY DEF Bit
<1>8. Cardinality(FreeCells(k.heap)) >= Bit(ViewIn(k, c))
  BY <1>6, <1>7
<1>9. Ready(k, n, rest, c)
  BY <1>5, <1>8, MaterializeReadies
<1> HIDE DEF n
<1>10. Books(n, rest, <<>>)
  BY <1>9 DEF Ready
<1>11. FreeCells(n.heap) # {}
  <2>1. /\ Cardinality(FreeCells(n.heap)) \in Nat
        /\ Cardinality(FreeCells(n.heap)) >= Cardinality(FreeCells(k.heap)) - Bit(ViewIn(k, c))
    BY <1>9 DEF Ready
  <2>2. Cardinality(FreeCells(n.heap)) >= 1
    BY <1>6, <1>7, <2>1
  <2>3. n.heap \in Heaps
    BY <1>10, BooksFacts
  <2>4. QED
    BY <2>2, <2>3, FreeCellsAre
<1>12. /\ n.regs[b] \in Cells /\ n.heap[n.regs[b]].kind = Told(m.heap, m.regs[b])
       /\ n.heap[n.regs[b]].items = Slice(m.heap, m.regs[b])
  <2>1. CASE b = c
    <3>1. Told(k.heap, k.regs[b]) = k.heap[k.regs[b]].kind /\ Slice(k.heap, k.regs[b]) = k.heap[k.regs[b]].items
      BY <1>5 DEF Told, Slice
    <3>2. QED
      BY <1>5, <1>9, <2>1, <3>1 DEF Ready
  <2>2. CASE b # c
    BY <1>5, <1>9, <2>2 DEF Ready
  <2>3. QED
    BY <2>1, <2>2
<1>13. ASSUME NEW T, Sens(m, T) PROVE \E S : Effect(m, T, n, S, rest, Regs)
  <2>1. PICK S : Effect(m, T, k, S, rest, Regs)
    BY <1>4, <1>13 DEF Ready
  <2>2. PICK R : Effect(k, S, n, R, rest, Regs)
    BY <1>9, <2>1 DEF Ready, Effect
  <2>3. Effect(m, T, n, R, rest, Regs)
    BY <2>1, <2>2, EffectTwice
  <2>4. QED
    BY <2>3
<1>14. QED
  BY <1>10, <1>11, <1>12, <1>13 DEF n, k

-----------------------------------------------------------------------------
(***************************************************************************)
(* The instructions, on the machine.                                       *)
(***************************************************************************)
\* The machine w after v was copied to register a of m.
CopyMade(m, w, rest, a, v) ==
  /\ Books(w, rest, <<>>) /\ w.regs = Put(m.regs, a, v)
  /\ \A T : Sens(m, T) => Effect(m, T, w, T, rest, Regs \ {a}) /\ w.regs[a] = v

LEMMA CopyGives ==
  ASSUME NEW m, NEW rest, Books(m, rest, <<>>), NEW a \in Regs, NEW v \in Refs, Present(m.heap, v)
  PROVE  CopyMade(m, Copy(m, a, v), rest, a, v)
<1> DEFINE w == Copy(m, a, v)
<1>1. Books(w, rest, <<>>) /\ Shrunk(m.heap, w.heap) /\ w.regs = Put(m.regs, a, v)
  BY CopyIs
<1> HIDE DEF w
<1>2. ASSUME NEW T, Sens(m, T) PROVE Effect(m, T, w, T, rest, Regs \ {a}) /\ w.regs[a] = v
  BY <1>1, <1>2, WriteEffect
<1>3. CopyMade(m, w, rest, a, v)
  BY <1>1, <1>2 DEF CopyMade
<1>4. QED
  BY <1>3 DEF w

\* An object that only the register a refers to is overwritten.
LEMMA OverwriteGives ==
  ASSUME NEW m, NEW rest, Books(m, rest, <<>>), NEW a \in Regs, NEW o, Only(m, rest, a, o), m.heap[o].kind # "view",
         NEW h, Ledger(h, {}, With(rest, m.regs), <<>>), Rewritten(m.heap, h, o), h[o].kind = m.heap[o].kind,
         InItems(h, {}, o) = 0, NEW T, Sens(m, T)
  PROVE  Leaves(m, T, [heap |-> h, regs |-> m.regs], rest, a, Value(m.heap[o].kind, Mapped(T, h[o].items)))
<1> DEFINE w == [heap |-> h, regs |-> m.regs]
<1>1. m.regs \in RegFile /\ rest \in [Cells -> Nat]
  BY BooksFacts
<1>2. Books(w, rest, <<>>) /\ w.heap = h /\ w.regs = m.regs
  BY <1>1, BooksOf
<1> HIDE DEF w
<1>3. Only(w, rest, a, o) /\ SameBut(m, w, a) /\ Rewritten(m.heap, w.heap, o)
  BY <1>2 DEF Only, SameBut
<1>4. Composes(m, T, w, rest, a, o)
  BY <1>2, <1>3, RewriteEffect
<1>5. Told(h, o) = m.heap[o].kind /\ Slice(h, o) = h[o].items
  BY DEF Told, Slice
<1>6. Composed(w.heap, T, o) = Value(m.heap[o].kind, Mapped(T, h[o].items))
  BY <1>2, <1>5, ComposedIs
<1>7. Leaves(m, T, w, rest, a, Value(m.heap[o].kind, Mapped(T, h[o].items)))
  BY <1>4, <1>6 DEF Composes, Leaves
<1>8. QED
  BY <1>7 DEF w

\* The value of a register's list, map or text.
LEMMA RegisterMeans ==
  ASSUME NEW m, NEW T, Sens(m, T), NEW r, m.regs[r] \in Cells, m.heap[m.regs[r]].kind # "free"
  PROVE  T[m.regs[r]] = Value(Told(m.heap, m.regs[r]), Mapped(T, Slice(m.heap, m.regs[r])))
BY ComposedIs DEF Sens, Meaning

\* The operands are made ready first.
LEMMA ReadyThenLeaves ==
  ASSUME NEW m, NEW T, NEW n, NEW S, NEW w, NEW rest, NEW a, NEW v,
         Effect(m, T, n, S, rest, Regs), Leaves(n, S, w, rest, a, v)
  PROVE  Leaves(m, T, w, rest, a, v)
<1>1. PICK R : Effect(n, S, w, R, rest, Regs \ {a}) /\ R[w.regs[a]] = v
  BY DEF Leaves
<1>2. Effect(m, T, w, R, rest, Regs \ {a})
  BY <1>1, EffectTwice
<1>3. QED
  BY <1>1, <1>2 DEF Leaves

\* Of the heap g after a reference e of the heap h was cloned: o is in no items.
Cloned(h, g, R, e, o) ==
  /\ Ledger(g, {}, R, <<e>>)
  /\ \A p \in Cells : g[p].kind = h[p].kind /\ g[p].items = h[p].items /\ g[p].start = h[p].start
  /\ InItems(g, {}, o) = 0

\* A counted reference is written to an object in place of its items.
LEMMA ClonedIs ==
  ASSUME NEW m, NEW rest, Books(m, rest, <<>>), NEW c \in Regs, NEW o, InItems(m.heap, {}, o) = 0
  PROVE  Cloned(m.heap, Clone(m.heap, m.regs[c]), With(rest, m.regs), m.regs[c], o)
<1> DEFINE e == m.regs[c]
           h == m.heap
           g == Clone(h, e)
<1>1. e \in Refs /\ Present(h, e) /\ Ledger(h, {}, With(rest, m.regs), <<>>)
  BY RegisterIsThere, BooksFacts
<1>2. /\ Ledger(g, {}, With(rest, m.regs), <<e>>)
      /\ \A p \in Cells : g[p].kind = h[p].kind /\ g[p].items = h[p].items /\ g[p].start = h[p].start
  BY <1>1, CloneIs
<1> HIDE DEF g
<1>3. g \in Heaps /\ h \in Heaps /\ FreeIffZero(g)
  BY <1>1, <1>2 DEF Ledger
<1>4. Shrunk(h, g)
  BY <1>2 DEF Shrunk
<1>5. InItems(g, {}, o) = 0
  BY <1>3, <1>4, ShrunkItems
<1>6. Cloned(h, g, With(rest, m.regs), e, o)
  BY <1>2, <1>5 DEF Cloned
<1>7. QED
  BY <1>6 DEF g, h, e

-----------------------------------------------------------------------------
\* OP_LISTAPPEND on ready operands.
Appended(n, a, b, c) ==
  IF Sole(n, a, b)
  THEN [n EXCEPT !.heap = Overwritten(Clone(@, n.regs[c]), n.regs[b], Append(n.heap[n.regs[b]].items, n.regs[c]))]
  ELSE WriteNew(n, a, "list", Append(n.heap[n.regs[b]].items, n.regs[c]), 0)

\* OP_LISTAPPEND pushes the item, in place or on a copy.
LEMMA AppendedIs ==
  ASSUME NEW n, NEW rest, Books(n, rest, <<>>), FreeCells(n.heap) # {}, NEW a \in Regs, NEW b \in Regs, NEW c \in Regs,
         n.regs[b] \in Cells, n.heap[n.regs[b]].kind = "list", Len(n.heap[n.regs[b]].items) < MaxLen
  PROVE  LET w == Appended(n, a, b, c)
         IN  /\ Books(w, rest, <<>>)
             /\ \A T : Sens(n, T) /\ ~(a = b /\ b = c) =>
                  Leaves(n, T, w, rest, a, Value("list", Append(T[n.regs[b]].items, T[n.regs[c]])))
<1> DEFINE h == n.heap
           o == n.regs[b]
           e == n.regs[c]
           old == h[o].items
           s == Append(old, e)
           w == Appended(n, a, b, c)
<1>1. /\ h \in Heaps /\ n.regs \in RegFile /\ rest \in [Cells -> Nat] /\ n = [heap |-> h, regs |-> n.regs]
      /\ Ledger(h, {}, With(rest, n.regs), <<>>)
  BY BooksFacts
<1>2. e \in Refs /\ Present(h, e) /\ o \in Cells /\ h[o].kind = "list"
  BY RegisterIsThere
<1>3. old \in Seq(Refs) /\ Len(old) < MaxLen /\ Len(old) \in Nat /\ \A i \in 1..Len(old) : Present(h, old[i])
  BY <1>1, <1>2, ObjectIs, ItemIsThere
<1>4. /\ s \in Seq(Refs) /\ Len(s) = Len(old) + 1 /\ (\A i \in 1..Len(old) : s[i] = old[i])
      /\ s[Len(old) + 1] = e
  <2> HIDE DEF old, e
  <2> QED
    BY <1>2, <1>3
<1>5. ASSUME NEW T, Sens(n, T)
      PROVE  Value("list", Mapped(T, s)) = Value("list", Append(T[o].items, T[e]))
  <2>1. T[o] = Value(Told(h, o), Mapped(T, Slice(h, o)))
    BY <1>2, <1>5, RegisterMeans
  <2>2. Slice(h, o) = old
    BY <1>2 DEF Slice
  <2>3. T[o].items = Mapped(T, old)
    BY <2>1, <2>2 DEF Value
  <2> HIDE DEF old, e, o
  <2>4. Mapped(T, s) = Append(Mapped(T, old), T[e])
    BY <1>2, <1>3, MapAppend
  <2>5. QED
    BY <2>3, <2>4
<1>6. CASE ~Sole(n, a, b)
  <2>1. w = WriteNew(n, a, "list", s, 0)
    BY <1>6 DEF Appended
  <2> HIDE DEF w, s, old
  <2>2. Sensible(h, "list", s, 0)
    <3>1. \A i \in 1..Len(s) : Present(h, s[i])
      BY <1>2, <1>3, <1>4
    <3>2. Len(s) <= MaxLen
      BY <1>3, <1>4, BoundsAre
    <3>3. QED
      BY <1>4, <3>1, <3>2 DEF Sensible, Kinds
  <2> HIDE DEF o, e, h
  <2>3. /\ Books(w, rest, <<>>)
        /\ \A T : Sens(n, T) => Leaves(n, T, w, rest, a, Value("list", Mapped(T, s)))
    BY <2>1, <2>2, NewIs DEF h
  <2>4. QED
    BY <1>5, <2>3 DEF w, o, e
<1>7. CASE Sole(n, a, b)
  <2> DEFINE g == Clone(h, e)
             k == Overwritten(g, o, s)
  <2>1. a = b /\ Only(n, rest, a, o)
    BY <1>2, <1>7, SoleIs DEF Sole
  <2>2. /\ Ledger(g, {}, With(rest, n.regs), <<e>>)
        /\ \A p \in Cells : g[p].kind = h[p].kind /\ g[p].items = h[p].items /\ g[p].start = h[p].start
        /\ InItems(g, {}, o) = 0
    <3>1. InItems(n.heap, {}, o) = 0
      BY <2>1 DEF Only
    <3> HIDE DEF o
    <3>2. Cloned(h, g, With(rest, n.regs), e, o)
      BY <3>1, ClonedIs
    <3>3. QED
      BY <3>2 DEF Cloned
  <2>3. w = [heap |-> k, regs |-> n.regs]
    <3>1. w = [n EXCEPT !.heap = k]
      BY <1>7 DEF Appended
    <3> HIDE DEF w, k
    <3>2. QED
      BY <1>1, <3>1
  <2>4. Balanced(g[o].items, <<e>>, s, <<>>)
    <3>1. g[o].items = old
      BY <1>2, <2>2
    <3> HIDE DEF g, s, old
    <3>2. ASSUME NEW p \in Cells PROVE Occurs(s, p) + Occurs(<<>>, p) = Occurs(old, p) + Occurs(<<e>>, p)
      <4>1. Occurs(s, p) = Occurs(old, p) + Bit(e = p)
        BY <1>2, <1>3, OccursAppend DEF s
      <4>2. Occurs(<<>>, p) = 0 /\ Occurs(<<e>>, p) = Bit(e = p)
        BY OccursOne, OccursNone
      <4>3. Occurs(old, p) \in Nat /\ Bit(e = p) \in Nat
        BY <1>3, SeqFinite, AtFinite DEF Bit
      <4>4. QED
        BY <4>1, <4>2, <4>3
    <3>3. Balanced(old, <<e>>, s, <<>>)
      BY <3>2 DEF Balanced
    <3>4. QED
      BY <3>1, <3>3
  <2> HIDE DEF g, s, old, w
  <2>5. /\ Ledger(k, {}, With(rest, n.regs), <<>>)
        /\ \A p \in Cells \ {o} : k[p] = g[p]
        /\ k[o].kind = g[o].kind /\ k[o].items = s /\ k[o].start = g[o].start
    <3>1. g[o].kind # "free" /\ g[o].kind # "view" /\ g[o].kind # "text"
      BY <1>2, <2>2
    <3>2. Fits(g, o, s)
      BY <1>2, <1>3, <1>4, <3>1, BoundsAre DEF Fits
    <3> DEFINE hand == <<e>>
               none == <<>>
               R == With(rest, n.regs)
    <3>3. /\ Ledger(g, {}, R, hand) /\ Balanced(g[o].items, hand, s, none) /\ none \in Seq(Refs)
          /\ o \in Cells /\ InItems(g, {}, o) = 0 /\ s \in Seq(Refs)
      BY <1>2, <1>4, <2>2, <2>4
    <3> HIDE DEF o, e, hand, none, R
    <3>4. /\ Ledger(k, {}, R, none)
          /\ \A p \in Cells \ {o} : k[p] = g[p]
          /\ k[o].kind = g[o].kind /\ k[o].items = s /\ k[o].start = g[o].start
      BY <3>1, <3>2, <3>3, InPlaceIs
    <3>5. QED
      BY <3>4 DEF none, R
  <2> HIDE DEF k
  <2>6. Books(w, rest, <<>>)
    BY <1>1, <2>3, <2>5, BooksOf
  <2>7. Rewritten(h, k, o)
    BY <2>2, <2>5 DEF Rewritten
  <2>8. ASSUME NEW T, Sens(n, T), c # b
        PROVE  Leaves(n, T, w, rest, a, Value("list", Mapped(T, s)))
    <3>1. e # o
      BY <2>1, <2>8 DEF Only
    <3>2. InItems(k, {}, o) = 0
      <4>1. InItems(k, {}, o) = InItems(g, {}, o) - Occurs(g[o].items, o) + Occurs(k[o].items, o)
        <5>1. g \in Heaps /\ k \in Heaps
          BY <2>2, <2>5 DEF Ledger
        <5>2. \A q \in Cells \ {o} : k[q].items = g[q].items
          BY <2>5
        <5> HIDE DEF o
        <5>3. QED
          BY <1>2, <5>1, <5>2, AllItemsChange
      <4>2. g[o].items = old
        BY <1>2, <2>2 DEF old
      <4>3. Occurs(s, o) = Occurs(old, o) + Bit(e = o)
        BY <1>2, <1>3, OccursAppend DEF s
      <4>4. Bit(e = o) = 0
        BY <3>1 DEF Bit
      <4>5. Occurs(old, o) \in Nat
        BY <1>3, SeqFinite, AtFinite
      <4>6. QED
        BY <2>2, <2>5, <4>1, <4>2, <4>3, <4>4, <4>5
    <3>3. k[o].kind = h[o].kind /\ h[o].kind # "view" /\ k[o].items = s /\ h[o].kind = "list"
      BY <1>2, <2>2, <2>5
    <3> HIDE DEF o, h, e
    <3>4. Leaves(n, T, [heap |-> k, regs |-> n.regs], rest, a, Value(h[o].kind, Mapped(T, k[o].items)))
      BY <2>1, <2>5, <2>7, <2>8, <3>2, <3>3, OverwriteGives DEF h
    <3>5. QED
      BY <2>3, <3>3, <3>4
  <2>9. QED
    BY <1>5, <2>1, <2>6, <2>8 DEF w
<1>8. QED
  BY <1>6, <1>7

-----------------------------------------------------------------------------
\* OP_MSET on a ready operand.
SetTo(n, a, b, d) ==
  IF Sole(n, a, b)
  THEN [n EXCEPT !.heap = DropAll(Overwritten(Clone(@, n.regs[d]), n.regs[b], <<n.regs[d]>>),
                                  n.heap[n.regs[b]].items)]
  ELSE WriteNew(n, a, "map", <<n.regs[d]>>, 0)

\* OP_MSET sets the item, in place or on a copy.
LEMMA SetIs ==
  ASSUME NEW n, NEW rest, Books(n, rest, <<>>), FreeCells(n.heap) # {}, NEW a \in Regs, NEW b \in Regs, NEW d \in Regs,
         n.regs[b] \in Cells, n.heap[n.regs[b]].kind = "map"
  PROVE  LET w == SetTo(n, a, b, d)
         IN  /\ Books(w, rest, <<>>)
             /\ \A T : Sens(n, T) /\ ~(a = b /\ b = d) =>
                  Leaves(n, T, w, rest, a, Value("map", <<T[n.regs[d]]>>))
<1> DEFINE h == n.heap
           o == n.regs[b]
           e == n.regs[d]
           old == h[o].items
           s == <<e>>
           w == SetTo(n, a, b, d)
<1>1. /\ h \in Heaps /\ n.regs \in RegFile /\ rest \in [Cells -> Nat] /\ n = [heap |-> h, regs |-> n.regs]
      /\ Ledger(h, {}, With(rest, n.regs), <<>>)
  BY BooksFacts
<1>2. e \in Refs /\ Present(h, e) /\ o \in Cells /\ h[o].kind = "map"
  BY RegisterIsThere
<1>3. old \in Seq(Refs)
  BY <1>1, <1>2, ObjectIs
<1>4. /\ s \in Seq(Refs) /\ Len(s) = 1 /\ s[1] = e /\ \A p : Occurs(s, p) = Bit(e = p)
  <2> HIDE DEF e
  <2> QED
    BY <1>2, OccursOne
<1>5. ASSUME NEW T
      PROVE  Value("map", Mapped(T, s)) = Value("map", <<T[e]>>)
  <2>1. Mapped(T, s) = <<T[e]>>
    <3> HIDE DEF e
    <3> QED
      BY DEF Mapped
  <2>2. QED
    BY <2>1
<1>6. CASE ~Sole(n, a, b)
  <2>1. w = WriteNew(n, a, "map", s, 0)
    BY <1>6 DEF SetTo
  <2> HIDE DEF w, s, old
  <2>2. Sensible(h, "map", s, 0)
    BY <1>2, <1>4, BoundsAre DEF Sensible, Kinds
  <2> HIDE DEF o, e, h
  <2>3. /\ Books(w, rest, <<>>)
        /\ \A T : Sens(n, T) => Leaves(n, T, w, rest, a, Value("map", Mapped(T, s)))
    BY <2>1, <2>2, NewIs DEF h
  <2>4. QED
    BY <1>5, <2>3 DEF w, o, e
<1>7. CASE Sole(n, a, b)
  <2> DEFINE g == Clone(h, e)
             k == Overwritten(g, o, s)
             f == DropAll(k, old)
             R == With(rest, n.regs)
             none == <<>>
  <2>1. a = b /\ Only(n, rest, a, o)
    BY <1>2, <1>7, SoleIs DEF Sole
  <2>2. /\ Ledger(g, {}, R, s)
        /\ \A p \in Cells : g[p].kind = h[p].kind /\ g[p].items = h[p].items /\ g[p].start = h[p].start
        /\ InItems(g, {}, o) = 0
    <3>1. s = <<e>> /\ InItems(n.heap, {}, o) = 0
      BY <2>1 DEF Only
    <3> HIDE DEF o
    <3>2. Cloned(h, g, R, e, o)
      BY <3>1, ClonedIs
    <3> HIDE DEF g, h, e, s, R
    <3>3. QED
      BY <3>1, <3>2 DEF Cloned
  <2>3. w = [heap |-> f, regs |-> n.regs]
    <3>1. w = [n EXCEPT !.heap = f]
      BY <1>7 DEF SetTo
    <3> HIDE DEF w, f
    <3>2. QED
      BY <1>1, <3>1
  <2> HIDE DEF w, f, R, none, g, k
  <2>4. g[o].items = old
    BY <1>2, <2>2
  <2>5. Balanced(g[o].items, s, s, old)
    <3> HIDE DEF s, old
    <3>1. ASSUME NEW p \in Cells PROVE Occurs(s, p) + Occurs(old, p) = Occurs(old, p) + Occurs(s, p)
      BY <1>3, <1>4, SeqFinite, AtFinite
    <3>2. Balanced(old, s, s, old)
      BY <3>1 DEF Balanced
    <3>3. QED
      BY <2>4, <3>2
  <2> HIDE DEF s, old
  <2>6. Fits(g, o, s)
    BY <1>2, <1>4, <2>2, BoundsAre DEF Fits
  <2>7. /\ Ledger(k, {}, R, old)
        /\ \A p \in Cells \ {o} : k[p] = g[p]
        /\ k[o].kind = g[o].kind /\ k[o].items = s /\ k[o].start = g[o].start
    <3> HIDE DEF o, e, h
    <3> QED
      BY <1>3, <2>2, <2>5, <2>6, InPlaceIs DEF k
  <2>8. Ledger(f, {}, R, none) /\ Shrunk(k, f)
    <3> HIDE DEF o, e, h
    <3> QED
      BY <2>7, DropAllIs DEF f, none
  <2>9. Books(w, rest, <<>>)
    BY <1>1, <2>3, <2>8, BooksOf DEF R, none
  <2>10. Rewritten(h, f, o)
    <3>1. Rewritten(h, k, o)
      BY <2>2, <2>7 DEF Rewritten
    <3>2. QED
      BY <2>8, <3>1, RewrittenThenShrunk
  <2>11. f[o].kind = "map" /\ f[o].items = s
    <3>1. R[o] > 0
      <4>1. n.regs[b] = o /\ b \in Regs /\ IsFiniteSet(DOMAIN n.regs) /\ b \in DOMAIN n.regs
        BY <1>1, BoundsAre DEF RegFile
      <4>2. Occurs(n.regs, o) \in Nat /\ Occurs(n.regs, o) # 0
        BY <4>1, AtFinite
      <4>3. R[o] = rest[o] + Occurs(n.regs, o) /\ rest[o] \in Nat
        BY <1>1, <1>2, WithIs DEF R
      <4>4. QED
        BY <4>2, <4>3
    <3>2. f[o].kind # "free"
      BY <1>2, <2>8, <3>1, HeldIsThere
    <3>3. QED
      BY <1>2, <2>2, <2>7, <2>8, <3>2 DEF Shrunk
  <2>12. ASSUME NEW T, Sens(n, T), d # b
         PROVE  Leaves(n, T, w, rest, a, Value("map", Mapped(T, s)))
    <3>1. e # o
      BY <2>1, <2>12 DEF Only
    <3>2. InItems(f, {}, o) = 0
      <4>1. InItems(k, {}, o) = InItems(g, {}, o) - Occurs(g[o].items, o) + Occurs(k[o].items, o)
        <5>1. g \in Heaps /\ k \in Heaps
          BY <2>2, <2>7 DEF Ledger
        <5>2. \A q \in Cells \ {o} : k[q].items = g[q].items
          BY <2>7
        <5> HIDE DEF o
        <5>3. QED
          BY <1>2, <5>1, <5>2, AllItemsChange
      <4>2. Occurs(s, o) = 0
        BY <1>4, <3>1 DEF Bit
      <4>3. Occurs(old, o) = 0
        <5>1. \A i \in DOMAIN h[o].items : h[o].items[i] # o
          BY <1>1, <1>2, <2>1, NotAnItem DEF Only
        <5>2. QED
          BY <1>3, <5>1, SeqFinite, AtFinite DEF old
      <4>4. InItems(k, {}, o) = 0
        BY <2>2, <2>4, <2>7, <4>1, <4>2, <4>3
      <4>5. k \in Heaps /\ f \in Heaps /\ FreeIffZero(f)
        BY <2>7, <2>8 DEF Ledger
      <4>6. QED
        BY <2>8, <4>4, <4>5, ShrunkItems
    <3>3. f[o].kind = h[o].kind /\ h[o].kind # "view" /\ f[o].items = s /\ h[o].kind = "map"
      BY <1>2, <2>11
    <3> HIDE DEF o, h, e
    <3>4. Leaves(n, T, [heap |-> f, regs |-> n.regs], rest, a, Value(h[o].kind, Mapped(T, f[o].items)))
      BY <2>1, <2>8, <2>10, <2>12, <3>2, <3>3, OverwriteGives DEF h, R, none
    <3>5. QED
      BY <2>3, <3>3, <3>4
  <2>13. QED
    BY <1>5, <2>1, <2>9, <2>12 DEF w
<1>8. QED
  BY <1>6, <1>7

-----------------------------------------------------------------------------
\* The items of the register's object are replaced by as many of the same.
LEMMA ReplacedIs ==
  ASSUME NEW m, NEW rest, Books(m, rest, <<>>), NEW a \in Regs, NEW o, Only(m, rest, a, o),
         NEW s, Fits(m.heap, o, s), \A p \in Cells : Occurs(s, p) = Occurs(m.heap[o].items, p)
  PROVE  LET w == [m EXCEPT !.heap = Overwritten(@, o, s)]
         IN  /\ Books(w, rest, <<>>)
             /\ \A T : Sens(m, T) => Leaves(m, T, w, rest, a, Value(m.heap[o].kind, Mapped(T, s)))
<1> DEFINE h == m.heap
           k == Overwritten(h, o, s)
           w == [heap |-> k, regs |-> m.regs]
           none == <<>>
           R == With(rest, m.regs)
<1>1. /\ h \in Heaps /\ m.regs \in RegFile /\ rest \in [Cells -> Nat] /\ m = [heap |-> h, regs |-> m.regs]
      /\ Ledger(h, {}, R, none) /\ none \in Seq(Refs)
  BY BooksFacts
<1>2. [m EXCEPT !.heap = Overwritten(@, o, s)] = w
  <2> HIDE DEF k
  <2>1. [m EXCEPT !.heap = k] = w
    BY <1>1
  <2>2. QED
    BY <2>1 DEF k
<1>3. o \in Cells /\ s \in Seq(Refs)
  BY DEF Fits
<1>4. h[o].items \in Seq(Refs)
  BY <1>1, <1>3, ObjectIs
<1> HIDE DEF none, R, k
<1>5. Balanced(h[o].items, none, s, none)
  <2>1. ASSUME NEW p \in Cells PROVE Occurs(s, p) + Occurs(none, p) = Occurs(h[o].items, p) + Occurs(none, p)
    OBVIOUS
  <2>2. QED
    BY <2>1 DEF Balanced
<1>6. /\ Ledger(k, {}, R, none)
      /\ \A p \in Cells \ {o} : k[p] = h[p]
      /\ k[o].kind = h[o].kind /\ k[o].items = s /\ k[o].start = h[o].start
  <2>1. InItems(h, {}, o) = 0
    BY DEF Only
  <2>2. Fits(h, o, s)
    OBVIOUS
  <2> HIDE DEF h
  <2> QED
    BY <1>1, <1>5, <2>1, <2>2, InPlaceIs DEF k
<1>7. Books(w, rest, <<>>)
  BY <1>1, <1>6, BooksOf DEF R, none
<1>8. InItems(k, {}, o) = 0
  <2>1. InItems(k, {}, o) = InItems(h, {}, o) - Occurs(h[o].items, o) + Occurs(k[o].items, o)
    <3>1. h \in Heaps /\ k \in Heaps
      BY <1>1, <1>6 DEF Ledger
    <3>2. \A q \in Cells \ {o} : k[q].items = h[q].items
      BY <1>6
    <3>3. QED
      BY <1>3, <3>1, <3>2, AllItemsChange
  <2>2. Occurs(s, o) \in Nat /\ Occurs(h[o].items, o) = Occurs(s, o)
    BY <1>3, SeqFinite, AtFinite
  <2>3. InItems(h, {}, o) = 0
    BY DEF Only
  <2>4. QED
    BY <1>6, <2>1, <2>2, <2>3
<1>9. Rewritten(h, k, o)
  BY <1>6 DEF Rewritten
<1>10. h[o].kind # "view"
  BY DEF Fits
<1>11. ASSUME NEW T, Sens(m, T) PROVE Leaves(m, T, w, rest, a, Value(h[o].kind, Mapped(T, s)))
  <2>1. Leaves(m, T, [heap |-> k, regs |-> m.regs], rest, a, Value(m.heap[o].kind, Mapped(T, k[o].items)))
    BY <1>6, <1>8, <1>9, <1>10, <1>11, OverwriteGives DEF R, none
  <2>2. QED
    BY <1>6, <2>1
<1>12. QED
  BY <1>2, <1>7, <1>11

-----------------------------------------------------------------------------
\* OP_ADD_SS.
Joined(m, a, b, c) ==
  IF Sole(m, a, b) /\ b # c
  THEN [m EXCEPT !.heap = Overwritten(@, m.regs[b], Slice(m.heap, m.regs[b]) \o Slice(m.heap, m.regs[c]))]
  ELSE WriteNew(m, a, "text", Slice(m.heap, m.regs[b]) \o Slice(m.heap, m.regs[c]), 0)

\* Two texts, one after the other.
LEMMA JoinedText ==
  ASSUME NEW m, NEW rest, Books(m, rest, <<>>), NEW p \in Cells, NEW q \in Cells,
         m.heap[p].kind = "text", m.heap[q].kind = "text",
         Len(Slice(m.heap, p)) + Len(Slice(m.heap, q)) <= MaxLen
  PROVE  LET s == Slice(m.heap, p) \o Slice(m.heap, q)
         IN  /\ Slice(m.heap, p) = m.heap[p].items /\ Slice(m.heap, q) = m.heap[q].items
             /\ Slice(m.heap, p) \in Seq(Refs) /\ Slice(m.heap, q) \in Seq(Refs)
             /\ s \in Seq(Refs) /\ Len(s) <= MaxLen /\ (\A i \in 1..Len(s) : s[i] = Nil)
             /\ \A o \in Cells : Occurs(s, o) = 0 /\ Occurs(m.heap[p].items, o) = 0
<1> DEFINE k == Slice(m.heap, p)
           j == Slice(m.heap, q)
           s == k \o j
<1>1. k = m.heap[p].items /\ j = m.heap[q].items
  BY DEF Slice
<1>2. m.heap \in Heaps /\ TextsPlain(m.heap)
  BY BooksFacts DEF Ledger
<1>3. /\ k \in Seq(Refs) /\ DOMAIN k = 1..Len(k) /\ Len(k) \in Nat
      /\ j \in Seq(Refs) /\ DOMAIN j = 1..Len(j) /\ Len(j) \in Nat
  BY <1>1, <1>2, ObjectIs
<1>4. (\A i \in 1..Len(k) : k[i] = Nil) /\ (\A i \in 1..Len(j) : j[i] = Nil)
  BY <1>1, <1>2, <1>3 DEF TextsPlain
<1> HIDE DEF k, j
<1>5. s \in Seq(Refs) /\ Len(s) = Len(k) + Len(j)
      /\ \A i \in 1..(Len(k) + Len(j)) : s[i] = IF i <= Len(k) THEN k[i] ELSE j[i - Len(k)]
  BY <1>3, ConcatIs
<1> HIDE DEF s
<1>6. ASSUME NEW i \in 1..Len(s) PROVE s[i] = Nil
  <2>1. i \in Nat /\ i \in 1..(Len(k) + Len(j)) /\ s[i] = IF i <= Len(k) THEN k[i] ELSE j[i - Len(k)]
    BY <1>3, <1>5
  <2>2. CASE i <= Len(k)
    <3>1. i \in 1..Len(k)
      BY <1>3, <2>1, <2>2
    <3>2. QED
      BY <1>4, <2>1, <2>2, <3>1
  <2>3. CASE ~(i <= Len(k))
    <3>1. i - Len(k) \in 1..Len(j)
      BY <1>3, <2>1, <2>3
    <3>2. QED
      BY <1>4, <2>1, <2>3, <3>1
  <2>4. QED
    BY <2>2, <2>3
<1>7. ASSUME NEW o \in Cells PROVE Occurs(s, o) = 0 /\ Occurs(k, o) = 0
  <2>1. IsFiniteSet(DOMAIN s) /\ DOMAIN s = 1..Len(s) /\ IsFiniteSet(DOMAIN k) /\ DOMAIN k = 1..Len(k)
    BY <1>3, <1>5, SeqFinite
  <2>2. o # Nil
    BY DEF Cells, Nil
  <2>3. QED
    BY <1>4, <1>6, <2>1, <2>2, AtFinite
<1>8. Len(k) + Len(j) <= MaxLen
  BY DEF k, j
<1>9. QED
  BY <1>1, <1>3, <1>5, <1>6, <1>7, <1>8 DEF s, k, j

\* OP_ADD_SS joins two texts, in place or on a copy.
LEMMA JoinedIs ==
  ASSUME NEW m, NEW rest, Books(m, rest, <<>>), FreeCells(m.heap) # {}, NEW a \in Regs, NEW b \in Regs, NEW c \in Regs,
         m.regs[b] \in Cells, m.heap[m.regs[b]].kind = "text", m.regs[c] \in Cells, m.heap[m.regs[c]].kind = "text",
         Len(Slice(m.heap, m.regs[b])) + Len(Slice(m.heap, m.regs[c])) <= MaxLen
  PROVE  LET w == Joined(m, a, b, c)
         IN  /\ Books(w, rest, <<>>)
             /\ \A T : Sens(m, T) =>
                  Leaves(m, T, w, rest, a, Value("text", T[m.regs[b]].items \o T[m.regs[c]].items))
<1> DEFINE p == m.regs[b]
           q == m.regs[c]
           k == Slice(m.heap, p)
           j == Slice(m.heap, q)
           s == k \o j
           w == Joined(m, a, b, c)
<1>1. /\ k = m.heap[p].items /\ j = m.heap[q].items /\ k \in Seq(Refs) /\ j \in Seq(Refs)
      /\ s \in Seq(Refs) /\ Len(s) <= MaxLen /\ (\A i \in 1..Len(s) : s[i] = Nil)
      /\ \A o \in Cells : Occurs(s, o) = 0 /\ Occurs(m.heap[p].items, o) = 0
  BY JoinedText
<1>2. ASSUME NEW T, Sens(m, T)
      PROVE  Value("text", Mapped(T, s)) = Value("text", T[p].items \o T[q].items)
  <2>1. T[p] = Value(Told(m.heap, p), Mapped(T, k)) /\ T[q] = Value(Told(m.heap, q), Mapped(T, j))
    BY <1>2, RegisterMeans
  <2>2. T[p].items = Mapped(T, k) /\ T[q].items = Mapped(T, j)
    BY <2>1 DEF Value
  <2> HIDE DEF p, q, k, j
  <2>3. Mapped(T, s) = Mapped(T, k) \o Mapped(T, j)
    BY <1>1, MapConcat
  <2>4. QED
    BY <2>2, <2>3
<1>3. CASE ~(Sole(m, a, b) /\ b # c)
  <2>1. w = WriteNew(m, a, "text", s, 0)
    BY <1>3 DEF Joined
  <2>2. Sensible(m.heap, "text", s, 0)
    BY <1>1 DEF Sensible, Kinds, Present
  <2> HIDE DEF w, s
  <2>3. /\ Books(w, rest, <<>>)
        /\ \A T : Sens(m, T) => Leaves(m, T, w, rest, a, Value("text", Mapped(T, s)))
    BY <2>1, <2>2, NewIs
  <2>4. QED
    BY <1>2, <2>3 DEF w
<1>4. CASE Sole(m, a, b) /\ b # c
  <2>1. w = [m EXCEPT !.heap = Overwritten(@, p, s)]
    BY <1>4 DEF Joined
  <2>2. a = b /\ Only(m, rest, a, p)
    BY <1>4, SoleIs DEF Sole
  <2>3. Fits(m.heap, p, s) /\ (\A o \in Cells : Occurs(s, o) = Occurs(m.heap[p].items, o)) /\ m.heap[p].kind = "text"
    BY <1>1 DEF Fits
  <2> HIDE DEF w, s, p
  <2>4. /\ Books(w, rest, <<>>)
        /\ \A T : Sens(m, T) => Leaves(m, T, w, rest, a, Value("text", Mapped(T, s)))
    BY <2>1, <2>2, <2>3, ReplacedIs
  <2>5. QED
    BY <1>2, <2>4 DEF w, p
<1>5. QED
  BY <1>3, <1>4

-----------------------------------------------------------------------------
\* OP_REV.
Reversed(m, a, b) ==
  IF Sole(m, a, b) /\ ~ViewIn(m, b)
  THEN [m EXCEPT !.heap = Overwritten(@, m.regs[b], Reverse(Slice(m.heap, m.regs[b])))]
  ELSE WriteNew(m, a, "list", Reverse(Slice(m.heap, m.regs[b])), 0)

\* OP_REV turns a list round, in place or on a copy.
LEMMA ReversedIs ==
  ASSUME NEW m, NEW rest, Books(m, rest, <<>>), FreeCells(m.heap) # {}, NEW a \in Regs, NEW b \in Regs,
         m.regs[b] \in Cells, m.heap[m.regs[b]].kind \in {"list", "view"}
  PROVE  LET w == Reversed(m, a, b)
         IN  /\ Books(w, rest, <<>>)
             /\ \A T : Sens(m, T) =>
                  Leaves(m, T, w, rest, a, Value("list", Reverse(T[m.regs[b]].items)))
<1> DEFINE p == m.regs[b]
           k == Slice(m.heap, p)
           s == Reverse(k)
           w == Reversed(m, a, b)
<1>1. k \in Seq(Refs) /\ Len(k) \in Nat /\ Len(k) <= MaxLen /\ \A i \in 1..Len(k) : Present(m.heap, k[i])
  BY SliceIs, SeqFinite
<1>2. /\ s \in Seq(Refs) /\ Len(s) = Len(k) /\ (\A i \in 1..Len(k) : s[i] = k[Len(k) + 1 - i])
      /\ \A o \in Cells : Occurs(s, o) = Occurs(k, o)
  <2> HIDE DEF k
  <2> QED
    BY <1>1, OccursReverse
<1>3. ASSUME NEW T, Sens(m, T)
      PROVE  Value("list", Mapped(T, s)) = Value("list", Reverse(T[p].items))
  <2>1. T[p] = Value(Told(m.heap, p), Mapped(T, k))
    BY <1>3, RegisterMeans
  <2>2. T[p].items = Mapped(T, k)
    BY <2>1 DEF Value
  <2> HIDE DEF p, k
  <2>3. Mapped(T, s) = Reverse(Mapped(T, k))
    BY <1>1, MapReverse
  <2>4. QED
    BY <2>2, <2>3
<1>4. CASE ~(Sole(m, a, b) /\ ~ViewIn(m, b))
  <2>1. w = WriteNew(m, a, "list", s, 0)
    BY <1>4 DEF Reversed
  <2> HIDE DEF w, s, k
  <2>2. Sensible(m.heap, "list", s, 0)
    <3>1. \A i \in 1..Len(s) : Present(m.heap, s[i])
      BY <1>1, <1>2
    <3>2. QED
      BY <1>1, <1>2, <3>1 DEF Sensible, Kinds
  <2>3. /\ Books(w, rest, <<>>)
        /\ \A T : Sens(m, T) => Leaves(m, T, w, rest, a, Value("list", Mapped(T, s)))
    BY <2>1, <2>2, NewIs
  <2>4. QED
    BY <1>3, <2>3 DEF w
<1>5. CASE Sole(m, a, b) /\ ~ViewIn(m, b)
  <2>1. w = [m EXCEPT !.heap = Overwritten(@, p, s)]
    BY <1>5 DEF Reversed
  <2>2. a = b /\ Only(m, rest, a, p)
    BY <1>5, SoleIs DEF Sole
  <2>3. m.heap[p].kind = "list" /\ k = m.heap[p].items
    <3>1. IsRef(p)
      BY DEF IsRef, Cells
    <3>2. QED
      BY <1>5, <3>1 DEF ViewIn, Slice
  <2>4. Fits(m.heap, p, s) /\ (\A o \in Cells : Occurs(s, o) = Occurs(m.heap[p].items, o))
    <3> HIDE DEF s, k
    <3> QED
      BY <1>1, <1>2, <2>3 DEF Fits
  <2> HIDE DEF w, s, p
  <2>5. /\ Books(w, rest, <<>>)
        /\ \A T : Sens(m, T) => Leaves(m, T, w, rest, a, Value("list", Mapped(T, s)))
    BY <2>1, <2>2, <2>3, <2>4, ReplacedIs
  <2>6. QED
    BY <1>3, <2>5 DEF w, p
<1>6. QED
  BY <1>4, <1>5

-----------------------------------------------------------------------------
\* OP_WINDOW_VIEW on a ready list.
Viewed(n, a, b, i) ==
  IF ViewIn(n, a) /\ n.heap[n.regs[a]].rc = 1
  THEN Rebound(n, n.regs[a], n.regs[b], i)
  ELSE WriteNew(n, a, "view", <<n.regs[b]>>, i)

\* The view in register a looks at place i of the list in register b.
LEMMA ViewGives ==
  ASSUME NEW n, NEW rest, Books(n, rest, <<>>), NEW a \in Regs, NEW b \in Regs, a # b,
         n.regs[b] \in Cells, n.heap[n.regs[b]].kind = "list", NEW i \in 1..Len(n.heap[n.regs[b]].items),
         NEW w, Books(w, rest, <<>>), NEW x, Rewritten(n.heap, w.heap, x), Only(w, rest, a, x),
         SameBut(n, w, a), Written(w, x, "view", <<n.regs[b]>>, i), NEW T, Sens(n, T)
  PROVE  Leaves(n, T, w, rest, a, Value("list", <<T[n.regs[b]].items[i]>>))
<1> DEFINE src == n.regs[b]
           s == <<src>>
           e == n.heap[src].items[i]
<1>1. Composes(n, T, w, rest, a, x)
  BY RewriteEffect
<1>2. PICK S : Effect(n, T, w, S, rest, Regs \ {a}) /\ S[w.regs[a]] = Composed(w.heap, T, x)
  BY <1>1 DEF Composes
<1>3. w.heap[src].items = n.heap[src].items
  BY OthersKept
<1>4. Slice(w.heap, x) = <<e>> /\ Told(w.heap, x) = "list"
  <2>1. w.heap[x].kind = "view" /\ w.heap[x].items = s /\ w.heap[x].start = i
    BY DEF Written
  <2>2. s[1] = src
    <3> HIDE DEF src
    <3> QED OBVIOUS
  <2>3. Slice(w.heap, x) = <<w.heap[w.heap[x].items[1]].items[w.heap[x].start]>>
    BY <2>1 DEF Slice
  <2> HIDE DEF src, s
  <2>4. Slice(w.heap, x) = <<e>>
    BY <1>3, <2>1, <2>2, <2>3
  <2>5. QED
    BY <2>1, <2>4 DEF Told
<1>5. T[src].items[i] = T[e]
  <2>1. T[src] = Value(Told(n.heap, src), Mapped(T, Slice(n.heap, src)))
    BY RegisterMeans
  <2>2. Slice(n.heap, src) = n.heap[src].items
    BY DEF Slice
  <2>3. T[src].items = Mapped(T, n.heap[src].items)
    BY <2>1, <2>2 DEF Value
  <2>4. n.heap[src].items \in Seq(Refs)
    BY BooksFacts, ObjectIs
  <2>5. QED
    BY <2>3, <2>4, MappedIs
<1>6. Composed(w.heap, T, x) = Value("list", <<T[src].items[i]>>)
  <2>1. Composed(w.heap, T, x) = Value(Told(w.heap, x), Mapped(T, Slice(w.heap, x)))
    BY ComposedIs
  <2> HIDE DEF src, e
  <2>2. Mapped(T, <<e>>) = <<T[e]>>
    BY DEF Mapped
  <2>3. QED
    BY <1>4, <1>5, <2>1, <2>2
<1>7. QED
  BY <1>2, <1>6 DEF Leaves

\* OP_WINDOW_VIEW looks at one place, with the view of the last round or a new one.
LEMMA ViewedIs ==
  ASSUME NEW n, NEW rest, Books(n, rest, <<>>), FreeCells(n.heap) # {}, NEW a \in Regs, NEW b \in Regs, a # b,
         n.regs[b] \in Cells, n.heap[n.regs[b]].kind = "list", NEW i \in 1..Len(n.heap[n.regs[b]].items)
  PROVE  LET w == Viewed(n, a, b, i)
         IN  /\ Books(w, rest, <<>>)
             /\ \A T : Sens(n, T) => Leaves(n, T, w, rest, a, Value("list", <<T[n.regs[b]].items[i]>>))
<1> DEFINE w == Viewed(n, a, b, i)
           src == n.regs[b]
           s == <<src>>
<1>1. CASE ViewIn(n, a) /\ n.heap[n.regs[a]].rc = 1
  <2> DEFINE x == n.regs[a]
  <2>1. x \in Cells /\ n.heap[x].kind = "view" /\ n.heap[x].rc = 1
    BY <1>1, RegisterIsThere DEF ViewIn, IsRef, Refs, Cells
  <2>2. /\ Books(w, rest, <<>>) /\ w.regs = n.regs /\ Rewritten(n.heap, w.heap, x)
        /\ Written(w, x, "view", <<src>>, i) /\ Only(w, rest, a, x)
    <3>1. w = Rebound(n, x, src, i)
      BY <1>1 DEF Viewed
    <3>2. QED
      BY <2>1, <3>1, ReboundIs
  <2> HIDE DEF w
  <2>3. SameBut(n, w, a)
    BY <2>2 DEF SameBut
  <2>4. ASSUME NEW T, Sens(n, T) PROVE Leaves(n, T, w, rest, a, Value("list", <<T[src].items[i]>>))
    BY <2>2, <2>3, <2>4, ViewGives
  <2>5. QED
    BY <2>2, <2>4 DEF w
<1>2. CASE ~(ViewIn(n, a) /\ n.heap[n.regs[a]].rc = 1)
  <2> DEFINE x == NewCell(n.heap)
  <2>1. w = WriteNew(n, a, "view", s, i)
    BY <1>2 DEF Viewed
  <2>2. Sensible(n.heap, "view", s, i)
    <3>1. src \in Refs /\ src \in Cells /\ Present(n.heap, src)
      BY RegisterIsThere
    <3>2. n.heap[src].kind = "list" /\ i \in 1..Len(n.heap[src].items) /\ i \in Nat
      OBVIOUS
    <3> HIDE DEF src
    <3>3. s \in Seq(Refs) /\ Len(s) = 1 /\ s[1] = src
      BY <3>1
    <3>4. QED
      BY <3>1, <3>2, <3>3, BoundsAre DEF Sensible, Kinds
  <2> HIDE DEF w, s
  <2>3. /\ Books(w, rest, <<>>) /\ w.regs = Put(n.regs, a, x) /\ x \in Cells
        /\ Rewritten(n.heap, w.heap, x) /\ Written(w, x, "view", s, i) /\ Only(w, rest, a, x)
    BY <2>1, <2>2, WriteNewIs
  <2> HIDE DEF x
  <2>4. n.regs \in RegFile /\ x \in Refs
    BY <2>3, BooksFacts, BoundsAre
  <2>5. SameBut(n, w, a)
    <3>1. \A r \in Regs \ {a} : Put(n.regs, a, x)[r] = n.regs[r]
      BY <2>4, PutIs
    <3>2. \A r \in Regs \ {a} : w.regs[r] = n.regs[r]
      BY <2>3, <3>1
    <3>3. QED
      BY <3>2 DEF SameBut
  <2>6. ASSUME NEW T, Sens(n, T) PROVE Leaves(n, T, w, rest, a, Value("list", <<T[src].items[i]>>))
    <3>1. Written(w, x, "view", <<n.regs[b]>>, i)
      BY <2>3 DEF s
    <3>2. QED
      BY <2>3, <2>5, <2>6, <3>1, ViewGives
  <2>7. QED
    BY <2>3, <2>6 DEF w
<1>3. QED
  BY <1>1, <1>2

-----------------------------------------------------------------------------
\* OP_AT and OP_MGET.
LEMMA ItemIs ==
  ASSUME NEW m, NEW rest, Books(m, rest, <<>>), NEW a \in Regs, NEW b \in Regs,
         m.regs[b] \in Cells, m.heap[m.regs[b]].kind # "free", NEW i \in DOMAIN Slice(m.heap, m.regs[b])
  PROVE  LET w == Copy(m, a, Slice(m.heap, m.regs[b])[i])
         IN  /\ Books(w, rest, <<>>)
             /\ \A T : Sens(m, T) => Leaves(m, T, w, rest, a, T[m.regs[b]].items[i])
<1> DEFINE p == m.regs[b]
           s == Slice(m.heap, p)
           w == Copy(m, a, s[i])
<1>1. s \in Seq(Refs) /\ i \in 1..Len(s) /\ s[i] \in Refs /\ Present(m.heap, s[i])
  <2>1. s \in Seq(Refs) /\ DOMAIN s = 1..Len(s) /\ \A k \in 1..Len(s) : Present(m.heap, s[k])
    <3> DEFINE hand == <<>>
    <3>1. Books(m, rest, hand) /\ p \in Cells
      OBVIOUS
    <3> HIDE DEF hand, p
    <3>2. QED
      BY <3>1, SliceIs
  <2>2. i \in DOMAIN s
    OBVIOUS
  <2> HIDE DEF s
  <2>3. QED
    BY <2>1, <2>2
<1> HIDE DEF s
<1>2. /\ Books(w, rest, <<>>)
      /\ \A T : Sens(m, T) => Effect(m, T, w, T, rest, Regs \ {a}) /\ w.regs[a] = s[i]
  <2> DEFINE v == s[i]
  <2>1. v \in Refs /\ Present(m.heap, v)
    BY <1>1
  <2> HIDE DEF v
  <2>2. CopyMade(m, Copy(m, a, v), rest, a, v)
    BY <2>1, CopyGives
  <2> HIDE DEF w
  <2>3. CopyMade(m, w, rest, a, s[i])
    BY <2>2 DEF v, w
  <2>4. QED
    BY <2>3 DEF CopyMade
<1> HIDE DEF w
<1>3. ASSUME NEW T, Sens(m, T) PROVE Leaves(m, T, w, rest, a, T[p].items[i])
  <2>1. T[p] = Value(Told(m.heap, p), Mapped(T, s))
    BY <1>3, RegisterMeans DEF s
  <2>2. T[p].items = Mapped(T, s)
    BY <2>1 DEF Value
  <2>3. T[p].items[i] = T[s[i]]
    BY <1>1, <2>2, MappedIs
  <2>4. QED
    BY <1>2, <1>3, <2>3 DEF Leaves
<1>4. QED
  BY <1>2, <1>3 DEF w, s

\* OP_MOVE and OP_LOADK.
LEMMA CopiedIs ==
  ASSUME NEW m, NEW rest, Books(m, rest, <<>>), NEW a \in Regs, NEW v \in Refs, Present(m.heap, v)
  PROVE  LET w == Copy(m, a, v)
         IN  /\ Books(w, rest, <<>>)
             /\ \A T : Sens(m, T) => Leaves(m, T, w, rest, a, T[v])
<1> DEFINE w == Copy(m, a, v)
<1>1. /\ Books(w, rest, <<>>)
      /\ \A T : Sens(m, T) => Effect(m, T, w, T, rest, Regs \ {a}) /\ w.regs[a] = v
  <2>1. CopyMade(m, w, rest, a, v)
    BY CopyGives
  <2> HIDE DEF w
  <2>2. QED
    BY <2>1 DEF CopyMade
<1> HIDE DEF w
<1>2. ASSUME NEW T, Sens(m, T) PROVE Leaves(m, T, w, rest, a, T[v])
  BY <1>1, <1>2 DEF Leaves
<1>3. QED
  BY <1>1, <1>2 DEF w

\* OP_LISTNEW of one register or none, and `mmap`.
LEMMA EmptyIs ==
  ASSUME NEW m, NEW rest, Books(m, rest, <<>>), FreeCells(m.heap) # {}, NEW a \in Regs,
         NEW kind \in {"list", "map"}
  PROVE  LET w == WriteNew(m, a, kind, <<>>, 0)
         IN  /\ Books(w, rest, <<>>)
             /\ \A T : Sens(m, T) => Leaves(m, T, w, rest, a, Value(kind, <<>>))
<1> DEFINE s == <<>>
           w == WriteNew(m, a, kind, s, 0)
<1>1. Sensible(m.heap, kind, s, 0) /\ kind # "view"
  BY BoundsAre DEF Sensible, Kinds
<1>2. ASSUME NEW T PROVE Mapped(T, s) = <<>>
  BY DEF Mapped
<1> HIDE DEF s
<1> HIDE DEF w
<1>3. Books(w, rest, <<>>) /\ \A T : Sens(m, T) => Leaves(m, T, w, rest, a, Value(kind, Mapped(T, s)))
  BY <1>1, NewIs DEF w
<1>4. QED
  BY <1>2, <1>3 DEF w, s

\* OP_LISTNEW of one register.
LEMMA OneItemIs ==
  ASSUME NEW m, NEW rest, Books(m, rest, <<>>), FreeCells(m.heap) # {}, NEW a \in Regs, NEW b \in Regs
  PROVE  LET w == WriteNew(m, a, "list", <<m.regs[b]>>, 0)
         IN  /\ Books(w, rest, <<>>)
             /\ \A T : Sens(m, T) => Leaves(m, T, w, rest, a, Value("list", <<T[m.regs[b]]>>))
<1> DEFINE e == m.regs[b]
           s == <<e>>
           w == WriteNew(m, a, "list", s, 0)
<1>1. e \in Refs /\ Present(m.heap, e)
  BY RegisterIsThere
<1> HIDE DEF e
<1>2. s \in Seq(Refs) /\ Len(s) = 1 /\ s[1] = e
  BY <1>1
<1>3. ASSUME NEW T PROVE Mapped(T, s) = <<T[e]>>
  BY DEF Mapped
<1> HIDE DEF s
<1>4. Sensible(m.heap, "list", s, 0)
  BY <1>1, <1>2, BoundsAre DEF Sensible, Kinds
<1> HIDE DEF w
<1>5. Books(w, rest, <<>>) /\ \A T : Sens(m, T) => Leaves(m, T, w, rest, a, Value("list", Mapped(T, s)))
  BY <1>4, NewIs DEF w
<1>6. QED
  BY <1>3, <1>5 DEF w, s, e

-----------------------------------------------------------------------------
(***************************************************************************)
(* The frames.                                                             *)
(***************************************************************************)
FrameFile == [regs : RegFile, dest : 0..2, own : BOOLEAN]

\* The registers of the frames I that refer to o.
Pointing(fs, I, o) == {s \in I \X Regs : fs[s[1]].regs[s[2]] = o}

\* What the frames I and the constants hold.
HeldBy(fs, I) == [o \in Cells |-> Cardinality(Pointing(fs, I, o)) + Pooled(o)]

\* The registers that refer to o are counted by a number.
LEMMA PointingFinite ==
  ASSUME NEW fs, NEW I, IsFiniteSet(I), NEW o
  PROVE  IsFiniteSet(Pointing(fs, I, o)) /\ Cardinality(Pointing(fs, I, o)) \in Nat
         /\ (Cardinality(Pointing(fs, I, o)) = 0 <=> Pointing(fs, I, o) = {})
<1>1. IsFiniteSet(I \X Regs)
  BY BoundsAre, FS_Product
<1>2. Pointing(fs, I, o) \in SUBSET (I \X Regs)
  BY DEF Pointing
<1>3. IsFiniteSet(Pointing(fs, I, o))
  BY <1>1, <1>2, FS_Subset
<1>4. QED
  BY <1>3, FS_CardinalityType, FS_EmptySet

\* What frames hold is a number for each object.
LEMMA HeldByIs ==
  ASSUME NEW fs, NEW I, IsFiniteSet(I)
  PROVE  HeldBy(fs, I) \in [Cells -> Nat] /\ \A o \in Cells : HeldBy(fs, I)[o] >= Pooled(o)
<1>1. \A o : Cardinality(Pointing(fs, I, o)) \in Nat /\ Pooled(o) \in Nat
  BY PointingFinite DEF Pooled
<1>2. QED
  BY <1>1 DEF HeldBy

\* Other frames are left alone.
LEMMA SameFrames ==
  ASSUME NEW fs, NEW gs, NEW I, \A i \in I : gs[i].regs = fs[i].regs
  PROVE  HeldBy(gs, I) = HeldBy(fs, I)
<1>1. ASSUME NEW o PROVE Pointing(gs, I, o) = Pointing(fs, I, o)
  BY DEF Pointing
<1>2. QED
  BY <1>1 DEF HeldBy

\* One frame apart.
LEMMA FrameApart ==
  ASSUME NEW fs, NEW I, IsFiniteSet(I), NEW n \in I, fs[n].regs \in RegFile
  PROVE  HeldBy(fs, I) = With(HeldBy(fs, I \ {n}), fs[n].regs)
<1> DEFINE regs == fs[n].regs
           J == I \ {n}
<1>1. ASSUME NEW o \in Cells
      PROVE  Cardinality(Pointing(fs, I, o)) = Cardinality(Pointing(fs, J, o)) + Occurs(regs, o)
  <2> DEFINE A == At(regs, o)
             B == {s \in {n} \X Regs : s[2] \in A}
             f == [r \in A |-> <<n, r>>]
  <2>1. A = {r \in Regs : regs[r] = o} /\ A \subseteq Regs
    BY DEF At, RegFile
  <2>2. Pointing(fs, I, o) = Pointing(fs, J, o) \cup B
    <3>1. ASSUME NEW s \in Pointing(fs, I, o) PROVE s \in Pointing(fs, J, o) \cup B
      <4>1. s \in I \X Regs /\ fs[s[1]].regs[s[2]] = o
        BY DEF Pointing
      <4>2. CASE s[1] = n
        <5>1. s[2] \in A /\ s \in {n} \X Regs
          BY <2>1, <4>1, <4>2
        <5>2. QED
          BY <5>1
      <4>3. CASE s[1] # n
        <5>1. s \in J \X Regs
          BY <4>1, <4>3
        <5>2. QED
          BY <4>1, <5>1 DEF Pointing
      <4>4. QED
        BY <4>2, <4>3
    <3>2. ASSUME NEW s \in Pointing(fs, J, o) PROVE s \in Pointing(fs, I, o)
      BY DEF Pointing
    <3>3. ASSUME NEW s \in B PROVE s \in Pointing(fs, I, o)
      <4>1. s \in I \X Regs /\ s[1] = n /\ s[2] \in A
        OBVIOUS
      <4>2. fs[s[1]].regs[s[2]] = o
        BY <2>1, <4>1
      <4>3. QED
        BY <4>1, <4>2 DEF Pointing
    <3> HIDE DEF B
    <3>4. QED
      BY <3>1, <3>2, <3>3
  <2>3. Pointing(fs, J, o) \cap B = {}
    BY DEF Pointing
  <2>4. IsFiniteSet(A)
    BY <2>1, BoundsAre, FS_Subset
  <2>5. f \in Bijection(A, B)
    <3>1. f \in [A -> B]
      BY <2>1
    <3>2. \A r, q \in A : f[r] = f[q] => r = q
      OBVIOUS
    <3>3. \A s \in B : \E r \in A : f[r] = s
      OBVIOUS
    <3> HIDE DEF A, B, f
    <3>4. QED
      BY <3>1, <3>2, <3>3 DEF Bijection, Injection, Surjection, IsInjective
  <2>6. IsFiniteSet(B) /\ Cardinality(B) = Cardinality(A)
    <3> HIDE DEF A, B, f
    <3> QED
      BY <2>4, <2>5, SameSize
  <2>7. IsFiniteSet(J)
    BY FS_Subset
  <2>8. IsFiniteSet(Pointing(fs, J, o)) /\ Cardinality(Pointing(fs, J, o)) \in Nat
    <3> HIDE DEF J
    <3> QED
      BY <2>7, PointingFinite
  <2>9. Cardinality(B) \in Nat /\ Cardinality(B) = Occurs(regs, o)
    BY <2>6, FS_CardinalityType, OccursIs
  <2> DEFINE P == Pointing(fs, J, o)
  <2> HIDE DEF B, P
  <2>10. Cardinality(P \cup B) = Cardinality(P) + Cardinality(B) - Cardinality(P \cap B)
    BY <2>6, <2>8, FS_Union DEF P
  <2>11. Cardinality(P \cap B) = 0
    BY <2>3, FS_EmptySet DEF P
  <2>12. QED
    BY <2>2, <2>8, <2>9, <2>10, <2>11 DEF P
<1>2. ASSUME NEW o \in Cells
      PROVE  HeldBy(fs, I)[o] = HeldBy(fs, J)[o] + Occurs(regs, o)
  <2>1. IsFiniteSet(J)
    BY FS_Subset
  <2>2. /\ Cardinality(Pointing(fs, I, o)) \in Nat /\ Cardinality(Pointing(fs, J, o)) \in Nat
        /\ Pooled(o) \in Nat
    <3> HIDE DEF J
    <3> QED
      BY <2>1, PointingFinite DEF Pooled
  <2>3. Occurs(regs, o) \in Nat
    BY BoundsAre, AtFinite DEF RegFile
  <2> HIDE DEF J, regs
  <2>4. QED
    BY <1>1, <2>2, <2>3 DEF HeldBy
<1> HIDE DEF J, regs
<1>3. HeldBy(fs, I) = [o \in Cells |-> HeldBy(fs, I)[o]]
  BY DEF HeldBy
<1>4. [o \in Cells |-> HeldBy(fs, I)[o]] = [o \in Cells |-> HeldBy(fs, J)[o] + Occurs(regs, o)]
  BY <1>2
<1>5. QED
  BY <1>3, <1>4 DEF With, J, regs

-----------------------------------------------------------------------------
(***************************************************************************)
(* The state: the books of all frames balance, and there are as many rows  *)
(* of values as frames.                                                    *)
(***************************************************************************)
FramesOk(fs) ==
  /\ fs \in Seq(FrameFile) /\ Len(fs) <= MaxDepth
  /\ \A i \in 2..Len(fs) : fs[i].dest \in Locals

Rows(fs, vs) ==
  \E W : /\ vs \in Seq(W) /\ Len(vs) = Len(fs)
         /\ \A x \in W : DOMAIN x = Locals

Sound(h, fs, vs) ==
  /\ FramesOk(fs) /\ Rows(fs, vs)
  /\ Ledger(h, {}, HeldBy(fs, 1..Len(fs)), <<>>)

\* The local that has been moved into the callee.
Away(fs, i, r) == i < Len(fs) /\ fs[i + 1].own /\ fs[i + 1].dest = r

\* The locals have the values that the program means.
Faithful(fs, vs, T) ==
  \A i \in 1..Len(fs) : \A r \in Locals : ~Away(fs, i, r) => T[fs[i].regs[r]] = vs[i][r]

Agree(h, fs, vs, T) ==
  /\ \E ord : Ordered(h, ord) /\ Meaning(h, T)
  /\ T[Pool] = TextValue
  /\ Faithful(fs, vs, T)

Below(fs) == HeldBy(fs, 1..(Len(fs) - 1))

-----------------------------------------------------------------------------
\* The last of some frames apart.
LEMMA UpTo ==
  ASSUME NEW fs \in Seq(FrameFile), NEW n \in 1..Len(fs)
  PROVE  /\ HeldBy(fs, 1..n) = With(HeldBy(fs, 1..(n - 1)), fs[n].regs)
         /\ HeldBy(fs, 1..(n - 1)) \in [Cells -> Nat]
         /\ fs[n] \in FrameFile /\ fs[n].regs \in RegFile
<1> DEFINE I == 1..n
<1>0. Len(fs) \in Nat /\ n \in Int /\ n - 1 \in Int /\ 1 <= n
  OBVIOUS
<1>1. n \in I /\ I \ {n} = 1..(n - 1) /\ IsFiniteSet(I) /\ IsFiniteSet(1..(n - 1))
  <2>1. n \in I /\ I \ {n} = 1..(n - 1)
    BY <1>0
  <2>2. IsFiniteSet(I) /\ IsFiniteSet(1..(n - 1))
    BY <1>0, FS_Interval
  <2>3. QED
    BY <2>1, <2>2
<1>2. fs[n] \in FrameFile /\ fs[n].regs \in RegFile
  <2>1. fs[n] \in FrameFile
    OBVIOUS
  <2>2. QED
    BY <2>1 DEF FrameFile
<1> HIDE DEF I
<1>3. HeldBy(fs, I) = With(HeldBy(fs, I \ {n}), fs[n].regs)
  BY <1>1, <1>2, FrameApart
<1>4. HeldBy(fs, 1..(n - 1)) \in [Cells -> Nat]
  BY <1>1, HeldByIs
<1>5. QED
  BY <1>1, <1>2, <1>3, <1>4 DEF I

\* The running frame is the last one.
LEMMA TopIs ==
  ASSUME NEW W, NEW s \in Seq(W), s # <<>>
  PROVE  Last(s) = s[Len(s)] /\ Len(s) \in Nat /\ Len(s) >= 1 /\ s[Len(s)] \in W
BY DEF Last

\* The books of the running frame.
LEMMA TopBooks ==
  ASSUME Sound(heap, frames, vals), Running
  PROVE  /\ frames \in Seq(FrameFile) /\ Len(frames) \in Nat /\ Len(frames) >= 1
         /\ Top = frames[Len(frames)] /\ Top \in FrameFile
         /\ Below(frames) \in [Cells -> Nat]
         /\ HeldBy(frames, 1..Len(frames)) = With(Below(frames), Top.regs)
         /\ Machine.heap = heap /\ Machine.regs = Top.regs
         /\ Books(Machine, Below(frames), <<>>)
<1> DEFINE n == Len(frames)
<1>1. frames \in Seq(FrameFile) /\ frames # <<>>
  BY DEF Sound, FramesOk, Running
<1>2. Top = frames[n] /\ n \in Nat /\ n >= 1 /\ frames[n] \in FrameFile
  BY <1>1, TopIs DEF Top
<1>3. n \in 1..Len(frames)
  BY <1>2
<1>4. /\ HeldBy(frames, 1..n) = With(HeldBy(frames, 1..(n - 1)), frames[n].regs)
      /\ HeldBy(frames, 1..(n - 1)) \in [Cells -> Nat] /\ frames[n].regs \in RegFile
  BY <1>1, <1>3, UpTo
<1>5. Ledger(heap, {}, HeldBy(frames, 1..n), <<>>)
  BY DEF Sound
<1> DEFINE R == HeldBy(frames, 1..(n - 1))
           regs == Top.regs
<1>6. R \in [Cells -> Nat] /\ regs \in RegFile /\ Ledger(heap, {}, With(R, regs), <<>>)
  BY <1>2, <1>4, <1>5
<1> HIDE DEF R, regs
<1>7. Books([heap |-> heap, regs |-> regs], R, <<>>)
  BY <1>6, BooksOf
<1>8. QED
  BY <1>1, <1>2, <1>4, <1>7 DEF Below, R, regs, Machine

-----------------------------------------------------------------------------
\* The registers of the last frame are replaced.
TopSet(fs, gs, regs) ==
  /\ gs \in Seq(FrameFile) /\ Len(gs) = Len(fs)
  /\ \A i \in 1..(Len(fs) - 1) : gs[i] = fs[i]
  /\ gs[Len(fs)].regs = regs /\ gs[Len(fs)].dest = fs[Len(fs)].dest /\ gs[Len(fs)].own = fs[Len(fs)].own

\* The registers of the last frame are set.
LEMMA TopSetIs ==
  ASSUME NEW fs \in Seq(FrameFile), Len(fs) >= 1, NEW regs \in RegFile
  PROVE  TopSet(fs, [fs EXCEPT ![Len(fs)].regs = regs], regs)
<1> DEFINE n == Len(fs)
           f == [fs[n] EXCEPT !.regs = regs]
           gs == [fs EXCEPT ![n] = f]
<1>1. n \in 1..Len(fs) /\ fs[n] \in FrameFile
  OBVIOUS
<1>2. f \in FrameFile /\ f.regs = regs /\ f.dest = fs[n].dest /\ f.own = fs[n].own
  BY <1>1 DEF FrameFile
<1>3. [fs EXCEPT ![n].regs = regs] = gs
  OBVIOUS
<1> HIDE DEF f
<1>4. gs \in Seq(FrameFile) /\ Len(gs) = n /\ gs[n] = f /\ \A i \in 1..(n - 1) : gs[i] = fs[i]
  BY <1>1, <1>2
<1> HIDE DEF gs
<1>5. QED
  BY <1>2, <1>3, <1>4 DEF TopSet

\* Local a of the last row gets the value v.
RowSet(vs, us, a, v) ==
  /\ Len(us) = Len(vs)
  /\ \A i \in 1..(Len(vs) - 1) : us[i] = vs[i]
  /\ us[Len(vs)][a] = v
  /\ \A r \in Locals \ {a} : us[Len(vs)][r] = vs[Len(vs)][r]

\* A local of the last row is set.
LEMMA RowSetIs ==
  ASSUME NEW fs, NEW vs, Rows(fs, vs), Len(vs) >= 1, NEW a \in Locals, NEW v
  PROVE  LET us == [vs EXCEPT ![Len(vs)][a] = v]
         IN  Rows(fs, us) /\ RowSet(vs, us, a, v)
<1>1. PICK W : vs \in Seq(W) /\ Len(vs) = Len(fs) /\ \A x \in W : DOMAIN x = Locals
  BY DEF Rows
<1> DEFINE n == Len(vs)
           y == [vs[n] EXCEPT ![a] = v]
           us == [vs EXCEPT ![n] = y]
           U == W \cup {y}
<1>2. n \in 1..Len(vs) /\ vs[n] \in W /\ DOMAIN vs[n] = Locals
  BY <1>1
<1>3. DOMAIN y = Locals /\ y[a] = v /\ \A r \in Locals \ {a} : y[r] = vs[n][r]
  BY <1>2
<1>4. [vs EXCEPT ![Len(vs)][a] = v] = us
  OBVIOUS
<1> HIDE DEF y
<1>5. us \in Seq(U) /\ Len(us) = n /\ us[n] = y /\ \A i \in 1..(n - 1) : us[i] = vs[i]
  BY <1>1, <1>2
<1>6. \A x \in U : DOMAIN x = Locals
  BY <1>1, <1>3
<1> HIDE DEF us, U
<1>7. Rows(fs, us)
  BY <1>1, <1>5, <1>6 DEF Rows
<1>8. RowSet(vs, us, a, v)
  BY <1>3, <1>5 DEF RowSet
<1>9. QED
  BY <1>4, <1>7, <1>8

\* As many rows for as many frames.
LEMMA RowsOf == ASSUME NEW fs, NEW gs, NEW vs, Rows(fs, vs), Len(gs) = Len(fs) PROVE Rows(gs, vs)
BY DEF Rows

\* The books of the last frame make the books of all.
LEMMA TopSetSound ==
  ASSUME NEW fs \in Seq(FrameFile), FramesOk(fs), Len(fs) >= 1, NEW gs, NEW w, TopSet(fs, gs, w.regs),
         Books(w, Below(fs), <<>>)
  PROVE  FramesOk(gs) /\ Ledger(w.heap, {}, HeldBy(gs, 1..Len(gs)), <<>>)
<1> DEFINE n == Len(fs)
<1>1. /\ gs \in Seq(FrameFile) /\ Len(gs) = n /\ n \in 1..Len(gs) /\ gs[n].regs = w.regs
      /\ \A i \in 1..(n - 1) : gs[i] = fs[i]
      /\ gs[n].dest = fs[n].dest
  BY DEF TopSet
<1>2. HeldBy(gs, 1..n) = With(HeldBy(gs, 1..(n - 1)), w.regs)
  BY <1>1, UpTo
<1>3. HeldBy(gs, 1..(n - 1)) = HeldBy(fs, 1..(n - 1))
  <2>1. \A i \in 1..(n - 1) : gs[i].regs = fs[i].regs
    BY <1>1
  <2>2. QED
    BY <2>1, SameFrames
<1>4. Ledger(w.heap, {}, With(Below(fs), w.regs), <<>>)
  BY BooksFacts
<1>5. FramesOk(gs)
  BY <1>1 DEF FramesOk
<1>6. QED
  BY <1>1, <1>2, <1>3, <1>4, <1>5 DEF Below

-----------------------------------------------------------------------------
\* What a frame's register refers to is held.
LEMMA BelowHolds ==
  ASSUME NEW fs, NEW I, IsFiniteSet(I), NEW i \in I, NEW r \in Regs, fs[i].regs[r] \in Cells
  PROVE  HeldBy(fs, I)[fs[i].regs[r]] > 0
<1> DEFINE p == fs[i].regs[r]
<1>1. <<i, r>> \in Pointing(fs, I, p)
  BY DEF Pointing
<1>2. Cardinality(Pointing(fs, I, p)) \in Nat /\ Cardinality(Pointing(fs, I, p)) # 0
  BY <1>1, PointingFinite
<1>3. Pooled(p) \in Nat
  BY DEF Pooled
<1>4. QED
  BY <1>2, <1>3 DEF HeldBy

\* The constant is held.
LEMMA PoolHeld ==
  ASSUME NEW fs, NEW I, IsFiniteSet(I)
  PROVE  Pool \in Cells /\ HeldBy(fs, I)[Pool] > 0
<1>1. Pool \in Cells /\ Pooled(Pool) = 1
  BY BoundsAre DEF Pool, Cells, Pooled
<1>2. QED
  BY <1>1, HeldByIs

\* The values of the frames below are kept.
LEMMA BelowKept ==
  ASSUME NEW fs \in Seq(FrameFile), NEW n \in 1..Len(fs), NEW T, NEW S, S[Nil] = T[Nil],
         \A o \in Cells : HeldBy(fs, 1..(n - 1))[o] > 0 => S[o] = T[o]
  PROVE  /\ S[Pool] = T[Pool]
         /\ \A i \in 1..(n - 1) : \A r \in Regs : S[fs[i].regs[r]] = T[fs[i].regs[r]]
<1>1. n - 1 \in Int /\ IsFiniteSet(1..(n - 1))
  BY FS_Interval
<1>2. S[Pool] = T[Pool]
  BY <1>1, PoolHeld
<1>3. ASSUME NEW i \in 1..(n - 1), NEW r \in Regs PROVE S[fs[i].regs[r]] = T[fs[i].regs[r]]
  <2> DEFINE p == fs[i].regs[r]
             I == 1..(n - 1)
  <2>1. fs[i] \in FrameFile
    OBVIOUS
  <2>2. p \in Refs
    BY <2>1 DEF FrameFile, RegFile
  <2>3. CASE p = Nil
    BY <2>3
  <2>4. CASE p \in Cells
    <3> HIDE DEF I
    <3>1. HeldBy(fs, I)[p] > 0
      BY <1>1, <2>4, BelowHolds DEF I
    <3>2. QED
      BY <2>4, <3>1 DEF I
  <2>5. QED
    BY <2>2, <2>3, <2>4 DEF Refs, Cells, Nil
<1>4. QED
  BY <1>2, <1>3

\* The locals are registers.
LEMMA LocalsAreRegs == Locals \subseteq Regs /\ \A r \in Locals : r \in Int
BY DEF Locals, Regs

-----------------------------------------------------------------------------
\* An instruction whose machine balances and whose register has the value it
\* means keeps the state sound and faithful.
LEMMA DoneSound ==
  ASSUME Sound(heap, frames, vals), Running, NEW a \in Locals, NEW w, NEW v,
         Books(w, Below(frames), <<>>), Done(w, a, v)
  PROVE  /\ Sound(heap', frames', vals') /\ calls' = calls
         /\ heap' = w.heap /\ TopSet(frames, frames', w.regs) /\ RowSet(vals, vals', a, v)
<1>1. /\ frames \in Seq(FrameFile) /\ Len(frames) \in Nat /\ Len(frames) >= 1
  BY TopBooks
<1>2. w.regs \in RegFile
  BY BooksFacts
<1>3. heap' = w.heap /\ calls' = calls /\ TopSet(frames, frames', w.regs)
  BY <1>1, <1>2, TopSetIs DEF Done
<1>4. FramesOk(frames) /\ Rows(frames, vals) /\ Len(vals) = Len(frames)
  BY DEF Sound, Rows
<1>5. Rows(frames, vals') /\ RowSet(vals, vals', a, v)
  <2>1. vals' = [vals EXCEPT ![Len(vals)][a] = v]
    BY DEF Done
  <2>2. QED
    BY <1>1, <1>4, <2>1, RowSetIs
<1>6. FramesOk(frames') /\ Ledger(w.heap, {}, HeldBy(frames', 1..Len(frames')), <<>>)
  BY <1>1, <1>3, <1>4, TopSetSound
<1>7. Rows(frames', vals')
  BY <1>3, <1>5, RowsOf DEF TopSet
<1>8. QED
  BY <1>3, <1>5, <1>6, <1>7 DEF Sound

\* The values agree after the instruction if they did before it.
LEMMA DoneAgrees ==
  ASSUME Sound(heap, frames, vals), Running, NEW a \in Locals, NEW w, NEW v,
         Books(w, Below(frames), <<>>), Done(w, a, v),
         NEW T, Agree(heap, frames, vals, T), Leaves(Machine, T, w, Below(frames), a, v)
  PROVE  \E S : Agree(heap', frames', vals', S)
<1> DEFINE n == Len(frames)
<1>1. PICK S : Effect(Machine, T, w, S, Below(frames), Regs \ {a}) /\ S[w.regs[a]] = v
  BY DEF Leaves
<1>2. heap' = w.heap /\ TopSet(frames, frames', w.regs) /\ RowSet(vals, vals', a, v)
  BY DoneSound
<1>3. frames \in Seq(FrameFile) /\ n \in 1..Len(frames) /\ Machine.regs = frames[n].regs
  BY TopBooks
<1>4. Len(vals) = n
  BY DEF Sound, Rows
<1>5. /\ S[Pool] = T[Pool]
      /\ \A i \in 1..(n - 1) : \A r \in Regs : S[frames[i].regs[r]] = T[frames[i].regs[r]]
  <2>1. S[Nil] = T[Nil] /\ \A o \in Cells : HeldBy(frames, 1..(n - 1))[o] > 0 => S[o] = T[o]
    BY <1>1 DEF Effect, Below
  <2>2. QED
    BY <1>3, <2>1, BelowKept
<1>6. ASSUME NEW i \in 1..n, NEW r \in Locals, ~Away(frames', i, r)
      PROVE  S[frames'[i].regs[r]] = vals'[i][r]
  <2>1. r \in Regs /\ i \in Nat /\ n \in Nat
    BY <1>3, LocalsAreRegs
  <2>2. CASE i < n
    <3>1. i \in 1..(n - 1) /\ i + 1 \in 1..n /\ (i + 1 < n => i + 1 \in 1..(n - 1))
      BY <2>1, <2>2
    <3>2. frames'[i] = frames[i] /\ vals'[i] = vals[i] /\ Len(frames') = n
      BY <1>2, <1>4, <3>1 DEF TopSet, RowSet
    <3>3. frames'[i + 1].own = frames[i + 1].own /\ frames'[i + 1].dest = frames[i + 1].dest
      BY <1>2, <2>1, <3>1 DEF TopSet
    <3>4. ~Away(frames, i, r)
      BY <1>6, <2>2, <3>2, <3>3 DEF Away
    <3>5. T[frames[i].regs[r]] = vals[i][r]
      BY <3>4 DEF Agree, Faithful
    <3>6. QED
      BY <1>5, <2>1, <3>1, <3>2, <3>5
  <2>3. CASE i = n
    <3>1. frames'[n].regs = w.regs
      BY <1>2 DEF TopSet
    <3>2. CASE r = a
      BY <1>1, <1>2, <1>4, <2>3, <3>1, <3>2 DEF RowSet
    <3>3. CASE r # a
      <4>1. S[w.regs[r]] = T[frames[n].regs[r]]
        BY <1>1, <1>3, <2>1, <3>3 DEF Effect
      <4>2. ~Away(frames, n, r)
        BY DEF Away
      <4>3. T[frames[n].regs[r]] = vals[n][r]
        BY <1>3, <4>2 DEF Agree, Faithful
      <4>4. vals'[n][r] = vals[n][r]
        BY <1>2, <1>4, <3>3 DEF RowSet
      <4>5. QED
        BY <2>3, <3>1, <4>1, <4>3, <4>4
    <3>4. QED
      BY <3>2, <3>3
  <2>4. QED
    BY <2>1, <2>2, <2>3
<1>7. Faithful(frames', vals', S)
  BY <1>2, <1>6 DEF Faithful, TopSet
<1>8. \E ord : Ordered(heap', ord) /\ Meaning(heap', S)
  BY <1>1, <1>2 DEF Effect, Sens
<1>9. S[Pool] = TextValue
  BY <1>5 DEF Agree
<1>10. QED
  BY <1>7, <1>8, <1>9 DEF Agree

\* Both at once.
Keeps == Sound(heap', frames', vals')

Agrees(P) ==
  \A T : Agree(heap, frames, vals, T) /\ P => \E S : Agree(heap', frames', vals', S)

\* An instruction whose machine balances and has the value it means.
LEMMA DoneKeeps ==
  ASSUME Sound(heap, frames, vals), Running, NEW a \in Locals, NEW w, NEW v, NEW P,
         Books(w, Below(frames), <<>>), Done(w, a, v),
         \A T : Agree(heap, frames, vals, T) /\ P => Leaves(Machine, T, w, Below(frames), a, v)
  PROVE  Keeps /\ calls' = calls /\ Agrees(P)
BY DoneSound, DoneAgrees DEF Keeps, Agrees

\* What a local means.
LEMMA LocalIs ==
  ASSUME Sound(heap, frames, vals), Running, NEW T, Agree(heap, frames, vals, T), NEW b \in Locals
  PROVE  T[Machine.regs[b]] = V(b) /\ b \in Regs /\ Sens(Machine, T)
<1> DEFINE n == Len(frames)
<1>1. frames \in Seq(FrameFile) /\ n \in 1..Len(frames) /\ Machine.regs = frames[n].regs /\ Machine.heap = heap
  BY TopBooks
<1>2. PICK W : vals \in Seq(W) /\ Len(vals) = n
  BY DEF Sound, Rows
<1>3. Last(vals) = vals[n]
  <2>1. vals # <<>>
    BY <1>1, <1>2
  <2>2. QED
    BY <1>2, <2>1, TopIs
<1>4. ~Away(frames, n, b)
  BY DEF Away
<1>5. T[frames[n].regs[b]] = vals[n][b]
  BY <1>1, <1>4 DEF Agree, Faithful
<1>6. b \in Regs
  BY LocalsAreRegs
<1>7. QED
  BY <1>1, <1>3, <1>5, <1>6 DEF V, Agree, Sens

-----------------------------------------------------------------------------
\* An operand that the guard of an instruction has looked at.
LEMMA Operand ==
  ASSUME Sound(heap, frames, vals), Running, NEW b \in Locals, NEW K, IsObject(Top.regs[b], K)
  PROVE  /\ Machine.regs[b] \in Cells /\ Machine.heap[Machine.regs[b]].kind \in K
         /\ Machine.heap[Machine.regs[b]].kind # "free"
         /\ Items(b) = Slice(Machine.heap, Machine.regs[b]) /\ b \in Regs
<1>1. /\ Books(Machine, Below(frames), <<>>) /\ Machine.heap = heap /\ Machine.regs = Top.regs
  BY TopBooks
<1>2. b \in Regs
  BY LocalsAreRegs
<1>3. Machine.regs[b] \in Refs /\ Present(Machine.heap, Machine.regs[b])
  BY <1>1, <1>2, RegisterIsThere
<1>4. Top.regs[b] > 0 /\ heap[Top.regs[b]].kind \in K
  BY DEF IsObject, IsRef
<1>5. QED
  BY <1>1, <1>2, <1>3, <1>4 DEF Present, Items, Nil

\* There is room for a new object and for the lists of views.
LEMMA RoomIs ==
  ASSUME Sound(heap, frames, vals), Running, NEW k \in Nat, Room(1 + k)
  PROVE  Cardinality(FreeCells(Machine.heap)) >= 1 + k /\ FreeCells(Machine.heap) # {}
<1>1. Machine.heap = heap /\ Machine.heap \in Heaps
  BY TopBooks, BooksFacts
<1>2. QED
  BY <1>1, FreeCellsAre DEF Room

\* There is room for a new object.
LEMMA RoomForOne ==
  ASSUME Sound(heap, frames, vals), Running, Room(1)
  PROVE  FreeCells(Machine.heap) # {}
BY RoomIs

\* OP_LOADK.
LEMMA LoadKKeeps ==
  ASSUME Sound(heap, frames, vals), Running, NEW a \in Locals, LoadK(a)
  PROVE  Keeps /\ calls' = calls /\ Agrees(TRUE)
<1>1. Books(Machine, Below(frames), <<>>) /\ a \in Regs
  BY TopBooks, LocalsAreRegs
<1>2. CASE Done(Copy(Machine, a, Pool), a, TextValue)
  <2> DEFINE w == Copy(Machine, a, Pool)
  <2>1. Pool \in Refs /\ Present(Machine.heap, Pool)
    <3>1. Pool \in Cells /\ Pool \in Refs
      BY BoundsAre DEF Pool, Cells, Refs
    <3>2. Machine.heap = heap /\ HeldBy(frames, 1..Len(frames)) \in [Cells -> Nat]
          /\ Ledger(heap, {}, HeldBy(frames, 1..Len(frames)), <<>>)
      BY TopBooks DEF Sound, Ledger
    <3>3. HeldBy(frames, 1..Len(frames))[Pool] > 0
      <4>1. IsFiniteSet(1..Len(frames))
        <5>1. Len(frames) \in Int /\ 1 \in Int
          BY TopBooks
        <5>2. QED
          BY <5>1, FS_Interval
      <4>2. QED
        BY <4>1, PoolHeld
    <3>4. heap[Pool].kind # "free"
      BY <3>1, <3>2, <3>3, HeldIsThere
    <3>5. QED
      BY <3>1, <3>2, <3>4 DEF Present
  <2>2. /\ Books(w, Below(frames), <<>>)
        /\ \A T : Sens(Machine, T) => Leaves(Machine, T, w, Below(frames), a, T[Pool])
    BY <1>1, <2>1, CopiedIs
  <2> HIDE DEF w
  <2>3. ASSUME NEW T, Agree(heap, frames, vals, T) PROVE Leaves(Machine, T, w, Below(frames), a, TextValue)
    <3>1. Sens(Machine, T)
      BY <2>3, LocalIs
    <3>2. T[Pool] = TextValue
      BY <2>3 DEF Agree
    <3>3. QED
      BY <2>2, <3>1, <3>2
  <2>4. Done(w, a, TextValue)
    BY <1>2 DEF w
  <2>5. QED
    BY <2>2, <2>3, <2>4, DoneKeeps
<1>3. CASE Done(Copy(Machine, a, Nil), a, NilValue)
  <2> DEFINE w == Copy(Machine, a, Nil)
  <2>1. Nil \in Refs /\ Present(Machine.heap, Nil)
    BY BoundsAre DEF Present
  <2>2. /\ Books(w, Below(frames), <<>>)
        /\ \A T : Sens(Machine, T) => Leaves(Machine, T, w, Below(frames), a, T[Nil])
    BY <1>1, <2>1, CopiedIs
  <2> HIDE DEF w
  <2>3. ASSUME NEW T, Agree(heap, frames, vals, T) PROVE Leaves(Machine, T, w, Below(frames), a, NilValue)
    <3>1. Sens(Machine, T)
      BY <2>3, LocalIs
    <3>2. T[Nil] = NilValue
      BY <3>1 DEF Sens, Meaning
    <3>3. QED
      BY <2>2, <3>1, <3>2
  <2>4. Done(w, a, NilValue)
    BY <1>3 DEF w
  <2>5. QED
    BY <2>2, <2>3, <2>4, DoneKeeps
<1>4. QED
  BY <1>2, <1>3 DEF LoadK

\* OP_MOVE.
LEMMA MoveKeeps ==
  ASSUME Sound(heap, frames, vals), Running, NEW a \in Locals, NEW b \in Locals, Move(a, b)
  PROVE  Keeps /\ calls' = calls /\ Agrees(TRUE)
<1> DEFINE v == Machine.regs[b]
           w == Copy(Machine, a, v)
<1>1. Books(Machine, Below(frames), <<>>) /\ a \in Regs /\ b \in Regs /\ Machine.regs = Top.regs
  BY TopBooks, LocalsAreRegs
<1>2. v \in Refs /\ Present(Machine.heap, v)
  BY <1>1, RegisterIsThere
<1>3. Done(w, a, V(b))
  BY <1>1 DEF Move
<1>4. /\ Books(w, Below(frames), <<>>)
      /\ \A T : Sens(Machine, T) => Leaves(Machine, T, w, Below(frames), a, T[v])
  <2> HIDE DEF v
  <2> QED
    BY <1>1, <1>2, CopiedIs
<1> HIDE DEF w
<1>5. ASSUME NEW T, Agree(heap, frames, vals, T) PROVE Leaves(Machine, T, w, Below(frames), a, V(b))
  BY <1>4, <1>5, LocalIs
<1>6. QED
  BY <1>3, <1>4, <1>5, DoneKeeps

\* OP_LISTNEW.
LEMMA ListNewKeeps ==
  ASSUME Sound(heap, frames, vals), Running, NEW a \in Locals, ListNew(a)
  PROVE  Keeps /\ calls' = calls /\ Agrees(TRUE)
<1>1. Books(Machine, Below(frames), <<>>) /\ a \in Regs /\ Machine.regs = Top.regs /\ Top.regs \in RegFile
  BY TopBooks, LocalsAreRegs DEF FrameFile
<1>2. FreeCells(Machine.heap) # {}
  BY RoomForOne DEF ListNew
<1>3. PICK n \in {0, 1} :
        /\ a + n \in Locals
        /\ Done(WriteNew(Machine, a, "list", SubSeq(Top.regs, a + 1, a + n), 0),
                a, Value("list", [i \in 1..n |-> V(a + 1)]))
  BY DEF ListNew
<1>4. a \in Int
  BY LocalsAreRegs
<1>5. CASE n = 0
  <2> DEFINE w == WriteNew(Machine, a, "list", <<>>, 0)
  <2>1. SubSeq(Top.regs, a + 1, a + n) = <<>>
    BY <1>1, <1>4, <1>5
  <2>2. [i \in 1..n |-> V(a + 1)] = <<>>
    BY <1>5
  <2>3. Done(w, a, Value("list", <<>>))
    BY <1>3, <2>1, <2>2
  <2>4. /\ Books(w, Below(frames), <<>>)
        /\ \A T : Sens(Machine, T) => Leaves(Machine, T, w, Below(frames), a, Value("list", <<>>))
    BY <1>1, <1>2, EmptyIs
  <2> HIDE DEF w
  <2>5. ASSUME NEW T, Agree(heap, frames, vals, T)
        PROVE  Leaves(Machine, T, w, Below(frames), a, Value("list", <<>>))
    BY <2>4, <2>5, LocalIs
  <2>6. QED
    BY <2>3, <2>4, <2>5, DoneKeeps
<1>6. CASE n = 1
  <2> DEFINE b == a + 1
             s == <<Machine.regs[b]>>
             w == WriteNew(Machine, a, "list", s, 0)
  <2>1. b \in Locals /\ b \in Regs
    BY <1>3, <1>6, LocalsAreRegs
  <2>2. SubSeq(Top.regs, a + 1, a + n) = s
    <3>1. SubSeq(Top.regs, a + 1, a + n) = [i \in 1..1 |-> Top.regs[i + a]]
      BY <1>1, <1>4, <1>6, <2>1 DEF RegFile, Regs
    <3>2. [i \in 1..1 |-> Top.regs[i + a]] = s
      BY <1>1, <1>4
    <3>3. QED
      BY <3>1, <3>2
  <2>3. [i \in 1..n |-> V(a + 1)] = <<V(b)>>
    BY <1>6
  <2> HIDE DEF b, s
  <2>4. Done(w, a, Value("list", <<V(b)>>))
    BY <1>3, <2>2, <2>3
  <2>5. /\ Books(w, Below(frames), <<>>)
        /\ \A T : Sens(Machine, T) => Leaves(Machine, T, w, Below(frames), a, Value("list", <<T[Machine.regs[b]]>>))
    BY <1>1, <1>2, <2>1, OneItemIs DEF s
  <2> HIDE DEF w
  <2>6. ASSUME NEW T, Agree(heap, frames, vals, T)
        PROVE  Leaves(Machine, T, w, Below(frames), a, Value("list", <<V(b)>>))
    <3>1. T[Machine.regs[b]] = V(b) /\ Sens(Machine, T)
      BY <2>1, <2>6, LocalIs
    <3>2. QED
      BY <2>5, <3>1
  <2>7. QED
    BY <2>4, <2>5, <2>6, DoneKeeps
<1>7. QED
  BY <1>5, <1>6

\* `mmap`.
LEMMA MapNewKeeps ==
  ASSUME Sound(heap, frames, vals), Running, NEW a \in Locals, MapNew(a)
  PROVE  Keeps /\ calls' = calls /\ Agrees(TRUE)
<1> DEFINE w == WriteNew(Machine, a, "map", <<>>, 0)
<1>1. Books(Machine, Below(frames), <<>>) /\ a \in Regs
  BY TopBooks, LocalsAreRegs
<1>2. FreeCells(Machine.heap) # {} /\ Done(w, a, Value("map", <<>>))
  BY RoomForOne DEF MapNew
<1>3. /\ Books(w, Below(frames), <<>>)
      /\ \A T : Sens(Machine, T) => Leaves(Machine, T, w, Below(frames), a, Value("map", <<>>))
  BY <1>1, <1>2, EmptyIs
<1> HIDE DEF w
<1>4. ASSUME NEW T, Agree(heap, frames, vals, T)
      PROVE  Leaves(Machine, T, w, Below(frames), a, Value("map", <<>>))
  BY <1>3, <1>4, LocalIs
<1>5. QED
  BY <1>2, <1>3, <1>4, DoneKeeps

\* OP_AT and OP_MGET.
LEMMA ItemKeeps ==
  ASSUME Sound(heap, frames, vals), Running, NEW a \in Locals, NEW b \in Locals, Item(a, b)
  PROVE  Keeps /\ calls' = calls /\ Agrees(TRUE)
<1>1. Books(Machine, Below(frames), <<>>) /\ a \in Regs
  BY TopBooks, LocalsAreRegs
<1>2. /\ Machine.regs[b] \in Cells /\ Machine.heap[Machine.regs[b]].kind # "free"
      /\ Items(b) = Slice(Machine.heap, Machine.regs[b]) /\ b \in Regs
  <2>1. IsObject(Top.regs[b], {"list", "view", "map"})
    BY DEF Item
  <2>2. QED
    BY <2>1, Operand
<1>3. PICK i \in DOMAIN Items(b) : Done(Copy(Machine, a, Items(b)[i]), a, V(b).items[i])
  BY DEF Item
<1> DEFINE w == Copy(Machine, a, Slice(Machine.heap, Machine.regs[b])[i])
<1>4. i \in DOMAIN Slice(Machine.heap, Machine.regs[b]) /\ Done(w, a, V(b).items[i])
  BY <1>2, <1>3
<1>5. /\ Books(w, Below(frames), <<>>)
      /\ \A T : Sens(Machine, T) => Leaves(Machine, T, w, Below(frames), a, T[Machine.regs[b]].items[i])
  BY <1>1, <1>2, <1>4, ItemIs
<1> HIDE DEF w
<1>6. ASSUME NEW T, Agree(heap, frames, vals, T)
      PROVE  Leaves(Machine, T, w, Below(frames), a, V(b).items[i])
  <2>1. T[Machine.regs[b]] = V(b) /\ Sens(Machine, T)
    BY <1>6, LocalIs
  <2>2. QED
    BY <1>5, <2>1
<1>7. QED
  BY <1>4, <1>5, <1>6, DoneKeeps

\* OP_ADD_SS.
LEMMA TextAddKeeps ==
  ASSUME Sound(heap, frames, vals), Running, NEW a \in Locals, NEW b \in Locals, NEW c \in Locals, TextAdd(a, b, c)
  PROVE  Keeps /\ calls' = calls /\ Agrees(TRUE)
<1> DEFINE w == Joined(Machine, a, b, c)
           p == Machine.regs[b]
           q == Machine.regs[c]
<1>1. Books(Machine, Below(frames), <<>>) /\ a \in Regs /\ Machine.regs = Top.regs
  BY TopBooks, LocalsAreRegs
<1>2. /\ p \in Cells /\ Machine.heap[p].kind = "text" /\ Items(b) = Slice(Machine.heap, p) /\ b \in Regs
      /\ q \in Cells /\ Machine.heap[q].kind = "text" /\ Items(c) = Slice(Machine.heap, q) /\ c \in Regs
  <2>1. IsObject(Top.regs[b], {"text"}) /\ IsObject(Top.regs[c], {"text"})
    BY DEF TextAdd
  <2> DEFINE K == {"text"}
  <2>2. \A k \in K : k = "text"
    OBVIOUS
  <2> HIDE DEF K
  <2>3. Machine.heap[p].kind \in K /\ Machine.heap[q].kind \in K
    BY <2>1, Operand DEF K
  <2>4. QED
    BY <2>1, <2>2, <2>3, Operand
<1>3. /\ Len(Slice(Machine.heap, p)) + Len(Slice(Machine.heap, q)) <= MaxLen
      /\ FreeCells(Machine.heap) # {}
  BY <1>2, RoomForOne DEF TextAdd
<1>4. Done(w, a, Value("text", V(b).items \o V(c).items))
  BY <1>1, <1>2 DEF TextAdd, Joined
<1>5. /\ Books(w, Below(frames), <<>>)
      /\ \A T : Sens(Machine, T) =>
           Leaves(Machine, T, w, Below(frames), a, Value("text", T[Machine.regs[b]].items \o T[Machine.regs[c]].items))
  BY <1>1, <1>2, <1>3, JoinedIs
<1> HIDE DEF w
<1>6. ASSUME NEW T, Agree(heap, frames, vals, T)
      PROVE  Leaves(Machine, T, w, Below(frames), a, Value("text", V(b).items \o V(c).items))
  <2>1. T[Machine.regs[b]] = V(b) /\ T[Machine.regs[c]] = V(c) /\ Sens(Machine, T)
    BY <1>6, LocalIs
  <2>2. QED
    BY <1>5, <2>1
<1>7. QED
  BY <1>4, <1>5, <1>6, DoneKeeps

\* OP_REV.
LEMMA ListReverseKeeps ==
  ASSUME Sound(heap, frames, vals), Running, NEW a \in Locals, NEW b \in Locals, ListReverse(a, b)
  PROVE  Keeps /\ calls' = calls /\ Agrees(TRUE)
<1> DEFINE w == Reversed(Machine, a, b)
           p == Machine.regs[b]
<1>1. Books(Machine, Below(frames), <<>>) /\ a \in Regs /\ Machine.regs = Top.regs
  BY TopBooks, LocalsAreRegs
<1>2. /\ p \in Cells /\ Machine.heap[p].kind \in {"list", "view"} /\ Items(b) = Slice(Machine.heap, p) /\ b \in Regs
  <2>1. IsObject(Top.regs[b], {"list", "view"})
    BY DEF ListReverse
  <2> DEFINE K == {"list", "view"}
  <2> HIDE DEF K
  <2>2. Machine.heap[p].kind \in K
    BY <2>1, Operand DEF K
  <2>3. QED
    BY <2>1, <2>2, Operand DEF K
<1>3. FreeCells(Machine.heap) # {}
  BY RoomForOne DEF ListReverse
<1>4. Done(w, a, Value("list", Reverse(V(b).items)))
  BY <1>1, <1>2 DEF ListReverse, Reversed
<1>5. /\ Books(w, Below(frames), <<>>)
      /\ \A T : Sens(Machine, T) =>
           Leaves(Machine, T, w, Below(frames), a, Value("list", Reverse(T[Machine.regs[b]].items)))
  BY <1>1, <1>2, <1>3, ReversedIs
<1> HIDE DEF w
<1>6. ASSUME NEW T, Agree(heap, frames, vals, T)
      PROVE  Leaves(Machine, T, w, Below(frames), a, Value("list", Reverse(V(b).items)))
  <2>1. T[Machine.regs[b]] = V(b) /\ Sens(Machine, T)
    BY <1>6, LocalIs
  <2>2. QED
    BY <1>5, <2>1
<1>7. QED
  BY <1>4, <1>5, <1>6, DoneKeeps

-----------------------------------------------------------------------------
\* The number of views among the operands.
LEMMA ViewsCount ==
  ASSUME NEW b, NEW c
  PROVE  Views({b, c}) \in Nat /\ Views({b}) = Bit(ViewIn(Machine, b))
<1> DEFINE A == {r \in {b, c} : ViewIn(Machine, r)}
           B == {r \in {b} : ViewIn(Machine, r)}
<1>1. IsFiniteSet({b, c}) /\ IsFiniteSet({b})
  <2>1. IsFiniteSet({b}) /\ {b, c} = {b} \cup {c}
    BY FS_Singleton
  <2>2. QED
    BY <2>1, FS_AddElement
<1>2. IsFiniteSet(A) /\ Cardinality(A) \in Nat
  <2>1. A \in SUBSET {b, c}
    OBVIOUS
  <2> HIDE DEF A
  <2>2. QED
    BY <1>1, <2>1, FS_Subset, FS_CardinalityType
<1>3. Cardinality(B) = Bit(ViewIn(Machine, b))
  <2>1. CASE ViewIn(Machine, b)
    <3>1. B = {b}
      BY <2>1
    <3>2. QED
      BY <2>1, <3>1, FS_Singleton DEF Bit
  <2>2. CASE ~ViewIn(Machine, b)
    <3>1. B = {}
      BY <2>2
    <3>2. QED
      BY <2>2, <3>1, FS_EmptySet DEF Bit
  <2>3. QED
    BY <2>1, <2>2
<1>4. QED
  BY <1>2, <1>3 DEF Views

\* The operands are ready and mean what they did.
Readied(n, b, c) ==
  /\ Books(n, Below(frames), <<>>) /\ FreeCells(n.heap) # {}
  /\ n.regs[b] \in Cells
  /\ n.heap[n.regs[b]].kind = Told(Machine.heap, Machine.regs[b])
  /\ n.heap[n.regs[b]].items = Slice(Machine.heap, Machine.regs[b])
  /\ \A T : Sens(Machine, T) => \E S : Effect(Machine, T, n, S, Below(frames), Regs)

\* materialize_at_slot makes both operands ready.
LEMMA OperandsReadied ==
  ASSUME Sound(heap, frames, vals), Running, NEW b \in Locals, NEW c \in Locals,
         Machine.regs[b] \in Cells, Room(1 + Views({b, c}))
  PROVE  Readied(Materialize(Materialize(Machine, b), c), b, c)
<1>1. Books(Machine, Below(frames), <<>>) /\ b \in Regs /\ c \in Regs
  BY TopBooks, LocalsAreRegs
<1>2. Cardinality(FreeCells(Machine.heap)) >= 1 + Cardinality({r \in {b, c} : ViewIn(Machine, r)})
  <2>1. Views({b, c}) \in Nat
    BY ViewsCount
  <2>2. Cardinality(FreeCells(Machine.heap)) >= 1 + Views({b, c})
    BY <2>1, RoomIs
  <2>3. QED
    BY <2>2 DEF Views
<1>3. QED
  BY <1>1, <1>2, TwoReady DEF Readied

\* What is done with ready operands is done with the operands.
LEMMA ReadiedLeaves ==
  ASSUME NEW n, NEW b, NEW c, Readied(n, b, c), NEW T, Sens(Machine, T), NEW w, NEW a, NEW v,
         \A S : Effect(Machine, T, n, S, Below(frames), Regs) => Leaves(n, S, w, Below(frames), a, v)
  PROVE  Leaves(Machine, T, w, Below(frames), a, v)
<1>1. PICK S : Effect(Machine, T, n, S, Below(frames), Regs)
  BY DEF Readied
<1>2. QED
  BY <1>1, ReadyThenLeaves

\* OP_LISTAPPEND, which keeps the values if no list is stored in itself.
LEMMA ListAppendKeeps ==
  ASSUME Sound(heap, frames, vals), Running, NEW a \in Locals, NEW b \in Locals, NEW c \in Locals,
         ListAppend(a, b, c)
  PROVE  Keeps /\ calls' = calls /\ Agrees("selfstore" \notin Shapes)
<1> DEFINE n == Materialize(Materialize(Machine, b), c)
           w == Appended(n, a, b, c)
           p == Machine.regs[b]
           v == Value("list", Append(V(b).items, V(c)))
<1>1. a \in Regs /\ b \in Regs /\ c \in Regs
  BY LocalsAreRegs
<1>2. p \in Cells /\ Told(Machine.heap, p) = "list" /\ Items(b) = Slice(Machine.heap, p)
  <2>1. IsObject(Top.regs[b], {"list", "view"})
    BY DEF ListAppend
  <2> DEFINE K == {"list", "view"}
  <2>2. \A k \in K : k = "list" \/ k = "view"
    OBVIOUS
  <2> HIDE DEF K
  <2>3. Machine.heap[p].kind \in K
    BY <2>1, Operand DEF K
  <2>4. QED
    BY <2>1, <2>2, <2>3, Operand DEF Told
<1>3. Readied(n, b, c)
  BY <1>2, OperandsReadied DEF ListAppend
<1>4. Len(Slice(Machine.heap, p)) < MaxLen /\ Allowed(a, b, c)
  BY <1>2 DEF ListAppend
<1>5. Done(w, a, v)
  BY DEF ListAppend, Appended
<1> HIDE DEF n
<1>6. /\ Books(w, Below(frames), <<>>)
      /\ \A S : Sens(n, S) /\ ~(a = b /\ b = c) =>
           Leaves(n, S, w, Below(frames), a, Value("list", Append(S[n.regs[b]].items, S[n.regs[c]])))
  <2>1. /\ Books(n, Below(frames), <<>>) /\ FreeCells(n.heap) # {} /\ n.regs[b] \in Cells
        /\ n.heap[n.regs[b]].kind = "list" /\ Len(n.heap[n.regs[b]].items) < MaxLen
    BY <1>2, <1>3, <1>4 DEF Readied
  <2>2. QED
    BY <1>1, <2>1, AppendedIs
<1> HIDE DEF w
<1>7. ASSUME NEW T, Agree(heap, frames, vals, T), "selfstore" \notin Shapes
      PROVE  Leaves(Machine, T, w, Below(frames), a, v)
  <2>1. T[Machine.regs[b]] = V(b) /\ T[Machine.regs[c]] = V(c) /\ Sens(Machine, T)
    BY <1>7, LocalIs
  <2>2. ASSUME NEW S, Effect(Machine, T, n, S, Below(frames), Regs)
        PROVE  Leaves(n, S, w, Below(frames), a, v)
    <3>1. Sens(n, S) /\ S[n.regs[b]] = V(b) /\ S[n.regs[c]] = V(c)
      BY <1>1, <2>1, <2>2 DEF Effect
    <3>2. ~(a = b /\ b = c)
      BY <1>4, <1>7 DEF Allowed
    <3>3. QED
      BY <1>6, <3>1, <3>2
  <2>3. QED
    BY <1>3, <2>1, <2>2, ReadiedLeaves
<1> HIDE DEF v
<1>8. QED
  BY <1>5, <1>6, <1>7, DoneKeeps

\* OP_MSET, which keeps the values if no map is stored in itself.
LEMMA MapSetKeeps ==
  ASSUME Sound(heap, frames, vals), Running, NEW a \in Locals, NEW b \in Locals, NEW d \in Locals,
         MapSet(a, b, d)
  PROVE  Keeps /\ calls' = calls /\ Agrees("selfstore" \notin Shapes)
<1> DEFINE n == Materialize(Machine, d)
           w == SetTo(n, a, b, d)
           p == Machine.regs[b]
           v == Value("map", <<V(d)>>)
<1>1. a \in Regs /\ b \in Regs /\ d \in Regs
  BY LocalsAreRegs
<1>2. p \in Cells /\ Machine.heap[p].kind = "map"
  <2>1. IsObject(Top.regs[b], {"map"})
    BY DEF MapSet
  <2> DEFINE K == {"map"}
  <2>2. \A k \in K : k = "map"
    OBVIOUS
  <2> HIDE DEF K
  <2>3. Machine.heap[p].kind \in K
    BY <2>1, Operand DEF K
  <2>4. QED
    BY <2>1, <2>2, <2>3, Operand
<1>3. ~ViewIn(Machine, b)
  BY <1>2 DEF ViewIn
<1>4. Materialize(Machine, b) = Machine
  BY <1>3, NothingToMaterialize
<1>5. Views({b, d}) = Views({d})
  <2>1. {r \in {b, d} : ViewIn(Machine, r)} = {r \in {d} : ViewIn(Machine, r)}
    BY <1>3
  <2>2. QED
    BY <2>1 DEF Views
<1>6. Readied(n, b, d)
  <2>1. Room(1 + Views({b, d}))
    BY <1>5 DEF MapSet
  <2>2. Readied(Materialize(Materialize(Machine, b), d), b, d)
    BY <1>2, <2>1, OperandsReadied
  <2>3. QED
    BY <1>4, <2>2
<1>7. Allowed(a, b, d) /\ Done(w, a, v)
  BY DEF MapSet, SetTo
<1> HIDE DEF n
<1>8. /\ Books(w, Below(frames), <<>>)
      /\ \A S : Sens(n, S) /\ ~(a = b /\ b = d) =>
           Leaves(n, S, w, Below(frames), a, Value("map", <<S[n.regs[d]]>>))
  <2>1. Told(Machine.heap, p) = "map"
    BY <1>2 DEF Told
  <2>2. /\ Books(n, Below(frames), <<>>) /\ FreeCells(n.heap) # {} /\ n.regs[b] \in Cells
        /\ n.heap[n.regs[b]].kind = "map"
    BY <1>6, <2>1 DEF Readied
  <2>3. QED
    BY <1>1, <2>2, SetIs
<1> HIDE DEF w
<1>9. ASSUME NEW T, Agree(heap, frames, vals, T), "selfstore" \notin Shapes
      PROVE  Leaves(Machine, T, w, Below(frames), a, v)
  <2>1. T[Machine.regs[d]] = V(d) /\ Sens(Machine, T)
    BY <1>9, LocalIs
  <2>2. ASSUME NEW S, Effect(Machine, T, n, S, Below(frames), Regs)
        PROVE  Leaves(n, S, w, Below(frames), a, v)
    <3>1. Sens(n, S) /\ S[n.regs[d]] = V(d)
      BY <1>1, <2>1, <2>2 DEF Effect
    <3>2. ~(a = b /\ b = d)
      BY <1>7, <1>9 DEF Allowed
    <3>3. QED
      BY <1>8, <3>1, <3>2
  <2>3. QED
    BY <1>6, <2>1, <2>2, ReadiedLeaves
<1> HIDE DEF v
<1>10. QED
  BY <1>7, <1>8, <1>9, DoneKeeps

\* OP_WINDOW_VIEW.
LEMMA WindowViewKeeps ==
  ASSUME Sound(heap, frames, vals), Running, NEW a \in Locals, NEW b \in Locals, WindowView(a, b)
  PROVE  Keeps /\ calls' = calls /\ Agrees(TRUE)
<1> DEFINE n == Materialize(Machine, b)
           p == Machine.regs[b]
<1>1. a \in Regs /\ b \in Regs /\ a # b /\ Books(Machine, Below(frames), <<>>)
  BY LocalsAreRegs, TopBooks DEF WindowView
<1>2. p \in Cells /\ Told(Machine.heap, p) = "list" /\ Items(b) = Slice(Machine.heap, p)
  <2>1. IsObject(Top.regs[b], {"list", "view"})
    BY DEF WindowView
  <2> DEFINE K == {"list", "view"}
  <2>2. \A k \in K : k = "list" \/ k = "view"
    OBVIOUS
  <2> HIDE DEF K
  <2>3. Machine.heap[p].kind \in K
    BY <2>1, Operand DEF K
  <2>4. QED
    BY <2>1, <2>2, <2>3, Operand DEF Told
<1>3. PICK i \in DOMAIN Items(b) : Done(Viewed(n, a, b, i), a, Value("list", <<V(b).items[i]>>))
  BY DEF WindowView, Viewed, Rebound
<1> DEFINE w == Viewed(n, a, b, i)
           v == Value("list", <<V(b).items[i]>>)
<1>4. Readied(n, b, b)
  <2>1. Views({b}) = Bit(ViewIn(Machine, b)) /\ Bit(ViewIn(Machine, b)) \in Nat
    BY ViewsCount DEF Bit
  <2>2. Cardinality(FreeCells(Machine.heap)) >= 1 + Bit(ViewIn(Machine, b)) /\ Cardinality(FreeCells(Machine.heap)) \in Nat
    <3>1. Room(1 + Views({b}))
      BY DEF WindowView
    <3>2. Cardinality(FreeCells(Machine.heap)) >= 1 + Views({b})
      BY <2>1, <3>1, RoomIs
    <3>3. QED
      BY <1>1, <2>1, <3>2, BooksFacts, FreeCellsAre
  <2>3. Ready(Machine, n, Below(frames), b)
    <3>1. Cardinality(FreeCells(Machine.heap)) >= Bit(ViewIn(Machine, b))
      BY <2>1, <2>2
    <3>2. QED
      BY <1>1, <3>1, MaterializeReadies
  <2> HIDE DEF n
  <2>4. n.heap \in Heaps
    BY <2>3, BooksFacts DEF Ready
  <2>5. Cardinality(FreeCells(n.heap)) >= 1
    BY <2>1, <2>2, <2>3 DEF Ready
  <2>6. QED
    BY <1>2, <2>3, <2>4, <2>5, FreeCellsAre DEF Ready, Readied
<1> HIDE DEF n
<1>5. /\ Books(n, Below(frames), <<>>) /\ FreeCells(n.heap) # {} /\ n.regs[b] \in Cells
      /\ n.heap[n.regs[b]].kind = "list" /\ i \in 1..Len(n.heap[n.regs[b]].items)
  <2>1. i \in 1..Len(Slice(Machine.heap, p))
    BY <1>1, <1>2, <1>3, SliceIs
  <2>2. QED
    BY <1>2, <1>4, <2>1 DEF Readied
<1>6. /\ Books(w, Below(frames), <<>>)
      /\ \A S : Sens(n, S) => Leaves(n, S, w, Below(frames), a, Value("list", <<S[n.regs[b]].items[i]>>))
  BY <1>1, <1>5, ViewedIs
<1>7. Done(w, a, v)
  BY <1>3
<1> HIDE DEF w
<1>8. ASSUME NEW T, Agree(heap, frames, vals, T)
      PROVE  Leaves(Machine, T, w, Below(frames), a, v)
  <2>1. T[Machine.regs[b]] = V(b) /\ Sens(Machine, T)
    BY <1>8, LocalIs
  <2>2. ASSUME NEW S, Effect(Machine, T, n, S, Below(frames), Regs)
        PROVE  Leaves(n, S, w, Below(frames), a, v)
    <3>1. Sens(n, S) /\ S[n.regs[b]] = V(b)
      BY <1>1, <2>1, <2>2 DEF Effect
    <3>2. QED
      BY <1>6, <3>1
  <2>3. QED
    BY <1>4, <2>1, <2>2, ReadiedLeaves
<1> HIDE DEF v
<1>9. QED
  BY <1>6, <1>7, <1>8, DoneKeeps

-----------------------------------------------------------------------------
(***************************************************************************)
(* Calls.                                                                  *)
(***************************************************************************)
LEMMA ArgsAre ==
  /\ Arg(1) \in Regs /\ Arg(2) \in Regs /\ Res \in Regs /\ Arg(1) # Arg(2)
  /\ Arg(1) \notin Locals /\ Arg(2) \notin Locals /\ Res \notin Locals
  /\ 1 \in Regs /\ 2 \in Regs /\ 1 \in Locals /\ 2 \in Locals /\ \A r \in Locals : r = 1 \/ r = 2
BY DEF Arg, Regs, Res, Locals

\* A register after one is set.
LEMMA PutAt ==
  ASSUME NEW regs, NEW a, NEW v, NEW r, regs \in RegFile, a \in Regs, v \in Refs, r \in Regs
  PROVE  Put(regs, a, v)[r] = IF r = a THEN v ELSE regs[r]
BY PutIs

\* The registers of a new frame.
LEMMA FrameIs ==
  ASSUME NEW p \in Refs, NEW q \in Refs, NEW dest \in 0..2, NEW own \in BOOLEAN
  PROVE  LET f == Frame(p, q, dest, own)
         IN  /\ f \in FrameFile /\ f.dest = dest /\ f.own = own /\ f.regs \in RegFile
             /\ f.regs[1] = p /\ f.regs[2] = q
             /\ \A o \in Cells : Occurs(f.regs, o) = Bit(p = o) + Bit(q = o)
<1> DEFINE f == Frame(p, q, dest, own)
           nils == [r \in Regs |-> Nil]
           regs == Put(Put(nils, 1, p), 2, q)
<1>1. nils \in RegFile
  BY BoundsAre DEF RegFile
<1>2. regs = <<p, q, Nil, Nil, Nil>>
  BY DEF Put, Regs
<1>3. f.regs = regs /\ f.dest = dest /\ f.own = own /\ f = [regs |-> regs, dest |-> dest, own |-> own]
  BY <1>2 DEF Frame
<1>4. ASSUME NEW o \in Cells PROVE Occurs(nils, o) = 0
  <2>1. IsFiniteSet(DOMAIN nils) /\ \A i \in DOMAIN nils : nils[i] # o
    BY BoundsAre
  <2>2. QED
    BY <2>1, AtFinite
<1>5. ASSUME NEW o \in Cells PROVE Occurs(regs, o) = Bit(p = o) + Bit(q = o)
  <2> DEFINE half == Put(nils, 1, p)
  <2>1. nils[1] = Nil /\ half[2] = Nil /\ half \in RegFile
    <3>1. nils[1] = Nil /\ nils[2] = Nil
      BY ArgsAre
    <3> HIDE DEF nils
    <3>2. half \in RegFile /\ half[2] = nils[2]
      BY <1>1, ArgsAre, PutIs
    <3>3. QED
      BY <3>1, <3>2
  <2>2. Bit(Nil = o) = 0 /\ Bit(p = o) \in Nat /\ Bit(q = o) \in Nat
    BY DEF Bit, Nil, Cells
  <2> HIDE DEF nils
  <2>3. Occurs(half, o) = Occurs(nils, o) - Bit(nils[1] = o) + Bit(p = o)
    BY <1>1, ArgsAre, PutCounts
  <2> HIDE DEF half
  <2>4. Occurs(Put(half, 2, q), o) = Occurs(half, o) - Bit(half[2] = o) + Bit(q = o)
    BY <2>1, ArgsAre, PutCounts
  <2>5. QED
    BY <1>4, <2>1, <2>2, <2>3, <2>4 DEF half
<1> HIDE DEF nils
<1>6. regs \in RegFile /\ regs[1] = p /\ regs[2] = q
  <2> DEFINE half == Put(nils, 1, p)
  <2>1. half \in RegFile /\ half[1] = p
    BY <1>1, ArgsAre, PutIs
  <2> HIDE DEF half
  <2>2. Put(half, 2, q) \in RegFile /\ Put(half, 2, q)[2] = q
    BY <2>1, ArgsAre, PutIs
  <2>3. Put(half, 2, q)[1] = half[1]
    <3>1. 1 # 2
      OBVIOUS
    <3>2. QED
      BY <2>1, <3>1, ArgsAre, PutAt
  <2>4. QED
    BY <2>1, <2>2, <2>3 DEF half
<1> HIDE DEF regs
<1>7. f \in FrameFile
  BY <1>3, <1>6 DEF FrameFile
<1>8. QED
  BY <1>3, <1>5, <1>6, <1>7

\* The arguments of a call are copied to its window.
LEMMA ArgumentsIs ==
  ASSUME NEW k, NEW rest, Books(k, rest, <<>>), NEW e1 \in Locals, NEW e2 \in Locals
  PROVE  LET w == Copy(Copy(k, Arg(1), k.regs[e1]), Arg(2), k.regs[e2])
         IN  /\ Books(w, rest, <<>>) /\ Shrunk(k.heap, w.heap)
             /\ \A r \in Locals : w.regs[r] = k.regs[r]
             /\ w.regs[Arg(1)] = k.regs[e1] /\ w.regs[Arg(2)] = k.regs[e2]
<1> DEFINE m == Copy(k, Arg(1), k.regs[e1])
           w == Copy(m, Arg(2), k.regs[e2])
<1>1. e1 \in Regs /\ e2 \in Regs /\ Locals \subseteq Regs
  BY LocalsAreRegs
<1>2. /\ k.regs \in RegFile
      /\ k.regs[e1] \in Refs /\ Present(k.heap, k.regs[e1]) /\ k.regs[e2] \in Refs
  BY <1>1, BooksFacts, RegisterIsThere
<1>3. Books(m, rest, <<>>) /\ Shrunk(k.heap, m.heap) /\ m.regs = Put(k.regs, Arg(1), k.regs[e1])
  BY <1>2, ArgsAre, CopyIs
<1> HIDE DEF m
<1>4. /\ m.regs \in RegFile /\ m.regs[Arg(1)] = k.regs[e1]
      /\ \A r \in Locals : m.regs[r] = k.regs[r]
  <2>1. m.regs \in RegFile /\ m.regs[Arg(1)] = k.regs[e1]
    <3>1. Put(k.regs, Arg(1), k.regs[e1])[Arg(1)] = k.regs[e1]
      BY <1>2, ArgsAre, PutAt
    <3>2. m.regs \in RegFile
      BY <1>3, BooksFacts
    <3>3. QED
      BY <1>3, <3>1, <3>2
  <2>2. ASSUME NEW r \in Locals PROVE m.regs[r] = k.regs[r]
    <3>1. r \in Regs /\ r # Arg(1)
      BY <1>1, ArgsAre
    <3>2. Put(k.regs, Arg(1), k.regs[e1])[r] = k.regs[r]
      BY <1>2, <3>1, ArgsAre, PutAt
    <3>3. QED
      BY <1>3, <3>2
  <2>3. QED
    BY <2>1, <2>2
<1>5. k.regs[e2] \in Refs /\ Present(m.heap, k.regs[e2])
  <2>1. Present(m.heap, m.regs[e2])
    BY <1>1, <1>3, RegisterIsThere
  <2>2. QED
    BY <1>2, <1>4, <2>1
<1>6. Books(w, rest, <<>>) /\ Shrunk(m.heap, w.heap) /\ w.regs = Put(m.regs, Arg(2), k.regs[e2])
  BY <1>3, <1>5, ArgsAre, CopyIs
<1> HIDE DEF w
<1>7. /\ w.regs[Arg(2)] = k.regs[e2] /\ w.regs[Arg(1)] = m.regs[Arg(1)]
      /\ \A r \in Locals : w.regs[r] = m.regs[r]
  <2>1. w.regs[Arg(2)] = k.regs[e2]
    <3>1. Put(m.regs, Arg(2), k.regs[e2])[Arg(2)] = k.regs[e2]
      BY <1>4, <1>5, ArgsAre, PutAt
    <3>2. QED
      BY <1>6, <3>1
  <2>2. ASSUME NEW r \in Regs, r # Arg(2) PROVE w.regs[r] = m.regs[r]
    <3>1. Put(m.regs, Arg(2), k.regs[e2])[r] = m.regs[r]
      BY <1>4, <1>5, <2>2, ArgsAre, PutAt
    <3>2. QED
      BY <1>6, <3>1
  <2>3. QED
    BY <1>1, <2>1, <2>2, ArgsAre
<1>8. Shrunk(k.heap, w.heap)
  BY <1>3, <1>6, ShrunkTwice
<1>9. QED
  BY <1>4, <1>6, <1>7, <1>8 DEF w, m

\* A frame is pushed on the last one, whose registers have changed.
Pushed(fs, gs, regs, f) ==
  /\ gs \in Seq(FrameFile) /\ Len(gs) = Len(fs) + 1
  /\ \A i \in 1..(Len(fs) - 1) : gs[i] = fs[i]
  /\ gs[Len(fs)].regs = regs /\ gs[Len(fs)].dest = fs[Len(fs)].dest /\ gs[Len(fs)].own = fs[Len(fs)].own
  /\ gs[Len(fs) + 1] = f

\* The frames after a push.
LEMMA PushedIs ==
  ASSUME NEW fs \in Seq(FrameFile), Len(fs) >= 1, NEW regs \in RegFile, NEW f \in FrameFile
  PROVE  Pushed(fs, Append([fs EXCEPT ![Len(fs)].regs = regs], f), regs, f)
<1> DEFINE gs == [fs EXCEPT ![Len(fs)].regs = regs]
           n == Len(fs)
<1>1. TopSet(fs, gs, regs)
  BY TopSetIs
<1> HIDE DEF gs
<1>2. gs \in Seq(FrameFile) /\ Len(gs) = n /\ n \in Nat /\ n >= 1
  BY <1>1 DEF TopSet
<1> DEFINE ks == Append(gs, f)
<1>3. ks \in Seq(FrameFile) /\ Len(ks) = n + 1 /\ ks[n + 1] = f /\ \A i \in 1..n : ks[i] = gs[i]
  BY <1>2
<1> HIDE DEF ks
<1>4. Pushed(fs, ks, regs, f)
  BY <1>1, <1>2, <1>3 DEF TopSet, Pushed
<1>5. QED
  BY <1>4 DEF ks, gs

\* The books after a push.
LEMMA PushedSound ==
  ASSUME NEW fs, FramesOk(fs), Len(fs) >= 1, Len(fs) < MaxDepth, NEW gs, NEW regs, NEW f,
         Pushed(fs, gs, regs, f), f.dest \in Locals, NEW g,
         Ledger(g, {}, With(With(Below(fs), regs), f.regs), <<>>)
  PROVE  FramesOk(gs) /\ Ledger(g, {}, HeldBy(gs, 1..Len(gs)), <<>>)
<1> DEFINE n == Len(fs)
<1>1. fs \in Seq(FrameFile) /\ n \in Nat /\ n >= 1
  BY DEF FramesOk
<1>2. /\ gs \in Seq(FrameFile) /\ Len(gs) = n + 1 /\ gs[n].regs = regs /\ gs[n + 1] = f
      /\ gs[n].dest = fs[n].dest
      /\ \A i \in 1..(n - 1) : gs[i] = fs[i]
  BY DEF Pushed
<1>3. n \in 1..Len(gs) /\ n + 1 \in 1..Len(gs) /\ (n + 1) - 1 = n
  BY <1>1, <1>2
<1>4. HeldBy(gs, 1..n) = With(HeldBy(gs, 1..(n - 1)), regs)
  BY <1>2, <1>3, UpTo
<1>5. HeldBy(gs, 1..(n + 1)) = With(HeldBy(gs, 1..n), f.regs)
  <2>1. HeldBy(gs, 1..(n + 1)) = With(HeldBy(gs, 1..((n + 1) - 1)), gs[n + 1].regs)
    BY <1>2, <1>3, UpTo
  <2>2. QED
    BY <1>2, <1>3, <2>1
<1>6. HeldBy(gs, 1..(n - 1)) = HeldBy(fs, 1..(n - 1))
  <2>1. \A i \in 1..(n - 1) : gs[i].regs = fs[i].regs
    BY <1>2
  <2>2. QED
    BY <2>1, SameFrames
<1>7. FramesOk(gs)
  <2>1. ASSUME NEW i \in 2..Len(gs) PROVE gs[i].dest \in Locals
    <3>1. CASE i = n + 1
      BY <1>2, <3>1
    <3>2. CASE i = n
      <4>1. n \in 2..Len(fs)
        BY <1>1, <3>2
      <4>2. QED
        BY <1>2, <3>2, <4>1 DEF FramesOk
    <3>3. CASE i < n
      <4>1. i \in 1..(n - 1) /\ i \in 2..Len(fs)
        BY <1>1, <3>3
      <4>2. QED
        BY <1>2, <4>1 DEF FramesOk
    <3>4. QED
      BY <1>1, <1>2, <3>1, <3>2, <3>3
  <2>2. Len(gs) <= MaxDepth
    BY <1>1, <1>2, BoundsAre
  <2>3. QED
    BY <1>2, <2>1, <2>2 DEF FramesOk
<1>8. QED
  BY <1>2, <1>4, <1>5, <1>6, <1>7 DEF Below

\* A row of two values is pushed.
NewRow(vs, x, y) == Append(vs, <<x, y>>)

\* The rows after a push.
LEMMA RowPushed ==
  ASSUME NEW fs, NEW gs, NEW vs, Rows(fs, vs), Len(fs) \in Nat, Len(gs) = Len(fs) + 1, NEW x, NEW y
  PROVE  /\ Rows(gs, NewRow(vs, x, y)) /\ NewRow(vs, x, y)[Len(fs) + 1] = <<x, y>>
         /\ \A i \in 1..Len(fs) : NewRow(vs, x, y)[i] = vs[i]
<1>1. PICK W : vs \in Seq(W) /\ Len(vs) = Len(fs) /\ \A z \in W : DOMAIN z = Locals
  BY DEF Rows
<1> DEFINE r == <<x, y>>
           us == Append(vs, r)
           U == W \cup {r}
<1>2. DOMAIN r = Locals
  BY DEF Locals
<1> HIDE DEF r
<1>3. us \in Seq(U) /\ Len(us) = Len(fs) + 1 /\ us[Len(fs) + 1] = r /\ \A i \in 1..Len(fs) : us[i] = vs[i]
  BY <1>1
<1>4. \A z \in U : DOMAIN z = Locals
  BY <1>1, <1>2
<1> HIDE DEF us, U
<1>5. Rows(gs, us)
  BY <1>3, <1>4 DEF Rows
<1>6. QED
  BY <1>3, <1>5 DEF us, r, NewRow

\* The references in two registers.
LEMMA OccursTwo ==
  ASSUME NEW p \in Refs, NEW q \in Refs, NEW o
  PROVE  Occurs(<<p, q>>, o) = Bit(p = o) + Bit(q = o)
<1> DEFINE t == <<p>>
           u == Append(t, q)
<1>1. t \in Seq(Refs) /\ Occurs(t, o) = Bit(p = o)
  BY OccursOne
<1>2. <<p, q>> = Append(<<p>>, q)
  BY Z3
<1> HIDE DEF t
<1>3. Occurs(u, o) = Occurs(t, o) + Bit(q = o)
  BY <1>1, OccursAppend
<1>4. QED
  BY <1>1, <1>2, <1>3, Zenon DEF u, t

-----------------------------------------------------------------------------
\* The values of the locals after a call.
LEMMA PushedAgrees ==
  ASSUME Sound(heap, frames, vals), Running, NEW T, Agree(heap, frames, vals, T),
         NEW gs, NEW regs, NEW f, Pushed(frames, gs, regs, f),
         NEW g, \E ord : Ordered(g, ord) /\ Meaning(g, T),
         NEW us, NEW x, NEW y, us[Len(frames) + 1] = <<x, y>>, \A i \in 1..Len(frames) : us[i] = vals[i],
         T[f.regs[1]] = x, T[f.regs[2]] = y,
         \A r \in Locals : (f.own /\ f.dest = r) \/ regs[r] = Machine.regs[r]
  PROVE  Agree(g, gs, us, T)
<1> DEFINE n == Len(frames)
<1>1. n \in Nat /\ n >= 1 /\ Machine.regs = frames[n].regs
  BY TopBooks
<1>2. ASSUME NEW i \in 1..Len(gs), NEW r \in Locals, ~Away(gs, i, r)
      PROVE  T[gs[i].regs[r]] = us[i][r]
  <2>1. Len(gs) = n + 1 /\ i \in Nat
    BY <1>1 DEF Pushed
  <2>2. CASE i = n + 1
    <3>1. gs[i] = f /\ us[i] = <<x, y>>
      BY <2>2 DEF Pushed
    <3>2. r = 1 \/ r = 2
      BY ArgsAre
    <3>3. us[i][1] = x /\ us[i][2] = y
      BY <3>1
    <3>4. QED
      BY <3>1, <3>2, <3>3
  <2>3. CASE i = n
    <3>1. gs[n + 1] = f /\ gs[n].regs = regs /\ us[n] = vals[n]
      BY <1>1 DEF Pushed
    <3>2. ~(f.own /\ f.dest = r)
      BY <1>1, <1>2, <2>1, <2>3, <3>1 DEF Away
    <3>3. ~Away(frames, n, r)
      BY DEF Away
    <3>4. T[frames[n].regs[r]] = vals[n][r]
      BY <1>1, <3>3 DEF Agree, Faithful
    <3>5. QED
      BY <1>1, <2>3, <3>1, <3>2, <3>4
  <2>4. CASE i < n
    <3>1. i \in 1..(n - 1) /\ i \in 1..n /\ i + 1 \in 1..n
      BY <1>1, <2>1, <2>4
    <3>2. gs[i] = frames[i] /\ us[i] = vals[i]
      BY <3>1 DEF Pushed
    <3>3. gs[i + 1].own = frames[i + 1].own /\ gs[i + 1].dest = frames[i + 1].dest
      <4>1. CASE i + 1 = n
        BY <4>1 DEF Pushed
      <4>2. CASE i + 1 # n
        <5>1. i + 1 \in 1..(n - 1)
          BY <1>1, <3>1, <4>2
        <5>2. QED
          BY <5>1 DEF Pushed
      <4>3. QED
        BY <4>1, <4>2
    <3>4. ~Away(frames, i, r)
      BY <1>1, <1>2, <2>1, <3>3 DEF Away
    <3>5. T[frames[i].regs[r]] = vals[i][r]
      BY <3>1, <3>4 DEF Agree, Faithful
    <3>6. QED
      BY <3>2, <3>5
  <2>5. QED
    BY <1>1, <2>1, <2>2, <2>3, <2>4
<1>3. Faithful(gs, us, T)
  BY <1>2 DEF Faithful
<1>4. QED
  BY <1>3 DEF Agree

\* The objects mean what they did.
LEMMA StillMeans ==
  ASSUME NEW h, NEW g, NEW rest, NEW w, Ledger(g, {}, rest, <<>>), Ledger(h, {}, w, <<>>),
         Shrunk(h, g), NEW T, \E ord : Ordered(h, ord) /\ Meaning(h, T)
  PROVE  \E ord : Ordered(g, ord) /\ Meaning(g, T)
<1>1. PICK ord : Ordered(h, ord) /\ Meaning(h, T)
  OBVIOUS
<1>2. Meaning(g, T) /\ Ordered(g, ord)
  BY <1>1, ShrunkMeans
<1>3. QED
  BY <1>2

\* OP_CALL.
LEMMA CallKeeps ==
  ASSUME Sound(heap, frames, vals), Running, NEW x \in Locals, NEW e1 \in Locals, NEW e2 \in Locals,
         Call(x, e1, e2)
  PROVE  Keeps /\ (calls < MaxCalls /\ calls' = calls + 1) /\ Agrees(TRUE)
<1> DEFINE n == Len(frames)
           m == Copy(Copy(Machine, Arg(1), Machine.regs[e1]), Arg(2), Machine.regs[e2])
           p == m.regs[Arg(1)]
           q == m.regs[Arg(2)]
           s == <<p, q>>
           f == Frame(p, q, x, FALSE)
           g == CloneAll(m.heap, s)
           R == Below(frames)
           none == <<>>
<1>1. /\ frames \in Seq(FrameFile) /\ n \in Nat /\ n >= 1 /\ Machine.regs = Top.regs /\ Machine.heap = heap
      /\ R \in [Cells -> Nat] /\ Books(Machine, R, none) /\ FramesOk(frames) /\ Rows(frames, vals)
  BY TopBooks DEF Sound
<1>2. /\ Books(m, R, none) /\ Shrunk(heap, m.heap)
      /\ \A r \in Locals : m.regs[r] = Machine.regs[r]
      /\ p = Machine.regs[e1] /\ q = Machine.regs[e2]
  <2> DEFINE k == Machine
  <2>1. Books(k, R, none)
    BY <1>1
  <2> HIDE DEF k, R
  <2>2. /\ Books(m, R, none) /\ Shrunk(k.heap, m.heap)
        /\ \A r \in Locals : m.regs[r] = k.regs[r]
        /\ p = k.regs[e1] /\ q = k.regs[e2]
    BY <2>1, ArgumentsIs DEF k
  <2> HIDE DEF m, p, q
  <2>3. QED
    BY <1>1, <2>2, Zenon DEF k
<1>3. /\ n < MaxDepth /\ calls < MaxCalls /\ calls' = calls + 1
      /\ heap' = g
      /\ frames' = Append([frames EXCEPT ![n].regs = m.regs], f)
      /\ vals' = Append(vals, <<V(e1), V(e2)>>)
  <2>1. Push([heap |-> g, regs |-> m.regs], f) /\ vals' = Append(vals, <<V(e1), V(e2)>>)
    BY <1>1, Zenon DEF Call
  <2> HIDE DEF g, f, m
  <2>2. QED
    BY <2>1 DEF Push
<1> HIDE DEF m
<1>4. /\ m.regs \in RegFile /\ m.heap \in Heaps /\ Ledger(m.heap, {}, With(R, m.regs), none)
      /\ p \in Refs /\ q \in Refs /\ Present(m.heap, p) /\ Present(m.heap, q)
  BY <1>2, BooksFacts, ArgsAre, RegisterIsThere
<1>5. /\ f \in FrameFile /\ f.dest = x /\ f.own = FALSE /\ f.regs \in RegFile
      /\ f.regs[1] = p /\ f.regs[2] = q
      /\ \A o \in Cells : Occurs(f.regs, o) = Bit(p = o) + Bit(q = o)
  <2> DEFINE own == FALSE
  <2>1. x \in 0..2 /\ own \in BOOLEAN
    BY DEF Locals
  <2> HIDE DEF p, q, own
  <2>2. LET k == Frame(p, q, x, own)
        IN  /\ k \in FrameFile /\ k.dest = x /\ k.own = own /\ k.regs \in RegFile
            /\ k.regs[1] = p /\ k.regs[2] = q
            /\ \A o \in Cells : Occurs(k.regs, o) = Bit(p = o) + Bit(q = o)
    BY <1>4, <2>1, FrameIs
  <2>3. QED
    BY <2>2 DEF own
<1> HIDE DEF f
<1>6. Pushed(frames, frames', m.regs, f)
  BY <1>1, <1>3, <1>4, <1>5, PushedIs
<1>7. /\ s \in Seq(Refs) /\ (\A i \in 1..Len(s) : Present(m.heap, s[i]))
      /\ \A o \in Cells : Occurs(s, o) = Bit(p = o) + Bit(q = o)
  <2> HIDE DEF p, q
  <2>1. s \in Seq(Refs) /\ Len(s) = 2 /\ s[1] = p /\ s[2] = q
    BY <1>4
  <2>2. \A i \in 1..Len(s) : i = 1 \/ i = 2
    BY <2>1
  <2>3. \A i \in 1..Len(s) : Present(m.heap, s[i])
    BY <1>4, <2>1, <2>2
  <2>4. ASSUME NEW o \in Cells PROVE Occurs(s, o) = Bit(p = o) + Bit(q = o)
    BY <1>4, OccursTwo
  <2>5. QED
    BY <2>1, <2>3, <2>4
<1> HIDE DEF s, p, q
<1>8. /\ Ledger(g, {}, With(R, m.regs), s)
      /\ \A o \in Cells : g[o].kind = m.heap[o].kind /\ g[o].items = m.heap[o].items /\ g[o].start = m.heap[o].start
  <2> DEFINE X == {}
  <2>1. Ledger(m.heap, X, With(R, m.regs), none)
    BY <1>4
  <2> HIDE DEF X, none
  <2>2. Ledger(g, X, With(R, m.regs), none \o s)
    BY <1>7, <2>1, CloneAllIs
  <2>3. none \o s = s
    BY <1>7 DEF none
  <2>4. \A o \in Cells : g[o].kind = m.heap[o].kind /\ g[o].items = m.heap[o].items /\ g[o].start = m.heap[o].start
    BY <1>7, <2>1, CloneAllIs
  <2>5. QED
    BY <2>2, <2>3, <2>4 DEF X
<1> HIDE DEF g
<1>9. Ledger(g, {}, With(With(R, m.regs), f.regs), none)
  <2> DEFINE A == With(R, m.regs)
             B == With(A, f.regs)
  <2>1. A \in [Cells -> Nat]
    BY <1>1, <1>4, WithIs
  <2> HIDE DEF A
  <2>2. B \in [Cells -> Nat] /\ \A o \in Cells : Occurs(f.regs, o) \in Nat /\ B[o] = A[o] + Occurs(f.regs, o)
    BY <1>5, <2>1, WithIs
  <2>3. \A o \in Cells : Occurs(none, o) = 0 /\ A[o] \in Nat
    BY <2>1, OccursNone
  <2>4. none \in Seq(Refs) /\ Ledger(g, {}, A, s)
    BY <1>8 DEF A
  <2> HIDE DEF B, none
  <2>5. Evened(A, s, B, none)
    BY <1>5, <1>7, <2>2, <2>3 DEF Evened
  <2>6. Ledger(g, {}, B, none)
    BY <2>1, <2>2, <2>4, <2>5, Rebalance
  <2>7. QED
    BY <2>6 DEF A, B
<1>10. FramesOk(frames') /\ Ledger(g, {}, HeldBy(frames', 1..Len(frames')), none)
  BY <1>1, <1>3, <1>5, <1>6, <1>9, PushedSound
<1>11. /\ Rows(frames', vals') /\ vals'[n + 1] = <<V(e1), V(e2)>>
       /\ \A i \in 1..n : vals'[i] = vals[i]
  <2> DEFINE y == V(e1)
             z == V(e2)
             us == NewRow(vals, y, z)
  <2>1. Len(frames') = n + 1
    BY <1>6 DEF Pushed
  <2>2. vals' = us
    BY <1>3 DEF NewRow
  <2> HIDE DEF y, z
  <2>3. /\ Rows(frames', us) /\ us[n + 1] = <<y, z>>
        /\ \A i \in 1..n : us[i] = vals[i]
    BY <1>1, <2>1, RowPushed
  <2> HIDE DEF us
  <2>4. QED
    BY <2>2, <2>3 DEF y, z
<1>12. Keeps
  BY <1>3, <1>10, <1>11 DEF Keeps, Sound
<1>13. ASSUME NEW T, Agree(heap, frames, vals, T) PROVE Agree(heap', frames', vals', T)
  <2>1. T[Machine.regs[e1]] = V(e1) /\ T[Machine.regs[e2]] = V(e2)
    BY <1>13, LocalIs
  <2>2. Shrunk(heap, g)
    <3>1. Shrunk(m.heap, g)
      BY <1>8 DEF Shrunk
    <3>2. QED
      BY <1>2, <3>1, ShrunkTwice
  <2>3. \E ord : Ordered(g, ord) /\ Meaning(g, T)
    <3>1. Ledger(heap, {}, HeldBy(frames, 1..n), <<>>)
      BY DEF Sound
    <3>2. \E ord : Ordered(heap, ord) /\ Meaning(heap, T)
      BY <1>13 DEF Agree
    <3>3. QED
      BY <1>10, <2>2, <3>1, <3>2, StillMeans
  <2> DEFINE y == V(e1)
             z == V(e2)
  <2>4. /\ vals'[n + 1] = <<y, z>> /\ (\A i \in 1..n : vals'[i] = vals[i])
        /\ T[f.regs[1]] = y /\ T[f.regs[2]] = z
    BY <1>2, <1>5, <1>11, <2>1
  <2>5. \A r \in Locals : (f.own /\ f.dest = r) \/ m.regs[r] = Machine.regs[r]
    BY <1>2
  <2> HIDE DEF y, z
  <2>6. Agree(g, frames', vals', T)
    BY <1>6, <1>13, <2>3, <2>4, <2>5, PushedAgrees
  <2>7. QED
    BY <1>3, <2>6
<1>14. QED
  BY <1>3, <1>12, <1>13 DEF Agrees

-----------------------------------------------------------------------------
\* What moves out of a window register, and what is copied into the other.
LEMMA OwnArgumentsIs ==
  ASSUME NEW k, NEW rest, Books(k, rest, <<>>), NEW x \in Locals, NEW e \in Locals
  PROVE  LET m1 == MoveOwn(k, Arg(1), x)
             w  == Copy(m1, Arg(2), m1.regs[e])
         IN  /\ Books(w, rest, <<>>) /\ Shrunk(k.heap, w.heap)
             /\ \A r \in Locals : r # x => w.regs[r] = k.regs[r]
             /\ w.regs[Arg(1)] = k.regs[x]
             /\ e # x => w.regs[Arg(2)] = k.regs[e]
<1> DEFINE m1 == MoveOwn(k, Arg(1), x)
           v == m1.regs[e]
           w == Copy(m1, Arg(2), v)
<1>1. e \in Regs /\ x \in Regs /\ Locals \subseteq Regs
  BY LocalsAreRegs
<1>2. k.regs \in RegFile /\ k.regs[x] \in Refs /\ Nil \in Refs
  BY <1>1, BooksFacts, RegisterIsThere, BoundsAre
<1>3. /\ Books(m1, rest, <<>>) /\ Shrunk(k.heap, m1.heap)
      /\ m1.regs = Put(Put(k.regs, Arg(1), k.regs[x]), x, Nil)
  BY <1>1, ArgsAre, MoveOwnIs
<1> HIDE DEF m1
<1>4. ASSUME NEW r \in Regs
      PROVE  m1.regs[r] = IF r = x THEN Nil ELSE IF r = Arg(1) THEN k.regs[x] ELSE k.regs[r]
  <2> DEFINE half == Put(k.regs, Arg(1), k.regs[x])
  <2>1. half \in RegFile
    BY <1>2, ArgsAre, PutIs
  <2>2. half[r] = IF r = Arg(1) THEN k.regs[x] ELSE k.regs[r]
    BY <1>2, ArgsAre, PutAt
  <2> HIDE DEF half
  <2>3. Put(half, x, Nil)[r] = IF r = x THEN Nil ELSE half[r]
    BY <1>1, <1>2, <2>1, PutAt
  <2>4. QED
    BY <1>3, <2>2, <2>3 DEF half
<1>5. v \in Refs /\ Present(m1.heap, v) /\ m1.regs \in RegFile
  BY <1>1, <1>3, RegisterIsThere, BooksFacts
<1> HIDE DEF v
<1>6. Books(w, rest, <<>>) /\ Shrunk(m1.heap, w.heap) /\ w.regs = Put(m1.regs, Arg(2), v)
  BY <1>3, <1>5, ArgsAre, CopyIs
<1> HIDE DEF w
<1>7. ASSUME NEW r \in Regs PROVE w.regs[r] = IF r = Arg(2) THEN v ELSE m1.regs[r]
  <2>1. Put(m1.regs, Arg(2), v)[r] = IF r = Arg(2) THEN v ELSE m1.regs[r]
    BY <1>5, ArgsAre, PutAt
  <2>2. QED
    BY <1>6, <2>1
<1>8. Shrunk(k.heap, w.heap)
  BY <1>3, <1>6, ShrunkTwice
<1>9. ASSUME NEW r \in Locals, r # x PROVE w.regs[r] = k.regs[r]
  <2>1. r \in Regs /\ r # Arg(1) /\ r # Arg(2)
    BY <1>1, ArgsAre
  <2>2. QED
    BY <1>4, <1>7, <1>9, <2>1
<1>10. w.regs[Arg(1)] = k.regs[x]
  <2>1. Arg(1) \in Regs /\ Arg(1) # x /\ Arg(1) # Arg(2)
    BY ArgsAre
  <2>2. QED
    BY <1>4, <1>7, <2>1
<1>11. e # x => w.regs[Arg(2)] = k.regs[e]
  <2>1. Arg(2) \in Regs /\ e # Arg(1)
    BY ArgsAre
  <2>2. QED
    BY <1>1, <1>4, <1>7, <2>1 DEF v
<1>12. QED
  BY <1>6, <1>8, <1>9, <1>10, <1>11 DEF w, v, m1

\* OP_CALL_OWN1, which keeps the values if no alias travels beside the moved local.
LEMMA CallOwnKeeps ==
  ASSUME Sound(heap, frames, vals), Running, NEW x \in Locals, NEW e \in Locals, CallOwn(x, e)
  PROVE  Keeps /\ (calls < MaxCalls /\ calls' = calls + 1) /\ Agrees("ownalias" \notin Shapes)
<1> DEFINE n == Len(frames)
           m1 == MoveOwn(Machine, Arg(1), x)
           m == Copy(m1, Arg(2), m1.regs[e])
           p == m.regs[Arg(1)]
           q == m.regs[Arg(2)]
           f == Frame(p, q, x, TRUE)
           g == Clone(m.heap, q)
           regs == Put(m.regs, Arg(1), Nil)
           R == Below(frames)
           none == <<>>
<1>1. /\ frames \in Seq(FrameFile) /\ n \in Nat /\ n >= 1 /\ Machine.regs = Top.regs /\ Machine.heap = heap
      /\ R \in [Cells -> Nat] /\ Books(Machine, R, none) /\ FramesOk(frames) /\ Rows(frames, vals)
  BY TopBooks DEF Sound
<1>2. /\ Books(m, R, none) /\ Shrunk(heap, m.heap)
      /\ \A r \in Locals : r # x => m.regs[r] = Machine.regs[r]
      /\ p = Machine.regs[x] /\ (e # x => q = Machine.regs[e])
  <2> DEFINE k == Machine
  <2>1. Books(k, R, none)
    BY <1>1
  <2> HIDE DEF k, R
  <2>2. /\ Books(m, R, none) /\ Shrunk(k.heap, m.heap)
        /\ \A r \in Locals : r # x => m.regs[r] = k.regs[r]
        /\ p = k.regs[x] /\ (e # x => q = k.regs[e])
    BY <2>1, OwnArgumentsIs DEF k
  <2> HIDE DEF m, p, q
  <2>3. QED
    BY <1>1, <2>2, Zenon DEF k
<1>3. /\ n < MaxDepth /\ calls < MaxCalls /\ calls' = calls + 1
      /\ heap' = g
      /\ frames' = Append([frames EXCEPT ![n].regs = regs], f)
      /\ vals' = Append(vals, <<V(x), V(e)>>)
      /\ x = e => "ownalias" \in Shapes
  <2>1. /\ Push([heap |-> g, regs |-> regs], f) /\ vals' = Append(vals, <<V(x), V(e)>>)
        /\ x = e => "ownalias" \in Shapes
    BY Zenon DEF CallOwn, Put
  <2> HIDE DEF g, f, m, regs
  <2>2. QED
    BY <2>1 DEF Push
<1> HIDE DEF m
<1>4. /\ m.regs \in RegFile /\ m.heap \in Heaps /\ Ledger(m.heap, {}, With(R, m.regs), none)
      /\ p \in Refs /\ q \in Refs /\ Present(m.heap, q) /\ Nil \in Refs
  BY <1>2, BooksFacts, ArgsAre, RegisterIsThere, BoundsAre
<1>5. /\ f \in FrameFile /\ f.dest = x /\ f.own = TRUE /\ f.regs \in RegFile
      /\ f.regs[1] = p /\ f.regs[2] = q
      /\ \A o \in Cells : Occurs(f.regs, o) = Bit(p = o) + Bit(q = o)
  <2> DEFINE own == TRUE
  <2>1. x \in 0..2 /\ own \in BOOLEAN
    BY DEF Locals
  <2> HIDE DEF p, q, own
  <2>2. LET k == Frame(p, q, x, own)
        IN  /\ k \in FrameFile /\ k.dest = x /\ k.own = own /\ k.regs \in RegFile
            /\ k.regs[1] = p /\ k.regs[2] = q
            /\ \A o \in Cells : Occurs(k.regs, o) = Bit(p = o) + Bit(q = o)
    BY <1>4, <2>1, FrameIs
  <2>3. QED
    BY <2>2 DEF own
<1> HIDE DEF f
<1>6. /\ regs \in RegFile /\ \A r \in Regs : regs[r] = IF r = Arg(1) THEN Nil ELSE m.regs[r]
      /\ \A o \in Cells : Occurs(regs, o) = Occurs(m.regs, o) - Bit(p = o)
  <2>1. regs \in RegFile
    BY <1>4, ArgsAre, PutIs
  <2>2. \A r \in Regs : regs[r] = IF r = Arg(1) THEN Nil ELSE m.regs[r]
    BY <1>4, ArgsAre, PutAt
  <2>3. ASSUME NEW o \in Cells PROVE Occurs(regs, o) = Occurs(m.regs, o) - Bit(p = o)
    <3>1. Occurs(regs, o) = Occurs(m.regs, o) - Bit(p = o) + Bit(Nil = o)
      BY <1>4, ArgsAre, PutCounts
    <3>2. Bit(Nil = o) = 0 /\ Bit(p = o) \in Nat
      BY DEF Bit, Nil, Cells
    <3>3. Occurs(m.regs, o) \in Nat
      BY <1>2, BooksFacts
    <3>4. QED
      BY <3>1, <3>2, <3>3
  <2>4. QED
    BY <2>1, <2>2, <2>3
<1> HIDE DEF regs
<1>7. Pushed(frames, frames', regs, f)
  BY <1>1, <1>3, <1>5, <1>6, PushedIs
<1> HIDE DEF p, q
<1>8. /\ Ledger(g, {}, With(R, m.regs), <<q>>)
      /\ \A o \in Cells : g[o].kind = m.heap[o].kind /\ g[o].items = m.heap[o].items /\ g[o].start = m.heap[o].start
  <2> DEFINE X == {}
             A == With(R, m.regs)
  <2>1. Ledger(m.heap, X, A, none)
    BY <1>4
  <2> HIDE DEF X, A
  <2>2. /\ Ledger(g, X, A, <<q>>)
        /\ \A o \in Cells : g[o].kind = m.heap[o].kind /\ g[o].items = m.heap[o].items /\ g[o].start = m.heap[o].start
    BY <1>4, <2>1, CloneIs
  <2>3. QED
    BY <2>2 DEF X, A
<1> HIDE DEF g
<1>9. Ledger(g, {}, With(With(R, regs), f.regs), none)
  <2> DEFINE A == With(R, m.regs)
             D == With(R, regs)
             B == With(D, f.regs)
             s == <<q>>
  <2>1. /\ A \in [Cells -> Nat] /\ D \in [Cells -> Nat]
        /\ \A o \in Cells : A[o] = R[o] + Occurs(m.regs, o) /\ D[o] = R[o] + Occurs(regs, o)
                            /\ Occurs(m.regs, o) \in Nat /\ Occurs(regs, o) \in Nat
    BY <1>1, <1>4, <1>6, WithIs
  <2> HIDE DEF A, D
  <2>2. B \in [Cells -> Nat] /\ \A o \in Cells : Occurs(f.regs, o) \in Nat /\ B[o] = D[o] + Occurs(f.regs, o)
    BY <1>5, <2>1, WithIs
  <2>3. \A o \in Cells : /\ Occurs(none, o) = 0 /\ Occurs(s, o) = Bit(q = o) /\ R[o] \in Nat
                         /\ Bit(q = o) \in Nat /\ Bit(p = o) \in Nat
    BY <1>1, OccursNone, OccursOne DEF Bit
  <2>4. none \in Seq(Refs) /\ Ledger(g, {}, A, s)
    BY <1>8 DEF A
  <2> HIDE DEF B, none, s
  <2>5. Evened(A, s, B, none)
    BY <1>5, <1>6, <2>1, <2>2, <2>3 DEF Evened
  <2>6. Ledger(g, {}, B, none)
    BY <2>1, <2>2, <2>4, <2>5, Rebalance
  <2>7. QED
    BY <2>6 DEF B, D
<1>10. FramesOk(frames') /\ Ledger(g, {}, HeldBy(frames', 1..Len(frames')), none)
  BY <1>1, <1>3, <1>5, <1>7, <1>9, PushedSound
<1> DEFINE y == V(x)
           z == V(e)
<1>11. /\ Rows(frames', vals') /\ vals'[n + 1] = <<y, z>>
       /\ \A i \in 1..n : vals'[i] = vals[i]
  <2> DEFINE us == NewRow(vals, y, z)
  <2>1. Len(frames') = n + 1
    BY <1>7 DEF Pushed
  <2>2. vals' = us
    BY <1>3 DEF NewRow
  <2> HIDE DEF y, z
  <2>3. /\ Rows(frames', us) /\ us[n + 1] = <<y, z>>
        /\ \A i \in 1..n : us[i] = vals[i]
    BY <1>1, <2>1, RowPushed
  <2> HIDE DEF us
  <2>4. QED
    BY <2>2, <2>3
<1>12. Keeps
  BY <1>3, <1>10, <1>11 DEF Keeps, Sound
<1>13. ASSUME NEW T, Agree(heap, frames, vals, T), "ownalias" \notin Shapes
       PROVE  Agree(heap', frames', vals', T)
  <2>1. T[Machine.regs[x]] = y /\ T[Machine.regs[e]] = z
    BY <1>13, LocalIs
  <2>2. Shrunk(heap, g)
    <3>1. Shrunk(m.heap, g)
      BY <1>8 DEF Shrunk
    <3>2. QED
      BY <1>2, <3>1, ShrunkTwice
  <2>3. \E ord : Ordered(g, ord) /\ Meaning(g, T)
    <3>1. Ledger(heap, {}, HeldBy(frames, 1..n), <<>>)
      BY DEF Sound
    <3>2. \E ord : Ordered(heap, ord) /\ Meaning(heap, T)
      BY <1>13 DEF Agree
    <3>3. QED
      BY <1>10, <2>2, <3>1, <3>2, StillMeans
  <2>4. T[f.regs[1]] = y /\ T[f.regs[2]] = z
    BY <1>2, <1>3, <1>5, <1>13, <2>1
  <2>5. \A r \in Locals : (f.own /\ f.dest = r) \/ regs[r] = Machine.regs[r]
    <3>1. ASSUME NEW r \in Locals, r # x PROVE regs[r] = Machine.regs[r]
      <4>1. r \in Regs /\ r # Arg(1)
        BY LocalsAreRegs, ArgsAre
      <4>2. QED
        BY <1>2, <1>6, <3>1, <4>1
    <3>2. QED
      BY <1>5, <3>1
  <2> HIDE DEF y, z
  <2>6. Agree(g, frames', vals', T)
    BY <1>7, <1>11, <1>13, <2>3, <2>4, <2>5, PushedAgrees
  <2>7. QED
    BY <1>3, <2>6
<1>14. QED
  BY <1>3, <1>12, <1>13 DEF Agrees

-----------------------------------------------------------------------------
\* The last row is replaced.
LastRow(vs, x, y) == [vs EXCEPT ![Len(vs)] = <<x, y>>]

\* The rows after the last one is replaced.
LEMMA RowReplaced ==
  ASSUME NEW fs, NEW gs, NEW vs, Rows(fs, vs), Len(fs) \in Nat, Len(fs) >= 1, Len(gs) = Len(fs), NEW x, NEW y
  PROVE  /\ Rows(gs, LastRow(vs, x, y)) /\ LastRow(vs, x, y)[Len(fs)] = <<x, y>>
         /\ \A i \in 1..(Len(fs) - 1) : LastRow(vs, x, y)[i] = vs[i]
<1>1. PICK W : vs \in Seq(W) /\ Len(vs) = Len(fs) /\ \A z \in W : DOMAIN z = Locals
  BY DEF Rows
<1> DEFINE n == Len(fs)
           r == <<x, y>>
           us == [vs EXCEPT ![n] = r]
           U == W \cup {r}
<1>2. DOMAIN r = Locals
  BY DEF Locals
<1> HIDE DEF r
<1>3. us \in Seq(U) /\ Len(us) = n /\ us[n] = r /\ \A i \in 1..(n - 1) : us[i] = vs[i]
  BY <1>1
<1>4. \A z \in U : DOMAIN z = Locals
  BY <1>1, <1>2
<1>5. LastRow(vs, x, y) = us
  BY <1>1 DEF LastRow, r
<1> HIDE DEF us, U
<1>6. Rows(gs, us)
  BY <1>1, <1>3, <1>4 DEF Rows
<1>7. QED
  BY <1>3, <1>5, <1>6 DEF r

\* The last frame is replaced.
LastFrame(fs, f) == [fs EXCEPT ![Len(fs)] = f]

\* The frames after the last one is replaced.
LEMMA LastFrameIs ==
  ASSUME NEW fs \in Seq(FrameFile), Len(fs) >= 1, NEW f \in FrameFile,
         f.dest = fs[Len(fs)].dest, f.own = fs[Len(fs)].own
  PROVE  TopSet(fs, LastFrame(fs, f), f.regs)
<1> DEFINE n == Len(fs)
           gs == [fs EXCEPT ![n] = f]
<1>1. n \in 1..Len(fs) /\ n \in Nat
  OBVIOUS
<1>2. gs \in Seq(FrameFile) /\ Len(gs) = n /\ gs[n] = f /\ \A i \in 1..(n - 1) : gs[i] = fs[i]
  BY <1>1
<1>3. LastFrame(fs, f) = gs
  BY DEF LastFrame
<1> HIDE DEF gs
<1>4. QED
  BY <1>2, <1>3 DEF TopSet

\* OP_TAILCALL: the registers without the arguments are released.
LEMMA TailCallKeeps ==
  ASSUME Sound(heap, frames, vals), Running, NEW e1 \in Locals, NEW e2 \in Locals, TailCall(e1, e2)
  PROVE  Keeps /\ (calls < MaxCalls /\ calls' = calls + 1) /\ Agrees(TRUE)
<1> DEFINE n == Len(frames)
           m == Copy(Copy(Machine, Arg(1), Machine.regs[e1]), Arg(2), Machine.regs[e2])
           p == m.regs[Arg(1)]
           q == m.regs[Arg(2)]
           half == Put(m.regs, Arg(1), Nil)
           left == Put(half, Arg(2), Nil)
           dest == frames[n].dest
           own == frames[n].own
           f == Frame(p, q, dest, own)
           g == DropAll(m.heap, left)
           R == Below(frames)
           none == <<>>
<1>1. /\ frames \in Seq(FrameFile) /\ n \in Nat /\ n >= 1 /\ Machine.regs = Top.regs /\ Machine.heap = heap
      /\ R \in [Cells -> Nat] /\ Books(Machine, R, none) /\ FramesOk(frames) /\ Rows(frames, vals)
      /\ Top = frames[n] /\ frames[n] \in FrameFile
  BY TopBooks DEF Sound
<1>2. /\ Books(m, R, none) /\ Shrunk(heap, m.heap)
      /\ p = Machine.regs[e1] /\ q = Machine.regs[e2]
  <2> DEFINE k == Machine
  <2>1. Books(k, R, none)
    BY <1>1
  <2> HIDE DEF k, R
  <2>2. /\ Books(m, R, none) /\ Shrunk(k.heap, m.heap)
        /\ p = k.regs[e1] /\ q = k.regs[e2]
    BY <2>1, ArgumentsIs DEF k
  <2> HIDE DEF m, p, q
  <2>3. QED
    BY <1>1, <2>2, Zenon DEF k
<1>3. /\ calls < MaxCalls /\ calls' = calls + 1
      /\ heap' = g
      /\ frames' = LastFrame(frames, f)
      /\ vals' = LastRow(vals, V(e1), V(e2))
  <2>1. left = [m.regs EXCEPT ![Arg(1)] = Nil, ![Arg(2)] = Nil]
    BY DEF Put
  <2>2. heap' = DropAll(m.heap, [m.regs EXCEPT ![Arg(1)] = Nil, ![Arg(2)] = Nil])
    BY <1>1, Zenon DEF TailCall
  <2>3. frames' = [frames EXCEPT ![n] = f]
    BY <1>1, Zenon DEF TailCall
  <2>4. calls < MaxCalls /\ calls' = calls + 1 /\ vals' = [vals EXCEPT ![Len(vals)] = <<V(e1), V(e2)>>]
    BY Zenon DEF TailCall
  <2> HIDE DEF m, f, left
  <2>5. QED
    BY <2>1, <2>2, <2>3, <2>4, Zenon DEF LastFrame, LastRow
<1> HIDE DEF m
<1>4. /\ m.regs \in RegFile /\ m.heap \in Heaps /\ Ledger(m.heap, {}, With(R, m.regs), none)
      /\ p \in Refs /\ q \in Refs /\ Nil \in Refs
  BY <1>2, BooksFacts, ArgsAre, RegisterIsThere, BoundsAre
<1>5. /\ f \in FrameFile /\ f.dest = dest /\ f.own = own /\ f.regs \in RegFile
      /\ f.regs[1] = p /\ f.regs[2] = q
      /\ \A o \in Cells : Occurs(f.regs, o) = Bit(p = o) + Bit(q = o)
  <2>1. dest \in 0..2 /\ own \in BOOLEAN
    BY <1>1 DEF FrameFile
  <2> HIDE DEF p, q, own, dest
  <2>2. QED
    BY <1>4, <2>1, FrameIs
<1> HIDE DEF f
<1>6. /\ left \in RegFile /\ left \in Seq(Refs)
      /\ \A o \in Cells : Occurs(left, o) = Occurs(m.regs, o) - Bit(p = o) - Bit(q = o)
  <2>1. half \in RegFile /\ half[Arg(2)] = q
    <3>1. half \in RegFile
      BY <1>4, ArgsAre, PutIs
    <3>2. half[Arg(2)] = m.regs[Arg(2)]
      BY <1>4, ArgsAre, PutAt
    <3>3. QED
      BY <3>1, <3>2
  <2>2. ASSUME NEW o \in Cells PROVE Occurs(left, o) = Occurs(m.regs, o) - Bit(p = o) - Bit(q = o)
    <3>1. Occurs(half, o) = Occurs(m.regs, o) - Bit(p = o) + Bit(Nil = o)
      BY <1>4, ArgsAre, PutCounts
    <3> HIDE DEF half
    <3>2. Occurs(left, o) = Occurs(half, o) - Bit(half[Arg(2)] = o) + Bit(Nil = o)
      BY <1>4, <2>1, ArgsAre, PutCounts
    <3>3. Bit(Nil = o) = 0 /\ Bit(p = o) \in Nat /\ Bit(q = o) \in Nat
      BY DEF Bit, Nil, Cells
    <3>4. Occurs(m.regs, o) \in Nat
      BY <1>2, BooksFacts
    <3> HIDE DEF left, p, q
    <3>5. QED
      BY <2>1, <3>1, <3>2, <3>3, <3>4
  <2> HIDE DEF half
  <2>3. left \in RegFile
    BY <1>4, <2>1, ArgsAre, PutIs
  <2> HIDE DEF left
  <2>4. left \in Seq(Refs)
    <3>1. left \in [1..5 -> Refs] /\ 5 \in Nat
      BY <2>3 DEF RegFile, Regs
    <3>2. QED
      BY <3>1, SeqDef
  <2>5. QED
    BY <2>2, <2>3, <2>4
<1> HIDE DEF left, p, q
<1> DEFINE B == With(R, f.regs)
<1>7. Ledger(g, {}, B, none) /\ Shrunk(m.heap, g)
  <2> DEFINE A == With(R, m.regs)
             X == {}
  <2>1. /\ A \in [Cells -> Nat]
        /\ \A o \in Cells : A[o] = R[o] + Occurs(m.regs, o) /\ Occurs(m.regs, o) \in Nat /\ R[o] \in Nat
    BY <1>1, <1>4, WithIs
  <2>2. B \in [Cells -> Nat] /\ \A o \in Cells : B[o] = R[o] + Occurs(f.regs, o) /\ Occurs(f.regs, o) \in Nat
    BY <1>1, <1>5, WithIs
  <2>3. Ledger(m.heap, {}, A, none)
    BY <1>4
  <2>4. \A o \in Cells : Occurs(none, o) = 0 /\ Bit(p = o) \in Nat /\ Bit(q = o) \in Nat
    BY OccursNone DEF Bit
  <2> HIDE DEF A, B, none
  <2>5. ASSUME NEW o \in Cells PROVE B[o] + Occurs(left, o) = A[o] + Occurs(none, o)
    <3>1. Occurs(f.regs, o) = Bit(p = o) + Bit(q = o) /\ Occurs(left, o) = Occurs(m.regs, o) - Bit(p = o) - Bit(q = o)
      BY <1>5, <1>6
    <3>2. A[o] = R[o] + Occurs(m.regs, o) /\ B[o] = R[o] + Occurs(f.regs, o)
      BY <2>1, <2>2
    <3>3. Occurs(m.regs, o) \in Nat /\ R[o] \in Nat /\ Bit(p = o) \in Nat /\ Bit(q = o) \in Nat /\ Occurs(none, o) = 0
      BY <2>1, <2>4
    <3> HIDE DEF R
    <3>4. QED
      BY <3>1, <3>2, <3>3
  <2>6. Ledger(m.heap, X, B, left)
    <3>0. /\ Evened(A, none, B, left)
          /\ left \in Seq(Refs) /\ A \in [Cells -> Nat] /\ B \in [Cells -> Nat] /\ Ledger(m.heap, {}, A, none)
      BY <1>6, <2>1, <2>2, <2>3, <2>5 DEF Evened
    <3>1. Ledger(m.heap, {}, B, left)
      BY <3>0, Rebalance
    <3>2. QED
      BY <3>1
  <2> HIDE DEF X
  <2>7. Ledger(DropAll(m.heap, left), X, B, <<>>) /\ Shrunk(m.heap, DropAll(m.heap, left))
    BY <2>6, DropAllIs
  <2>8. QED
    BY <2>7 DEF X, none
<1> HIDE DEF g
<1>8. TopSet(frames, frames', f.regs)
  BY <1>1, <1>3, <1>5, LastFrameIs
<1>9. FramesOk(frames') /\ Ledger(g, {}, HeldBy(frames', 1..Len(frames')), <<>>)
  <2> DEFINE w == [heap |-> g, regs |-> f.regs]
  <2>1. Books(w, R, <<>>)
    BY <1>1, <1>5, <1>7, BooksOf
  <2>2. w.regs = f.regs /\ w.heap = g
    OBVIOUS
  <2> HIDE DEF w
  <2>3. FramesOk(frames') /\ Ledger(w.heap, {}, HeldBy(frames', 1..Len(frames')), <<>>)
    BY <1>1, <1>8, <2>1, <2>2, TopSetSound
  <2>4. QED
    BY <2>2, <2>3
<1> DEFINE y == V(e1)
           z == V(e2)
<1>10. /\ Rows(frames', vals') /\ vals'[n] = <<y, z>>
       /\ \A i \in 1..(n - 1) : vals'[i] = vals[i]
  <2> DEFINE us == LastRow(vals, y, z)
  <2>1. Len(frames') = n
    BY <1>8 DEF TopSet
  <2>2. vals' = us
    BY <1>3
  <2> HIDE DEF y, z
  <2>3. /\ Rows(frames', us) /\ us[n] = <<y, z>>
        /\ \A i \in 1..(n - 1) : us[i] = vals[i]
    BY <1>1, <2>1, RowReplaced
  <2> HIDE DEF us
  <2>4. QED
    BY <2>2, <2>3
<1>11. Keeps
  BY <1>3, <1>9, <1>10 DEF Keeps, Sound
<1>12. ASSUME NEW T, Agree(heap, frames, vals, T) PROVE Agree(heap', frames', vals', T)
  <2>1. T[Machine.regs[e1]] = y /\ T[Machine.regs[e2]] = z
    BY <1>12, LocalIs
  <2>2. Shrunk(heap, g)
    BY <1>2, <1>7, ShrunkTwice
  <2>3. \E ord : Ordered(g, ord) /\ Meaning(g, T)
    <3>1. Ledger(heap, {}, HeldBy(frames, 1..n), <<>>)
      BY DEF Sound
    <3>2. \E ord : Ordered(heap, ord) /\ Meaning(heap, T)
      BY <1>12 DEF Agree
    <3>3. QED
      BY <1>9, <2>2, <3>1, <3>2, StillMeans
  <2> HIDE DEF y, z
  <2>4. ASSUME NEW i \in 1..n, NEW r \in Locals, ~Away(frames', i, r)
        PROVE  T[frames'[i].regs[r]] = vals'[i][r]
    <3>1. CASE i = n
      <4>1. r = 1 \/ r = 2
        BY ArgsAre
      <4>2. vals'[i][1] = y /\ vals'[i][2] = z /\ frames'[i].regs = f.regs
        BY <1>8, <1>10, <3>1 DEF TopSet
      <4>3. QED
        BY <1>2, <1>5, <2>1, <4>1, <4>2
    <3>2. CASE i # n
      <4>1. i \in 1..(n - 1) /\ i + 1 \in 1..n /\ i < n
        BY <1>1, <3>2
      <4>2. frames'[i] = frames[i] /\ vals'[i] = vals[i] /\ Len(frames') = n
        BY <1>8, <1>10, <4>1 DEF TopSet
      <4>3. frames'[i + 1].own = frames[i + 1].own /\ frames'[i + 1].dest = frames[i + 1].dest
        <5>1. CASE i + 1 = n
          BY <1>8, <5>1 DEF TopSet
        <5>2. CASE i + 1 # n
          <6>1. i + 1 \in 1..(n - 1)
            BY <1>1, <4>1, <5>2
          <6>2. QED
            BY <1>8, <6>1 DEF TopSet
        <5>3. QED
          BY <5>1, <5>2
      <4>4. ~Away(frames, i, r)
        BY <2>4, <4>1, <4>2, <4>3 DEF Away
      <4>5. T[frames[i].regs[r]] = vals[i][r]
        BY <1>12, <4>4 DEF Agree, Faithful
      <4>6. QED
        BY <4>2, <4>5
    <3>3. QED
      BY <3>1, <3>2
  <2>5. Faithful(frames', vals', T)
    BY <1>8, <2>4 DEF Faithful, TopSet
  <2>6. T[Pool] = TextValue
    BY <1>12 DEF Agree
  <2>7. QED
    BY <1>3, <2>3, <2>5, <2>6 DEF Agree
<1>13. QED
  BY <1>3, <1>11, <1>12 DEF Agrees

-----------------------------------------------------------------------------
\* Registers are a list of references.
LEMMA RegsSeq == ASSUME NEW regs \in RegFile PROVE regs \in Seq(Refs)
<1>1. regs \in [1..5 -> Refs] /\ 5 \in Nat
  BY DEF RegFile, Regs
<1>2. QED
  BY <1>1, SeqDef

\* OP_RET counts the result and releases the registers: it is in hand.
LEMMA ReturnedIs ==
  ASSUME NEW m, NEW rest, Books(m, rest, <<>>), NEW a \in Regs
  PROVE  Ledger(Returned(m, a), {}, rest, <<m.regs[a]>>) /\ Shrunk(m.heap, Returned(m, a))
<1> DEFINE v == m.regs[a]
           s == <<v>>
           none == <<>>
           X == {}
           A == With(rest, m.regs)
           B == [o \in Cells |-> rest[o] + Bit(v = o)]
           g == Clone(m.heap, v)
           h == DropAll(g, m.regs)
<1>1. /\ rest \in [Cells -> Nat] /\ m.regs \in RegFile /\ m.regs \in Seq(Refs)
      /\ Ledger(m.heap, {}, A, <<>>)
      /\ v \in Refs /\ Present(m.heap, v)
  BY BooksFacts, RegsSeq, RegisterIsThere
<1> HIDE DEF v
<1>2. s \in Seq(Refs) /\ none \in Seq(Refs) /\ \A o \in Cells : Occurs(s, o) = Bit(v = o) /\ Occurs(none, o) = 0
  BY <1>1, OccursOne, OccursNone
<1>3. /\ Ledger(g, {}, A, s)
      /\ \A o \in Cells : g[o].kind = m.heap[o].kind /\ g[o].items = m.heap[o].items /\ g[o].start = m.heap[o].start
  <2> HIDE DEF A
  <2> QED
    BY <1>1, CloneIs
<1>4. /\ A \in [Cells -> Nat] /\ B \in [Cells -> Nat]
      /\ \A o \in Cells : /\ A[o] = rest[o] + Occurs(m.regs, o) /\ Occurs(m.regs, o) \in Nat /\ rest[o] \in Nat
                          /\ B[o] = rest[o] + Bit(v = o) /\ Bit(v = o) \in Nat
  BY <1>1, WithIs DEF Bit
<1> HIDE DEF A, B, s, none, g
<1>5. Ledger(g, {}, B, m.regs)
  <2>1. ASSUME NEW o \in Cells PROVE B[o] + Occurs(m.regs, o) = A[o] + Occurs(s, o)
    <3>1. A[o] = rest[o] + Occurs(m.regs, o) /\ B[o] = rest[o] + Bit(v = o) /\ Occurs(s, o) = Bit(v = o)
      BY <1>2, <1>4
    <3>2. Occurs(m.regs, o) \in Nat /\ rest[o] \in Nat /\ Bit(v = o) \in Nat
      BY <1>4
    <3>3. QED
      BY <3>1, <3>2
  <2>2. /\ Evened(A, s, B, m.regs)
        /\ A \in [Cells -> Nat] /\ B \in [Cells -> Nat] /\ Ledger(g, {}, A, s) /\ m.regs \in Seq(Refs)
    BY <1>1, <1>3, <1>4, <2>1 DEF Evened
  <2>3. QED
    BY <2>2, Rebalance
<1>6. Ledger(h, {}, B, none) /\ Shrunk(g, h)
  <2>1. Ledger(g, X, B, m.regs)
    BY <1>5
  <2> HIDE DEF X
  <2>2. Ledger(h, X, B, <<>>) /\ Shrunk(g, h)
    BY <2>1, DropAllIs
  <2>3. QED
    BY <2>2 DEF X, none
<1>7. Ledger(h, {}, rest, s)
  <2>1. ASSUME NEW o \in Cells PROVE rest[o] + Occurs(s, o) = B[o] + Occurs(none, o)
    <3>1. B[o] = rest[o] + Bit(v = o) /\ Occurs(s, o) = Bit(v = o) /\ Occurs(none, o) = 0
      BY <1>2, <1>4
    <3>2. rest[o] \in Nat /\ Bit(v = o) \in Nat
      BY <1>4
    <3>3. QED
      BY <3>1, <3>2
  <2> HIDE DEF h
  <2>2. /\ Evened(B, none, rest, s)
        /\ rest \in [Cells -> Nat] /\ B \in [Cells -> Nat] /\ Ledger(h, {}, B, none) /\ s \in Seq(Refs)
    BY <1>1, <1>2, <1>4, <1>6, <2>1 DEF Evened
  <2>3. QED
    BY <2>2, Rebalance
<1>8. Shrunk(m.heap, h)
  <2>1. Shrunk(m.heap, g)
    BY <1>3 DEF Shrunk
  <2>2. QED
    BY <1>6, <2>1, ShrunkTwice
<1>9. Returned(m, a) = h
  BY DEF Returned, g, v
<1>10. QED
  BY <1>7, <1>8, <1>9 DEF s, v

\* The result reaches the caller's local.
Bound(d, x, v, own) ==
  LET c == Write(d, Res, v) IN IF own THEN MoveOwn(c, x, Res) ELSE Copy(c, x, v)

\* OP_MOVE or OP_MOVE_OWN of the result.
LEMMA BoundIs ==
  ASSUME NEW d, NEW rest, NEW v, Books(d, rest, <<v>>), NEW x \in Locals, NEW own
  PROVE  LET b == Bound(d, x, v, own)
         IN  /\ Books(b, rest, <<>>) /\ Shrunk(d.heap, b.heap) /\ b.regs[x] = v
             /\ \A r \in Locals \ {x} : b.regs[r] = d.regs[r]
<1> DEFINE c == Write(d, Res, v)
           b == Bound(d, x, v, own)
<1>1. x \in Regs /\ Res \in Regs /\ x # Res /\ Locals \subseteq Regs /\ Nil \in Refs
  BY LocalsAreRegs, ArgsAre, BoundsAre
<1>2. Books(c, rest, <<>>) /\ Shrunk(d.heap, c.heap) /\ c.regs = Put(d.regs, Res, v) /\ v \in Refs
  BY <1>1, WriteIs
<1>3. d.regs \in RegFile
  BY BooksFacts
<1> HIDE DEF c
<1>4. c.regs \in RegFile /\ \A r \in Regs : c.regs[r] = IF r = Res THEN v ELSE d.regs[r]
  <2>1. c.regs \in RegFile
    BY <1>2, BooksFacts
  <2>2. \A r \in Regs : Put(d.regs, Res, v)[r] = IF r = Res THEN v ELSE d.regs[r]
    BY <1>1, <1>2, <1>3, PutAt
  <2>3. QED
    BY <1>2, <2>1, <2>2
<1>5. c.regs[Res] = v /\ Present(c.heap, v)
  BY <1>1, <1>2, <1>4, RegisterIsThere
<1>6. CASE own
  <2>1. b = MoveOwn(c, x, Res)
    BY <1>6 DEF Bound, c
  <2>2. Books(b, rest, <<>>) /\ Shrunk(c.heap, b.heap) /\ b.regs = Put(Put(c.regs, x, c.regs[Res]), Res, Nil)
    BY <1>1, <1>2, <2>1, MoveOwnIs
  <2> HIDE DEF b
  <2>3. ASSUME NEW r \in Regs
        PROVE  b.regs[r] = IF r = Res THEN Nil ELSE IF r = x THEN v ELSE c.regs[r]
    <3> DEFINE half == Put(c.regs, x, v)
    <3>1. half \in RegFile
      BY <1>1, <1>2, <1>4, PutIs
    <3>2. half[r] = IF r = x THEN v ELSE c.regs[r]
      BY <1>1, <1>2, <1>4, PutAt
    <3>3. b.regs = Put(half, Res, Nil)
      BY <1>5, <2>2
    <3> HIDE DEF half
    <3>4. Put(half, Res, Nil)[r] = IF r = Res THEN Nil ELSE half[r]
      BY <1>1, <3>1, PutAt
    <3>5. QED
      BY <3>2, <3>3, <3>4
  <2>4. b.regs[x] = v
    BY <1>1, <2>3
  <2>5. ASSUME NEW r \in Locals \ {x} PROVE b.regs[r] = d.regs[r]
    <3>1. r \in Regs /\ r # Res /\ r # x
      BY <1>1, ArgsAre
    <3>2. QED
      BY <1>4, <2>3, <3>1
  <2>6. Shrunk(d.heap, b.heap)
    BY <1>2, <2>2, ShrunkTwice
  <2>7. QED
    BY <2>2, <2>4, <2>5, <2>6 DEF b
<1>7. CASE ~own
  <2>1. b = Copy(c, x, v)
    BY <1>7 DEF Bound, c
  <2>2. Books(b, rest, <<>>) /\ Shrunk(c.heap, b.heap) /\ b.regs = Put(c.regs, x, v)
    BY <1>1, <1>2, <1>5, <2>1, CopyIs
  <2> HIDE DEF b
  <2>3. ASSUME NEW r \in Regs PROVE b.regs[r] = IF r = x THEN v ELSE c.regs[r]
    <3>1. Put(c.regs, x, v)[r] = IF r = x THEN v ELSE c.regs[r]
      BY <1>1, <1>2, <1>4, PutAt
    <3>2. QED
      BY <2>2, <3>1
  <2>4. b.regs[x] = v
    BY <1>1, <2>3
  <2>5. ASSUME NEW r \in Locals \ {x} PROVE b.regs[r] = d.regs[r]
    <3>1. r \in Regs /\ r # Res /\ r # x
      BY <1>1, ArgsAre
    <3>2. QED
      BY <1>4, <2>3, <3>1
  <2>6. Shrunk(d.heap, b.heap)
    BY <1>2, <2>2, ShrunkTwice
  <2>7. QED
    BY <2>2, <2>4, <2>5, <2>6 DEF b
<1>8. QED
  BY <1>6, <1>7

\* All frames but the last.
LEMMA FrontIs ==
  ASSUME NEW W, NEW s \in Seq(W), NEW k \in Nat, Len(s) = k + 1
  PROVE  Front(s) \in Seq(W) /\ Len(Front(s)) = k /\ \A i \in 1..k : Front(s)[i] = s[i]
BY DEF Front

-----------------------------------------------------------------------------
\* The result is made ready, and is in hand when the frame is released.
Resulting(m, h, a) ==
  /\ Books(m, Below(frames), <<>>) /\ m.regs[a] \in Refs
  /\ Ledger(h, {}, Below(frames), <<m.regs[a]>>) /\ Shrunk(m.heap, h)
  /\ \A T : Sens(Machine, T) => \E S : Effect(Machine, T, m, S, Below(frames), Regs)

\* materialize_at_slot, then the release of the frame.
LEMMA ResultIs ==
  ASSUME Sound(heap, frames, vals), Running, NEW a \in Locals, Room(Views({a}))
  PROVE  LET m == Materialize(Machine, a) IN Resulting(m, Returned(m, a), a)
<1> DEFINE m == Materialize(Machine, a)
           h == Returned(m, a)
           v == m.regs[a]
           R == Below(frames)
           none == <<>>
<1>1. R \in [Cells -> Nat] /\ Books(Machine, R, none) /\ a \in Regs /\ Machine.heap = heap
  BY TopBooks, LocalsAreRegs
<1>2. Cardinality(FreeCells(Machine.heap)) >= Bit(ViewIn(Machine, a))
  BY <1>1, ViewsCount DEF Room
<1>3. Ready(Machine, m, R, a)
  <2> DEFINE k == Machine
  <2>1. Books(k, R, <<>>) /\ Cardinality(FreeCells(k.heap)) >= Bit(ViewIn(k, a))
    BY <1>1, <1>2
  <2> HIDE DEF k, R
  <2>2. Ready(k, Materialize(k, a), R, a)
    BY <1>1, <2>1, MaterializeReadies
  <2>3. QED
    BY <2>2 DEF k
<1> HIDE DEF m
<1>4. /\ Books(m, R, none) /\ \A T : Sens(Machine, T) => \E S : Effect(Machine, T, m, S, R, Regs)
  BY <1>3 DEF Ready
<1>5. Ledger(h, {}, R, <<v>>) /\ Shrunk(m.heap, h)
  <2> HIDE DEF R
  <2>1. Books(m, R, <<>>)
    BY <1>4
  <2>2. QED
    BY <1>1, <2>1, ReturnedIs
<1>6. v \in Refs
  BY <1>1, <1>4, RegisterIsThere
<1> HIDE DEF h
<1>7. Resulting(m, h, a)
  BY <1>4, <1>5, <1>6 DEF Resulting
<1>8. QED
  BY <1>7 DEF m, h

\* The values after the return.
LEMMA ResultMeans ==
  ASSUME Sound(heap, frames, vals), Running, NEW a \in Locals, NEW m, NEW h, Resulting(m, h, a),
         NEW g, NEW rest, Ledger(g, {}, rest, <<>>), Shrunk(h, g),
         NEW T, Agree(heap, frames, vals, T)
  PROVE  \E S : /\ \E ord : Ordered(g, ord) /\ Meaning(g, S)
                /\ S[Pool] = TextValue
                /\ S[m.regs[a]] = V(a)
                /\ \A i \in 1..(Len(frames) - 1) : \A r \in Regs : S[frames[i].regs[r]] = T[frames[i].regs[r]]
<1> DEFINE R == Below(frames)
<1>1. a \in Regs /\ T[Machine.regs[a]] = V(a) /\ Sens(Machine, T)
  BY LocalIs
<1>2. PICK S : Effect(Machine, T, m, S, R, Regs)
  BY <1>1 DEF Resulting
<1>3. /\ \E ord : Ordered(m.heap, ord) /\ Meaning(m.heap, S)
      /\ S[Nil] = T[Nil] /\ \A o \in Cells : R[o] > 0 => S[o] = T[o]
      /\ S[m.regs[a]] = V(a)
  BY <1>1, <1>2 DEF Effect, Sens
<1>4. Ledger(m.heap, {}, With(R, m.regs), <<>>) /\ Shrunk(m.heap, g)
  <2>1. Books(m, R, <<>>) /\ Shrunk(m.heap, h)
    BY DEF Resulting
  <2>2. QED
    BY <2>1, BooksFacts, ShrunkTwice
<1>5. \E ord : Ordered(g, ord) /\ Meaning(g, S)
  BY <1>3, <1>4, StillMeans
<1>6. /\ S[Pool] = T[Pool]
      /\ \A i \in 1..(Len(frames) - 1) : \A r \in Regs : S[frames[i].regs[r]] = T[frames[i].regs[r]]
  <2>1. frames \in Seq(FrameFile) /\ Len(frames) \in 1..Len(frames)
    BY TopBooks
  <2>2. \A o \in Cells : HeldBy(frames, 1..(Len(frames) - 1))[o] > 0 => S[o] = T[o]
    BY <1>3 DEF Below
  <2>3. QED
    BY <1>3, <2>1, <2>2, BelowKept
<1>7. T[Pool] = TextValue
  BY DEF Agree
<1>8. QED
  BY <1>3, <1>5, <1>6, <1>7

\* After the last return.
LEMMA NoFrames ==
  /\ <<>> \in Seq(FrameFile) /\ Len(<<>>) = 0 /\ FramesOk(<<>>) /\ Rows(<<>>, <<>>)
<1>1. /\ <<>> \in Seq(FrameFile) /\ Len(<<>>) = 0
  OBVIOUS
<1>2. FramesOk(<<>>)
  BY <1>1, BoundsAre DEF FramesOk
<1>3. Rows(<<>>, <<>>)
  <2> DEFINE W == {}
  <2>1. <<>> \in Seq(W) /\ \A x \in W : DOMAIN x = Locals
    OBVIOUS
  <2> HIDE DEF W
  <2>2. QED
    BY <1>1, <2>1 DEF Rows
<1>4. QED
  BY <1>1, <1>2, <1>3

\* OP_RET of the last frame.
LEMMA LastReturnKeeps ==
  ASSUME Sound(heap, frames, vals), Running, NEW a \in Locals, Return(a), Len(frames) = 1
  PROVE  Keeps /\ calls' = calls /\ Agrees(TRUE)
<1> DEFINE m == Materialize(Machine, a)
           h == Returned(m, a)
           v == m.regs[a]
           g == Drop(h, v)
           none == <<>>
<1>1. Resulting(m, h, a)
  <2>1. Room(Views({a}))
    BY DEF Return
  <2>2. QED
    BY <2>1, ResultIs
<1>2. heap' = g /\ frames' = none /\ vals' = none /\ calls' = calls
  <2>1. Len(frames) - 1 = 0
    OBVIOUS
  <2>2. QED
    BY <2>1, Zenon DEF Return
<1> HIDE DEF m, h, v
<1>3. Ledger(g, {}, Below(frames), none) /\ Shrunk(h, g)
  <2> DEFINE R == Below(frames)
             X == {}
  <2>1. Ledger(h, X, R, <<v>>)
    BY <1>1 DEF Resulting, v
  <2> HIDE DEF R, X
  <2>2. Ledger(Drop(h, v), X, R, <<>>) /\ Shrunk(h, Drop(h, v))
    BY <2>1, DropIs
  <2>3. QED
    BY <2>2 DEF R, X
<1> HIDE DEF g
<1>4. HeldBy(none, 1..Len(none)) = Below(frames)
  <2>1. 1..Len(none) = 1..(Len(frames) - 1)
    OBVIOUS
  <2>2. \A i \in 1..(Len(frames) - 1) : none[i].regs = frames[i].regs
    OBVIOUS
  <2> HIDE DEF none
  <2>3. HeldBy(none, 1..(Len(frames) - 1)) = HeldBy(frames, 1..(Len(frames) - 1))
    BY <2>2, SameFrames
  <2>4. QED
    BY <2>1, <2>3 DEF Below
<1>5. Sound(g, none, none)
  BY <1>3, <1>4, NoFrames DEF Sound
<1>6. Keeps
  BY <1>2, <1>5 DEF Keeps
<1>7. ASSUME NEW T, Agree(heap, frames, vals, T) PROVE \E S : Agree(g, none, none, S)
  <2>1. PICK S : (\E ord : Ordered(g, ord) /\ Meaning(g, S)) /\ S[Pool] = TextValue
    BY <1>1, <1>3, <1>7, ResultMeans
  <2>2. Faithful(none, none, S)
    BY DEF Faithful
  <2>3. QED
    BY <2>1, <2>2 DEF Agree
<1>8. QED
  BY <1>2, <1>6, <1>7 DEF Agrees

-----------------------------------------------------------------------------
\* OP_RET of a frame that another one called.
LEMMA CallerIs ==
  ASSUME NEW fs, FramesOk(fs), NEW k \in Nat, k >= 1, Len(fs) = k + 1
  PROVE  /\ FramesOk(Front(fs)) /\ Front(fs) \in Seq(FrameFile) /\ Len(Front(fs)) = k
         /\ \A i \in 1..k : Front(fs)[i] = fs[i]
         /\ fs[k] \in FrameFile /\ fs[k].regs \in RegFile /\ Below(Front(fs)) \in [Cells -> Nat]
         /\ Below(fs) = With(Below(Front(fs)), fs[k].regs)
<1> DEFINE gs == Front(fs)
<1>1. fs \in Seq(FrameFile) /\ Len(fs) <= MaxDepth /\ \A i \in 2..Len(fs) : fs[i].dest \in Locals
  BY DEF FramesOk
<1>2. gs \in Seq(FrameFile) /\ Len(gs) = k /\ \A i \in 1..k : gs[i] = fs[i]
  BY <1>1, FrontIs
<1> HIDE DEF gs
<1>3. FramesOk(gs)
  <2>1. \A i \in 2..k : i \in 1..k /\ i \in 2..Len(fs)
    OBVIOUS
  <2>2. Len(gs) <= MaxDepth
    BY <1>1, <1>2, BoundsAre
  <2>3. QED
    BY <1>1, <1>2, <2>1, <2>2 DEF FramesOk
<1>4. /\ HeldBy(gs, 1..k) = With(HeldBy(gs, 1..(k - 1)), gs[k].regs)
      /\ HeldBy(gs, 1..(k - 1)) \in [Cells -> Nat]
      /\ gs[k] \in FrameFile /\ gs[k].regs \in RegFile
  <2>1. k \in 1..Len(gs)
    BY <1>2
  <2>2. QED
    BY <1>2, <2>1, UpTo
<1>5. HeldBy(gs, 1..k) = HeldBy(fs, 1..k)
  <2>1. \A i \in 1..k : gs[i].regs = fs[i].regs
    BY <1>2
  <2>2. QED
    BY <2>1, SameFrames
<1>6. Len(fs) - 1 = k /\ gs[k] = fs[k]
  BY <1>2
<1>7. QED
  BY <1>2, <1>3, <1>4, <1>5, <1>6 DEF Below, gs

\* The sequence t is s without its last element.
Shortened(s, t, k) == Len(t) = k /\ Len(s) = k + 1 /\ \A i \in 1..k : t[i] = s[i]

\* The rows of the callers.
LEMMA CallersRows ==
  ASSUME NEW fs, NEW vs, Rows(fs, vs), NEW k \in Nat, Len(fs) = k + 1, NEW gs, Len(gs) = k
  PROVE  Rows(gs, Front(vs)) /\ Shortened(vs, Front(vs), k)
<1>1. PICK W : vs \in Seq(W) /\ Len(vs) = Len(fs) /\ \A x \in W : DOMAIN x = Locals
  BY DEF Rows
<1>2. Front(vs) \in Seq(W) /\ Len(Front(vs)) = k /\ \A i \in 1..k : Front(vs)[i] = vs[i]
  BY <1>1, FrontIs
<1>3. Rows(gs, Front(vs))
  BY <1>1, <1>2 DEF Rows
<1>4. QED
  BY <1>1, <1>2, <1>3 DEF Shortened

\* More than one frame.
LEMMA SeveralAre ==
  ASSUME NEW n \in Nat, n >= 1, n # 1
  PROVE  n \in 2..n /\ n - 1 \in Nat /\ n - 1 >= 1 /\ n - 1 # 0 /\ n = (n - 1) + 1
OBVIOUS

\* The step, on the frames and rows without the last ones.
LEMMA ReturnGives ==
  ASSUME NEW a \in Locals, NEW k, k = Len(frames) - 1, k # 0, Return(a)
  PROVE  LET m == Materialize(Machine, a)
             h == Returned(m, a)
             b == Bound([heap |-> h, regs |-> frames[k].regs], Top.dest, m.regs[a], Top.own)
         IN  /\ heap' = b.heap
             /\ frames' = [Front(frames) EXCEPT ![k].regs = b.regs]
             /\ vals' = [Front(vals) EXCEPT ![k][Top.dest] = V(a)]
             /\ calls' = calls
<1> DEFINE m == Materialize(Machine, a)
           h == Returned(m, a)
           c == Write([heap |-> h, regs |-> frames[k].regs], Res, m.regs[a])
           b == IF Top.own THEN MoveOwn(c, Top.dest, Res) ELSE Copy(c, Top.dest, m.regs[a])
<1>1. /\ heap' = b.heap
      /\ frames' = [Front(frames) EXCEPT ![k].regs = b.regs]
      /\ vals' = [Front(vals) EXCEPT ![k][Top.dest] = V(a)]
      /\ calls' = calls
  BY Zenon DEF Return
<1>2. b = Bound([heap |-> h, regs |-> frames[k].regs], Top.dest, m.regs[a], Top.own)
  BY Zenon DEF Bound
<1> HIDE DEF b
<1>3. QED
  BY <1>1, <1>2, Zenon

-----------------------------------------------------------------------------
\* OP_RET of a frame that another one called: its local gets the result.
LEMMA CallerReturnKeeps ==
  ASSUME Sound(heap, frames, vals), Running, NEW a \in Locals, Return(a), Len(frames) # 1
  PROVE  Keeps /\ calls' = calls /\ Agrees(TRUE)
<1> DEFINE k == Len(frames) - 1
           n == Len(frames)
           m == Materialize(Machine, a)
           h == Returned(m, a)
           v == m.regs[a]
           x == Top.dest
           own == Top.own
           fs == Front(frames)
           vs == Front(vals)
           d == [heap |-> h, regs |-> frames[k].regs]
           b == Bound(d, x, v, own)
           y == V(a)
<1>1. /\ frames \in Seq(FrameFile) /\ n \in Nat /\ k \in Nat /\ k >= 1 /\ n = k + 1 /\ k # 0 /\ n - 1 = k
      /\ Top = frames[n] /\ FramesOk(frames) /\ Rows(frames, vals)
      /\ x \in Locals
  <2>1. /\ frames \in Seq(FrameFile) /\ n \in Nat /\ n >= 1 /\ Top = frames[n] /\ FramesOk(frames) /\ Rows(frames, vals)
    BY TopBooks DEF Sound
  <2>2. n # 1
    OBVIOUS
  <2>4. n \in 2..n /\ k \in Nat /\ k >= 1 /\ n = k + 1 /\ k # 0
    BY <2>1, <2>2, SeveralAre
  <2>5. x \in Locals
    <3>1. frames[n].dest \in Locals
      BY <2>1, <2>4 DEF FramesOk
    <3>2. QED
      BY <2>1, <3>1
  <2>6. QED
    BY <2>1, <2>4, <2>5
<1>2. Resulting(m, h, a)
  <2>1. Room(Views({a}))
    BY DEF Return
  <2>2. QED
    BY <2>1, ResultIs
<1>3. /\ heap' = b.heap
      /\ frames' = [fs EXCEPT ![k].regs = b.regs]
      /\ vals' = [vs EXCEPT ![k][x] = y]
      /\ calls' = calls
  <2>1. k = Len(frames) - 1 /\ k # 0
    BY <1>1
  <2>2. QED
    BY <2>1, ReturnGives, Zenon
<1> HIDE DEF m, h, y
<1>4. /\ FramesOk(fs) /\ fs \in Seq(FrameFile) /\ Len(fs) = k
      /\ \A i \in 1..k : fs[i] = frames[i]
      /\ frames[k] \in FrameFile /\ frames[k].regs \in RegFile /\ Below(fs) \in [Cells -> Nat]
      /\ Below(frames) = With(Below(fs), frames[k].regs)
  BY <1>1, CallerIs
<1>5. /\ Rows(fs, vs) /\ Len(vs) = k /\ Len(vals) = k + 1
      /\ \A i \in 1..k : vs[i] = vals[i]
  <2> HIDE DEF k, v, x, own, d, b, fs
  <2>1. Rows(fs, Front(vals)) /\ Shortened(vals, Front(vals), k)
    BY <1>1, <1>4, CallersRows
  <2> HIDE DEF vs
  <2>2. Rows(fs, vs) /\ Shortened(vals, vs, k)
    BY <2>1 DEF vs
  <2>3. QED
    BY <2>2 DEF Shortened
<1> HIDE DEF fs, vs, k, v, x, own
<1>6. Books(d, Below(fs), <<v>>)
  <2> DEFINE s == <<v>>
             R == Below(fs)
             regs == frames[k].regs
  <2>1. Ledger(h, {}, With(R, regs), s)
    BY <1>2, <1>4 DEF Resulting, v
  <2>2. R \in [Cells -> Nat] /\ regs \in RegFile
    BY <1>4
  <2> HIDE DEF s, R, regs
  <2>3. Books([heap |-> h, regs |-> regs], R, s)
    BY <2>1, <2>2, BooksOf
  <2>4. QED
    BY <2>3 DEF s, R, regs
<1>7. d.heap = h /\ d.regs = frames[k].regs
  OBVIOUS
<1> HIDE DEF d
<1>8. /\ Books(b, Below(fs), <<>>) /\ Shrunk(h, b.heap) /\ b.regs[x] = v
      /\ \A r \in Locals \ {x} : b.regs[r] = frames[k].regs[r]
  <2> DEFINE R == Below(fs)
  <2>1. Books(d, R, <<v>>)
    BY <1>6
  <2> HIDE DEF R
  <2>2. /\ Books(b, R, <<>>) /\ Shrunk(d.heap, b.heap) /\ b.regs[x] = v
        /\ \A r \in Locals \ {x} : b.regs[r] = d.regs[r]
    BY <1>1, <2>1, BoundIs
  <2>3. QED
    BY <1>7, <2>2 DEF R
<1> HIDE DEF b
<1>9. TopSet(fs, frames', b.regs)
  <2>1. b.regs \in RegFile /\ Len(fs) >= 1
    BY <1>1, <1>4, <1>8, BooksFacts
  <2>2. TopSet(fs, [fs EXCEPT ![Len(fs)].regs = b.regs], b.regs)
    BY <1>4, <2>1, TopSetIs
  <2>3. QED
    BY <1>3, <1>4, <2>2
<1>10. FramesOk(frames') /\ Ledger(b.heap, {}, HeldBy(frames', 1..Len(frames')), <<>>)
  BY <1>1, <1>4, <1>8, <1>9, TopSetSound
<1>11. Rows(fs, vals') /\ RowSet(vs, vals', x, y)
  <2>1. vals' = [vs EXCEPT ![Len(vs)][x] = y] /\ Len(vs) >= 1
    BY <1>1, <1>3, <1>5
  <2>2. QED
    BY <1>1, <1>5, <2>1, RowSetIs
<1>12. Rows(frames', vals')
  BY <1>9, <1>11, RowsOf DEF TopSet
<1>13. Keeps
  BY <1>3, <1>10, <1>12 DEF Keeps, Sound
<1>14. ASSUME NEW T, Agree(heap, frames, vals, T) PROVE \E S : Agree(heap', frames', vals', S)
  <2>1. PICK S : /\ \E ord : Ordered(b.heap, ord) /\ Meaning(b.heap, S)
                 /\ S[Pool] = TextValue
                 /\ S[v] = y
                 /\ \A i \in 1..k : \A r \in Regs : S[frames[i].regs[r]] = T[frames[i].regs[r]]
    BY <1>2, <1>8, <1>10, <1>14, ResultMeans DEF v, y, k
  <2>2. ASSUME NEW i \in 1..k, NEW r \in Locals, ~Away(frames', i, r)
        PROVE  S[frames'[i].regs[r]] = vals'[i][r]
    <3>1. r \in Regs /\ i \in Nat /\ i <= k /\ i \in 1..n
      BY <1>1, LocalsAreRegs
    <3>2. CASE i < k
      <4>1. i \in 1..(k - 1) /\ i + 1 \in 1..k /\ (i + 1 < k => i + 1 \in 1..(k - 1))
        BY <1>1, <3>1, <3>2
      <4>2. frames'[i] = frames[i] /\ vals'[i] = vals[i] /\ Len(frames') = k
        BY <1>4, <1>5, <1>9, <1>11, <4>1 DEF TopSet, RowSet
      <4>3. frames'[i + 1].own = frames[i + 1].own /\ frames'[i + 1].dest = frames[i + 1].dest
        <5>1. CASE i + 1 = k
          BY <1>4, <1>9, <4>1, <5>1 DEF TopSet
        <5>2. CASE i + 1 # k
          <6>1. i + 1 \in 1..(k - 1)
            BY <1>1, <3>1, <4>1, <5>2
          <6>2. QED
            BY <1>4, <1>9, <4>1, <6>1 DEF TopSet
        <5>3. QED
          BY <5>1, <5>2
      <4>4. ~Away(frames, i, r)
        BY <1>1, <2>2, <3>2, <4>2, <4>3 DEF Away
      <4>5. T[frames[i].regs[r]] = vals[i][r]
        BY <1>14, <3>1, <4>4 DEF Agree, Faithful
      <4>6. QED
        BY <2>1, <3>1, <4>2, <4>5
    <3>3. CASE i = k
      <4>1. frames'[k].regs = b.regs
        BY <1>4, <1>9 DEF TopSet
      <4>2. CASE r = x
        <5>1. vals'[k][x] = y
          BY <1>5, <1>11 DEF RowSet
        <5>2. QED
          BY <1>8, <2>1, <3>3, <4>1, <4>2, <5>1
      <4>3. CASE r # x
        <5>1. b.regs[r] = frames[k].regs[r]
          BY <1>8, <4>3
        <5>2. ~Away(frames, k, r)
          BY <1>1, <4>3 DEF Away, x
        <5>3. T[frames[k].regs[r]] = vals[k][r]
          BY <1>14, <3>1, <3>3, <5>2 DEF Agree, Faithful
        <5>4. vals'[k][r] = vals[k][r]
          BY <1>5, <1>11, <3>1, <3>3, <4>3 DEF RowSet
        <5>5. QED
          BY <2>1, <3>1, <3>3, <4>1, <5>1, <5>3, <5>4
      <4>4. QED
        BY <4>2, <4>3
    <3>4. QED
      BY <1>1, <3>1, <3>2, <3>3
  <2>3. Len(frames') = k
    BY <1>4, <1>9 DEF TopSet
  <2>4. Faithful(frames', vals', S)
    BY <2>2, <2>3 DEF Faithful
  <2>5. QED
    BY <1>3, <2>1, <2>4 DEF Agree
<1>15. QED
  BY <1>3, <1>13, <1>14 DEF Agrees

\* OP_RET.
LEMMA ReturnKeeps ==
  ASSUME Sound(heap, frames, vals), Running, NEW a \in Locals, Return(a)
  PROVE  Keeps /\ calls' = calls /\ Agrees(TRUE)
BY LastReturnKeeps, CallerReturnKeeps

-----------------------------------------------------------------------------
(***************************************************************************)
(* The inductive invariant.  IInv holds whatever statements are allowed;   *)
(* the values agree when an object is never stored in itself and never     *)
(* moved away beside an alias.                                             *)
(***************************************************************************)
IInv == Sound(heap, frames, vals) /\ calls \in 0..MaxCalls

Meant == \E T : Agree(heap, frames, vals, T)

\* The constant and a free cell.
LEMMA PoolObject ==
  /\ ConstText \in Objects /\ Free \in Objects
  /\ ConstText.kind = "text" /\ ConstText.items = <<Nil>> /\ ConstText.rc = 1
  /\ Free.kind = "free" /\ Free.items = <<>> /\ Free.rc = 0
  /\ Pool \in Cells
<1> DEFINE s == <<Nil>>
<1>1. s \in Seq(Refs) /\ Len(s) = 1 /\ 1 <= MaxLen
  BY BoundsAre
<1>2. ConstText = [kind |-> "text", items |-> s, start |-> 0, rc |-> 1]
  BY DEF ConstText, Object
<1> HIDE DEF s
<1>3. ConstText \in Objects
  BY <1>1, <1>2 DEF Objects, Kinds
<1>4. ConstText.kind = "text" /\ ConstText.items = <<Nil>> /\ ConstText.rc = 1
  BY <1>2 DEF s
<1>5. Free.kind = "free" /\ Free.items = <<>> /\ Free.rc = 0
  BY DEF Free
<1>6. Pool \in Cells
  BY BoundsAre DEF Pool, Cells
<1>7. QED
  BY <1>3, <1>4, <1>5, <1>6, FreeObject

\* The heap at the start.
LEMMA FirstHeap ==
  ASSUME Init
  PROVE  /\ heap \in Heaps /\ heap[Pool] = ConstText
         /\ \A o \in Cells : o # Pool => heap[o] = Free
         /\ \A o \in Cells : InItems(heap, {}, o) = 0
<1>1. /\ heap \in Heaps /\ heap[Pool] = ConstText
      /\ \A o \in Cells : o # Pool => heap[o] = Free
  BY PoolObject DEF Init, Heaps
<1>2. ASSUME NEW o \in Cells PROVE InItems(heap, {}, o) = 0
  <2>0. o # Nil
    BY BoundsAre
  <2>1. ASSUME NEW p \in Cells, NEW i \in DOMAIN heap[p].items PROVE heap[p].items[i] # o
    <3>1. CASE p = Pool
      <4>1. heap[p].items = <<Nil>>
        BY <1>1, <3>1, PoolObject
      <4>2. i = 1
        BY <2>1, <4>1
      <4>3. QED
        BY <2>0, <4>1, <4>2
    <3>2. CASE p # Pool
      <4>1. heap[p].items = <<>>
        BY <1>1, <3>2, PoolObject
      <4>2. QED
        BY <2>1, <4>1
    <3>3. QED
      BY <3>1, <3>2
  <2> DEFINE X == {}
  <2>2. X \in SUBSET Cells /\ \A p \in Cells \ X : \A i \in DOMAIN heap[p].items : heap[p].items[i] # o
    BY <2>1
  <2> HIDE DEF X
  <2>3. InItems(heap, X, o) = 0
    BY <1>1, <2>2, NoneHeld
  <2>4. QED
    BY <2>3 DEF X
<1>3. QED
  BY <1>1, <1>2

\* The frame at the start.
LEMMA FirstFrame ==
  ASSUME Init
  PROVE  /\ FramesOk(frames) /\ Len(frames) = 1 /\ Rows(frames, vals)
         /\ \A r \in Regs : frames[1].regs[r] = Nil
         /\ \A r \in Locals : vals[1][r] = NilValue
<1> DEFINE own == FALSE
           f == Frame(Nil, Nil, 0, own)
           y == <<NilValue, NilValue>>
           W == {y}
<1>1. frames = <<f>> /\ vals = <<y>>
  BY Zenon DEF Init
<1>2. f \in FrameFile /\ \A r \in Regs : f.regs[r] = Nil
  <2>1. Nil \in Refs /\ own \in BOOLEAN /\ 0 \in 0..2
    BY BoundsAre
  <2> HIDE DEF own
  <2>2. f \in FrameFile
    BY <2>1, FrameIs
  <2>3. f.regs = <<Nil, Nil, Nil, Nil, Nil>>
    BY DEF Frame
  <2>4. QED
    BY <2>2, <2>3 DEF Regs
<1>3. y[1] = NilValue /\ y[2] = NilValue /\ DOMAIN y = Locals
  BY DEF Locals
<1> HIDE DEF f, y
<1>4. frames \in Seq(FrameFile) /\ Len(frames) = 1 /\ frames[1] = f
  BY <1>1, <1>2
<1>5. vals \in Seq(W) /\ Len(vals) = 1 /\ vals[1] = y /\ \A x \in W : DOMAIN x = Locals
  BY <1>1, <1>3
<1>6. Rows(frames, vals)
  <2> HIDE DEF W
  <2> QED
    BY <1>4, <1>5 DEF Rows
<1>7. FramesOk(frames)
  <2>1. 2..1 = {} /\ 1 <= MaxDepth
    BY BoundsAre
  <2>2. QED
    BY <1>4, <2>1 DEF FramesOk
<1>8. QED
  BY <1>2, <1>3, <1>4, <1>5, <1>6, <1>7, ArgsAre

\* What is held at the start.
LEMMA FirstHeld ==
  ASSUME Init
  PROVE  /\ HeldBy(frames, 1..Len(frames)) \in [Cells -> Nat]
         /\ \A o \in Cells : HeldBy(frames, 1..Len(frames))[o] = Pooled(o)
<1>1. ASSUME NEW o \in Cells PROVE Pointing(frames, 1..1, o) = {}
  <2>1. SUFFICES ASSUME NEW s \in Pointing(frames, 1..1, o) PROVE FALSE
    OBVIOUS
  <2>2. s \in (1..1) \X Regs /\ frames[s[1]].regs[s[2]] = o
    BY <2>1 DEF Pointing
  <2>3. s[1] = 1 /\ s[2] \in Regs
    BY <2>2
  <2>4. QED
    BY <2>2, <2>3, FirstFrame, BoundsAre
<1>2. IsFiniteSet(1..1) /\ Len(frames) = 1
  <2>1. 1 \in Int
    OBVIOUS
  <2>2. IsFiniteSet(1..1)
    BY <2>1, FS_Interval
  <2>3. QED
    BY <2>2, FirstFrame
<1>3. Cardinality({}) = 0
  BY FS_EmptySet
<1>4. HeldBy(frames, 1..1) \in [Cells -> Nat]
  BY <1>2, HeldByIs
<1>5. ASSUME NEW o \in Cells PROVE HeldBy(frames, 1..1)[o] = Pooled(o)
  BY <1>1, <1>3 DEF HeldBy, Pooled
<1>6. QED
  BY <1>2, <1>4, <1>5

-----------------------------------------------------------------------------
\* The books balance at the start.
LEMMA InitSound == ASSUME Init PROVE IInv
<1> DEFINE none == <<>>
           X == {}
           rest == HeldBy(frames, 1..Len(frames))
<1>1. none \in Seq(Refs) /\ \A o \in Cells : Occurs(none, o) = 0
  BY OccursNone
<1>2. /\ heap \in Heaps /\ heap[Pool] = ConstText
      /\ \A o \in Cells : o # Pool => heap[o] = Free
      /\ \A o \in Cells : InItems(heap, X, o) = 0
  BY FirstHeap
<1>3. rest \in [Cells -> Nat] /\ \A o \in Cells : rest[o] = Pooled(o)
  BY FirstHeld
<1>4. X \in SUBSET Cells /\ \A o \in X : rest[o] > 0
  OBVIOUS
<1>5. \A o \in Cells : heap[o].kind \in {"text", "free"}
  BY <1>2, PoolObject
<1> HIDE DEF X, rest, none
<1>6. Counted(heap, X, rest, none)
  <2>1. ASSUME NEW o \in Cells PROVE heap[o].rc = Pooled(o)
    BY <1>2, PoolObject DEF Pooled
  <2>2. \A o \in Cells : Pooled(o) \in Nat
    BY DEF Pooled
  <2>3. QED
    BY <1>1, <1>2, <1>3, <2>1, <2>2 DEF Counted
<1>7. FreeIffZero(heap)
  BY <1>2, PoolObject DEF FreeIffZero
<1>8. ViewsOk(heap, X)
  BY <1>5 DEF ViewsOk
<1>9. TextsPlain(heap)
  <2>1. ASSUME NEW o \in Cells, heap[o].kind = "text", NEW i \in DOMAIN heap[o].items
        PROVE  heap[o].items[i] = Nil
    <3>1. o = Pool /\ heap[o].items = <<Nil>>
      BY <1>2, <2>1, PoolObject
    <3>2. i = 1
      BY <2>1, <3>1
    <3>3. QED
      BY <3>1, <3>2
  <2>2. QED
    BY <2>1 DEF TextsPlain
<1>10. Ledger(heap, X, rest, none)
  BY <1>1, <1>2, <1>3, <1>4, <1>6, <1>7, <1>8, <1>9 DEF Ledger
<1>11. calls \in 0..MaxCalls
  BY HeapAssumption DEF Init
<1>12. QED
  BY <1>10, <1>11, FirstFrame DEF IInv, Sound, X, rest, none

\* The locals agree at the start.
LEMMA InitMeant == ASSUME Init PROVE Meant
<1> DEFINE T == [p \in Refs |-> IF p = Pool THEN TextValue ELSE NilValue]
           ord == [o \in Cells |-> o]
<1>1. T[Nil] = NilValue /\ T[Pool] = TextValue
  BY PoolObject, BoundsAre
<1>2. ord \in [Cells -> 1..MaxCells] /\ \A o \in Cells : ord[o] = o
  BY DEF Cells
<1> HIDE DEF T, ord
<1>3. ASSUME NEW o \in Cells, heap[o].kind # "free" PROVE T[o] = Composed(heap, T, o)
  <2>1. o = Pool /\ heap[o].kind = "text" /\ heap[o].items = <<Nil>>
    BY <1>3, FirstHeap, PoolObject
  <2>2. Told(heap, o) = "text" /\ Slice(heap, o) = <<Nil>>
    BY <2>1 DEF Told, Slice
  <2>3. [i \in DOMAIN <<Nil>> |-> T[<<Nil>>[i]]] = <<NilValue>>
    BY <1>1
  <2>4. Composed(heap, T, o) = Value("text", <<NilValue>>)
    BY <2>2, <2>3, Zenon DEF Composed
  <2>5. QED
    BY <1>1, <2>1, <2>4 DEF TextValue
<1>4. Meaning(heap, T)
  BY <1>1, <1>3 DEF Meaning
<1>5. Ordered(heap, ord)
  <2>1. ASSUME NEW o \in Cells, NEW i \in DOMAIN heap[o].items PROVE heap[o].items[i] \notin Cells
    <3>1. CASE o = Pool
      <4>1. heap[o].items = <<Nil>>
        BY <3>1, FirstHeap, PoolObject
      <4>2. i = 1
        BY <2>1, <4>1
      <4>3. QED
        BY <4>1, <4>2, BoundsAre
    <3>2. CASE o # Pool
      <4>1. heap[o].items = <<>>
        BY <3>2, FirstHeap, PoolObject
      <4>2. QED
        BY <2>1, <4>1
    <3>3. QED
      BY <3>1, <3>2
  <2>2. QED
    BY <1>2, <2>1 DEF Ordered
<1>6. Faithful(frames, vals, T)
  <2>1. ASSUME NEW i \in 1..Len(frames), NEW r \in Locals PROVE T[frames[i].regs[r]] = vals[i][r]
    <3>0. Len(frames) = 1
      BY FirstFrame
    <3>1. i = 1 /\ r \in Regs
      BY <3>0, LocalsAreRegs
    <3>2. QED
      BY <1>1, <3>1, FirstFrame
  <2>2. QED
    BY <2>1 DEF Faithful
<1>7. Agree(heap, frames, vals, T)
  BY <1>1, <1>4, <1>5, <1>6 DEF Agree
<1>8. QED
  BY <1>7 DEF Meant

\* What one step keeps, and what it needs of the statements that are allowed.
StepKeeps == IInv' /\ (Shapes = {} /\ Meant => Meant')

\* What an action keeps is what a step keeps.
LEMMA KeepsStep ==
  ASSUME IInv, NEW P, (Shapes = {}) => P, Keeps, calls' = calls \/ (calls < MaxCalls /\ calls' = calls + 1), Agrees(P)
  PROVE  StepKeeps
<1>1. calls' \in 0..MaxCalls
  BY HeapAssumption DEF IInv
<1>2. IInv'
  BY <1>1 DEF IInv, Keeps
<1>3. ASSUME Shapes = {}, Meant PROVE Meant'
  BY <1>3 DEF Meant, Agrees
<1>4. QED
  BY <1>2, <1>3 DEF StepKeeps

\* Every action keeps the invariant.
LEMMA NextKeeps == ASSUME IInv, Next PROVE StepKeeps
<1>1. Running /\ Sound(heap, frames, vals)
  BY DEF Next, IInv
<1>2. PICK a \in Locals :
        \/ LoadK(a) \/ ListNew(a) \/ MapNew(a) \/ Return(a)
        \/ \E b \in Locals :
             \/ Move(a, b) \/ ListReverse(a, b) \/ Item(a, b) \/ WindowView(a, b)
             \/ CallOwn(a, b) \/ TailCall(a, b)
             \/ \E c \in Locals :
                  ListAppend(a, b, c) \/ MapSet(a, b, c) \/ TextAdd(a, b, c) \/ Call(a, b, c)
  BY DEF Next
<1> DEFINE yes == TRUE
           plain == "selfstore" \notin Shapes
           fresh == "ownalias" \notin Shapes
<1>3. yes /\ (Shapes = {} => plain) /\ (Shapes = {} => fresh)
  OBVIOUS
<1> HIDE DEF yes, plain, fresh
<1>4. CASE LoadK(a)
  BY <1>1, <1>3, <1>4, LoadKKeeps, KeepsStep DEF yes
<1>5. CASE ListNew(a)
  BY <1>1, <1>3, <1>5, ListNewKeeps, KeepsStep DEF yes
<1>6. CASE MapNew(a)
  BY <1>1, <1>3, <1>6, MapNewKeeps, KeepsStep DEF yes
<1>7. CASE Return(a)
  BY <1>1, <1>3, <1>7, ReturnKeeps, KeepsStep DEF yes
<1>8. CASE \E b \in Locals :
             \/ Move(a, b) \/ ListReverse(a, b) \/ Item(a, b) \/ WindowView(a, b)
             \/ CallOwn(a, b) \/ TailCall(a, b)
             \/ \E c \in Locals :
                  ListAppend(a, b, c) \/ MapSet(a, b, c) \/ TextAdd(a, b, c) \/ Call(a, b, c)
  <2>1. PICK b \in Locals :
             \/ Move(a, b) \/ ListReverse(a, b) \/ Item(a, b) \/ WindowView(a, b)
             \/ CallOwn(a, b) \/ TailCall(a, b)
             \/ \E c \in Locals :
                  ListAppend(a, b, c) \/ MapSet(a, b, c) \/ TextAdd(a, b, c) \/ Call(a, b, c)
    BY <1>8
  <2>2. CASE Move(a, b)
    BY <1>1, <1>3, <2>2, MoveKeeps, KeepsStep DEF yes
  <2>3. CASE ListReverse(a, b)
    BY <1>1, <1>3, <2>3, ListReverseKeeps, KeepsStep DEF yes
  <2>4. CASE Item(a, b)
    BY <1>1, <1>3, <2>4, ItemKeeps, KeepsStep DEF yes
  <2>5. CASE WindowView(a, b)
    BY <1>1, <1>3, <2>5, WindowViewKeeps, KeepsStep DEF yes
  <2>6. CASE CallOwn(a, b)
    BY <1>1, <1>3, <2>6, CallOwnKeeps, KeepsStep DEF fresh
  <2>7. CASE TailCall(a, b)
    BY <1>1, <1>3, <2>7, TailCallKeeps, KeepsStep DEF yes
  <2>8. CASE \E c \in Locals :
               ListAppend(a, b, c) \/ MapSet(a, b, c) \/ TextAdd(a, b, c) \/ Call(a, b, c)
    <3>1. PICK c \in Locals : ListAppend(a, b, c) \/ MapSet(a, b, c) \/ TextAdd(a, b, c) \/ Call(a, b, c)
      BY <2>8
    <3>2. CASE ListAppend(a, b, c)
      BY <1>1, <1>3, <3>2, ListAppendKeeps, KeepsStep DEF plain
    <3>3. CASE MapSet(a, b, c)
      BY <1>1, <1>3, <3>3, MapSetKeeps, KeepsStep DEF plain
    <3>4. CASE TextAdd(a, b, c)
      BY <1>1, <1>3, <3>4, TextAddKeeps, KeepsStep DEF yes
    <3>5. CASE Call(a, b, c)
      BY <1>1, <1>3, <3>5, CallKeeps, KeepsStep DEF yes
    <3>6. QED
      BY <3>1, <3>2, <3>3, <3>4, <3>5
  <2>9. QED
    BY <2>1, <2>2, <2>3, <2>4, <2>5, <2>6, <2>7, <2>8
<1>9. QED
  BY <1>2, <1>4, <1>5, <1>6, <1>7, <1>8

\* So does a step in which nothing happens.
LEMMA IdleKeeps == ASSUME IInv, UNCHANGED vars PROVE StepKeeps
<1>1. heap' = heap /\ calls' = calls /\ frames' = frames /\ vals' = vals
  BY DEF vars
<1>2. IInv' /\ (Meant => Meant')
  BY <1>1, Zenon DEF IInv, Meant
<1>3. QED
  BY <1>2 DEF StepKeeps

-----------------------------------------------------------------------------
\* The parts of the state.
LEMMA SoundHas ==
  ASSUME Sound(heap, frames, vals)
  PROVE  /\ frames \in Seq(FrameFile) /\ Len(frames) \in Nat /\ DOMAIN frames = 1..Len(frames)
         /\ Len(frames) <= MaxDepth /\ Len(vals) = Len(frames) /\ IsFiniteSet(DOMAIN frames)
         /\ heap \in Heaps /\ DOMAIN heap = Cells
         /\ Ledger(heap, {}, HeldBy(frames, DOMAIN frames), <<>>)
<1>1. frames \in Seq(FrameFile) /\ Len(frames) <= MaxDepth /\ Len(vals) = Len(frames)
  BY DEF Sound, FramesOk, Rows
<1>2. Len(frames) \in Nat /\ DOMAIN frames = 1..Len(frames) /\ IsFiniteSet(DOMAIN frames)
  BY <1>1, SeqFinite
<1>3. Ledger(heap, {}, HeldBy(frames, DOMAIN frames), <<>>)
  BY <1>2 DEF Sound
<1>4. heap \in Heaps
  BY <1>3 DEF Ledger
<1>5. QED
  BY <1>1, <1>2, <1>3, <1>4 DEF Heaps

\* A register refers to what is there.
LEMMA RegisterRefers ==
  ASSUME Sound(heap, frames, vals), NEW i \in DOMAIN frames, NEW r \in Regs
  PROVE  frames[i].regs[r] \in Refs /\ Refers(frames[i].regs[r])
<1> DEFINE v == frames[i].regs[r]
<1>1. v \in Refs
  BY SoundHas, UpTo DEF RegFile
<1>2. CASE v = Nil
  BY <1>1, <1>2 DEF Refers
<1>3. CASE v # Nil
  <2>1. v \in Cells
    BY <1>1, <1>3 DEF Refs, Cells, Nil
  <2>2. HeldBy(frames, DOMAIN frames)[v] > 0
    BY <2>1, SoundHas, BelowHolds
  <2>3. heap[v].kind # "free"
    BY <2>1, <2>2, SoundHas, HeldIsThere
  <2>4. QED
    BY <1>1, <2>1, <2>3 DEF Refers
<1>4. QED
  BY <1>2, <1>3

\* The books show that every reference leads to an object.
LEMMA SoundTypeOK == ASSUME IInv PROVE TypeOK
<1>1. Sound(heap, frames, vals) /\ calls \in 0..MaxCalls
  BY DEF IInv
<1>2. /\ DOMAIN heap = Cells /\ heap \in Heaps
      /\ Len(frames) = Len(vals) /\ Len(frames) <= MaxDepth
      /\ Ledger(heap, {}, HeldBy(frames, DOMAIN frames), <<>>)
  BY <1>1, SoundHas
<1>3. ASSUME NEW o \in Cells
      PROVE  /\ heap[o].kind \in Kinds \cup {"free"}
             /\ heap[o].rc \in Nat
             /\ \A i \in DOMAIN heap[o].items : Refers(heap[o].items[i])
             /\ heap[o].kind = "view" =>
                  /\ heap[heap[o].items[1]].kind = "list"
                  /\ heap[o].start \in DOMAIN heap[heap[o].items[1]].items
  <2>1. heap[o].kind \in Kinds \cup {"free"} /\ heap[o].rc \in Nat
    BY <1>2, ObjectIs
  <2>2. ASSUME NEW i \in DOMAIN heap[o].items PROVE Refers(heap[o].items[i])
    <3> DEFINE X == {}
               none == <<>>
               rest == HeldBy(frames, DOMAIN frames)
    <3>1. Ledger(heap, X, rest, none) /\ o \in Cells \ X
      BY <1>2
    <3> HIDE DEF X, none, rest
    <3>2. Present(heap, heap[o].items[i])
      BY <2>2, <3>1, ItemsAreThere
    <3>3. QED
      BY <3>2 DEF Present, Refers
  <2>3. ASSUME heap[o].kind = "view"
        PROVE  /\ heap[heap[o].items[1]].kind = "list"
               /\ heap[o].start \in DOMAIN heap[heap[o].items[1]].items
    <3>1. ViewOk(heap, o)
      BY <1>2, <2>3 DEF Ledger, ViewsOk
    <3>2. heap[o].items[1] \in Cells
      BY <3>1 DEF ViewOk
    <3>3. DOMAIN heap[heap[o].items[1]].items = 1..Len(heap[heap[o].items[1]].items)
      BY <1>2, <3>2, ObjectIs
    <3>4. QED
      BY <3>1, <3>3 DEF ViewOk
  <2>4. QED
    BY <2>1, <2>2, <2>3
<1>4. \A i \in DOMAIN frames : \A r \in Regs : Refers(frames[i].regs[r])
  BY <1>1, RegisterRefers
<1>5. QED
  BY <1>1, <1>2, <1>3, <1>4 DEF TypeOK

\* The holders that the properties name are those of the books.
LEMMA Holders ==
  \A o \in Cells : Registers(o) = Pointing(frames, DOMAIN frames, o) /\ Holding(o) = HeldIn(heap, {}, o)
<1>1. Cells \ {} = Cells
  OBVIOUS
<1>2. QED
  BY <1>1 DEF Registers, Pointing, Holding, HeldIn

\* The count of an object, by its holders.
LEMMA CountIs ==
  ASSUME Sound(heap, frames, vals), NEW o \in Cells
  PROVE  /\ heap[o].rc = Cardinality(Registers(o)) + Cardinality(Holding(o)) + Pooled(o)
         /\ Cardinality(Registers(o)) \in Nat /\ Cardinality(Holding(o)) \in Nat /\ Pooled(o) \in Nat
         /\ Cardinality(Registers(o)) = 0 <=> Registers(o) = {}
         /\ Cardinality(Holding(o)) = 0 <=> Holding(o) = {}
<1> DEFINE none == <<>>
           X == {}
           rest == HeldBy(frames, DOMAIN frames)
<1>1. Ledger(heap, X, rest, none)
  BY SoundHas
<1>2. Occurs(none, o) = 0
  BY OccursNone
<1>3. rest[o] = Cardinality(Pointing(frames, DOMAIN frames, o)) + Pooled(o)
  BY DEF HeldBy
<1>4. InItems(heap, X, o) = Cardinality(HeldIn(heap, X, o))
  BY DEF InItems
<1>5. /\ Cardinality(Pointing(frames, DOMAIN frames, o)) \in Nat
      /\ Cardinality(Pointing(frames, DOMAIN frames, o)) = 0 <=> Pointing(frames, DOMAIN frames, o) = {}
  BY SoundHas, PointingFinite
<1>6. InItems(heap, X, o) \in Nat /\ (InItems(heap, X, o) = 0 <=> HeldIn(heap, X, o) = {})
  BY HeldFinite
<1>7. Registers(o) = Pointing(frames, DOMAIN frames, o) /\ Holding(o) = HeldIn(heap, X, o)
  BY Holders
<1>8. Pooled(o) \in Nat
  BY DEF Pooled
<1> HIDE DEF none, X, rest
<1>9. heap[o].rc = rest[o] + Occurs(none, o) + InItems(heap, X, o)
  BY <1>1 DEF Ledger, Counted
<1>10. QED
  BY <1>2, <1>3, <1>4, <1>5, <1>6, <1>7, <1>8, <1>9

\* The books are the counts.
LEMMA SoundCounts == ASSUME IInv PROVE CountsExact
BY CountIs DEF IInv, CountsExact

\* TypeOK: in every state the registers, items and views refer to objects that
\* have not been freed, and a view looks into a list (drop_rc, as_heap_ref).
THEOREM TypeCorrect == Spec => []TypeOK
<1>1. Init => IInv
  BY InitSound
<1>2. IInv /\ [Next]_vars => IInv'
  BY NextKeeps, IdleKeeps DEF StepKeeps
<1>3. IInv => TypeOK
  BY SoundTypeOK
<1>4. QED
  BY <1>1, <1>2, <1>3, PTL DEF Spec

\* CountsExact: clone_rc and drop_rc are called so that the count of every
\* object is the number of its holders, whatever statements the program has.
THEOREM CountsAreExact == Spec => []CountsExact
<1>1. Init => IInv
  BY InitSound
<1>2. IInv /\ [Next]_vars => IInv'
  BY NextKeeps, IdleKeeps DEF StepKeeps
<1>3. IInv => CountsExact
  BY SoundCounts
<1>4. QED
  BY <1>1, <1>2, <1>3, PTL DEF Spec

-----------------------------------------------------------------------------
(***************************************************************************)
(* What a reference stands for, as the property computes it.               *)
(***************************************************************************)
\* The values to the depth d, from those to the depth below.
Deeper(d, x) ==
  [v \in 0..MaxCells |->
     IF v = Nil THEN NilValue
     ELSE IF d = 0 \/ heap[v].kind = "free" THEN Value("broken", <<>>)
     ELSE Value(IF heap[v].kind = "view" THEN "list" ELSE heap[v].kind,
                [i \in DOMAIN Slice(heap, v) |-> x[Slice(heap, v)[i]]])]

TreesTo(m, g) == [d \in 0..m |-> Deeper(d, g[d - 1])]

\* At depth 0 nothing is looked up.
LEMMA NoDepth == \A x, y : Deeper(0, x) = Deeper(0, y)
BY DEF Deeper

\* There is such a function, by induction on the depth.
LEMMA SomeTrees == \A m \in Nat : \E g : g = TreesTo(m, g)
<1> DEFINE T == {m \in Nat : ~\E g : g = TreesTo(m, g)}
<1>1. SUFFICES ASSUME T # {} PROVE FALSE
  OBVIOUS
<1>2. PICK m \in T : \A k \in T : m <= k
  BY <1>1, Least
<1>3. CASE m = 0
  <2> DEFINE g == [n \in 0..0 |-> Deeper(0, <<>>)]
  <2>1. \A n \in 0..0 : n = 0
    OBVIOUS
  <2>2. g = TreesTo(0, g)
    BY <2>1, NoDepth DEF TreesTo
  <2>3. QED
    BY <1>2, <1>3, <2>2
<1>4. CASE m # 0
  <2>1. m - 1 \in Nat /\ m - 1 \notin T
    BY <1>2, <1>4
  <2>2. PICK g : g = TreesTo(m - 1, g)
    BY <2>1
  <2> DEFINE k == [n \in 0..m |-> IF n = m THEN Deeper(m, g[m - 1]) ELSE g[n]]
  <2>3. \A n \in 0..m : n # 0 => n - 1 \in 0..m - 1 /\ n - 1 # m /\ n - 1 \in 0..m
    BY <1>2
  <2>4. \A n \in 0..m : n # 0 => k[n - 1] = g[n - 1]
    BY <2>3
  <2>5. \A n \in 0..m - 1 : g[n] = Deeper(n, g[n - 1])
    <3> HIDE DEF T
    <3> QED
      BY <2>2 DEF TreesTo
  <2>6. \A n \in 0..m : n = m \/ n \in 0..m - 1
    BY <1>2
  <2>7. \A n \in 0..m : k[n] = IF n = m THEN Deeper(m, g[m - 1]) ELSE g[n]
    OBVIOUS
  <2> HIDE DEF k
  <2>8. \A n \in 0..m : k[n] = Deeper(n, k[n - 1])
    <3> SUFFICES ASSUME NEW n \in 0..m PROVE k[n] = Deeper(n, k[n - 1])
      OBVIOUS
    <3>1. CASE n = m
      BY <1>4, <2>4, <2>7, <3>1
    <3>2. CASE n # m
      <4>1. k[n] = Deeper(n, g[n - 1])
        BY <2>5, <2>6, <2>7, <3>2
      <4>2. CASE n = 0
        BY <4>1, <4>2, NoDepth
      <4>3. CASE n # 0
        BY <2>4, <4>1, <4>3
      <4>4. QED
        BY <4>2, <4>3
    <3>3. QED
      BY <3>1, <3>2
  <2>9. k = [n \in 0..m |-> k[n]]
    BY DEF k
  <2>10. k = TreesTo(m, k)
    BY <2>8, <2>9 DEF TreesTo
  <2>11. QED
    BY <1>2, <2>10
<1>5. QED
  BY <1>3, <1>4

\* TreeAt is one.
LEMMA TreeAtIs == \A d \in 0..MaxCells : TreeAt[d] = Deeper(d, TreeAt[d - 1])
<1> DEFINE a == CHOOSE g : g = TreesTo(MaxCells, g)
<1>1. MaxCells \in Nat
  BY BoundsAre
<1>2. a = TreesTo(MaxCells, a)
  BY <1>1, SomeTrees
<1>3. TreeAt = a
  BY DEF TreeAt, TreesTo, Deeper
<1> HIDE DEF a
<1>4. \A d \in 0..MaxCells : a[d] = Deeper(d, a[d - 1])
  BY <1>2 DEF TreesTo
<1>5. QED
  BY <1>3, <1>4

-----------------------------------------------------------------------------
\* The items that an object shows are there and rank below it.
LEMMA SliceBelow ==
  ASSUME Sound(heap, frames, vals), Running, NEW ord, Ordered(heap, ord), NEW o \in Cells, heap[o].kind # "free",
         NEW i \in DOMAIN Slice(heap, o)
  PROVE  LET u == Slice(heap, o)[i] IN u \in Refs /\ Present(heap, u) /\ (u \in Cells => ord[u] < ord[o])
<1> DEFINE u == Slice(heap, o)[i]
<1>1. Books(Machine, Below(frames), <<>>) /\ Machine.heap = heap
  BY TopBooks
<1>2. u \in Refs /\ Present(heap, u)
  <2> DEFINE none == <<>>
             m == Machine
  <2>1. Books(m, Below(frames), none) /\ m.heap = heap
    BY <1>1
  <2> HIDE DEF none, m, u
  <2>2. LET s == Slice(m.heap, o)
        IN  DOMAIN s = 1..Len(s) /\ s \in Seq(Refs) /\ \A j \in 1..Len(s) : Present(m.heap, s[j])
    BY <2>1, SliceIs
  <2> DEFINE s == Slice(heap, o)
  <2>3. DOMAIN s = 1..Len(s) /\ s \in Seq(Refs) /\ \A j \in 1..Len(s) : Present(heap, s[j])
    BY <2>1, <2>2
  <2>4. i \in 1..Len(s) /\ u = s[i]
    BY <2>3 DEF u
  <2> HIDE DEF s
  <2>5. QED
    BY <2>3, <2>4
<1>3. ASSUME u \in Cells PROVE ord[u] < ord[o]
  <2>1. ord \in [Cells -> 1..MaxCells] /\ \A p \in Cells : \A j \in DOMAIN heap[p].items :
          heap[p].items[j] \in Cells => ord[heap[p].items[j]] < ord[p]
    BY DEF Ordered
  <2>2. CASE heap[o].kind = "view"
    <3> DEFINE l == heap[o].items[1]
               j == heap[o].start
    <3>1. ViewOk(heap, o) /\ heap \in Heaps
      <4>1. ViewsOk(heap, {}) /\ heap \in Heaps
        BY DEF Sound, Ledger
      <4>2. QED
        BY <2>2, <4>1 DEF ViewsOk
    <3>2. l \in Cells /\ j \in DOMAIN heap[l].items /\ 1 \in DOMAIN heap[o].items
      <4>1. l \in Cells /\ j \in 1..Len(heap[l].items) /\ Len(heap[o].items) = 1
        BY <3>1 DEF ViewOk
      <4>2. DOMAIN heap[l].items = 1..Len(heap[l].items) /\ DOMAIN heap[o].items = 1..Len(heap[o].items)
        BY <3>1, <4>1, ObjectIs
      <4>3. QED
        BY <4>1, <4>2
    <3>3. Slice(heap, o) = <<heap[l].items[j]>>
      BY <2>2 DEF Slice
    <3>4. u = heap[l].items[j]
      BY <3>3
    <3> HIDE DEF u, j
    <3>5. ord[l] < ord[o]
      BY <2>1, <3>2
    <3> HIDE DEF l
    <3>6. ord[u] < ord[l]
      BY <1>3, <2>1, <3>2, <3>4
    <3>7. ord[u] \in Int /\ ord[l] \in Int /\ ord[o] \in Int
      BY <1>3, <2>1, <3>2
    <3>8. QED
      BY <3>5, <3>6, <3>7
  <2>3. CASE heap[o].kind # "view"
    <3>1. Slice(heap, o) = heap[o].items
      BY <2>3 DEF Slice
    <3>2. QED
      BY <1>3, <2>1, <3>1
  <2>4. QED
    BY <2>2, <2>3
<1>4. QED
  BY <1>2, <1>3

\* Objects of rank d and below are told apart to the depth d.
Deep(d, v, ord) == v = Nil \/ (v \in Cells /\ heap[v].kind # "free" /\ ord[v] <= d)

\* An object has been told at the depth of its rank.
LEMMA TreeMeans ==
  ASSUME Sound(heap, frames, vals), Running, NEW T, NEW ord, Ordered(heap, ord), Meaning(heap, T)
  PROVE  \A d \in 0..MaxCells : \A v \in Refs : Deep(d, v, ord) => TreeAt[d][v] = T[v]
<1> DEFINE Good(d) == \A v \in Refs : Deep(d, v, ord) => TreeAt[d][v] = T[v]
           Bad == {d \in 0..MaxCells : ~Good(d)}
<1>1. SUFFICES ASSUME Bad # {} PROVE FALSE
  OBVIOUS
<1>2. MaxCells \in Nat /\ 0..MaxCells \subseteq Nat /\ Refs = 0..MaxCells /\ ord \in [Cells -> 1..MaxCells]
  BY BoundsAre DEF Refs, Ordered
<1>3. PICK d \in Bad : \A k \in Bad : d <= k
  <2>1. Bad \in SUBSET Nat
    BY <1>2
  <2> HIDE DEF Bad
  <2>2. QED
    BY <1>1, <2>1, Least
<1>4. d \in 0..MaxCells /\ ~Good(d)
  BY <1>3
<1>5. PICK v \in Refs : Deep(d, v, ord) /\ TreeAt[d][v] # T[v]
  BY <1>4
<1> DEFINE x == TreeAt[d - 1]
<1>6. TreeAt[d][v] =
        IF v = Nil THEN NilValue
        ELSE IF d = 0 \/ heap[v].kind = "free" THEN Value("broken", <<>>)
        ELSE Value(Told(heap, v), [i \in DOMAIN Slice(heap, v) |-> x[Slice(heap, v)[i]]])
  <2> HIDE DEF Bad, Good, x
  <2>1. TreeAt[d] = Deeper(d, x)
    BY <1>4, TreeAtIs DEF x
  <2>2. QED
    BY <1>2, <2>1, Zenon DEF Deeper, Told
<1>7. v # Nil
  BY <1>5, <1>6 DEF Meaning
<1>8. v \in Cells /\ heap[v].kind # "free" /\ ord[v] <= d
  BY <1>5, <1>7 DEF Deep
<1>9. d # 0 /\ d - 1 \in 0..MaxCells /\ d - 1 < d
  <2>1. ord[v] \in 1..MaxCells /\ d \in 0..MaxCells
    BY <1>2, <1>4, <1>8
  <2> HIDE DEF Bad, Good, x
  <2>2. QED
    BY <1>2, <1>8, <2>1
<1>10. Good(d - 1)
  <2>1. d - 1 \notin Bad
    <3>1. ASSUME d - 1 \in Bad PROVE FALSE
      <4>1. d <= d - 1
        BY <1>3, <3>1
      <4>2. d \in Int
        BY <1>2, <1>4
      <4>3. QED
        BY <4>1, <4>2
    <3>2. QED
      BY <3>1
  <2>2. QED
    BY <1>9, <2>1
<1>11. ASSUME NEW i \in DOMAIN Slice(heap, v) PROVE x[Slice(heap, v)[i]] = T[Slice(heap, v)[i]]
  <2> DEFINE u == Slice(heap, v)[i]
  <2>1. u \in Refs /\ Present(heap, u) /\ (u \in Cells => ord[u] < ord[v])
    <3> HIDE DEF Bad, Good, x
    <3>1. QED
      BY <1>8, SliceBelow
  <2> HIDE DEF u
  <2>2. Deep(d - 1, u, ord)
    <3>1. CASE u = Nil
      BY <3>1 DEF Deep
    <3>2. CASE u # Nil
      <4>1. u \in Cells /\ heap[u].kind # "free" /\ ord[u] < ord[v]
        BY <2>1, <3>2 DEF Present
      <4>2. ord[u] \in Int /\ ord[v] \in Int /\ d \in Int
        BY <1>2, <1>4, <1>8, <4>1
      <4>3. ord[u] <= d - 1
        BY <1>8, <4>1, <4>2
      <4>4. QED
        BY <4>1, <4>3 DEF Deep
    <3>3. QED
      BY <3>1, <3>2
  <2>3. x[u] = T[u]
    BY <1>10, <2>1, <2>2
  <2>4. QED
    BY <2>3 DEF u
<1>12. TreeAt[d][v] = Value(Told(heap, v), [i \in DOMAIN Slice(heap, v) |-> T[Slice(heap, v)[i]]])
  <2> HIDE DEF Bad, Good, x
  <2>1. TreeAt[d][v] = Value(Told(heap, v), [i \in DOMAIN Slice(heap, v) |-> x[Slice(heap, v)[i]]])
    BY <1>6, <1>7, <1>8, <1>9
  <2>2. [i \in DOMAIN Slice(heap, v) |-> x[Slice(heap, v)[i]]] = [i \in DOMAIN Slice(heap, v) |-> T[Slice(heap, v)[i]]]
    BY <1>11
  <2>3. QED
    BY <2>1, <2>2
<1>13. T[v] = Value(Told(heap, v), [i \in DOMAIN Slice(heap, v) |-> T[Slice(heap, v)[i]]])
  BY <1>8 DEF Meaning, Composed
<1>14. QED
  BY <1>5, <1>12, <1>13

\* The values agree, so the trees do.
LEMMA SoundValues == ASSUME IInv, Meant PROVE ValueSemantics
<1>1. Sound(heap, frames, vals)
  BY DEF IInv
<1>2. PICK T : Agree(heap, frames, vals, T)
  BY DEF Meant
<1>3. PICK ord : Ordered(heap, ord) /\ Meaning(heap, T)
  BY <1>2 DEF Agree
<1>4. ASSUME NEW i \in DOMAIN frames, NEW r \in Locals
      PROVE  \/ i < Len(frames) /\ frames[i + 1].own /\ frames[i + 1].dest = r
             \/ Tree(frames[i].regs[r]) = vals[i][r]
  <2> DEFINE v == frames[i].regs[r]
  <2>1. DOMAIN frames = 1..Len(frames) /\ Len(frames) \in Nat /\ r \in Regs
    BY <1>1, SoundHas, LocalsAreRegs
  <2>2. Running
    <3>1. Len(frames) # 0
      BY <2>1
    <3>2. QED
      BY <3>1 DEF Running
  <2>3. v \in Refs /\ Refers(v)
    BY <1>1, <2>1, RegisterRefers
  <2>4. CASE Away(frames, i, r)
    BY <2>4 DEF Away
  <2>5. CASE ~Away(frames, i, r)
    <3>1. T[v] = vals[i][r]
      BY <1>2, <2>1, <2>5 DEF Agree, Faithful
    <3> HIDE DEF v
    <3>2. Deep(MaxCells, v, ord)
      <4>1. ord \in [Cells -> 1..MaxCells] /\ MaxCells \in Nat
        BY <1>3, BoundsAre DEF Ordered
      <4>2. ASSUME v \in Cells PROVE ord[v] <= MaxCells
        BY <4>1, <4>2
      <4>3. QED
        BY <2>3, <4>2 DEF Deep, Refers
    <3>3. MaxCells \in 0..MaxCells
      BY BoundsAre
    <3>4. TreeAt[MaxCells][v] = T[v]
      BY <1>1, <1>3, <2>2, <2>3, <3>2, <3>3, TreeMeans
    <3>5. QED
      BY <3>1, <3>4 DEF Tree, v
  <2>6. QED
    BY <2>4, <2>5
<1>5. QED
  BY <1>4 DEF ValueSemantics

-----------------------------------------------------------------------------
\* Some object of a set of objects ranks highest.
LEMMA Highest ==
  ASSUME NEW ord \in [Cells -> 1..MaxCells], NEW S \in SUBSET Cells, S # {}
  PROVE  \E p \in S : \A q \in S : ord[q] <= ord[p]
<1> DEFINE T == {MaxCells - ord[p] : p \in S}
<1>1. MaxCells \in Nat
  BY BoundsAre
<1>2. \A p \in S : ord[p] \in 1..MaxCells /\ MaxCells - ord[p] \in Nat
  BY <1>1
<1>3. T \in SUBSET Nat /\ T # {}
  BY <1>2
<1>4. PICK k \in T : \A j \in T : k <= j
  <2> HIDE DEF T
  <2> QED
    BY <1>3, Least
<1>5. PICK p \in S : k = MaxCells - ord[p]
  BY <1>4
<1>6. ASSUME NEW q \in S PROVE ord[q] <= ord[p]
  <2>1. MaxCells - ord[p] <= MaxCells - ord[q]
    BY <1>4, <1>5
  <2>2. ord[p] \in Int /\ ord[q] \in Int
    BY <1>2
  <2> HIDE DEF T
  <2>3. QED
    BY <1>1, <2>1, <2>2
<1>7. QED
  BY <1>6

\* What is alive is reached: of the objects that are not, the highest would
\* have no holder.
LEMMA LiveIsReached ==
  ASSUME Sound(heap, frames, vals), NEW ord, Ordered(heap, ord),
         NEW S \in SUBSET Cells, Roots \subseteq S, Closed(S), NEW o \in Cells, heap[o].kind # "free"
  PROVE  o \in S
<1> DEFINE Lost == {p \in Cells \ S : heap[p].kind # "free"}
<1>1. SUFFICES ASSUME o \notin S PROVE FALSE
  OBVIOUS
<1>2. ord \in [Cells -> 1..MaxCells] /\ Lost \in SUBSET Cells /\ Lost # {}
  BY <1>1 DEF Ordered
<1>3. PICK p \in Lost : \A q \in Lost : ord[q] <= ord[p]
  <2> HIDE DEF Lost
  <2> QED
    BY <1>2, Highest
<1>4. p \in Cells /\ p \notin S /\ heap[p].kind # "free"
  BY <1>3
<1>5. FreeIffZero(heap) /\ heap \in Heaps
  BY DEF Sound, Ledger
<1>6. Registers(p) = {} /\ p # Pool
  BY <1>4 DEF Roots
<1>7. Holding(p) # {}
  <2>1. heap[p].rc # 0
    BY <1>4, <1>5 DEF FreeIffZero
  <2>2. Pooled(p) = 0
    BY <1>6 DEF Pooled
  <2>3. QED
    BY <1>4, <1>6, <2>1, <2>2, CountIs
<1>8. PICK s \in Holding(p) : TRUE
  BY <1>7
<1> DEFINE q == s[1]
           i == s[2]
<1>9. q \in Cells /\ i \in 1..MaxLen /\ i <= Len(heap[q].items) /\ heap[q].items[i] = p
  BY <1>8 DEF Holding
<1>10. q \notin S
  BY <1>4, <1>8 DEF Closed
<1> HIDE DEF q, i
<1>11. i \in DOMAIN heap[q].items
  <2>1. DOMAIN heap[q].items = 1..Len(heap[q].items) /\ Len(heap[q].items) \in Nat
    BY <1>5, <1>9, ObjectIs
  <2>2. i \in Nat /\ i >= 1
    BY <1>9
  <2>3. QED
    BY <1>9, <2>1, <2>2
<1>12. heap[q].kind # "free"
  <2>1. ASSUME heap[q].kind = "free" PROVE FALSE
    <3>1. heap[q].items = <<>>
      BY <1>5, <1>9, <2>1 DEF FreeIffZero
    <3>2. QED
      BY <1>11, <3>1
  <2>2. QED
    BY <2>1
<1>13. ord[p] < ord[q]
  BY <1>4, <1>9, <1>11 DEF Ordered
<1>14. ord[q] <= ord[p]
  BY <1>3, <1>9, <1>10, <1>12
<1>15. ord[p] \in Int /\ ord[q] \in Int
  BY <1>2, <1>4, <1>9
<1>16. QED
  BY <1>13, <1>14, <1>15

\* The live objects are one of the sets that have the roots and are closed.
LEMMA LiveIsClosed ==
  ASSUME Sound(heap, frames, vals)
  PROVE  Roots \subseteq Live(heap) /\ Closed(Live(heap))
<1>1. ASSUME NEW o \in Cells, heap[o].kind = "free" PROVE Registers(o) = {} /\ Holding(o) = {} /\ o # Pool
  <2>1. heap[o].rc = 0
    BY <1>1 DEF Sound, Ledger, FreeIffZero
  <2>2. Cardinality(Registers(o)) = 0 /\ Cardinality(Holding(o)) = 0 /\ Pooled(o) = 0
    BY <2>1, CountIs
  <2>3. QED
    BY <2>2, CountIs DEF Pooled
<1>2. Roots \subseteq Live(heap)
  BY <1>1, PoolObject DEF Roots, Live
<1>3. Closed(Live(heap))
  BY <1>1 DEF Closed, Live
<1>4. QED
  BY <1>2, <1>3

\* The objects are ranked, so what is alive is reached.
LEMMA SoundGarbage == ASSUME IInv, Meant PROVE NoGarbage
<1>1. Sound(heap, frames, vals)
  BY DEF IInv
<1>2. PICK ord : Ordered(heap, ord)
  BY DEF Meant, Agree
<1>3. ASSUME NEW o \in Cells, heap[o].kind # "free" PROVE o \in Reached
  BY <1>1, <1>2, <1>3, LiveIsReached DEF Reached
<1>4. ASSUME NEW o \in Reached PROVE o \in Live(heap)
  BY <1>1, <1>4, LiveIsClosed DEF Reached, Live
<1>5. QED
  BY <1>3, <1>4 DEF NoGarbage, Live, Reached

\* ValueSemantics: writing in place, moving and sharing are never seen: every
\* local has the value it would have if each instruction built a new object
\* (OP_LISTAPPEND, OP_MSET, OP_ADD_SS, OP_REV, OP_WINDOW_VIEW, OP_CALL_OWN1),
\* when no object is stored in itself and no alias travels with a moved local.
THEOREM SharingInvisible == ASSUME Shapes = {} PROVE Spec => []ValueSemantics
<1>1. Init => IInv /\ Meant
  BY InitSound, InitMeant
<1>2. (IInv /\ Meant) /\ [Next]_vars => (IInv /\ Meant)'
  BY NextKeeps, IdleKeeps DEF StepKeeps
<1>3. IInv /\ Meant => ValueSemantics
  BY SoundValues
<1>4. QED
  BY <1>1, <1>2, <1>3, PTL DEF Spec

\* NoGarbage: what no register and no constant leads to has been freed by
\* drop_rc, because objects never form a cycle.
THEOREM NothingLeaks == ASSUME Shapes = {} PROVE Spec => []NoGarbage
<1>1. Init => IInv /\ Meant
  BY InitSound, InitMeant
<1>2. (IInv /\ Meant) /\ [Next]_vars => (IInv /\ Meant)'
  BY NextKeeps, IdleKeeps DEF StepKeeps
<1>3. IInv /\ Meant => NoGarbage
  BY SoundGarbage
<1>4. QED
  BY <1>1, <1>2, <1>3, PTL DEF Spec
=============================================================================
