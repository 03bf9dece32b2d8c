------------------------------- MODULE VmHeap -------------------------------
(***************************************************************************)
(* Values of the register VM (src/vm/mod.rs).  The language has value      *)
(* semantics: `xs = += xs e` builds a new list.  The VM shares heap        *)
(* objects between registers, counts the references (clone_rc, drop_rc)    *)
(* and overwrites an object in place when the instruction writes back to   *)
(* the register it reads and the count is 1.                               *)
(*                                                                         *)
(* The state is the registers of every frame and the heap; `vals` is what  *)
(* the program means, the same locals holding values that nobody shares.   *)
(* One action is one instruction, or the instructions of one statement     *)
(* that rebinds a local to a call.                                         *)
(***************************************************************************)
EXTENDS Integers, Sequences, FiniteSets, SequencesExt

CONSTANTS
  MaxCells,  \* bound: the heap's cells
  MaxLen,    \* bound: items of one object
  MaxDepth,  \* bound: frames
  MaxCalls,  \* bound: calls made, tail calls included
  Shapes     \* the statements allowed beside the plain ones: see ShapeNames

\* "selfstore": `xs = += xs xs` and `m = mset m k m`.
\* "ownalias": `x = f x x`, the rebound local among the other arguments.
ShapeNames == {"selfstore", "ownalias"}

ASSUME HeapAssumption ==
  /\ {MaxCells, MaxLen, MaxDepth} \subseteq Nat \ {0}
  /\ MaxCalls \in Nat
  /\ Shapes \subseteq ShapeNames

VARIABLES
  heap,    \* the objects
  calls,   \* calls so far
  frames,  \* CallFrame and its registers, innermost last
  vals     \* history: the locals of each frame, as values

vars == <<heap, calls, frames, vals>>

-----------------------------------------------------------------------------
\* Two locals, which are also the parameters, and the window of a call: the
\* result register and two argument registers.
Locals == 1..2
Res == 3
Arg(i) == 3 + i
Regs == 1..5

Cells == 1..MaxCells

\* A register or an item holds the cell of an object, or nil, which stands for
\* every value that is not counted (numbers, booleans, function references).
Nil == 0
IsRef(v) == v > 0

Kinds == {"text", "list", "map", "view"}

\* The values of a map stand in items, one per key; the model has one key.  A
\* view's item is the list it looks into, from position start on, one long.
Object(kind, items, start) == [kind |-> kind, items |-> items, start |-> start, rc |-> 1]

Free == [kind |-> "free", items |-> <<>>, start |-> 0, rc |-> 0]

\* nan_constants holds one text and its own reference to it.
Pool == 1

ConstText == Object("text", <<Nil>>, 0)

Frame(p1, p2, dest, own) ==
  [regs |-> <<p1, p2, Nil, Nil, Nil>>, dest |-> dest, own |-> own]

Top == Last(frames)

FreeCells(h) == {o \in DOMAIN h : h[o].kind = "free"}

NewCell(h) == CHOOSE o \in FreeCells(h) : \A p \in FreeCells(h) : o <= p

Room(n) == Cardinality(FreeCells(heap)) >= n

IsObject(v, kinds) == IsRef(v) /\ heap[v].kind \in kinds

-----------------------------------------------------------------------------
\* How often v is in s, a sequence or the registers.
Occurs(s, v) == Cardinality({i \in DOMAIN s : s[i] = v})

\* NanVal::clone_rc, of every reference in s and of one.
CloneAll(h, s) == [o \in DOMAIN h |-> [h[o] EXCEPT !.rc = @ + Occurs(s, o)]]

Clone(h, v) == CloneAll(h, <<v>>)

\* NanVal::drop_rc of the first reference in t.todo; when it was the last one to
\* its object, Drop for HeapObj goes through the items before anything else.
Release(t) ==
  IF t.todo = <<>> THEN t
  ELSE LET v == Head(t.todo)
           rest == Tail(t.todo)
       IN  IF ~IsRef(v) THEN [heap |-> t.heap, todo |-> rest]
           ELSE IF t.heap[v].rc > 1
           THEN [heap |-> [t.heap EXCEPT ![v].rc = @ - 1], todo |-> rest]
           ELSE [heap |-> [t.heap EXCEPT ![v] = Free], todo |-> t.heap[v].items \o rest]

\* Every reference is dropped once, and of each object the items at most once.
MostDrops(s) == Len(s) + MaxLen * MaxCells

DropAll(h, s) ==
  LET after[n \in 0..MostDrops(s)] ==
        IF n = 0 THEN [heap |-> h, todo |-> s] ELSE Release(after[n - 1])
  IN  after[MostDrops(s)].heap

Drop(h, v) == DropAll(h, <<v>>)

(***************************************************************************)
(* Operators on m = [heap, regs], the heap and the running frame.          *)
(***************************************************************************)
Machine == [heap |-> heap, regs |-> Top.regs]

\* Mutant: the old value of the register is not released.
WriteOver(m, a, v) == [m EXCEPT !.regs[a] = v]

\* reg_set!: v is counted already.
Write(m, a, v) == [heap |-> Drop(m.heap, m.regs[a]), regs |-> [m.regs EXCEPT ![a] = v]]

\* A new object in register a; its items are counted here.
WriteNew(m, a, kind, items, start) ==
  LET o == NewCell(m.heap)
  IN  Write([m EXCEPT !.heap = [CloneAll(@, items) EXCEPT ![o] = Object(kind, items, start)]],
            a, o)

\* OP_MOVE, OP_LOADK.
Copy(m, a, v) == Write([m EXCEPT !.heap = Clone(@, v)], a, v)

\* Mutant: the source keeps its reference.
MoveKeeping(m, a, b) == Write(m, a, m.regs[b])

\* OP_MOVE_OWN: the reference moves, the source register becomes nil.
MoveOwn(m, a, b) == [Write(m, a, m.regs[b]) EXCEPT !.regs[b] = Nil]

\* slice_of.
Slice(h, o) ==
  IF h[o].kind = "view" THEN <<h[h[o].items[1]].items[h[o].start]>> ELSE h[o].items

ViewIn(m, a) == IsRef(m.regs[a]) /\ m.heap[m.regs[a]].kind = "view"

\* The items of the object in register r of the running frame.
Items(r) == Slice(heap, Top.regs[r])

\* The items of object o are written in place.
Overwritten(h, o, items) == [h EXCEPT ![o].items = items]

\* materialize_at_slot: a view becomes a list of its own before it is published.
Materialize(m, a) ==
  IF ViewIn(m, a)
  THEN WriteNew(m, a, "list", Slice(m.heap, m.regs[a]), 0)
  ELSE m

\* Mutant: written in place although the source register is another one.
SoleOther(m, a, b) == m.heap[m.regs[b]].rc = 1

\* The fast path: the destination is the source and the only reference.
Sole(m, a, b) == a = b /\ m.heap[m.regs[b]].rc = 1

-----------------------------------------------------------------------------
Value(kind, items) == [kind |-> kind, items |-> items]

NilValue == Value("nil", <<>>)
TextValue == Value("text", <<NilValue>>)

\* The values that references stand for, to a depth of d objects.
TreeAt[d \in 0..MaxCells] ==
  [v \in 0..MaxCells |->
     IF v = Nil THEN NilValue
     ELSE IF d = 0 \/ heap[v].kind = "free" THEN Value("broken", <<>>)
     ELSE Value(IF heap[v].kind = "view" THEN "list" ELSE heap[v].kind,
                [i \in DOMAIN Slice(heap, v) |-> TreeAt[d - 1][Slice(heap, v)[i]]])]

\* An object cannot be deeper than the heap.
Tree(v) == TreeAt[MaxCells][v]

V(r) == Last(vals)[r]

Init ==
  /\ heap = [o \in Cells |-> IF o = Pool THEN ConstText ELSE Free]
  /\ calls = 0
  /\ frames = <<Frame(Nil, Nil, 0, FALSE)>>
  /\ vals = <<<<NilValue, NilValue>>>>

Running == frames # <<>>

\* The instruction leaves machine m, and local a with the value v.
Done(m, a, v) ==
  /\ heap' = m.heap
  /\ frames' = [frames EXCEPT ![Len(frames)].regs = m.regs]
  /\ vals' = [vals EXCEPT ![Len(vals)][a] = v]
  /\ UNCHANGED calls

-----------------------------------------------------------------------------
LoadK(a) ==
  \/ Done(Copy(Machine, a, Pool), a, TextValue)
  \/ Done(Copy(Machine, a, Nil), a, NilValue)

Move(a, b) == a # b /\ Done(Copy(Machine, a, Top.regs[b]), a, V(b))

\* OP_LISTNEW of the items in the registers after a: none, or the next local.
ListNew(a) ==
  /\ Room(1)
  /\ \E n \in {0, 1} :
       /\ a + n \in Locals
       /\ Done(WriteNew(Machine, a, "list", SubSeq(Top.regs, a + 1, a + n), 0),
               a, Value("list", [i \in 1..n |-> V(a + 1)]))

\* `mmap`.
MapNew(a) == Room(1) /\ Done(WriteNew(Machine, a, "map", <<>>, 0), a, Value("map", <<>>))

Allowed(a, b, c) == (a = b /\ b = c) => "selfstore" \in Shapes

Views(rs) == Cardinality({r \in rs : ViewIn(Machine, r)})

\* OP_LISTAPPEND: both operands are materialized, then the item is pushed in
\* place or on a copy.
ListAppend(a, b, c) ==
  /\ IsObject(Top.regs[b], {"list", "view"})
  /\ Len(Items(b)) < MaxLen
  /\ Allowed(a, b, c)
  /\ Room(1 + Views({b, c}))
  /\ LET m == Materialize(Materialize(Machine, b), c)
         o == m.regs[b]
         e == m.regs[c]
     IN  Done(IF Sole(m, a, b)
              THEN [m EXCEPT !.heap = Overwritten(Clone(@, e), o, Append(m.heap[o].items, e))]
              ELSE WriteNew(m, a, "list", Append(m.heap[o].items, e), 0),
              a, Value("list", Append(V(b).items, V(c))))

\* OP_MSET at the one key.
MapSet(a, b, d) ==
  /\ IsObject(Top.regs[b], {"map"})
  /\ Allowed(a, b, d)
  /\ Room(1 + Views({d}))
  /\ LET m == Materialize(Machine, d)
         o == m.regs[b]
         e == m.regs[d]
     IN  Done(IF Sole(m, a, b)
              THEN [m EXCEPT !.heap = DropAll(Overwritten(Clone(@, e), o, <<e>>), m.heap[o].items)]
              ELSE WriteNew(m, a, "map", <<e>>, 0),
              a, Value("map", <<V(d)>>))

\* OP_ADD_SS, and OP_ADD of two texts.
TextAdd(a, b, c) ==
  /\ IsObject(Top.regs[b], {"text"}) /\ IsObject(Top.regs[c], {"text"})
  /\ Len(Items(b)) + Len(Items(c)) <= MaxLen
  /\ Room(1)
  /\ LET joined == Items(b) \o Items(c)
     IN  Done(IF Sole(Machine, a, b) /\ b # c
              THEN [Machine EXCEPT !.heap = Overwritten(@, Top.regs[b], joined)]
              ELSE WriteNew(Machine, a, "text", joined, 0),
              a, Value("text", V(b).items \o V(c).items))

\* OP_REV of a list.
ListReverse(a, b) ==
  /\ IsObject(Top.regs[b], {"list", "view"})
  /\ Room(1)
  /\ LET reversed == Reverse(Items(b))
     IN  Done(IF Sole(Machine, a, b) /\ ~ViewIn(Machine, b)
              THEN [Machine EXCEPT !.heap = Overwritten(@, Top.regs[b], reversed)]
              ELSE WriteNew(Machine, a, "list", reversed, 0),
              a, Value("list", Reverse(V(b).items)))

\* OP_AT of a list, OP_MGET.
Item(a, b) ==
  /\ IsObject(Top.regs[b], {"list", "view", "map"})
  /\ \E i \in DOMAIN Items(b) :
       Done(Copy(Machine, a, Items(b)[i]), a, V(b).items[i])

\* OP_WINDOW_VIEW of size 1 in the loop of `map f (window 1 xs)`: a view into
\* the list of register b, which reuses the view of the last round.
WindowView(a, b) ==
  /\ a # b
  /\ IsObject(Top.regs[b], {"list", "view"})
  /\ Room(1 + Views({b}))
  /\ \E i \in DOMAIN Items(b) :
       LET m == Materialize(Machine, b)
           w == m.regs[a]
           src == m.regs[b]
       IN  Done(IF ViewIn(m, a) /\ m.heap[w].rc = 1
                THEN [m EXCEPT !.heap = [Clone(Drop(@, @[w].items[1]), src) EXCEPT
                                           ![w].items = <<src>>, ![w].start = i]]
                ELSE WriteNew(m, a, "view", <<src>>, i),
                a, Value("list", <<V(b).items[i]>>))

-----------------------------------------------------------------------------
\* The pushes of OP_CALL: the callee gets its own reference to each argument.
Push(m, regs) ==
  /\ Len(frames) < MaxDepth /\ calls < MaxCalls
  /\ calls' = calls + 1
  /\ heap' = m.heap
  /\ frames' = Append([frames EXCEPT ![Len(frames)].regs = m.regs], regs)

\* `x = f e1 e2` by OP_MOVE to the window and OP_CALL.
Call(x, e1, e2) ==
  /\ LET m == Copy(Copy(Machine, Arg(1), Top.regs[e1]), Arg(2), Top.regs[e2])
     IN  Push([heap |-> CloneAll(m.heap, <<m.regs[Arg(1)], m.regs[Arg(2)]>>), regs |-> m.regs],
              Frame(m.regs[Arg(1)], m.regs[Arg(2)], x, FALSE))
  /\ vals' = Append(vals, <<V(e1), V(e2)>>)

\* `x = f x e` by OP_MOVE_OWN, OP_MOVE and OP_CALL_OWN1: x moves into the callee.
CallOwn(x, e) ==
  /\ x = e => "ownalias" \in Shapes
  /\ LET m1 == MoveOwn(Machine, Arg(1), x)
         m  == Copy(m1, Arg(2), m1.regs[e])
     IN  Push([heap |-> Clone(m.heap, m.regs[Arg(2)]), regs |-> [m.regs EXCEPT ![Arg(1)] = Nil]],
              Frame(m.regs[Arg(1)], m.regs[Arg(2)], x, TRUE))
  /\ vals' = Append(vals, <<V(x), V(e)>>)

\* OP_TAILCALL: the arguments move, every other register is released.
TailCall(e1, e2) ==
  LET m == Copy(Copy(Machine, Arg(1), Top.regs[e1]), Arg(2), Top.regs[e2])
      rest == [m.regs EXCEPT ![Arg(1)] = Nil, ![Arg(2)] = Nil]
  IN  /\ calls < MaxCalls
      /\ calls' = calls + 1
      /\ heap' = DropAll(m.heap, rest)
      /\ frames' = [frames EXCEPT ![Len(frames)] =
                      Frame(m.regs[Arg(1)], m.regs[Arg(2)], @.dest, @.own)]
      /\ vals' = [vals EXCEPT ![Len(vals)] = <<V(e1), V(e2)>>]

\* Mutant: the result is returned without a reference of its own.
ReturnedUncounted(m, a) == DropAll(m.heap, m.regs)

\* OP_RET releases the frame after it has counted the result.
Returned(m, a) == DropAll(Clone(m.heap, m.regs[a]), m.regs)

\* OP_RET, the store in the caller's result register, and the OP_MOVE or
\* OP_MOVE_OWN with which the calling statement binds its local.  The last
\* frame's result is converted and released.
Return(a) ==
  /\ Room(Views({a}))
  /\ LET m == Materialize(Machine, a)
         h == Returned(m, a)
         v == m.regs[a]
         x == Top.dest
         n == Len(frames) - 1
     IN  IF n = 0
         THEN heap' = Drop(h, v) /\ frames' = <<>> /\ vals' = <<>>
         ELSE LET c == Write([heap |-> h, regs |-> frames[n].regs], Res, v)
                  b == IF Top.own THEN MoveOwn(c, x, Res) ELSE Copy(c, x, v)
              IN  /\ heap' = b.heap
                  /\ frames' = [Front(frames) EXCEPT ![n].regs = b.regs]
                  /\ vals' = [Front(vals) EXCEPT ![n][x] = V(a)]
  /\ UNCHANGED calls

Next ==
  /\ Running
  /\ \E a \in Locals :
       \/ LoadK(a) \/ ListNew(a) \/ MapNew(a) \/ Return(a)
       \/ \E b \in Locals :
            \/ Move(a, b) \/ ListReverse(a, b) \/ Item(a, b) \/ WindowView(a, b)
            \/ CallOwn(a, b) \/ TailCall(a, b)
            \/ \E c \in Locals :
                 ListAppend(a, b, c) \/ MapSet(a, b, c) \/ TextAdd(a, b, c) \/ Call(a, b, c)

Spec == Init /\ [][Next]_vars

-----------------------------------------------------------------------------
\* Nil, or a cell with an object in it.
Refers(v) == v = Nil \/ (v \in Cells /\ heap[v].kind # "free")

(***************************************************************************)
(* The registers, items and views refer to objects that are still there    *)
(* (as_heap_ref relies on it), and a view looks into a list, not a view.   *)
(***************************************************************************)
TypeOK ==
  /\ DOMAIN heap = Cells
  /\ \A o \in Cells :
       /\ heap[o].kind \in Kinds \cup {"free"}
       /\ heap[o].rc \in Nat
       /\ \A i \in DOMAIN heap[o].items : Refers(heap[o].items[i])
       /\ heap[o].kind = "view" =>
            /\ heap[heap[o].items[1]].kind = "list"
            /\ heap[o].start \in DOMAIN heap[heap[o].items[1]].items
  /\ Len(frames) = Len(vals) /\ Len(frames) <= MaxDepth /\ calls \in 0..MaxCalls
  /\ \A i \in DOMAIN frames : \A r \in Regs : Refers(frames[i].regs[r])

\* What holds a reference to cell o: registers, and the items of objects.
Registers(o) == {s \in (DOMAIN frames) \X Regs : frames[s[1]].regs[s[2]] = o}

Holding(o) ==
  {s \in Cells \X (1..MaxLen) : s[2] <= Len(heap[s[1]].items) /\ heap[s[1]].items[s[2]] = o}

Pooled(o) == IF o = Pool THEN 1 ELSE 0

(***************************************************************************)
(* The count of an object is the number of registers, items, views and     *)
(* pool entries that refer to it: none is released while it is in use      *)
(* (a free cell has no holder), and a count of 1 means one owner.          *)
(***************************************************************************)
CountsExact ==
  \A o \in Cells : heap[o].rc = Cardinality(Registers(o)) + Cardinality(Holding(o)) + Pooled(o)

(***************************************************************************)
(* Sharing is invisible: every local holds the value it would hold if      *)
(* each instruction built a new object.  The local that waits for          *)
(* `x = f x e` has been moved into the callee and is not looked at.        *)
(***************************************************************************)
ValueSemantics ==
  \A i \in DOMAIN frames : \A r \in Locals :
    (i < Len(frames) /\ frames[i + 1].own /\ frames[i + 1].dest = r)
      \/ Tree(frames[i].regs[r]) = vals[i][r]

\* The constants and the objects in registers, and what is reached from them: the
\* cells in every set that has them and all items of its members.
Roots == {Pool} \cup {o \in Cells : Registers(o) # {}}

Closed(S) == \A p \in Cells \ S : \A h \in Holding(p) : h[1] \notin S

Reached ==
  {o \in Cells : \A S \in SUBSET Cells : Roots \subseteq S /\ Closed(S) => o \in S}

(***************************************************************************)
(* Nothing leaks: an object no register and no constant leads to has been  *)
(* freed, after the last return included.                                  *)
(***************************************************************************)
NoGarbage == {o \in Cells : heap[o].kind # "free"} = Reached
=============================================================================
