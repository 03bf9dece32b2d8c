--------------------------- MODULE TreeEvalProofs ---------------------------
(***************************************************************************)
(* Scopes and block defers of the interpreter nest, for every nesting of   *)
(* calls and blocks, every way to leave them and any number of defers.     *)
(* The invariant is about a stack and an environment, WellNested(s, e), so *)
(* that one lemma per helper (Finish, Deliver, OpenBlock, EnterFn and the  *)
(* pops) says it preserves it, and each action is a short chain of them.   *)
(* The last part shows that the interpreter implements module Cleanup.     *)
(***************************************************************************)
EXTENDS TreeEval, SequenceTheorems, FiniteSetTheorems, TLAPS

Results == [kind : Kinds, v : Values]

\* The program's own activation is at the bottom and only functions trampoline.
Grounded(s) ==
  /\ \A i \in 1..Len(s) : s[i].phase = "trampoline" => s[i].form = "fn"
  /\ Len(s) > 0 => s[1].form = "fn" /\ s[1].use = "start"

WellNested(s, e) ==
  /\ s \in Seq(Frames)
  /\ e \in Envs
  /\ Grounded(s)
  /\ ScopesNest(s, e)
  /\ DefersNest(s, e)

Bookkeeping ==
  /\ calls \in 1..MaxCalls
  /\ fates \in Seq({"pending", "ran", "skipped"})
  /\ status \in {"running", "done", "panicked"}

IInv == WellNested(stack, env) /\ Bookkeeping

-----------------------------------------------------------------------------
\* A list turned round holds what the list holds.
LEMMA ReversedType ==
  ASSUME NEW S, NEW s \in Seq(S)
  PROVE  Reversed(s) \in Seq(S)
<1>1. Len(s) \in Nat /\ \A i \in 1..Len(s) : s[Len(s) + 1 - i] \in S
  OBVIOUS
<1>2. QED
  BY <1>1 DEF Reversed

\* An entry of a list changes, if it is there.
LEMMA ExceptType ==
  ASSUME NEW S, NEW s \in Seq(S), NEW i, NEW x \in S
  PROVE  [s EXCEPT ![i] = x] \in Seq(S)
<1> DEFINE n == Len(s)
           t == [s EXCEPT ![i] = x]
<1>1. n \in Nat /\ DOMAIN s = 1..n /\ \A j \in 1..n : s[j] \in S
  OBVIOUS
<1>2. t = [j \in 1..n |-> IF j = i THEN x ELSE s[j]]
  BY <1>1
<1> HIDE DEF t, n
<1>3. t \in Seq(S)
  BY <1>1, <1>2
<1>4. QED
  BY <1>3 DEF t

\* The part of a list up to n, and the part after it.
LEMMA PrefixIs ==
  ASSUME NEW S, NEW s \in Seq(S), NEW n \in 0..Len(s)
  PROVE  /\ SubSeq(s, 1, n) \in Seq(S)
         /\ Len(SubSeq(s, 1, n)) = n
         /\ \A k \in 1..n : SubSeq(s, 1, n)[k] = s[k]
         /\ SubSeq(s, n + 1, Len(s)) \in Seq(S)
<1>1. Len(s) \in Nat /\ n \in Nat /\ \A i \in 1..Len(s) : s[i] \in S
  OBVIOUS
<1>2. (\A i \in 1..n : s[i] \in S) /\ (\A i \in (n + 1)..Len(s) : s[i] \in S)
  BY <1>1
<1>3. /\ SubSeq(s, 1, n) \in Seq(S)
      /\ Len(SubSeq(s, 1, n)) = n
      /\ \A k \in 1..n : SubSeq(s, 1, n)[k] = s[k]
  BY <1>1, <1>2, SubSeqProperties
<1>4. SubSeq(s, n + 1, Len(s)) \in Seq(S)
  BY <1>1, <1>2, SubSeqProperties
<1>5. QED
  BY <1>3, <1>4

\* The stack without its top.
LEMMA PopIs ==
  ASSUME NEW S, NEW s \in Seq(S), s # <<>>
  PROVE  /\ Pop(s) \in Seq(S)
         /\ Len(s) \in Nat \ {0}
         /\ Len(Pop(s)) = Len(s) - 1
         /\ \A i \in 1..(Len(s) - 1) : Pop(s)[i] = s[i]
         /\ s[Len(s)] \in S
<1> DEFINE n == Len(s) - 1
<1>1. Len(s) \in Nat \ {0} /\ s[Len(s)] \in S /\ n \in 0..Len(s)
  OBVIOUS
<1>2. /\ SubSeq(s, 1, n) \in Seq(S)
      /\ Len(SubSeq(s, 1, n)) = n
      /\ \A k \in 1..n : SubSeq(s, 1, n)[k] = s[k]
  <2> HIDE DEF n
  <2> QED
    BY <1>1, PrefixIs
<1>3. QED
  BY <1>1, <1>2 DEF Pop

\* The parts of an environment the proofs look at.
LEMMA EnvParts ==
  ASSUME NEW e \in Envs
  PROVE  e.marks \in Nat \ {0} /\ e.defers \in Seq(Entries) /\ Len(e.defers) \in Nat
<1>1. e.marks \in Nat \ {0} /\ e.defers \in Seq(Entries)
  BY DEF Envs
<1>2. QED
  BY <1>1

\* The mark of a frame lies within the defer stack of its body.
LEMMA MarkInRange ==
  ASSUME NEW s, NEW e, WellNested(s, e), s # <<>>
  PROVE  Mark(s[Len(s)]) \in 0..Len(e.defers)
<1>1. s[Len(s)] \in Frames /\ Len(s) \in 1..Len(s)
  BY PopIs DEF WellNested
<1>2. Len(e.defers) \in Nat /\ Len(s[Len(s)].saved.defers) \in Nat
  <2>1. e \in Envs /\ s[Len(s)].saved \in Envs
    BY <1>1 DEF WellNested, Frames
  <2>2. QED
    BY <2>1, EnvParts
<1>3. s[Len(s)].form # "fn" => Len(s[Len(s)].saved.defers) <= Len(e.defers)
  BY <1>1 DEF WellNested, DefersNest, EnvAt, Extends
<1>4. QED
  BY <1>2, <1>3 DEF Mark

(***************************************************************************)
(* The top frame changes its phase, its list and its result, the           *)
(* environment anything but its marks and what lies under the mark.        *)
(***************************************************************************)
LEMMA TopChanges ==
  ASSUME NEW s, NEW e, WellNested(s, e), s # <<>>,
         NEW f \in Frames, NEW e2 \in Envs,
         f.form = s[Len(s)].form, f.use = s[Len(s)].use, f.saved = s[Len(s)].saved,
         f.phase = "trampoline" => f.form = "fn",
         e2.marks = e.marks,
         f.form # "fn" => Extends(e2.defers, f.saved.defers)
  PROVE  WellNested(SetTop(s, f), e2)
<1> DEFINE t == SetTop(s, f)
<1>1. s \in Seq(Frames) /\ Len(s) \in Nat \ {0}
  BY PopIs DEF WellNested
<1>2. /\ t \in Seq(Frames)
      /\ Len(t) = Len(s)
      /\ t[Len(s)] = f
      /\ \A i \in 1..Len(s) : i # Len(s) => t[i] = s[i]
  BY <1>1 DEF SetTop
<1> HIDE DEF t
<1>3. \A i \in 1..Len(s) :
        /\ t[i].form = s[i].form
        /\ t[i].use = s[i].use
        /\ t[i].saved = s[i].saved
        /\ MarksIn(t[i]) = MarksIn(s[i])
        /\ i # Len(s) => EnvAt(t, e2, i) = EnvAt(s, e, i)
  <2> SUFFICES ASSUME NEW i \in 1..Len(s)
               PROVE  /\ t[i].form = s[i].form
                      /\ t[i].use = s[i].use
                      /\ t[i].saved = s[i].saved
                      /\ MarksIn(t[i]) = MarksIn(s[i])
                      /\ i # Len(s) => EnvAt(t, e2, i) = EnvAt(s, e, i)
    OBVIOUS
  <2>1. t[i].form = s[i].form /\ t[i].use = s[i].use /\ t[i].saved = s[i].saved
    BY <1>2
  <2>2. MarksIn(t[i]) = MarksIn(s[i])
    BY <2>1 DEF MarksIn
  <2>3. ASSUME i # Len(s) PROVE EnvAt(t, e2, i) = EnvAt(s, e, i)
    <3>1. i + 1 \in 1..Len(s)
      BY <1>1, <2>3
    <3>2. t[i + 1].saved = s[i + 1].saved
      BY <1>2, <3>1
    <3>3. QED
      BY <1>2, <2>3, <3>2 DEF EnvAt
  <2>4. QED
    BY <2>1, <2>2, <2>3
<1>4. EnvAt(t, e2, Len(s)) = e2 /\ EnvAt(s, e, Len(s)) = e
  BY <1>2 DEF EnvAt
<1>5. Grounded(t)
  BY <1>1, <1>2, <1>3 DEF WellNested, Grounded
<1>6. ScopesNest(t, e2)
  BY <1>1, <1>2, <1>3, <1>4 DEF WellNested, ScopesNest
<1>7. DefersNest(t, e2)
  BY <1>1, <1>2, <1>3, <1>4 DEF WellNested, DefersNest
<1>8. QED
  BY <1>2, <1>5, <1>6, <1>7 DEF WellNested, t

\* A body ends: the two phases Finish can put its frame in.
LEMMA FinishNests ==
  ASSUME NEW s, NEW e, WellNested(s, e), s # <<>>, NEW r \in Results
  PROVE  LET m == Finish(s, e, r) IN WellNested(m.stack, m.env)
<1> DEFINE f == s[Len(s)]
           kept == IF Draining(f.form) THEN Mark(f) ELSE Len(e.defers)
           g == [f EXCEPT !.phase = "trampoline", !.res = r]
           todo == Reversed(SubSeq(e.defers, kept + 1, Len(e.defers)))
           h == [f EXCEPT !.phase = "drain", !.res = r, !.todo = todo]
           e2 == [e EXCEPT !.defers = SubSeq(@, 1, kept)]
<1>1. f \in Frames /\ e \in Envs /\ e.defers \in Seq(Entries) /\ Len(e.defers) \in Nat
  BY PopIs, EnvParts DEF WellNested
<1>2. kept \in 0..Len(e.defers) /\ Mark(f) <= kept /\ Mark(f) \in Nat
  BY <1>1, MarkInRange
<1>3. /\ SubSeq(e.defers, 1, kept) \in Seq(Entries)
      /\ Len(SubSeq(e.defers, 1, kept)) = kept
      /\ \A k \in 1..kept : SubSeq(e.defers, 1, kept)[k] = e.defers[k]
      /\ todo \in Seq(Entries)
  <2> HIDE DEF kept
  <2> QED
    BY <1>1, <1>2, PrefixIs, ReversedType
<1>4. /\ e2 \in Envs
      /\ e2.marks = e.marks
      /\ e2.defers = SubSeq(e.defers, 1, kept)
  BY <1>1, <1>3 DEF Envs
<1>5. /\ h \in Frames /\ h.form = f.form /\ h.use = f.use /\ h.saved = f.saved
      /\ h.phase = "drain"
  <2> HIDE DEF todo
  <2> QED
    BY <1>1, <1>3 DEF Frames, Results
<1>6. g \in Frames /\ g.form = f.form /\ g.use = f.use /\ g.saved = f.saved
  BY <1>1 DEF Frames, Results
<1>7. f.form # "fn" => Extends(e.defers, f.saved.defers)
  BY PopIs DEF WellNested, DefersNest, EnvAt
<1>8. f.form # "fn" => Extends(e2.defers, f.saved.defers)
  <2>1. ASSUME f.form # "fn" PROVE Extends(e2.defers, f.saved.defers)
    <3>1. Mark(f) = Len(f.saved.defers)
      BY <2>1 DEF Mark
    <3>2. \A k \in 1..Len(f.saved.defers) : e.defers[k] = f.saved.defers[k] /\ k \in 1..kept
      BY <1>2, <1>7, <2>1, <3>1 DEF Extends
    <3> HIDE DEF kept, e2, f
    <3>3. QED
      BY <1>2, <1>3, <1>4, <3>1, <3>2 DEF Extends
  <2>2. QED
    BY <2>1
<1>9. CASE f.form = "fn" /\ r.kind = "tail"
  <2>1. WellNested(SetTop(s, g), e)
    <3> HIDE DEF g
    <3> QED
      BY <1>1, <1>6, <1>7, <1>9, TopChanges
  <2>2. Finish(s, e, r) = At(SetTop(s, g), e)
    BY <1>9 DEF Finish
  <2>3. QED
    BY <2>1, <2>2 DEF At
<1>10. CASE ~(f.form = "fn" /\ r.kind = "tail")
  <2>1. WellNested(SetTop(s, h), e2)
    <3> HIDE DEF h, e2
    <3> QED
      BY <1>1, <1>4, <1>5, <1>8, TopChanges
  <2>2. Finish(s, e, r) = At(SetTop(s, h), e2)
    BY <1>10 DEF Finish
  <2>3. QED
    BY <2>1, <2>2 DEF At
<1>11. QED
  BY <1>9, <1>10

\* Only the marks and the defer stack of the environment matter.
LEMMA EnvChanges ==
  ASSUME NEW s, NEW e, WellNested(s, e), NEW e2 \in Envs,
         e2.marks = e.marks, e2.defers = e.defers
  PROVE  WellNested(s, e2)
<1>1. \A i \in 1..Len(s) : /\ EnvAt(s, e2, i).marks = EnvAt(s, e, i).marks
                           /\ EnvAt(s, e2, i).defers = EnvAt(s, e, i).defers
  BY DEF EnvAt
<1>2. QED
  BY <1>1 DEF WellNested, ScopesNest, DefersNest

\* A frame is pushed: the environment it saves is the one in use, up to what
\* does not matter, and the new one is that of its body.
LEMMA PushNests ==
  ASSUME NEW s, NEW e, WellNested(s, e), s # <<>>,
         NEW f \in Frames, NEW e2 \in Envs,
         f.saved.marks = e.marks, f.saved.defers = e.defers, f.phase = "run",
         e2.marks = MarksIn(f),
         f.form # "fn" => e2.defers = e.defers
  PROVE  WellNested(Append(s, f), e2)
<1> DEFINE t == Append(s, f)
           n == Len(s)
<1>1. s \in Seq(Frames) /\ n \in Nat \ {0}
  BY PopIs DEF WellNested
<1>2. /\ t \in Seq(Frames)
      /\ Len(t) = n + 1
      /\ t[n + 1] = f
      /\ \A i \in 1..n : t[i] = s[i]
  BY <1>1
<1> HIDE DEF t
<1>3. \A i \in 1..n : /\ EnvAt(t, e2, i).marks = EnvAt(s, e, i).marks
                      /\ EnvAt(t, e2, i).defers = EnvAt(s, e, i).defers
  <2> SUFFICES ASSUME NEW i \in 1..n
               PROVE  /\ EnvAt(t, e2, i).marks = EnvAt(s, e, i).marks
                      /\ EnvAt(t, e2, i).defers = EnvAt(s, e, i).defers
    OBVIOUS
  <2>1. EnvAt(t, e2, i) = t[i + 1].saved
    BY <1>1, <1>2 DEF EnvAt
  <2>2. CASE i = n
    BY <1>2, <2>1, <2>2 DEF EnvAt
  <2>3. CASE i # n
    <3>1. i + 1 \in 1..n
      BY <1>1, <2>3
    <3>2. QED
      BY <1>2, <2>1, <2>3, <3>1 DEF EnvAt
  <2>4. QED
    BY <2>2, <2>3
<1>4. EnvAt(t, e2, n + 1) = e2
  BY <1>2 DEF EnvAt
<1>5. Len(e.defers) \in Nat
  BY EnvParts DEF WellNested
<1>6. Grounded(t)
  BY <1>1, <1>2 DEF WellNested, Grounded
<1>7. ScopesNest(t, e2)
  <2> SUFFICES ASSUME NEW i \in 1..(n + 1) PROVE EnvAt(t, e2, i).marks = MarksIn(t[i])
    BY <1>2 DEF ScopesNest
  <2>1. CASE i = n + 1
    BY <1>2, <1>4, <2>1
  <2>2. CASE i \in 1..n
    BY <1>2, <1>3, <2>2 DEF WellNested, ScopesNest
  <2>3. QED
    BY <1>1, <2>1, <2>2
<1>8. DefersNest(t, e2)
  <2> SUFFICES ASSUME NEW i \in 1..(n + 1), t[i].form # "fn"
               PROVE  Extends(EnvAt(t, e2, i).defers, t[i].saved.defers)
    BY <1>2 DEF DefersNest
  <2>1. CASE i = n + 1
    BY <1>2, <1>4, <1>5, <2>1 DEF Extends
  <2>2. CASE i \in 1..n
    BY <1>2, <1>3, <2>2 DEF WellNested, DefersNest
  <2>3. QED
    BY <1>1, <2>1, <2>2
<1>9. QED
  BY <1>2, <1>6, <1>7, <1>8 DEF WellNested, t

\* The top frame goes and its caller's environment comes back.
LEMMA PopNests ==
  ASSUME NEW s, NEW e, WellNested(s, e), s # <<>>
  PROVE  WellNested(Pop(s), s[Len(s)].saved)
<1> DEFINE t == Pop(s)
           n == Len(s) - 1
           e2 == s[Len(s)].saved
<1>1. /\ s \in Seq(Frames) /\ n \in Nat /\ Len(s) = n + 1
      /\ t \in Seq(Frames) /\ Len(t) = n
      /\ \A i \in 1..n : t[i] = s[i]
      /\ s[n + 1] \in Frames
  BY PopIs DEF WellNested
<1>1a. e2 = s[n + 1].saved /\ e2 \in Envs
  BY <1>1 DEF Frames
<1> HIDE DEF t, n, e2
<1>2. \A i \in 1..n : EnvAt(t, e2, i) = EnvAt(s, e, i)
  <2> SUFFICES ASSUME NEW i \in 1..n PROVE EnvAt(t, e2, i) = EnvAt(s, e, i)
    OBVIOUS
  <2>1. EnvAt(s, e, i) = s[i + 1].saved
    BY <1>1 DEF EnvAt
  <2>2. CASE i = n
    BY <1>1, <1>1a, <2>1, <2>2 DEF EnvAt
  <2>3. CASE i # n
    <3>1. i + 1 \in 1..n
      BY <1>1, <2>3
    <3>2. QED
      BY <1>1, <2>1, <2>3, <3>1 DEF EnvAt
  <2>4. QED
    BY <2>2, <2>3
<1>3. Grounded(t)
  BY <1>1 DEF WellNested, Grounded
<1>4. ScopesNest(t, e2) /\ DefersNest(t, e2)
  BY <1>1, <1>2 DEF WellNested, ScopesNest, DefersNest
<1>5. QED
  BY <1>1, <1>1a, <1>3, <1>4 DEF WellNested, t, e2

\* The defer stack may also grow.
LEMMA EnvGrows ==
  ASSUME NEW s, NEW e, WellNested(s, e), NEW e2 \in Envs,
         e2.marks = e.marks, Extends(e2.defers, e.defers)
  PROVE  WellNested(s, e2)
<1>1. \A i \in 1..Len(s) : EnvAt(s, e2, i).marks = EnvAt(s, e, i).marks
  BY DEF EnvAt
<1>2. ScopesNest(s, e2)
  BY <1>1 DEF WellNested, ScopesNest
<1>3. DefersNest(s, e2)
  <2> SUFFICES ASSUME NEW i \in 1..Len(s), s[i].form # "fn"
               PROVE  Extends(EnvAt(s, e2, i).defers, s[i].saved.defers)
    BY DEF DefersNest
  <2>1. Extends(EnvAt(s, e, i).defers, s[i].saved.defers)
    BY DEF WellNested, DefersNest
  <2>2. CASE i # Len(s)
    BY <2>1, <2>2 DEF EnvAt
  <2>3. CASE i = Len(s)
    <3>1. Len(e.defers) \in Nat /\ Len(e2.defers) \in Nat /\ Len(s[i].saved.defers) \in Nat
      <4>1. s[i] \in Frames /\ e \in Envs
        BY DEF WellNested
      <4>2. s[i].saved \in Envs
        BY <4>1 DEF Frames
      <4>3. QED
        BY <4>1, <4>2, EnvParts
    <3>2. Extends(e.defers, s[i].saved.defers)
      BY <2>1, <2>3 DEF EnvAt
    <3>3. Extends(e2.defers, s[i].saved.defers)
      <4> DEFINE a == e2.defers
                 b == e.defers
                 c == s[i].saved.defers
      <4>1. /\ Len(a) \in Nat /\ Len(b) \in Nat /\ Len(c) \in Nat
            /\ Extends(a, b) /\ Extends(b, c)
        BY <3>1, <3>2
      <4> HIDE DEF a, b, c
      <4>2. Extends(a, c)
        BY <4>1 DEF Extends
      <4>3. QED
        BY <4>2 DEF a, c
    <3>4. EnvAt(s, e2, i) = e2
      BY <2>3 DEF EnvAt
    <3>5. QED
      BY <3>3, <3>4
  <2>4. QED
    BY <2>2, <2>3
<1>4. QED
  BY <1>2, <1>3 DEF WellNested

\* A block is left: pop_scope undoes its push_scope.
LEMMA UnscopedNests ==
  ASSUME NEW s, NEW e, WellNested(s, e), s # <<>>, s[Len(s)].form # "fn"
  PROVE  WellNested(Pop(s), Unscoped(s[Len(s)], e)) /\ Pop(s) # <<>>
<1> DEFINE f == s[Len(s)]
           e2 == Unscoped(f, e)
<1>0. f \in Frames /\ e \in Envs /\ Len(s) \in 1..Len(s)
  BY PopIs DEF WellNested
<1>1. f \in Frames /\ f.saved \in Envs /\ e \in Envs /\ Len(s) \in 1..Len(s)
  BY <1>0 DEF Frames
<1>2. e.marks = MarksIn(f) /\ Extends(e.defers, f.saved.defers)
  BY <1>1 DEF WellNested, ScopesNest, DefersNest, EnvAt
<1>3. /\ e.marks \in Nat \ {0} /\ f.saved.marks \in Nat \ {0}
  BY <1>1, EnvParts
<1>4. e2.marks = f.saved.marks /\ e2.defers = e.defers /\ e2 \in Envs
  <2>1. CASE Scoped(f.form)
    <3>1. e.marks = f.saved.marks + 1 /\ e.marks - 1 = f.saved.marks
      BY <1>2, <1>3, <2>1 DEF MarksIn
    <3>2. e2 = [e EXCEPT !.marks = e.marks - 1]
      BY <2>1 DEF Unscoped
    <3> HIDE DEF e2, f
    <3>3. QED
      BY <1>1, <1>3, <3>1, <3>2 DEF Envs
  <2>2. CASE ~Scoped(f.form)
    <3>1. e2 = [e EXCEPT !.marks = e.marks]
      BY <2>2 DEF Unscoped
    <3>2. e2 = e
      BY <1>1, <3>1 DEF Envs
    <3>3. QED
      BY <1>1, <1>2, <2>2, <3>2 DEF MarksIn
  <2>3. QED
    BY <2>1, <2>2
<1>5. WellNested(Pop(s), f.saved)
  BY PopNests
<1>6. WellNested(Pop(s), e2)
  <2> HIDE DEF e2, f
  <2> QED
    BY <1>2, <1>4, <1>5, EnvGrows
<1>7. Pop(s) # <<>>
  <2>1. Len(s) # 1
    BY <1>1 DEF WellNested, Grounded
  <2>2. Len(Pop(s)) = Len(s) - 1 /\ Len(s) \in Nat \ {0}
    BY PopIs DEF WellNested
  <2>3. Len(Pop(s)) # 0
    BY <2>1, <2>2
  <2>4. QED
    BY <2>3
<1>8. QED
  BY <1>6, <1>7

\* Scopes: a block statement or value-producing match is entered.
LEMMA OpenBlockNests ==
  ASSUME NEW s, NEW e, WellNested(s, e), s # <<>>,
         NEW form \in Blocks, NEW outer \in BOOLEAN, NEW use \in {"stmt", "ret", "rebind", "defer"}
  PROVE  LET m == OpenBlock(s, e, form, outer, use) IN WellNested(m.stack, m.env)
<1> DEFINE f == Frame(form, TailOf(form, outer), use, "none", e)
           e2 == [e EXCEPT !.marks = IF Scoped(form) THEN @ + 1 ELSE @]
<1>1. e \in Envs /\ e.marks \in Nat \ {0} /\ form # "fn"
  BY EnvParts DEF WellNested, Blocks, Loops
<1>2. TailOf(form, outer) \in BOOLEAN
  BY DEF TailOf
<1>3. <<>> \in Seq(Entries) /\ Res("value", "nil") \in [kind : Kinds, v : Values]
  BY DEF Res, Kinds, Values
<1>4. f \in Frames /\ f.saved = e /\ f.phase = "run" /\ f.form = form
  BY <1>1, <1>2, <1>3 DEF Frame, Frames
<1>5. e2 \in Envs /\ e2.marks = MarksIn(f) /\ e2.defers = e.defers
  BY <1>1, <1>4 DEF Envs, MarksIn
<1>6. WellNested(Append(s, f), e2)
  <2> HIDE DEF f, e2
  <2> QED
    BY <1>4, <1>5, PushNests
<1>7. QED
  BY <1>6 DEF OpenBlock, At

\* A self-rebind takes the accumulator before its operands are evaluated.
LEMMA TakenIs ==
  ASSUME NEW e \in Envs, NEW use
  PROVE  Taken(use, e) \in Envs /\ Taken(use, e).marks = e.marks /\ Taken(use, e).defers = e.defers
BY DEF Taken, Envs

\* A fresh environment.
LEMMA FreshIs ==
  ASSUME NEW owner \in Nat, NEW depth \in Nat, NEW defers \in Seq(Entries)
  PROVE  /\ Fresh(owner, depth, defers) \in Envs
         /\ Fresh(owner, depth, defers).marks = 1
         /\ Fresh(owner, depth, defers).defers = defers
BY DEF Fresh, Envs

\* call_function saves an environment and starts another.
LEMMA EnterFnNests ==
  ASSUME NEW s, NEW e, WellNested(s, e), s # <<>>, calls \in Nat,
         NEW use \in {"stmt", "ret", "rebind", "defer"},
         NEW unwrap \in {"none", "propagate", "panic"}
  PROVE  LET m == EnterFn(s, e, use, unwrap) IN WellNested(m.stack, m.env)
<1> DEFINE f == Frame("fn", TRUE, use, unwrap, Taken(use, e))
           e2 == Fresh(calls + 1, Len(s) + 1, <<>>)
<1>1. e \in Envs /\ Taken(use, e) \in Envs /\ Taken(use, e).marks = e.marks
      /\ Taken(use, e).defers = e.defers
  BY TakenIs DEF WellNested
<1>2. <<>> \in Seq(Entries) /\ Res("value", "nil") \in [kind : Kinds, v : Values]
  BY DEF Res, Kinds, Values
<1>3. f \in Frames /\ f.saved = Taken(use, e) /\ f.phase = "run" /\ f.form = "fn"
  BY <1>1, <1>2 DEF Frame, Frames
<1>4. e2 \in Envs /\ e2.marks = MarksIn(f)
  <2>1. calls + 1 \in Nat /\ Len(s) + 1 \in Nat
    BY DEF WellNested
  <2>2. e2 \in Envs /\ e2.marks = 1
    BY <1>2, <2>1, FreshIs
  <2>3. MarksIn(f) = 1
    BY <1>3 DEF MarksIn
  <2>4. QED
    BY <2>2, <2>3
<1>5. WellNested(Append(s, f), e2)
  <2> HIDE DEF f, e2
  <2> QED
    BY <1>1, <1>3, <1>4, PushNests
<1>6. QED
  BY <1>5 DEF EnterFn, At

\* A history mark or a filled slot changes nothing that nests.
LEMMA EnvMarked ==
  ASSUME NEW s, NEW e, WellNested(s, e)
  PROVE  /\ \A x \in {"no", "ret", "propagate"} : WellNested(s, [e EXCEPT !.exited = x])
         /\ WellNested(s, [e EXCEPT !.slot = "bound"])
         /\ WellNested(s, [e EXCEPT !.slot = "lost"])
         /\ \A how \in {"ret", "propagate"} : WellNested(s, Exit(s, e, how))
<1>1. e \in Envs
  BY DEF WellNested
<1>2. ASSUME NEW x \in {"no", "ret", "propagate"} PROVE WellNested(s, [e EXCEPT !.exited = x])
  <2> DEFINE e2 == [e EXCEPT !.exited = x]
  <2>1. e2 \in Envs /\ e2.marks = e.marks /\ e2.defers = e.defers
    BY <1>1 DEF Envs
  <2> HIDE DEF e2
  <2>2. WellNested(s, e2)
    BY <2>1, EnvChanges
  <2>3. QED
    BY <2>2 DEF e2
<1>3. ASSUME NEW y \in {"bound", "lost"} PROVE WellNested(s, [e EXCEPT !.slot = y])
  <2> DEFINE e2 == [e EXCEPT !.slot = y]
  <2>1. e2 \in Envs /\ e2.marks = e.marks /\ e2.defers = e.defers
    BY <1>1 DEF Envs
  <2> HIDE DEF e2
  <2>2. WellNested(s, e2)
    BY <2>1, EnvChanges
  <2>3. QED
    BY <2>2 DEF e2
<1>4. ASSUME NEW how \in {"ret", "propagate"} PROVE WellNested(s, Exit(s, e, how))
  <2> DEFINE y == IF e.slot = "taken" THEN "lost" ELSE e.slot
             e2 == [e EXCEPT !.slot = y]
  <2>1. e2 \in Envs /\ e2.marks = e.marks /\ e2.defers = e.defers
    BY <1>1 DEF Envs
  <2>2. Exit(s, e, how) = e2 \/ Exit(s, e, how) = [e EXCEPT !.exited = how]
    BY DEF Exit
  <2> HIDE DEF e2
  <2>3. WellNested(s, e2)
    BY <2>1, EnvChanges
  <2>4. QED
    BY <1>2, <2>2, <2>3
<1>5. QED
  BY <1>2, <1>3, <1>4

Outcomes == [kind : {"value", "error", "propagate"}, v : Values]

\* The statement that uses an outcome resumes or ends its body.
LEMMA DeliverNests ==
  ASSUME NEW s, NEW e, WellNested(s, e), NEW o \in Outcomes,
         NEW use \in {"start", "stmt", "ret", "rebind", "defer"},
         s = <<>> => use = "start"
  PROVE  LET m == Deliver(s, e, use, o) IN WellNested(m.stack, m.env)
<1> DEFINE m == Deliver(s, e, use, o)
<1>1. o.kind \in {"value", "error", "propagate"} /\ Res("return", o.v) \in Results /\ Failed \in Results
  BY DEF Outcomes, Results, Res, Failed, Kinds, Values
<1>2. CASE use \in {"start", "defer"} \/ (use = "stmt" /\ o.kind = "value")
  <2>1. m = At(s, e)
    BY <1>2 DEF Deliver
  <2>2. QED
    BY <2>1 DEF At
<1>3. CASE use \notin {"start", "defer"} /\ o.kind = "error"
  <2>1. m = Finish(s, e, Failed)
    BY <1>3 DEF Deliver
  <2>2. QED
    BY <1>1, <1>3, <2>1, FinishNests
<1>4. CASE use \notin {"start", "defer"} /\ o.kind = "propagate"
  <2>1. m = Finish(s, Exit(s, e, "propagate"), Res("return", o.v))
    BY <1>4 DEF Deliver
  <2>2. QED
    BY <1>1, <1>4, <2>1, EnvMarked, FinishNests
<1>5. CASE use = "ret" /\ o.kind = "value"
  <2>1. m = Finish(s, Exit(s, e, "ret"), Res("return", o.v))
    BY <1>5 DEF Deliver
  <2>2. QED
    BY <1>1, <1>5, <2>1, EnvMarked, FinishNests
<1>6. CASE use = "rebind" /\ o.kind = "value"
  <2> DEFINE e2 == [e EXCEPT !.slot = "bound"]
  <2>1. m = At(s, e2)
    BY <1>6 DEF Deliver
  <2>2. WellNested(s, e2)
    BY EnvMarked
  <2> HIDE DEF e2, m
  <2>3. m.stack = s /\ m.env = e2
    BY <2>1 DEF At
  <2>4. WellNested(m.stack, m.env)
    BY <2>2, <2>3
  <2>5. QED
    BY <2>4 DEF m
<1>7. QED
  BY <1>1, <1>2, <1>3, <1>4, <1>5, <1>6

-----------------------------------------------------------------------------
\* The parts of the top frame.
LEMMA TopIs ==
  ASSUME IInv, Running
  PROVE  /\ WellNested(stack, env) /\ stack # <<>> /\ Top = stack[Len(stack)]
         /\ Top \in Frames /\ Top.saved \in Envs /\ Top.res \in Results
         /\ Top.todo \in Seq(Entries)
         /\ Top.use \in {"start", "stmt", "ret", "rebind", "defer"}
         /\ calls \in Nat
<1>1. Top \in Frames
  BY PopIs DEF IInv, WellNested, Running, Top
<1>2. Top.saved \in Envs /\ Top.res \in Results /\ Top.todo \in Seq(Entries)
      /\ Top.use \in {"start", "stmt", "ret", "rebind", "defer"}
  BY <1>1 DEF Frames, Results
<1>3. QED
  BY <1>1, <1>2, TreeAssumption DEF IInv, Bookkeeping, Running, Top

\* The uses of an expression.
LEMMA UsesAre == Uses \subseteq {"stmt", "ret", "rebind"}
BY DEF Uses

\* The machine moves to a pair that nests.
LEMMA Moved ==
  ASSUME NEW m, WellNested(m.stack, m.env), MoveTo(m), Bookkeeping'
  PROVE  IInv'
<1>1. stack' = m.stack /\ env' = m.env
  BY DEF MoveTo
<1>2. WellNested(stack', env')
  BY <1>1
<1>3. QED
  BY <1>2 DEF IInv

\* The bodies that end by themselves.
LEMMA EndNests ==
  ASSUME IInv, InBody, NEW r \in Results, NEW how \in {"ret", "propagate"},
         \/ MoveTo(Finish(stack, env, r))
         \/ MoveTo(Finish(stack, Exit(stack, env, how), r)),
         UNCHANGED <<calls, fates, status>>
  PROVE  IInv'
<1>1. WellNested(stack, env) /\ stack # <<>>
  BY TopIs DEF InBody
<1>2. WellNested(stack, Exit(stack, env, how))
  BY <1>1, EnvMarked
<1>3. Bookkeeping'
  BY DEF IInv, Bookkeeping
<1>4. CASE MoveTo(Finish(stack, env, r))
  BY <1>1, <1>3, <1>4, FinishNests, Moved
<1>5. CASE MoveTo(Finish(stack, Exit(stack, env, how), r))
  BY <1>1, <1>2, <1>3, <1>5, FinishNests, Moved
<1>6. QED
  BY <1>4, <1>5

LEMMA ResultTypes ==
  /\ \A k \in Kinds, v \in Values : Res(k, v) \in Results
  /\ Failed \in Results
BY DEF Res, Failed, Results, Kinds, Values

\* What call_function and a match arm hand on is an outcome.
LEMMA ReturnedType ==
  ASSUME NEW r \in Results
  PROVE  /\ Returned(r) \in Outcomes
         /\ \A u \in {"none", "propagate", "panic"} : Unwrapped(u, Returned(r).v) \in Outcomes
<1>1. r.kind \in Kinds /\ r.v \in Values
  BY DEF Results
<1>2. Returned(r) = Failed \/ Returned(r) = Res("value", "nil") \/ Returned(r) = Res("value", r.v)
  BY DEF Returned
<1>3. Returned(r) \in Outcomes
  BY <1>1, <1>2 DEF Failed, Res, Outcomes, Values
<1>4. Returned(r).v \in Values
  BY <1>3 DEF Outcomes
<1>5. \A u, v : v \in Values => Unwrapped(u, v) \in Outcomes
  BY DEF Unwrapped, Res, Failed, Outcomes, Values
<1>6. QED
  BY <1>3, <1>4, <1>5

-----------------------------------------------------------------------------
LEMMA InitNests == Init => IInv
<1> SUFFICES ASSUME Init PROVE IInv
  OBVIOUS
<1> DEFINE f == Frame("fn", TRUE, "start", "none", Fresh(0, 0, <<>>))
<1>1. <<>> \in Seq(Entries) /\ Res("value", "nil") \in [kind : Kinds, v : Values]
  BY DEF Res, Kinds, Values
<1>2. Fresh(0, 0, <<>>) \in Envs
  BY <1>1, FreshIs
<1>3. env \in Envs /\ env.marks = 1
  BY <1>1, FreshIs DEF Init
<1>4. f \in Frames /\ f.form = "fn" /\ f.use = "start" /\ f.phase = "run"
  BY <1>1, <1>2 DEF Frame, Frames
<1>5. stack \in Seq(Frames) /\ Len(stack) = 1 /\ stack[1] = f
  <2>1. stack = <<f>>
    BY DEF Init
  <2> HIDE DEF f
  <2>2. QED
    BY <1>4, <2>1
<1>6. Grounded(stack)
  <2> HIDE DEF f
  <2> QED
    BY <1>4, <1>5 DEF Grounded
<1>7. ScopesNest(stack, env)
  <2> HIDE DEF f
  <2> QED
    BY <1>3, <1>4, <1>5 DEF ScopesNest, EnvAt, MarksIn
<1>8. DefersNest(stack, env)
  <2> HIDE DEF f
  <2> QED
    BY <1>4, <1>5 DEF DefersNest
<1>9. Bookkeeping
  BY TreeAssumption DEF Init, Bookkeeping
<1>10. QED
  BY <1>3, <1>5, <1>6, <1>7, <1>8, <1>9 DEF IInv, WellNested

LEMMA CallInv == IInv /\ Call => IInv'
<1> SUFFICES ASSUME IInv, Call PROVE IInv'
  OBVIOUS
<1>1. WellNested(stack, env) /\ stack # <<>> /\ calls \in Nat
  BY TopIs DEF Call, InBody
<1>2. PICK use \in Uses, unwrap \in {"none", "propagate", "panic"} :
        MoveTo(EnterFn(stack, env, use, unwrap))
  BY DEF Call
<1>3. Bookkeeping'
  BY TreeAssumption DEF IInv, Bookkeeping, Call, CanCall
<1>4. WellNested(EnterFn(stack, env, use, unwrap).stack, EnterFn(stack, env, use, unwrap).env)
  BY <1>1, UsesAre, EnterFnNests
<1>5. QED
  BY <1>2, <1>3, <1>4, Moved

LEMMA FailInv == IInv /\ Fail => IInv'
BY EndNests, ResultTypes DEF Fail

LEMMA PropagateInv == IInv /\ Propagate => IInv'
<1> SUFFICES ASSUME IInv, Propagate PROVE IInv'
  OBVIOUS
<1>1. PICK v \in {"nil", "Err"} :
        MoveTo(Finish(stack, Exit(stack, env, "propagate"), Res("return", v)))
  BY DEF Propagate
<1>2. Res("return", v) \in Results
  BY ResultTypes DEF Kinds, Values
<1>3. QED
  BY <1>1, <1>2, EndNests DEF Propagate

LEMMA RetInv == IInv /\ Ret => IInv'
<1> SUFFICES ASSUME IInv, Ret PROVE IInv'
  OBVIOUS
<1>1. PICK v \in Values : MoveTo(Finish(stack, Exit(stack, env, "ret"), Res("return", v)))
  BY DEF Ret
<1>2. Res("return", v) \in Results
  BY ResultTypes DEF Kinds
<1>3. QED
  BY <1>1, <1>2, EndNests DEF Ret

LEMMA TailCallInv == IInv /\ TailCall => IInv'
<1> SUFFICES ASSUME IInv, TailCall PROVE IInv'
  OBVIOUS
<1>1. Res("tail", "nil") \in Results
  BY ResultTypes DEF Kinds, Values
<1>2. \/ MoveTo(Finish(stack, env, Res("tail", "nil")))
      \/ MoveTo(Finish(stack, Exit(stack, env, "ret"), Res("tail", "nil")))
  BY DEF TailCall
<1>3. QED
  BY <1>1, <1>2, EndNests DEF TailCall

LEMMA BreakOrContinueInv == IInv /\ BreakOrContinue => IInv'
<1> SUFFICES ASSUME IInv, BreakOrContinue PROVE IInv'
  OBVIOUS
<1>1. PICK r \in {Res("break", v) : v \in Values} \cup {Res("continue", "nil")} :
        MoveTo(Finish(stack, env, r))
  BY DEF BreakOrContinue
<1>2. r \in Results
  BY ResultTypes DEF Kinds, Values
<1>3. QED
  BY <1>1, <1>2, EndNests DEF BreakOrContinue

LEMMA BodyEndInv == IInv /\ BodyEnd => IInv'
<1> SUFFICES ASSUME IInv, BodyEnd PROVE IInv'
  OBVIOUS
<1>1. PICK v \in Values : MoveTo(Finish(stack, env, Res("value", v)))
  BY DEF BodyEnd
<1>2. Res("value", v) \in Results
  BY ResultTypes DEF Kinds
<1>3. QED
  BY <1>1, <1>2, EndNests DEF BodyEnd

LEMMA DeferInv == IInv /\ Defer => IInv'
<1> SUFFICES ASSUME IInv, Defer PROVE IInv'
  OBVIOUS
<1>1. WellNested(stack, env) /\ env \in Envs /\ Len(fates) \in Nat
  BY DEF IInv, WellNested, Bookkeeping
<1>2. PICK kind \in {"Always", "OnError"} :
        env' = [env EXCEPT !.defers =
                  Append(@, [id |-> Len(fates) + 1, kind |-> kind,
                             owner |-> env.owner, depth |-> env.depth])]
  BY DEF Defer
<1> DEFINE d == [id |-> Len(fates) + 1, kind |-> kind, owner |-> env.owner, depth |-> env.depth]
<1>3. d \in Entries
  BY <1>1 DEF Entries, Envs
<1>4. env.defers \in Seq(Entries) /\ env' = [env EXCEPT !.defers = Append(env.defers, d)]
  BY <1>1, <1>2, EnvParts
<1> HIDE DEF d
<1>5. Append(env.defers, d) \in Seq(Entries) /\ Extends(Append(env.defers, d), env.defers)
  BY <1>3, <1>4 DEF Extends
<1>6. env' \in Envs /\ env'.marks = env.marks /\ env'.defers = Append(env.defers, d)
  BY <1>1, <1>4, <1>5 DEF Envs
<1>7. WellNested(stack, env')
  BY <1>1, <1>5, <1>6, EnvGrows
<1>8. stack' = stack /\ Bookkeeping'
  BY DEF Defer, IInv, Bookkeeping
<1>9. QED
  BY <1>7, <1>8 DEF IInv

LEMMA BlockInv == IInv /\ Block => IInv'
<1> SUFFICES ASSUME IInv, Block PROVE IInv'
  OBVIOUS
<1>1. WellNested(stack, env) /\ stack # <<>> /\ env \in Envs /\ Top \in Frames
  BY TopIs DEF Block, InBody, WellNested
<1>2. PICK form \in Forms, use \in Uses :
        MoveTo(OpenBlock(stack, Taken(use, env), form, Top.tail, use))
  BY DEF Block
<1>3. form \in Blocks /\ Top.tail \in BOOLEAN /\ use \in {"stmt", "ret", "rebind", "defer"}
  BY <1>1, TreeAssumption, UsesAre DEF Frames
<1>4. WellNested(stack, Taken(use, env))
  BY <1>1, TakenIs, EnvChanges
<1> DEFINE m == OpenBlock(stack, Taken(use, env), form, Top.tail, use)
<1>5. WellNested(m.stack, m.env)
  BY <1>1, <1>3, <1>4, OpenBlockNests
<1>6. Bookkeeping'
  BY DEF Block, IInv, Bookkeeping
<1>7. QED
  BY <1>2, <1>5, <1>6, Moved

\* A tail call keeps the frame and starts a fresh environment in it.
LEMMA TrampolineInv == IInv /\ Trampoline => IInv'
<1> SUFFICES ASSUME IInv, Trampoline PROVE IInv'
  OBVIOUS
<1>1. /\ WellNested(stack, env) /\ stack # <<>> /\ Top = stack[Len(stack)] /\ Top \in Frames
      /\ calls \in Nat /\ env \in Envs
  BY TopIs DEF Trampoline, WellNested
<1>2. Top.form = "fn" /\ Len(stack) \in 1..Len(stack)
  BY <1>1, PopIs DEF WellNested, Grounded, Trampoline
<1>3. CASE calls < MaxCalls /\ calls' = calls + 1
           /\ MoveTo(At(SetTop(stack, [Top EXCEPT !.phase = "run"]),
                        Fresh(calls + 1, env.depth, env.defers)))
  <2> DEFINE f == [Top EXCEPT !.phase = "run"]
             e2 == Fresh(calls + 1, env.depth, env.defers)
  <2>1. f \in Frames /\ f.form = Top.form /\ f.use = Top.use /\ f.saved = Top.saved /\ f.phase = "run"
    BY <1>1 DEF Frames
  <2>2. e2 \in Envs /\ e2.marks = 1
    <3>1. env.depth \in Nat /\ env.defers \in Seq(Entries) /\ calls + 1 \in Nat
      BY <1>1 DEF Envs
    <3>2. QED
      BY <3>1, FreshIs
  <2>3. env.marks = 1
    BY <1>1, <1>2 DEF WellNested, ScopesNest, EnvAt, MarksIn
  <2>4. Bookkeeping'
    BY <1>3, TreeAssumption DEF IInv, Bookkeeping, Trampoline
  <2> HIDE DEF f, e2
  <2>5. WellNested(SetTop(stack, f), e2)
    BY <1>1, <1>2, <2>1, <2>2, <2>3, TopChanges
  <2> DEFINE m == At(SetTop(stack, f), e2)
  <2>6. m.stack = SetTop(stack, f) /\ m.env = e2
    BY DEF At
  <2>7. MoveTo(m)
    BY <1>3 DEF f, e2
  <2> HIDE DEF m
  <2>8. QED
    BY <2>4, <2>5, <2>6, <2>7, Moved
<1>4. CASE MoveTo(Finish(stack, env, Failed)) /\ UNCHANGED calls
  <2>1. Bookkeeping'
    BY <1>4 DEF IInv, Bookkeeping, Trampoline
  <2>2. QED
    BY <1>1, <1>4, <2>1, ResultTypes, FinishNests, Moved
<1>5. QED
  BY <1>3, <1>4 DEF Trampoline

\* The entry a drain takes leaves everything nested as it was.
LEMMA DrainInv == IInv /\ Drain => IInv'
<1> SUFFICES ASSUME IInv, Drain PROVE IInv'
  OBVIOUS
<1>1. /\ WellNested(stack, env) /\ stack # <<>> /\ Top = stack[Len(stack)] /\ Top \in Frames
      /\ calls \in Nat /\ env \in Envs /\ Top.todo \in Seq(Entries) /\ Top.todo # <<>>
  BY TopIs DEF Drain, WellNested
<1> DEFINE f == [Top EXCEPT !.todo = Tail(@)]
<1>2. Tail(Top.todo) \in Seq(Entries)
  BY <1>1, HeadTailProperties
<1>3. f \in Frames /\ f.form = Top.form /\ f.use = Top.use /\ f.saved = Top.saved /\ f.phase = Top.phase
  BY <1>1, <1>2 DEF Frames
<1>4. Top.phase = "drain" /\ Len(stack) \in 1..Len(stack)
  BY <1>1, PopIs DEF Drain, WellNested
<1>5. Top.form # "fn" => Extends(env.defers, Top.saved.defers)
  BY <1>1, <1>4 DEF WellNested, DefersNest, EnvAt
<1>6. WellNested(Advanced, env) /\ Advanced # <<>>
  <2> HIDE DEF f
  <2>1. WellNested(SetTop(stack, f), env)
    BY <1>1, <1>3, <1>4, <1>5, TopChanges
  <2>2. Advanced = SetTop(stack, f)
    BY DEF Advanced, f
  <2>3. Len(SetTop(stack, f)) = Len(stack)
    BY <1>1 DEF SetTop, WellNested
  <2>4. QED
    BY <1>4, <2>1, <2>2, <2>3
<1>7. fates' \in Seq({"pending", "ran", "skipped"}) /\ status' = status
  <2>1. PICK x \in {"ran", "skipped"} : fates' = [fates EXCEPT ![Head(Top.todo).id] = x]
    BY DEF Drain
  <2> DEFINE i == Head(Top.todo).id
  <2> HIDE DEF i
  <2>2. fates' = [fates EXCEPT ![i] = x]
    BY <2>1 DEF i
  <2>3. fates \in Seq({"pending", "ran", "skipped"})
    BY DEF IInv, Bookkeeping
  <2>4. fates' \in Seq({"pending", "ran", "skipped"})
    BY <2>2, <2>3, ExceptType
  <2>5. QED
    BY <2>4 DEF Drain
<1>8. CASE MoveTo(At(Advanced, env)) /\ UNCHANGED calls
  <2>1. Bookkeeping'
    BY <1>7, <1>8 DEF IInv, Bookkeeping
  <2>2. At(Advanced, env).stack = Advanced /\ At(Advanced, env).env = env
    BY DEF At
  <2>3. QED
    BY <1>6, <1>8, <2>1, <2>2, Moved
<1>9. CASE CanCall /\ calls' = calls + 1 /\ MoveTo(EnterFn(Advanced, env, "defer", "none"))
  <2>1. Bookkeeping'
    BY <1>7, <1>9, TreeAssumption DEF IInv, Bookkeeping, CanCall
  <2>2. QED
    BY <1>1, <1>6, <1>9, <2>1, EnterFnNests, Moved
<1>10. CASE MoveTo(OpenBlock(Advanced, env, "arm", FALSE, "defer")) /\ UNCHANGED calls
  <2>1. Bookkeeping'
    BY <1>7, <1>10 DEF IInv, Bookkeeping
  <2>2. "arm" \in Blocks
    BY DEF Blocks
  <2>3. QED
    BY <1>6, <1>10, <2>1, <2>2, OpenBlockNests, Moved
<1>11. QED
  BY <1>8, <1>9, <1>10 DEF Drain

LEMMA LeaveFnInv == IInv /\ LeaveFn => IInv'
<1> SUFFICES ASSUME IInv, LeaveFn PROVE IInv'
  OBVIOUS
<1>1. /\ WellNested(stack, env) /\ stack # <<>> /\ Top = stack[Len(stack)] /\ Top \in Frames
      /\ Top.use \in {"start", "stmt", "ret", "rebind", "defer"} /\ Top.res \in Results
      /\ Top.unwrap \in {"none", "propagate", "panic"}
  BY TopIs DEF LeaveFn, Leaving, Frames
<1> DEFINE r == Returned(Top.res)
           o == IF r = Failed THEN r ELSE Unwrapped(Top.unwrap, r.v)
<1>2. o \in Outcomes
  BY <1>1, ReturnedType
<1>3. WellNested(Pop(stack), Top.saved)
  BY <1>1, PopNests
<1>4. Pop(stack) = <<>> => Top.use = "start"
  <2>1. Len(Pop(stack)) = Len(stack) - 1 /\ Len(stack) \in Nat \ {0}
    BY <1>1, PopIs DEF WellNested
  <2>2. Pop(stack) = <<>> => Len(stack) = 1
    BY <2>1
  <2>3. Len(stack) = 1 => Top.use = "start"
    BY <1>1 DEF WellNested, Grounded
  <2>4. QED
    BY <2>2, <2>3
<1>5. Bookkeeping'
  BY DEF LeaveFn, IInv, Bookkeeping
<1>6. MoveTo(Deliver(Pop(stack), Top.saved, Top.use, o))
  BY DEF LeaveFn, Restored
<1> HIDE DEF o
<1>7. QED
  BY <1>1, <1>2, <1>3, <1>4, <1>5, <1>6, DeliverNests, Moved

\* The top block without its scope.
LEMMA LeftBlock ==
  ASSUME IInv, Leaving, Top.form # "fn"
  PROVE  WellNested(Pop(stack), Unscoped(Top, env)) /\ Pop(stack) # <<>> /\ Top.res \in Results
BY TopIs, UnscopedNests DEF Leaving

LEMMA LeaveArmInv == IInv /\ LeaveArm => IInv'
<1> SUFFICES ASSUME IInv, LeaveArm PROVE IInv'
  OBVIOUS
<1> DEFINE e2 == Ignored(Top, Unscoped(Top, env))
<1>1. /\ WellNested(Pop(stack), Unscoped(Top, env)) /\ Pop(stack) # <<>>
      /\ Returned(Top.res) \in Outcomes
      /\ Top.use \in {"start", "stmt", "ret", "rebind", "defer"}
  BY LeftBlock, TopIs, ReturnedType DEF LeaveArm, Leaving
<1>2. Bookkeeping'
  BY DEF LeaveArm, IInv, Bookkeeping
<1>3. MoveTo(Deliver(Pop(stack), e2, Top.use, Returned(Top.res)))
  BY DEF LeaveArm
<1>4. WellNested(Pop(stack), e2)
  BY <1>1, EnvMarked DEF Ignored
<1> HIDE DEF e2
<1>5. QED
  BY <1>1, <1>2, <1>3, <1>4, DeliverNests, Moved

LEMMA LeaveBlockInv == IInv /\ LeaveBlock => IInv'
<1> SUFFICES ASSUME IInv, LeaveBlock PROVE IInv'
  OBVIOUS
<1> DEFINE s == Pop(stack)
           e == Unscoped(Top, env)
           r == Top.res
<1>1. WellNested(s, e) /\ s # <<>> /\ r \in Results
  BY LeftBlock DEF LeaveBlock
<1>2. Bookkeeping'
  BY DEF LeaveBlock, IInv, Bookkeeping
<1>3. Res("return", r.v) \in Results
  BY <1>1, ResultTypes DEF Results, Kinds
<1>4. \/ MoveTo(At(s, e))
      \/ MoveTo(Finish(s, e, Res("return", r.v)))
      \/ MoveTo(Finish(s, e, r))
  BY DEF LeaveBlock
<1>5. At(s, e).stack = s /\ At(s, e).env = e
  BY DEF At
<1> HIDE DEF s, e, r
<1>6. QED
  BY <1>1, <1>2, <1>3, <1>4, <1>5, FinishNests, Moved

LEMMA LeaveLoopInv == IInv /\ LeaveLoop => IInv'
<1> SUFFICES ASSUME IInv, LeaveLoop PROVE IInv'
  OBVIOUS
<1> DEFINE s == Pop(stack)
           e == Unscoped(Top, env)
           r == Top.res
<1>1. WellNested(s, e) /\ s # <<>> /\ r \in Results
  BY LeftBlock DEF LeaveLoop, Loops
<1>2. Bookkeeping'
  BY DEF LeaveLoop, IInv, Bookkeeping
<1>3. \/ MoveTo(Finish(s, e, r))
      \/ MoveTo(At(s, e))
      \/ MoveTo(OpenBlock(s, e, Top.form, FALSE, "stmt"))
  BY DEF LeaveLoop
<1>4. At(s, e).stack = s /\ At(s, e).env = e
  BY DEF At
<1>5. Top.form \in Blocks
  BY DEF LeaveLoop, Blocks
<1> HIDE DEF s, e, r
<1>6. QED
  BY <1>1, <1>2, <1>3, <1>4, <1>5, FinishNests, OpenBlockNests, Moved

LEMMA TailCallEscapesInv == IInv /\ TailCallEscapes => IInv'
BY DEF TailCallEscapes, IInv, Bookkeeping

-----------------------------------------------------------------------------
THEOREM Invariance == Spec => []IInv
<1>1. IInv /\ UNCHANGED vars => IInv'
  BY DEF IInv, Bookkeeping, vars
<1>2. IInv /\ Next => IInv'
  BY CallInv, FailInv, PropagateInv, RetInv, TailCallInv, BreakOrContinueInv,
     BodyEndInv, DeferInv, BlockInv, TrampolineInv, DrainInv, LeaveFnInv,
     LeaveArmInv, LeaveBlockInv, LeaveLoopInv, TailCallEscapesInv DEF Next
<1>3. QED
  BY <1>1, <1>2, InitNests, PTL DEF Spec

(***************************************************************************)
(* The variables keep their types: no environment, live or saved, is ever  *)
(* without a scope mark, so pop_scope never panics.                        *)
(***************************************************************************)
THEOREM TypeCorrect == Spec => []TypeOK
<1>1. IInv => TypeOK
  BY DEF IInv, WellNested, Bookkeeping, TypeOK
<1>2. QED
  BY <1>1, Invariance, PTL

(***************************************************************************)
(* push_scope and pop_scope balance along every path of every program.     *)
(***************************************************************************)
THEOREM Scopes == Spec => []ScopesBalanced
<1>1. IInv => ScopesBalanced
  BY DEF IInv, WellNested, ScopesBalanced
<1>2. QED
  BY <1>1, Invariance, PTL

(***************************************************************************)
(* A block never drains a defer registered outside it.                     *)
(***************************************************************************)
THEOREM BlockDrains == Spec => []OuterDefersKept
<1>1. IInv => OuterDefersKept
  BY DEF IInv, WellNested, OuterDefersKept
<1>2. QED
  BY <1>1, Invariance, PTL

-----------------------------------------------------------------------------
(***************************************************************************)
(* Defers stay in their activation, exits are final, and a self-rebind is  *)
(* invisible.  The history fields depth, exited and slot of every          *)
(* environment, live or saved, are explained by where its frame stands:    *)
(* OwnAt, ExitAt and RebindAt say how for the body of one frame, Open for  *)
(* the whole stack, and Sound adds the top frame, which Open leaves out    *)
(* because a step may be about to act on a result there.  Again one lemma  *)
(* per helper, then one per action.                                        *)
(***************************************************************************)
\* Frame i of s is inside a deferred match, or a match that is the operand of a
\* self-rebind, of its activation, whose environment is x.
Within(s, i, x, uses) == \E j \in x.depth..i : s[j].form # "fn" /\ s[j].use \in uses

Deferred(s, i, x) == Within(s, i, x, {"defer"})

Operand(s, i, x) == Within(s, i, x, {"defer", "rebind"})

\* Frame i is inside a construct that swallows a return.
Swallowing(s, i, x) == \E j \in x.depth..i : Swallows(s[j].form)

\* The result of a statement that ends the activation.
Ends(r) == r.kind \in {"return", "tail", "error"}

\* Only matches are used for their value; only a drain has a list to run; a
\* deferred expression is evaluated by a drain and anything else by a body.
Shaped(s) ==
  \A i \in 1..Len(s) :
    /\ s[i].form \notin {"fn", "arm"} => s[i].use = "stmt"
    /\ s[i].phase # "drain" => s[i].todo = <<>>
    /\ i > 1 => /\ s[i].use # "start"
                /\ s[i - 1].phase = IF s[i].use = "defer" THEN "drain" ELSE "run"

\* The environment of a frame is that of its activation, and so is every entry.
OwnAt(s, i, x) ==
  /\ x.depth \in 1..i
  /\ x.depth = IF s[i].form = "fn" THEN i ELSE s[i].saved.depth
  /\ \A k \in 1..Len(x.defers) : x.defers[k].depth = x.depth
  /\ \A k \in 1..Len(s[i].todo) : s[i].todo[k].depth = x.depth
  /\ s[i].form # "fn" /\ Swallowing(s, i, x) => x.exited = s[i].saved.exited

\* An activation that has exited is leaving its frames one by one.
ExitAt(s, i, x) ==
  x.exited # "no" =>
    \/ Deferred(s, i, x)
    \/ s[i].phase # "run" /\ Ends(s[i].res) /\ ~Swallowing(s, i, x)

\* A variable is empty while an operand is evaluated or after the exit it caused.
RebindAt(s, i, x) ==
  x.slot = "taken" =>
    \/ Operand(s, i, x)
    \/ i < Len(s) /\ s[i + 1].use = "rebind"
    \/ s[i].phase # "run" /\ (s[i].res.kind = "error" \/ x.exited # "no")

\* All of it, except that the top frame may be about to act on a result.
Open(s, e) ==
  /\ Shaped(s)
  /\ EnvAt(s, e, 0).defers = <<>>
  /\ \A i \in 1..Len(s) : OwnAt(s, i, EnvAt(s, e, i))
  /\ \A i \in 1..Len(s) : i # Len(s) => ExitAt(s, i, EnvAt(s, e, i)) /\ RebindAt(s, i, EnvAt(s, e, i))

Rests(s, e) == s # <<>> => ExitAt(s, Len(s), e) /\ RebindAt(s, Len(s), e)

Sound(s, e) == Open(s, e) /\ Rests(s, e)

\* The top frame may execute another statement.
Calm(s, e) ==
  /\ e.exited # "no" => Deferred(s, Len(s), e)
  /\ e.slot = "taken" => Operand(s, Len(s), e)

-----------------------------------------------------------------------------
\* What a new top frame leaves as it is.
LEMMA TopView ==
  ASSUME NEW s \in Seq(Frames), s # <<>>, NEW f \in Frames, NEW e, NEW e2,
         f.saved = s[Len(s)].saved
  PROVE  LET t == SetTop(s, f)
         IN  /\ t \in Seq(Frames) /\ Len(t) = Len(s) /\ t # <<>>
             /\ t[Len(s)] = f
             /\ \A i \in 1..Len(s) : i # Len(s) => t[i] = s[i]
             /\ EnvAt(t, e2, Len(s)) = e2
             /\ \A i \in 0..Len(s) : i # Len(s) => EnvAt(t, e2, i) = EnvAt(s, e, i)
<1> DEFINE t == SetTop(s, f)
<1>1. Len(s) \in Nat \ {0}
  OBVIOUS
<1>2. /\ t \in Seq(Frames) /\ Len(t) = Len(s) /\ t # <<>>
      /\ t[Len(s)] = f
      /\ \A i \in 1..Len(s) : i # Len(s) => t[i] = s[i]
  BY <1>1 DEF SetTop
<1> HIDE DEF t
<1>3. EnvAt(t, e2, Len(s)) = e2
  BY <1>2 DEF EnvAt
<1>4. ASSUME NEW i \in 0..Len(s), i # Len(s) PROVE EnvAt(t, e2, i) = EnvAt(s, e, i)
  <2>1. i + 1 \in 1..Len(s)
    BY <1>1, <1>4
  <2>2. t[i + 1].saved = s[i + 1].saved
    BY <1>2, <2>1
  <2>3. QED
    BY <1>2, <1>4, <2>2 DEF EnvAt
<1>5. QED
  BY <1>2, <1>3, <1>4 DEF t

\* The stack with a frame more.
LEMMA PushView ==
  ASSUME NEW s \in Seq(Frames), NEW f \in Frames, NEW e, NEW e2
  PROVE  LET t == Append(s, f)
             n == Len(s)
         IN  /\ t \in Seq(Frames) /\ Len(t) = n + 1 /\ t # <<>>
             /\ t[n + 1] = f
             /\ \A i \in 1..n : t[i] = s[i]
             /\ EnvAt(t, e2, n + 1) = e2
             /\ EnvAt(t, e2, n) = f.saved
             /\ \A i \in 0..n : i # n => EnvAt(t, e2, i) = EnvAt(s, e, i)
<1> DEFINE t == Append(s, f)
           n == Len(s)
<1>1. n \in Nat
  OBVIOUS
<1>2. /\ t \in Seq(Frames) /\ Len(t) = n + 1 /\ t # <<>>
      /\ t[n + 1] = f
      /\ \A i \in 1..n : t[i] = s[i]
  BY <1>1
<1> HIDE DEF t
<1>3. EnvAt(t, e2, n + 1) = e2 /\ EnvAt(t, e2, n) = f.saved
  BY <1>1, <1>2 DEF EnvAt
<1>4. ASSUME NEW i \in 0..n, i # n PROVE EnvAt(t, e2, i) = EnvAt(s, e, i)
  <2>1. i + 1 \in 1..n /\ i # n + 1
    BY <1>1, <1>4
  <2>2. QED
    BY <1>2, <1>4, <2>1 DEF EnvAt
<1>5. QED
  BY <1>2, <1>3, <1>4 DEF t

\* The frames below n are in the same environments.
SameBelow(n, t, e2, s, e) == \A i \in 0..n : i # n => EnvAt(t, e2, i) = EnvAt(s, e, i)

\* The stack with a frame less.
LEMMA PopView ==
  ASSUME NEW s \in Seq(Frames), s # <<>>, NEW e, NEW e2,
         NEW t, t = Pop(s), NEW n, n = Len(s) - 1
  PROVE  /\ t \in Seq(Frames) /\ n \in Nat /\ Len(t) = n /\ Len(s) = n + 1
         /\ \A i \in 1..n : t[i] = s[i]
         /\ s[n + 1] \in Frames
         /\ EnvAt(t, e2, n) = e2
         /\ EnvAt(s, e, n) = s[n + 1].saved
         /\ EnvAt(s, e, n + 1) = e
         /\ SameBelow(n, t, e2, s, e)
<1>1. /\ t \in Seq(Frames) /\ n \in Nat /\ Len(t) = n /\ Len(s) = n + 1
      /\ \A i \in 1..n : t[i] = s[i]
      /\ s[n + 1] \in Frames
  BY PopIs
<1>2. EnvAt(t, e2, n) = e2 /\ EnvAt(s, e, n) = s[n + 1].saved /\ EnvAt(s, e, n + 1) = e
  BY <1>1 DEF EnvAt
<1>3. ASSUME NEW i \in 0..n, i # n PROVE EnvAt(t, e2, i) = EnvAt(s, e, i)
  <2>1. i + 1 \in 1..n /\ i # n + 1
    BY <1>1, <1>3
  <2>2. QED
    BY <1>1, <1>3, <2>1 DEF EnvAt
<1>4. QED
  BY <1>1, <1>2, <1>3 DEF SameBelow

\* What a frame is within depends on the constructs below it.
LEMMA WithinSame ==
  ASSUME NEW s, NEW t, NEW i \in Nat, NEW x, NEW y, x.depth \in 1..i, y.depth = x.depth,
         \A j \in 1..i : t[j].form = s[j].form /\ t[j].use = s[j].use
  PROVE  /\ Deferred(t, i, y) <=> Deferred(s, i, x)
         /\ Operand(t, i, y) <=> Operand(s, i, x)
         /\ Swallowing(t, i, y) <=> Swallowing(s, i, x)
<1>1. \A j \in x.depth..i : t[j].form = s[j].form /\ t[j].use = s[j].use
  OBVIOUS
<1>2. QED
  BY <1>1 DEF Deferred, Operand, Within, Swallowing

\* Conditions on a frame that is not the top carry over.
LEMMA BelowSame ==
  ASSUME NEW s, NEW t, NEW i \in Nat, NEW x, x.depth \in 1..i,
         \A j \in 1..i : t[j] = s[j]
  PROVE  /\ OwnAt(s, i, x) => OwnAt(t, i, x)
         /\ ExitAt(s, i, x) => ExitAt(t, i, x)
         /\ i < Len(s) /\ i < Len(t) /\ t[i + 1].use = s[i + 1].use
              /\ RebindAt(s, i, x) => RebindAt(t, i, x)
<1>1. i \in 1..i
  OBVIOUS
<1>2. t[i] = s[i]
  BY <1>1
<1>3. /\ Deferred(t, i, x) <=> Deferred(s, i, x)
      /\ Operand(t, i, x) <=> Operand(s, i, x)
      /\ Swallowing(t, i, x) <=> Swallowing(s, i, x)
  BY WithinSame
<1>4. QED
  BY <1>2, <1>3 DEF OwnAt, ExitAt, RebindAt

\* The top frame f of s and the environment e2 take the place of s's and of e: the
\* same construct and activation, and what e2 marks is accounted for.
Fits(s, e, f, e2) ==
  /\ f.form = s[Len(s)].form /\ f.use = s[Len(s)].use
  /\ f.phase # "drain" => f.todo = <<>>
  /\ e2.depth = e.depth
  /\ f.form = "fn" \/ e2.exited = e.exited \/ ~Swallowing(s, Len(s), e)
  /\ \A k \in 1..Len(e2.defers) : e2.defers[k].depth = e.depth
  /\ \A k \in 1..Len(f.todo) : f.todo[k].depth = e.depth
  /\ e2.exited # "no" =>
       \/ Deferred(s, Len(s), e)
       \/ f.phase # "run" /\ Ends(f.res) /\ ~Swallowing(s, Len(s), e)
  /\ e2.slot = "taken" =>
       \/ Operand(s, Len(s), e)
       \/ f.phase # "run" /\ (f.res.kind = "error" \/ e2.exited # "no")

(***************************************************************************)
(* The top frame goes on to another phase, result and list, and the        *)
(* environment to other defers and marks of the same activation.           *)
(***************************************************************************)
LEMMA TopSound ==
  ASSUME NEW s \in Seq(Frames), s # <<>>, NEW e, Open(s, e), NEW f \in Frames, NEW e2,
         f.saved = s[Len(s)].saved, Fits(s, e, f, e2)
  PROVE  Sound(SetTop(s, f), e2)
<1> DEFINE t == SetTop(s, f)
           n == Len(s)
<1>1. n \in Nat \ {0} /\ n \in 1..n
  OBVIOUS
<1>2. /\ t \in Seq(Frames) /\ Len(t) = n /\ t # <<>>
      /\ t[n] = f
      /\ \A i \in 1..n : i # n => t[i] = s[i]
      /\ EnvAt(t, e2, n) = e2
      /\ \A i \in 0..n : i # n => EnvAt(t, e2, i) = EnvAt(s, e, i)
  BY TopView
<1> HIDE DEF t
<1>3. EnvAt(s, e, n) = e
  BY DEF EnvAt
<1>4. e.depth \in 1..n /\ OwnAt(s, n, e)
  BY <1>1, <1>3 DEF Open, OwnAt
<1>5. \A j \in 1..n : t[j].form = s[j].form /\ t[j].use = s[j].use
  BY <1>2 DEF Fits
<1>6. /\ Deferred(t, n, e2) <=> Deferred(s, n, e)
      /\ Operand(t, n, e2) <=> Operand(s, n, e)
      /\ Swallowing(t, n, e2) <=> Swallowing(s, n, e)
  BY <1>1, <1>4, <1>5, WithinSame DEF Fits
<1>7. Shaped(t)
  <2> SUFFICES ASSUME NEW i \in 1..n
               PROVE  /\ t[i].form \notin {"fn", "arm"} => t[i].use = "stmt"
                      /\ t[i].phase # "drain" => t[i].todo = <<>>
                      /\ i > 1 => t[i].use # "start" /\ t[i - 1].phase = IF t[i].use = "defer" THEN "drain" ELSE "run"
    BY <1>2 DEF Shaped
  <2>1. /\ s[i].form \notin {"fn", "arm"} => s[i].use = "stmt"
        /\ s[i].phase # "drain" => s[i].todo = <<>>
        /\ i > 1 => s[i].use # "start" /\ s[i - 1].phase = IF s[i].use = "defer" THEN "drain" ELSE "run"
    BY DEF Open, Shaped
  <2>2. t[i].form = s[i].form /\ t[i].use = s[i].use /\ (i # n => t[i] = s[i])
    BY <1>2, <1>5
  <2>3. i > 1 => t[i - 1] = s[i - 1]
    <3>1. i > 1 => i - 1 \in 1..n /\ i - 1 # n
      BY <1>1
    <3>2. QED
      BY <1>2, <3>1
  <2>4. t[i].phase # "drain" => t[i].todo = <<>>
    BY <1>2, <2>1, <2>2 DEF Fits
  <2>5. QED
    BY <2>1, <2>2, <2>3, <2>4
<1>8. EnvAt(t, e2, 0).defers = <<>>
  BY <1>1, <1>2 DEF Open
<1>9. OwnAt(t, n, e2)
  BY <1>2, <1>4, <1>6 DEF OwnAt, Fits
<1>10. ASSUME NEW i \in 1..n, i # n
       PROVE  /\ OwnAt(t, i, EnvAt(t, e2, i))
              /\ ExitAt(t, i, EnvAt(t, e2, i))
              /\ RebindAt(t, i, EnvAt(t, e2, i))
  <2>1. EnvAt(t, e2, i) = EnvAt(s, e, i) /\ i \in Nat /\ i < n
    BY <1>1, <1>2, <1>10
  <2>2. /\ OwnAt(s, i, EnvAt(s, e, i))
        /\ ExitAt(s, i, EnvAt(s, e, i))
        /\ RebindAt(s, i, EnvAt(s, e, i))
    BY <1>10 DEF Open
  <2>3. \A j \in 1..i : t[j] = s[j]
    BY <1>1, <1>2, <2>1
  <2>4. t[i + 1].use = s[i + 1].use
    BY <1>5, <2>1
  <2>5. EnvAt(s, e, i).depth \in 1..i
    BY <2>2 DEF OwnAt
  <2>6. QED
    BY <1>2, <2>1, <2>2, <2>3, <2>4, <2>5, BelowSame
<1>11. ExitAt(t, n, e2) /\ RebindAt(t, n, e2)
  BY <1>2, <1>6 DEF ExitAt, RebindAt, Fits
<1>12. Open(t, e2) /\ Rests(t, e2)
  BY <1>2, <1>7, <1>8, <1>9, <1>10, <1>11 DEF Open, Rests
<1>13. QED
  BY <1>12 DEF Sound, t

\* Another environment for the top frame, the frame as it is.
LEMMA EnvOpen ==
  ASSUME NEW s \in Seq(Frames), s # <<>>, NEW e, Open(s, e), NEW e2,
         e2.depth = e.depth,
         e2.defers = e.defers \/ \A k \in 1..Len(e2.defers) : e2.defers[k].depth = e.depth,
         e2.exited = e.exited \/ ~Swallowing(s, Len(s), e)
  PROVE  Open(s, e2)
<1> DEFINE n == Len(s)
<1>1. n \in Nat \ {0} /\ n \in 1..n
  OBVIOUS
<1>2. \A i \in 0..n : i # n => EnvAt(s, e2, i) = EnvAt(s, e, i)
  BY DEF EnvAt
<1>3. EnvAt(s, e2, n) = e2 /\ EnvAt(s, e, n) = e
  BY DEF EnvAt
<1>4. OwnAt(s, n, e)
  BY <1>1, <1>3 DEF Open
<1>5. Swallowing(s, n, e2) <=> Swallowing(s, n, e)
  BY DEF Swallowing
<1>6. \A k \in 1..Len(e2.defers) : e2.defers[k].depth = e.depth
  BY <1>4 DEF OwnAt
<1>7. OwnAt(s, n, e2)
  BY <1>4, <1>5, <1>6 DEF OwnAt
<1>8. QED
  BY <1>1, <1>2, <1>3, <1>7 DEF Open

\* The part of a list after n, turned round.
LEMMA ReversedRest ==
  ASSUME NEW S, NEW s \in Seq(S), NEW n \in 0..Len(s)
  PROVE  LET t == Reversed(SubSeq(s, n + 1, Len(s)))
         IN  /\ t \in Seq(S) /\ Len(t) = Len(s) - n
             /\ \A k \in 1..(Len(s) - n) : t[k] = s[Len(s) + 1 - k]
<1> DEFINE u == SubSeq(s, n + 1, Len(s))
<1>1. Len(s) \in Nat /\ n \in Nat /\ n <= Len(s)
  OBVIOUS
<1>2. u \in Seq(S) /\ Len(u) = Len(s) - n /\ \A k \in 1..(Len(s) - n) : u[k] = s[n + k]
  <2>1. \A i \in (n + 1)..Len(s) : s[i] \in S
    BY <1>1
  <2>2. /\ u \in Seq(S)
        /\ Len(u) = IF n + 1 <= Len(s) THEN Len(s) - (n + 1) + 1 ELSE 0
        /\ \A k \in 1..(Len(s) - (n + 1) + 1) : u[k] = s[n + 1 + k - 1]
    BY <1>1, <2>1, SubSeqProperties
  <2>3. QED
    BY <1>1, <2>2
<1> HIDE DEF u
<1>3. Reversed(u) \in Seq(S)
  BY <1>2, ReversedType
<1>4. \A k \in 1..(Len(s) - n) : Len(u) + 1 - k \in 1..(Len(s) - n) /\ n + (Len(u) + 1 - k) = Len(s) + 1 - k
  BY <1>1, <1>2
<1>5. Len(Reversed(u)) = Len(s) - n /\ \A k \in 1..(Len(s) - n) : Reversed(u)[k] = s[Len(s) + 1 - k]
  BY <1>1, <1>2, <1>4 DEF Reversed
<1>6. QED
  BY <1>3, <1>5 DEF u

(***************************************************************************)
(* What Finish makes of the top frame and the environment: the first kept  *)
(* entries stay on the defer stack, the others are the frame's list, the   *)
(* last of them first.                                                     *)
(***************************************************************************)
Finished(s, e, r, g, x, kept) ==
  /\ g \in Frames /\ x \in Envs
  /\ g.form = s[Len(s)].form /\ g.use = s[Len(s)].use /\ g.saved = s[Len(s)].saved
  /\ g.res = r
  /\ x.depth = e.depth /\ x.exited = e.exited /\ x.slot = e.slot
  /\ kept \in 0..Len(e.defers) /\ Len(x.defers) = kept
  /\ \A k \in 1..kept : x.defers[k] = e.defers[k]
  /\ \/ /\ g.phase = "trampoline" /\ g.form = "fn" /\ r.kind = "tail"
        /\ kept = Len(e.defers) /\ g.todo = s[Len(s)].todo
     \/ /\ g.phase = "drain" /\ (g.form = "fn" => kept = 0)
        /\ Len(g.todo) = Len(e.defers) - kept
        /\ \A k \in 1..Len(g.todo) : g.todo[k] = e.defers[Len(e.defers) + 1 - k]

LEMMA FinishIs ==
  ASSUME NEW s, NEW e, WellNested(s, e), s # <<>>, NEW r \in Results
  PROVE  \E g, x, kept : /\ Finish(s, e, r) = At(SetTop(s, g), x)
                         /\ Finished(s, e, r, g, x, kept)
<1> DEFINE f == s[Len(s)]
           kept == IF Draining(f.form) THEN Mark(f) ELSE Len(e.defers)
           g == [f EXCEPT !.phase = "trampoline", !.res = r]
           todo == Reversed(SubSeq(e.defers, kept + 1, Len(e.defers)))
           h == [f EXCEPT !.phase = "drain", !.res = r, !.todo = todo]
           e2 == [e EXCEPT !.defers = SubSeq(@, 1, kept)]
<1>1. /\ f \in Frames /\ e \in Envs /\ e.defers \in Seq(Entries) /\ Len(e.defers) \in Nat
  BY PopIs, EnvParts DEF WellNested
<1>2. kept \in 0..Len(e.defers) /\ (f.form = "fn" => kept = 0)
  BY <1>1, MarkInRange DEF Mark, Draining
<1>3. /\ SubSeq(e.defers, 1, kept) \in Seq(Entries)
      /\ Len(SubSeq(e.defers, 1, kept)) = kept
      /\ \A k \in 1..kept : SubSeq(e.defers, 1, kept)[k] = e.defers[k]
      /\ todo \in Seq(Entries)
      /\ Len(todo) = Len(e.defers) - kept
      /\ \A k \in 1..(Len(e.defers) - kept) : todo[k] = e.defers[Len(e.defers) + 1 - k]
  <2> HIDE DEF kept
  <2>1. /\ SubSeq(e.defers, 1, kept) \in Seq(Entries)
        /\ Len(SubSeq(e.defers, 1, kept)) = kept
        /\ \A k \in 1..kept : SubSeq(e.defers, 1, kept)[k] = e.defers[k]
    BY <1>1, <1>2, PrefixIs
  <2>2. LET u == Reversed(SubSeq(e.defers, kept + 1, Len(e.defers)))
        IN  /\ u \in Seq(Entries) /\ Len(u) = Len(e.defers) - kept
            /\ \A k \in 1..(Len(e.defers) - kept) : u[k] = e.defers[Len(e.defers) + 1 - k]
    BY <1>1, <1>2, ReversedRest
  <2>3. QED
    BY <2>1, <2>2
<1>4. /\ e2 \in Envs /\ e2.depth = e.depth /\ e2.exited = e.exited /\ e2.slot = e.slot
      /\ e2.defers = SubSeq(e.defers, 1, kept)
  <2> HIDE DEF kept
  <2> QED
    BY <1>1, <1>3 DEF Envs
<1>5. /\ h \in Frames /\ h.form = f.form /\ h.use = f.use /\ h.saved = f.saved
      /\ h.phase = "drain" /\ h.todo = todo /\ h.res = r
  <2> HIDE DEF todo
  <2> QED
    BY <1>1, <1>3 DEF Frames, Results
<1>6. /\ g \in Frames /\ g.form = f.form /\ g.use = f.use /\ g.saved = f.saved
      /\ g.phase = "trampoline" /\ g.res = r /\ g.todo = f.todo
  BY <1>1 DEF Frames, Results
<1>7. CASE f.form = "fn" /\ r.kind = "tail"
  <2>1. Finish(s, e, r) = At(SetTop(s, g), e)
    BY <1>7 DEF Finish
  <2>2. Finished(s, e, r, g, e, Len(e.defers))
    <3> HIDE DEF g
    <3> QED
      BY <1>1, <1>6, <1>7 DEF Finished
  <2>3. QED
    BY <2>1, <2>2
<1>8. CASE ~(f.form = "fn" /\ r.kind = "tail")
  <2>1. Finish(s, e, r) = At(SetTop(s, h), e2)
    BY <1>8 DEF Finish
  <2>2. Finished(s, e, r, h, e2, kept)
    <3> HIDE DEF h, e2, kept, todo, f
    <3> QED
      BY <1>2, <1>3, <1>4, <1>5 DEF Finished, f
  <2>3. QED
    BY <2>1, <2>2
<1>9. QED
  BY <1>7, <1>8

\* A body ends with r.
LEMMA FinishSound ==
  ASSUME NEW s, NEW e, WellNested(s, e), s # <<>>, Open(s, e),
         s[Len(s)].phase # "drain", NEW r \in Results,
         e.exited # "no" => Deferred(s, Len(s), e) \/ (Ends(r) /\ ~Swallowing(s, Len(s), e)),
         e.slot = "taken" => Operand(s, Len(s), e) \/ r.kind = "error" \/ e.exited # "no"
  PROVE  LET m == Finish(s, e, r) IN Sound(m.stack, m.env)
<1> DEFINE n == Len(s)
<1>1. PICK g, x, kept : Finish(s, e, r) = At(SetTop(s, g), x) /\ Finished(s, e, r, g, x, kept)
  BY FinishIs
<1>2. s \in Seq(Frames) /\ e \in Envs /\ n \in 1..n /\ Len(e.defers) \in Nat
  BY PopIs, EnvParts DEF WellNested
<1>3. OwnAt(s, n, e) /\ s[n].todo = <<>>
  BY <1>2 DEF Open, EnvAt, Shaped
<1>4. \A k \in 1..Len(x.defers) : x.defers[k].depth = e.depth
  BY <1>1, <1>2, <1>3 DEF Finished, OwnAt
<1>5. \A k \in 1..Len(g.todo) : g.todo[k].depth = e.depth
  <2>1. CASE g.phase = "trampoline"
    BY <1>1, <1>3, <2>1 DEF Finished
  <2>2. CASE g.phase = "drain"
    <3>1. /\ kept \in 0..Len(e.defers) /\ Len(g.todo) = Len(e.defers) - kept
          /\ \A k \in 1..Len(g.todo) : g.todo[k] = e.defers[Len(e.defers) + 1 - k]
      BY <1>1, <2>2 DEF Finished
    <3>2. \A k \in 1..Len(g.todo) : Len(e.defers) + 1 - k \in 1..Len(e.defers)
      BY <1>2, <3>1
    <3>3. QED
      BY <1>3, <3>1, <3>2 DEF OwnAt
  <2>3. QED
    BY <1>1, <2>1, <2>2 DEF Finished
<1>6. g.phase # "drain" => g.todo = <<>>
  BY <1>1, <1>3 DEF Finished
<1>7. /\ g \in Frames /\ g.form = s[n].form /\ g.use = s[n].use /\ g.saved = s[n].saved
      /\ g.phase # "run" /\ g.res = r
      /\ x.depth = e.depth /\ x.exited = e.exited /\ x.slot = e.slot
  BY <1>1 DEF Finished
<1>8. Fits(s, e, g, x)
  BY <1>4, <1>5, <1>6, <1>7 DEF Fits
<1>9. Sound(SetTop(s, g), x)
  BY <1>2, <1>7, <1>8, TopSound
<1>10. QED
  BY <1>1, <1>9 DEF At

\* A statement ends its activation, or a construct that swallows its return.
LEMMA ExitSound ==
  ASSUME NEW s, NEW e, WellNested(s, e), s # <<>>, Open(s, e),
         s[Len(s)].phase # "drain", NEW r \in Results, Ends(r),
         NEW how \in {"ret", "propagate"},
         e.exited # "no" => Deferred(s, Len(s), e)
  PROVE  LET m == Finish(s, Exit(s, e, how), r) IN Sound(m.stack, m.env)
<1> DEFINE n == Len(s)
           x == Exit(s, e, how)
<1>1. s \in Seq(Frames) /\ e \in Envs
  BY DEF WellNested
<1>2. WellNested(s, x)
  BY EnvMarked
<1>3. CASE Swallowing(s, n, e)
  <2>1. x = [e EXCEPT !.slot = IF @ = "taken" THEN "lost" ELSE @]
    BY <1>3 DEF Exit, Swallowing
  <2>2. /\ x.depth = e.depth /\ x.defers = e.defers /\ x.exited = e.exited
        /\ x.slot # "taken"
    BY <1>1, <2>1 DEF Envs
  <2> HIDE DEF x
  <2>3. Open(s, x)
    BY <1>1, <2>2, EnvOpen
  <2>4. Deferred(s, n, x) <=> Deferred(s, n, e)
    BY <2>2 DEF Deferred, Within
  <2>5. LET m == Finish(s, x, r) IN Sound(m.stack, m.env)
    BY <1>2, <2>2, <2>3, <2>4, FinishSound
  <2>6. QED
    BY <2>5 DEF x
<1>4. CASE ~Swallowing(s, n, e)
  <2>1. x = [e EXCEPT !.exited = how]
    BY <1>4 DEF Exit, Swallowing
  <2>2. x.depth = e.depth /\ x.defers = e.defers /\ x.exited # "no"
    BY <1>1, <2>1 DEF Envs
  <2> HIDE DEF x
  <2>3. Open(s, x)
    BY <1>1, <1>4, <2>2, EnvOpen
  <2>4. ~Swallowing(s, n, x)
    BY <1>4, <2>2 DEF Swallowing
  <2>5. LET m == Finish(s, x, r) IN Sound(m.stack, m.env)
    BY <1>2, <2>2, <2>3, <2>4, FinishSound
  <2>6. QED
    BY <2>5 DEF x
<1>5. QED
  BY <1>3, <1>4

\* One frame further up.
LEMMA WithinStep ==
  ASSUME NEW t, NEW i \in Nat, NEW y, y.depth \in 1..(i + 1)
  PROVE  /\ Deferred(t, i + 1, y) <=>
              Deferred(t, i, y) \/ (t[i + 1].form # "fn" /\ t[i + 1].use = "defer")
         /\ Operand(t, i + 1, y) <=>
              Operand(t, i, y) \/ (t[i + 1].form # "fn" /\ t[i + 1].use \in {"defer", "rebind"})
         /\ Swallowing(t, i + 1, y) <=> Swallowing(t, i, y) \/ Swallows(t[i + 1].form)
<1>1. y.depth..(i + 1) = (y.depth..i) \cup {i + 1}
  OBVIOUS
<1>2. QED
  BY <1>1 DEF Deferred, Operand, Within, Swallowing

\* A match whose operand the activation computes is deferred or rebinds.
LEMMA DeferredIsOperand ==
  ASSUME NEW s, NEW i, NEW x
  PROVE  Deferred(s, i, x) => Operand(s, i, x)
BY DEF Deferred, Operand, Within

(***************************************************************************)
(* A frame is pushed on a body that may go on, or on a drain.              *)
(***************************************************************************)
\* The statement of the top frame may open a frame for this use.
Ready(s, e, use) ==
  /\ use # "start"
  /\ s[Len(s)].phase = IF use = "defer" THEN "drain" ELSE "run"
  /\ use = "defer" => Rests(s, e)
  /\ use # "defer" /\ e.exited # "no" => Deferred(s, Len(s), e)
  /\ use # "defer" /\ e.slot = "taken" => Operand(s, Len(s), e) \/ use = "rebind"

\* The environment in which the body of a new frame starts.
Starts(s, e, f, e2) ==
  \/ /\ f.form = "fn" /\ e2.depth = Len(s) + 1 /\ e2.defers = <<>>
     /\ e2.exited = "no" /\ e2.slot # "taken"
  \/ /\ f.form # "fn" /\ e2.depth = e.depth /\ e2.defers = e.defers
     /\ e2.exited = e.exited /\ e2.slot = e.slot

LEMMA PushSound ==
  ASSUME NEW s \in Seq(Frames), s # <<>>, NEW e, Open(s, e), NEW f \in Frames, NEW e2,
         f.saved = e, f.phase = "run", f.todo = <<>>,
         f.form \notin {"fn", "arm"} => f.use = "stmt",
         Ready(s, e, f.use), Starts(s, e, f, e2)
  PROVE  Sound(Append(s, f), e2)
<1> DEFINE t == Append(s, f)
           n == Len(s)
<1>1. n \in Nat \ {0} /\ n \in 1..n
  OBVIOUS
<1>2. /\ t \in Seq(Frames) /\ Len(t) = n + 1 /\ t # <<>>
      /\ t[n + 1] = f
      /\ \A i \in 1..n : t[i] = s[i]
      /\ EnvAt(t, e2, n + 1) = e2
      /\ EnvAt(t, e2, n) = e
      /\ \A i \in 0..n : i # n => EnvAt(t, e2, i) = EnvAt(s, e, i)
  BY PushView
<1> HIDE DEF t
<1>3. EnvAt(s, e, n) = e
  BY DEF EnvAt
<1>4. OwnAt(s, n, e) /\ e.depth \in 1..n
  BY <1>1, <1>3 DEF Open, OwnAt
<1>5. Shaped(t)
  <2> SUFFICES ASSUME NEW i \in 1..(n + 1)
               PROVE  /\ t[i].form \notin {"fn", "arm"} => t[i].use = "stmt"
                      /\ t[i].phase # "drain" => t[i].todo = <<>>
                      /\ i > 1 => /\ t[i].use # "start"
                                  /\ t[i - 1].phase = IF t[i].use = "defer" THEN "drain" ELSE "run"
    BY <1>2 DEF Shaped
  <2>1. CASE i = n + 1
    <3>1. i - 1 = n
      BY <1>1, <2>1
    <3>2. QED
      BY <1>1, <1>2, <2>1, <3>1 DEF Ready
  <2>2. CASE i \in 1..n
    <3>1. t[i] = s[i] /\ (i > 1 => t[i - 1] = s[i - 1])
      BY <1>1, <1>2, <2>2
    <3>2. QED
      BY <2>2, <3>1 DEF Open, Shaped
  <2>3. QED
    BY <1>1, <2>1, <2>2
<1>6. EnvAt(t, e2, 0).defers = <<>>
  BY <1>1, <1>2 DEF Open
<1>7. \A i \in 1..n : OwnAt(t, i, EnvAt(t, e2, i))
  <2> SUFFICES ASSUME NEW i \in 1..n PROVE OwnAt(t, i, EnvAt(t, e2, i))
    OBVIOUS
  <2>1. EnvAt(t, e2, i) = EnvAt(s, e, i) /\ OwnAt(s, i, EnvAt(s, e, i)) /\ i \in Nat
    BY <1>1, <1>2, <1>3 DEF Open
  <2>2. EnvAt(s, e, i).depth \in 1..i /\ \A j \in 1..i : t[j] = s[j]
    BY <1>1, <1>2, <2>1 DEF OwnAt
  <2>3. QED
    BY <2>1, <2>2, BelowSame
<1>8. ASSUME NEW i \in 1..n, i # n
      PROVE  ExitAt(t, i, EnvAt(t, e2, i)) /\ RebindAt(t, i, EnvAt(t, e2, i))
  <2>1. EnvAt(t, e2, i) = EnvAt(s, e, i) /\ i \in Nat /\ i < n /\ i < n + 1 /\ i + 1 \in 1..n
    BY <1>1, <1>2, <1>8
  <2>2. /\ OwnAt(s, i, EnvAt(s, e, i))
        /\ ExitAt(s, i, EnvAt(s, e, i))
        /\ RebindAt(s, i, EnvAt(s, e, i))
    BY <1>8 DEF Open
  <2>3. EnvAt(s, e, i).depth \in 1..i /\ \A j \in 1..i : t[j] = s[j]
    BY <1>1, <1>2, <2>2 DEF OwnAt
  <2>4. t[i + 1].use = s[i + 1].use
    BY <1>2, <2>1
  <2>5. QED
    BY <1>2, <2>1, <2>2, <2>3, <2>4, BelowSame
<1>9. ExitAt(t, n, e) /\ RebindAt(t, n, e)
  <2>1. \A j \in 1..n : t[j].form = s[j].form /\ t[j].use = s[j].use
    BY <1>2
  <2>2. /\ Deferred(t, n, e) <=> Deferred(s, n, e)
        /\ Operand(t, n, e) <=> Operand(s, n, e)
        /\ Swallowing(t, n, e) <=> Swallowing(s, n, e)
    BY <1>1, <1>4, <2>1, WithinSame
  <2>3. t[n] = s[n] /\ n < Len(t) /\ t[n + 1].use = f.use
    BY <1>1, <1>2
  <2>4. CASE f.use = "defer"
    BY <2>2, <2>3, <2>4 DEF Ready, Rests, ExitAt, RebindAt
  <2>5. CASE f.use # "defer"
    BY <2>2, <2>3, <2>5 DEF Ready, ExitAt, RebindAt
  <2>6. QED
    BY <2>4, <2>5
<1>10. OwnAt(t, n + 1, e2)
  <2>1. CASE f.form = "fn"
    BY <1>1, <1>2, <2>1 DEF OwnAt, Starts
  <2>2. CASE f.form # "fn"
    <3>1. e2.depth = e.depth /\ e2.defers = e.defers /\ e2.exited = e.exited
      BY <2>2 DEF Starts
    <3>2. \A k \in 1..Len(e2.defers) : e2.defers[k].depth = e2.depth
      BY <1>4, <3>1 DEF OwnAt
    <3>3. QED
      BY <1>1, <1>2, <1>4, <2>2, <3>1, <3>2 DEF OwnAt
  <2>3. QED
    BY <2>1, <2>2
<1>11. ExitAt(t, n + 1, e2) /\ RebindAt(t, n + 1, e2)
  <2>1. CASE f.form = "fn"
    BY <2>1 DEF Starts, ExitAt, RebindAt
  <2>2. CASE f.form # "fn"
    <3>1. e2.depth = e.depth /\ e2.exited = e.exited /\ e2.slot = e.slot
      BY <2>2 DEF Starts
    <3>2. \A j \in 1..n : t[j].form = s[j].form /\ t[j].use = s[j].use
      BY <1>2
    <3>3. Deferred(t, n, e2) <=> Deferred(s, n, e)
      BY <1>1, <1>4, <3>1, <3>2, WithinSame
    <3>4. Operand(t, n, e2) <=> Operand(s, n, e)
      BY <1>1, <1>4, <3>1, <3>2, WithinSame
    <3>5. e2.depth \in 1..(n + 1)
      BY <1>1, <1>4, <3>1
    <3>6. /\ Deferred(t, n, e2) \/ f.use = "defer" => Deferred(t, n + 1, e2)
          /\ Operand(t, n, e2) \/ f.use \in {"defer", "rebind"} => Operand(t, n + 1, e2)
      BY <1>1, <1>2, <2>2, <3>5, WithinStep
    <3>7. QED
      BY <3>1, <3>3, <3>4, <3>6 DEF Ready, ExitAt, RebindAt
  <2>3. QED
    BY <2>1, <2>2
<1>12. \A i \in 1..(n + 1) : OwnAt(t, i, EnvAt(t, e2, i))
  <2>1. \A i \in 1..(n + 1) : i \in 1..n \/ i = n + 1
    BY <1>1
  <2>2. QED
    BY <1>2, <1>7, <1>10, <2>1
<1>13. \A i \in 1..(n + 1) : i # n + 1 => ExitAt(t, i, EnvAt(t, e2, i)) /\ RebindAt(t, i, EnvAt(t, e2, i))
  <2>1. \A i \in 1..(n + 1) : i # n + 1 => i \in 1..n
    BY <1>1
  <2>2. QED
    BY <1>2, <1>8, <1>9, <2>1
<1>14. Open(t, e2) /\ Rests(t, e2)
  BY <1>2, <1>5, <1>6, <1>11, <1>12, <1>13 DEF Open, Rests
<1>15. QED
  BY <1>14 DEF Sound, t

(***************************************************************************)
(* The top frame goes: the environment is the one it saved or, for a       *)
(* block, the one of its body.                                             *)
(***************************************************************************)
LeftWith(s, e, e2) ==
  \/ e2 = s[Len(s)].saved
  \/ /\ s[Len(s)].form # "fn"
     /\ e2.depth = e.depth /\ e2.defers = e.defers /\ e2.exited = e.exited

LEMMA PopOpen ==
  ASSUME NEW s \in Seq(Frames), s # <<>>, NEW e, Open(s, e), NEW e2, s[1].form = "fn",
         LeftWith(s, e, e2)
  PROVE  Open(Pop(s), e2)
<1> DEFINE t == Pop(s)
           n == Len(s) - 1
<1>0. t = Pop(s) /\ n = Len(s) - 1
  OBVIOUS
<1> HIDE DEF t, n
<1>0a. t \in Seq(Frames) /\ n \in Nat /\ Len(t) = n /\ Len(s) = n + 1
  BY <1>0, PopIs
<1>0b. /\ \A i \in 1..n : t[i] = s[i]
       /\ s[n + 1] \in Frames
  BY <1>0, PopView
<1>0c. /\ EnvAt(t, e2, n) = e2
       /\ EnvAt(s, e, n) = s[n + 1].saved
       /\ EnvAt(s, e, n + 1) = e
  BY <1>0a DEF EnvAt
<1>0d. SameBelow(n, t, e2, s, e)
  BY <1>0, PopView
<1>1. /\ t \in Seq(Frames) /\ n \in Nat /\ Len(t) = n /\ Len(s) = n + 1
      /\ \A i \in 1..n : t[i] = s[i]
      /\ s[n + 1] \in Frames
      /\ EnvAt(t, e2, n) = e2
      /\ EnvAt(s, e, n) = s[n + 1].saved
      /\ EnvAt(s, e, n + 1) = e
      /\ \A i \in 0..n : i # n => EnvAt(t, e2, i) = EnvAt(s, e, i)
  BY <1>0a, <1>0b, <1>0c, <1>0d DEF SameBelow
<1> DEFINE x == s[n + 1].saved
<1>2. OwnAt(s, n + 1, e)
  BY <1>1 DEF Open
<1>3. n # 0 => n \in 1..n /\ OwnAt(s, n, x)
  BY <1>1 DEF Open
<1>4. /\ n = 0 => e2 = x
      /\ \/ e2 = x
         \/ /\ s[n + 1].form # "fn"
            /\ e2.depth = e.depth /\ e2.defers = e.defers /\ e2.exited = e.exited
  BY <1>1 DEF LeftWith
<1>5. e2.depth = x.depth
  BY <1>2, <1>4 DEF OwnAt
<1>6. n # 0 => OwnAt(t, n, e2)
  <2> SUFFICES ASSUME n # 0 PROVE OwnAt(t, n, e2)
    OBVIOUS
  <2>1. n \in Nat /\ n \in 1..n /\ OwnAt(s, n, x) /\ x.depth \in 1..n /\ \A j \in 1..n : t[j] = s[j]
    BY <1>1, <1>3 DEF OwnAt
  <2>2. OwnAt(t, n, x)
    BY <2>1, BelowSame
  <2>3. CASE e2 = x
    BY <2>2, <2>3
  <2>4. CASE /\ s[n + 1].form # "fn"
             /\ e2.depth = e.depth /\ e2.defers = e.defers /\ e2.exited = e.exited
    <3>1. \A k \in 1..Len(e2.defers) : e2.defers[k].depth = e2.depth
      BY <1>2, <2>4 DEF OwnAt
    <3>2. Swallowing(t, n, e2) <=> Swallowing(t, n, x)
      BY <1>5 DEF Swallowing
    <3>3. Swallowing(t, n, e2) => e2.exited = x.exited
      <4>1. ASSUME Swallowing(t, n, e2) PROVE Swallowing(s, n + 1, e)
        <5>1. PICK j \in e2.depth..n : Swallows(t[j].form)
          BY <4>1 DEF Swallowing
        <5>2. j \in e.depth..(n + 1) /\ t[j] = s[j]
          BY <2>1, <2>4, <1>5, <5>1
        <5>3. QED
          BY <5>1, <5>2 DEF Swallowing
      <4>2. QED
        BY <1>2, <2>4, <4>1 DEF OwnAt
    <3>4. QED
      BY <1>5, <2>2, <3>1, <3>2, <3>3 DEF OwnAt
  <2>5. QED
    BY <1>4, <2>3, <2>4
<1>7. Shaped(t)
  <2> SUFFICES ASSUME NEW i \in 1..n
               PROVE  /\ t[i].form \notin {"fn", "arm"} => t[i].use = "stmt"
                      /\ t[i].phase # "drain" => t[i].todo = <<>>
                      /\ i > 1 => /\ t[i].use # "start"
                                  /\ t[i - 1].phase = IF t[i].use = "defer" THEN "drain" ELSE "run"
    BY <1>1 DEF Shaped
  <2>1. t[i] = s[i] /\ (i > 1 => t[i - 1] = s[i - 1]) /\ i \in 1..Len(s)
    BY <1>1
  <2>2. QED
    BY <2>1 DEF Open, Shaped
<1>8. EnvAt(t, e2, 0).defers = <<>>
  <2>1. CASE n = 0
    BY <1>1, <1>4, <2>1 DEF Open
  <2>2. CASE n # 0
    BY <1>1, <2>2 DEF Open
  <2>3. QED
    BY <2>1, <2>2
<1>9. ASSUME NEW i \in 1..n, i # n
      PROVE  /\ OwnAt(t, i, EnvAt(t, e2, i))
             /\ ExitAt(t, i, EnvAt(t, e2, i)) /\ RebindAt(t, i, EnvAt(t, e2, i))
  <2>1. /\ EnvAt(t, e2, i) = EnvAt(s, e, i) /\ i \in Nat /\ i < n /\ i < Len(s) /\ i + 1 \in 1..n
        /\ i \in 1..Len(s) /\ i # Len(s)
    BY <1>1, <1>9
  <2>2. /\ OwnAt(s, i, EnvAt(s, e, i))
        /\ ExitAt(s, i, EnvAt(s, e, i))
        /\ RebindAt(s, i, EnvAt(s, e, i))
    BY <2>1 DEF Open
  <2>3. EnvAt(s, e, i).depth \in 1..i /\ \A j \in 1..i : t[j] = s[j]
    BY <1>1, <2>1, <2>2 DEF OwnAt
  <2>4. t[i + 1].use = s[i + 1].use
    BY <1>1, <2>1
  <2>5. QED
    BY <1>1, <2>1, <2>2, <2>3, <2>4, BelowSame
<1>10. \A i \in 1..n : OwnAt(t, i, EnvAt(t, e2, i))
  BY <1>1, <1>6, <1>9
<1>11. QED
  BY <1>1, <1>7, <1>8, <1>9, <1>10 DEF Open, t

\* What the frame below the top was within when the top was within it.
LEMMA WithinPop ==
  ASSUME NEW s, NEW t, NEW n \in Nat, \A i \in 1..n : t[i] = s[i],
         NEW x, x.depth \in 1..(n + 1), NEW y, y.depth = x.depth, y.depth \in 1..n
  PROVE  LET f == s[n + 1]
         IN  /\ Deferred(s, n + 1, x) <=> Deferred(t, n, y) \/ (f.form # "fn" /\ f.use = "defer")
             /\ Operand(s, n + 1, x) <=>
                  Operand(t, n, y) \/ (f.form # "fn" /\ f.use \in {"defer", "rebind"})
             /\ Swallowing(s, n + 1, x) <=> Swallowing(t, n, y) \/ Swallows(f.form)
<1>1. \A j \in 1..n : t[j].form = s[j].form /\ t[j].use = s[j].use
  OBVIOUS
<1>2. /\ Deferred(t, n, y) <=> Deferred(s, n, x)
      /\ Operand(t, n, y) <=> Operand(s, n, x)
      /\ Swallowing(t, n, y) <=> Swallowing(s, n, x)
  BY <1>1, WithinSame
<1>3. QED
  BY <1>2, WithinStep

\* The statement that uses an outcome may act on it.
Awaits(s, e, use, o) ==
  IF use \in {"start", "defer"} THEN Rests(s, e)
  ELSE /\ s[Len(s)].phase = "run"
       /\ e.exited # "no" => Deferred(s, Len(s), e)
       /\ use # "rebind" /\ e.slot = "taken" => Operand(s, Len(s), e) \/ o.kind = "error"

\* The statement that uses an outcome resumes or ends its body.
LEMMA DeliverSound ==
  ASSUME NEW s, NEW e, WellNested(s, e), Open(s, e), NEW o \in Outcomes,
         NEW use \in {"start", "stmt", "ret", "rebind", "defer"},
         s = <<>> => use = "start", Awaits(s, e, use, o)
  PROVE  LET m == Deliver(s, e, use, o) IN Sound(m.stack, m.env)
<1> DEFINE m == Deliver(s, e, use, o)
<1>1. o.kind \in {"value", "error", "propagate"} /\ Res("return", o.v) \in Results /\ Failed \in Results
      /\ Ends(Res("return", o.v)) /\ Ends(Failed) /\ Failed.kind = "error"
  BY DEF Outcomes, Results, Res, Failed, Kinds, Values, Ends
<1>2. s \in Seq(Frames) /\ e \in Envs
  BY DEF WellNested
<1>3. CASE use \in {"start", "defer"}
  <2>1. m = At(s, e)
    BY <1>3 DEF Deliver
  <2>2. QED
    BY <1>3, <2>1 DEF At, Sound, Awaits
<1>4. CASE use \notin {"start", "defer"}
  <2>1. /\ s # <<>> /\ s[Len(s)].phase = "run"
        /\ e.exited # "no" => Deferred(s, Len(s), e)
        /\ use # "rebind" /\ e.slot = "taken" => Operand(s, Len(s), e) \/ o.kind = "error"
    BY <1>4 DEF Awaits
  <2>2. CASE o.kind = "error"
    <3>1. m = Finish(s, e, Failed)
      BY <1>4, <2>2 DEF Deliver
    <3>2. QED
      BY <1>1, <2>1, <3>1, FinishSound
  <2>3. CASE o.kind = "propagate"
    <3>1. m = Finish(s, Exit(s, e, "propagate"), Res("return", o.v))
      BY <1>4, <2>3 DEF Deliver
    <3>2. QED
      BY <1>1, <2>1, <3>1, ExitSound
  <2>4. CASE use = "ret" /\ o.kind = "value"
    <3>1. m = Finish(s, Exit(s, e, "ret"), Res("return", o.v))
      BY <2>4 DEF Deliver
    <3>2. QED
      BY <1>1, <2>1, <3>1, ExitSound
  <2>5. CASE use = "rebind" /\ o.kind = "value"
    <3> DEFINE e2 == [e EXCEPT !.slot = "bound"]
    <3>1. m = At(s, e2)
      BY <2>5 DEF Deliver
    <3>2. e2.depth = e.depth /\ e2.defers = e.defers /\ e2.exited = e.exited /\ e2.slot # "taken"
      BY <1>2 DEF Envs
    <3> HIDE DEF e2
    <3>3. Open(s, e2)
      BY <1>2, <2>1, <3>2, EnvOpen
    <3>4. Deferred(s, Len(s), e2) <=> Deferred(s, Len(s), e)
      BY <3>2 DEF Deferred, Within
    <3>5. Rests(s, e2)
      BY <2>1, <3>2, <3>4 DEF Rests, ExitAt, RebindAt
    <3>6. m.stack = s /\ m.env = e2
      BY <3>1 DEF At
    <3> HIDE DEF m
    <3>7. Sound(m.stack, m.env)
      BY <3>3, <3>5, <3>6 DEF Sound
    <3>8. QED
      BY <3>7 DEF m
  <2>6. CASE use = "stmt" /\ o.kind = "value"
    <3>1. m = At(s, e)
      BY <2>6 DEF Deliver
    <3>2. Rests(s, e)
      BY <2>1, <2>6 DEF Rests, ExitAt, RebindAt
    <3>3. QED
      BY <3>1, <3>2 DEF At, Sound
  <2>7. QED
    BY <1>1, <1>4, <2>2, <2>3, <2>4, <2>5, <2>6
<1>5. QED
  BY <1>3, <1>4

-----------------------------------------------------------------------------
\* What the frame below a function finds when the function is left.
LEMMA LeftFn ==
  ASSUME NEW s, NEW e, WellNested(s, e), s # <<>>, Sound(s, e), NEW o
  PROVE  LET f == s[Len(s)]
         IN  Open(Pop(s), f.saved) /\ Awaits(Pop(s), f.saved, f.use, o)
<1> DEFINE t == Pop(s)
           n == Len(s) - 1
           x == s[n + 1].saved
<1>1. s \in Seq(Frames) /\ t = Pop(s) /\ n = Len(s) - 1 /\ n \in Nat /\ Len(s) = n + 1
      /\ s[1].form = "fn" /\ s[1].use = "start" /\ Open(s, e)
  BY PopIs DEF WellNested, Grounded, Sound
<1> HIDE DEF t, n
<1>2. /\ t \in Seq(Frames) /\ Len(t) = n
      /\ \A i \in 1..n : t[i] = s[i]
  BY <1>1, PopIs
<1>3. EnvAt(s, e, n) = x
  BY <1>1 DEF EnvAt
<1>4. LeftWith(s, e, x)
  BY <1>1 DEF LeftWith
<1>5. Open(t, x)
  BY <1>1, <1>4, PopOpen
<1>6. CASE n = 0
  BY <1>1, <1>2, <1>5, <1>6 DEF Awaits, Rests
<1>7. CASE n # 0
  <2>1. n \in 1..Len(s) /\ n # Len(s) /\ n \in 1..n /\ n < Len(s) /\ n + 1 \in 1..Len(s) /\ n + 1 > 1
    BY <1>1, <1>7
  <2>2. OwnAt(s, n, x) /\ ExitAt(s, n, x) /\ RebindAt(s, n, x)
    BY <1>1, <1>3, <2>1 DEF Open
  <2>3. s[n + 1].use # "start" /\ s[n].phase = IF s[n + 1].use = "defer" THEN "drain" ELSE "run"
    <3>1. (n + 1) - 1 = n
      BY <1>1
    <3>2. QED
      BY <1>1, <2>1, <3>1 DEF Open, Shaped
  <2>4. \A j \in 1..n : t[j].form = s[j].form /\ t[j].use = s[j].use
    BY <1>2
  <2>5. x.depth \in 1..n
    BY <2>2 DEF OwnAt
  <2>5a. \A j \in x.depth..n : t[j].form = s[j].form /\ t[j].use = s[j].use
    BY <2>4, <2>5
  <2>6. /\ Deferred(t, n, x) <=> Deferred(s, n, x)
        /\ Operand(t, n, x) <=> Operand(s, n, x)
        /\ Swallowing(t, n, x) <=> Swallowing(s, n, x)
    BY <2>5a DEF Deferred, Operand, Within, Swallowing
  <2>7. t[n] = s[n] /\ Len(t) = n
    BY <1>2, <2>1
  <2>8. CASE s[n + 1].use = "defer"
    <3>1. ExitAt(t, n, x) /\ RebindAt(t, n, x)
      BY <2>2, <2>6, <2>7, <2>8 DEF ExitAt, RebindAt
    <3>2. QED
      BY <1>1, <1>5, <2>7, <2>8, <3>1 DEF Awaits, Rests
  <2>9. CASE s[n + 1].use # "defer"
    <3>1. /\ t[n].phase = "run"
          /\ x.exited # "no" => Deferred(t, n, x)
          /\ s[n + 1].use # "rebind" /\ x.slot = "taken" => Operand(t, n, x)
      BY <2>2, <2>3, <2>6, <2>7, <2>9 DEF ExitAt, RebindAt
    <3>2. QED
      BY <1>1, <1>5, <2>3, <2>7, <2>9, <3>1 DEF Awaits
  <2>10. QED
    BY <2>8, <2>9
<1>8. QED
  BY <1>6, <1>7

\* What the frame below a block finds when the block is left with the environment e2.
Fallen(s, e2, f) ==
  /\ s # <<>>
  /\ s[Len(s)].phase = IF f.use = "defer" THEN "drain" ELSE "run"
  /\ f.use # "defer" /\ e2.exited # "no" =>
       \/ Deferred(s, Len(s), e2)
       \/ Ends(f.res) /\ ~Swallows(f.form) /\ ~Swallowing(s, Len(s), e2)
  /\ f.use \in {"stmt", "ret"} /\ e2.slot = "taken" =>
       \/ Operand(s, Len(s), e2)
       \/ f.res.kind = "error" \/ e2.exited # "no"
  /\ f.use \in {"stmt", "ret", "rebind", "defer"}

LEMMA LeftBody ==
  ASSUME NEW s, NEW e, WellNested(s, e), s # <<>>, Sound(s, e),
         s[Len(s)].form # "fn", s[Len(s)].phase = "drain",
         NEW e2, e2.depth = e.depth, e2.defers = e.defers, e2.exited = e.exited,
         e2.slot = "taken" => e.slot = "taken"
  PROVE  Open(Pop(s), e2) /\ Fallen(Pop(s), e2, s[Len(s)])
<1> DEFINE t == Pop(s)
           n == Len(s) - 1
           f == s[n + 1]
<1>1. s \in Seq(Frames) /\ t = Pop(s) /\ n = Len(s) - 1 /\ n \in Nat /\ Len(s) = n + 1
      /\ s[1].form = "fn" /\ Open(s, e) /\ Rests(s, e)
  BY PopIs DEF WellNested, Grounded, Sound
<1> HIDE DEF t, n
<1>2. /\ t \in Seq(Frames) /\ Len(t) = n
      /\ \A i \in 1..n : t[i] = s[i]
  BY <1>1, PopIs
<1>3. LeftWith(s, e, e2)
  BY DEF LeftWith
<1>4. Open(t, e2)
  BY <1>1, <1>3, PopOpen
<1>5. n # 0 /\ f.form # "fn" /\ f.phase = "drain" /\ f \in Frames
  BY <1>1
<1>6. n \in 1..n /\ n + 1 \in 1..Len(s) /\ n + 1 > 1 /\ t # <<>>
  BY <1>1, <1>2, <1>5
<1>7. OwnAt(t, n, e2) /\ OwnAt(s, n + 1, e)
  BY <1>1, <1>2, <1>4, <1>6 DEF Open, EnvAt
<1>8. e.depth \in 1..(n + 1) /\ e2.depth \in 1..n
  BY <1>7 DEF OwnAt
<1>9. /\ Deferred(s, n + 1, e) <=> Deferred(t, n, e2) \/ (f.form # "fn" /\ f.use = "defer")
      /\ Operand(s, n + 1, e) <=>
           Operand(t, n, e2) \/ (f.form # "fn" /\ f.use \in {"defer", "rebind"})
      /\ Swallowing(s, n + 1, e) <=> Swallowing(t, n, e2) \/ Swallows(f.form)
  <2>1. n \in Nat /\ \A i \in 1..n : t[i] = s[i]
    BY <1>1, <1>2
  <2>2. e2.depth = e.depth
    OBVIOUS
  <2>3. QED
    BY <1>8, <2>1, <2>2, WithinPop
<1>10. f.use # "start" /\ s[n].phase = IF f.use = "defer" THEN "drain" ELSE "run"
  <2>1. (n + 1) - 1 = n
    BY <1>1
  <2>2. QED
    BY <1>1, <1>6, <2>1 DEF Open, Shaped
<1>11. ExitAt(s, n + 1, e) /\ RebindAt(s, n + 1, e)
  BY <1>1 DEF Rests
<1>12. f.use \in {"stmt", "ret", "rebind", "defer"}
  BY <1>5, <1>10 DEF Frames
<1>13. Fallen(t, e2, f)
  <2>1. f.use # "defer" /\ e2.exited # "no" =>
         \/ Deferred(t, n, e2)
         \/ Ends(f.res) /\ ~Swallows(f.form) /\ ~Swallowing(t, n, e2)
    BY <1>9, <1>11 DEF ExitAt
  <2>2. f.use \in {"stmt", "ret"} /\ e2.slot = "taken" =>
         \/ Operand(t, n, e2)
         \/ f.res.kind = "error" \/ e2.exited # "no"
    BY <1>1, <1>9, <1>11 DEF RebindAt
  <2>3. t[n].phase = IF f.use = "defer" THEN "drain" ELSE "run"
    BY <1>2, <1>6, <1>10
  <2>4. QED
    BY <1>2, <1>6, <1>12, <2>1, <2>2, <2>3 DEF Fallen
<1>14. QED
  BY <1>1, <1>4, <1>13

-----------------------------------------------------------------------------
SoundInv == IInv /\ Sound(stack, env)

\* What a body that may execute a statement knows.
LEMMA Resting ==
  ASSUME SoundInv, InBody
  PROVE  /\ WellNested(stack, env) /\ stack # <<>> /\ Open(stack, env) /\ Calm(stack, env)
         /\ stack[Len(stack)].phase = "run" /\ Top = stack[Len(stack)]
         /\ stack \in Seq(Frames) /\ env \in Envs /\ Top \in Frames
<1>1. WellNested(stack, env) /\ stack # <<>> /\ Top = stack[Len(stack)] /\ Top \in Frames
  BY TopIs DEF SoundInv, InBody
<1>2. stack[Len(stack)].phase = "run" /\ Open(stack, env) /\ Rests(stack, env)
  BY <1>1 DEF InBody, SoundInv, Sound
<1>3. Calm(stack, env)
  <2>1. env.exited # "no" => Deferred(stack, Len(stack), env)
    BY <1>1, <1>2 DEF Rests, ExitAt
  <2>2. QED
    BY <1>1, <1>2, <2>1, DeferredIsOperand DEF Calm, Rests, RebindAt
<1>4. QED
  BY <1>1, <1>2, <1>3 DEF WellNested

\* The machine moves to a pair that is sound.
LEMMA SoundMove ==
  ASSUME NEW m, Sound(m.stack, m.env), MoveTo(m), IInv'
  PROVE  SoundInv'
<1>1. stack' = m.stack /\ env' = m.env
  BY DEF MoveTo
<1>2. Sound(stack', env')
  BY <1>1
<1>3. QED
  BY <1>2 DEF SoundInv

\* A body ends by itself.
LEMMA EndSound ==
  ASSUME SoundInv, InBody, NEW r \in Results, NEW how \in {"ret", "propagate"},
         \/ MoveTo(Finish(stack, env, r))
         \/ MoveTo(Finish(stack, Exit(stack, env, how), r)) /\ Ends(r),
         IInv'
  PROVE  SoundInv'
<1>1. /\ WellNested(stack, env) /\ stack # <<>> /\ Open(stack, env) /\ Calm(stack, env)
      /\ stack[Len(stack)].phase # "drain"
  BY Resting
<1>2. CASE MoveTo(Finish(stack, env, r))
  <2>1. LET m == Finish(stack, env, r) IN Sound(m.stack, m.env)
    BY <1>1, FinishSound DEF Calm
  <2>2. QED
    BY <1>2, <2>1, SoundMove
<1>3. CASE MoveTo(Finish(stack, Exit(stack, env, how), r)) /\ Ends(r)
  <2>1. LET m == Finish(stack, Exit(stack, env, how), r) IN Sound(m.stack, m.env)
    BY <1>1, <1>3, ExitSound DEF Calm
  <2>2. QED
    BY <1>3, <2>1, SoundMove
<1>4. QED
  BY <1>2, <1>3

\* A body or a drain calls a function.
LEMMA EnterSound ==
  ASSUME NEW s, NEW e, WellNested(s, e), s # <<>>, Open(s, e), calls \in Nat,
         NEW use \in {"stmt", "ret", "rebind", "defer"},
         NEW unwrap \in {"none", "propagate", "panic"},
         Ready(s, Taken(use, e), use)
  PROVE  LET m == EnterFn(s, e, use, unwrap) IN Sound(m.stack, m.env)
<1> DEFINE x == Taken(use, e)
           f == Frame("fn", TRUE, use, unwrap, x)
           e2 == Fresh(calls + 1, Len(s) + 1, <<>>)
<1>1. s \in Seq(Frames) /\ e \in Envs
  BY DEF WellNested
<1>2. x \in Envs /\ x.depth = e.depth /\ x.defers = e.defers /\ x.exited = e.exited
  BY <1>1 DEF Taken, Envs
<1>3. f \in Frames /\ f.saved = x /\ f.phase = "run" /\ f.todo = <<>> /\ f.form = "fn" /\ f.use = use
  <2>1. <<>> \in Seq(Entries) /\ Res("value", "nil") \in [kind : Kinds, v : Values]
    BY DEF Res, Kinds, Values
  <2> HIDE DEF x
  <2>2. QED
    BY <1>2, <2>1 DEF Frame, Frames
<1>4. /\ e2.depth = Len(s) + 1 /\ e2.defers = <<>>
      /\ e2.exited = "no" /\ e2.slot # "taken"
  BY DEF Fresh
<1>5. EnterFn(s, e, use, unwrap) = At(Append(s, f), e2)
  BY DEF EnterFn
<1>6. Ready(s, x, use)
  OBVIOUS
<1> HIDE DEF x, f, e2
<1>7. Open(s, x)
  BY <1>1, <1>2, EnvOpen
<1>8. Starts(s, x, f, e2)
  BY <1>3, <1>4 DEF Starts
<1>9. Ready(s, x, f.use)
  BY <1>3, <1>6
<1>10. Sound(Append(s, f), e2)
  BY <1>1, <1>3, <1>7, <1>8, <1>9, PushSound
<1>11. QED
  BY <1>5, <1>10 DEF At

\* A body or a drain enters a construct.
LEMMA OpenSound ==
  ASSUME NEW s, NEW e, WellNested(s, e), s # <<>>, Open(s, e),
         NEW form \in Blocks, NEW outer \in BOOLEAN,
         NEW use \in {"stmt", "ret", "rebind", "defer"},
         form # "arm" => use = "stmt",
         Ready(s, e, use)
  PROVE  LET m == OpenBlock(s, e, form, outer, use) IN Sound(m.stack, m.env)
<1> DEFINE f == Frame(form, TailOf(form, outer), use, "none", e)
           e2 == [e EXCEPT !.marks = IF Scoped(form) THEN @ + 1 ELSE @]
<1>1. s \in Seq(Frames) /\ e \in Envs /\ form # "fn" /\ TailOf(form, outer) \in BOOLEAN
  BY DEF WellNested, Blocks, Loops, TailOf
<1>2. /\ f \in Frames /\ f.saved = e /\ f.phase = "run" /\ f.todo = <<>>
      /\ f.form = form /\ f.use = use
  <2>1. <<>> \in Seq(Entries) /\ Res("value", "nil") \in [kind : Kinds, v : Values]
    BY DEF Res, Kinds, Values
  <2>2. QED
    BY <1>1, <2>1 DEF Frame, Frames
<1>3. e2.depth = e.depth /\ e2.defers = e.defers /\ e2.exited = e.exited /\ e2.slot = e.slot
  BY <1>1 DEF Envs
<1>4. OpenBlock(s, e, form, outer, use) = At(Append(s, f), e2)
  BY DEF OpenBlock
<1> HIDE DEF f, e2
<1>5. Starts(s, e, f, e2)
  BY <1>1, <1>2, <1>3 DEF Starts
<1>6. Ready(s, e, f.use) /\ (f.form \notin {"fn", "arm"} => f.use = "stmt")
  BY <1>2
<1>7. Sound(Append(s, f), e2)
  BY <1>1, <1>2, <1>5, <1>6, PushSound
<1>8. QED
  BY <1>4, <1>7 DEF At

-----------------------------------------------------------------------------
LEMMA InitSound == Init => SoundInv
<1> SUFFICES ASSUME Init PROVE SoundInv
  OBVIOUS
<1> DEFINE f == Frame("fn", TRUE, "start", "none", Fresh(0, 0, <<>>))
<1>1. IInv
  BY InitNests
<1>2. stack = <<f>> /\ f.form = "fn" /\ f.phase = "run" /\ f.todo = <<>> /\ f.saved.defers = <<>>
  BY DEF Init, Frame, Fresh
<1>3. env.depth = 1 /\ env.exited = "no" /\ env.slot # "taken" /\ env.defers = <<>>
  BY DEF Init, Fresh
<1> HIDE DEF f
<1>4. Len(stack) = 1 /\ stack[1] = f /\ stack # <<>>
  BY <1>2
<1>5. EnvAt(stack, env, 0) = f.saved /\ EnvAt(stack, env, 1) = env
  BY <1>4 DEF EnvAt
<1>6. OwnAt(stack, 1, env)
  BY <1>2, <1>3, <1>4 DEF OwnAt
<1>7. Shaped(stack)
  BY <1>2, <1>4 DEF Shaped
<1>8. Open(stack, env)
  BY <1>2, <1>4, <1>5, <1>6, <1>7 DEF Open
<1>9. Rests(stack, env)
  BY <1>3 DEF Rests, ExitAt, RebindAt
<1>10. QED
  BY <1>1, <1>8, <1>9 DEF SoundInv, Sound

LEMMA CallSound == SoundInv /\ Call => SoundInv'
<1> SUFFICES ASSUME SoundInv, Call PROVE SoundInv'
  OBVIOUS
<1>1. /\ WellNested(stack, env) /\ stack # <<>> /\ Open(stack, env) /\ Calm(stack, env)
      /\ stack[Len(stack)].phase = "run" /\ calls \in Nat /\ env \in Envs
  BY Resting, TopIs DEF Call, InBody, SoundInv
<1>2. PICK use \in Uses, unwrap \in {"none", "propagate", "panic"} :
        MoveTo(EnterFn(stack, env, use, unwrap))
  BY DEF Call
<1>3. use \in {"stmt", "ret", "rebind"}
  BY UsesAre
<1>4. Ready(stack, Taken(use, env), use)
  <2>1. /\ Taken(use, env).depth = env.depth /\ Taken(use, env).exited = env.exited
        /\ use # "rebind" => Taken(use, env).slot = env.slot
    BY <1>1 DEF Taken, Envs
  <2>2. /\ Deferred(stack, Len(stack), Taken(use, env)) <=> Deferred(stack, Len(stack), env)
        /\ Operand(stack, Len(stack), Taken(use, env)) <=> Operand(stack, Len(stack), env)
    BY <2>1 DEF Deferred, Operand, Within
  <2>3. QED
    BY <1>1, <1>3, <2>1, <2>2 DEF Ready, Calm
<1>5. Sound(EnterFn(stack, env, use, unwrap).stack, EnterFn(stack, env, use, unwrap).env)
  BY <1>1, <1>3, <1>4, EnterSound
<1>6. IInv'
  BY CallInv DEF SoundInv
<1>7. QED
  BY <1>2, <1>5, <1>6, SoundMove

LEMMA FailSound == SoundInv /\ Fail => SoundInv'
<1> SUFFICES ASSUME SoundInv, Fail PROVE SoundInv'
  OBVIOUS
<1>1. IInv'
  BY FailInv DEF SoundInv
<1>2. QED
  BY <1>1, EndSound, ResultTypes DEF Fail

LEMMA PropagateSound == SoundInv /\ Propagate => SoundInv'
<1> SUFFICES ASSUME SoundInv, Propagate PROVE SoundInv'
  OBVIOUS
<1>1. PICK v \in {"nil", "Err"} :
        MoveTo(Finish(stack, Exit(stack, env, "propagate"), Res("return", v)))
  BY DEF Propagate
<1>2. Res("return", v) \in Results /\ Ends(Res("return", v))
  BY ResultTypes DEF Kinds, Values, Ends, Res
<1>3. IInv'
  BY PropagateInv DEF SoundInv
<1>4. QED
  BY <1>1, <1>2, <1>3, EndSound DEF Propagate

LEMMA RetSound == SoundInv /\ Ret => SoundInv'
<1> SUFFICES ASSUME SoundInv, Ret PROVE SoundInv'
  OBVIOUS
<1>1. PICK v \in Values : MoveTo(Finish(stack, Exit(stack, env, "ret"), Res("return", v)))
  BY DEF Ret
<1>2. Res("return", v) \in Results /\ Ends(Res("return", v))
  BY ResultTypes DEF Kinds, Ends, Res
<1>3. IInv'
  BY RetInv DEF SoundInv
<1>4. QED
  BY <1>1, <1>2, <1>3, EndSound DEF Ret

LEMMA TailCallSound == SoundInv /\ TailCall => SoundInv'
<1> SUFFICES ASSUME SoundInv, TailCall PROVE SoundInv'
  OBVIOUS
<1>1. Res("tail", "nil") \in Results /\ Ends(Res("tail", "nil"))
  BY ResultTypes DEF Kinds, Values, Ends, Res
<1>2. \/ MoveTo(Finish(stack, env, Res("tail", "nil")))
      \/ MoveTo(Finish(stack, Exit(stack, env, "ret"), Res("tail", "nil")))
  BY DEF TailCall
<1>3. IInv'
  BY TailCallInv DEF SoundInv
<1>4. QED
  BY <1>1, <1>2, <1>3, EndSound DEF TailCall

LEMMA BreakOrContinueSound == SoundInv /\ BreakOrContinue => SoundInv'
<1> SUFFICES ASSUME SoundInv, BreakOrContinue PROVE SoundInv'
  OBVIOUS
<1>1. PICK r \in {Res("break", v) : v \in Values} \cup {Res("continue", "nil")} :
        MoveTo(Finish(stack, env, r))
  BY DEF BreakOrContinue
<1>2. r \in Results
  BY ResultTypes DEF Kinds, Values
<1>3. IInv'
  BY BreakOrContinueInv DEF SoundInv
<1>4. QED
  BY <1>1, <1>2, <1>3, EndSound DEF BreakOrContinue

LEMMA BodyEndSound == SoundInv /\ BodyEnd => SoundInv'
<1> SUFFICES ASSUME SoundInv, BodyEnd PROVE SoundInv'
  OBVIOUS
<1>1. PICK v \in Values : MoveTo(Finish(stack, env, Res("value", v)))
  BY DEF BodyEnd
<1>2. Res("value", v) \in Results
  BY ResultTypes DEF Kinds
<1>3. IInv'
  BY BodyEndInv DEF SoundInv
<1>4. QED
  BY <1>1, <1>2, <1>3, EndSound DEF BodyEnd

\* The new entry belongs to the activation.
LEMMA DeferSound == SoundInv /\ Defer => SoundInv'
<1> SUFFICES ASSUME SoundInv, Defer PROVE SoundInv'
  OBVIOUS
<1>1. /\ stack # <<>> /\ Open(stack, env) /\ Calm(stack, env)
      /\ stack \in Seq(Frames) /\ env \in Envs
  BY Resting DEF Defer
<1>2. PICK kind \in {"Always", "OnError"} :
        env' = [env EXCEPT !.defers =
                  Append(@, [id |-> Len(fates) + 1, kind |-> kind,
                             owner |-> env.owner, depth |-> env.depth])]
  BY DEF Defer
<1> DEFINE d == [id |-> Len(fates) + 1, kind |-> kind, owner |-> env.owner, depth |-> env.depth]
<1>3. env.defers \in Seq(Entries) /\ env' = [env EXCEPT !.defers = Append(env.defers, d)]
  BY <1>1, <1>2, EnvParts
<1>4. d.depth = env.depth
  OBVIOUS
<1> HIDE DEF d
<1>5. /\ env'.depth = env.depth /\ env'.exited = env.exited /\ env'.slot = env.slot
      /\ env'.defers = Append(env.defers, d)
  BY <1>1, <1>3 DEF Envs
<1>6. OwnAt(stack, Len(stack), env)
  <2>1. Len(stack) \in 1..Len(stack)
    BY <1>1, PopIs
  <2>2. QED
    BY <2>1, <1>1 DEF Open, EnvAt
<1>7. \A k \in 1..Len(env'.defers) : env'.defers[k].depth = env.depth
  <2>1. \A k \in 1..Len(env.defers) : env.defers[k].depth = env.depth
    BY <1>6 DEF OwnAt
  <2>2. QED
    BY <1>3, <1>4, <1>5, <2>1
<1>8. Open(stack, env')
  BY <1>1, <1>5, <1>7, EnvOpen
<1>9. /\ Deferred(stack, Len(stack), env') <=> Deferred(stack, Len(stack), env)
      /\ Operand(stack, Len(stack), env') <=> Operand(stack, Len(stack), env)
  BY <1>5 DEF Deferred, Operand, Within
<1>10. Rests(stack, env')
  BY <1>1, <1>5, <1>9 DEF Calm, Rests, ExitAt, RebindAt
<1>11. stack' = stack /\ IInv'
  BY DeferInv DEF SoundInv, Defer
<1>12. QED
  BY <1>8, <1>10, <1>11 DEF SoundInv, Sound

LEMMA BlockSound == SoundInv /\ Block => SoundInv'
<1> SUFFICES ASSUME SoundInv, Block PROVE SoundInv'
  OBVIOUS
<1>1. /\ WellNested(stack, env) /\ stack # <<>> /\ Open(stack, env) /\ Calm(stack, env)
      /\ stack[Len(stack)].phase = "run" /\ env \in Envs /\ Top \in Frames /\ stack \in Seq(Frames)
  BY Resting DEF Block
<1>2. PICK form \in Forms, use \in Uses :
        /\ form # "arm" => use = "stmt"
        /\ MoveTo(OpenBlock(stack, Taken(use, env), form, Top.tail, use))
  BY DEF Block
<1>3. form \in Blocks /\ Top.tail \in BOOLEAN /\ use \in {"stmt", "ret", "rebind"}
  BY <1>1, TreeAssumption, UsesAre DEF Frames
<1> DEFINE x == Taken(use, env)
<1>4. /\ x.depth = env.depth /\ x.exited = env.exited /\ x.defers = env.defers
      /\ use # "rebind" => x.slot = env.slot
  BY <1>1 DEF Taken, Envs
<1>5. WellNested(stack, x)
  BY <1>1, TakenIs, EnvChanges
<1> HIDE DEF x
<1>6. Open(stack, x)
  BY <1>1, <1>4, EnvOpen
<1>7. Ready(stack, x, use)
  <2>1. /\ Deferred(stack, Len(stack), x) <=> Deferred(stack, Len(stack), env)
        /\ Operand(stack, Len(stack), x) <=> Operand(stack, Len(stack), env)
    BY <1>4 DEF Deferred, Operand, Within
  <2>2. QED
    BY <1>1, <1>3, <1>4, <2>1 DEF Ready, Calm
<1> DEFINE m == OpenBlock(stack, x, form, Top.tail, use)
<1>8. Sound(m.stack, m.env)
  BY <1>1, <1>2, <1>3, <1>5, <1>6, <1>7, OpenSound
<1>9. IInv'
  BY BlockInv DEF SoundInv
<1>10. MoveTo(m)
  BY <1>2 DEF x
<1>11. QED
  BY <1>8, <1>9, <1>10, SoundMove

\* A tail call starts the callee in the frame of its caller.
LEMMA TrampolineSound == SoundInv /\ Trampoline => SoundInv'
<1> SUFFICES ASSUME SoundInv, Trampoline PROVE SoundInv'
  OBVIOUS
<1>1. /\ WellNested(stack, env) /\ stack # <<>> /\ Top = stack[Len(stack)] /\ Top \in Frames
      /\ stack \in Seq(Frames) /\ Top.phase = "trampoline" /\ Len(stack) \in 1..Len(stack)
      /\ Open(stack, env) /\ Rests(stack, env)
  BY TopIs, PopIs DEF Trampoline, WellNested, SoundInv, Sound
<1>2. Top.form = "fn" /\ Top.todo = <<>>
  BY <1>1 DEF WellNested, Grounded, Open, Shaped
<1>3. OwnAt(stack, Len(stack), env)
  BY <1>1 DEF Open, EnvAt
<1>4. IInv'
  BY TrampolineInv DEF SoundInv
<1>5. CASE MoveTo(At(SetTop(stack, [Top EXCEPT !.phase = "run"]),
                     Fresh(calls + 1, env.depth, env.defers)))
  <2> DEFINE f == [Top EXCEPT !.phase = "run"]
             e2 == Fresh(calls + 1, env.depth, env.defers)
             m == At(SetTop(stack, f), e2)
  <2>1. /\ f \in Frames /\ f.form = "fn" /\ f.form = stack[Len(stack)].form
        /\ f.use = stack[Len(stack)].use /\ f.saved = stack[Len(stack)].saved
        /\ f.phase = "run" /\ f.todo = <<>>
    BY <1>1, <1>2 DEF Frames
  <2>2. e2.depth = env.depth /\ e2.defers = env.defers /\ e2.exited = "no" /\ e2.slot = "bound"
    BY DEF Fresh
  <2>3. m.stack = SetTop(stack, f) /\ m.env = e2 /\ MoveTo(m)
    BY <1>5 DEF At
  <2> HIDE DEF f, e2, m
  <2>4. \A k \in 1..Len(e2.defers) : e2.defers[k].depth = env.depth
    BY <1>3, <2>2 DEF OwnAt
  <2>5. Fits(stack, env, f, e2)
    BY <2>1, <2>2, <2>4 DEF Fits
  <2>6. Sound(SetTop(stack, f), e2)
    BY <1>1, <2>1, <2>5, TopSound
  <2>7. QED
    BY <1>4, <2>3, <2>6, SoundMove
<1>6. CASE MoveTo(Finish(stack, env, Failed))
  <2>1. Failed \in Results /\ Ends(Failed) /\ Failed.kind = "error"
    BY ResultTypes DEF Failed, Res, Ends
  <2>2. env.exited # "no" => Deferred(stack, Len(stack), env) \/ ~Swallowing(stack, Len(stack), env)
    BY <1>1 DEF Rests, ExitAt
  <2>3. LET m == Finish(stack, env, Failed) IN Sound(m.stack, m.env)
    BY <1>1, <2>1, <2>2, FinishSound
  <2>4. QED
    BY <1>4, <1>6, <2>3, SoundMove
<1>7. QED
  BY <1>5, <1>6 DEF Trampoline

\* The list loses its head; what the entry evaluates is inside a deferred expression.
LEMMA DrainSound == SoundInv /\ Drain => SoundInv'
<1> SUFFICES ASSUME SoundInv, Drain PROVE SoundInv'
  OBVIOUS
<1>1. /\ WellNested(stack, env) /\ stack # <<>> /\ Top = stack[Len(stack)] /\ Top \in Frames
      /\ stack \in Seq(Frames) /\ env \in Envs /\ calls \in Nat
      /\ Top.todo \in Seq(Entries) /\ Top.todo # <<>> /\ Top.phase = "drain"
      /\ Len(stack) \in 1..Len(stack) /\ Open(stack, env) /\ Rests(stack, env)
  BY TopIs, PopIs DEF Drain, WellNested, SoundInv, Sound
<1> DEFINE f == [Top EXCEPT !.todo = Tail(@)]
<1>2. Tail(Top.todo) \in Seq(Entries)
      /\ \A k \in 1..Len(Tail(Top.todo)) : Tail(Top.todo)[k] = Top.todo[k + 1] /\ k + 1 \in 1..Len(Top.todo)
  BY <1>1, HeadTailProperties
<1>3. /\ f \in Frames /\ f.form = Top.form /\ f.use = Top.use /\ f.saved = Top.saved
      /\ f.phase = "drain" /\ f.res = Top.res /\ f.todo = Tail(Top.todo)
  BY <1>1, <1>2 DEF Frames
<1>4. Advanced = SetTop(stack, f)
  BY DEF Advanced
<1> HIDE DEF f
<1>5. OwnAt(stack, Len(stack), env)
  BY <1>1 DEF Open, EnvAt
<1>6. Fits(stack, env, f, env)
  <2>0. \A k \in 1..Len(Top.todo) : Top.todo[k].depth = env.depth
    BY <1>1, <1>5 DEF OwnAt
  <2>1. \A k \in 1..Len(f.todo) : f.todo[k].depth = env.depth
    BY <1>2, <1>3, <2>0
  <2>2. \A k \in 1..Len(env.defers) : env.defers[k].depth = env.depth
    BY <1>5 DEF OwnAt
  <2>3. ExitAt(stack, Len(stack), env) /\ RebindAt(stack, Len(stack), env)
    BY <1>1 DEF Rests
  <2>4. QED
    BY <1>1, <1>3, <2>1, <2>2, <2>3 DEF Fits, ExitAt, RebindAt
<1>7. Sound(Advanced, env)
  BY <1>1, <1>3, <1>4, <1>6, TopSound
<1>8. /\ WellNested(Advanced, env) /\ Advanced # <<>> /\ Open(Advanced, env) /\ Rests(Advanced, env)
      /\ Advanced[Len(Advanced)].phase = "drain"
  <2>1. f.form # "fn" => Extends(env.defers, f.saved.defers)
    BY <1>1, <1>3 DEF WellNested, DefersNest, EnvAt
  <2>2. WellNested(Advanced, env)
    BY <1>1, <1>3, <1>4, <2>1, TopChanges
  <2>3. Len(Advanced) = Len(stack) /\ Advanced[Len(stack)] = f
    BY <1>1, <1>4 DEF SetTop
  <2>4. QED
    BY <1>1, <1>3, <1>7, <2>2, <2>3 DEF Sound
<1>9. IInv'
  BY DrainInv DEF SoundInv
<1>10. Ready(Advanced, env, "defer") /\ Taken("defer", env) = env
  BY <1>8 DEF Ready, Taken
<1>11. CASE MoveTo(At(Advanced, env))
  BY <1>7, <1>9, <1>11, SoundMove DEF At
<1>12. CASE MoveTo(EnterFn(Advanced, env, "defer", "none"))
  <2>1. LET m == EnterFn(Advanced, env, "defer", "none") IN Sound(m.stack, m.env)
    BY <1>1, <1>8, <1>10, EnterSound
  <2>2. QED
    BY <1>9, <1>12, <2>1, SoundMove
<1>13. CASE MoveTo(OpenBlock(Advanced, env, "arm", FALSE, "defer"))
  <2>1. "arm" \in Blocks
    BY DEF Blocks
  <2>2. LET m == OpenBlock(Advanced, env, "arm", FALSE, "defer") IN Sound(m.stack, m.env)
    BY <1>8, <1>10, <2>1, OpenSound
  <2>3. QED
    BY <1>9, <1>13, <2>2, SoundMove
<1>14. QED
  BY <1>11, <1>12, <1>13 DEF Drain

LEMMA LeaveFnSound == SoundInv /\ LeaveFn => SoundInv'
<1> SUFFICES ASSUME SoundInv, LeaveFn PROVE SoundInv'
  OBVIOUS
<1>1. /\ WellNested(stack, env) /\ stack # <<>> /\ Top = stack[Len(stack)] /\ Top \in Frames
      /\ Top.use \in {"start", "stmt", "ret", "rebind", "defer"} /\ Top.res \in Results
      /\ Top.unwrap \in {"none", "propagate", "panic"} /\ Sound(stack, env)
  BY TopIs DEF LeaveFn, Leaving, Frames, SoundInv
<1> DEFINE r == Returned(Top.res)
           o == IF r = Failed THEN r ELSE Unwrapped(Top.unwrap, r.v)
<1>2. o \in Outcomes
  BY <1>1, ReturnedType
<1>3. MoveTo(Deliver(Pop(stack), Top.saved, Top.use, o))
  BY DEF LeaveFn, Restored
<1> HIDE DEF o
<1>4. WellNested(Pop(stack), Top.saved)
  BY <1>1, PopNests
<1>5. Pop(stack) = <<>> => Top.use = "start"
  <2>1. Len(Pop(stack)) = Len(stack) - 1 /\ Len(stack) \in Nat \ {0}
    BY <1>1, PopIs DEF WellNested
  <2>2. Pop(stack) = <<>> => Len(stack) = 1
    BY <2>1
  <2>3. Len(stack) = 1 => Top.use = "start"
    BY <1>1 DEF WellNested, Grounded
  <2>4. QED
    BY <2>2, <2>3
<1>6. Open(Pop(stack), Top.saved) /\ Awaits(Pop(stack), Top.saved, Top.use, o)
  BY <1>1, LeftFn
<1>7. LET m == Deliver(Pop(stack), Top.saved, Top.use, o) IN Sound(m.stack, m.env)
  BY <1>1, <1>2, <1>4, <1>5, <1>6, DeliverSound
<1>8. IInv'
  BY LeaveFnInv DEF SoundInv
<1>9. QED
  BY <1>3, <1>7, <1>8, SoundMove

\* The parts of the environment of a body that is left.
LEMMA UnscopedIs ==
  ASSUME NEW f, NEW e \in Envs
  PROVE  LET x == Unscoped(f, e)
         IN  x.depth = e.depth /\ x.defers = e.defers /\ x.exited = e.exited /\ x.slot = e.slot
BY DEF Unscoped, Envs

\* The top block is left with the environment of its body.
LEMMA LeavesBody ==
  ASSUME SoundInv, Leaving, Top.form # "fn"
  PROVE  LET s == Pop(stack)
             e == Unscoped(Top, env)
         IN  /\ WellNested(s, e) /\ s # <<>> /\ Open(s, e) /\ Fallen(s, e, Top)
             /\ Top.res \in Results
<1>1. /\ WellNested(stack, env) /\ stack # <<>> /\ Top = stack[Len(stack)]
      /\ Sound(stack, env) /\ env \in Envs /\ stack[Len(stack)].phase = "drain"
      /\ stack[Len(stack)].form # "fn"
  BY TopIs DEF Leaving, SoundInv, WellNested
<1> DEFINE e == Unscoped(Top, env)
<1>2. e.depth = env.depth /\ e.defers = env.defers /\ e.exited = env.exited /\ e.slot = env.slot
  BY <1>1, UnscopedIs
<1>3. WellNested(Pop(stack), e) /\ Pop(stack) # <<>> /\ Top.res \in Results
  BY LeftBlock DEF SoundInv
<1> HIDE DEF e
<1>4. Open(Pop(stack), e) /\ Fallen(Pop(stack), e, Top)
  BY <1>1, <1>2, LeftBody
<1>5. QED
  BY <1>3, <1>4 DEF e

\* A deferred match ends: what it leaves is what its drain had found.
LEMMA LeftDeferred ==
  ASSUME NEW s, NEW e, WellNested(s, e), s # <<>>, Sound(s, e),
         s[Len(s)].form = "arm", s[Len(s)].use = "defer",
         NEW e2, e2.depth = e.depth, e2.exited = e.exited,
         e2.slot = "taken" => s[Len(s)].saved.slot = "taken"
  PROVE  Rests(Pop(s), e2)
<1> DEFINE t == Pop(s)
           n == Len(s) - 1
           x == s[n + 1].saved
<1>1. /\ s \in Seq(Frames) /\ n \in Nat /\ Len(s) = n + 1 /\ t \in Seq(Frames) /\ Len(t) = n
      /\ \A i \in 1..n : t[i] = s[i]
      /\ s[1].form = "fn" /\ Open(s, e)
  BY PopIs DEF WellNested, Grounded, Sound
<1>2. s[n + 1].form = "arm" /\ s[n + 1].use = "defer" /\ (e2.slot = "taken" => x.slot = "taken")
  BY <1>1
<1> HIDE DEF t, n
<1>3. n # 0 /\ n \in 1..n /\ n \in 1..Len(s) /\ n # Len(s) /\ n + 1 \in 1..Len(s) /\ n < Len(s) /\ t[n] = s[n]
  BY <1>1, <1>2
<1>4. EnvAt(s, e, n) = x /\ EnvAt(s, e, n + 1) = e
  BY <1>1, <1>3 DEF EnvAt
<1>5. OwnAt(s, n, x) /\ ExitAt(s, n, x) /\ RebindAt(s, n, x) /\ OwnAt(s, n + 1, e)
  BY <1>1, <1>3, <1>4 DEF Open
<1>6. Swallows(s[n + 1].form) /\ n + 1 \in e.depth..(n + 1)
  BY <1>1, <1>2, <1>5 DEF Swallows, OwnAt
<1>7. e.exited = x.exited /\ e.depth = x.depth
  BY <1>2, <1>5, <1>6 DEF OwnAt, Swallowing
<1>8. \A j \in x.depth..n : t[j].form = s[j].form /\ t[j].use = s[j].use
  BY <1>1, <1>5 DEF OwnAt
<1>9. /\ Deferred(t, n, e2) <=> Deferred(s, n, x)
      /\ Operand(t, n, e2) <=> Operand(s, n, x)
      /\ Swallowing(t, n, e2) <=> Swallowing(s, n, x)
  BY <1>7, <1>8 DEF Deferred, Operand, Within, Swallowing
<1>10. ExitAt(t, n, e2) /\ RebindAt(t, n, e2)
  BY <1>2, <1>3, <1>5, <1>7, <1>9 DEF ExitAt, RebindAt
<1>11. QED
  BY <1>1, <1>10 DEF Rests, t

LEMMA LeaveArmSound == SoundInv /\ LeaveArm => SoundInv'
<1> SUFFICES ASSUME SoundInv, LeaveArm PROVE SoundInv'
  OBVIOUS
<1> DEFINE u == Unscoped(Top, env)
           e2 == Ignored(Top, u)
           o == Returned(Top.res)
<1>1. /\ WellNested(stack, env) /\ stack # <<>> /\ Top = stack[Len(stack)] /\ Top \in Frames
      /\ Sound(stack, env) /\ env \in Envs /\ Top.phase = "drain" /\ Top.form = "arm"
      /\ Top.res \in Results
  BY TopIs DEF LeaveArm, Leaving, SoundInv, WellNested
<1>2. u.depth = env.depth /\ u.defers = env.defers /\ u.exited = env.exited /\ u.slot = env.slot
  BY <1>1, UnscopedIs
<1>3. WellNested(Pop(stack), u) /\ Pop(stack) # <<>> /\ Fallen(Pop(stack), u, Top)
  BY <1>1, LeavesBody DEF LeaveArm
<1>4. o \in Outcomes /\ (Top.res.kind = "error" => o.kind = "error")
  BY <1>1, ReturnedType DEF Returned, Failed, Res
<1>5. MoveTo(Deliver(Pop(stack), e2, Top.use, o))
  BY DEF LeaveArm
<1>6. WellNested(Pop(stack), e2)
  BY <1>3, EnvMarked DEF Ignored
<1>7. /\ e2.depth = env.depth /\ e2.defers = env.defers /\ e2.exited = env.exited
      /\ e2.slot = "taken" => env.slot = "taken"
      /\ Top.use = "defer" /\ e2.slot = "taken" => Top.saved.slot = "taken"
  <2>1. u \in Envs
    BY <1>3 DEF WellNested
  <2> HIDE DEF u
  <2>2. QED
    BY <1>2, <2>1 DEF Ignored, Envs
<1> HIDE DEF e2, o, u
<1>8. Open(Pop(stack), e2) /\ Fallen(Pop(stack), e2, Top)
  BY <1>1, <1>7, LeftBody
<1>9. Awaits(Pop(stack), e2, Top.use, o)
  <2>1. CASE Top.use = "defer"
    <3>1. Rests(Pop(stack), e2)
      BY <1>1, <1>7, <2>1, LeftDeferred
    <3>2. QED
      BY <2>1, <3>1 DEF Awaits
  <2>2. CASE Top.use # "defer"
    <3> DEFINE s == Pop(stack)
    <3>1. Swallows(Top.form) /\ Top.use \in {"stmt", "ret", "rebind"} /\ s[Len(s)].phase = "run"
      BY <1>1, <1>8, <2>2 DEF Fallen, Swallows
    <3>2. e2.exited # "no" => Deferred(s, Len(s), e2)
      BY <1>8, <2>2, <3>1 DEF Fallen
    <3>3. Top.use # "rebind" /\ e2.slot = "taken" => Operand(s, Len(s), e2) \/ o.kind = "error"
      BY <1>4, <1>8, <3>1, <3>2, DeferredIsOperand DEF Fallen
    <3>4. QED
      BY <3>1, <3>2, <3>3 DEF Awaits
  <2>3. QED
    BY <2>1, <2>2
<1>10. Top.use \in {"start", "stmt", "ret", "rebind", "defer"}
  BY <1>1 DEF Frames
<1>11. LET m == Deliver(Pop(stack), e2, Top.use, o) IN Sound(m.stack, m.env)
  BY <1>3, <1>4, <1>6, <1>8, <1>9, <1>10, DeliverSound
<1>12. IInv'
  BY LeaveArmInv DEF SoundInv
<1>13. QED
  BY <1>5, <1>11, <1>12, SoundMove

LEMMA LeaveBlockSound == SoundInv /\ LeaveBlock => SoundInv'
<1> SUFFICES ASSUME SoundInv, LeaveBlock PROVE SoundInv'
  OBVIOUS
<1> DEFINE s == Pop(stack)
           e == Unscoped(Top, env)
           r == Top.res
<1>1. /\ WellNested(s, e) /\ s # <<>> /\ Open(s, e) /\ Fallen(s, e, Top) /\ r \in Results
      /\ Top.form \notin {"fn", "arm"}
  BY LeavesBody DEF LeaveBlock
<1>2. Top.use = "stmt"
  <2>1. Shaped(stack) /\ Len(stack) \in 1..Len(stack) /\ Top = stack[Len(stack)]
    BY TopIs, PopIs DEF SoundInv, Sound, Open, LeaveBlock, Leaving, WellNested
  <2>2. QED
    BY <1>1, <2>1 DEF Shaped
<1>3. IInv'
  BY LeaveBlockInv DEF SoundInv
<1>4. \/ Resumes(Top.form, r) /\ MoveTo(At(s, e))
      \/ r.kind = "value" /\ MoveTo(Finish(s, e, Res("return", r.v)))
      \/ MoveTo(Finish(s, e, r))
  BY DEF LeaveBlock
<1>5. Res("return", r.v) \in Results /\ Ends(Res("return", r.v))
  BY <1>1, ResultTypes DEF Results, Kinds, Ends, Res
<1>6. Resumes(Top.form, r) => ~Ends(r) \/ Swallows(Top.form)
  BY DEF Resumes, Ends, Swallows
<1>7. Resumes(Top.form, r) => r.kind # "error"
  BY DEF Resumes
<1>8. r.kind = "value" => ~Ends(r) /\ r.kind # "error"
  BY DEF Ends
<1>9. At(s, e).stack = s /\ At(s, e).env = e
  BY DEF At
<1> DEFINE f == Top
<1>10. f.res = r /\ f.use = "stmt"
  BY <1>2
<1> HIDE DEF s, e, r
<1>11. /\ s[Len(s)].phase = "run"
       /\ e.exited # "no" => \/ Deferred(s, Len(s), e)
                             \/ Ends(r) /\ ~Swallows(Top.form) /\ ~Swallowing(s, Len(s), e)
       /\ e.slot = "taken" => Operand(s, Len(s), e) \/ r.kind = "error" \/ e.exited # "no"
  BY <1>1, <1>10 DEF Fallen
<1>12. CASE Resumes(Top.form, r) /\ MoveTo(At(s, e))
  <2>1. Rests(s, e)
    BY <1>6, <1>7, <1>11, <1>12, DeferredIsOperand DEF Rests, ExitAt, RebindAt
  <2>2. Sound(At(s, e).stack, At(s, e).env)
    BY <1>1, <1>9, <2>1 DEF Sound
  <2>3. QED
    BY <1>3, <1>12, <2>2, SoundMove
<1>13. CASE r.kind = "value" /\ MoveTo(Finish(s, e, Res("return", r.v)))
  <2>1. LET m == Finish(s, e, Res("return", r.v)) IN Sound(m.stack, m.env)
    BY <1>1, <1>5, <1>8, <1>11, <1>13, FinishSound
  <2>2. QED
    BY <1>3, <1>13, <2>1, SoundMove
<1>14. CASE MoveTo(Finish(s, e, r))
  <2>1. LET m == Finish(s, e, r) IN Sound(m.stack, m.env)
    BY <1>1, <1>11, FinishSound
  <2>2. QED
    BY <1>3, <1>14, <2>1, SoundMove
<1>15. QED
  BY <1>4, <1>12, <1>13, <1>14

LEMMA LeaveLoopSound == SoundInv /\ LeaveLoop => SoundInv'
<1> SUFFICES ASSUME SoundInv, LeaveLoop PROVE SoundInv'
  OBVIOUS
<1> DEFINE s == Pop(stack)
           e == Unscoped(Top, env)
           r == Top.res
<1>1. /\ WellNested(s, e) /\ s # <<>> /\ Open(s, e) /\ Fallen(s, e, Top) /\ r \in Results
      /\ Top.form \notin {"fn", "arm"} /\ Top.form \in Blocks
  BY LeavesBody DEF LeaveLoop, Loops, Blocks
<1>2. Top.use = "stmt"
  <2>1. Shaped(stack) /\ Len(stack) \in 1..Len(stack) /\ Top = stack[Len(stack)]
    BY TopIs, PopIs DEF SoundInv, Sound, Open, LeaveLoop, Leaving, WellNested
  <2>2. QED
    BY <1>1, <2>1 DEF Shaped
<1>3. IInv'
  BY LeaveLoopInv DEF SoundInv
<1>4. \/ MoveTo(Finish(s, e, r))
      \/ r.kind \in {"break", "value", "continue"} /\ MoveTo(At(s, e))
      \/ /\ r.kind \in {"value", "continue"}
         /\ MoveTo(OpenBlock(s, e, Top.form, FALSE, "stmt"))
  BY DEF LeaveLoop
<1>5. r.kind \in {"break", "value", "continue"} => ~Ends(r) /\ r.kind # "error"
  BY DEF Ends
<1>6. At(s, e).stack = s /\ At(s, e).env = e
  BY DEF At
<1>7. Top.res = r /\ Top.use = "stmt"
  BY <1>2
<1> HIDE DEF s, e, r
<1>8. /\ s[Len(s)].phase = "run"
      /\ e.exited # "no" => \/ Deferred(s, Len(s), e)
                            \/ Ends(r) /\ ~Swallows(Top.form) /\ ~Swallowing(s, Len(s), e)
      /\ e.slot = "taken" => Operand(s, Len(s), e) \/ r.kind = "error" \/ e.exited # "no"
  BY <1>1, <1>7 DEF Fallen
<1>9. ~Ends(r) /\ r.kind # "error" => Rests(s, e) /\ Ready(s, e, "stmt")
  BY <1>8, DeferredIsOperand DEF Rests, ExitAt, RebindAt, Ready
<1>10. CASE MoveTo(Finish(s, e, r))
  <2>1. LET m == Finish(s, e, r) IN Sound(m.stack, m.env)
    BY <1>1, <1>8, FinishSound
  <2>2. QED
    BY <1>3, <1>10, <2>1, SoundMove
<1>11. CASE r.kind \in {"break", "value", "continue"} /\ MoveTo(At(s, e))
  <2>1. Sound(At(s, e).stack, At(s, e).env)
    BY <1>1, <1>5, <1>6, <1>9, <1>11 DEF Sound
  <2>2. QED
    BY <1>3, <1>11, <2>1, SoundMove
<1>12. CASE /\ r.kind \in {"value", "continue"}
            /\ MoveTo(OpenBlock(s, e, Top.form, FALSE, "stmt"))
  <2>1. LET m == OpenBlock(s, e, Top.form, FALSE, "stmt") IN Sound(m.stack, m.env)
    BY <1>1, <1>5, <1>9, <1>12, OpenSound
  <2>2. QED
    BY <1>3, <1>12, <2>1, SoundMove
<1>13. QED
  BY <1>4, <1>10, <1>11, <1>12

LEMMA TailCallEscapesSound == SoundInv /\ TailCallEscapes => SoundInv'
BY TailCallEscapesInv DEF SoundInv, TailCallEscapes

-----------------------------------------------------------------------------
THEOREM Soundness == Spec => []SoundInv
<1>1. SoundInv /\ UNCHANGED vars => SoundInv'
  BY DEF SoundInv, IInv, Bookkeeping, vars
<1>2. SoundInv /\ Next => SoundInv'
  BY CallSound, FailSound, PropagateSound, RetSound, TailCallSound, BreakOrContinueSound,
     BodyEndSound, DeferSound, BlockSound, TrampolineSound, DrainSound, LeaveFnSound,
     LeaveArmSound, LeaveBlockSound, LeaveLoopSound, TailCallEscapesSound DEF Next
<1>3. QED
  BY <1>1, <1>2, InitSound, PTL DEF Spec

(***************************************************************************)
(* Every entry of the defer stack in use, and of the list being drained,   *)
(* was registered by the activation that holds it: call_function gives its *)
(* callee a stack of its own and restores the caller's.                    *)
(***************************************************************************)
THEOREM OwnDefers == Spec => []DefersStayInFrame
<1>1. ASSUME SoundInv PROVE DefersStayInFrame
  <2>1. stack \in Seq(Frames) /\ Open(stack, env)
    BY <1>1 DEF SoundInv, IInv, WellNested, Sound
  <2>2. CASE stack = <<>>
    <3>1. env.defers = <<>>
      BY <2>1, <2>2 DEF Open, EnvAt
    <3>2. QED
      BY <2>2, <3>1 DEF DefersStayInFrame
  <2>3. CASE stack # <<>>
    <3>1. Len(stack) \in 1..Len(stack)
      BY <2>1, <2>3
    <3>2. OwnAt(stack, Len(stack), env)
      BY <2>1, <3>1 DEF Open, EnvAt
    <3>3. env.defers \in Seq(Entries) /\ Top \in Frames
      BY <2>1, <3>1, <1>1, EnvParts DEF SoundInv, IInv, WellNested, Top
    <3>4. Top.todo \in Seq(Entries)
      BY <3>3 DEF Frames
    <3>5. DOMAIN env.defers = 1..Len(env.defers) /\ DOMAIN Top.todo = 1..Len(Top.todo)
      BY <3>3, <3>4
    <3>6. /\ \A k \in 1..Len(env.defers) : env.defers[k].depth = env.depth
          /\ \A k \in 1..Len(Top.todo) : Top.todo[k].depth = env.depth
      BY <3>2 DEF OwnAt, Top
    <3>7. QED
      BY <3>5, <3>6 DEF DefersStayInFrame
  <2>4. QED
    BY <2>2, <2>3
<1>2. QED
  BY <1>1, Soundness, PTL

\* A body that is the activation's own is inside no deferred match and no operand.
LEMMA OwnBody ==
  ASSUME SoundInv, InOwnBody
  PROVE  Calm(stack, env) /\ ~Operand(stack, Len(stack), env)
<1>1. Calm(stack, env)
  BY Resting DEF InOwnBody
<1>2. ~Operand(stack, Len(stack), env)
  BY DEF InOwnBody, Operand, Within
<1>3. QED
  BY <1>1, <1>2

(***************************************************************************)
(* `ret`, and `!` on an Err or nil, end the activation however many blocks *)
(* the statement is nested in.                                             *)
(***************************************************************************)
THEOREM Exits == Spec => []ExitsAreFinal
<1>1. SoundInv => ExitsAreFinal
  BY OwnBody, DeferredIsOperand DEF Calm, ExitsAreFinal
<1>2. QED
  BY <1>1, Soundness, PTL

(***************************************************************************)
(* The statements of an activation never see the Nil that a self-rebind    *)
(* puts in its variable.                                                   *)
(***************************************************************************)
THEOREM Rebinds == Spec => []RebindInvisible
<1>1. SoundInv => RebindInvisible
  BY OwnBody DEF Calm, RebindInvisible
<1>2. QED
  BY <1>1, Soundness, PTL

-----------------------------------------------------------------------------
(***************************************************************************)
(* A deferred expression runs at most once.  Every frame has two lists in  *)
(* use: the defer stack of its body, unless a block entered since has      *)
(* taken it over, and the list of its drain.  Over all frames, every entry *)
(* is of another defer statement, and that statement is still pending: a   *)
(* push adds a new number, the end of a body moves entries from the first  *)
(* list of a frame to its second, a drain takes one off as it settles it,  *)
(* and a call or a block only changes which frame a list belongs to.       *)
(***************************************************************************)
\* The lists in use of frame i of s: its drain, and the defer stack of its body
\* unless a block has taken it over.
Waits(s, e, i, c) ==
  IF c = 2 THEN s[i].todo
  ELSE IF i = Len(s) \/ s[i + 1].form = "fn" THEN EnvAt(s, e, i).defers ELSE <<>>

\* The k-th entry of list c of frame i is that of the defer statement id.
Has(s, e, i, c, k, id) ==
  /\ i \in 1..Len(s) /\ c \in {1, 2}
  /\ k \in 1..Len(Waits(s, e, i, c))
  /\ Waits(s, e, i, c)[k].id = id

Distinct(s, e) ==
  \A i, c, k, j, d, l, id :
    Has(s, e, i, c, k, id) /\ Has(s, e, j, d, l, id) => i = j /\ c = d /\ k = l

AllPending(s, e, fs) ==
  \A i, c, k, id : Has(s, e, i, c, k, id) => id \in 1..Len(fs) /\ fs[id] = "pending"

\* Every entry that waits is of another statement, which is pending.
Unique(s, e, fs) == Distinct(s, e) /\ AllPending(s, e, fs)

-----------------------------------------------------------------------------
\* The lists of a frame are what they were, or are empty.
LEMMA CarriedUnique ==
  ASSUME NEW s, NEW e, NEW t, NEW x, NEW fs, Unique(s, e, fs),
         \A i \in 1..Len(t), c \in {1, 2} :
           \/ Waits(t, x, i, c) = <<>>
           \/ i \in 1..Len(s) /\ Waits(t, x, i, c) = Waits(s, e, i, c)
  PROVE  Unique(t, x, fs)
<1>1. ASSUME NEW i, NEW c, NEW k, NEW id, Has(t, x, i, c, k, id)
      PROVE  Has(s, e, i, c, k, id)
  <2>1. Waits(t, x, i, c) # <<>> /\ i \in 1..Len(t) /\ c \in {1, 2}
    BY <1>1 DEF Has
  <2>2. QED
    BY <1>1, <2>1 DEF Has
<1>2. QED
  BY <1>1 DEF Unique, Distinct, AllPending

\* Another environment with the same defer stack.
LEMMA EnvUnique ==
  ASSUME NEW s, NEW e, NEW x, NEW fs, Unique(s, e, fs), x.defers = e.defers
  PROVE  Unique(s, x, fs)
<1>1. \A i \in 1..Len(s), c \in {1, 2} : Waits(s, x, i, c) = Waits(s, e, i, c)
  BY DEF Waits, EnvAt
<1>2. QED
  BY <1>1, CarriedUnique

\* A new top frame leaves the lists of the others as they are.
LEMMA TopWaits ==
  ASSUME NEW s \in Seq(Frames), s # <<>>, NEW e, NEW x, NEW g \in Frames,
         g.form = s[Len(s)].form, g.saved = s[Len(s)].saved, NEW t, t = SetTop(s, g)
  PROVE  /\ Len(t) = Len(s) /\ Len(s) \in 1..Len(s)
         /\ Waits(t, x, Len(s), 1) = x.defers /\ Waits(t, x, Len(s), 2) = g.todo
         /\ Waits(s, e, Len(s), 1) = e.defers /\ Waits(s, e, Len(s), 2) = s[Len(s)].todo
         /\ \A i \in 1..Len(s), c \in {1, 2} : i # Len(s) => Waits(t, x, i, c) = Waits(s, e, i, c)
<1>0. /\ Len(t) = Len(s) /\ t[Len(s)] = g
      /\ \A i \in 1..Len(s) : i # Len(s) => t[i] = s[i]
  BY DEF SetTop
<1>1. /\ Len(t) = Len(s) /\ t[Len(s)] = g
      /\ \A i \in 1..Len(s) : i # Len(s) => t[i] = s[i]
      /\ EnvAt(t, x, Len(s)) = x
      /\ \A i \in 1..Len(s) : i # Len(s) => EnvAt(t, x, i) = EnvAt(s, e, i)
  <2>1. ASSUME NEW i \in 1..Len(s), i # Len(s) PROVE EnvAt(t, x, i) = EnvAt(s, e, i)
    <3>1. i + 1 \in 1..Len(s)
      BY <2>1
    <3>2. t[i + 1].saved = s[i + 1].saved
      BY <1>0, <3>1
    <3>3. QED
      BY <1>0, <2>1, <3>2 DEF EnvAt
  <2>2. QED
    BY <1>0, <2>1 DEF EnvAt
<1>2. Len(s) \in Nat \ {0} /\ Len(s) \in 1..Len(s)
  OBVIOUS
<1>3. EnvAt(s, e, Len(s)) = e
  BY DEF EnvAt
<1>4. ASSUME NEW i \in 1..Len(s), NEW c \in {1, 2}, i # Len(s)
      PROVE  Waits(t, x, i, c) = Waits(s, e, i, c)
  <2>1. t[i] = s[i] /\ EnvAt(t, x, i) = EnvAt(s, e, i) /\ i + 1 \in 1..Len(s)
    BY <1>1, <1>2, <1>4
  <2>2. t[i + 1].form = s[i + 1].form
    BY <1>1, <2>1
  <2>3. QED
    BY <1>1, <2>1, <2>2 DEF Waits
<1>5. /\ Waits(t, x, Len(s), 1) = x.defers /\ Waits(t, x, Len(s), 2) = g.todo
      /\ Waits(s, e, Len(s), 1) = e.defers /\ Waits(s, e, Len(s), 2) = s[Len(s)].todo
  BY <1>1, <1>3 DEF Waits
<1>6. QED
  BY <1>1, <1>2, <1>4, <1>5

\* The end of a body moves entries from the defer stack to the list of its drain.
LEMMA FinishUnique ==
  ASSUME NEW s, NEW e, WellNested(s, e), s # <<>>, NEW r \in Results, NEW fs, Unique(s, e, fs)
  PROVE  LET m == Finish(s, e, r) IN Unique(m.stack, m.env, fs)
<1>1. PICK g, x, kept : Finish(s, e, r) = At(SetTop(s, g), x) /\ Finished(s, e, r, g, x, kept)
  BY FinishIs
<1> DEFINE t == SetTop(s, g)
           n == Len(s)
           L == Len(e.defers)
<1>2. s \in Seq(Frames) /\ g \in Frames /\ g.form = s[n].form /\ g.saved = s[n].saved /\ L \in Nat
  BY <1>1, EnvParts DEF WellNested, Finished
<1>3. t = SetTop(s, g)
  OBVIOUS
<1> HIDE DEF t
<1>4. /\ Len(t) = n /\ n \in 1..n
      /\ Waits(t, x, n, 1) = x.defers /\ Waits(t, x, n, 2) = g.todo
      /\ Waits(s, e, n, 1) = e.defers /\ Waits(s, e, n, 2) = s[n].todo
      /\ \A i \in 1..n, c \in {1, 2} : i # n => Waits(t, x, i, c) = Waits(s, e, i, c)
  BY <1>2, <1>3, TopWaits
<1>5. kept \in 0..L /\ Len(x.defers) = kept /\ \A k \in 1..kept : x.defers[k] = e.defers[k]
  BY <1>1 DEF Finished
<1> HIDE DEF n, L
<1>6. \/ g.todo = s[n].todo /\ kept = L
      \/ Len(g.todo) = L - kept /\ \A k \in 1..Len(g.todo) : g.todo[k] = e.defers[L + 1 - k]
  BY <1>1 DEF Finished, n, L
<1>7. \A k \in 1..kept : k \in 1..L
  BY <1>2, <1>5
<1>8. \A k, id : Has(t, x, n, 1, k, id) => k \in 1..kept /\ Has(s, e, n, 1, k, id)
  BY <1>2, <1>4, <1>5, <1>7 DEF Has, L, n
<1>9. \A i, c, k, id : Has(t, x, i, c, k, id) /\ i # n => Has(s, e, i, c, k, id)
  BY <1>4 DEF Has, n
<1>10. \A i, c, k, id : Has(t, x, i, c, k, id) => c \in {1, 2}
  BY DEF Has
<1>11. CASE g.todo = s[n].todo
  <2>1. \A k, id : Has(t, x, n, 2, k, id) => Has(s, e, n, 2, k, id)
    BY <1>4, <1>11 DEF Has, n
  <2>2. \A i, c, k, id : Has(t, x, i, c, k, id) => Has(s, e, i, c, k, id)
    BY <1>8, <1>9, <1>10, <2>1
  <2>3. Unique(t, x, fs)
    BY <2>2 DEF Unique, Distinct, AllPending
  <2>4. QED
    BY <1>1, <1>3, <2>3 DEF At
<1>12. CASE Len(g.todo) = L - kept /\ \A k \in 1..Len(g.todo) : g.todo[k] = e.defers[L + 1 - k]
  <2>1. \A k \in 1..Len(g.todo) : L + 1 - k \in 1..L /\ ~(L + 1 - k \in 1..kept) /\ k \in Nat
    BY <1>2, <1>5, <1>12
  <2>2. \A k, id : Has(t, x, n, 2, k, id) =>
                     k \in 1..Len(g.todo) /\ Has(s, e, n, 1, L + 1 - k, id)
    BY <1>4, <1>12, <2>1 DEF Has, L, n
  <2>3. \A k, l \in 1..Len(g.todo) : L + 1 - k = L + 1 - l => k = l
    BY <1>2, <2>1
  <2>4. Distinct(t, x)
    <3> SUFFICES ASSUME NEW i, NEW c, NEW k, NEW j, NEW d, NEW l, NEW id,
                        Has(t, x, i, c, k, id), Has(t, x, j, d, l, id)
                 PROVE  i = j /\ c = d /\ k = l
      BY DEF Distinct
    <3>1. Distinct(s, e)
      BY DEF Unique
    <3>2. CASE i = n /\ c = 2 /\ j = n /\ d = 2
      <4>1. L + 1 - k = L + 1 - l /\ k \in 1..Len(g.todo) /\ l \in 1..Len(g.todo)
        BY <2>2, <3>1, <3>2 DEF Distinct
      <4>2. QED
        BY <2>3, <3>2, <4>1
    <3>3. CASE i = n /\ c = 2 /\ ~(j = n /\ d = 2)
      <4>1. Has(s, e, n, 1, L + 1 - k, id) /\ k \in 1..Len(g.todo)
        BY <2>2, <3>3
      <4>2. Has(s, e, j, d, l, id) /\ (j = n => l \in 1..kept)
        BY <1>8, <1>9, <1>10, <3>3
      <4>3. j = n /\ l = L + 1 - k
        BY <3>1, <4>1, <4>2 DEF Distinct
      <4>4. QED
        BY <2>1, <4>1, <4>2, <4>3
    <3>4. CASE ~(i = n /\ c = 2) /\ j = n /\ d = 2
      <4>1. Has(s, e, n, 1, L + 1 - l, id) /\ l \in 1..Len(g.todo)
        BY <2>2, <3>4
      <4>2. Has(s, e, i, c, k, id) /\ (i = n => k \in 1..kept)
        BY <1>8, <1>9, <1>10, <3>4
      <4>3. i = n /\ k = L + 1 - l
        BY <3>1, <4>1, <4>2 DEF Distinct
      <4>4. QED
        BY <2>1, <4>1, <4>2, <4>3
    <3>5. CASE ~(i = n /\ c = 2) /\ ~(j = n /\ d = 2)
      <4>1. Has(s, e, i, c, k, id) /\ Has(s, e, j, d, l, id)
        BY <1>8, <1>9, <1>10, <3>5
      <4>2. QED
        BY <3>1, <4>1 DEF Distinct
    <3>6. QED
      BY <3>2, <3>3, <3>4, <3>5
  <2>5. AllPending(t, x, fs)
    <3> SUFFICES ASSUME NEW i, NEW c, NEW k, NEW id, Has(t, x, i, c, k, id)
                 PROVE  id \in 1..Len(fs) /\ fs[id] = "pending"
      BY DEF AllPending
    <3>1. \/ Has(s, e, n, 1, L + 1 - k, id) \/ Has(s, e, i, c, k, id)
      BY <1>8, <1>9, <1>10, <2>2
    <3>2. QED
      BY <3>1 DEF Unique, AllPending
  <2>6. Unique(t, x, fs)
    BY <2>4, <2>5 DEF Unique
  <2>7. QED
    BY <1>1, <1>3, <2>6 DEF At
<1>13. QED
  BY <1>6, <1>11, <1>12

\* The lists of a stack and of the one with a frame more.
LEMMA NextWaits ==
  ASSUME NEW s, NEW t, NEW n \in Nat, Len(s) = n, Len(t) = n + 1,
         \A i \in 1..n : t[i] = s[i], NEW e, NEW x
  PROVE  /\ Waits(t, x, n + 1, 1) = x.defers /\ Waits(t, x, n + 1, 2) = t[n + 1].todo
         /\ n # 0 => /\ Waits(s, e, n, 1) = e.defers
                     /\ Waits(t, x, n, 1) = IF t[n + 1].form = "fn" THEN t[n + 1].saved.defers ELSE <<>>
         /\ \A i \in 1..n : Waits(t, x, i, 2) = Waits(s, e, i, 2)
         /\ \A i \in 1..n : i # n => Waits(t, x, i, 1) = Waits(s, e, i, 1)
<1>1. n + 1 # n /\ EnvAt(t, x, n + 1) = x /\ EnvAt(s, e, n) = e /\ EnvAt(t, x, n) = t[n + 1].saved
  BY DEF EnvAt
<1>2. Waits(t, x, n + 1, 1) = x.defers /\ Waits(t, x, n + 1, 2) = t[n + 1].todo
  BY <1>1 DEF Waits
<1>3. /\ Waits(s, e, n, 1) = e.defers
      /\ Waits(t, x, n, 1) = IF t[n + 1].form = "fn" THEN t[n + 1].saved.defers ELSE <<>>
  BY <1>1 DEF Waits
<1>4. \A i \in 1..n : Waits(t, x, i, 2) = Waits(s, e, i, 2)
  BY DEF Waits
<1>5. ASSUME NEW i \in 1..n, i # n PROVE Waits(t, x, i, 1) = Waits(s, e, i, 1)
  <2>1. i + 1 \in 1..n /\ i # n + 1
    BY <1>5
  <2>2. t[i + 1] = s[i + 1] /\ t[i] = s[i]
    BY <2>1
  <2>3. EnvAt(t, x, i) = EnvAt(s, e, i)
    BY <1>5, <2>1, <2>2 DEF EnvAt
  <2>4. QED
    BY <1>5, <2>1, <2>2, <2>3 DEF Waits
<1>6. QED
  BY <1>2, <1>3, <1>4, <1>5

\* A function is entered: the defer stack of its caller is saved.
LEMMA PushFnUnique ==
  ASSUME NEW s \in Seq(Frames), s # <<>>, NEW e, NEW fs, Unique(s, e, fs),
         NEW f \in Frames, f.form = "fn", f.saved.defers = e.defers, f.todo = <<>>,
         NEW x, x.defers = <<>>
  PROVE  Unique(Append(s, f), x, fs)
<1> DEFINE t == Append(s, f)
           n == Len(s)
<1>1. /\ n \in Nat /\ n # 0 /\ Len(t) = n + 1 /\ t[n + 1] = f
      /\ \A i \in 1..n : t[i] = s[i]
  OBVIOUS
<1>2. Len(s) = n
  OBVIOUS
<1> HIDE DEF t, n
<1>3. /\ Waits(t, x, n + 1, 1) = <<>> /\ Waits(t, x, n + 1, 2) = <<>>
      /\ Waits(t, x, n, 1) = Waits(s, e, n, 1)
      /\ \A i \in 1..n : Waits(t, x, i, 2) = Waits(s, e, i, 2)
      /\ \A i \in 1..n : i # n => Waits(t, x, i, 1) = Waits(s, e, i, 1)
  BY <1>1, <1>2, NextWaits
<1>4. \A i \in 1..Len(t), c \in {1, 2} :
        \/ Waits(t, x, i, c) = <<>>
        \/ i \in 1..Len(s) /\ Waits(t, x, i, c) = Waits(s, e, i, c)
  BY <1>1, <1>2, <1>3
<1>5. QED
  BY <1>4, CarriedUnique DEF t

\* A block is entered: it takes over the defer stack.
LEMMA PushBlockUnique ==
  ASSUME NEW s \in Seq(Frames), s # <<>>, NEW e, NEW fs, Unique(s, e, fs),
         NEW f \in Frames, f.form # "fn", f.todo = <<>>, NEW x, x.defers = e.defers
  PROVE  Unique(Append(s, f), x, fs)
<1> DEFINE t == Append(s, f)
           n == Len(s)
<1>1. /\ n \in Nat /\ n # 0 /\ Len(t) = n + 1 /\ t[n + 1] = f
      /\ \A i \in 1..n : t[i] = s[i]
  OBVIOUS
<1>2. Len(s) = n
  OBVIOUS
<1> HIDE DEF t, n
<1>3. /\ Waits(t, x, n + 1, 1) = Waits(s, e, n, 1) /\ Waits(t, x, n + 1, 2) = <<>>
      /\ Waits(t, x, n, 1) = <<>>
      /\ \A i \in 1..n : Waits(t, x, i, 2) = Waits(s, e, i, 2)
      /\ \A i \in 1..n : i # n => Waits(t, x, i, 1) = Waits(s, e, i, 1)
  BY <1>1, <1>2, NextWaits
<1>4. ASSUME NEW i, NEW c, NEW k, NEW id, Has(t, x, i, c, k, id)
      PROVE  IF i = n + 1 THEN c = 1 /\ Has(s, e, n, 1, k, id)
             ELSE Has(s, e, i, c, k, id) /\ (i = n => c # 1)
  <2>1. i \in 1..(n + 1) /\ c \in {1, 2} /\ Waits(t, x, i, c) # <<>> /\ n \in 1..n
    BY <1>1, <1>4 DEF Has
  <2>2. CASE i = n + 1
    BY <1>2, <1>3, <1>4, <2>1, <2>2 DEF Has
  <2>3. CASE i # n + 1
    <3>1. i \in 1..n /\ Waits(t, x, i, c) = Waits(s, e, i, c) /\ (i = n => c # 1)
      BY <1>1, <1>3, <2>1, <2>3
    <3>2. QED
      BY <1>2, <1>4, <2>3, <3>1 DEF Has
  <2>4. QED
    BY <2>2, <2>3
<1>5. Unique(t, x, fs)
  BY <1>4 DEF Unique, Distinct, AllPending
<1>6. QED
  BY <1>5 DEF t

\* A function is left: the defer stack of its caller is back.
LEMMA PopFnUnique ==
  ASSUME NEW s \in Seq(Frames), s # <<>>, NEW e, NEW fs, Unique(s, e, fs),
         s[Len(s)].form = "fn", NEW x, x.defers = s[Len(s)].saved.defers
  PROVE  Unique(Pop(s), x, fs)
<1> DEFINE t == Pop(s)
           n == Len(s) - 1
<1>1. /\ n \in Nat /\ Len(s) = n + 1 /\ Len(t) = n
      /\ \A i \in 1..n : s[i] = t[i]
  BY PopIs
<1>2. s[n + 1].form = "fn" /\ x.defers = s[n + 1].saved.defers
  BY <1>1
<1> HIDE DEF t, n
<1>3. n # 0 => Waits(t, x, n, 1) = Waits(s, e, n, 1)
  BY <1>1, <1>2 DEF Waits, EnvAt
<1>3a. ASSUME NEW i \in 1..n, NEW c \in {1, 2}, ~(i = n /\ c = 1)
       PROVE  Waits(t, x, i, c) = Waits(s, e, i, c)
  <2>1. s[i] = t[i] /\ i # n + 1 /\ (i # n => i + 1 \in 1..n)
    BY <1>1
  <2>2. i # n => s[i + 1] = t[i + 1]
    BY <1>1, <2>1
  <2>3. CASE c = 2
    BY <2>1, <2>3 DEF Waits
  <2>4. CASE c = 1
    BY <1>1, <1>3a, <2>1, <2>2, <2>4 DEF Waits, EnvAt
  <2>5. QED
    BY <2>3, <2>4
<1>4. \A i \in 1..Len(t), c \in {1, 2} :
        \/ Waits(t, x, i, c) = <<>>
        \/ i \in 1..Len(s) /\ Waits(t, x, i, c) = Waits(s, e, i, c)
  BY <1>1, <1>3, <1>3a
<1>5. Unique(t, x, fs)
  BY <1>4, CarriedUnique
<1>6. QED
  BY <1>5 DEF t

\* A block is left: the body around it takes the defer stack back.
LEMMA PopBlockUnique ==
  ASSUME NEW s \in Seq(Frames), s # <<>>, NEW e, NEW fs, Unique(s, e, fs),
         s[Len(s)].form # "fn", NEW x, x.defers = e.defers
  PROVE  Unique(Pop(s), x, fs)
<1> DEFINE t == Pop(s)
           n == Len(s) - 1
<1>1. /\ n \in Nat /\ Len(s) = n + 1 /\ Len(t) = n
      /\ \A i \in 1..n : s[i] = t[i]
  BY PopIs
<1>2. s[n + 1].form # "fn"
  BY <1>1
<1> HIDE DEF t, n
<1>3. /\ n # 0 => Waits(t, x, n, 1) = Waits(s, e, n + 1, 1)
      /\ n # 0 => Waits(s, e, n, 1) = <<>>
      /\ \A i \in 1..n : Waits(s, e, i, 2) = Waits(t, x, i, 2)
      /\ \A i \in 1..n : i # n => Waits(s, e, i, 1) = Waits(t, x, i, 1)
  BY <1>1, <1>2, NextWaits
<1>4. ASSUME NEW i, NEW c, NEW k, NEW id, Has(t, x, i, c, k, id)
      PROVE  IF i = n /\ c = 1 THEN Has(s, e, n + 1, 1, k, id)
             ELSE Has(s, e, i, c, k, id) /\ i # n + 1
  <2>1. i \in 1..n /\ c \in {1, 2} /\ i # n + 1 /\ i \in 1..(n + 1) /\ n + 1 \in 1..(n + 1) /\ n # 0
    BY <1>1, <1>4 DEF Has
  <2>2. CASE i = n /\ c = 1
    BY <1>1, <1>3, <1>4, <2>1, <2>2 DEF Has
  <2>3. CASE ~(i = n /\ c = 1)
    <3>1. Waits(t, x, i, c) = Waits(s, e, i, c)
      BY <1>3, <2>1, <2>3
    <3>2. QED
      BY <1>1, <1>4, <2>1, <2>3, <3>1 DEF Has
  <2>4. QED
    BY <2>2, <2>3
<1>5. Unique(t, x, fs)
  BY <1>4 DEF Unique, Distinct, AllPending
<1>6. QED
  BY <1>5 DEF t

\* The statement that uses an outcome moves at most what its body registered.
LEMMA DeliverUnique ==
  ASSUME NEW s, NEW e, WellNested(s, e), NEW o \in Outcomes, NEW fs, Unique(s, e, fs),
         NEW use \in {"start", "stmt", "ret", "rebind", "defer"},
         s = <<>> => use = "start"
  PROVE  LET m == Deliver(s, e, use, o) IN Unique(m.stack, m.env, fs)
<1> DEFINE m == Deliver(s, e, use, o)
<1>1. o.kind \in {"value", "error", "propagate"} /\ Res("return", o.v) \in Results /\ Failed \in Results
  BY DEF Outcomes, Results, Res, Failed, Kinds, Values
<1>2. ASSUME NEW how \in {"ret", "propagate"}
      PROVE  WellNested(s, Exit(s, e, how)) /\ Unique(s, Exit(s, e, how), fs)
  <2>1. Exit(s, e, how).defers = e.defers
    BY DEF Exit, WellNested, Envs
  <2>2. QED
    BY <2>1, EnvMarked, EnvUnique
<1>3. CASE use \in {"start", "defer"} \/ (use = "stmt" /\ o.kind = "value")
  <2>1. m = At(s, e)
    BY <1>3 DEF Deliver
  <2>2. QED
    BY <2>1 DEF At
<1>4. CASE use \notin {"start", "defer"} /\ o.kind = "error"
  <2>1. m = Finish(s, e, Failed)
    BY <1>4 DEF Deliver
  <2>2. QED
    BY <1>1, <1>4, <2>1, FinishUnique
<1>5. CASE use \notin {"start", "defer"} /\ o.kind = "propagate"
  <2>1. m = Finish(s, Exit(s, e, "propagate"), Res("return", o.v))
    BY <1>5 DEF Deliver
  <2>2. QED
    BY <1>1, <1>2, <1>5, <2>1, FinishUnique
<1>6. CASE use = "ret" /\ o.kind = "value"
  <2>1. m = Finish(s, Exit(s, e, "ret"), Res("return", o.v))
    BY <1>6 DEF Deliver
  <2>2. QED
    BY <1>1, <1>2, <1>6, <2>1, FinishUnique
<1>7. CASE use = "rebind" /\ o.kind = "value"
  <2> DEFINE e2 == [e EXCEPT !.slot = "bound"]
  <2>1. m = At(s, e2)
    BY <1>7 DEF Deliver
  <2>2. e2.defers = e.defers
    BY DEF WellNested, Envs
  <2> HIDE DEF e2, m
  <2>3. m.stack = s /\ m.env = e2
    BY <2>1 DEF At
  <2>4. Unique(m.stack, m.env, fs)
    BY <2>2, <2>3, EnvUnique
  <2>5. QED
    BY <2>4 DEF m
<1>8. QED
  BY <1>1, <1>3, <1>4, <1>5, <1>6, <1>7

\* The head of a drain's list is taken off it and is pending no more.
LEMMA AdvanceUnique ==
  ASSUME NEW s \in Seq(Frames), s # <<>>, NEW e,
         NEW f, f = s[Len(s)],
         NEW g \in Frames, g.form = f.form, g.saved = f.saved
  PROVE  \A fs \in Seq({"pending", "ran", "skipped"}) : \A w :
           Unique(s, e, fs) /\ f.todo # <<>> /\ g.todo = Tail(f.todo)
           => Unique(SetTop(s, g), e, [fs EXCEPT ![Head(f.todo).id] = w])
<1> DEFINE t == SetTop(s, g)
           n == Len(s)
<1>0. t = SetTop(s, g) /\ g.form = s[Len(s)].form /\ g.saved = s[Len(s)].saved
  OBVIOUS
<1> HIDE DEF t
<1>a. /\ Len(t) = Len(s) /\ Len(s) \in 1..Len(s)
      /\ Waits(t, e, Len(s), 1) = e.defers /\ Waits(t, e, Len(s), 2) = g.todo
      /\ Waits(s, e, Len(s), 1) = e.defers /\ Waits(s, e, Len(s), 2) = s[Len(s)].todo
      /\ \A i \in 1..Len(s), c \in {1, 2} : i # Len(s) => Waits(t, e, i, c) = Waits(s, e, i, c)
  BY <1>0, TopWaits
<1> TAKE fs \in Seq({"pending", "ran", "skipped"})
<1> TAKE w
<1> HAVE Unique(s, e, fs) /\ f.todo # <<>> /\ g.todo = Tail(f.todo)
<1> DEFINE h == Head(f.todo).id
           fs2 == [fs EXCEPT ![h] = w]
<1>b. f.todo \in Seq(Entries)
  <2>1. f \in Frames
    BY PopIs
  <2>2. QED
    BY <2>1 DEF Frames
<1>1. /\ Len(g.todo) = Len(f.todo) - 1 /\ Len(f.todo) \in Nat \ {0}
      /\ \A k \in 1..Len(g.todo) : g.todo[k] = f.todo[k + 1] /\ k + 1 \in 1..Len(f.todo)
      /\ 1 \in 1..Len(f.todo) /\ f.todo[1].id = h
  BY <1>b, HeadTailProperties
<1>2. /\ Len(t) = n /\ n \in 1..n
      /\ Waits(t, e, n, 1) = e.defers /\ Waits(t, e, n, 2) = g.todo
      /\ Waits(s, e, n, 1) = e.defers /\ Waits(s, e, n, 2) = f.todo
      /\ \A i \in 1..n, c \in {1, 2} : i # n => Waits(t, e, i, c) = Waits(s, e, i, c)
  BY <1>a
<1>3. Len(s) = n
  OBVIOUS
<1> HIDE DEF n, h
<1>4. Has(s, e, n, 2, 1, h)
  BY <1>1, <1>2, <1>3 DEF Has
<1>5. h \in 1..Len(fs) /\ Len(fs2) = Len(fs) /\ \A j \in 1..Len(fs) : j # h => fs2[j] = fs[j]
  BY <1>4 DEF Unique, AllPending
<1> HIDE DEF fs2
<1>6. ASSUME NEW i, NEW c, NEW k, NEW id, Has(t, e, i, c, k, id)
      PROVE  IF i = n /\ c = 2 THEN k \in 1..Len(g.todo) /\ Has(s, e, n, 2, k + 1, id)
             ELSE Has(s, e, i, c, k, id)
  <2>1. i \in 1..n /\ c \in {1, 2}
    BY <1>2, <1>6 DEF Has
  <2>2. CASE i = n /\ c = 2
    <3>1. k \in 1..Len(g.todo) /\ g.todo[k].id = id
      BY <1>2, <1>6, <2>2 DEF Has
    <3>2. k + 1 \in 1..Len(f.todo) /\ f.todo[k + 1].id = id
      BY <1>1, <3>1
    <3>3. QED
      BY <1>2, <1>3, <2>2, <3>1, <3>2 DEF Has
  <2>3. CASE ~(i = n /\ c = 2)
    <3>1. Waits(t, e, i, c) = Waits(s, e, i, c)
      BY <1>2, <2>1, <2>3
    <3>2. QED
      BY <1>2, <1>3, <1>6, <2>1, <2>3, <3>1 DEF Has
  <2>4. QED
    BY <2>2, <2>3
<1>7. \A k \in 1..Len(g.todo) : k + 1 # 1
  BY <1>1
<1>8. \A k, l \in 1..Len(g.todo) : k + 1 = l + 1 => k = l
  BY <1>1
<1>9. Distinct(s, e) /\ AllPending(s, e, fs)
  BY DEF Unique
<1>10. Distinct(t, e)
  <2> SUFFICES ASSUME NEW i, NEW c, NEW k, NEW j, NEW d, NEW l, NEW id,
                      Has(t, e, i, c, k, id), Has(t, e, j, d, l, id)
               PROVE  i = j /\ c = d /\ k = l
    BY DEF Distinct
  <2>1. CASE i = n /\ c = 2 /\ j = n /\ d = 2
    <3>1. k \in 1..Len(g.todo) /\ l \in 1..Len(g.todo) /\ k + 1 = l + 1
      BY <1>6, <1>9, <2>1 DEF Distinct
    <3>2. QED
      BY <1>8, <2>1, <3>1
  <2>2. CASE ~(i = n /\ c = 2) \/ ~(j = n /\ d = 2)
    BY <1>6, <1>9, <2>2 DEF Distinct
  <2>3. QED
    BY <2>1, <2>2
<1>11. AllPending(t, e, fs2)
  <2> SUFFICES ASSUME NEW i, NEW c, NEW k, NEW id, Has(t, e, i, c, k, id)
               PROVE  id \in 1..Len(fs2) /\ fs2[id] = "pending"
    BY DEF AllPending
  <2>1. id # h
    <3>1. CASE i = n /\ c = 2
      BY <1>4, <1>6, <1>7, <1>9, <3>1 DEF Distinct
    <3>2. CASE ~(i = n /\ c = 2)
      BY <1>4, <1>6, <1>9, <3>2 DEF Distinct
    <3>3. QED
      BY <3>1, <3>2
  <2>2. id \in 1..Len(fs) /\ fs[id] = "pending"
    BY <1>6, <1>9 DEF AllPending
  <2>3. QED
    BY <1>5, <2>1, <2>2
<1>12. Unique(t, e, fs2)
  BY <1>10, <1>11 DEF Unique
<1>13. QED
  BY <1>12 DEF t, fs2, h

\* A new entry is of a new statement.
LEMMA GrowUnique ==
  ASSUME NEW s \in Seq(Frames), s # <<>>, NEW e, NEW fs, Unique(s, e, fs),
         fs \in Seq({"pending", "ran", "skipped"}), e.defers \in Seq(Entries),
         NEW d \in Entries, d.id = Len(fs) + 1,
         NEW x, x.defers = Append(e.defers, d)
  PROVE  Unique(s, x, Append(fs, "pending"))
<1> DEFINE n == Len(s)
           L == Len(e.defers)
           fs2 == Append(fs, "pending")
<1>1. /\ n \in 1..n /\ Len(s) = n /\ L \in Nat
      /\ Waits(s, e, n, 1) = e.defers /\ Waits(s, x, n, 1) = x.defers
      /\ \A i \in 1..n, c \in {1, 2} : ~(i = n /\ c = 1) => Waits(s, x, i, c) = Waits(s, e, i, c)
  BY DEF Waits, EnvAt
<1>2. /\ \A k \in 1..Len(x.defers) : (k \in 1..L /\ x.defers[k] = e.defers[k]) \/ (k = L + 1 /\ x.defers[k] = d)
  OBVIOUS
<1>3. /\ Len(fs) \in Nat /\ Len(fs2) = Len(fs) + 1 /\ fs2[Len(fs) + 1] = "pending"
      /\ \A j \in 1..Len(fs) : fs2[j] = fs[j] /\ j \in 1..(Len(fs) + 1) /\ j # Len(fs) + 1
      /\ Len(fs) + 1 \in 1..(Len(fs) + 1)
  OBVIOUS
<1> HIDE DEF n, L, fs2
<1>4. ASSUME NEW i, NEW c, NEW k, NEW id, Has(s, x, i, c, k, id)
      PROVE  \/ Has(s, e, i, c, k, id)
             \/ i = n /\ c = 1 /\ k = L + 1 /\ id = Len(fs) + 1
  <2>1. i \in 1..n /\ c \in {1, 2}
    BY <1>1, <1>4 DEF Has
  <2>2. CASE i = n /\ c = 1
    <3>1. k \in 1..Len(x.defers) /\ x.defers[k].id = id
      BY <1>1, <1>4, <2>2 DEF Has
    <3>2. CASE k \in 1..L /\ x.defers[k] = e.defers[k]
      BY <1>1, <2>2, <3>1, <3>2 DEF Has, L
    <3>3. CASE k = L + 1 /\ x.defers[k] = d
      BY <2>2, <3>1, <3>3
    <3>4. QED
      BY <1>2, <3>1, <3>2, <3>3
  <2>3. CASE ~(i = n /\ c = 1)
    <3>1. Waits(s, x, i, c) = Waits(s, e, i, c)
      BY <1>1, <2>1, <2>3
    <3>2. QED
      BY <1>1, <1>4, <2>1, <2>3, <3>1 DEF Has
  <2>4. QED
    BY <2>2, <2>3
<1>5. \A i, c, k, id : Has(s, e, i, c, k, id) => id \in 1..Len(fs) /\ fs[id] = "pending"
  BY DEF Unique, AllPending
<1>6. Distinct(s, e)
  BY DEF Unique
<1>7. Distinct(s, x)
  <2> SUFFICES ASSUME NEW i, NEW c, NEW k, NEW j, NEW a, NEW l, NEW id,
                      Has(s, x, i, c, k, id), Has(s, x, j, a, l, id)
               PROVE  i = j /\ c = a /\ k = l
    BY DEF Distinct
  <2>1. CASE id = Len(fs) + 1
    <3>1. ~Has(s, e, i, c, k, id) /\ ~Has(s, e, j, a, l, id)
      BY <1>3, <1>5, <2>1
    <3>2. QED
      BY <1>4, <3>1
  <2>2. CASE id # Len(fs) + 1
    <3>1. Has(s, e, i, c, k, id) /\ Has(s, e, j, a, l, id)
      BY <1>4, <2>2
    <3>2. QED
      BY <1>6, <3>1 DEF Distinct
  <2>3. QED
    BY <2>1, <2>2
<1>8. AllPending(s, x, fs2)
  BY <1>3, <1>4, <1>5 DEF AllPending
<1>9. QED
  BY <1>7, <1>8 DEF Unique, fs2

-----------------------------------------------------------------------------
\* The invariant of the theorems at the end of this section.
OnceInv == IInv /\ Unique(stack, env, fates)

LEMMA UniqueMove ==
  ASSUME NEW m, Unique(m.stack, m.env, fates'), MoveTo(m), IInv'
  PROVE  OnceInv'
<1>1. stack' = m.stack /\ env' = m.env
  BY DEF MoveTo
<1>2. Unique(stack', env', fates')
  BY <1>1
<1>3. QED
  BY <1>2 DEF OnceInv

\* A body ends by itself.
LEMMA EndUnique ==
  ASSUME OnceInv, Running, NEW r \in Results, NEW how \in {"ret", "propagate"},
         \/ MoveTo(Finish(stack, env, r))
         \/ MoveTo(Finish(stack, Exit(stack, env, how), r)),
         fates' = fates, IInv'
  PROVE  OnceInv'
<1>1. WellNested(stack, env) /\ stack # <<>> /\ env \in Envs /\ Unique(stack, env, fates)
  BY TopIs DEF OnceInv, WellNested
<1>2. CASE MoveTo(Finish(stack, env, r))
  <2>1. LET m == Finish(stack, env, r) IN Unique(m.stack, m.env, fates)
    BY <1>1, FinishUnique
  <2>2. LET m == Finish(stack, env, r) IN Unique(m.stack, m.env, fates')
    BY <2>1
  <2>3. QED
    BY <1>2, <2>2, UniqueMove
<1>3. CASE MoveTo(Finish(stack, Exit(stack, env, how), r))
  <2> DEFINE e == Exit(stack, env, how)
  <2>1. WellNested(stack, e)
    BY <1>1, EnvMarked
  <2>2. e.defers = env.defers
    BY <1>1 DEF Exit, Envs
  <2>3. MoveTo(Finish(stack, e, r))
    BY <1>3
  <2> HIDE DEF e
  <2>4. Unique(stack, e, fates)
    BY <1>1, <2>2, EnvUnique
  <2>5. LET m == Finish(stack, e, r) IN Unique(m.stack, m.env, fates)
    BY <1>1, <2>1, <2>4, FinishUnique
  <2>6. LET m == Finish(stack, e, r) IN Unique(m.stack, m.env, fates')
    BY <2>5
  <2>7. QED
    BY <2>3, <2>6, UniqueMove
<1>4. QED
  BY <1>2, <1>3

\* A function, or a construct, is entered.
LEMMA EnterUnique ==
  ASSUME NEW s, NEW e, WellNested(s, e), s # <<>>, NEW fs, Unique(s, e, fs),
         NEW use \in {"stmt", "ret", "rebind", "defer"},
         NEW unwrap \in {"none", "propagate", "panic"}
  PROVE  LET m == EnterFn(s, e, use, unwrap) IN Unique(m.stack, m.env, fs)
<1> DEFINE x == Taken(use, e)
           f == Frame("fn", TRUE, use, unwrap, x)
           e2 == Fresh(calls + 1, Len(s) + 1, <<>>)
<1>1. s \in Seq(Frames) /\ e \in Envs
  BY DEF WellNested
<1>2. x \in Envs /\ x.defers = e.defers
  BY <1>1, TakenIs
<1>3. f \in Frames /\ f.saved = x /\ f.todo = <<>> /\ f.form = "fn"
  <2>1. <<>> \in Seq(Entries) /\ Res("value", "nil") \in [kind : Kinds, v : Values]
    BY DEF Res, Kinds, Values
  <2> HIDE DEF x
  <2>2. QED
    BY <1>2, <2>1 DEF Frame, Frames
<1>4. e2.defers = <<>>
  BY DEF Fresh
<1>5. EnterFn(s, e, use, unwrap) = At(Append(s, f), e2)
  BY DEF EnterFn
<1> HIDE DEF x, f, e2
<1>6. Unique(Append(s, f), e2, fs)
  BY <1>1, <1>2, <1>3, <1>4, PushFnUnique
<1>7. QED
  BY <1>5, <1>6 DEF At

LEMMA OpenUnique ==
  ASSUME NEW s, NEW e, WellNested(s, e), s # <<>>, NEW fs, Unique(s, e, fs),
         NEW form \in Blocks, NEW outer \in BOOLEAN,
         NEW use \in {"stmt", "ret", "rebind", "defer"}
  PROVE  LET m == OpenBlock(s, e, form, outer, use) IN Unique(m.stack, m.env, fs)
<1> DEFINE f == Frame(form, TailOf(form, outer), use, "none", e)
           e2 == [e EXCEPT !.marks = IF Scoped(form) THEN @ + 1 ELSE @]
<1>1. s \in Seq(Frames) /\ e \in Envs /\ form # "fn" /\ TailOf(form, outer) \in BOOLEAN
  BY DEF WellNested, Blocks, Loops, TailOf
<1>2. f \in Frames /\ f.todo = <<>> /\ f.form # "fn"
  <2>1. <<>> \in Seq(Entries) /\ Res("value", "nil") \in [kind : Kinds, v : Values]
    BY DEF Res, Kinds, Values
  <2>2. QED
    BY <1>1, <2>1 DEF Frame, Frames
<1>3. e2.defers = e.defers
  BY <1>1 DEF Envs
<1>4. OpenBlock(s, e, form, outer, use) = At(Append(s, f), e2)
  BY DEF OpenBlock
<1> HIDE DEF f, e2
<1>5. Unique(Append(s, f), e2, fs)
  BY <1>1, <1>2, <1>3, PushBlockUnique
<1>6. QED
  BY <1>4, <1>5 DEF At

LEMMA OnceTop ==
  ASSUME OnceInv, Running
  PROVE  /\ WellNested(stack, env) /\ stack # <<>> /\ Top = stack[Len(stack)] /\ Top \in Frames
         /\ stack \in Seq(Frames) /\ env \in Envs /\ Unique(stack, env, fates)
         /\ fates \in Seq({"pending", "ran", "skipped"}) /\ calls \in Nat
BY TopIs DEF OnceInv, WellNested, IInv, Bookkeeping

LEMMA InitOnce == Init => OnceInv
<1> SUFFICES ASSUME Init PROVE OnceInv
  OBVIOUS
<1> DEFINE f == Frame("fn", TRUE, "start", "none", Fresh(0, 0, <<>>))
<1>1. stack = <<f>> /\ f.todo = <<>> /\ env.defers = <<>>
  BY DEF Init, Frame, Fresh
<1> HIDE DEF f
<1>2. Len(stack) = 1 /\ stack[1] = f
  BY <1>1
<1>3. \A i \in 1..Len(stack), c \in {1, 2} : Waits(stack, env, i, c) = <<>>
  BY <1>1, <1>2 DEF Waits, EnvAt
<1>4. \A i, c, k, id : ~Has(stack, env, i, c, k, id)
  BY <1>3 DEF Has
<1>5. QED
  BY <1>4, InitNests DEF OnceInv, Unique, Distinct, AllPending

LEMMA CallOnce == OnceInv /\ Call => OnceInv'
<1> SUFFICES ASSUME OnceInv, Call PROVE OnceInv'
  OBVIOUS
<1>1. PICK use \in Uses, unwrap \in {"none", "propagate", "panic"} :
        MoveTo(EnterFn(stack, env, use, unwrap))
  BY DEF Call
<1> DEFINE m == EnterFn(stack, env, use, unwrap)
<1>2. Unique(m.stack, m.env, fates)
  BY OnceTop, UsesAre, EnterUnique DEF Call, InBody
<1>3. IInv' /\ fates' = fates
  BY CallInv DEF OnceInv, Call
<1> HIDE DEF m
<1>4. Unique(m.stack, m.env, fates')
  BY <1>2, <1>3
<1>5. MoveTo(m)
  BY <1>1 DEF m
<1>6. QED
  BY <1>3, <1>4, <1>5, UniqueMove

LEMMA FailOnce == OnceInv /\ Fail => OnceInv'
<1> SUFFICES ASSUME OnceInv, Fail PROVE OnceInv'
  OBVIOUS
<1>1. IInv' /\ fates' = fates /\ Running
  BY FailInv DEF OnceInv, Fail, InBody
<1>2. QED
  BY <1>1, EndUnique, ResultTypes DEF Fail

LEMMA PropagateOnce == OnceInv /\ Propagate => OnceInv'
<1> SUFFICES ASSUME OnceInv, Propagate PROVE OnceInv'
  OBVIOUS
<1>1. PICK v \in {"nil", "Err"} :
        MoveTo(Finish(stack, Exit(stack, env, "propagate"), Res("return", v)))
  BY DEF Propagate
<1>2. Res("return", v) \in Results
  BY ResultTypes DEF Kinds, Values
<1>3. IInv' /\ fates' = fates /\ Running
  BY PropagateInv DEF OnceInv, Propagate, InBody
<1>4. QED
  BY <1>1, <1>2, <1>3, EndUnique

LEMMA RetOnce == OnceInv /\ Ret => OnceInv'
<1> SUFFICES ASSUME OnceInv, Ret PROVE OnceInv'
  OBVIOUS
<1>1. PICK v \in Values : MoveTo(Finish(stack, Exit(stack, env, "ret"), Res("return", v)))
  BY DEF Ret
<1>2. Res("return", v) \in Results
  BY ResultTypes DEF Kinds
<1>3. IInv' /\ fates' = fates /\ Running
  BY RetInv DEF OnceInv, Ret, InBody
<1>4. QED
  BY <1>1, <1>2, <1>3, EndUnique

LEMMA TailCallOnce == OnceInv /\ TailCall => OnceInv'
<1> SUFFICES ASSUME OnceInv, TailCall PROVE OnceInv'
  OBVIOUS
<1>1. Res("tail", "nil") \in Results
  BY ResultTypes DEF Kinds, Values
<1>2. \/ MoveTo(Finish(stack, env, Res("tail", "nil")))
      \/ MoveTo(Finish(stack, Exit(stack, env, "ret"), Res("tail", "nil")))
  BY DEF TailCall
<1>3. IInv' /\ fates' = fates /\ Running
  BY TailCallInv DEF OnceInv, TailCall, InBody
<1>4. QED
  BY <1>1, <1>2, <1>3, EndUnique

LEMMA BreakOrContinueOnce == OnceInv /\ BreakOrContinue => OnceInv'
<1> SUFFICES ASSUME OnceInv, BreakOrContinue PROVE OnceInv'
  OBVIOUS
<1>1. PICK r \in {Res("break", v) : v \in Values} \cup {Res("continue", "nil")} :
        MoveTo(Finish(stack, env, r))
  BY DEF BreakOrContinue
<1>2. r \in Results
  BY ResultTypes DEF Kinds, Values
<1>3. IInv' /\ fates' = fates /\ Running
  BY BreakOrContinueInv DEF OnceInv, BreakOrContinue, InBody
<1>4. QED
  BY <1>1, <1>2, <1>3, EndUnique

LEMMA BodyEndOnce == OnceInv /\ BodyEnd => OnceInv'
<1> SUFFICES ASSUME OnceInv, BodyEnd PROVE OnceInv'
  OBVIOUS
<1>1. PICK v \in Values : MoveTo(Finish(stack, env, Res("value", v)))
  BY DEF BodyEnd
<1>2. Res("value", v) \in Results
  BY ResultTypes DEF Kinds
<1>3. IInv' /\ fates' = fates /\ Running
  BY BodyEndInv DEF OnceInv, BodyEnd, InBody
<1>4. QED
  BY <1>1, <1>2, <1>3, EndUnique

\* The statement gets a number no entry has.
LEMMA DeferOnce == OnceInv /\ Defer => OnceInv'
<1> SUFFICES ASSUME OnceInv, Defer PROVE OnceInv'
  OBVIOUS
<1>1. /\ stack # <<>> /\ stack \in Seq(Frames) /\ env \in Envs /\ Unique(stack, env, fates)
      /\ fates \in Seq({"pending", "ran", "skipped"}) /\ Len(fates) \in Nat
  BY OnceTop DEF Defer, InBody
<1>2. PICK kind \in {"Always", "OnError"} :
        env' = [env EXCEPT !.defers =
                  Append(@, [id |-> Len(fates) + 1, kind |-> kind,
                             owner |-> env.owner, depth |-> env.depth])]
  BY DEF Defer
<1> DEFINE d == [id |-> Len(fates) + 1, kind |-> kind, owner |-> env.owner, depth |-> env.depth]
<1>3. d \in Entries /\ d.id = Len(fates) + 1
  BY <1>1 DEF Entries, Envs
<1>4. env.defers \in Seq(Entries) /\ env' = [env EXCEPT !.defers = Append(env.defers, d)]
  BY <1>1, <1>2, EnvParts
<1> HIDE DEF d
<1>5. env'.defers = Append(env.defers, d)
  BY <1>1, <1>4 DEF Envs
<1>6. stack' = stack /\ fates' = Append(fates, "pending") /\ IInv'
  BY DeferInv DEF OnceInv, Defer
<1>7. Unique(stack, env', Append(fates, "pending"))
  BY <1>1, <1>3, <1>4, <1>5, GrowUnique
<1>8. QED
  BY <1>6, <1>7 DEF OnceInv

LEMMA BlockOnce == OnceInv /\ Block => OnceInv'
<1> SUFFICES ASSUME OnceInv, Block PROVE OnceInv'
  OBVIOUS
<1>1. /\ WellNested(stack, env) /\ stack # <<>> /\ env \in Envs /\ Top \in Frames
      /\ Unique(stack, env, fates)
  BY OnceTop DEF Block, InBody
<1>2. PICK form \in Forms, use \in Uses :
        MoveTo(OpenBlock(stack, Taken(use, env), form, Top.tail, use))
  BY DEF Block
<1>3. form \in Blocks /\ Top.tail \in BOOLEAN /\ use \in {"stmt", "ret", "rebind", "defer"}
  BY <1>1, TreeAssumption, UsesAre DEF Frames
<1> DEFINE x == Taken(use, env)
           m == OpenBlock(stack, x, form, Top.tail, use)
<1>4. WellNested(stack, x) /\ x.defers = env.defers
  BY <1>1, TakenIs, EnvChanges
<1>5. IInv' /\ fates' = fates /\ MoveTo(m)
  BY <1>2, BlockInv DEF OnceInv, Block
<1> HIDE DEF x
<1>6. Unique(stack, x, fates)
  BY <1>1, <1>4, EnvUnique
<1>7. Unique(m.stack, m.env, fates)
  BY <1>1, <1>3, <1>4, <1>6, OpenUnique
<1> HIDE DEF m
<1>8. Unique(m.stack, m.env, fates')
  BY <1>5, <1>7
<1>9. QED
  BY <1>5, <1>8, UniqueMove

\* The top frame and its environment keep their lists.
LEMMA RestartUnique ==
  ASSUME NEW s \in Seq(Frames), s # <<>>, NEW e, NEW g \in Frames,
         g.form = s[Len(s)].form, g.saved = s[Len(s)].saved
  PROVE  \A fs, x : Unique(s, e, fs) /\ g.todo = s[Len(s)].todo /\ x.defers = e.defers
                   => Unique(SetTop(s, g), x, fs)
<1> DEFINE t == SetTop(s, g)
<1>0. t = SetTop(s, g) /\ g.form = s[Len(s)].form /\ g.saved = s[Len(s)].saved
  OBVIOUS
<1> HIDE DEF t
<1>1. /\ Len(t) = Len(s) /\ Len(s) \in 1..Len(s)
      /\ Waits(t, e, Len(s), 1) = e.defers /\ Waits(t, e, Len(s), 2) = g.todo
      /\ Waits(s, e, Len(s), 1) = e.defers /\ Waits(s, e, Len(s), 2) = s[Len(s)].todo
      /\ \A i \in 1..Len(s), c \in {1, 2} : i # Len(s) => Waits(t, e, i, c) = Waits(s, e, i, c)
  BY <1>0, TopWaits
<1> TAKE fs, x
<1> HAVE Unique(s, e, fs) /\ g.todo = s[Len(s)].todo /\ x.defers = e.defers
<1>2. \A i \in 1..Len(t), c \in {1, 2} :
        \/ Waits(t, e, i, c) = <<>>
        \/ i \in 1..Len(s) /\ Waits(t, e, i, c) = Waits(s, e, i, c)
  BY <1>1
<1>3. Unique(t, e, fs)
  BY <1>2, CarriedUnique
<1>4. Unique(t, x, fs)
  BY <1>3, EnvUnique
<1>5. QED
  BY <1>4 DEF t

\* A tail call hands the defer stack on to the activation that takes the frame over.
LEMMA TrampolineOnce == OnceInv /\ Trampoline => OnceInv'
<1> SUFFICES ASSUME OnceInv, Trampoline PROVE OnceInv'
  OBVIOUS
<1>1. /\ WellNested(stack, env) /\ stack # <<>> /\ Top = stack[Len(stack)] /\ Top \in Frames
      /\ stack \in Seq(Frames) /\ env \in Envs /\ Unique(stack, env, fates)
  BY OnceTop DEF Trampoline
<1>2. IInv' /\ fates' = fates
  BY TrampolineInv DEF OnceInv, Trampoline
<1>3. CASE MoveTo(At(SetTop(stack, [Top EXCEPT !.phase = "run"]),
                     Fresh(calls + 1, env.depth, env.defers)))
  <2> DEFINE f == [Top EXCEPT !.phase = "run"]
             e2 == Fresh(calls + 1, env.depth, env.defers)
             t == SetTop(stack, f)
             m == At(t, e2)
  <2>1. /\ f \in Frames /\ f.form = stack[Len(stack)].form /\ f.saved = stack[Len(stack)].saved
        /\ f.todo = stack[Len(stack)].todo
    BY <1>1 DEF Frames
  <2>2. e2.defers = env.defers
    BY DEF Fresh
  <2>3. m.stack = t /\ m.env = e2 /\ MoveTo(m) /\ t = SetTop(stack, f)
    BY <1>3 DEF At
  <2> HIDE DEF f, e2, t, m
  <2>6. Unique(t, e2, fates)
    BY <1>1, <2>1, <2>2, <2>3, RestartUnique
  <2>7. Unique(m.stack, m.env, fates')
    BY <1>2, <2>3, <2>6
  <2>8. QED
    BY <1>2, <2>3, <2>7, UniqueMove
<1>4. CASE MoveTo(Finish(stack, env, Failed))
  <2>1. Running /\ Failed \in Results
    BY ResultTypes DEF Trampoline
  <2>2. QED
    BY <1>2, <1>4, <2>1, EndUnique
<1>5. QED
  BY <1>3, <1>4 DEF Trampoline

\* The entry is off its list before it is evaluated.
LEMMA DrainOnce == OnceInv /\ Drain => OnceInv'
<1> SUFFICES ASSUME OnceInv, Drain PROVE OnceInv'
  OBVIOUS
<1>1. /\ WellNested(stack, env) /\ stack # <<>> /\ Top = stack[Len(stack)] /\ Top \in Frames
      /\ stack \in Seq(Frames) /\ env \in Envs /\ Unique(stack, env, fates)
      /\ fates \in Seq({"pending", "ran", "skipped"})
      /\ Top.todo \in Seq(Entries) /\ Top.todo # <<>> /\ Len(stack) \in 1..Len(stack)
      /\ Top.phase = "drain"
  BY OnceTop, PopIs DEF Drain, Frames
<1> DEFINE f == [Top EXCEPT !.todo = Tail(@)]
<1>2. Tail(Top.todo) \in Seq(Entries)
  BY <1>1, HeadTailProperties
<1>3. /\ f \in Frames /\ f.form = Top.form /\ f.use = Top.use /\ f.saved = Top.saved
      /\ f.phase = "drain" /\ f.todo = Tail(Top.todo)
  BY <1>1, <1>2 DEF Frames
<1>4. Advanced = SetTop(stack, f)
  BY DEF Advanced
<1> HIDE DEF f
<1>5. \E w : fates' = [fates EXCEPT ![Head(Top.todo).id] = w]
  BY DEF Drain
<1>6. Unique(Advanced, env, fates')
  <2>1. Top = stack[Len(stack)] /\ f.form = Top.form /\ f.saved = Top.saved
    BY <1>1, <1>3
  <2>2. \A fs \in Seq({"pending", "ran", "skipped"}) : \A w :
          Unique(stack, env, fs) /\ Top.todo # <<>> /\ f.todo = Tail(Top.todo)
          => Unique(SetTop(stack, f), env, [fs EXCEPT ![Head(Top.todo).id] = w])
    BY <1>1, <1>3, <2>1, AdvanceUnique
  <2>3. PICK w : fates' = [fates EXCEPT ![Head(Top.todo).id] = w]
    BY <1>5
  <2>4. Unique(SetTop(stack, f), env, [fates EXCEPT ![Head(Top.todo).id] = w])
    BY <1>1, <1>3, <2>2
  <2>5. QED
    BY <1>4, <2>3, <2>4
<1>7. WellNested(Advanced, env) /\ Advanced # <<>>
  <2>1. f.form # "fn" => Extends(env.defers, f.saved.defers)
    BY <1>1, <1>3 DEF WellNested, DefersNest, EnvAt
  <2>2. WellNested(Advanced, env)
    BY <1>1, <1>3, <1>4, <2>1, TopChanges
  <2>3. Len(Advanced) = Len(stack)
    BY <1>1, <1>4 DEF SetTop
  <2>4. QED
    BY <1>1, <2>2, <2>3
<1>8. IInv'
  BY DrainInv DEF OnceInv
<1>9. CASE MoveTo(At(Advanced, env))
  BY <1>6, <1>8, <1>9, UniqueMove DEF At
<1>10. CASE MoveTo(EnterFn(Advanced, env, "defer", "none"))
  <2>1. LET m == EnterFn(Advanced, env, "defer", "none") IN Unique(m.stack, m.env, fates')
    BY <1>6, <1>7, EnterUnique
  <2>2. QED
    BY <1>8, <1>10, <2>1, UniqueMove
<1>11. CASE MoveTo(OpenBlock(Advanced, env, "arm", FALSE, "defer"))
  <2>1. "arm" \in Blocks
    BY DEF Blocks
  <2>2. LET m == OpenBlock(Advanced, env, "arm", FALSE, "defer") IN Unique(m.stack, m.env, fates')
    BY <1>6, <1>7, <2>1, OpenUnique
  <2>3. QED
    BY <1>8, <1>11, <2>2, UniqueMove
<1>12. QED
  BY <1>9, <1>10, <1>11 DEF Drain

LEMMA LeaveFnOnce == OnceInv /\ LeaveFn => OnceInv'
<1> SUFFICES ASSUME OnceInv, LeaveFn PROVE OnceInv'
  OBVIOUS
<1>1. /\ WellNested(stack, env) /\ stack # <<>> /\ Top = stack[Len(stack)] /\ Top \in Frames
      /\ Top.use \in {"start", "stmt", "ret", "rebind", "defer"} /\ Top.res \in Results
      /\ Top.unwrap \in {"none", "propagate", "panic"} /\ Unique(stack, env, fates)
      /\ stack \in Seq(Frames) /\ stack[Len(stack)].form = "fn"
  BY OnceTop, TopIs DEF LeaveFn, Leaving, Frames, OnceInv
<1> DEFINE r == Returned(Top.res)
           o == IF r = Failed THEN r ELSE Unwrapped(Top.unwrap, r.v)
           x == Top.saved
<1>2. o \in Outcomes
  BY <1>1, ReturnedType
<1>3. MoveTo(Deliver(Pop(stack), x, Top.use, o))
  BY DEF LeaveFn, Restored
<1>4. WellNested(Pop(stack), x) /\ x.defers = stack[Len(stack)].saved.defers
  BY <1>1, PopNests
<1> HIDE DEF o, x
<1>5. Pop(stack) = <<>> => Top.use = "start"
  <2>1. Len(Pop(stack)) = Len(stack) - 1 /\ Len(stack) \in Nat \ {0}
    BY <1>1, PopIs
  <2>2. Pop(stack) = <<>> => Len(stack) = 1
    BY <2>1
  <2>3. Len(stack) = 1 => Top.use = "start"
    BY <1>1 DEF WellNested, Grounded
  <2>4. QED
    BY <2>2, <2>3
<1>6. Unique(Pop(stack), x, fates)
  BY <1>1, <1>4, PopFnUnique
<1> DEFINE m == Deliver(Pop(stack), x, Top.use, o)
<1>7. Unique(m.stack, m.env, fates)
  BY <1>1, <1>2, <1>4, <1>5, <1>6, DeliverUnique
<1>8. IInv' /\ fates' = fates /\ MoveTo(m)
  BY <1>3, LeaveFnInv DEF OnceInv, LeaveFn
<1> HIDE DEF m
<1>9. Unique(m.stack, m.env, fates')
  BY <1>7, <1>8
<1>10. QED
  BY <1>8, <1>9, UniqueMove

\* The body around a block gets its defer stack back.
LEMMA BlockLeft ==
  ASSUME OnceInv, Leaving, Top.form # "fn"
  PROVE  LET s == Pop(stack)
             e == Unscoped(Top, env)
         IN  /\ WellNested(s, e) /\ s # <<>> /\ Unique(s, e, fates) /\ e.defers = env.defers
             /\ Top.res \in Results
<1>1. /\ stack # <<>> /\ Top = stack[Len(stack)] /\ stack \in Seq(Frames) /\ env \in Envs
      /\ Unique(stack, env, fates) /\ stack[Len(stack)].form # "fn"
  BY OnceTop DEF Leaving
<1> DEFINE e == Unscoped(Top, env)
<1>2. WellNested(Pop(stack), e) /\ Pop(stack) # <<>> /\ Top.res \in Results
  BY LeftBlock DEF OnceInv
<1>3. e.defers = env.defers
  BY <1>1, UnscopedIs
<1> HIDE DEF e
<1>4. Unique(Pop(stack), e, fates)
  BY <1>1, <1>3, PopBlockUnique
<1>5. QED
  BY <1>2, <1>3, <1>4 DEF e

LEMMA LeaveArmOnce == OnceInv /\ LeaveArm => OnceInv'
<1> SUFFICES ASSUME OnceInv, LeaveArm PROVE OnceInv'
  OBVIOUS
<1> DEFINE s == Pop(stack)
           u == Unscoped(Top, env)
           e2 == Ignored(Top, u)
           o == Returned(Top.res)
           m == Deliver(s, e2, Top.use, o)
<1>1. WellNested(s, u) /\ s # <<>> /\ Unique(s, u, fates) /\ Top.res \in Results
  BY BlockLeft DEF LeaveArm
<1>2. o \in Outcomes /\ Top.use \in {"start", "stmt", "ret", "rebind", "defer"}
  BY <1>1, ReturnedType, TopIs DEF LeaveArm, Leaving, OnceInv
<1>3. WellNested(s, e2) /\ e2.defers = u.defers
  <2>1. u \in Envs
    BY <1>1 DEF WellNested
  <2> HIDE DEF u, s
  <2>2. WellNested(s, e2)
    BY <1>1, EnvMarked DEF Ignored
  <2>3. QED
    BY <2>1, <2>2 DEF Ignored, Envs
<1>4. IInv' /\ fates' = fates /\ MoveTo(m)
  BY LeaveArmInv DEF OnceInv, LeaveArm
<1> HIDE DEF s, u, e2, o
<1>5. Unique(s, e2, fates)
  BY <1>1, <1>3, EnvUnique
<1>6. Unique(m.stack, m.env, fates)
  BY <1>1, <1>2, <1>3, <1>5, DeliverUnique
<1> HIDE DEF m
<1>7. Unique(m.stack, m.env, fates')
  BY <1>4, <1>6
<1>8. QED
  BY <1>4, <1>7, UniqueMove

LEMMA LeaveBlockOnce == OnceInv /\ LeaveBlock => OnceInv'
<1> SUFFICES ASSUME OnceInv, LeaveBlock PROVE OnceInv'
  OBVIOUS
<1> DEFINE s == Pop(stack)
           e == Unscoped(Top, env)
           r == Top.res
<1>1. WellNested(s, e) /\ s # <<>> /\ Unique(s, e, fates) /\ r \in Results
  BY BlockLeft DEF LeaveBlock
<1>2. IInv' /\ fates' = fates
  BY LeaveBlockInv DEF OnceInv, LeaveBlock
<1>3. Res("return", r.v) \in Results
  BY <1>1, ResultTypes DEF Results, Kinds
<1>4. \E q \in Results : MoveTo(At(s, e)) \/ MoveTo(Finish(s, e, q))
  BY <1>1, <1>3 DEF LeaveBlock
<1> HIDE DEF s, e, r
<1>5. CASE MoveTo(At(s, e))
  <2>1. Unique(At(s, e).stack, At(s, e).env, fates')
    BY <1>1, <1>2 DEF At
  <2>2. QED
    BY <1>2, <1>5, <2>1, UniqueMove
<1>6. ASSUME NEW q \in Results, MoveTo(Finish(s, e, q)) PROVE OnceInv'
  <2>1. LET m == Finish(s, e, q) IN Unique(m.stack, m.env, fates)
    BY <1>1, FinishUnique
  <2>2. LET m == Finish(s, e, q) IN Unique(m.stack, m.env, fates')
    BY <1>2, <2>1
  <2>3. QED
    BY <1>2, <1>6, <2>2, UniqueMove
<1>7. QED
  BY <1>4, <1>5, <1>6

LEMMA LeaveLoopOnce == OnceInv /\ LeaveLoop => OnceInv'
<1> SUFFICES ASSUME OnceInv, LeaveLoop PROVE OnceInv'
  OBVIOUS
<1> DEFINE s == Pop(stack)
           e == Unscoped(Top, env)
           r == Top.res
<1>1. /\ WellNested(s, e) /\ s # <<>> /\ Unique(s, e, fates) /\ r \in Results
      /\ Top.form \in Blocks
  BY BlockLeft DEF LeaveLoop, Loops, Blocks
<1>2. IInv' /\ fates' = fates
  BY LeaveLoopInv DEF OnceInv, LeaveLoop
<1>3. \/ MoveTo(Finish(s, e, r))
      \/ MoveTo(At(s, e))
      \/ MoveTo(OpenBlock(s, e, Top.form, FALSE, "stmt"))
  BY DEF LeaveLoop
<1> HIDE DEF s, e, r
<1>4. CASE MoveTo(At(s, e))
  <2>1. Unique(At(s, e).stack, At(s, e).env, fates')
    BY <1>1, <1>2 DEF At
  <2>2. QED
    BY <1>2, <1>4, <2>1, UniqueMove
<1>5. CASE MoveTo(Finish(s, e, r))
  <2>1. LET m == Finish(s, e, r) IN Unique(m.stack, m.env, fates)
    BY <1>1, FinishUnique
  <2>2. LET m == Finish(s, e, r) IN Unique(m.stack, m.env, fates')
    BY <1>2, <2>1
  <2>3. QED
    BY <1>2, <1>5, <2>2, UniqueMove
<1>6. CASE MoveTo(OpenBlock(s, e, Top.form, FALSE, "stmt"))
  <2>1. LET m == OpenBlock(s, e, Top.form, FALSE, "stmt") IN Unique(m.stack, m.env, fates)
    BY <1>1, OpenUnique
  <2>2. LET m == OpenBlock(s, e, Top.form, FALSE, "stmt") IN Unique(m.stack, m.env, fates')
    BY <1>2, <2>1
  <2>3. QED
    BY <1>2, <1>6, <2>2, UniqueMove
<1>7. QED
  BY <1>3, <1>4, <1>5, <1>6

LEMMA TailCallEscapesOnce == OnceInv /\ TailCallEscapes => OnceInv'
BY TailCallEscapesInv DEF OnceInv, TailCallEscapes

-----------------------------------------------------------------------------
THEOREM Once == Spec => []OnceInv
<1>1. OnceInv /\ UNCHANGED vars => OnceInv'
  BY DEF OnceInv, IInv, Bookkeeping, vars
<1>2. OnceInv /\ Next => OnceInv'
  BY CallOnce, FailOnce, PropagateOnce, RetOnce, TailCallOnce, BreakOrContinueOnce,
     BodyEndOnce, DeferOnce, BlockOnce, TrampolineOnce, DrainOnce, LeaveFnOnce,
     LeaveArmOnce, LeaveBlockOnce, LeaveLoopOnce, TailCallEscapesOnce DEF Next
<1>3. QED
  BY <1>1, <1>2, InitOnce, PTL DEF Spec

\* Where an entry waits, in the two ways of saying it.
LEMMA PlaceOfEntry ==
  ASSUME NEW id, NEW w \in Places(id), stack \in Seq(Frames), env \in Envs,
         EnvAt(stack, env, 0).defers = <<>>
  PROVE  \E i, c, k : /\ Has(stack, env, i, c, k, id)
                      /\ w = IF c = 2 THEN <<i, 2, k>>
                             ELSE IF i = Len(stack) THEN <<0, 0, k>> ELSE <<i + 1, 1, k>>
<1> DEFINE n == Len(stack)
<1>1. n \in Nat /\ DOMAIN stack = 1..n
  OBVIOUS
<1>2. \A i \in 1..n : stack[i].todo \in Seq(Entries) /\ stack[i].saved.defers \in Seq(Entries)
  <2> SUFFICES ASSUME NEW i \in 1..n
               PROVE  stack[i].todo \in Seq(Entries) /\ stack[i].saved.defers \in Seq(Entries)
    OBVIOUS
  <2>1. stack[i] \in Frames
    OBVIOUS
  <2>2. stack[i].todo \in Seq(Entries) /\ stack[i].saved \in Envs
    BY <2>1 DEF Frames
  <2>3. QED
    BY <2>2, EnvParts
<1>3. env.defers \in Seq(Entries)
  BY EnvParts
<1>4. CASE \E k \in DOMAIN env.defers : env.defers[k].id = id /\ w = <<0, 0, k>>
  <2>1. PICK k \in 1..Len(env.defers) : env.defers[k].id = id /\ w = <<0, 0, k>>
    BY <1>3, <1>4
  <2>2. stack # <<>>
    BY <2>1 DEF EnvAt
  <2>3. n \in 1..n /\ Waits(stack, env, n, 1) = env.defers
    BY <1>1, <2>2 DEF Waits, EnvAt
  <2>4. Has(stack, env, n, 1, k, id)
    BY <2>1, <2>3 DEF Has
  <2>5. QED
    BY <2>1, <2>4
<1>5. CASE \E i \in DOMAIN stack : \E k \in DOMAIN stack[i].saved.defers :
           /\ stack[i].form = "fn"
           /\ stack[i].saved.defers[k].id = id /\ w = <<i, 1, k>>
  <2>0. PICK i \in 1..n : \E k \in DOMAIN stack[i].saved.defers :
          /\ stack[i].form = "fn"
          /\ stack[i].saved.defers[k].id = id /\ w = <<i, 1, k>>
    BY <1>1, <1>5
  <2>1. PICK k \in DOMAIN stack[i].saved.defers :
          /\ stack[i].form = "fn"
          /\ stack[i].saved.defers[k].id = id /\ w = <<i, 1, k>>
    BY <2>0
  <2>2. k \in 1..Len(stack[i].saved.defers)
    BY <1>2, <2>1
  <2>3. PICK j \in 0..(n - 1) : i = j + 1 /\ j # n
    <3>1. i - 1 \in 0..(n - 1) /\ i = (i - 1) + 1 /\ i - 1 # n
      BY <1>1
    <3>2. QED
      BY <3>1
  <2>4. EnvAt(stack, env, j) = stack[i].saved
    BY <2>3 DEF EnvAt
  <2>5. j # 0
    BY <2>2, <2>4
  <2>6. j \in 1..n /\ Waits(stack, env, j, 1) = stack[i].saved.defers
    <3>0. j \in 1..n
      BY <1>1, <2>3, <2>5
    <3>1. stack[j + 1].form = "fn"
      BY <2>1, <2>3
    <3>2. QED
      BY <2>4, <3>0, <3>1 DEF Waits
  <2>7. Has(stack, env, j, 1, k, id)
    BY <2>1, <2>2, <2>6 DEF Has
  <2>8. QED
    BY <2>1, <2>3, <2>7
<1>6. CASE \E i \in DOMAIN stack : \E k \in DOMAIN stack[i].todo :
           stack[i].todo[k].id = id /\ w = <<i, 2, k>>
  <2>0. PICK i \in 1..n : \E k \in DOMAIN stack[i].todo :
          stack[i].todo[k].id = id /\ w = <<i, 2, k>>
    BY <1>1, <1>6
  <2>1. PICK k \in DOMAIN stack[i].todo : stack[i].todo[k].id = id /\ w = <<i, 2, k>>
    BY <2>0
  <2>2. Has(stack, env, i, 2, k, id)
    BY <1>2, <2>1 DEF Has, Waits
  <2>3. QED
    BY <2>1, <2>2
<1>7. \/ \E k \in DOMAIN env.defers : env.defers[k].id = id /\ w = <<0, 0, k>>
      \/ \E i \in DOMAIN stack : \E k \in DOMAIN stack[i].saved.defers :
           /\ stack[i].form = "fn"
           /\ stack[i].saved.defers[k].id = id /\ w = <<i, 1, k>>
      \/ \E i \in DOMAIN stack : \E k \in DOMAIN stack[i].todo :
           stack[i].todo[k].id = id /\ w = <<i, 2, k>>
  <2> DEFINE A == {<<0, 0, k>> : k \in {k \in DOMAIN env.defers : env.defers[k].id = id}}
             B == UNION {{<<i, 1, k>> : k \in {k \in DOMAIN stack[i].saved.defers :
                                             stack[i].saved.defers[k].id = id}} :
                         i \in {i \in DOMAIN stack : stack[i].form = "fn"}}
             C == UNION {{<<i, 2, k>> : k \in {k \in DOMAIN stack[i].todo : stack[i].todo[k].id = id}} :
                         i \in DOMAIN stack}
  <2>1. Places(id) = A \cup B \cup C
    BY DEF Places
  <2>2. CASE w \in A
    BY <2>2
  <2>3. CASE w \in B
    <3>1. PICK i \in {i \in DOMAIN stack : stack[i].form = "fn"} :
            w \in {<<i, 1, k>> : k \in {k \in DOMAIN stack[i].saved.defers :
                                        stack[i].saved.defers[k].id = id}}
      BY <2>3
    <3>2. QED
      BY <3>1
  <2>4. CASE w \in C
    <3>1. PICK i \in DOMAIN stack :
            w \in {<<i, 2, k>> : k \in {k \in DOMAIN stack[i].todo : stack[i].todo[k].id = id}}
      BY <2>4
    <3>2. QED
      BY <3>1
  <2> HIDE DEF A, B, C
  <2>5. QED
    BY <2>1, <2>2, <2>3, <2>4
<1>8. QED
  BY <1>4, <1>5, <1>6, <1>7

(***************************************************************************)
(* A deferred expression runs at most once: its entry is on one list until *)
(* a drain takes it off, and on none from then on.                         *)
(***************************************************************************)
THEOREM RunOnce == Spec => []DefersPendingOnce
<1>1. ASSUME OnceInv, SoundInv PROVE DefersPendingOnce
  <2>1. stack \in Seq(Frames) /\ env \in Envs /\ EnvAt(stack, env, 0).defers = <<>>
    BY <1>1 DEF SoundInv, IInv, WellNested, Sound, Open
  <2>2. Distinct(stack, env) /\ AllPending(stack, env, fates)
    BY <1>1 DEF OnceInv, Unique
  <2> SUFFICES ASSUME NEW id \in DOMAIN fates
               PROVE  Cardinality(Places(id)) <= IF fates[id] = "pending" THEN 1 ELSE 0
    BY DEF DefersPendingOnce
  <2> DEFINE P == Places(id)
  <2>3. \A v, w \in P : v = w
    BY <2>1, <2>2, PlaceOfEntry DEF Distinct
  <2>4. P # {} => fates[id] = "pending"
    BY <2>1, <2>2, PlaceOfEntry DEF AllPending
  <2> HIDE DEF P
  <2>5. CASE P = {}
    <3>1. Cardinality(P) = 0
      BY <2>5, FS_EmptySet
    <3>2. QED
      BY <3>1 DEF P
  <2>6. CASE P # {}
    <3>1. PICK w \in P : TRUE
      BY <2>6
    <3>2. P = {w}
      BY <2>3, <3>1
    <3>3. Cardinality(P) = 1
      BY <3>2, FS_Singleton
    <3>4. QED
      BY <2>4, <2>6, <3>3 DEF P
  <2>7. QED
    BY <2>5, <2>6
<1>2. QED
  BY <1>1, Once, Soundness, PTL

-----------------------------------------------------------------------------
(***************************************************************************)
(* The interpreter implements module Cleanup.  What a step does to the     *)
(* lists of pending cleanups is said by one lemma per helper, as in the    *)
(* sections before.                                                        *)
(***************************************************************************)
\* What the number of activations depends on.
LEMMA CountSame ==
  ASSUME NEW s, NEW t, NEW i \in Nat, \A j \in 1..i : t[j].form = s[j].form
  PROVE  Activations(t, i) = Activations(s, i)
<1>1. {j \in 1..i : t[j].form = "fn"} = {j \in 1..i : s[j].form = "fn"}
  OBVIOUS
<1>2. QED
  BY <1>1 DEF Activations

\* One more frame is one more activation, or belongs to the one below.
LEMMA CountIs ==
  ASSUME NEW s, NEW i \in Nat
  PROVE  /\ Activations(s, i) \in 0..i
         /\ Activations(s, 0) = 0
         /\ Activations(s, i + 1) = IF s[i + 1].form = "fn" THEN Activations(s, i) + 1
                                    ELSE Activations(s, i)
<1> DEFINE F(n) == {j \in 1..n : s[j].form = "fn"}
<1>1. IsFiniteSet(1..i) /\ Cardinality(1..i) = i
  BY FS_Interval
<1>2. F(i) \subseteq 1..i
  OBVIOUS
<1>3. IsFiniteSet(F(i)) /\ Cardinality(F(i)) <= i
  <2> HIDE DEF F
  <2> QED
    BY <1>1, <1>2, FS_Subset
<1>4. Cardinality(F(i)) \in Nat
  <2> HIDE DEF F
  <2> QED
    BY <1>3, FS_CardinalityType
<1>5. F(0) = {}
  OBVIOUS
<1>6. F(i + 1) = IF s[i + 1].form = "fn" THEN F(i) \cup {i + 1} ELSE F(i)
  <2>1. \A j : j \in 1..(i + 1) <=> j \in 1..i \/ j = i + 1
    OBVIOUS
  <2>2. \A j : j \in F(i + 1) <=> (j \in 1..i \/ j = i + 1) /\ s[j].form = "fn"
    BY <2>1
  <2>3. QED
    BY <2>2
<1>7. i + 1 \notin F(i)
  OBVIOUS
<1> HIDE DEF F
<1>8. Cardinality(F(i) \cup {i + 1}) = Cardinality(F(i)) + 1
  BY <1>3, <1>7, FS_AddElement
<1>9. Cardinality(F(0)) = 0
  BY <1>5, FS_EmptySet
<1>10. Activations(s, i) = Cardinality(F(i)) /\ Activations(s, 0) = Cardinality(F(0))
       /\ Activations(s, i + 1) = Cardinality(F(i + 1))
  BY DEF Activations, F
<1>11. QED
  BY <1>3, <1>4, <1>6, <1>8, <1>9, <1>10

\* Frames further in belong to as many activations or more.
LEMMA CountGrows ==
  ASSUME NEW s, NEW i \in Nat, NEW j \in Nat, i <= j
  PROVE  Activations(s, i) <= Activations(s, j)
<1> DEFINE F(n) == {k \in 1..n : s[k].form = "fn"}
<1>1. IsFiniteSet(1..j)
  BY FS_Interval
<1>2. F(i) \subseteq F(j) /\ F(j) \subseteq 1..j
  OBVIOUS
<1> HIDE DEF F
<1>3. IsFiniteSet(F(j))
  BY <1>1, <1>2, FS_Subset
<1>4. Cardinality(F(i)) <= Cardinality(F(j))
  BY <1>2, <1>3, FS_Subset
<1>5. QED
  BY <1>4 DEF Activations, F

\* An activation has one innermost frame.
LEMMA OneInnermost ==
  ASSUME NEW s, Len(s) \in Nat, NEW i \in 1..Len(s), NEW j \in 1..Len(s),
         Innermost(s, i), Innermost(s, j), Activations(s, i) = Activations(s, j)
  PROVE  i = j
<1>1. ASSUME NEW k \in 1..Len(s), NEW l \in 1..Len(s), Innermost(s, k), k < l
      PROVE  Activations(s, k) # Activations(s, l)
  <2>1. s[k + 1].form = "fn" /\ k \in Nat /\ k + 1 \in Nat /\ l \in Nat /\ k + 1 <= l
    BY <1>1 DEF Innermost
  <2>2. Activations(s, k + 1) = Activations(s, k) + 1 /\ Activations(s, k) \in 0..k
    BY <2>1, CountIs
  <2>3. Activations(s, k + 1) <= Activations(s, l) /\ Activations(s, l) \in 0..l
    BY <2>1, CountIs, CountGrows
  <2>4. QED
    BY <2>1, <2>2, <2>3
<1>2. i < j \/ j < i \/ i = j
  OBVIOUS
<1>3. QED
  BY <1>1, <1>2

\* Every activation has an innermost frame.
Covered(s) ==
  \A k \in 1..Activations(s, Len(s)) :
    \E i \in 1..Len(s) : Innermost(s, i) /\ Activations(s, i) = k

\* The lists, activation by activation.
LEMMA ListsAre ==
  ASSUME NEW s, NEW e, Len(s) \in Nat, Covered(s), Len(s) > 0 => s[1].form = "fn"
  PROVE  /\ DOMAIN PendingLists(s, e) = 1..Activations(s, Len(s))
         /\ \A k \in 1..Activations(s, Len(s)) : \E i \in 1..Len(s) :
              /\ Innermost(s, i) /\ Activations(s, i) = k
              /\ PendingLists(s, e)[k] = PendingOf(s, e, i)
         /\ \A i \in 1..Len(s) :
              /\ Activations(s, i) \in 1..Activations(s, Len(s))
              /\ Innermost(s, i) => PendingLists(s, e)[Activations(s, i)] = PendingOf(s, e, i)
<1>1. DOMAIN PendingLists(s, e) = 1..Activations(s, Len(s))
  BY DEF PendingLists
<1>2. ASSUME NEW k \in 1..Activations(s, Len(s))
      PROVE  /\ LastFrame(s, k) \in 1..Len(s) /\ Innermost(s, LastFrame(s, k))
             /\ Activations(s, LastFrame(s, k)) = k
             /\ PendingLists(s, e)[k] = PendingOf(s, e, LastFrame(s, k))
  <2>1. \E i \in 1..Len(s) : Innermost(s, i) /\ Activations(s, i) = k
    BY DEF Covered
  <2>2. LastFrame(s, k) \in 1..Len(s) /\ Innermost(s, LastFrame(s, k))
        /\ Activations(s, LastFrame(s, k)) = k
    BY <2>1 DEF LastFrame
  <2>3. PendingLists(s, e)[k] = PendingOf(s, e, LastFrame(s, k))
    BY DEF PendingLists
  <2>4. QED
    BY <2>2, <2>3
<1>3. ASSUME NEW i \in 1..Len(s)
      PROVE  /\ Activations(s, i) \in 1..Activations(s, Len(s))
             /\ Innermost(s, i) => PendingLists(s, e)[Activations(s, i)] = PendingOf(s, e, i)
  <2>1. i \in Nat /\ Len(s) \in Nat /\ 1 <= i /\ i <= Len(s) /\ 0 \in Nat /\ 1 \in Nat /\ 0 + 1 = 1
    OBVIOUS
  <2>2. Activations(s, 1) = 1
    <3>1. Activations(s, 0) = 0
      BY <2>1, CountIs
    <3>2. Activations(s, 0 + 1) = IF s[0 + 1].form = "fn" THEN Activations(s, 0) + 1 ELSE Activations(s, 0)
      BY <2>1, CountIs
    <3>3. s[1].form = "fn"
      BY <2>1
    <3>4. QED
      BY <2>1, <3>1, <3>2, <3>3
  <2>3. Activations(s, 1) <= Activations(s, i) /\ Activations(s, i) <= Activations(s, Len(s))
    BY <2>1, CountGrows
  <2>4. Activations(s, i) \in 0..i /\ Activations(s, Len(s)) \in 0..Len(s)
    BY <2>1, CountIs
  <2>5. Activations(s, i) \in 1..Activations(s, Len(s))
    BY <2>1, <2>2, <2>3, <2>4
  <2>6. Innermost(s, i) => LastFrame(s, Activations(s, i)) = i
    BY <1>2, <2>5, OneInnermost
  <2>7. QED
    BY <1>2, <2>5, <2>6
<1>4. QED
  BY <1>1, <1>2, <1>3

Pendings == [id : Nat \ {0}, kind : {"Always", "OnError"}]

\* The list of one activation.
LEMMA PendingType ==
  ASSUME NEW s, NEW e, WellNested(s, e), NEW i \in 1..Len(s)
  PROVE  LET d == EnvAt(s, e, i).defers
         IN  /\ PendingOf(s, e, i) \in Seq(Pendings)
             /\ d \in Seq(Entries) /\ s[i].todo \in Seq(Entries)
             /\ Len(PendingOf(s, e, i)) = Len(d) + Len(s[i].todo)
<1> DEFINE d == EnvAt(s, e, i).defers
           w == d \o Reversed(s[i].todo)
<1>1. s \in Seq(Frames) /\ e \in Envs /\ Len(s) \in Nat
  BY DEF WellNested
<1>2. EnvAt(s, e, i) \in Envs
  <2>1. i # Len(s) => i + 1 \in 1..Len(s)
    BY <1>1
  <2>2. i # Len(s) => s[i + 1] \in Frames
    BY <1>1, <2>1
  <2>3. QED
    BY <1>1, <2>2 DEF EnvAt, Frames
<1>3. d \in Seq(Entries)
  BY <1>2, EnvParts
<1>4. s[i].todo \in Seq(Entries)
  <2>1. s[i] \in Frames
    BY <1>1
  <2>2. QED
    BY <2>1 DEF Frames
<1>5. Reversed(s[i].todo) \in Seq(Entries) /\ Len(Reversed(s[i].todo)) = Len(s[i].todo)
  <2>1. Reversed(s[i].todo) \in Seq(Entries)
    BY <1>4, ReversedType
  <2>2. Len(s[i].todo) \in Nat
    BY <1>4
  <2>3. Len(Reversed(s[i].todo)) = Len(s[i].todo)
    BY <2>2 DEF Reversed
  <2>4. QED
    BY <2>1, <2>3
<1> HIDE DEF d
<1>6. w \in Seq(Entries) /\ Len(w) = Len(d) + Len(s[i].todo)
  BY <1>3, <1>5
<1>7. PendingOf(s, e, i) = [j \in 1..Len(w) |-> [id |-> w[j].id, kind |-> w[j].kind]]
  BY DEF PendingOf, d
<1> HIDE DEF w
<1>8. \A j \in 1..Len(w) : [id |-> w[j].id, kind |-> w[j].kind] \in Pendings
  <2> TAKE j \in 1..Len(w)
  <2>1. w[j] \in Entries
    BY <1>6
  <2>2. QED
    BY <2>1 DEF Entries, Pendings
<1>9. Len(w) \in Nat
  BY <1>6
<1>10. PendingOf(s, e, i) \in Seq(Pendings) /\ Len(PendingOf(s, e, i)) = Len(w)
  BY <1>7, <1>8, <1>9
<1>11. QED
  BY <1>3, <1>4, <1>6, <1>10 DEF d

Listed(s, e) == WellNested(s, e) /\ Covered(s)

\* The lists, activation by activation.
LEMMA ListsType ==
  ASSUME NEW s, NEW e, Listed(s, e)
  PROVE  /\ PendingLists(s, e) \in Seq(Seq(Pendings))
         /\ Len(PendingLists(s, e)) = Activations(s, Len(s))
         /\ Len(s) \in Nat
         /\ \A k \in 1..Activations(s, Len(s)) : \E i \in 1..Len(s) :
              /\ Innermost(s, i) /\ Activations(s, i) = k
              /\ PendingLists(s, e)[k] = PendingOf(s, e, i)
         /\ \A i \in 1..Len(s) :
              /\ Activations(s, i) \in 1..Activations(s, Len(s))
              /\ Innermost(s, i) => PendingLists(s, e)[Activations(s, i)] = PendingOf(s, e, i)
<1> DEFINE a == PendingLists(s, e)
           m == Activations(s, Len(s))
<1>1. Len(s) \in Nat /\ Covered(s) /\ (Len(s) > 0 => s[1].form = "fn") /\ m \in Nat
  <2>1. Len(s) \in Nat /\ Covered(s) /\ (Len(s) > 0 => s[1].form = "fn")
    BY DEF Listed, WellNested, Grounded
  <2>2. QED
    BY <2>1, CountIs
<1>2. /\ DOMAIN a = 1..m
      /\ \A k \in 1..m : \E i \in 1..Len(s) :
           Innermost(s, i) /\ Activations(s, i) = k /\ a[k] = PendingOf(s, e, i)
      /\ \A i \in 1..Len(s) :
           /\ Activations(s, i) \in 1..m
           /\ Innermost(s, i) => a[Activations(s, i)] = PendingOf(s, e, i)
  BY <1>1, ListsAre
<1>3. ASSUME NEW k \in 1..m PROVE a[k] \in Seq(Pendings)
  <2>1. PICK i \in 1..Len(s) : a[k] = PendingOf(s, e, i)
    BY <1>2
  <2>2. PendingOf(s, e, i) \in Seq(Pendings)
    BY PendingType DEF Listed
  <2>3. QED
    BY <2>1, <2>2
<1>4. a = [k \in 1..m |-> a[k]]
  BY DEF PendingLists
<1> HIDE DEF a, m
<1>5. a \in Seq(Seq(Pendings)) /\ Len(a) = m
  BY <1>1, <1>3, <1>4
<1>6. QED
  BY <1>1, <1>2, <1>5 DEF a, m

\* What the lists are is decided frame by frame.
LEMMA ListsAgree ==
  ASSUME NEW s, NEW e, Listed(s, e), NEW a \in Seq(Seq(Pendings)),
         Len(a) = Activations(s, Len(s)),
         \A i \in 1..Len(s) : Innermost(s, i) => a[Activations(s, i)] = PendingOf(s, e, i)
  PROVE  PendingLists(s, e) = a
<1>1. ASSUME NEW k \in 1..Activations(s, Len(s)) PROVE PendingLists(s, e)[k] = a[k]
  <2>1. PICK i \in 1..Len(s) : /\ Innermost(s, i) /\ Activations(s, i) = k
                              /\ PendingLists(s, e)[k] = PendingOf(s, e, i)
    BY ListsType
  <2>2. QED
    BY <2>1
<1>2. PendingLists(s, e) \in Seq(Seq(Pendings)) /\ Len(PendingLists(s, e)) = Activations(s, Len(s))
  BY ListsType
<1>3. QED
  BY <1>1, <1>2

\* What a change leaves of an activation: its number, and which frame is its
\* innermost.
LEMMA FormsSame ==
  ASSUME NEW s, NEW t, NEW n \in Nat, n <= Len(s), n <= Len(t), Len(s) \in Nat, Len(t) \in Nat,
         \A i \in 1..n : t[i].form = s[i].form
  PROVE  /\ \A i \in 1..n : Activations(t, i) = Activations(s, i)
         /\ \A i \in 1..n : i # n => (Innermost(t, i) <=> Innermost(s, i))
<1>1. ASSUME NEW i \in 1..n PROVE Activations(t, i) = Activations(s, i)
  <2>1. i \in Nat /\ \A j \in 1..i : j \in 1..n
    OBVIOUS
  <2>2. QED
    BY <2>1, CountSame
<1>2. ASSUME NEW i \in 1..n, i # n PROVE Innermost(t, i) <=> Innermost(s, i)
  <2>1. i + 1 \in 1..n /\ i # Len(s) /\ i # Len(t)
    BY <1>2
  <2>2. QED
    BY <2>1 DEF Innermost
<1>3. QED
  BY <1>1, <1>2

\* The top frame and its environment change.
LEMMA TopLists ==
  ASSUME NEW s, s # <<>>, NEW e, Listed(s, e), NEW x, NEW g \in Frames,
         g.form = s[Len(s)].form, g.saved = s[Len(s)].saved, NEW t, t = SetTop(s, g),
         WellNested(t, x)
  PROVE  /\ Listed(t, x)
         /\ Len(PendingLists(s, e)) \in Nat \ {0}
         /\ Len(t) = Len(s)
         /\ PendingLists(s, e)[Len(PendingLists(s, e))] = PendingOf(s, e, Len(s))
         /\ PendingLists(t, x) =
              [PendingLists(s, e) EXCEPT ![Len(PendingLists(s, e))] = PendingOf(t, x, Len(s))]
<1> DEFINE n == Len(s)
           m == Activations(s, n)
           a == PendingLists(s, e)
           p == PendingOf(t, x, n)
           b == [a EXCEPT ![m] = p]
<1>1. s \in Seq(Frames) /\ n \in Nat /\ n # 0 /\ n \in 1..n
  BY DEF Listed, WellNested
<1>2. /\ Len(t) = n /\ t[n] = g
      /\ \A i \in 1..n : i # n => t[i] = s[i]
  BY <1>1 DEF SetTop
<1>3. \A i \in 1..n : t[i].form = s[i].form /\ t[i].saved = s[i].saved
  BY <1>1, <1>2
<1>4. \A i \in 1..n : Activations(t, i) = Activations(s, i) /\ (Innermost(t, i) <=> Innermost(s, i))
  <2>1. Innermost(t, n) /\ Innermost(s, n)
    BY <1>2 DEF Innermost
  <2>2. QED
    BY <1>1, <1>2, <1>3, <2>1, FormsSame
<1>5. Activations(t, Len(t)) = m /\ Activations(t, n) = m
  BY <1>1, <1>2, <1>4
<1>6. Listed(t, x)
  BY <1>2, <1>4, <1>5 DEF Covered, Listed
<1>7. /\ a \in Seq(Seq(Pendings)) /\ Len(a) = m
      /\ a[m] = PendingOf(s, e, n)
      /\ \A i \in 1..n : Innermost(s, i) => a[Activations(s, i)] = PendingOf(s, e, i)
      /\ \A i \in 1..n : Activations(s, i) \in 1..m
      /\ m \in 1..m /\ m \in Nat \ {0}
  <2>1. /\ \A i \in 1..n : Activations(s, i) \in 1..m
        /\ \A i \in 1..n : Innermost(s, i) => a[Activations(s, i)] = PendingOf(s, e, i)
        /\ a \in Seq(Seq(Pendings)) /\ Len(a) = m
    BY ListsType
  <2>2. Innermost(s, n) /\ m \in 1..m
    BY <1>1, <2>1 DEF Innermost
  <2>3. a[m] = PendingOf(s, e, n)
    BY <1>1, <2>1, <2>2
  <2> HIDE DEF a, m, n
  <2>4. m \in Nat \ {0}
    BY <2>1, <2>2
  <2>5. QED
    BY <2>1, <2>2, <2>3, <2>4
<1>8. p \in Seq(Pendings)
  BY <1>1, <1>2, PendingType
<1> HIDE DEF a, p
<1>9. \A i \in 1..n : i # n => EnvAt(t, x, i) = EnvAt(s, e, i)
  <2> SUFFICES ASSUME NEW i \in 1..n, i # n PROVE EnvAt(t, x, i) = EnvAt(s, e, i)
    OBVIOUS
  <2>1. i + 1 \in 1..n
    BY <1>1
  <2>2. QED
    BY <1>2, <1>3, <2>1 DEF EnvAt
<1>10. ASSUME NEW i \in 1..n, Innermost(t, i)
       PROVE  b[Activations(t, i)] = PendingOf(t, x, i)
  <2>1. CASE i = n
    BY <1>5, <1>7, <2>1 DEF p
  <2>2. CASE i # n
    <3>1. Activations(s, i) # m
      <4>1. Innermost(s, n) /\ Innermost(s, i)
        BY <1>4, <1>10 DEF Innermost
      <4>2. QED
        BY <1>1, <2>2, <4>1, OneInnermost
    <3>2. PendingOf(t, x, i) = PendingOf(s, e, i)
      BY <1>2, <1>9, <2>2 DEF PendingOf
    <3>3. b[Activations(t, i)] = a[Activations(s, i)]
      BY <1>4, <1>7, <3>1
    <3>4. QED
      BY <1>4, <1>7, <1>10, <3>2, <3>3
  <2>3. QED
    BY <2>1, <2>2
<1>11. b \in Seq(Seq(Pendings)) /\ Len(b) = m
  <2> HIDE DEF m
  <2> QED
    BY <1>7, <1>8
<1> HIDE DEF b
<1>12. PendingLists(t, x) = b
  BY <1>2, <1>5, <1>6, <1>10, <1>11, ListsAgree
<1>13. QED
  BY <1>2, <1>6, <1>7, <1>12 DEF a, b, p

\* Only the defer stack of the environment matters.
LEMMA EnvLists ==
  ASSUME NEW s, NEW e, NEW x, x.defers = e.defers
  PROVE  PendingLists(s, x) = PendingLists(s, e)
<1>1. \A i : PendingOf(s, x, i) = PendingOf(s, e, i)
  BY DEF PendingOf, EnvAt
<1>2. QED
  BY <1>1 DEF PendingLists

\* The stack t with environment x is s with f pushed.
Pushed(s, e, f, t, x) ==
  /\ Len(s) \in 1..Len(s) /\ Len(t) = Len(s) + 1 /\ t[Len(s) + 1] = f
  /\ \A i \in 1..Len(s) : /\ t[i] = s[i] /\ Activations(t, i) = Activations(s, i)
                          /\ i # Len(s) => /\ Innermost(t, i) <=> Innermost(s, i)
                                           /\ EnvAt(t, x, i) = EnvAt(s, e, i)
  /\ Innermost(s, Len(s)) /\ Innermost(t, Len(s) + 1)
  /\ Innermost(t, Len(s)) <=> f.form = "fn"
  /\ EnvAt(t, x, Len(s)) = f.saved /\ EnvAt(t, x, Len(s) + 1) = x /\ EnvAt(s, e, Len(s)) = e
  /\ Activations(t, Len(s) + 1) =
       IF f.form = "fn" THEN Activations(s, Len(s)) + 1 ELSE Activations(s, Len(s))
  /\ Activations(s, Len(s)) \in Nat

\* A frame is pushed.
LEMMA PushCovered ==
  ASSUME NEW s, s # <<>>, NEW e, Listed(s, e), NEW f, NEW x, NEW t,
         Len(t) = Len(s) + 1, t[Len(s) + 1] = f, \A i \in 1..Len(s) : t[i] = s[i],
         WellNested(t, x)
  PROVE  Listed(t, x) /\ Pushed(s, e, f, t, x)
<1> DEFINE n == Len(s)
<1>1. s \in Seq(Frames) /\ n \in Nat /\ n # 0 /\ n \in 1..n /\ n + 1 # n
  BY DEF Listed, WellNested
<1>2. Len(t) = n + 1 /\ t[n + 1] = f /\ \A i \in 1..n : t[i] = s[i]
  OBVIOUS
<1>2a. Len(s) = n /\ n <= Len(s) /\ n <= Len(t) /\ Len(t) \in Nat
  BY <1>1, <1>2
<1>3. /\ \A i \in 1..n : Activations(t, i) = Activations(s, i)
      /\ \A i \in 1..n : i # n => (Innermost(t, i) <=> Innermost(s, i))
  <2>1. \A i \in 1..Len(s) : t[i].form = s[i].form
    BY <1>2
  <2>2. Len(s) \in Nat /\ Len(s) <= Len(s) /\ Len(s) <= Len(t) /\ Len(t) \in Nat
    BY <1>1, <1>2a
  <2>3. QED
    BY <2>1, <2>2, FormsSame
<1> HIDE DEF n
<1>4. ASSUME NEW i \in 1..n, i # n PROVE EnvAt(t, x, i) = EnvAt(s, e, i)
  <2>1. i + 1 \in 1..n /\ i # n + 1
    BY <1>1, <1>4
  <2>2. QED
    BY <1>2, <1>4, <2>1 DEF EnvAt, n
<1>5. /\ Innermost(s, n) /\ Innermost(t, n + 1)
      /\ Innermost(t, n) <=> f.form = "fn"
      /\ EnvAt(t, x, n) = f.saved /\ EnvAt(t, x, n + 1) = x /\ EnvAt(s, e, n) = e
  BY <1>1, <1>2 DEF Innermost, EnvAt, n
<1>6. /\ Activations(t, n + 1) =
           IF f.form = "fn" THEN Activations(s, n) + 1 ELSE Activations(s, n)
      /\ Activations(s, n) \in Nat
  <2>1. /\ Activations(t, n + 1) =
             IF t[n + 1].form = "fn" THEN Activations(t, n) + 1 ELSE Activations(t, n)
        /\ Activations(s, n) \in 0..n
    BY <1>1, CountIs
  <2>2. QED
    BY <1>1, <1>2, <1>3, <2>1
<1>7. Covered(t)
  <2> SUFFICES ASSUME NEW k \in 1..Activations(t, Len(t))
               PROVE  \E i \in 1..Len(t) : Innermost(t, i) /\ Activations(t, i) = k
    BY DEF Covered
  <2>1. n + 1 \in 1..Len(t) /\ \A i \in 1..n : i \in 1..Len(t)
    BY <1>1, <1>2
  <2>2. CASE k = Activations(t, n + 1)
    BY <1>5, <2>1, <2>2
  <2>3. CASE k # Activations(t, n + 1)
    <3>1. k \in 1..Activations(s, n)
      BY <1>2, <1>6, <2>3
    <3>2. PICK i \in 1..n : Innermost(s, i) /\ Activations(s, i) = k
      BY <3>1 DEF Listed, Covered, n
    <3>3. Innermost(t, i)
      BY <1>3, <1>5, <1>6, <2>3, <3>2
    <3>4. QED
      BY <1>3, <2>1, <3>2, <3>3
  <2>4. QED
    BY <2>2, <2>3
<1>8. QED
  BY <1>1, <1>2, <1>3, <1>4, <1>5, <1>6, <1>7 DEF Listed, Pushed, n

\* A function is entered.
LEMMA PushFnLists ==
  ASSUME NEW s, s # <<>>, NEW e, Listed(s, e), NEW f, NEW x, NEW t,
         Len(t) = Len(s) + 1, t[Len(s) + 1] = f, \A i \in 1..Len(s) : t[i] = s[i],
         WellNested(t, x), f.form = "fn", f.saved.defers = e.defers, f.todo = <<>>,
         x.defers = <<>>
  PROVE  /\ Listed(t, x)
         /\ PendingLists(t, x) = Append(PendingLists(s, e), <<>>)
<1> DEFINE n == Len(s)
           m == Activations(s, n)
           a == PendingLists(s, e)
           b == Append(a, <<>>)
<1>0. Listed(t, x) /\ Pushed(s, e, f, t, x)
  BY PushCovered
<1>1. /\ Listed(t, x)
      /\ n \in 1..n /\ Len(t) = n + 1 /\ t[n + 1] = f
      /\ \A i \in 1..n : /\ t[i] = s[i] /\ Activations(t, i) = Activations(s, i)
                         /\ i # n => /\ Innermost(t, i) <=> Innermost(s, i)
                                     /\ EnvAt(t, x, i) = EnvAt(s, e, i)
      /\ Innermost(s, n) /\ Innermost(t, n + 1)
      /\ EnvAt(t, x, n) = f.saved /\ EnvAt(t, x, n + 1) = x /\ EnvAt(s, e, n) = e
      /\ Activations(t, n + 1) = m + 1
      /\ m \in Nat
  BY <1>0 DEF Pushed
<1>2. /\ a \in Seq(Seq(Pendings)) /\ Len(a) = m
      /\ \A i \in 1..n : /\ Activations(s, i) \in 1..m
                         /\ Innermost(s, i) => a[Activations(s, i)] = PendingOf(s, e, i)
  BY ListsType
<1> HIDE DEF n, a
<1>3. ASSUME NEW i \in 1..n PROVE PendingOf(t, x, i) = PendingOf(s, e, i)
  <2>1. EnvAt(t, x, i).defers = EnvAt(s, e, i).defers /\ t[i] = s[i]
    BY <1>1
  <2>2. QED
    BY <2>1 DEF PendingOf
<1>4. PendingOf(t, x, n + 1) = <<>>
  <2>1. n + 1 \in 1..Len(t)
    BY <1>1
  <2>2. /\ PendingOf(t, x, n + 1) \in Seq(Pendings)
        /\ Len(PendingOf(t, x, n + 1)) = Len(EnvAt(t, x, n + 1).defers) + Len(t[n + 1].todo)
    BY <1>1, <2>1, PendingType DEF Listed
  <2>3. EnvAt(t, x, n + 1).defers = <<>> /\ t[n + 1].todo = <<>>
    BY <1>1
  <2>3a. Len(PendingOf(t, x, n + 1)) = 0
    BY <2>2, <2>3
  <2>4. QED
    BY <2>2, <2>3a
<1>5. b \in Seq(Seq(Pendings)) /\ Len(b) = m + 1 /\ b[m + 1] = <<>> /\ \A k \in 1..m : b[k] = a[k]
  <2> HIDE DEF m
  <2>1. <<>> \in Seq(Pendings)
    OBVIOUS
  <2> DEFINE z == <<>>
  <2>2. z \in Seq(Pendings) /\ b = Append(a, z)
    BY <2>1
  <2> HIDE DEF z, b
  <2>3. b \in Seq(Seq(Pendings)) /\ Len(b) = m + 1 /\ b[m + 1] = z /\ \A k \in 1..m : b[k] = a[k]
    BY <1>1, <1>2, <2>2, AppendProperties
  <2>4. QED
    BY <2>3 DEF z
<1> HIDE DEF b
<1>6. ASSUME NEW i \in 1..Len(t), Innermost(t, i)
      PROVE  b[Activations(t, i)] = PendingOf(t, x, i)
  <2>1. CASE i = n + 1
    BY <1>1, <1>4, <1>5, <2>1
  <2>2. CASE i # n + 1
    <3>1. i \in 1..n /\ Innermost(s, i)
      BY <1>1, <1>6, <2>2
    <3>2. QED
      BY <1>1, <1>2, <1>3, <1>5, <3>1
  <2>3. QED
    BY <2>1, <2>2
<1>7. PendingLists(t, x) = b
  <2>1. Len(b) = Activations(t, Len(t))
    BY <1>1, <1>5
  <2>2. QED
    BY <1>1, <1>5, <1>6, <2>1, ListsAgree
<1>8. QED
  BY <1>1, <1>7 DEF a, b

\* A block is entered: it takes the list of the body over.
LEMMA PushBlockLists ==
  ASSUME NEW s, s # <<>>, NEW e, Listed(s, e), NEW f, NEW x, NEW t,
         Len(t) = Len(s) + 1, t[Len(s) + 1] = f, \A i \in 1..Len(s) : t[i] = s[i],
         WellNested(t, x), f.form # "fn", f.todo = <<>>, s[Len(s)].todo = <<>>,
         x.defers = e.defers
  PROVE  /\ Listed(t, x)
         /\ PendingLists(t, x) = PendingLists(s, e)
<1> DEFINE n == Len(s)
           m == Activations(s, n)
           a == PendingLists(s, e)
<1>0. Listed(t, x) /\ Pushed(s, e, f, t, x)
  BY PushCovered
<1>1. /\ Listed(t, x)
      /\ n \in 1..n /\ Len(t) = n + 1 /\ t[n + 1] = f
      /\ \A i \in 1..n : /\ t[i] = s[i] /\ Activations(t, i) = Activations(s, i)
                         /\ i # n => /\ Innermost(t, i) <=> Innermost(s, i)
                                     /\ EnvAt(t, x, i) = EnvAt(s, e, i)
      /\ Innermost(s, n) /\ ~Innermost(t, n)
      /\ EnvAt(t, x, n + 1) = x /\ EnvAt(s, e, n) = e
      /\ Activations(t, n + 1) = m
      /\ m \in Nat
  BY <1>0 DEF Pushed
<1>2. /\ a \in Seq(Seq(Pendings)) /\ Len(a) = m
      /\ \A i \in 1..n : /\ Activations(s, i) \in 1..m
                         /\ Innermost(s, i) => a[Activations(s, i)] = PendingOf(s, e, i)
  BY ListsType
<1> HIDE DEF n, a
<1>3. ASSUME NEW i \in 1..n, i # n PROVE PendingOf(t, x, i) = PendingOf(s, e, i)
  <2>1. EnvAt(t, x, i).defers = EnvAt(s, e, i).defers /\ t[i] = s[i]
    BY <1>1, <1>3
  <2>2. QED
    BY <2>1 DEF PendingOf
<1>4. PendingOf(t, x, n + 1) = PendingOf(s, e, n)
  <2>1. /\ EnvAt(t, x, n + 1).defers = EnvAt(s, e, n).defers
        /\ t[n + 1].todo = s[n].todo
    BY <1>1 DEF n
  <2>2. QED
    BY <2>1 DEF PendingOf
<1>6. ASSUME NEW i \in 1..Len(t), Innermost(t, i)
      PROVE  a[Activations(t, i)] = PendingOf(t, x, i)
  <2>1. CASE i = n + 1
    BY <1>1, <1>2, <1>4, <2>1
  <2>2. CASE i # n + 1
    <3>1. i \in 1..n /\ i # n
      BY <1>1, <1>6, <2>2
    <3>2. QED
      BY <1>1, <1>2, <1>3, <1>6, <3>1
  <2>3. QED
    BY <2>1, <2>2
<1>7. PendingLists(t, x) = a
  <2>1. Len(a) = Activations(t, Len(t))
    BY <1>1, <1>2
  <2>2. QED
    BY <1>1, <1>2, <1>6, <2>1, ListsAgree
<1>8. QED
  BY <1>1, <1>7 DEF a

\* The stack t with environment x is s without its top frame.
Popped(s, e, t, x) ==
  /\ Len(t) \in Nat /\ Len(s) = Len(t) + 1
  /\ \A i \in 1..Len(t) : /\ t[i] = s[i] /\ Activations(t, i) = Activations(s, i)
                          /\ i # Len(t) => /\ Innermost(t, i) <=> Innermost(s, i)
                                           /\ EnvAt(t, x, i) = EnvAt(s, e, i)
  /\ Innermost(t, Len(t)) /\ Innermost(s, Len(s))
  /\ Innermost(s, Len(t)) <=> s[Len(s)].form = "fn"
  /\ EnvAt(t, x, Len(t)) = x /\ EnvAt(s, e, Len(s)) = e /\ EnvAt(s, e, Len(t)) = s[Len(s)].saved
  /\ Activations(s, Len(s)) =
       IF s[Len(s)].form = "fn" THEN Activations(t, Len(t)) + 1 ELSE Activations(t, Len(t))
  /\ Activations(t, Len(t)) \in 0..Len(t)

\* The top frame is popped.
LEMMA PopCovered ==
  ASSUME NEW s, NEW e, Listed(s, e), NEW x, NEW t,
         Len(t) \in Nat, Len(s) = Len(t) + 1, \A i \in 1..Len(t) : t[i] = s[i],
         WellNested(t, x)
  PROVE  Listed(t, x) /\ Popped(s, e, t, x)
<1> DEFINE n == Len(t)
<1>1. n \in Nat /\ n + 1 # n /\ n + 1 \in 1..n + 1 /\ n + 1 \in Nat
  OBVIOUS
<1>2. Len(s) = n + 1 /\ (\A i \in 1..n : t[i] = s[i]) /\ Len(t) = n
  OBVIOUS
<1>3. /\ \A i \in 1..n : Activations(t, i) = Activations(s, i)
      /\ \A i \in 1..n : i # n => (Innermost(t, i) <=> Innermost(s, i))
  <2>1. \A i \in 1..Len(t) : t[i].form = s[i].form
    BY <1>2
  <2>2. Len(s) \in Nat /\ Len(t) <= Len(s) /\ Len(t) <= Len(t) /\ Len(t) \in Nat
    BY <1>1, <1>2
  <2>3. QED
    BY <2>1, <2>2, FormsSame
<1> HIDE DEF n
<1>4. ASSUME NEW i \in 1..n, i # n PROVE EnvAt(t, x, i) = EnvAt(s, e, i)
  <2>1. i + 1 \in 1..n /\ i # n + 1
    BY <1>1, <1>4
  <2>2. QED
    BY <1>2, <1>4, <2>1 DEF EnvAt
<1>5. /\ Innermost(t, n) /\ Innermost(s, n + 1)
      /\ Innermost(s, n) <=> s[n + 1].form = "fn"
      /\ EnvAt(t, x, n) = x /\ EnvAt(s, e, n + 1) = e /\ EnvAt(s, e, n) = s[n + 1].saved
  BY <1>1, <1>2 DEF Innermost, EnvAt
<1>6. /\ Activations(s, n + 1) =
           IF s[n + 1].form = "fn" THEN Activations(t, n) + 1 ELSE Activations(t, n)
      /\ Activations(t, n) \in 0..n
  <2>1. /\ Activations(s, n + 1) =
             IF s[n + 1].form = "fn" THEN Activations(s, n) + 1 ELSE Activations(s, n)
        /\ Activations(t, n) \in 0..n
        /\ Activations(t, 0) = 0 /\ Activations(s, 0) = 0
    BY <1>1, CountIs
  <2>2. n = 0 \/ n \in 1..n
    BY <1>1
  <2>3. Activations(t, n) = Activations(s, n)
    BY <1>3, <2>1, <2>2
  <2>4. QED
    BY <2>1, <2>3
<1>7. Covered(t)
  <2> SUFFICES ASSUME NEW k \in 1..Activations(t, n)
               PROVE  \E i \in 1..n : Innermost(t, i) /\ Activations(t, i) = k
    BY <1>2 DEF Covered
  <2>1. n \in 1..n /\ k \in 1..Activations(s, n + 1)
    BY <1>1, <1>6
  <2>2. PICK i \in 1..n + 1 : Innermost(s, i) /\ Activations(s, i) = k
    BY <1>2, <2>1 DEF Listed, Covered
  <2>3. CASE i \in 1..n /\ i # n
    BY <1>3, <2>2, <2>3
  <2>4. CASE i = n
    BY <1>3, <1>5, <2>1, <2>2, <2>4
  <2>5. CASE i = n + 1
    <3>1. Activations(t, n) = k
      BY <1>6, <2>2, <2>5
    <3>2. QED
      BY <1>5, <2>1, <3>1
  <2>6. QED
    BY <1>1, <2>3, <2>4, <2>5
<1>8. QED
  BY <1>1, <1>2, <1>3, <1>4, <1>5, <1>6, <1>7 DEF Listed, Popped, n

\* A function is left: its list goes.
LEMMA PopFnLists ==
  ASSUME NEW s, NEW e, Listed(s, e), NEW x, NEW t,
         Len(t) \in Nat, Len(s) = Len(t) + 1, \A i \in 1..Len(t) : t[i] = s[i],
         WellNested(t, x), s[Len(s)].form = "fn", x.defers = s[Len(s)].saved.defers
  PROVE  LET a == PendingLists(s, e)
         IN  /\ Listed(t, x)
             /\ Len(a) \in Nat \ {0}
             /\ a[Len(a)] = PendingOf(s, e, Len(s))
             /\ PendingLists(t, x) = SubSeq(a, 1, Len(a) - 1)
<1> DEFINE n == Len(t)
           m == Activations(t, n)
           a == PendingLists(s, e)
           b == SubSeq(a, 1, m)
<1>0. Listed(t, x) /\ Popped(s, e, t, x)
  BY PopCovered
<1>1. /\ n \in Nat /\ Len(s) = n + 1 /\ Len(t) = n
      /\ \A i \in 1..n : /\ t[i] = s[i] /\ Activations(t, i) = Activations(s, i)
                         /\ i # n => /\ Innermost(t, i) <=> Innermost(s, i)
                                     /\ EnvAt(t, x, i) = EnvAt(s, e, i)
      /\ Innermost(t, n) /\ Innermost(s, n + 1) /\ Innermost(s, n)
      /\ EnvAt(t, x, n) = x /\ EnvAt(s, e, n) = s[n + 1].saved
      /\ Activations(s, n + 1) = m + 1 /\ m \in 0..n
      /\ x.defers = s[n + 1].saved.defers
  BY <1>0 DEF Popped
<1>2. /\ a \in Seq(Seq(Pendings)) /\ Len(a) = m + 1
      /\ \A i \in 1..n + 1 : Innermost(s, i) => a[Activations(s, i)] = PendingOf(s, e, i)
  <2>1. /\ a \in Seq(Seq(Pendings)) /\ Len(a) = Activations(s, Len(s))
        /\ \A i \in 1..Len(s) : Innermost(s, i) => a[Activations(s, i)] = PendingOf(s, e, i)
    BY ListsType
  <2>2. QED
    BY <1>1, <2>1
<1>2a. \A i \in 1..n : Activations(t, i) \in 1..m
  BY <1>0, ListsType
<1> HIDE DEF n, a, m
<1>3. ASSUME NEW i \in 1..n PROVE PendingOf(t, x, i) = PendingOf(s, e, i)
  <2>1. EnvAt(t, x, i).defers = EnvAt(s, e, i).defers /\ t[i] = s[i]
    BY <1>1
  <2>2. QED
    BY <2>1 DEF PendingOf
<1>4. /\ b \in Seq(Seq(Pendings)) /\ Len(b) = m /\ \A k \in 1..m : b[k] = a[k]
  <2>1. m \in 0..Len(a) /\ m \in Nat
    BY <1>1, <1>2
  <2>2. QED
    BY <1>2, <2>1, PrefixIs
<1> HIDE DEF b
<1>5. ASSUME NEW i \in 1..Len(t), Innermost(t, i)
      PROVE  b[Activations(t, i)] = PendingOf(t, x, i)
  <2>1. i \in 1..n /\ i \in 1..n + 1 /\ Innermost(s, i)
    BY <1>1, <1>5
  <2>2. QED
    BY <1>1, <1>2, <1>2a, <1>3, <1>4, <2>1
<1>6. PendingLists(t, x) = b
  <2>1. Len(b) = Activations(t, Len(t))
    BY <1>1, <1>4 DEF m
  <2>2. QED
    BY <1>0, <1>4, <1>5, <2>1, ListsAgree
<1>7. a[Len(a)] = PendingOf(s, e, Len(s)) /\ Len(a) - 1 = m /\ Len(a) \in Nat \ {0}
  <2>1. n + 1 \in 1..n + 1
    BY <1>1
  <2>2. QED
    BY <1>1, <1>2, <2>1
<1>8. QED
  BY <1>0, <1>6, <1>7 DEF a, b

\* A block is left: the body around it takes its list back.
LEMMA PopBlockLists ==
  ASSUME NEW s, NEW e, Listed(s, e), NEW x, NEW t,
         Len(t) \in Nat, Len(s) = Len(t) + 1, \A i \in 1..Len(t) : t[i] = s[i],
         WellNested(t, x), s[Len(s)].form # "fn", s[Len(s)].todo = <<>>,
         Len(t) # 0 => t[Len(t)].todo = <<>>, x.defers = e.defers
  PROVE  Listed(t, x) /\ PendingLists(t, x) = PendingLists(s, e)
<1> DEFINE n == Len(t)
           m == Activations(t, n)
           a == PendingLists(s, e)
<1>0. Listed(t, x) /\ Popped(s, e, t, x)
  BY PopCovered
<1>1. /\ n \in Nat /\ Len(s) = n + 1 /\ Len(t) = n
      /\ \A i \in 1..n : /\ t[i] = s[i] /\ Activations(t, i) = Activations(s, i)
                         /\ i # n => /\ Innermost(t, i) <=> Innermost(s, i)
                                     /\ EnvAt(t, x, i) = EnvAt(s, e, i)
      /\ Innermost(t, n) /\ Innermost(s, n + 1)
      /\ EnvAt(t, x, n) = x /\ EnvAt(s, e, n + 1) = e
      /\ Activations(s, n + 1) = m /\ m \in 0..n
      /\ s[n + 1].todo = <<>> /\ (n # 0 => t[n].todo = <<>>)
  BY <1>0 DEF Popped
<1>2. /\ a \in Seq(Seq(Pendings)) /\ Len(a) = m
      /\ \A i \in 1..n + 1 : Innermost(s, i) => a[Activations(s, i)] = PendingOf(s, e, i)
  <2>1. /\ a \in Seq(Seq(Pendings)) /\ Len(a) = Activations(s, Len(s))
        /\ \A i \in 1..Len(s) : Innermost(s, i) => a[Activations(s, i)] = PendingOf(s, e, i)
    BY ListsType
  <2>2. QED
    BY <1>1, <2>1
<1> HIDE DEF n, a, m
<1>3. ASSUME NEW i \in 1..n, i # n PROVE PendingOf(t, x, i) = PendingOf(s, e, i)
  <2>1. EnvAt(t, x, i).defers = EnvAt(s, e, i).defers /\ t[i] = s[i]
    BY <1>1, <1>3
  <2>2. QED
    BY <2>1 DEF PendingOf
<1>4. n # 0 => PendingOf(t, x, n) = PendingOf(s, e, n + 1)
  <2>1. n # 0 => /\ EnvAt(t, x, n).defers = EnvAt(s, e, n + 1).defers
                 /\ t[n].todo = s[n + 1].todo
    BY <1>1
  <2>2. QED
    BY <2>1 DEF PendingOf
<1>5. ASSUME NEW i \in 1..Len(t), Innermost(t, i)
      PROVE  a[Activations(t, i)] = PendingOf(t, x, i)
  <2>1. CASE i = n
    <3>1. n # 0 /\ n + 1 \in 1..n + 1
      BY <1>1, <2>1
    <3>2. a[m] = PendingOf(s, e, n + 1)
      BY <1>1, <1>2, <3>1
    <3>3. QED
      BY <1>4, <2>1, <3>1, <3>2 DEF m
  <2>2. CASE i # n
    <3>1. i \in 1..n /\ i \in 1..n + 1 /\ Innermost(s, i)
      BY <1>1, <1>5, <2>2
    <3>2. QED
      BY <1>1, <1>2, <1>3, <2>2, <3>1
  <2>3. QED
    BY <2>1, <2>2
<1>6. PendingLists(t, x) = a
  <2>1. Len(a) = Activations(t, Len(t))
    BY <1>1, <1>2 DEF m
  <2>2. QED
    BY <1>0, <1>2, <1>5, <2>1, ListsAgree
<1>7. QED
  BY <1>0, <1>6 DEF a

\* An entry of a defer stack, as the abstract view has it.
Pend(d) == [id |-> d.id, kind |-> d.kind]

\* The list p is the defer stack d, and after it the list w being drained, its
\* first entry last.
Laid(p, d, w) ==
  /\ p \in Seq(Pendings) /\ d \in Seq(Entries) /\ w \in Seq(Entries)
  /\ Len(p) = Len(d) + Len(w)
  /\ \A j \in 1..Len(d) : p[j] = Pend(d[j])
  /\ \A j \in 1..Len(w) : p[Len(d) + j] = Pend(w[Len(w) + 1 - j])

\* The list of the innermost activation.
LEMMA TopPending ==
  ASSUME NEW s, NEW e, WellNested(s, e), s # <<>>
  PROVE  Laid(PendingOf(s, e, Len(s)), e.defers, s[Len(s)].todo)
<1> DEFINE n == Len(s)
           d == e.defers
           w == s[n].todo
           rev == Reversed(w)
           p == PendingOf(s, e, n)
<1>1. n \in 1..n /\ EnvAt(s, e, n) = e
  BY DEF WellNested, EnvAt
<1>2. p \in Seq(Pendings) /\ Len(p) = Len(d) + Len(w) /\ d \in Seq(Entries) /\ w \in Seq(Entries)
  <2>1. LET c == EnvAt(s, e, n).defers
        IN  p \in Seq(Pendings) /\ c \in Seq(Entries) /\ w \in Seq(Entries) /\ Len(p) = Len(c) + Len(w)
    BY <1>1, PendingType
  <2> HIDE DEF n, p
  <2>2. QED
    BY <1>1, <2>1
<1>3. /\ Len(d) \in Nat /\ Len(w) \in Nat
      /\ Len(rev) = Len(w) /\ \A j \in 1..Len(w) : rev[j] = w[Len(w) + 1 - j]
  BY <1>2 DEF Reversed
<1>4. rev \in Seq(Entries)
  BY <1>2, ReversedType
<1>5. p = [j \in 1..Len(d \o rev) |-> Pend((d \o rev)[j])]
  BY <1>1 DEF PendingOf, Pend
<1> HIDE DEF p, d, w, rev
<1>6. /\ Len(d \o rev) = Len(d) + Len(w)
      /\ \A j \in 1..Len(d) : (d \o rev)[j] = d[j]
      /\ \A j \in 1..Len(w) : (d \o rev)[Len(d) + j] = rev[j]
  <2> DEFINE c == d \o rev
  <2>1. /\ Len(c) = Len(d) + Len(rev)
        /\ \A j \in 1..Len(d) + Len(rev) : c[j] = IF j <= Len(d) THEN d[j] ELSE rev[j - Len(d)]
    BY <1>2, <1>4, ConcatProperties
  <2> HIDE DEF c
  <2>2. /\ \A j \in 1..Len(d) : j \in 1..Len(d) + Len(w) /\ j <= Len(d)
        /\ \A j \in 1..Len(w) : /\ Len(d) + j \in 1..Len(d) + Len(w)
                               /\ ~(Len(d) + j <= Len(d)) /\ (Len(d) + j) - Len(d) = j
    BY <1>3
  <2>3. QED
    BY <1>3, <2>1, <2>2 DEF c
<1>7. /\ \A j \in 1..Len(d) : j \in 1..Len(d) + Len(w)
      /\ \A j \in 1..Len(w) : Len(d) + j \in 1..Len(d) + Len(w)
  BY <1>3
<1>8. \A j \in 1..Len(d) : p[j] = Pend(d[j])
  BY <1>5, <1>6, <1>7
<1>9. \A j \in 1..Len(w) : p[Len(d) + j] = Pend(w[Len(w) + 1 - j])
  BY <1>3, <1>5, <1>6, <1>7
<1>10. QED
  BY <1>2, <1>8, <1>9 DEF Laid, p, d, w

\* No match is evaluated as a deferred expression.
Plain(s) == \A i \in 1..Len(s) : s[i].form # "fn" => s[i].use # "defer"

\* A function that drains has taken all its entries off the defer stack.
Emptied(s, e) ==
  \A i \in 1..Len(s) : s[i].form = "fn" /\ s[i].phase = "drain" => EnvAt(s, e, i).defers = <<>>

Simple(s, e) == Listed(s, e) /\ Plain(s) /\ Emptied(s, e)

\* Stack t with environment x has the lists of stack s with environment e.
SameLists(s, e, t, x) == Simple(t, x) /\ PendingLists(t, x) = PendingLists(s, e)

\* The stack and environment of m have these lists and an empty one for a new function.
Entered(s, e, m) ==
  Simple(m.stack, m.env) /\ PendingLists(m.stack, m.env) = Append(PendingLists(s, e), <<>>)

\* What the top frame's environment is called does not matter.
LEMMA EnvSimple ==
  ASSUME NEW s, NEW e, Simple(s, e), NEW x, x.defers = e.defers, WellNested(s, x)
  PROVE  SameLists(s, e, s, x)
<1>1. \A i \in 1..Len(s) : EnvAt(s, x, i).defers = EnvAt(s, e, i).defers
  BY DEF EnvAt
<1>2. Simple(s, x)
  BY <1>1 DEF Simple, Listed, Emptied
<1>3. QED
  BY <1>2, EnvLists DEF SameLists

\* The top frame changes.
LEMMA TopSimple ==
  ASSUME NEW s, s # <<>>, NEW e, Simple(s, e), NEW x, NEW g \in Frames,
         g.form = s[Len(s)].form, g.saved = s[Len(s)].saved, g.use = s[Len(s)].use,
         g.form = "fn" /\ g.phase = "drain" => x.defers = <<>>,
         NEW t, t = SetTop(s, g), WellNested(t, x)
  PROVE  /\ Simple(t, x)
         /\ Len(PendingLists(s, e)) \in Nat \ {0}
         /\ Len(t) = Len(s) /\ t[Len(s)] = g
         /\ PendingLists(s, e)[Len(PendingLists(s, e))] = PendingOf(s, e, Len(s))
         /\ PendingLists(t, x) =
              [PendingLists(s, e) EXCEPT ![Len(PendingLists(s, e))] = PendingOf(t, x, Len(s))]
<1> DEFINE n == Len(s)
<1>1. s \in Seq(Frames) /\ n \in Nat /\ n \in 1..n
  BY DEF Simple, Listed, WellNested
<1>2. Len(t) = n /\ t[n] = g /\ \A i \in 1..n : i # n => t[i] = s[i]
  BY <1>1 DEF SetTop
<1>3. ASSUME NEW i \in 1..n, i # n PROVE EnvAt(t, x, i) = EnvAt(s, e, i)
  <2>1. i + 1 \in 1..n
    BY <1>1, <1>3
  <2>2. t[i + 1].saved = s[i + 1].saved
    BY <1>2, <2>1
  <2>3. QED
    BY <1>2, <1>3, <2>2 DEF EnvAt
<1>4. EnvAt(t, x, n) = x
  BY <1>2 DEF EnvAt
<1>5. Plain(t)
  BY <1>1, <1>2 DEF Simple, Plain
<1>6. Emptied(t, x)
  BY <1>1, <1>2, <1>3, <1>4 DEF Simple, Emptied
<1>7. Listed(s, e)
  BY DEF Simple
<1>8. QED
  BY <1>2, <1>5, <1>6, <1>7, TopLists DEF Simple

\* A body ends: its entries are on the other side of the same list.
LEMMA FinishLists ==
  ASSUME NEW s, s # <<>>, NEW e, Simple(s, e), s[Len(s)].todo = <<>>, NEW r \in Results
  PROVE  LET m == Finish(s, e, r) IN SameLists(s, e, m.stack, m.env)
<1> DEFINE n == Len(s)
           a == PendingLists(s, e)
<1>1. WellNested(s, e)
  BY DEF Simple, Listed
<1>2. PICK g, x, kept : Finish(s, e, r) = At(SetTop(s, g), x) /\ Finished(s, e, r, g, x, kept)
  BY <1>1, FinishIs
<1> DEFINE t == SetTop(s, g)
<1>3. WellNested(t, x)
  <2>1. LET m == Finish(s, e, r) IN WellNested(m.stack, m.env)
    BY <1>1, FinishNests
  <2>2. QED
    BY <1>2, <2>1 DEF At
<1>4. t = SetTop(s, g)
  OBVIOUS
<1> HIDE DEF t
<1>5. /\ g \in Frames /\ g.form = s[n].form /\ g.saved = s[n].saved /\ g.use = s[n].use
      /\ g.form = "fn" /\ g.phase = "drain" => x.defers = <<>>
  <2>1. x.defers \in Seq(Entries)
    BY <1>3, EnvParts DEF WellNested
  <2>2. Len(x.defers) = 0 => x.defers = <<>>
    BY <2>1
  <2>3. QED
    BY <1>2, <2>2 DEF Finished
<1>6. /\ Simple(t, x) /\ Len(a) \in Nat \ {0} /\ Len(t) = n /\ t[n] = g
      /\ a[Len(a)] = PendingOf(s, e, n)
      /\ PendingLists(t, x) = [a EXCEPT ![Len(a)] = PendingOf(t, x, n)]
  BY <1>3, <1>4, <1>5, TopSimple
<1> DEFINE p == PendingOf(s, e, n)
           q == PendingOf(t, x, n)
<1>7. /\ p \in Seq(Pendings) /\ Len(p) = Len(e.defers) /\ Len(e.defers) \in Nat
      /\ \A j \in 1..Len(e.defers) : p[j] = Pend(e.defers[j])
  <2>1. Laid(p, e.defers, s[n].todo)
    BY <1>1, TopPending
  <2> HIDE DEF p
  <2>2. Len(e.defers) \in Nat /\ Len(s[n].todo) = 0
    BY <2>1 DEF Laid
  <2>3. QED
    BY <2>1, <2>2 DEF Laid
<1>8. /\ q \in Seq(Pendings) /\ Len(q) = Len(x.defers) + Len(g.todo)
      /\ \A j \in 1..Len(x.defers) : q[j] = Pend(x.defers[j])
      /\ \A j \in 1..Len(g.todo) : q[Len(x.defers) + j] = Pend(g.todo[Len(g.todo) + 1 - j])
      /\ Len(g.todo) \in Nat
  <2>1. t # <<>>
    BY <1>1, <1>6 DEF WellNested
  <2>2. Laid(PendingOf(t, x, Len(t)), x.defers, t[Len(t)].todo)
    BY <1>3, <2>1, TopPending
  <2>3. t[Len(t)].todo = g.todo /\ PendingOf(t, x, Len(t)) = q
    BY <1>6
  <2> HIDE DEF q
  <2>4. Laid(q, x.defers, g.todo)
    BY <2>2, <2>3
  <2>5. Len(g.todo) \in Nat
    BY <2>4 DEF Laid
  <2>6. QED
    BY <2>4, <2>5 DEF Laid
<1>9. /\ kept \in 0..Len(e.defers) /\ Len(x.defers) = kept
      /\ \A k \in 1..kept : x.defers[k] = e.defers[k]
      /\ Len(g.todo) = Len(e.defers) - kept
      /\ \A k \in 1..Len(g.todo) : g.todo[k] = e.defers[Len(e.defers) + 1 - k]
  <2>1. Len(<<>>) = 0 /\ Len(s[n].todo) = 0
    OBVIOUS
  <2>2. QED
    BY <1>2, <1>7, <2>1 DEF Finished
<1> HIDE DEF p, q
<1>10. q = p
  <2> DEFINE L == Len(e.defers)
  <2> HIDE DEF L
  <2>0. L \in Nat /\ kept \in 0..L /\ L = Len(e.defers)
    BY <1>7, <1>9 DEF L
  <2>1. Len(q) = L /\ Len(p) = L
    BY <1>7, <1>8, <1>9 DEF L
  <2>2. ASSUME NEW j \in 1..L PROVE q[j] = p[j]
    <3>1. CASE j \in 1..kept
      BY <1>7, <1>8, <1>9, <2>0, <3>1
    <3>2. CASE j \notin 1..kept
      <4>1. PICK k \in 1..Len(g.todo) : j = kept + k
        <5>1. j - kept \in 1..Len(g.todo) /\ j = kept + (j - kept)
          BY <1>9, <2>0, <3>2
        <5>2. QED
          BY <5>1
      <4>2. q[j] = Pend(g.todo[Len(g.todo) + 1 - k])
        BY <1>8, <1>9, <4>1
      <4>3. Len(g.todo) + 1 - k \in 1..Len(g.todo) /\ L + 1 - (Len(g.todo) + 1 - k) = j
        BY <1>9, <2>0, <4>1
      <4>4. g.todo[Len(g.todo) + 1 - k] = e.defers[j]
        BY <1>9, <2>0, <4>3
      <4>5. QED
        BY <1>7, <2>0, <2>2, <4>2, <4>4
    <3>3. QED
      BY <3>1, <3>2
  <2>3. p \in Seq(Pendings) /\ q \in Seq(Pendings) /\ Len(q) = Len(p)
    BY <1>7, <1>8, <2>1
  <2>4. \A j \in 1..Len(q) : q[j] = p[j]
    BY <2>1, <2>2
  <2>5. QED
    BY <2>3, <2>4, SeqEqual
<1>11. a \in Seq(Seq(Pendings))
  BY ListsType DEF Simple
<1> HIDE DEF a
<1>12. PendingLists(t, x) = a
  BY <1>6, <1>10, <1>11 DEF p, q
<1>13. SameLists(s, e, t, x)
  BY <1>6, <1>12 DEF SameLists, a
<1>14. QED
  BY <1>2, <1>13 DEF At, t

\* A function is entered.
LEMMA EnterLists ==
  ASSUME NEW s, s # <<>>, NEW e, Simple(s, e), calls \in Nat,
         NEW use \in {"stmt", "ret", "rebind", "defer"},
         NEW unwrap \in {"none", "propagate", "panic"}
  PROVE  Entered(s, e, EnterFn(s, e, use, unwrap))
<1> DEFINE x == Taken(use, e)
           f == Frame("fn", TRUE, use, unwrap, x)
           e2 == Fresh(calls + 1, Len(s) + 1, <<>>)
           t == Append(s, f)
           n == Len(s)
<1>1. WellNested(s, e) /\ Listed(s, e) /\ s \in Seq(Frames) /\ e \in Envs /\ n \in 1..n /\ n \in Nat
  BY DEF Simple, Listed, WellNested
<1>2. x.defers = e.defers
  BY <1>1, TakenIs
<1>3. f.saved = x /\ f.todo = <<>> /\ f.form = "fn" /\ f.phase = "run"
  BY DEF Frame
<1>4. e2.defers = <<>>
  BY DEF Fresh
<1>5. EnterFn(s, e, use, unwrap) = At(t, e2)
  BY DEF EnterFn
<1>6. WellNested(t, e2)
  <2>1. LET m == EnterFn(s, e, use, unwrap) IN WellNested(m.stack, m.env)
    BY <1>1, EnterFnNests
  <2> HIDE DEF t, e2
  <2>2. QED
    BY <1>5, <2>1 DEF At
<1> HIDE DEF x, f, e2
<1>7. Len(t) = n + 1 /\ t[n + 1] = f /\ \A i \in 1..n : t[i] = s[i]
  BY <1>1
<1> HIDE DEF t
<1>8. Listed(t, e2) /\ PendingLists(t, e2) = Append(PendingLists(s, e), <<>>)
  BY <1>1, <1>2, <1>3, <1>4, <1>6, <1>7, PushFnLists
<1>9. \A i \in 1..Len(t) : i \in 1..n \/ i = n + 1
  BY <1>1, <1>7
<1>10. Plain(t)
  BY <1>3, <1>7, <1>9 DEF Plain, Simple
<1>11. Pushed(s, e, f, t, e2)
  BY <1>1, <1>6, <1>7, PushCovered
<1>12. \A i \in 1..n : EnvAt(t, e2, i).defers = EnvAt(s, e, i).defers
  BY <1>2, <1>3, <1>11 DEF Pushed
<1>13. Emptied(t, e2)
  BY <1>3, <1>7, <1>9, <1>12 DEF Emptied, Simple
<1>14. QED
  BY <1>5, <1>8, <1>10, <1>13 DEF At, Simple, Entered

\* A block or a match is entered by a running body.
LEMMA OpenLists ==
  ASSUME NEW s, s # <<>>, NEW e, Simple(s, e), s[Len(s)].todo = <<>>,
         NEW form \in Blocks, NEW outer \in BOOLEAN, NEW use \in {"stmt", "ret", "rebind"}
  PROVE  LET m == OpenBlock(s, e, form, outer, use) IN SameLists(s, e, m.stack, m.env)
<1> DEFINE f == Frame(form, TailOf(form, outer), use, "none", e)
           e2 == [e EXCEPT !.marks = IF Scoped(form) THEN @ + 1 ELSE @]
           t == Append(s, f)
           n == Len(s)
<1>1. WellNested(s, e) /\ Listed(s, e) /\ s \in Seq(Frames) /\ e \in Envs /\ n \in 1..n /\ n \in Nat
  BY DEF Simple, Listed, WellNested
<1>2. e2.defers = e.defers
  BY <1>1 DEF Envs
<1>3. f.saved = e /\ f.todo = <<>> /\ f.form # "fn" /\ f.use # "defer"
  BY DEF Frame, Blocks, Loops
<1>4. OpenBlock(s, e, form, outer, use) = At(t, e2)
  BY DEF OpenBlock
<1>5. WellNested(t, e2)
  <2>1. LET m == OpenBlock(s, e, form, outer, use) IN WellNested(m.stack, m.env)
    BY <1>1, OpenBlockNests
  <2> HIDE DEF t, e2
  <2>2. QED
    BY <1>4, <2>1 DEF At
<1> HIDE DEF f, e2
<1>6. Len(t) = n + 1 /\ t[n + 1] = f /\ \A i \in 1..n : t[i] = s[i]
  BY <1>1
<1> HIDE DEF t
<1>7. Listed(t, e2) /\ PendingLists(t, e2) = PendingLists(s, e)
  BY <1>1, <1>2, <1>3, <1>5, <1>6, PushBlockLists
<1>8. \A i \in 1..Len(t) : i \in 1..n \/ i = n + 1
  BY <1>1, <1>6
<1>9. Plain(t)
  BY <1>3, <1>6, <1>8 DEF Plain, Simple
<1>10. Pushed(s, e, f, t, e2)
  BY <1>1, <1>5, <1>6, PushCovered
<1>11. \A i \in 1..n : EnvAt(t, e2, i).defers = EnvAt(s, e, i).defers
  BY <1>3, <1>10 DEF Pushed
<1>12. Emptied(t, e2)
  BY <1>3, <1>6, <1>8, <1>11 DEF Emptied, Simple
<1>13. QED
  BY <1>4, <1>7, <1>9, <1>12 DEF At, Simple, SameLists

\* What is below the top frame is there when it is gone.
LEMMA PopSimple ==
  ASSUME NEW s, s # <<>>, NEW e, Simple(s, e), NEW x, WellNested(Pop(s), x),
         \A i \in 1..Len(s) : i = Len(s) - 1 /\ s[i].form = "fn" /\ s[i].phase = "drain"
           => x.defers = EnvAt(s, e, i).defers
  PROVE  /\ Simple(Pop(s), x)
         /\ Len(Pop(s)) \in Nat /\ Len(s) = Len(Pop(s)) + 1
         /\ \A i \in 1..Len(Pop(s)) : Pop(s)[i] = s[i]
<1> DEFINE t == Pop(s)
           n == Len(t)
<1>1. Listed(s, e) /\ WellNested(s, e) /\ s \in Seq(Frames)
  BY DEF Simple, Listed, WellNested
<1>2. n \in Nat /\ Len(s) = n + 1 /\ \A i \in 1..n : t[i] = s[i]
  BY <1>1, PopIs
<1> HIDE DEF t
<1>3. Listed(t, x) /\ Popped(s, e, t, x)
  <2>1. WellNested(t, x)
    BY DEF t
  <2>2. QED
    BY <1>1, <1>2, <2>1, PopCovered
<1>4. \A i \in 1..n : i \in 1..Len(s)
  BY <1>2
<1>5. Plain(t)
  BY <1>2, <1>4 DEF Plain, Simple
<1>6. Emptied(t, x)
  <2> SUFFICES ASSUME NEW i \in 1..n, t[i].form = "fn", t[i].phase = "drain"
               PROVE  EnvAt(t, x, i).defers = <<>>
    BY DEF Emptied
  <2>1. EnvAt(s, e, i).defers = <<>> /\ s[i].form = "fn" /\ s[i].phase = "drain" /\ i \in 1..Len(s)
    BY <1>2, <1>4 DEF Emptied, Simple
  <2>2. CASE i = n
    <3>1. i = Len(s) - 1
      BY <1>2, <2>2
    <3>2. x.defers = <<>>
      BY <2>1, <3>1
    <3>3. QED
      BY <1>3, <2>2, <3>2 DEF Popped
  <2>3. CASE i # n
    BY <1>3, <2>1, <2>3 DEF Popped
  <2>4. QED
    BY <2>2, <2>3
<1>7. QED
  BY <1>2, <1>3, <1>5, <1>6 DEF Simple, t

\* A function is left.
LEMMA LeaveFnLists ==
  ASSUME NEW s, s # <<>>, NEW e, Simple(s, e), s[Len(s)].form = "fn"
  PROVE  LET t == Pop(s)
             x == s[Len(s)].saved
             a == PendingLists(s, e)
         IN  /\ Simple(t, x) /\ Len(a) \in Nat \ {0}
             /\ a[Len(a)] = PendingOf(s, e, Len(s))
             /\ PendingLists(t, x) = SubSeq(a, 1, Len(a) - 1)
<1> DEFINE t == Pop(s)
           x == s[Len(s)].saved
<1>1. Listed(s, e) /\ WellNested(s, e)
  BY DEF Simple, Listed
<1>2. WellNested(Pop(s), x)
  BY <1>1, PopNests
<1>3. \A i \in 1..Len(s) : i = Len(s) - 1 => EnvAt(s, e, i) = x
  BY <1>1 DEF EnvAt, WellNested
<1> HIDE DEF x
<1>4. /\ Simple(t, x) /\ Len(t) \in Nat /\ Len(s) = Len(t) + 1
      /\ \A i \in 1..Len(t) : t[i] = s[i]
  BY <1>2, <1>3, PopSimple
<1> HIDE DEF t
<1>5. x.defers = s[Len(s)].saved.defers /\ WellNested(t, x)
  BY <1>2 DEF x, t
<1>6. LET a == PendingLists(s, e)
      IN  /\ Len(a) \in Nat \ {0}
          /\ a[Len(a)] = PendingOf(s, e, Len(s))
          /\ PendingLists(t, x) = SubSeq(a, 1, Len(a) - 1)
  BY <1>1, <1>4, <1>5, PopFnLists
<1>7. QED
  BY <1>4, <1>6 DEF t, x

\* A block is left by a drain that is over, into a running body.
LEMMA LeaveBlockLists ==
  ASSUME NEW s, s # <<>>, NEW e, Simple(s, e), s[Len(s)].form # "fn", s[Len(s)].todo = <<>>,
         NEW x, x.defers = e.defers, WellNested(Pop(s), x), Shaped(s)
  PROVE  /\ SameLists(s, e, Pop(s), x)
         /\ Pop(s) # <<>> /\ Pop(s)[Len(Pop(s))].todo = <<>>
<1> DEFINE t == Pop(s)
           n == Len(t)
<1>1. Listed(s, e) /\ WellNested(s, e) /\ s \in Seq(Frames)
  BY DEF Simple, Listed, WellNested
<1>2. n \in Nat /\ Len(s) = n + 1 /\ \A i \in 1..n : t[i] = s[i]
  BY <1>1, PopIs
<1>3. Len(s) \in 1..Len(s) /\ n # 0 /\ n \in 1..n /\ n \in 1..Len(s) /\ Len(s) - 1 = n /\ Len(s) > 1
  <2>1. n = 0 => Len(s) = 1
    BY <1>2
  <2>2. n # 0
    BY <1>2, <2>1 DEF WellNested, Grounded, Simple, Listed
  <2> HIDE DEF n
  <2>3. QED
    BY <1>2, <2>2
<1>4. s[Len(s)].use # "defer"
  BY <1>3 DEF Simple, Plain
<1>5. s[n].phase = "run" /\ s[n].todo = <<>>
  <2>1. s[Len(s) - 1].phase = "run"
    BY <1>3, <1>4 DEF Shaped
  <2>2. QED
    BY <1>3, <2>1 DEF Shaped
<1>6. Simple(t, x)
  <2>1. \A i \in 1..Len(s) : i = Len(s) - 1 /\ s[i].phase = "drain" => FALSE
    BY <1>3, <1>5
  <2>2. QED
    BY <2>1, PopSimple
<1>7. t[n].todo = <<>>
  BY <1>2, <1>3, <1>5
<1>8. WellNested(t, x)
  OBVIOUS
<1> HIDE DEF t
<1>9. PendingLists(t, x) = PendingLists(s, e)
  BY <1>1, <1>2, <1>7, <1>8, PopBlockLists
<1>10. t # <<>>
  BY <1>3
<1>11. QED
  BY <1>6, <1>7, <1>9, <1>10 DEF SameLists, t

\* The statement that uses an outcome resumes or ends its body.
LEMMA DeliverLists ==
  ASSUME NEW s, NEW e, Simple(s, e), NEW o \in Outcomes,
         NEW use \in {"start", "stmt", "ret", "rebind", "defer"},
         use \notin {"start", "defer"} => s # <<>> /\ s[Len(s)].todo = <<>>
  PROVE  LET m == Deliver(s, e, use, o) IN SameLists(s, e, m.stack, m.env)
<1> DEFINE m == Deliver(s, e, use, o)
<1>1. o.kind \in {"value", "error", "propagate"} /\ Res("return", o.v) \in Results /\ Failed \in Results
  BY DEF Outcomes, Results, Res, Failed, Kinds, Values
<1>2. WellNested(s, e) /\ e \in Envs /\ SameLists(s, e, s, e)
  BY DEF Simple, Listed, WellNested, SameLists
<1>3. CASE use \in {"start", "defer"} \/ (use = "stmt" /\ o.kind = "value")
  <2>1. m = At(s, e)
    BY <1>3 DEF Deliver
  <2>2. QED
    BY <1>2, <2>1 DEF At
<1>4. CASE use \notin {"start", "defer"} /\ o.kind = "error"
  <2>1. m = Finish(s, e, Failed)
    BY <1>4 DEF Deliver
  <2>2. QED
    BY <1>1, <1>4, <2>1, FinishLists
<1>5. ASSUME NEW how \in {"ret", "propagate"}, use \notin {"start", "defer"},
             m = Finish(s, Exit(s, e, how), Res("return", o.v))
      PROVE  SameLists(s, e, m.stack, m.env)
  <2> DEFINE x == Exit(s, e, how)
             q == Res("return", o.v)
  <2>1. x.defers = e.defers /\ WellNested(s, x)
    <3>1. Exit(s, e, how).defers = e.defers
      BY <1>2 DEF Exit, Envs
    <3>2. QED
      BY <1>2, <3>1, EnvMarked
  <2> HIDE DEF x
  <2>2. Simple(s, x) /\ PendingLists(s, x) = PendingLists(s, e)
    BY <2>1, EnvSimple DEF SameLists
  <2>3. q \in Results
    BY <1>1
  <2> HIDE DEF q
  <2>4. LET z == Finish(s, x, q) IN SameLists(s, x, z.stack, z.env)
    BY <1>5, <2>2, <2>3, FinishLists
  <2>5. m = Finish(s, x, q)
    BY <1>5 DEF x, q
  <2> HIDE DEF m
  <2>6. QED
    BY <2>2, <2>4, <2>5 DEF SameLists
<1>6. CASE use \notin {"start", "defer"} /\ o.kind = "propagate"
  BY <1>5, <1>6 DEF Deliver
<1>7. CASE use = "ret" /\ o.kind = "value"
  BY <1>5, <1>7 DEF Deliver
<1>8. CASE use = "rebind" /\ o.kind = "value"
  <2> DEFINE e2 == [e EXCEPT !.slot = "bound"]
  <2>1. m = At(s, e2)
    BY <1>8 DEF Deliver
  <2>2. e2.defers = e.defers /\ WellNested(s, e2)
    BY <1>2, EnvMarked DEF Envs
  <2> HIDE DEF e2, m
  <2>3. m.stack = s /\ m.env = e2
    BY <2>1 DEF At
  <2>4. SameLists(s, e, s, e2)
    BY <2>2, EnvSimple
  <2>5. SameLists(s, e, m.stack, m.env)
    BY <2>3, <2>4
  <2>6. QED
    BY <2>5 DEF m
<1>9. QED
  BY <1>1, <1>3, <1>4, <1>6, <1>7, <1>8

\* The drain takes the last cleanup of the list.
LEMMA AdvanceLists ==
  ASSUME NEW s, s # <<>>, NEW e, Simple(s, e), s[Len(s)].todo # <<>>, s[Len(s)].phase = "drain",
         NEW g \in Frames, g.form = s[Len(s)].form, g.saved = s[Len(s)].saved,
         g.use = s[Len(s)].use, g.phase = "drain", g.todo = Tail(s[Len(s)].todo),
         NEW t, t = SetTop(s, g), WellNested(t, e)
  PROVE  LET a == PendingLists(s, e)
             p == a[Len(a)]
         IN  /\ Simple(t, e) /\ t # <<>>
             /\ Len(a) \in Nat \ {0} /\ p # <<>>
             /\ p[Len(p)] = Pend(Head(s[Len(s)].todo))
             /\ PendingLists(t, e) = [a EXCEPT ![Len(a)] = SubSeq(p, 1, Len(p) - 1)]
<1> DEFINE n == Len(s)
           a == PendingLists(s, e)
           w == s[n].todo
           L == Len(e.defers)
           p == PendingOf(s, e, n)
           q == PendingOf(t, e, n)
           r == SubSeq(p, 1, Len(p) - 1)
<1>1. WellNested(s, e) /\ Listed(s, e) /\ n \in Nat \ {0} /\ n \in 1..n /\ EnvAt(s, e, n) = e
  BY DEF Simple, Listed, WellNested, EnvAt
<1>2. g.form = "fn" /\ g.phase = "drain" => e.defers = <<>>
  BY <1>1 DEF Simple, Emptied
<1>3. /\ Simple(t, e) /\ Len(a) \in Nat \ {0} /\ Len(t) = n /\ t[n] = g
      /\ a[Len(a)] = p
      /\ PendingLists(t, e) = [a EXCEPT ![Len(a)] = q]
  BY <1>2, TopSimple
<1>4. t # <<>>
  BY <1>1, <1>3
<1>5. /\ p \in Seq(Pendings) /\ Len(p) = L + Len(w)
      /\ e.defers \in Seq(Entries) /\ w \in Seq(Entries)
      /\ \A j \in 1..L : p[j] = Pend(e.defers[j])
      /\ \A j \in 1..Len(w) : p[L + j] = Pend(w[Len(w) + 1 - j])
  <2>1. Laid(p, e.defers, w)
    BY <1>1, TopPending
  <2> HIDE DEF p, w
  <2>2. QED
    BY <2>1 DEF Laid
<1>6. /\ q \in Seq(Pendings) /\ Len(q) = L + Len(g.todo)
      /\ \A j \in 1..L : q[j] = Pend(e.defers[j])
      /\ \A j \in 1..Len(g.todo) : q[L + j] = Pend(g.todo[Len(g.todo) + 1 - j])
  <2>1. WellNested(t, e)
    OBVIOUS
  <2>2. Laid(PendingOf(t, e, Len(t)), e.defers, t[Len(t)].todo)
    BY <1>4, <2>1, TopPending
  <2>3. t[Len(t)].todo = g.todo /\ PendingOf(t, e, Len(t)) = q
    BY <1>3
  <2> HIDE DEF q
  <2>4. Laid(q, e.defers, g.todo)
    BY <2>2, <2>3
  <2>5. QED
    BY <2>4 DEF Laid
<1>7. /\ L \in Nat /\ Len(w) \in Nat \ {0} /\ Len(g.todo) = Len(w) - 1
      /\ \A k \in 1..Len(w) - 1 : g.todo[k] = w[k + 1]
      /\ Head(w) = w[1]
  BY <1>5
<1> HIDE DEF p, q, w, L, r
<1>8. Len(p) \in Nat \ {0} /\ p # <<>> /\ L + Len(w) = Len(p)
  <2>1. Len(p) \in Nat \ {0}
    BY <1>5, <1>7
  <2>2. QED
    BY <1>5, <2>1
<1>9. p[Len(p)] = Pend(Head(w))
  <2>1. Len(w) \in 1..Len(w) /\ Len(w) + 1 - Len(w) = 1
    BY <1>7
  <2>2. QED
    BY <1>5, <1>7, <2>1
<1>10. r \in Seq(Pendings) /\ Len(r) = Len(p) - 1 /\ \A j \in 1..Len(p) - 1 : r[j] = p[j]
  <2>1. Len(p) - 1 \in 0..Len(p)
    BY <1>8
  <2>2. QED
    BY <1>5, <2>1, PrefixIs DEF r
<1>11. q = r
  <2>1. Len(q) = Len(r) /\ Len(q) = L + (Len(w) - 1)
    BY <1>6, <1>7, <1>8, <1>10
  <2>2. ASSUME NEW j \in 1..Len(q) PROVE q[j] = r[j]
    <3>1. j \in 1..Len(p) - 1 /\ r[j] = p[j]
      BY <1>10, <2>1
    <3>2. CASE j \in 1..L
      BY <1>5, <1>6, <3>1, <3>2
    <3>3. CASE j \notin 1..L
      <4> DEFINE k == j - L
      <4>1. k \in 1..Len(w) - 1 /\ j = L + k /\ k \in 1..Len(w)
        BY <1>7, <2>1, <3>3
      <4> HIDE DEF k
      <4>2. q[j] = Pend(g.todo[Len(g.todo) + 1 - k])
        BY <1>6, <1>7, <4>1
      <4>3. /\ Len(g.todo) + 1 - k \in 1..Len(w) - 1
            /\ (Len(g.todo) + 1 - k) + 1 = Len(w) + 1 - k
        BY <1>7, <4>1
      <4>4. g.todo[Len(g.todo) + 1 - k] = w[Len(w) + 1 - k]
        BY <1>7, <4>3
      <4>5. p[j] = Pend(w[Len(w) + 1 - k])
        BY <1>5, <4>1
      <4>6. QED
        BY <3>1, <4>2, <4>4, <4>5
    <3>4. QED
      BY <3>2, <3>3
  <2>3. QED
    BY <1>6, <1>10, <2>1, <2>2, SeqEqual
<1>12. QED
  BY <1>3, <1>4, <1>8, <1>9, <1>11 DEF r, w

\* A running body registers a cleanup.
LEMMA GrowLists ==
  ASSUME NEW s, s # <<>>, NEW e, Simple(s, e), s[Len(s)].todo = <<>>, s[Len(s)].phase = "run",
         NEW d \in Entries, NEW x, x.defers = Append(e.defers, d), WellNested(s, x)
  PROVE  LET a == PendingLists(s, e)
         IN  /\ Simple(s, x) /\ Len(a) \in Nat \ {0}
             /\ PendingLists(s, x) = [a EXCEPT ![Len(a)] = Append(a[Len(a)], Pend(d))]
<1> DEFINE n == Len(s)
           a == PendingLists(s, e)
           g == s[n]
           L == Len(e.defers)
           p == PendingOf(s, e, n)
           q == PendingOf(s, x, n)
           r == Append(p, Pend(d))
<1>1. WellNested(s, e) /\ s \in Seq(Frames) /\ n \in Nat \ {0} /\ n \in 1..n
  BY DEF Simple, Listed, WellNested
<1>2. s = SetTop(s, g) /\ g \in Frames
  BY <1>1 DEF SetTop
<1>3. /\ Simple(s, x) /\ Len(a) \in Nat \ {0}
      /\ a[Len(a)] = p
      /\ PendingLists(s, x) = [a EXCEPT ![Len(a)] = q]
  <2>1. g.phase = "run" /\ g.phase # "drain" /\ WellNested(s, x)
    OBVIOUS
  <2>2. QED
    BY <1>2, <2>1, TopSimple
<1>4. Len(g.todo) = 0
  OBVIOUS
<1>5. /\ p \in Seq(Pendings) /\ Len(p) = L + Len(g.todo) /\ e.defers \in Seq(Entries)
      /\ \A j \in 1..L : p[j] = Pend(e.defers[j])
  <2>1. Laid(p, e.defers, g.todo)
    BY <1>1, TopPending
  <2> HIDE DEF p, g
  <2>2. QED
    BY <2>1 DEF Laid
<1>6. /\ q \in Seq(Pendings) /\ Len(q) = Len(x.defers) + Len(g.todo)
      /\ \A j \in 1..Len(x.defers) : q[j] = Pend(x.defers[j])
  <2>1. WellNested(s, x) /\ s # <<>>
    OBVIOUS
  <2>2. Laid(q, x.defers, g.todo)
    BY <2>1, TopPending
  <2> HIDE DEF q, g
  <2>3. QED
    BY <2>2 DEF Laid
<1>7. /\ L \in Nat /\ Len(x.defers) = L + 1 /\ x.defers[L + 1] = d
      /\ \A j \in 1..L : x.defers[j] = e.defers[j]
  <2>1. e.defers \in Seq(Entries)
    BY <1>5
  <2>2. QED
    BY <2>1
<1>8. Pend(d) \in Pendings
  BY DEF Pend, Pendings, Entries
<1> HIDE DEF p, q, g, L
<1>9. Len(p) = L /\ Len(q) = L + 1
  BY <1>4, <1>5, <1>6, <1>7
<1>10. r \in Seq(Pendings) /\ Len(r) = L + 1 /\ r[L + 1] = Pend(d) /\ \A j \in 1..L : r[j] = p[j]
  BY <1>5, <1>7, <1>8, <1>9
<1> HIDE DEF r
<1>11. q = r
  <2>1. ASSUME NEW j \in 1..Len(q) PROVE q[j] = r[j]
    <3>1. j \in 1..L \/ j = L + 1
      BY <1>7, <1>9
    <3>2. j \in 1..Len(x.defers)
      BY <1>7, <1>9
    <3>3. QED
      BY <1>5, <1>6, <1>7, <1>10, <3>1, <3>2
  <2>2. Len(q) = Len(r)
    BY <1>9, <1>10
  <2>3. QED
    BY <1>6, <1>10, <2>1, <2>2, SeqEqual
<1>12. QED
  BY <1>3, <1>11 DEF r

\* What the steps of the simulation need: Sound says which bodies are running, and
\* so have no list to drain, and Simple that the lists can be read off the frames.
SimInv == SoundInv /\ Simple(stack, env)

LEMMA SimTop ==
  ASSUME SimInv, Running
  PROVE  /\ stack # <<>> /\ Simple(stack, env) /\ WellNested(stack, env) /\ Shaped(stack)
         /\ Top = stack[Len(stack)] /\ Top \in Frames /\ stack \in Seq(Frames) /\ env \in Envs
         /\ Len(stack) \in 1..Len(stack) /\ Len(stack) \in Nat
         /\ fates \in Seq({"pending", "ran", "skipped"}) /\ calls \in Nat
         /\ Top.phase # "drain" => stack[Len(stack)].todo = <<>>
<1>1. /\ WellNested(stack, env) /\ stack # <<>> /\ Top = stack[Len(stack)] /\ Top \in Frames
      /\ calls \in Nat
  BY TopIs DEF SimInv, SoundInv
<1>2. Shaped(stack) /\ fates \in Seq({"pending", "ran", "skipped"})
  BY DEF SimInv, SoundInv, Sound, Open, IInv, Bookkeeping
<1>3. stack \in Seq(Frames) /\ env \in Envs
  BY <1>1 DEF WellNested
<1>4. Len(stack) \in 1..Len(stack) /\ Len(stack) \in Nat
  BY <1>1, <1>3
<1>5. Top.phase # "drain" => stack[Len(stack)].todo = <<>>
  BY <1>1, <1>2, <1>4 DEF Shaped
<1>6. QED
  BY <1>1, <1>2, <1>3, <1>4, <1>5 DEF SimInv

\* There is an activation, and no more of them than frames.
LEMMA ActsIs ==
  ASSUME NEW s, s # <<>>, NEW e, Simple(s, e)
  PROVE  LET a == PendingLists(s, e)
         IN  /\ a \in Seq(Seq(Pendings)) /\ Len(a) \in Nat \ {0} /\ a # <<>>
             /\ Len(a) <= Len(s)
<1> DEFINE a == PendingLists(s, e)
           n == Len(s)
           m == Activations(s, n)
<1>1. Listed(s, e) /\ n \in Nat /\ n \in 1..n
  BY DEF Simple, Listed, WellNested
<1>2. a \in Seq(Seq(Pendings)) /\ Len(a) = m /\ Activations(s, n) \in 1..m
  BY <1>1, ListsType
<1>3. m \in 0..n
  BY <1>1, CountIs
<1> HIDE DEF a, m, n
<1>4. m \in 1..m /\ m \in Nat
  BY <1>2, <1>3 DEF m
<1>5. Len(a) \in Nat \ {0} /\ a # <<>> /\ Len(a) <= n
  BY <1>1, <1>2, <1>3, <1>4
<1>6. QED
  BY <1>2, <1>5 DEF a, n

\* The machine moves to a pair with the same lists.
LEMMA SimMove ==
  ASSUME NEW m, SameLists(stack, env, m.stack, m.env), MoveTo(m), fates' = fates
  PROVE  Simple(stack, env)' /\ UNCHANGED Abstract!vars
<1>1. stack' = m.stack /\ env' = m.env
  BY DEF MoveTo
<1>2. SameLists(stack, env, stack', env')
  BY <1>1
<1>3. PendingLists(stack', env') = PendingLists(stack, env) /\ Simple(stack', env')
  BY <1>2 DEF SameLists
<1>4. QED
  BY <1>3 DEF Abstract!vars

\* A body ends by itself.
LEMMA EndSim ==
  ASSUME SimInv, Running, Top.phase # "drain", NEW r \in Results, NEW how \in {"ret", "propagate"},
         \/ MoveTo(Finish(stack, env, r))
         \/ MoveTo(Finish(stack, Exit(stack, env, how), r)),
         fates' = fates
  PROVE  Simple(stack, env)' /\ UNCHANGED Abstract!vars
<1>1. /\ stack # <<>> /\ Simple(stack, env) /\ stack[Len(stack)].todo = <<>>
      /\ WellNested(stack, env) /\ env \in Envs
  BY SimTop
<1>2. CASE MoveTo(Finish(stack, env, r))
  <2> DEFINE m == Finish(stack, env, r)
  <2>1. SameLists(stack, env, m.stack, m.env)
    BY <1>1, FinishLists
  <2>2. MoveTo(m)
    BY <1>2
  <2> HIDE DEF m
  <2>3. QED
    BY <2>1, <2>2, SimMove
<1>3. CASE MoveTo(Finish(stack, Exit(stack, env, how), r))
  <2> DEFINE x == Exit(stack, env, how)
             m == Finish(stack, x, r)
  <2>1. x.defers = env.defers /\ WellNested(stack, x)
    <3>1. Exit(stack, env, how).defers = env.defers
      BY <1>1 DEF Exit, Envs
    <3>2. QED
      BY <1>1, <3>1, EnvMarked
  <2>2. MoveTo(m)
    BY <1>3
  <2> HIDE DEF x
  <2>3. Simple(stack, x) /\ PendingLists(stack, x) = PendingLists(stack, env)
    BY <1>1, <2>1, EnvSimple DEF SameLists
  <2>4. SameLists(stack, x, m.stack, m.env)
    BY <1>1, <2>3, FinishLists
  <2> HIDE DEF m
  <2>5. SameLists(stack, env, m.stack, m.env)
    BY <2>3, <2>4 DEF SameLists
  <2>6. QED
    BY <2>2, <2>5, SimMove
<1>4. QED
  BY <1>2, <1>3

LEMMA InitSim == Init => SimInv /\ Abstract!Init
<1> SUFFICES ASSUME Init PROVE SimInv /\ Abstract!Init
  OBVIOUS
<1> DEFINE f == Frame("fn", TRUE, "start", "none", Fresh(0, 0, <<>>))
<1>1. stack = <<f>> /\ f.todo = <<>> /\ env.defers = <<>> /\ fates = <<>> /\ f.form = "fn"
      /\ f.phase = "run"
  BY DEF Init, Frame, Fresh
<1>2. SoundInv /\ WellNested(stack, env)
  BY InitSound, InitNests DEF IInv
<1> HIDE DEF f
<1>3. Len(stack) = 1 /\ stack[1] = f /\ stack # <<>>
  BY <1>1
<1>4. Activations(stack, 1) = 1
  <2>1. stack[0 + 1].form = "fn" /\ 0 + 1 = 1 /\ 0 \in Nat
    BY <1>1, <1>3
  <2>2. Activations(stack, 0 + 1) = 0 + 1
    BY <2>1, CountIs
  <2>3. QED
    BY <2>1, <2>2
<1>5. Covered(stack)
  <2>1. Innermost(stack, 1)
    BY <1>3 DEF Innermost
  <2>2. QED
    BY <1>3, <1>4, <2>1 DEF Covered
<1>6. Simple(stack, env)
  BY <1>1, <1>2, <1>3, <1>5 DEF Simple, Listed, Plain, Emptied
<1>7. PendingLists(stack, env) = << <<>> >>
  <2> DEFINE a == PendingLists(stack, env)
  <2>1. PendingOf(stack, env, 1) = <<>>
    <3>1. PendingOf(stack, env, 1) \in Seq(Pendings) /\ Len(PendingOf(stack, env, 1)) = 0
      <4>1. Laid(PendingOf(stack, env, Len(stack)), env.defers, stack[Len(stack)].todo)
        BY <1>2, <1>3, TopPending
      <4>2. Len(env.defers) = 0 /\ Len(stack[1].todo) = 0
        BY <1>1, <1>3
      <4>3. QED
        BY <1>3, <4>1, <4>2 DEF Laid
    <3>2. QED
      BY <3>1
  <2>2. /\ a \in Seq(Seq(Pendings)) /\ Len(a) = Activations(stack, Len(stack))
        /\ \A i \in 1..Len(stack) : Innermost(stack, i) => a[Activations(stack, i)] = PendingOf(stack, env, i)
    BY <1>6, ListsType DEF Simple
  <2>3. Innermost(stack, 1) /\ 1 \in 1..Len(stack)
    BY <1>3 DEF Innermost
  <2>4. Len(a) = 1 /\ a[1] = <<>>
    BY <1>3, <1>4, <2>1, <2>2, <2>3
  <2> HIDE DEF a
  <2>5. a = <<a[1]>>
    BY <2>2, <2>4
  <2>6. QED
    BY <2>4, <2>5 DEF a
<1>8. QED
  BY <1>1, <1>2, <1>6, <1>7 DEF SimInv, Abstract!Init

LEMMA CallSim == SimInv /\ Call => Simple(stack, env)' /\ Abstract!Enter
<1> SUFFICES ASSUME SimInv, Call PROVE Simple(stack, env)' /\ Abstract!Enter
  OBVIOUS
<1>1. Running /\ Len(stack) < MaxDepth /\ fates' = fates /\ MaxDepth \in Nat
  BY TreeAssumption DEF Call, InBody, CanCall, Room
<1>2. PICK use \in Uses, unwrap \in {"none", "propagate", "panic"} :
        MoveTo(EnterFn(stack, env, use, unwrap))
  BY DEF Call
<1> DEFINE m == EnterFn(stack, env, use, unwrap)
           a == PendingLists(stack, env)
<1>3. stack # <<>> /\ Simple(stack, env) /\ Len(stack) \in Nat /\ calls \in Nat
  BY <1>1, SimTop
<1>4. Simple(m.stack, m.env) /\ PendingLists(m.stack, m.env) = Append(a, <<>>)
  <2>1. use \in {"stmt", "ret", "rebind", "defer"}
    BY UsesAre
  <2> HIDE DEF m
  <2>2. Entered(stack, env, m)
    BY <1>3, <2>1, EnterLists DEF m
  <2> HIDE DEF a
  <2>3. QED
    BY <2>2 DEF Entered, a
<1>5. stack' = m.stack /\ env' = m.env
  BY <1>2 DEF MoveTo
<1>6. Len(a) \in Nat \ {0} /\ a # <<>> /\ Len(a) <= Len(stack)
  BY <1>3, ActsIs
<1> HIDE DEF m
<1>7. Simple(stack', env') /\ PendingLists(stack', env') = Append(a, <<>>)
  BY <1>4, <1>5
<1> HIDE DEF a
<1>8. Len(a) < MaxDepth
  BY <1>1, <1>3, <1>6
<1>9. QED
  BY <1>1, <1>6, <1>7, <1>8 DEF Abstract!Enter, Abstract!Active, a

LEMMA FailSim == SimInv /\ Fail => Simple(stack, env)' /\ UNCHANGED Abstract!vars
<1> SUFFICES ASSUME SimInv, Fail PROVE Simple(stack, env)' /\ UNCHANGED Abstract!vars
  OBVIOUS
<1>1. Running /\ Top.phase # "drain" /\ fates' = fates
  BY DEF Fail, InBody
<1>2. QED
  BY <1>1, EndSim, ResultTypes DEF Fail

LEMMA PropagateSim == SimInv /\ Propagate => Simple(stack, env)' /\ UNCHANGED Abstract!vars
<1> SUFFICES ASSUME SimInv, Propagate PROVE Simple(stack, env)' /\ UNCHANGED Abstract!vars
  OBVIOUS
<1>1. PICK v \in {"nil", "Err"} :
        MoveTo(Finish(stack, Exit(stack, env, "propagate"), Res("return", v)))
  BY DEF Propagate
<1>2. Res("return", v) \in Results
  BY ResultTypes DEF Kinds, Values
<1>3. Running /\ Top.phase # "drain" /\ fates' = fates
  BY DEF Propagate, InBody
<1>4. QED
  BY <1>1, <1>2, <1>3, EndSim

LEMMA RetSim == SimInv /\ Ret => Simple(stack, env)' /\ UNCHANGED Abstract!vars
<1> SUFFICES ASSUME SimInv, Ret PROVE Simple(stack, env)' /\ UNCHANGED Abstract!vars
  OBVIOUS
<1>1. PICK v \in Values : MoveTo(Finish(stack, Exit(stack, env, "ret"), Res("return", v)))
  BY DEF Ret
<1>2. Res("return", v) \in Results
  BY ResultTypes DEF Kinds
<1>3. Running /\ Top.phase # "drain" /\ fates' = fates
  BY DEF Ret, InBody
<1>4. QED
  BY <1>1, <1>2, <1>3, EndSim

LEMMA TailCallSim == SimInv /\ TailCall => Simple(stack, env)' /\ UNCHANGED Abstract!vars
<1> SUFFICES ASSUME SimInv, TailCall PROVE Simple(stack, env)' /\ UNCHANGED Abstract!vars
  OBVIOUS
<1>1. Res("tail", "nil") \in Results
  BY ResultTypes DEF Kinds, Values
<1>2. \/ MoveTo(Finish(stack, env, Res("tail", "nil")))
      \/ MoveTo(Finish(stack, Exit(stack, env, "ret"), Res("tail", "nil")))
  BY DEF TailCall
<1>3. Running /\ Top.phase # "drain" /\ fates' = fates
  BY DEF TailCall, InBody
<1>4. QED
  BY <1>1, <1>2, <1>3, EndSim

LEMMA BreakOrContinueSim == SimInv /\ BreakOrContinue => Simple(stack, env)' /\ UNCHANGED Abstract!vars
<1> SUFFICES ASSUME SimInv, BreakOrContinue PROVE Simple(stack, env)' /\ UNCHANGED Abstract!vars
  OBVIOUS
<1>1. PICK r \in {Res("break", v) : v \in Values} \cup {Res("continue", "nil")} :
        MoveTo(Finish(stack, env, r))
  BY DEF BreakOrContinue
<1>2. r \in Results
  BY ResultTypes DEF Kinds, Values
<1>3. Running /\ Top.phase # "drain" /\ fates' = fates
  BY DEF BreakOrContinue, InBody
<1>4. QED
  BY <1>1, <1>2, <1>3, EndSim

LEMMA BodyEndSim == SimInv /\ BodyEnd => Simple(stack, env)' /\ UNCHANGED Abstract!vars
<1> SUFFICES ASSUME SimInv, BodyEnd PROVE Simple(stack, env)' /\ UNCHANGED Abstract!vars
  OBVIOUS
<1>1. PICK v \in Values : MoveTo(Finish(stack, env, Res("value", v)))
  BY DEF BodyEnd
<1>2. Res("value", v) \in Results
  BY ResultTypes DEF Kinds
<1>3. Running /\ Top.phase # "drain" /\ fates' = fates
  BY DEF BodyEnd, InBody
<1>4. QED
  BY <1>1, <1>2, <1>3, EndSim

LEMMA DeferSim == SimInv /\ Defer => Simple(stack, env)' /\ Abstract!Register
<1> SUFFICES ASSUME SimInv, Defer PROVE Simple(stack, env)' /\ Abstract!Register
  OBVIOUS
<1>1. /\ stack # <<>> /\ stack \in Seq(Frames) /\ env \in Envs /\ Simple(stack, env)
      /\ fates \in Seq({"pending", "ran", "skipped"}) /\ Len(fates) \in Nat
      /\ stack[Len(stack)].phase = "run" /\ stack[Len(stack)].todo = <<>>
  BY SimTop DEF Defer, InBody
<1>2. PICK kind \in {"Always", "OnError"} :
        env' = [env EXCEPT !.defers =
                  Append(@, [id |-> Len(fates) + 1, kind |-> kind,
                             owner |-> env.owner, depth |-> env.depth])]
  BY DEF Defer
<1> DEFINE d == [id |-> Len(fates) + 1, kind |-> kind, owner |-> env.owner, depth |-> env.depth]
           a == PendingLists(stack, env)
<1>3. d \in Entries /\ Pend(d) = Abstract!Entry(kind)
  BY <1>1 DEF Entries, Envs, Pend, Abstract!Entry
<1>4. env.defers \in Seq(Entries) /\ env' = [env EXCEPT !.defers = Append(env.defers, d)]
  BY <1>1, <1>2, EnvParts
<1> HIDE DEF d
<1>5. env'.defers = Append(env.defers, d)
  BY <1>1, <1>4 DEF Envs
<1>6. stack' = stack /\ fates' = Append(fates, "pending") /\ IInv' /\ Len(fates) < MaxDefers
  BY DeferInv DEF SimInv, SoundInv, Defer
<1>7. WellNested(stack, env')
  BY <1>6 DEF IInv
<1>8. /\ Simple(stack, env') /\ Len(a) \in Nat \ {0}
      /\ PendingLists(stack, env') = [a EXCEPT ![Len(a)] = Append(a[Len(a)], Pend(d))]
  BY <1>1, <1>3, <1>5, <1>7, GrowLists
<1>9. a # <<>>
  BY <1>1, ActsIs
<1> HIDE DEF a
<1>10. PendingLists(stack', env') = [a EXCEPT ![Len(a)] = Append(a[Len(a)], Abstract!Entry(kind))]
  BY <1>3, <1>6, <1>8
<1>11. Abstract!Register
  BY <1>6, <1>9, <1>10
  DEF Abstract!Register, Abstract!Active, Abstract!WithMine, Abstract!Mine, a
<1>12. QED
  BY <1>6, <1>8, <1>11

LEMMA BlockSim == SimInv /\ Block => Simple(stack, env)' /\ UNCHANGED Abstract!vars
<1> SUFFICES ASSUME SimInv, Block PROVE Simple(stack, env)' /\ UNCHANGED Abstract!vars
  OBVIOUS
<1>1. /\ WellNested(stack, env) /\ stack # <<>> /\ env \in Envs /\ Top \in Frames
      /\ Simple(stack, env) /\ stack[Len(stack)].todo = <<>>
  BY SimTop DEF Block, InBody
<1>2. PICK form \in Forms, use \in Uses :
        MoveTo(OpenBlock(stack, Taken(use, env), form, Top.tail, use))
  BY DEF Block
<1>3. form \in Blocks /\ Top.tail \in BOOLEAN /\ use \in {"stmt", "ret", "rebind"}
  BY <1>1, TreeAssumption, UsesAre DEF Frames
<1> DEFINE x == Taken(use, env)
           m == OpenBlock(stack, x, form, Top.tail, use)
<1>4. WellNested(stack, x) /\ x.defers = env.defers
  BY <1>1, TakenIs, EnvChanges
<1>5. fates' = fates /\ MoveTo(m)
  BY <1>2 DEF Block
<1> HIDE DEF x
<1>6. Simple(stack, x) /\ PendingLists(stack, x) = PendingLists(stack, env)
  BY <1>1, <1>4, EnvSimple DEF SameLists
<1>7. SameLists(stack, x, m.stack, m.env)
  BY <1>1, <1>3, <1>6, OpenLists
<1> HIDE DEF m
<1>8. SameLists(stack, env, m.stack, m.env)
  BY <1>6, <1>7 DEF SameLists
<1>9. QED
  BY <1>5, <1>8, SimMove

LEMMA TrampolineSim == SimInv /\ Trampoline => Simple(stack, env)' /\ UNCHANGED Abstract!vars
<1> SUFFICES ASSUME SimInv, Trampoline PROVE Simple(stack, env)' /\ UNCHANGED Abstract!vars
  OBVIOUS
<1>1. /\ WellNested(stack, env) /\ stack # <<>> /\ Top = stack[Len(stack)] /\ Top \in Frames
      /\ stack \in Seq(Frames) /\ env \in Envs /\ Simple(stack, env)
      /\ Running /\ Top.phase # "drain" /\ fates' = fates
  BY SimTop DEF Trampoline
<1>2. CASE MoveTo(At(SetTop(stack, [Top EXCEPT !.phase = "run"]),
                     Fresh(calls + 1, env.depth, env.defers)))
  <2> DEFINE g == [Top EXCEPT !.phase = "run"]
             x == Fresh(calls + 1, env.depth, env.defers)
             t == SetTop(stack, g)
             n == Len(stack)
             a == PendingLists(stack, env)
  <2>1. /\ g \in Frames /\ g.form = stack[n].form /\ g.saved = stack[n].saved
        /\ g.use = stack[n].use /\ g.todo = stack[n].todo /\ g.phase = "run"
    BY <1>1 DEF Frames
  <2>2. x.defers = env.defers
    BY DEF Fresh
  <2>3. stack' = t /\ env' = x
    BY <1>2 DEF At, MoveTo
  <2>4. t = SetTop(stack, g)
    OBVIOUS
  <2> HIDE DEF g, x, t
  <2>5. WellNested(t, x)
    <3>1. IInv'
      BY TrampolineInv DEF SimInv, SoundInv
    <3>2. QED
      BY <2>3, <3>1 DEF IInv
  <2>6. /\ Simple(t, x) /\ Len(a) \in Nat \ {0} /\ Len(t) = n /\ t[n] = g
        /\ a[Len(a)] = PendingOf(stack, env, n)
        /\ PendingLists(t, x) = [a EXCEPT ![Len(a)] = PendingOf(t, x, n)]
    BY <1>1, <2>1, <2>4, <2>5, TopSimple
  <2>7. PendingOf(t, x, n) = PendingOf(stack, env, n)
    <3>1. EnvAt(t, x, n) = x /\ EnvAt(stack, env, n) = env
      BY <2>6 DEF EnvAt
    <3>2. QED
      BY <2>1, <2>2, <2>6, <3>1 DEF PendingOf
  <2>8. a \in Seq(Seq(Pendings))
    BY <1>1, ActsIs
  <2> HIDE DEF a
  <2>9. PendingLists(t, x) = a
    BY <2>6, <2>7, <2>8
  <2>10. PendingLists(stack', env') = PendingLists(stack, env) /\ Simple(stack', env')
    BY <2>3, <2>6, <2>9 DEF a
  <2>11. QED
    BY <1>1, <2>10 DEF Abstract!vars
<1>3. CASE MoveTo(Finish(stack, env, Failed))
  <2>1. Failed \in Results
    BY ResultTypes
  <2>2. QED
    BY <1>1, <1>3, <2>1, EndSim
<1>4. QED
  BY <1>2, <1>3 DEF Trampoline

\* The next entry of a drain is the youngest pending cleanup.
LEMMA DrainSim ==
  ASSUME SimInv, Drain, "deferarm" \notin Features
  PROVE  Simple(stack, env)' /\ Abstract!Resolve
<1>1. /\ WellNested(stack, env) /\ stack # <<>> /\ Top = stack[Len(stack)] /\ Top \in Frames
      /\ stack \in Seq(Frames) /\ env \in Envs /\ Simple(stack, env)
      /\ Top.todo # <<>> /\ Top.phase = "drain" /\ Len(stack) \in Nat /\ calls \in Nat
  BY SimTop DEF Drain
<1> DEFINE f == [Top EXCEPT !.todo = Tail(@)]
           d == Head(Top.todo)
           a == PendingLists(stack, env)
           p == a[Len(a)]
           rest == [a EXCEPT ![Len(a)] = SubSeq(p, 1, Len(p) - 1)]
<1>2. Top.todo \in Seq(Entries) /\ Tail(Top.todo) \in Seq(Entries) /\ d \in Entries
  <2>1. Top.todo \in Seq(Entries)
    BY <1>1 DEF Frames
  <2>2. QED
    BY <1>1, <2>1, HeadTailProperties
<1>3. /\ f \in Frames /\ f.form = Top.form /\ f.use = Top.use /\ f.saved = Top.saved
      /\ f.phase = "drain" /\ f.todo = Tail(Top.todo)
  BY <1>1, <1>2 DEF Frames
<1>4. Advanced = SetTop(stack, f)
  BY DEF Advanced
<1> HIDE DEF f
<1>5. WellNested(Advanced, env)
  <2>1. f.form # "fn" => Extends(env.defers, f.saved.defers)
    BY <1>1, <1>3 DEF WellNested, DefersNest, EnvAt
  <2>2. QED
    BY <1>1, <1>3, <1>4, <2>1, TopChanges
<1>6. /\ Simple(Advanced, env) /\ Advanced # <<>>
      /\ Len(a) \in Nat \ {0} /\ p # <<>> /\ p[Len(p)] = Pend(d)
      /\ PendingLists(Advanced, env) = rest
  <2>1. LET b == PendingLists(stack, env)
            q == b[Len(b)]
        IN  /\ Simple(Advanced, env) /\ Advanced # <<>>
            /\ Len(b) \in Nat \ {0} /\ q # <<>>
            /\ q[Len(q)] = Pend(Head(stack[Len(stack)].todo))
            /\ PendingLists(Advanced, env) = [b EXCEPT ![Len(b)] = SubSeq(q, 1, Len(q) - 1)]
    BY <1>1, <1>3, <1>4, <1>5, AdvanceLists
  <2>2. QED
    BY <1>1, <2>1
<1>7. a \in Seq(Seq(Pendings)) /\ a # <<>> /\ Len(a) <= Len(stack)
  BY <1>1, ActsIs
<1>8. \/ d.kind = "OnError" /\ fates' = [fates EXCEPT ![d.id] = "skipped"] /\ MoveTo(At(Advanced, env))
      \/ fates' = [fates EXCEPT ![d.id] = "ran"] /\ MoveTo(At(Advanced, env))
      \/ /\ fates' = [fates EXCEPT ![d.id] = "ran"]
         /\ CanCall /\ MoveTo(EnterFn(Advanced, env, "defer", "none"))
  <2>1. d.kind \in {"Always", "OnError"}
    BY <1>2 DEF Entries
  <2>2. ~ShouldRun(Top, d) => d.kind = "OnError"
    BY <2>1 DEF ShouldRun
  <2>3. /\ fates' = [fates EXCEPT ![d.id] = IF ShouldRun(Top, d) THEN "ran" ELSE "skipped"]
        /\ \/ MoveTo(At(Advanced, env))
           \/ /\ ShouldRun(Top, d) /\ CanCall
              /\ MoveTo(EnterFn(Advanced, env, "defer", "none"))
    BY DEF Drain
  <2> HIDE DEF d
  <2>4. CASE ShouldRun(Top, d)
    BY <2>3, <2>4
  <2>5. CASE ~ShouldRun(Top, d)
    BY <2>2, <2>3, <2>5
  <2>6. QED
    BY <2>4, <2>5
<1>9. Pend(d).kind = d.kind /\ Pend(d).id = d.id
  BY DEF Pend
<1> HIDE DEF d
<1>10. CASE MoveTo(At(Advanced, env))
  <2>1. stack' = Advanced /\ env' = env
    BY <1>10 DEF MoveTo, At
  <2>2. Simple(stack', env') /\ PendingLists(stack', env') = rest
    BY <1>6, <2>1
  <2>3. \/ d.kind = "OnError" /\ fates' = [fates EXCEPT ![d.id] = "skipped"]
        \/ fates' = [fates EXCEPT ![d.id] = "ran"]
    BY <1>8
  <2> HIDE DEF a
  <2>4. Abstract!Resolve
    BY <1>6, <1>7, <1>9, <2>2, <2>3
    DEF Abstract!Resolve, Abstract!Active, Abstract!Mine, Abstract!WithMine, Abstract!AllButLast, a
  <2>5. QED
    BY <2>2, <2>4
<1>11. CASE /\ fates' = [fates EXCEPT ![d.id] = "ran"]
            /\ CanCall /\ MoveTo(EnterFn(Advanced, env, "defer", "none"))
  <2> DEFINE m == EnterFn(Advanced, env, "defer", "none")
  <2>1. Simple(m.stack, m.env) /\ PendingLists(m.stack, m.env) = Append(PendingLists(Advanced, env), <<>>)
    BY <1>1, <1>6, EnterLists DEF Entered
  <2>2. stack' = m.stack /\ env' = m.env
    BY <1>11 DEF MoveTo
  <2> HIDE DEF m
  <2>3. Simple(stack', env') /\ PendingLists(stack', env') = Append(rest, <<>>)
    BY <1>6, <2>1, <2>2
  <2>4. Len(a) < MaxDepth
    <3>1. Len(stack) < MaxDepth /\ MaxDepth \in Nat
      BY <1>11, TreeAssumption DEF CanCall, Room
    <3> HIDE DEF a
    <3>2. QED
      BY <1>1, <1>6, <1>7, <3>1
  <2> HIDE DEF a
  <2>5. Abstract!Resolve
    BY <1>6, <1>7, <1>9, <1>11, <2>3, <2>4
    DEF Abstract!Resolve, Abstract!Active, Abstract!Mine, Abstract!WithMine, Abstract!AllButLast, a
  <2>6. QED
    BY <2>3, <2>5
<1>12. QED
  BY <1>8, <1>10, <1>11

\* A function returns: it has drained, so its list is empty.
LEMMA LeaveFnSim == SimInv /\ LeaveFn => Simple(stack, env)' /\ Abstract!Leave
<1> SUFFICES ASSUME SimInv, LeaveFn PROVE Simple(stack, env)' /\ Abstract!Leave
  OBVIOUS
<1>1. /\ WellNested(stack, env) /\ stack # <<>> /\ Top = stack[Len(stack)] /\ Top \in Frames
      /\ Simple(stack, env) /\ Shaped(stack) /\ Len(stack) \in 1..Len(stack) /\ Len(stack) \in Nat
      /\ stack \in Seq(Frames)
  BY SimTop DEF LeaveFn, Leaving
<1>2. /\ Top.use \in {"start", "stmt", "ret", "rebind", "defer"} /\ Top.res \in Results
      /\ Top.unwrap \in {"none", "propagate", "panic"}
      /\ stack[Len(stack)].form = "fn" /\ stack[Len(stack)].todo = <<>>
      /\ stack[Len(stack)].phase = "drain" /\ fates' = fates
  BY <1>1 DEF LeaveFn, Leaving, Frames, Results
<1> DEFINE r == Returned(Top.res)
           o == IF r = Failed THEN r ELSE Unwrapped(Top.unwrap, r.v)
           x == Top.saved
           a == PendingLists(stack, env)
           t == Pop(stack)
           m == Deliver(t, x, Top.use, o)
<1>3. o \in Outcomes
  BY <1>2, ReturnedType
<1>4. MoveTo(m)
  BY DEF LeaveFn, Restored
<1> HIDE DEF o
<1>5. /\ Simple(t, x) /\ Len(a) \in Nat \ {0}
      /\ a[Len(a)] = PendingOf(stack, env, Len(stack))
      /\ PendingLists(t, x) = SubSeq(a, 1, Len(a) - 1)
  <2>1. LET u == Pop(stack)
            y == stack[Len(stack)].saved
            b == PendingLists(stack, env)
        IN  /\ Simple(u, y) /\ Len(b) \in Nat \ {0}
            /\ b[Len(b)] = PendingOf(stack, env, Len(stack))
            /\ PendingLists(u, y) = SubSeq(b, 1, Len(b) - 1)
    BY <1>1, <1>2, LeaveFnLists
  <2>2. QED
    BY <1>1, <2>1
<1>6. PendingOf(stack, env, Len(stack)) = <<>>
  <2> DEFINE p == PendingOf(stack, env, Len(stack))
  <2>1. EnvAt(stack, env, Len(stack)) = env /\ env.defers = <<>>
    <3>1. EnvAt(stack, env, Len(stack)) = env
      BY DEF EnvAt
    <3>2. EnvAt(stack, env, Len(stack)).defers = <<>>
      BY <1>1, <1>2 DEF Simple, Emptied
    <3>3. QED
      BY <3>1, <3>2
  <2>2. Laid(p, env.defers, stack[Len(stack)].todo)
    BY <1>1, TopPending
  <2> HIDE DEF p
  <2>3. p \in Seq(Pendings) /\ Len(p) = 0
    <3>1. Len(env.defers) = 0 /\ Len(stack[Len(stack)].todo) = 0
      BY <1>2, <2>1
    <3>2. QED
      BY <2>2, <3>1 DEF Laid
  <2>4. p = <<>>
    BY <2>3
  <2>5. QED
    BY <2>4 DEF p
<1>7. Top.use \notin {"start", "defer"} => t # <<>> /\ t[Len(t)].todo = <<>>
  <2> SUFFICES ASSUME Top.use \notin {"start", "defer"} PROVE t # <<>> /\ t[Len(t)].todo = <<>>
    OBVIOUS
  <2>1. Len(stack) # 1
    BY <1>1 DEF WellNested, Grounded
  <2>2. Len(stack) > 1 /\ Len(stack) - 1 \in 1..Len(stack)
    <3>1. \A k \in Nat : k \in 1..k /\ k # 1 => k > 1 /\ k - 1 \in 1..k
      OBVIOUS
    <3> HIDE DEF t, a
    <3>2. QED
      BY <1>1, <2>1, <3>1
  <2>3. stack[Len(stack) - 1].phase = "run"
    BY <1>1, <2>2 DEF Shaped
  <2>4. stack[Len(stack) - 1].todo = <<>>
    BY <1>1, <2>2, <2>3 DEF Shaped
  <2>5. Len(t) \in Nat /\ Len(stack) = Len(t) + 1 /\ \A i \in 1..Len(t) : t[i] = stack[i]
    BY <1>1, PopIs
  <2> HIDE DEF t
  <2>6. Len(stack) - 1 = Len(t) /\ Len(t) \in 1..Len(t) /\ Len(t) # 0
    BY <2>2, <2>5
  <2>7. t # <<>>
    BY <2>6
  <2>8. QED
    BY <2>4, <2>5, <2>6, <2>7
<1> HIDE DEF x
<1>8. SameLists(t, x, m.stack, m.env)
  <2> HIDE DEF t
  <2>1. QED
    BY <1>2, <1>3, <1>5, <1>7, DeliverLists
<1> HIDE DEF m, t
<1>9. stack' = m.stack /\ env' = m.env
  BY <1>4 DEF MoveTo
<1>10. Simple(stack', env') /\ PendingLists(stack', env') = SubSeq(a, 1, Len(a) - 1)
  BY <1>5, <1>8, <1>9 DEF SameLists
<1>11. a # <<>>
  BY <1>1, ActsIs
<1> HIDE DEF a
<1>12. Abstract!Leave
  BY <1>2, <1>5, <1>6, <1>10, <1>11
  DEF Abstract!Leave, Abstract!Active, Abstract!Mine, Abstract!AllButLast, a
<1>13. QED
  BY <1>10, <1>12

\* The body around a block takes the list over.
LEMMA BlockLeftSim ==
  ASSUME SimInv, Leaving, Top.form # "fn"
  PROVE  LET s == Pop(stack)
             e == Unscoped(Top, env)
         IN  /\ SameLists(stack, env, s, e) /\ s # <<>> /\ s[Len(s)].todo = <<>>
             /\ Top.res \in Results /\ Top.use \in {"stmt", "ret", "rebind"} /\ WellNested(s, e)
<1>1. /\ WellNested(stack, env) /\ stack # <<>> /\ Top = stack[Len(stack)] /\ Top \in Frames
      /\ Simple(stack, env) /\ Shaped(stack) /\ Len(stack) \in 1..Len(stack) /\ Len(stack) \in Nat
      /\ stack \in Seq(Frames) /\ env \in Envs
  BY SimTop DEF Leaving
<1>2. stack[Len(stack)].form # "fn" /\ stack[Len(stack)].todo = <<>>
  BY <1>1 DEF Leaving
<1> DEFINE e == Unscoped(Top, env)
<1>3. WellNested(Pop(stack), e) /\ Top.res \in Results
  BY LeftBlock DEF SimInv, SoundInv
<1>4. e.defers = env.defers
  BY <1>1, <1>2, UnscopedIs
<1> HIDE DEF e
<1>5. /\ SameLists(stack, env, Pop(stack), e)
      /\ Pop(stack) # <<>> /\ Pop(stack)[Len(Pop(stack))].todo = <<>>
  BY <1>1, <1>2, <1>3, <1>4, LeaveBlockLists
<1>6. Top.use \in {"stmt", "ret", "rebind"}
  <2>1. Top.use \in {"start", "stmt", "ret", "rebind", "defer"}
    BY <1>1 DEF Frames
  <2>2. Top.use # "defer"
    BY <1>1, <1>2 DEF Simple, Plain
  <2>3. Top.use # "start"
    <3>1. Len(stack) # 1
      BY <1>1, <1>2 DEF WellNested, Grounded
    <3>2. \A k \in Nat : k \in 1..k /\ k # 1 => k > 1
      OBVIOUS
    <3>3. Len(stack) > 1
      BY <1>1, <3>1, <3>2
    <3>4. QED
      BY <1>1, <3>3 DEF Shaped
  <2>4. QED
    BY <2>1, <2>2, <2>3
<1>7. QED
  BY <1>3, <1>5, <1>6 DEF e

LEMMA LeaveArmSim == SimInv /\ LeaveArm => Simple(stack, env)' /\ UNCHANGED Abstract!vars
<1> SUFFICES ASSUME SimInv, LeaveArm PROVE Simple(stack, env)' /\ UNCHANGED Abstract!vars
  OBVIOUS
<1> DEFINE s == Pop(stack)
           u == Unscoped(Top, env)
           e2 == Ignored(Top, u)
           o == Returned(Top.res)
           m == Deliver(s, e2, Top.use, o)
<1>1. /\ SameLists(stack, env, s, u) /\ s # <<>> /\ s[Len(s)].todo = <<>>
      /\ Top.res \in Results /\ Top.use \in {"stmt", "ret", "rebind"} /\ WellNested(s, u)
  BY BlockLeftSim DEF LeaveArm
<1>2. o \in Outcomes
  BY <1>1, ReturnedType DEF LeaveArm
<1>3. e2 = u
  BY <1>1 DEF Ignored
<1>4. fates' = fates /\ MoveTo(m)
  BY DEF LeaveArm
<1> HIDE DEF s, u, e2, o
<1>5. m = Deliver(s, u, Top.use, o)
  BY <1>3
<1>6. SameLists(s, u, m.stack, m.env)
  BY <1>1, <1>2, <1>5, DeliverLists DEF SameLists
<1> HIDE DEF m
<1>7. SameLists(stack, env, m.stack, m.env)
  BY <1>1, <1>6 DEF SameLists
<1>8. QED
  BY <1>4, <1>7, SimMove

LEMMA LeaveBlockSim == SimInv /\ LeaveBlock => Simple(stack, env)' /\ UNCHANGED Abstract!vars
<1> SUFFICES ASSUME SimInv, LeaveBlock PROVE Simple(stack, env)' /\ UNCHANGED Abstract!vars
  OBVIOUS
<1> DEFINE s == Pop(stack)
           e == Unscoped(Top, env)
           r == Top.res
<1>1. /\ SameLists(stack, env, s, e) /\ s # <<>> /\ s[Len(s)].todo = <<>> /\ r \in Results
  BY BlockLeftSim DEF LeaveBlock
<1>2. fates' = fates
  BY DEF LeaveBlock
<1>3. Res("return", r.v) \in Results
  BY <1>1, ResultTypes DEF Results, Kinds
<1>4. \E q \in Results : MoveTo(At(s, e)) \/ MoveTo(Finish(s, e, q))
  BY <1>1, <1>3 DEF LeaveBlock
<1> HIDE DEF s, e, r
<1>5. CASE MoveTo(At(s, e))
  <2>1. SameLists(stack, env, At(s, e).stack, At(s, e).env)
    BY <1>1 DEF At
  <2>2. QED
    BY <1>2, <1>5, <2>1, SimMove
<1>6. ASSUME NEW q \in Results, MoveTo(Finish(s, e, q))
      PROVE  Simple(stack, env)' /\ UNCHANGED Abstract!vars
  <2> DEFINE m == Finish(s, e, q)
  <2>1. SameLists(s, e, m.stack, m.env)
    BY <1>1, FinishLists DEF SameLists
  <2>2. MoveTo(m)
    BY <1>6
  <2> HIDE DEF m
  <2>3. SameLists(stack, env, m.stack, m.env)
    BY <1>1, <2>1 DEF SameLists
  <2>4. QED
    BY <1>2, <2>2, <2>3, SimMove
<1>7. QED
  BY <1>4, <1>5, <1>6

LEMMA LeaveLoopSim == SimInv /\ LeaveLoop => Simple(stack, env)' /\ UNCHANGED Abstract!vars
<1> SUFFICES ASSUME SimInv, LeaveLoop PROVE Simple(stack, env)' /\ UNCHANGED Abstract!vars
  OBVIOUS
<1> DEFINE s == Pop(stack)
           e == Unscoped(Top, env)
           r == Top.res
<1>1. /\ SameLists(stack, env, s, e) /\ s # <<>> /\ s[Len(s)].todo = <<>> /\ r \in Results
      /\ Top.form \in Blocks
  BY BlockLeftSim DEF LeaveLoop, Loops, Blocks
<1>2. fates' = fates
  BY DEF LeaveLoop
<1>3. \/ MoveTo(Finish(s, e, r))
      \/ MoveTo(At(s, e))
      \/ MoveTo(OpenBlock(s, e, Top.form, FALSE, "stmt"))
  BY DEF LeaveLoop
<1> HIDE DEF s, e, r
<1>4. CASE MoveTo(At(s, e))
  <2>1. SameLists(stack, env, At(s, e).stack, At(s, e).env)
    BY <1>1 DEF At
  <2>2. QED
    BY <1>2, <1>4, <2>1, SimMove
<1>5. CASE MoveTo(Finish(s, e, r))
  <2> DEFINE m == Finish(s, e, r)
  <2>1. SameLists(s, e, m.stack, m.env)
    BY <1>1, FinishLists DEF SameLists
  <2>2. MoveTo(m)
    BY <1>5
  <2> HIDE DEF m
  <2>3. SameLists(stack, env, m.stack, m.env)
    BY <1>1, <2>1 DEF SameLists
  <2>4. QED
    BY <1>2, <2>2, <2>3, SimMove
<1>6. CASE MoveTo(OpenBlock(s, e, Top.form, FALSE, "stmt"))
  <2> DEFINE m == OpenBlock(s, e, Top.form, FALSE, "stmt")
  <2>1. SameLists(s, e, m.stack, m.env)
    BY <1>1, OpenLists DEF SameLists
  <2>2. MoveTo(m)
    BY <1>6
  <2> HIDE DEF m
  <2>3. SameLists(stack, env, m.stack, m.env)
    BY <1>1, <2>1 DEF SameLists
  <2>4. QED
    BY <1>2, <2>2, <2>3, SimMove
<1>7. QED
  BY <1>3, <1>4, <1>5, <1>6

LEMMA TailCallEscapesSim ==
  SimInv /\ TailCallEscapes => Simple(stack, env)' /\ UNCHANGED Abstract!vars
<1> SUFFICES ASSUME SimInv, TailCallEscapes PROVE Simple(stack, env)' /\ UNCHANGED Abstract!vars
  OBVIOUS
<1>1. stack' = stack /\ env' = env /\ fates' = fates /\ Simple(stack, env)
  BY DEF TailCallEscapes, SimInv
<1>2. QED
  BY <1>1 DEF Abstract!vars

-----------------------------------------------------------------------------
\* Every step of the interpreter is one of the abstract specification, or none.
LEMMA NextSim ==
  ASSUME SimInv, Next, "deferarm" \notin Features
  PROVE  Simple(stack, env)' /\ [Abstract!Next]_(Abstract!vars)
<1>1. CASE Call
  BY <1>1, CallSim DEF Abstract!Next
<1>2. CASE Fail
  BY <1>2, FailSim
<1>3. CASE Propagate
  BY <1>3, PropagateSim
<1>4. CASE Ret
  BY <1>4, RetSim
<1>5. CASE TailCall
  BY <1>5, TailCallSim
<1>6. CASE BreakOrContinue
  BY <1>6, BreakOrContinueSim
<1>7. CASE BodyEnd
  BY <1>7, BodyEndSim
<1>8. CASE Defer
  BY <1>8, DeferSim DEF Abstract!Next
<1>9. CASE Block
  BY <1>9, BlockSim
<1>10. CASE Trampoline
  BY <1>10, TrampolineSim
<1>11. CASE Drain
  BY <1>11, DrainSim DEF Abstract!Next
<1>12. CASE LeaveFn
  BY <1>12, LeaveFnSim DEF Abstract!Next
<1>13. CASE LeaveArm
  BY <1>13, LeaveArmSim
<1>14. CASE LeaveBlock
  BY <1>14, LeaveBlockSim
<1>15. CASE LeaveLoop
  BY <1>15, LeaveLoopSim
<1>16. CASE TailCallEscapes
  BY <1>16, TailCallEscapesSim
<1>17. QED
  BY <1>1, <1>2, <1>3, <1>4, <1>5, <1>6, <1>7, <1>8, <1>9, <1>10, <1>11, <1>12, <1>13, <1>14,
     <1>15, <1>16 DEF Next

\* The interpreter implements the cleanup discipline, in programs in which no
\* deferred expression is itself a match that defers.
THEOREM Implements == ASSUME "deferarm" \notin Features PROVE Spec => CleanupSpec
<1>1. Init => SimInv /\ Abstract!Init
  BY InitSim
<1>2. SimInv /\ [Next]_vars /\ SoundInv' => SimInv' /\ [Abstract!Next]_(Abstract!vars)
  <2> SUFFICES ASSUME SimInv, [Next]_vars, SoundInv' PROVE SimInv' /\ [Abstract!Next]_(Abstract!vars)
    OBVIOUS
  <2>1. CASE Next
    BY <2>1, NextSim DEF SimInv
  <2>2. CASE UNCHANGED vars
    <3>1. stack' = stack /\ env' = env /\ fates' = fates /\ Simple(stack, env)
      BY <2>2 DEF vars, SimInv
    <3>2. QED
      BY <3>1 DEF SimInv, Abstract!vars
  <2>3. QED
    BY <2>1, <2>2
<1>3. Spec => []SoundInv
  BY Soundness
<1>4. QED
  BY <1>1, <1>2, <1>3, PTL DEF Spec, CleanupSpec, Abstract!Spec

-----------------------------------------------------------------------------
(***************************************************************************)
(* What module Cleanup promises follows from its steps alone, and so for   *)
(* the interpreter.  The invariant is inductive as the conjunction of its  *)
(* parts: without InOrder a cleanup could be resolved in one list and      *)
(* still wait in another, without PendingIffWaiting a resolved number      *)
(* could come back.                                                        *)
(***************************************************************************)
\* The lists of pending cleanups, as module Cleanup has them.
acts == PendingLists(stack, env)

Promise == INSTANCE Cleanup WITH MaxActs <- MaxDepth

\* In place k of the list n stands the cleanup id.
Stands(a, n, k, id) == n \in 1..Len(a) /\ k \in 1..Len(a[n]) /\ a[n][k].id = id

\* Place k of list n comes before place l of list m.
Before(n, k, m, l) == n < m \/ (n = m /\ k < l)

\* The properties of module Cleanup, of lists a and fates f.
ListsTyped(a, f) == a \in Seq(Seq(Promise!Cleanups)) /\ f \in Seq({"pending", "ran", "skipped"})

AllWaiting(a, f) ==
  /\ \A n, k, id : Stands(a, n, k, id) => id \in 1..Len(f) /\ f[id] = "pending"
  /\ \A id \in 1..Len(f) : f[id] = "pending" => \E n, k : Stands(a, n, k, id)

Ordered(a) ==
  \A n, k, x, m, l, y :
    Stands(a, n, k, x) /\ Stands(a, m, l, y) /\ Before(n, k, m, l) => x < y

Kept(a, f) == ListsTyped(a, f) /\ AllWaiting(a, f) /\ Ordered(a)

\* From lists a to lists b: id has come to place q of list p, or that place is gone.
Comes(a, b, p, q, id) ==
  \A n, k, x : Stands(b, n, k, x) <=> Stands(a, n, k, x) \/ (n = p /\ k = q /\ x = id)

Goes(a, b, p, q) ==
  \A n, k, x : Stands(b, n, k, x) <=> Stands(a, n, k, x) /\ ~(n = p /\ k = q)

\* Place q of list p comes before none of a, and after all others.
Beyond(a, p, q) == \A n, k, x : Stands(a, n, k, x) => ~Before(p, q, n, k)
IsLast(a, p, q) == \A n, k, x : Stands(a, n, k, x) /\ ~(n = p /\ k = q) => Before(n, k, p, q)

\* From fates f to fates g: a cleanup more is pending, or the one at old no longer is.
OneMore(f, g) ==
  /\ Len(f) \in Nat /\ Len(g) = Len(f) + 1 /\ g[Len(f) + 1] = "pending"
  /\ \A id \in 1..Len(f) : g[id] = f[id]

OneLess(f, g, old) ==
  /\ Len(f) \in Nat /\ Len(g) = Len(f) /\ g[old] # "pending"
  /\ \A id \in 1..Len(f) : id # old => g[id] = f[id]

(***************************************************************************)
(* The three things that happen to the places: nothing, a new last one, or *)
(* the last one goes.                                                      *)
(***************************************************************************)
LEMMA PlacesSame ==
  ASSUME NEW a, NEW f, NEW b, AllWaiting(a, f), Ordered(a),
         \A n, k, id : Stands(b, n, k, id) <=> Stands(a, n, k, id)
  PROVE  AllWaiting(b, f) /\ Ordered(b)
<1>1. AllWaiting(b, f)
  BY DEF AllWaiting
<1>2. Ordered(b)
  BY DEF Ordered
<1>3. QED
  BY <1>1, <1>2

\* The number of a new cleanup is greater than all others.
LEMMA PlaceAdded ==
  ASSUME NEW a, NEW f, NEW b, NEW g, AllWaiting(a, f), Ordered(a), OneMore(f, g),
         NEW p, NEW q, Comes(a, b, p, q, Len(f) + 1), Beyond(a, p, q), ~Before(p, q, p, q)
  PROVE  AllWaiting(b, g) /\ Ordered(b)
<1> DEFINE new == Len(f) + 1
<1>a. Len(f) \in Nat /\ Len(g) = new /\ g[new] = "pending" /\ \A id \in 1..Len(f) : g[id] = f[id]
  BY DEF OneMore
<1>b. \A n, k, x : Stands(b, n, k, x) <=> Stands(a, n, k, x) \/ (n = p /\ k = q /\ x = new)
  BY DEF Comes
<1>c. new = Len(f) + 1
  OBVIOUS
<1> HIDE DEF new
<1>1. /\ new \in 1..new
      /\ \A id \in 1..Len(f) : id \in 1..new /\ id # new /\ id < new
      /\ \A id \in 1..new : id = new \/ id \in 1..Len(f)
  BY <1>a, <1>c
<1>2. \A n, k, id : Stands(a, n, k, id) => id \in 1..Len(f) /\ f[id] = "pending"
  BY DEF AllWaiting
<1>3. \A n, k, id : Stands(b, n, k, id) => id \in 1..new /\ g[id] = "pending"
  BY <1>a, <1>b, <1>1, <1>2
<1>4. ASSUME NEW id \in 1..new, g[id] = "pending" PROVE \E n, k : Stands(b, n, k, id)
  <2>1. CASE id = new
    BY <1>b, <2>1
  <2>2. CASE id \in 1..Len(f)
    <3>1. PICK n, k : Stands(a, n, k, id)
      BY <1>a, <1>4, <2>2 DEF AllWaiting
    <3>2. QED
      BY <1>b, <3>1
  <2>3. QED
    BY <1>1, <2>1, <2>2
<1>5. AllWaiting(b, g)
  BY <1>a, <1>3, <1>4 DEF AllWaiting
<1>6. ASSUME NEW n, NEW k, NEW x, NEW m, NEW l, NEW y,
             Stands(b, n, k, x), Stands(b, m, l, y), Before(n, k, m, l)
      PROVE  x < y
  <2>1. ~(n = p /\ k = q)
    <3>1. CASE m = p /\ l = q
      BY <1>6, <3>1
    <3>2. CASE Stands(a, m, l, y)
      BY <1>6, <3>2 DEF Beyond
    <3>3. QED
      BY <1>b, <1>6, <3>1, <3>2
  <2>2. Stands(a, n, k, x)
    BY <1>b, <1>6, <2>1
  <2>3. CASE Stands(a, m, l, y)
    BY <1>6, <2>2, <2>3 DEF Ordered
  <2>4. CASE y = new
    BY <1>1, <1>2, <2>2, <2>4
  <2>5. QED
    BY <1>b, <1>6, <2>3, <2>4
<1>7. Ordered(b)
  BY <1>6 DEF Ordered
<1>8. QED
  BY <1>5, <1>7

\* The last place has the greatest number, which no other place has.
LEMMA PlaceRemoved ==
  ASSUME NEW a, NEW f, NEW b, NEW g, AllWaiting(a, f), Ordered(a), NEW p, NEW q, NEW old,
         Stands(a, p, q, old), OneLess(f, g, old), Goes(a, b, p, q), IsLast(a, p, q)
  PROVE  AllWaiting(b, g) /\ Ordered(b)
<1>a. /\ Len(f) \in Nat /\ Len(g) = Len(f) /\ g[old] # "pending"
      /\ \A id \in 1..Len(f) : id # old => g[id] = f[id]
  BY DEF OneLess
<1>b. \A n, k, x : Stands(b, n, k, x) <=> Stands(a, n, k, x) /\ ~(n = p /\ k = q)
  BY DEF Goes
<1>1. \A n, k, id : Stands(a, n, k, id) => id \in 1..Len(f) /\ f[id] = "pending"
  BY DEF AllWaiting
<1>2. ASSUME NEW n, NEW k, NEW id, Stands(b, n, k, id)
      PROVE  Stands(a, n, k, id) /\ id # old
  <2>1. Stands(a, n, k, id) /\ Before(n, k, p, q)
    BY <1>b, <1>2 DEF IsLast
  <2>2. id < old
    BY <2>1 DEF Ordered
  <2>3. id \in Nat /\ old \in Nat
    BY <1>1, <1>a, <2>1
  <2>4. QED
    BY <2>1, <2>2, <2>3
<1>3. \A n, k, id : Stands(b, n, k, id) => id \in 1..Len(g) /\ g[id] = "pending"
  BY <1>a, <1>1, <1>2
<1>4. ASSUME NEW id \in 1..Len(g), g[id] = "pending" PROVE \E n, k : Stands(b, n, k, id)
  <2>1. id # old /\ f[id] = "pending"
    BY <1>a, <1>4
  <2>2. PICK n, k : Stands(a, n, k, id)
    BY <1>a, <1>4, <2>1 DEF AllWaiting
  <2>3. ~(n = p /\ k = q)
    BY <2>1, <2>2 DEF Stands
  <2>4. QED
    BY <1>b, <2>2, <2>3
<1>5. AllWaiting(b, g)
  BY <1>a, <1>3, <1>4 DEF AllWaiting
<1>6. Ordered(b)
  BY <1>2 DEF Ordered
<1>7. QED
  BY <1>5, <1>6

-----------------------------------------------------------------------------
\* What AllButLast returns.
LEMMA AllButLastIs ==
  ASSUME NEW S, NEW s \in Seq(S), s # <<>>
  PROVE  /\ Promise!AllButLast(s) \in Seq(S)
         /\ Len(s) \in Nat \ {0}
         /\ Len(Promise!AllButLast(s)) = Len(s) - 1
         /\ \A i \in 1..(Len(s) - 1) : Promise!AllButLast(s)[i] = s[i]
         /\ s[Len(s)] \in S
<1> DEFINE m == Len(s) - 1
<1>1. Len(s) \in Nat \ {0} /\ \A i \in 1..Len(s) : s[i] \in S
  OBVIOUS
<1>2. m \in Nat /\ \A i \in 1..m : s[i] \in S
  BY <1>1
<1>3. /\ SubSeq(s, 1, m) \in Seq(S)
      /\ Len(SubSeq(s, 1, m)) = m
      /\ \A i \in 1..m : SubSeq(s, 1, m)[i] = s[i]
  <2> HIDE DEF m
  <2> QED
    BY <1>2, SubSeqProperties
<1>4. QED
  BY <1>1, <1>3 DEF Promise!AllButLast

\* What Append and EXCEPT do to a sequence.
LEMMA AppendedIs ==
  ASSUME NEW S, NEW s \in Seq(S), NEW x \in S
  PROVE  /\ Append(s, x) \in Seq(S)
         /\ Len(s) \in Nat /\ Len(Append(s, x)) = Len(s) + 1
         /\ \A i \in 1..Len(s) : Append(s, x)[i] = s[i]
         /\ Append(s, x)[Len(s) + 1] = x
  OBVIOUS

LEMMA LastReplacedIs ==
  ASSUME NEW S, NEW s \in Seq(S), s # <<>>, NEW x \in S
  PROVE  LET t == [s EXCEPT ![Len(s)] = x]
         IN  /\ t \in Seq(S) /\ Len(t) = Len(s) /\ Len(s) \in Nat \ {0}
             /\ t[Len(s)] = x /\ s[Len(s)] \in S
             /\ \A i \in 1..Len(s) : i # Len(s) => t[i] = s[i]
  OBVIOUS

\* An empty list more at the end: the places are the same.
LEMMA EmptyListAdded ==
  ASSUME NEW S, NEW a \in Seq(Seq(S)), NEW n, NEW k, NEW id
  PROVE  Stands(Append(a, <<>>), n, k, id) <=> Stands(a, n, k, id)
<1> DEFINE b == Append(a, <<>>)
<1>1. /\ Len(a) \in Nat /\ Len(b) = Len(a) + 1
      /\ (\A i \in 1..Len(a) : b[i] = a[i]) /\ b[Len(a) + 1] = <<>>
  <2>1. <<>> \in Seq(S)
    OBVIOUS
  <2>2. QED
    BY <2>1, AppendedIs
<1> HIDE DEF b
<1>2. CASE n \in 1..Len(a)
  <2>1. n \in 1..Len(b) /\ b[n] = a[n]
    BY <1>1, <1>2
  <2>2. QED
    BY <1>2, <2>1 DEF Stands, b
<1>3. CASE n = Len(a) + 1
  <2>1. ~(n \in 1..Len(a)) /\ Len(b[n]) = 0
    BY <1>1, <1>3
  <2>2. QED
    BY <2>1 DEF Stands, b
<1>4. CASE n \notin 1..Len(a) /\ n # Len(a) + 1
  <2>1. n \notin 1..Len(b)
    BY <1>1, <1>4
  <2>2. QED
    BY <1>4, <2>1 DEF Stands, b
<1>5. QED
  BY <1>2, <1>3, <1>4

-----------------------------------------------------------------------------
LEMMA PromiseInit == Promise!Init => Kept(acts, fates)
<1> SUFFICES ASSUME NEW a, NEW f, a = << <<>> >>, f = <<>> PROVE Kept(a, f)
  BY DEF Promise!Init
<1>1. ListsTyped(a, f)
  <2>1. <<>> \in Seq(Promise!Cleanups) /\ << <<>> >> \in Seq(Seq(Promise!Cleanups))
    OBVIOUS
  <2>2. QED
    BY <2>1 DEF ListsTyped
<1>2. a[1] = <<>> /\ Len(a) = 1 /\ Len(f) = 0
  OBVIOUS
<1>3. \A n, k, id : ~Stands(a, n, k, id)
  BY <1>2 DEF Stands
<1>4. AllWaiting(a, f) /\ Ordered(a)
  BY <1>2, <1>3 DEF AllWaiting, Ordered
<1>5. QED
  BY <1>1, <1>4 DEF Kept

\* An activation begins: an empty list is added.
LEMMA PromiseEnter == Kept(acts, fates) /\ Promise!Enter => Kept(acts', fates')
<1>1. ASSUME NEW a, NEW f, Kept(a, f) PROVE Kept(Append(a, <<>>), f)
  <2>1. ListsTyped(Append(a, <<>>), f) /\ a \in Seq(Seq(Promise!Cleanups))
    <3>1. a \in Seq(Seq(Promise!Cleanups)) /\ <<>> \in Seq(Promise!Cleanups)
      BY <1>1 DEF Kept, ListsTyped
    <3>2. QED
      BY <1>1, <3>1, AppendedIs DEF Kept, ListsTyped
  <2>2. \A n, k, id : Stands(Append(a, <<>>), n, k, id) <=> Stands(a, n, k, id)
    BY <2>1, EmptyListAdded
  <2>3. QED
    BY <1>1, <2>1, <2>2, PlacesSame DEF Kept
<1>2. QED
  BY <1>1 DEF Promise!Enter

\* An activation returns: its list is empty and goes.
LEMMA PromiseLeave == Kept(acts, fates) /\ Promise!Leave => Kept(acts', fates')
<1>1. ASSUME NEW a, NEW f, Kept(a, f), a # <<>>, a[Len(a)] = <<>>
      PROVE  Kept(Promise!AllButLast(a), f)
  <2> DEFINE b == Promise!AllButLast(a)
  <2>1. a \in Seq(Seq(Promise!Cleanups))
    BY <1>1 DEF Kept, ListsTyped
  <2>2. /\ b \in Seq(Seq(Promise!Cleanups))
        /\ Len(a) \in Nat \ {0}
        /\ Len(b) = Len(a) - 1
        /\ \A n \in 1..(Len(a) - 1) : b[n] = a[n]
    BY <1>1, <2>1, AllButLastIs
  <2> HIDE DEF b
  <2>3. ASSUME NEW n, NEW k, NEW id PROVE Stands(b, n, k, id) <=> Stands(a, n, k, id)
    <3>1. CASE n \in 1..(Len(a) - 1)
      <4>1. n \in 1..Len(a) /\ n \in 1..Len(b) /\ b[n] = a[n]
        BY <2>2, <3>1
      <4>2. QED
        BY <4>1 DEF Stands
    <3>2. CASE n = Len(a)
      <4>1. n \notin 1..Len(b) /\ Len(a[n]) = 0
        BY <1>1, <2>2, <3>2
      <4>2. QED
        BY <4>1 DEF Stands
    <3>3. CASE n \notin 1..Len(a)
      <4>1. n \notin 1..Len(b)
        BY <2>2, <3>3
      <4>2. QED
        BY <3>3, <4>1 DEF Stands
    <3>4. QED
      BY <2>2, <3>1, <3>2, <3>3
  <2>4. ListsTyped(b, f)
    BY <1>1, <2>2 DEF Kept, ListsTyped
  <2>5. QED
    BY <1>1, <2>3, <2>4, PlacesSame DEF Kept, b
<1>2. QED
  BY <1>1 DEF Promise!Leave, Promise!Active, Promise!Mine

\* A place comes at the end of the last list, or the last place of it goes.
LastGrown(a, b, last, size, id) ==
  /\ last \in Nat \ {0} /\ Len(a) = last /\ Len(b) = last
  /\ \A n \in 1..last : n # last => b[n] = a[n]
  /\ size \in Nat /\ Len(a[last]) = size /\ Len(b[last]) = size + 1
  /\ \A k \in 1..size : b[last][k] = a[last][k]
  /\ b[last][size + 1].id = id

LastShrunk(a, b, last, size) ==
  /\ last \in Nat \ {0} /\ Len(a) = last /\ Len(b) = last
  /\ \A n \in 1..last : n # last => b[n] = a[n]
  /\ size \in Nat \ {0} /\ Len(a[last]) = size /\ Len(b[last]) = size - 1
  /\ \A k \in 1..(size - 1) : b[last][k] = a[last][k]

LEMMA PlaceComes ==
  ASSUME NEW a, NEW b, NEW last, NEW size, NEW id, LastGrown(a, b, last, size, id)
  PROVE  /\ Comes(a, b, last, size + 1, id)
         /\ Beyond(a, last, size + 1)
         /\ ~Before(last, size + 1, last, size + 1)
<1> USE DEF LastGrown
<1>1. ASSUME NEW n, NEW k, NEW x
      PROVE  Stands(b, n, k, x) <=> Stands(a, n, k, x) \/ (n = last /\ k = size + 1 /\ x = id)
  <2>1. CASE n # last
    BY <2>1 DEF Stands
  <2>2. CASE n = last
    <3>1. n \in 1..Len(a) /\ n \in 1..Len(b)
      BY <2>2
    <3>2. CASE k \in 1..size
      <4>1. k \in 1..(size + 1) /\ k # size + 1
        BY <3>2
      <4>2. QED
        BY <2>2, <3>1, <3>2, <4>1 DEF Stands
    <3>3. CASE k = size + 1
      <4>1. k \in 1..(size + 1) /\ k \notin 1..size
        BY <3>3
      <4>2. QED
        BY <2>2, <3>1, <3>3, <4>1 DEF Stands
    <3>4. CASE k \notin 1..size /\ k # size + 1
      <4>1. k \notin 1..(size + 1)
        BY <3>4
      <4>2. QED
        BY <2>2, <3>4, <4>1 DEF Stands
    <3>5. QED
      BY <3>2, <3>3, <3>4
  <2>3. QED
    BY <2>1, <2>2
<1>2. ASSUME NEW n, NEW k, NEW x, Stands(a, n, k, x) PROVE ~Before(last, size + 1, n, k)
  <2>1. n \in 1..last /\ k \in 1..Len(a[n])
    BY <1>2 DEF Stands
  <2>2. ~(last < n)
    BY <2>1
  <2>3. CASE n # last
    BY <2>2, <2>3 DEF Before
  <2>4. CASE n = last
    <3>1. k \in 1..size
      BY <2>1, <2>4
    <3>2. ~(size + 1 < k)
      BY <3>1
    <3>3. QED
      BY <2>2, <3>2 DEF Before
  <2>5. QED
    BY <2>3, <2>4
<1>3. ~Before(last, size + 1, last, size + 1)
  BY DEF Before
<1>4. QED
  BY <1>1, <1>2, <1>3 DEF Comes, Beyond

LEMMA PlaceGoes ==
  ASSUME NEW a, NEW b, NEW last, NEW size, LastShrunk(a, b, last, size)
  PROVE  Goes(a, b, last, size) /\ IsLast(a, last, size) /\ Stands(a, last, size, a[last][size].id)
<1> USE DEF LastShrunk
<1>1. ASSUME NEW n, NEW k, NEW x
      PROVE  Stands(b, n, k, x) <=> Stands(a, n, k, x) /\ ~(n = last /\ k = size)
  <2>1. CASE n # last
    BY <2>1 DEF Stands
  <2>2. CASE n = last
    <3>1. n \in 1..Len(a) /\ n \in 1..Len(b)
      BY <2>2
    <3>2. CASE k \in 1..(size - 1)
      <4>1. k \in 1..size /\ k # size
        BY <3>2
      <4>2. QED
        BY <2>2, <3>1, <3>2, <4>1 DEF Stands
    <3>3. CASE k \notin 1..(size - 1)
      <4>1. k = size \/ k \notin 1..size
        BY <3>3
      <4>2. QED
        BY <2>2, <3>3, <4>1 DEF Stands
    <3>4. QED
      BY <3>2, <3>3
  <2>3. QED
    BY <2>1, <2>2
<1>2. ASSUME NEW n, NEW k, NEW x, Stands(a, n, k, x), ~(n = last /\ k = size)
      PROVE  Before(n, k, last, size)
  <2>1. n \in 1..last /\ k \in 1..Len(a[n])
    BY <1>2 DEF Stands
  <2>2. CASE n # last
    <3>1. n < last
      BY <2>1, <2>2
    <3>2. QED
      BY <3>1 DEF Before
  <2>3. CASE n = last
    <3>1. k \in 1..size /\ k # size
      BY <1>2, <2>1, <2>3
    <3>2. k < size
      BY <3>1
    <3>3. QED
      BY <2>3, <3>2 DEF Before
  <2>4. QED
    BY <2>2, <2>3
<1>3. last \in 1..last /\ size \in 1..size
  OBVIOUS
<1>4. QED
  BY <1>1, <1>2, <1>3 DEF Goes, IsLast, Stands

\* The newest number goes to the end of the last list.
LEMMA RegisterKeeps ==
  ASSUME NEW a, NEW f, Kept(a, f), a # <<>>, NEW c \in Promise!Cleanups, c.id = Len(f) + 1,
         NEW b, b = [a EXCEPT ![Len(a)] = Append(a[Len(a)], c)],
         NEW g, g = Append(f, "pending")
  PROVE  Kept(b, g)
<1> DEFINE S == Promise!Cleanups
           last == Len(a)
           size == Len(a[last])
           u == Append(a[last], c)
           new == Len(f) + 1
<1>1. a \in Seq(Seq(S)) /\ f \in Seq({"pending", "ran", "skipped"}) /\ AllWaiting(a, f) /\ Ordered(a)
  BY DEF Kept, ListsTyped
<1>2. last \in Nat \ {0} /\ a[last] \in Seq(S)
  <2> HIDE DEF S
  <2> QED
    BY <1>1
<1>3. /\ u \in Seq(S) /\ size \in Nat /\ Len(u) = size + 1
      /\ (\A k \in 1..size : u[k] = a[last][k]) /\ u[size + 1] = c
  <2> HIDE DEF last, S
  <2> QED
    BY <1>2, AppendedIs DEF S
<1> HIDE DEF u, S
<1>4. /\ b \in Seq(Seq(S)) /\ Len(b) = last /\ b[last] = u
      /\ \A n \in 1..last : n # last => b[n] = a[n]
  BY <1>1, <1>3, LastReplacedIs DEF u
<1>5. g \in Seq({"pending", "ran", "skipped"}) /\ OneMore(f, g)
  BY <1>1, AppendedIs DEF OneMore
<1>6. Len(a) = last /\ Len(a[last]) = size /\ c.id = Len(f) + 1
  OBVIOUS
<1> HIDE DEF last, size
<1>7. LastGrown(a, b, last, size, Len(f) + 1)
  BY <1>2, <1>3, <1>4, <1>6 DEF LastGrown
<1>8. /\ Comes(a, b, last, size + 1, Len(f) + 1)
      /\ Beyond(a, last, size + 1)
      /\ ~Before(last, size + 1, last, size + 1)
  BY <1>7, PlaceComes
<1>9. AllWaiting(b, g) /\ Ordered(b)
  BY <1>1, <1>5, <1>8, PlaceAdded
<1>10. QED
  BY <1>4, <1>5, <1>9 DEF Kept, ListsTyped, S

\* A defer statement.
LEMMA PromiseRegister == Kept(acts, fates) /\ Promise!Register => Kept(acts', fates')
<1> SUFFICES ASSUME Kept(acts, fates), Promise!Register PROVE Kept(acts', fates')
  OBVIOUS
<1>1. PICK kind \in {"Always", "OnError"} :
        acts' = [acts EXCEPT ![Len(acts)] = Append(acts[Len(acts)], Promise!Entry(kind))]
  BY DEF Promise!Register, Promise!WithMine, Promise!Mine
<1>2. acts # <<>> /\ fates' = Append(fates, "pending")
  BY DEF Promise!Register, Promise!Active
<1>3. Len(fates) \in Nat
  BY DEF Kept, ListsTyped
<1>4. Promise!Entry(kind) \in Promise!Cleanups /\ Promise!Entry(kind).id = Len(fates) + 1
  BY <1>3 DEF Promise!Entry, Promise!Cleanups
<1>5. QED
  BY <1>1, <1>2, <1>4, RegisterKeeps

\* One cleanup is no longer pending.
LEMMA ResolvedIs ==
  ASSUME NEW f \in Seq({"pending", "ran", "skipped"}), NEW id \in 1..Len(f),
         NEW how \in {"ran", "skipped"}
  PROVE  /\ [f EXCEPT ![id] = how] \in Seq({"pending", "ran", "skipped"})
         /\ OneLess(f, [f EXCEPT ![id] = how], id)
  BY DEF OneLess

\* The last of the last list is resolved and goes.
LEMMA ResolveKeeps ==
  ASSUME NEW a, NEW f, Kept(a, f), a # <<>>, NEW u, u = a[Len(a)], u # <<>>,
         NEW how \in {"ran", "skipped"}, NEW g, g = [f EXCEPT ![u[Len(u)].id] = how],
         NEW b, b = [a EXCEPT ![Len(a)] = Promise!AllButLast(u)]
  PROVE  Kept(b, g)
<1> DEFINE S == Promise!Cleanups
           last == Len(a)
           size == Len(u)
           old == u[size].id
           w == Promise!AllButLast(u)
<1>1. a \in Seq(Seq(S)) /\ f \in Seq({"pending", "ran", "skipped"}) /\ AllWaiting(a, f) /\ Ordered(a)
  BY DEF Kept, ListsTyped
<1>2. last \in Nat \ {0} /\ u \in Seq(S)
  <2> HIDE DEF S
  <2> QED
    BY <1>1
<1>3. /\ w \in Seq(S) /\ size \in Nat \ {0} /\ Len(w) = size - 1
      /\ \A k \in 1..(size - 1) : w[k] = u[k]
  <2> HIDE DEF S
  <2> QED
    BY <1>2, AllButLastIs
<1> HIDE DEF w, S
<1>4. /\ b \in Seq(Seq(S)) /\ Len(b) = last /\ b[last] = w
      /\ \A n \in 1..last : n # last => b[n] = a[n]
  BY <1>1, <1>3, LastReplacedIs DEF w
<1>5. Len(a) = last /\ a[last] = u /\ Len(u) = size /\ u[size].id = old /\ g = [f EXCEPT ![old] = how]
  OBVIOUS
<1> HIDE DEF last, size, old
<1>6. LastShrunk(a, b, last, size)
  BY <1>2, <1>3, <1>4, <1>5 DEF LastShrunk
<1>7. Goes(a, b, last, size) /\ IsLast(a, last, size) /\ Stands(a, last, size, old)
  <2>1. a[last][size].id = old
    BY <1>5
  <2>2. QED
    BY <1>6, <2>1, PlaceGoes
<1>8. old \in 1..Len(f)
  BY <1>1, <1>7 DEF AllWaiting
<1>9. g \in Seq({"pending", "ran", "skipped"}) /\ OneLess(f, g, old)
  <2> DEFINE h == [f EXCEPT ![old] = how]
  <2>1. h \in Seq({"pending", "ran", "skipped"}) /\ OneLess(f, h, old)
    BY <1>1, <1>8, ResolvedIs
  <2>2. g = h
    BY <1>5
  <2>3. QED
    BY <2>1, <2>2
<1>10. AllWaiting(b, g) /\ Ordered(b)
  BY <1>1, <1>7, <1>9, PlaceRemoved
<1>11. QED
  BY <1>4, <1>9, <1>10 DEF Kept, ListsTyped, S

\* The youngest cleanup is skipped, run in place, or run by a call, for which an empty
\* list is added.
LEMMA PromiseResolve == Kept(acts, fates) /\ Promise!Resolve => Kept(acts', fates')
<1> SUFFICES ASSUME Kept(acts, fates), Promise!Resolve PROVE Kept(acts', fates')
  OBVIOUS
<1> DEFINE u == acts[Len(acts)]
           rest == [acts EXCEPT ![Len(acts)] = Promise!AllButLast(u)]
<1>1. acts # <<>> /\ u # <<>>
  BY DEF Promise!Resolve, Promise!Active, Promise!Mine
<1>2. PICK how \in {"ran", "skipped"} :
        fates' = [fates EXCEPT ![u[Len(u)].id] = how] /\ acts' \in {rest, Append(rest, <<>>)}
  BY DEF Promise!Resolve, Promise!WithMine, Promise!Mine
<1>3. Kept(rest, fates')
  BY <1>1, <1>2, ResolveKeeps
<1> HIDE DEF rest
<1>4. CASE acts' = rest
  BY <1>3, <1>4
<1>5. CASE acts' = Append(rest, <<>>)
  <2>1. rest \in Seq(Seq(Promise!Cleanups)) /\ <<>> \in Seq(Promise!Cleanups)
    BY <1>3 DEF Kept, ListsTyped
  <2>2. ListsTyped(acts', fates')
    BY <1>3, <1>5, <2>1, AppendedIs DEF Kept, ListsTyped
  <2>3. \A n, k, id : Stands(acts', n, k, id) <=> Stands(rest, n, k, id)
    BY <1>5, <2>1, EmptyListAdded
  <2>4. QED
    BY <1>3, <2>2, <2>3, PlacesSame DEF Kept
<1>6. QED
  BY <1>2, <1>4, <1>5

-----------------------------------------------------------------------------
LEMMA Promised == ASSUME "deferarm" \notin Features PROVE Spec => Promise!Spec
<1>1. Abstract!Init => Promise!Init
  BY DEF acts, Abstract!Init, Promise!Init
<1>2. Abstract!Enter => Promise!Enter
  BY DEF acts, Abstract!Enter, Abstract!Active, Promise!Enter, Promise!Active
<1>3. Abstract!Register => Promise!Register
  BY DEF acts, Abstract!Register, Abstract!Active, Abstract!WithMine, Abstract!Mine, Abstract!Entry,
         Promise!Register, Promise!Active, Promise!WithMine, Promise!Mine, Promise!Entry
<1>4. Abstract!Resolve => Promise!Resolve
  BY DEF acts, Abstract!Resolve, Abstract!Active, Abstract!WithMine, Abstract!Mine, Abstract!AllButLast,
         Promise!Resolve, Promise!Active, Promise!WithMine, Promise!Mine, Promise!AllButLast
<1>5. Abstract!Leave => Promise!Leave
  BY DEF acts, Abstract!Leave, Abstract!Active, Abstract!Mine, Abstract!AllButLast,
         Promise!Leave, Promise!Active, Promise!Mine, Promise!AllButLast
<1>6. [Abstract!Next]_(Abstract!vars) => [Promise!Next]_(Promise!vars)
  BY <1>2, <1>3, <1>4, <1>5 DEF acts, Abstract!Next, Abstract!vars, Promise!Next, Promise!vars
<1>7. Spec => CleanupSpec
  BY Implements
<1>8. QED
  BY <1>1, <1>6, <1>7, PTL DEF CleanupSpec, Abstract!Spec, Promise!Spec

LEMMA PromiseKept == Promise!Spec => []Kept(acts, fates)
<1>1. Kept(acts, fates) /\ UNCHANGED Promise!vars => Kept(acts', fates')
  BY DEF Promise!vars
<1>2. Kept(acts, fates) /\ [Promise!Next]_(Promise!vars) => Kept(acts', fates')
  BY <1>1, PromiseEnter, PromiseRegister, PromiseResolve, PromiseLeave DEF Promise!Next
<1>3. Kept(acts, fates) /\ [Promise!Next]_(Promise!vars) => Kept(acts, fates)'
  BY <1>2
<1>4. QED
  BY <1>3, PromiseInit, PTL DEF Promise!Spec

\* Module Cleanup loses no cleanup and runs none twice: one is pending exactly while
\* it waits in a list.
THEOREM NothingLost == Promise!Spec => []Promise!PendingIffWaiting
<1>1. Kept(acts, fates) => Promise!PendingIffWaiting
  <2> SUFFICES ASSUME Kept(acts, fates) PROVE Promise!PendingIffWaiting
    OBVIOUS
  <2>1. ASSUME NEW n \in 1..Len(acts), NEW k \in 1..Len(acts[n])
        PROVE  acts[n][k].id \in 1..Len(fates) /\ fates[acts[n][k].id] = "pending"
    <3>1. Stands(acts, n, k, acts[n][k].id)
      BY DEF Stands
    <3>2. QED
      BY <3>1 DEF Kept, AllWaiting
  <2>2. ASSUME NEW id \in 1..Len(fates), fates[id] = "pending"
        PROVE  \E n \in 1..Len(acts) : \E k \in 1..Len(acts[n]) : acts[n][k].id = id
    <3>1. PICK n, k : Stands(acts, n, k, id)
      BY <2>2 DEF Kept, AllWaiting
    <3>2. QED
      BY <3>1 DEF Stands
  <2>3. QED
    BY <2>1, <2>2 DEF Promise!PendingIffWaiting
<1>2. QED
  BY <1>1, PromiseKept, PTL

\* Module Cleanup resolves the cleanups of a list, and of an inner activation, last in
\* first out.
THEOREM LastInFirstOut == Promise!Spec => []Promise!InOrder
<1>1. Kept(acts, fates) => Promise!InOrder
  <2> SUFFICES ASSUME Kept(acts, fates), NEW n \in 1..Len(acts), NEW m \in 1..Len(acts),
                      NEW j \in 1..Len(acts[n]), NEW k \in 1..Len(acts[m]),
                      n < m \/ (n = m /\ j < k)
               PROVE  acts[n][j].id < acts[m][k].id
    BY DEF Promise!InOrder
  <2>1. Stands(acts, n, j, acts[n][j].id) /\ Stands(acts, m, k, acts[m][k].id) /\ Before(n, j, m, k)
    BY DEF Stands, Before
  <2>2. QED
    BY <2>1 DEF Kept, Ordered
<1>2. QED
  BY <1>1, PromiseKept, PTL

\* When the outermost activation of module Cleanup has returned, nothing is pending.
THEOREM ResolvedAtEnd == Promise!Spec => []Promise!AllResolvedAtEnd
<1>1. Kept(acts, fates) => Promise!AllResolvedAtEnd
  <2> SUFFICES ASSUME Kept(acts, fates), acts = <<>>, NEW id \in 1..Len(fates)
               PROVE  fates[id] \in {"ran", "skipped"}
    BY DEF Promise!AllResolvedAtEnd
  <2>1. Len(acts) = 0
    OBVIOUS
  <2>2. fates[id] \in {"pending", "ran", "skipped"}
    BY DEF Kept, ListsTyped
  <2>3. fates[id] # "pending"
    BY <2>1 DEF Kept, AllWaiting, Stands
  <2>4. QED
    BY <2>2, <2>3
<1>2. QED
  BY <1>1, PromiseKept, PTL

\* When the program has ended, no defer statement it executed is pending.
SettledAtEnd == stack = <<>> => \A id \in 1..Len(fates) : fates[id] \in {"ran", "skipped"}

\* The interpreter loses no cleanup and runs none twice, an activation's own cleanups
\* run last in first out and after those of its callees, and at the end none is pending.
THEOREM Disciplined ==
  ASSUME "deferarm" \notin Features
  PROVE  Spec => []Promise!PendingIffWaiting /\ []Promise!InOrder /\ []SettledAtEnd
<1>1. Kept(acts, fates) => SettledAtEnd
  <2> SUFFICES ASSUME Kept(acts, fates), stack = <<>>, NEW id \in 1..Len(fates)
               PROVE  fates[id] \in {"ran", "skipped"}
    BY DEF SettledAtEnd
  <2>1. Activations(stack, 0) = 0
    <3>1. Len(stack) = 0
      OBVIOUS
    <3>2. QED
      BY <3>1, CountIs
  <2>2. acts = [k \in 1..0 |-> PendingOf(stack, env, LastFrame(stack, k))]
    BY <2>1 DEF PendingLists, acts
  <2>3. Len(acts) = 0
    BY <2>2
  <2>4. fates[id] \in {"pending", "ran", "skipped"}
    BY DEF Kept, ListsTyped
  <2>5. fates[id] # "pending"
    BY <2>3 DEF Kept, AllWaiting, Stands
  <2>6. QED
    BY <2>4, <2>5
<1>2. QED
  BY <1>1, Promised, PromiseKept, NothingLost, LastInFirstOut, PTL
=============================================================================
