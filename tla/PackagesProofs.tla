--------------------------- MODULE PackagesProofs ---------------------------
(***************************************************************************)
(* What `ilo add` and `ilo update` leave behind, for every set of packages *)
(* and whatever they use, and what the resolver of imports makes of it.    *)
(* The invariant says what the calls of add_recursive on the host stack    *)
(* owe each other; its parts are about a command c, the graph u of what    *)
(* is followed, and the set g of the packages that are there.              *)
(***************************************************************************)
EXTENDS Packages, FiniteSetTheorems, SequenceTheorems, WellFoundedInduction, TLAPS

LockLines == [pkg : Names, sha : Nat]

\* A commit that exists in the repositories r; and no two for one package.
LineOk(l, r) == IF l.pkg \in Pkgs THEN l.sha <= Len(r[l.pkg]) ELSE l.sha = Unknown
Agree(l, m) == l.pkg = m.pkg => l.sha = m.sha \/ l.sha = Unknown \/ m.sha = Unknown

LinesOk(lines, r) ==
  /\ lines \in Seq(LockLines)
  /\ \A i \in 1..Len(lines) : LineOk(lines[i], r)
  /\ \A i, j \in 1..Len(lines) : Agree(lines[i], lines[j])

Commands == [running : BOOLEAN, queue : Seq(Calls \cup Queued), calls : Seq(Calls),
             visited : SUBSET Pkgs, exit : {0, 1}, faulty : BOOLEAN]

Outcomes == [kind : {"none", "ok", "faulty", "failed", "crashed"}, roots : SUBSET Names]

Types ==
  /\ remote \in [Pkgs -> Seq(Commits) \ {<<>>}]
  /\ cache \in [Pkgs -> Nat]
  /\ \A p \in Pkgs : cache[p] <= Len(remote[p])
  /\ LinesOk(lock, remote)
  /\ unread \subseteq Pkgs
  /\ cmd \in Commands
  /\ outcome \in Outcomes
  /\ events \in 0..MaxEvents

-----------------------------------------------------------------------------
(***************************************************************************)
(* The calls of add_recursive that are on the host stack: all but the last *)
(* are going through their dependencies, none is below one for the same    *)
(* package, and exactly those at their dependencies are marked visited.    *)
(***************************************************************************)
Stacked(c) ==
  /\ \A i \in 1..Len(c.calls) : i # Len(c.calls) => c.calls[i].at = "deps"
  /\ \A i, j \in 1..Len(c.calls) :
       i < j /\ c.calls[j].at # "enter" => c.calls[i].pkg # c.calls[j].pkg
  /\ \A i \in 1..Len(c.calls) : c.calls[i].at # "enter" =>
       (c.calls[i].at = "deps" <=> c.calls[i].pkg \in c.visited)

\* The packages being fetched, and those this cmd_add has fetched with all they use.
Busy(c) == {c.calls[i].pkg : i \in {i \in 1..Len(c.calls) : c.calls[i].at # "enter"}}
Fetched(c) == c.visited \ Busy(c)

(***************************************************************************)
(* What the running cmd_add has fetched is there and uses nothing else,    *)
(* and what a call has still to fetch for its package is known to it.      *)
(***************************************************************************)
Fetching(c, u, g) ==
  /\ c.visited \subseteq g
  /\ \A p \in Fetched(c) : u[p] \subseteq Fetched(c)
  /\ \A i \in 1..Len(c.calls) : c.calls[i].at = "deps" =>
       \A q \in u[c.calls[i].pkg] :
         \/ q \in Fetched(c) \/ q \in c.calls[i].deps
         \/ i # Len(c.calls) /\ c.calls[i + 1].pkg = q

\* No cycle: each set of packages in E has one that uses none of the set.
Tidy(u, E) == \A T \in SUBSET E : T # {} => \E p \in T : u[p] \cap T = {}

\* The packages of E are there, use nothing outside D and have no cycle.
Sound(u, g, D, E) ==
  /\ \A p \in E : p \in g /\ u[p] \subseteq D
  /\ Tidy(u, E)

(***************************************************************************)
(* What all of the command's cmd_adds have fetched so far, D, is sound but *)
(* for the packages being fetched again, and lacks of the packages asked   *)
(* for only those still to be looked at.                                   *)
(***************************************************************************)
Collected(c, roots, u, g, D) ==
  /\ Fetched(c) \subseteq D
  /\ \A p \in roots :
       \/ p \in D
       \/ c.calls # <<>> /\ c.calls[1].pkg = p
       \/ \E i \in 1..Len(c.queue) : c.queue[i].pkg = p
  /\ Sound(u, g, D, D \ Busy(c))

\* The packages with a line for the cached commit, and those that are there.
Locked(lines, k, p) == \E i \in 1..Len(lines) : lines[i].pkg = p /\ lines[i].sha \in {k[p], Unknown}
There(lines, k, exact) == {p \in Pkgs : k[p] # None /\ (exact => Locked(lines, k, p))}

Underway ==
  Running /\ cmd.exit = 0 =>
    /\ Fetching(cmd, Followed, There(lock, cache, ~cmd.faulty))
    /\ \E D \in SUBSET Pkgs :
         Collected(cmd, outcome.roots, Followed, There(lock, cache, ~cmd.faulty), D)

Ended ==
  outcome.kind \in {"ok", "faulty"} =>
    \E D \in SUBSET Pkgs :
      /\ outcome.roots \subseteq D
      /\ Sound(Followed, There(lock, cache, outcome.kind = "ok"), D, D)

\* A running command has not reported; the calls in its queue have not begun; and
\* there is a copy to read when the lockfile is written.
Waiting ==
  /\ Running => outcome.kind = "none"
  /\ \A i \in 1..Len(cmd.queue) : cmd.queue[i].at = "enter"
  /\ \A i \in 1..Len(cmd.calls) : cmd.calls[i].at = "lock" => cache[cmd.calls[i].pkg] # None

IInv == Types /\ Waiting /\ Stacked(cmd) /\ Underway /\ Ended

-----------------------------------------------------------------------------
\* The last call of a command is replaced, popped, or gets one above it.
LEMMA TopIs ==
  ASSUME NEW c \in Commands, c.calls # <<>>
  PROVE  /\ Len(c.calls) \in Nat \ {0} /\ Len(c.calls) \in 1..Len(c.calls)
         /\ \A i \in 1..Len(c.calls) : c.calls[i] \in Calls
         /\ c.calls[Len(c.calls)] \in Calls
  BY DEF Commands

LEMMA WithTopIs ==
  ASSUME cmd \in Commands, cmd.calls # <<>>, NEW t \in Calls
  PROVE  /\ WithTop(t) \in Commands
         /\ WithTop(t) = [cmd EXCEPT !.calls = WithTop(t).calls]
         /\ Len(WithTop(t).calls) = Len(cmd.calls)
         /\ WithTop(t).calls[Len(cmd.calls)] = t
         /\ \A i \in 1..Len(cmd.calls) : i # Len(cmd.calls) => WithTop(t).calls[i] = cmd.calls[i]
<1> DEFINE n == Len(cmd.calls)
<1>1. cmd.calls \in Seq(Calls) /\ n \in 1..n
  BY TopIs DEF Commands
<1>2. WithTop(t) = [cmd EXCEPT !.calls = [cmd.calls EXCEPT ![n] = t]]
  BY DEF WithTop
<1> DEFINE s == [cmd.calls EXCEPT ![n] = t]
<1>3. /\ s \in Seq(Calls) /\ Len(s) = n /\ s[n] = t
      /\ \A i \in 1..n : i # n => s[i] = cmd.calls[i]
  BY <1>1
<1> HIDE DEF s, n
<1>4. QED
  <2>1. WithTop(t) = [cmd EXCEPT !.calls = s]
    BY <1>2 DEF s
  <2>2. QED
    BY <1>3, <2>1 DEF Commands, n

LEMMA PoppedIs ==
  ASSUME NEW c \in Commands, c.calls # <<>>
  PROVE  /\ Popped(c) \in Commands
         /\ Popped(c) = [c EXCEPT !.calls = Popped(c).calls]
         /\ Len(Popped(c).calls) = Len(c.calls) - 1
         /\ \A i \in 1..Len(c.calls) - 1 : Popped(c).calls[i] = c.calls[i]
<1> DEFINE n == Len(c.calls) - 1
           s == SubSeq(c.calls, 1, n)
<1>1. c.calls \in Seq(Calls) /\ n \in Nat /\ \A i \in 1..n : c.calls[i] \in Calls
  BY TopIs DEF Commands
<1>2. Popped(c) = [c EXCEPT !.calls = s]
  BY DEF Popped
<1>3. s \in Seq(Calls) /\ Len(s) = n /\ \A i \in 1..n : s[i] = c.calls[i]
  <2> HIDE DEF n
  <2> QED
    BY <1>1, SubSeqProperties
<1> HIDE DEF s, n
<1>4. QED
  BY <1>2, <1>3 DEF Commands, n

-----------------------------------------------------------------------------
(***************************************************************************)
(* The graph and the cache change only at the package of the last call.    *)
(***************************************************************************)
Elsewhere(u, g, v, h, p) == \A q \in Pkgs \ {p} : v[q] = u[q] /\ (q \in g => q \in h)

LEMMA TidyKept ==
  ASSUME NEW u, NEW v, NEW E, NEW F, Tidy(u, E), F \subseteq E, \A p \in F : v[p] = u[p]
  PROVE  Tidy(v, F)
<1> SUFFICES ASSUME NEW T \in SUBSET F, T # {} PROVE \E p \in T : v[p] \cap T = {}
  BY DEF Tidy
<1>1. T \in SUBSET E
  OBVIOUS
<1>2. PICK p \in T : u[p] \cap T = {}
  BY <1>1 DEF Tidy
<1>3. QED
  BY <1>2

\* A package that uses only members of F, which is closed, makes no cycle.
LEMMA TidyAdded ==
  ASSUME NEW u, NEW E, NEW F, NEW p, Tidy(u, E), F \subseteq E,
         \A q \in F : u[q] \subseteq F, u[p] \subseteq F, p \notin F
  PROVE  Tidy(u, E \cup {p})
<1> SUFFICES ASSUME NEW T \in SUBSET (E \cup {p}), T # {} PROVE \E q \in T : u[q] \cap T = {}
  BY DEF Tidy
<1>1. CASE T \cap F # {}
  <2>1. T \cap F \in SUBSET E
    OBVIOUS
  <2>2. PICK q \in T \cap F : u[q] \cap (T \cap F) = {}
    BY <1>1, <2>1 DEF Tidy
  <2>3. u[q] \subseteq F
    OBVIOUS
  <2>4. QED
    BY <2>2, <2>3
<1>2. CASE T \cap F = {} /\ p \in T
  BY <1>2
<1>3. CASE p \notin T
  <2>1. T \in SUBSET E
    BY <1>3
  <2>2. QED
    BY <2>1 DEF Tidy
<1>4. QED
  BY <1>1, <1>2, <1>3

(***************************************************************************)
(* The last call goes from one step to the next, p being its package: it   *)
(* begins, or works on the cache, or has written the lockfile.             *)
(***************************************************************************)
Advances(c, d, t) ==
  /\ c \in Commands /\ d \in Commands /\ c.calls # <<>>
  /\ Len(d.calls) = Len(c.calls)
  /\ \A i \in 1..Len(c.calls) : i # Len(c.calls) => d.calls[i] = c.calls[i]
  /\ d.calls[Len(c.calls)] = t
  /\ t \in Calls /\ t.at # "enter" /\ t.pkg = c.calls[Len(c.calls)].pkg
  /\ t.pkg \notin c.visited /\ \A i \in 1..Len(c.calls) - 1 : c.calls[i].pkg # t.pkg
  /\ d.visited = IF t.at = "deps" THEN c.visited \cup {t.pkg} ELSE c.visited
  /\ d.queue = c.queue

LEMMA AdvanceStacked ==
  ASSUME NEW c, NEW d, NEW t, Advances(c, d, t), Stacked(c)
  PROVE  Stacked(d) /\ Busy(d) = Busy(c) \cup {t.pkg} /\ Fetched(d) = Fetched(c)
<1> DEFINE n == Len(c.calls)
<1>1. /\ n \in Nat \ {0} /\ n \in 1..n /\ \A i \in 1..n : i # n <=> i \in 1..n - 1
      /\ Len(d.calls) = n
  BY TopIs DEF Advances
<1> HIDE DEF n
<1>2. /\ \A i \in 1..n : i # n => d.calls[i] = c.calls[i] /\ c.calls[i].pkg # t.pkg /\ c.calls[i].at = "deps"
      /\ d.calls[n] = t /\ c.calls[n].pkg = t.pkg /\ t.at # "enter"
      /\ t.pkg \notin c.visited
      /\ d.visited = IF t.at = "deps" THEN c.visited \cup {t.pkg} ELSE c.visited
  BY <1>1 DEF Advances, Stacked, n
<1>3. \A i \in 1..n : c.calls[i].at # "enter" => (c.calls[i].at = "deps" <=> c.calls[i].pkg \in c.visited)
  BY DEF Stacked, n
<1>4. \A i \in 1..n : d.calls[i].at # "enter" => (d.calls[i].at = "deps" <=> d.calls[i].pkg \in d.visited)
  BY <1>2, <1>3
<1>5. \A i, j \in 1..n : i < j /\ c.calls[j].at # "enter" => c.calls[i].pkg # c.calls[j].pkg
  BY DEF Stacked, n
<1>6. \A i, j \in 1..n : i < j => d.calls[i].pkg # d.calls[j].pkg
  <2> SUFFICES ASSUME NEW i \in 1..n, NEW j \in 1..n, i < j PROVE d.calls[i].pkg # d.calls[j].pkg
    OBVIOUS
  <2>1. i # n
    BY <1>1
  <2>2. CASE j = n
    BY <1>2, <2>1, <2>2
  <2>3. CASE j # n
    BY <1>2, <1>5, <2>1, <2>3
  <2>4. QED
    BY <2>2, <2>3
<1>7. Stacked(d)
  BY <1>1, <1>2, <1>4, <1>6 DEF Stacked
<1>8. Busy(d) = {d.calls[i].pkg : i \in 1..n}
  BY <1>1, <1>2 DEF Busy
<1>9. {d.calls[i].pkg : i \in 1..n} = Busy(c) \cup {t.pkg}
  <2>1. \A i \in 1..n : d.calls[i].pkg \in Busy(c) \cup {t.pkg}
    BY <1>2 DEF Busy, n
  <2>2. \A i \in 1..n : d.calls[i].pkg = c.calls[i].pkg
    BY <1>2
  <2>3. Busy(c) \cup {t.pkg} \subseteq {d.calls[i].pkg : i \in 1..n}
    BY <1>1, <1>2, <2>2 DEF Busy, n
  <2>4. QED
    BY <2>1, <2>3
<1>10. Fetched(d) = Fetched(c)
  BY <1>2, <1>8, <1>9 DEF Fetched
<1>11. QED
  BY <1>7, <1>8, <1>9, <1>10

LEMMA AdvanceFetching ==
  ASSUME NEW c, NEW d, NEW t, Advances(c, d, t), Stacked(c),
         NEW u, NEW g, NEW v, NEW h, Elsewhere(u, g, v, h, t.pkg),
         t.at = "deps" => t.pkg \in h /\ v[t.pkg] \subseteq t.deps,
         Fetching(c, u, g)
  PROVE  Fetching(d, v, h)
<1> DEFINE n == Len(c.calls)
<1>1. n \in Nat \ {0} /\ n \in 1..n /\ Len(d.calls) = n
  BY TopIs DEF Advances
<1>2. c.visited \subseteq Pkgs /\ \A i \in 1..n : c.calls[i].pkg \in Pkgs
  <2>1. c \in Commands /\ c.calls # <<>>
    BY DEF Advances
  <2>2. \A i \in 1..n : c.calls[i] \in Calls
    BY <2>1, TopIs
  <2>3. QED
    BY <2>1, <2>2 DEF Commands, Calls
<1>3. Fetched(d) = Fetched(c)
  BY AdvanceStacked
<1>4. t.pkg \notin c.visited /\ d.visited \subseteq c.visited \cup {t.pkg}
      /\ (t.pkg \in d.visited => t.at = "deps")
  BY DEF Advances
<1>5. d.visited \subseteq h
  BY <1>2, <1>4 DEF Fetching, Elsewhere
<1>6. \A p \in Fetched(d) : v[p] \subseteq Fetched(d)
  <2>1. \A p \in Fetched(c) : p \in Pkgs \ {t.pkg}
    BY <1>2, <1>4 DEF Fetched
  <2>2. QED
    BY <1>3, <2>1 DEF Fetching, Elsewhere
<1>7. ASSUME NEW i \in 1..n, d.calls[i].at = "deps", NEW q \in v[d.calls[i].pkg]
      PROVE  \/ q \in Fetched(d) \/ q \in d.calls[i].deps
             \/ i # n /\ d.calls[i + 1].pkg = q
  <2>1. CASE i = n
    <3>1. d.calls[i] = t
      BY <2>1 DEF Advances
    <3>2. QED
      BY <1>7, <3>1
  <2>2. CASE i # n
    <3>1. /\ d.calls[i] = c.calls[i] /\ c.calls[i].pkg # t.pkg /\ c.calls[i].pkg \in Pkgs
          /\ d.calls[i + 1].pkg = c.calls[i + 1].pkg
      <4>1. i \in 1..n - 1 /\ i + 1 \in 1..n
        BY <1>1, <2>2
      <4>2. QED
        BY <1>2, <2>2, <4>1 DEF Advances
    <3>2. q \in u[c.calls[i].pkg] /\ c.calls[i].at = "deps"
      BY <1>7, <3>1 DEF Elsewhere
    <3>3. \/ q \in Fetched(c) \/ q \in c.calls[i].deps
          \/ i # n /\ c.calls[i + 1].pkg = q
      BY <3>2 DEF Fetching
    <3>4. QED
      BY <1>3, <3>1, <3>3
  <2>3. QED
    BY <2>1, <2>2
<1>8. QED
  BY <1>1, <1>5, <1>6, <1>7 DEF Fetching

LEMMA AdvanceCollected ==
  ASSUME NEW c, NEW d, NEW t, Advances(c, d, t), Stacked(c),
         NEW u, NEW g, NEW v, NEW h, Elsewhere(u, g, v, h, t.pkg),
         NEW D \in SUBSET Pkgs, NEW roots, Collected(c, roots, u, g, D)
  PROVE  Collected(d, roots, v, h, D)
<1> DEFINE n == Len(c.calls)
<1>1. n \in Nat \ {0} /\ n \in 1..n /\ Len(d.calls) = n /\ 1 \in 1..n
  BY TopIs DEF Advances
<1>2. Busy(d) = Busy(c) \cup {t.pkg} /\ Fetched(d) = Fetched(c)
  BY AdvanceStacked
<1>3. d.calls[1].pkg = c.calls[1].pkg /\ d.queue = c.queue /\ d.calls # <<>>
  BY <1>1 DEF Advances
<1>4. Sound(v, h, D, D \ Busy(d))
  <2>1. \A p \in D \ Busy(d) : p \in D \ Busy(c) /\ p \in Pkgs \ {t.pkg}
    BY <1>2
  <2>2. \A p \in D \ Busy(d) : v[p] = u[p] /\ p \in h /\ v[p] \subseteq D
    BY <2>1 DEF Elsewhere, Collected, Sound
  <2>3. Tidy(v, D \ Busy(d))
    BY <2>1, <2>2, TidyKept DEF Collected, Sound
  <2>4. QED
    BY <2>2, <2>3 DEF Sound
<1>5. QED
  BY <1>2, <1>3, <1>4 DEF Collected

-----------------------------------------------------------------------------
(***************************************************************************)
(* The last call goes: it has nothing left to fetch, or its package has    *)
(* been fetched already.                                                   *)
(***************************************************************************)
Goes(c, d) ==
  /\ c \in Commands /\ d \in Commands /\ c.calls # <<>>
  /\ Len(d.calls) = Len(c.calls) - 1
  /\ \A i \in 1..Len(c.calls) - 1 : d.calls[i] = c.calls[i]
  /\ d.visited = c.visited /\ d.queue = c.queue
  /\ LET t == c.calls[Len(c.calls)]
     IN  \/ t.at = "deps" /\ t.deps = {}
         \/ /\ t.at = "enter" /\ t.pkg \in c.visited
            /\ \A i \in 1..Len(c.calls) - 1 : c.calls[i].pkg # t.pkg

LEMMA GoStacked ==
  ASSUME NEW c, NEW d, Goes(c, d), Stacked(c)
  PROVE  LET p == c.calls[Len(c.calls)].pkg
         IN  /\ Stacked(d) /\ Busy(d) = Busy(c) \ {p} /\ p \in c.visited
             /\ Fetched(d) = Fetched(c) \cup {p}
<1> DEFINE n == Len(c.calls)
           t == c.calls[n]
<1>1. n \in Nat \ {0} /\ n \in 1..n /\ Len(d.calls) = n - 1 /\ \A i \in 1..n - 1 : i \in 1..n /\ i # n /\ i < n
  BY TopIs DEF Goes
<1>2. \A i \in 1..n : i \in 1..n - 1 \/ i = n
  BY <1>1
<1>3. \A i \in 1..n - 1 : d.calls[i] = c.calls[i] /\ c.calls[i].at = "deps"
  BY <1>1 DEF Goes, Stacked
<1>4. /\ \A i, j \in 1..n : i < j /\ c.calls[j].at # "enter" => c.calls[i].pkg # c.calls[j].pkg
      /\ \A i \in 1..n : c.calls[i].at # "enter" => (c.calls[i].at = "deps" <=> c.calls[i].pkg \in c.visited)
  BY DEF Stacked
<1>5. Stacked(d)
  <2>1. d.visited = c.visited
    BY DEF Goes
  <2> HIDE DEF n
  <2>2. \A i, j \in 1..n - 1 : i < j => d.calls[i].pkg # d.calls[j].pkg
    BY <1>1, <1>3, <1>4
  <2>3. \A i \in 1..n - 1 : d.calls[i].at = "deps" /\ d.calls[i].pkg \in d.visited
    BY <1>1, <1>3, <1>4, <2>1
  <2>4. QED
    BY <1>1, <2>2, <2>3 DEF Stacked
<1>6. \A i \in 1..n - 1 : c.calls[i].pkg # t.pkg
  BY <1>1, <1>4 DEF Goes
<1>7. t.pkg \in c.visited
  BY <1>1, <1>4 DEF Goes
<1> HIDE DEF t
<1>8. Busy(d) = {c.calls[i].pkg : i \in 1..n - 1}
  BY <1>1, <1>3 DEF Busy
<1>9. Busy(c) \subseteq {c.calls[i].pkg : i \in 1..n - 1} \cup {t.pkg}
  BY <1>2 DEF Busy, t
<1>10. {c.calls[i].pkg : i \in 1..n - 1} \subseteq Busy(c)
  BY <1>1, <1>3 DEF Busy
<1>11. Busy(d) = Busy(c) \ {t.pkg}
  BY <1>6, <1>8, <1>9, <1>10
<1>12. Fetched(d) = Fetched(c) \cup {t.pkg}
  BY <1>7, <1>11 DEF Fetched, Goes
<1>13. QED
  BY <1>5, <1>7, <1>11, <1>12 DEF t

\* What the package of the call uses has been fetched when the call goes.
LEMMA GoneUses ==
  ASSUME NEW c, NEW d, Goes(c, d), Stacked(c), NEW u, NEW g, Fetching(c, u, g)
  PROVE  u[c.calls[Len(c.calls)].pkg] \subseteq Fetched(c)
<1> DEFINE n == Len(c.calls)
           t == c.calls[n]
<1>1. n \in Nat \ {0} /\ n \in 1..n
  BY TopIs DEF Goes
<1>2. CASE t.at = "deps" /\ t.deps = {}
  BY <1>1, <1>2 DEF Fetching
<1>3. CASE t.at = "enter" /\ t.pkg \in c.visited /\ \A i \in 1..n - 1 : c.calls[i].pkg # t.pkg
  <2>1. \A i \in 1..n : c.calls[i].at # "enter" => i \in 1..n - 1
    BY <1>1, <1>3
  <2>2. t.pkg \notin Busy(c)
    BY <1>3, <2>1 DEF Busy
  <2>3. t.pkg \in Fetched(c)
    BY <1>3, <2>2 DEF Fetched
  <2>4. QED
    BY <2>3 DEF Fetching
<1>4. QED
  BY <1>2, <1>3 DEF Goes

LEMMA GoFetching ==
  ASSUME NEW c, NEW d, Goes(c, d), Stacked(c), NEW u, NEW g, Fetching(c, u, g)
  PROVE  Fetching(d, u, g)
<1> DEFINE n == Len(c.calls)
           t == c.calls[n]
<1>1. n \in Nat \ {0} /\ n \in 1..n /\ Len(d.calls) = n - 1
  BY TopIs DEF Goes
<1>2. Fetched(d) = Fetched(c) \cup {t.pkg}
  BY GoStacked
<1>3. u[t.pkg] \subseteq Fetched(c)
  BY GoneUses
<1>4. \A p \in Fetched(d) : u[p] \subseteq Fetched(d)
  BY <1>2, <1>3 DEF Fetching
<1>5. ASSUME NEW i \in 1..n - 1, d.calls[i].at = "deps", NEW q \in u[d.calls[i].pkg]
      PROVE  \/ q \in Fetched(d) \/ q \in d.calls[i].deps
             \/ i # n - 1 /\ d.calls[i + 1].pkg = q
  <2>1. i \in 1..n /\ i # n /\ d.calls[i] = c.calls[i] /\ c.calls[i].at = "deps"
    BY <1>1, <1>5 DEF Goes
  <2>2. q \in Fetched(c) \/ q \in c.calls[i].deps \/ c.calls[i + 1].pkg = q
    BY <1>5, <2>1 DEF Fetching
  <2>3. CASE i = n - 1 /\ c.calls[i + 1].pkg = q
    <3>1. q = t.pkg
      BY <1>1, <2>3
    <3>2. QED
      BY <1>2, <3>1
  <2>4. CASE i # n - 1 /\ c.calls[i + 1].pkg = q
    <3>1. i + 1 \in 1..n - 1
      BY <1>1, <2>4
    <3>2. QED
      BY <2>4, <3>1 DEF Goes
  <2>5. QED
    BY <1>2, <2>1, <2>2, <2>3, <2>4
<1>6. d.visited \subseteq g
  BY DEF Fetching, Goes
<1>7. QED
  BY <1>1, <1>4, <1>5, <1>6 DEF Fetching

LEMMA GoCollected ==
  ASSUME NEW c, NEW d, Goes(c, d), Stacked(c), NEW u, NEW g, Fetching(c, u, g),
         NEW D \in SUBSET Pkgs, NEW roots, Collected(c, roots, u, g, D)
  PROVE  \E E \in SUBSET Pkgs : Collected(d, roots, u, g, E)
<1> DEFINE n == Len(c.calls)
           p == c.calls[n].pkg
           E == D \cup {p}
<1>1. n \in Nat \ {0} /\ n \in 1..n /\ Len(d.calls) = n - 1
  BY TopIs DEF Goes
<1>2. /\ Busy(d) = Busy(c) \ {p} /\ p \in c.visited
      /\ Fetched(d) = Fetched(c) \cup {p}
  BY GoStacked
<1>3. u[p] \subseteq Fetched(c)
  BY GoneUses
<1>4. p \in Pkgs /\ p \in g
  BY <1>2 DEF Goes, Commands, Fetching
<1>5. Fetched(c) \subseteq D \ Busy(c)
  BY DEF Collected, Fetched
<1>6. Sound(u, g, E, E \ Busy(d))
  <2>1. E \ Busy(d) = (D \ Busy(c)) \cup {p}
    BY <1>2
  <2>2. \A q \in E \ Busy(d) : q \in g /\ u[q] \subseteq E
    BY <1>3, <1>4, <1>5, <2>1 DEF Collected, Sound
  <2>3. Tidy(u, (D \ Busy(c)) \cup {p})
    <3>1. CASE p \in Fetched(c)
      <4>1. (D \ Busy(c)) \cup {p} = D \ Busy(c)
        BY <1>5, <3>1
      <4>2. QED
        BY <4>1 DEF Collected, Sound
    <3>2. CASE p \notin Fetched(c)
      <4>1. Tidy(u, D \ Busy(c)) /\ \A q \in Fetched(c) : u[q] \subseteq Fetched(c)
        BY DEF Collected, Sound, Fetching
      <4>2. QED
        BY <1>3, <1>5, <3>2, <4>1, TidyAdded
    <3>3. QED
      BY <3>1, <3>2
  <2>4. QED
    BY <2>1, <2>2, <2>3 DEF Sound
<1>7. \A r \in roots :
        \/ r \in E
        \/ d.calls # <<>> /\ d.calls[1].pkg = r
        \/ \E i \in 1..Len(d.queue) : d.queue[i].pkg = r
  <2> SUFFICES ASSUME NEW r \in roots, c.calls # <<>>, c.calls[1].pkg = r
               PROVE  r \in E \/ (d.calls # <<>> /\ d.calls[1].pkg = r)
    BY DEF Collected, Goes
  <2>1. CASE n = 1
    BY <2>1
  <2>2. CASE n # 1
    <3>1. 1 \in 1..n - 1 /\ Len(d.calls) # 0
      <4> HIDE DEF n
      <4> QED
        BY <1>1, <2>2
    <3>2. d.calls[1] = c.calls[1]
      BY <3>1 DEF Goes
    <3>3. QED
      BY <3>1, <3>2
  <2>3. QED
    BY <2>1, <2>2
<1>8. Fetched(d) \subseteq E /\ E \in SUBSET Pkgs
  BY <1>2, <1>4 DEF Collected
<1> HIDE DEF E
<1>9. QED
  BY <1>6, <1>7, <1>8 DEF Collected

-----------------------------------------------------------------------------
\* The last call fetches one of its dependencies, q.
Descends(c, d, q) ==
  LET n == Len(c.calls)
      t == c.calls[n]
  IN  /\ c \in Commands /\ d \in Commands /\ c.calls # <<>>
      /\ t.at = "deps" /\ q \in t.deps
      /\ Len(d.calls) = n + 1
      /\ \A i \in 1..n - 1 : d.calls[i] = c.calls[i]
      /\ d.calls[n] = [t EXCEPT !.deps = @ \ {q}]
      /\ d.calls[n + 1] = Call(q, "HEAD")
      /\ d.visited = c.visited /\ d.queue = c.queue

LEMMA DescendIs ==
  ASSUME NEW c, NEW d, NEW q, Descends(c, d, q), Stacked(c)
  PROVE  LET n == Len(c.calls)
         IN  /\ n \in Nat \ {0} /\ Len(d.calls) = n + 1
             /\ \A i \in 1..n + 1 : i \in 1..n \/ i = n + 1
             /\ \A i \in 1..n : /\ d.calls[i].pkg = c.calls[i].pkg /\ d.calls[i].at = "deps"
                                /\ c.calls[i].at = "deps"
                                /\ i # n => d.calls[i].deps = c.calls[i].deps
             /\ d.calls[n].deps = c.calls[n].deps \ {q}
             /\ d.calls[n + 1].at = "enter" /\ d.calls[n + 1].pkg = q
             /\ Busy(d) = Busy(c) /\ Fetched(d) = Fetched(c)
<1> DEFINE n == Len(c.calls)
           t == c.calls[n]
<1>1. /\ n \in Nat \ {0} /\ n \in 1..n /\ Len(d.calls) = n + 1
      /\ \A i \in 1..n : i # n <=> i \in 1..n - 1
      /\ \A i \in 1..n + 1 : i \in 1..n \/ i = n + 1
      /\ \A i \in 1..n : i \in 1..n + 1
  BY TopIs DEF Descends
<1>2. t \in Calls
  BY TopIs DEF Descends
<1>3. /\ d.calls[n].pkg = t.pkg /\ d.calls[n].at = "deps" /\ d.calls[n].deps = t.deps \ {q} /\ t.at = "deps"
  BY <1>2 DEF Descends, Calls
<1>4. \A i \in 1..n : i # n => d.calls[i] = c.calls[i] /\ c.calls[i].at = "deps"
  BY <1>1 DEF Descends, Stacked
<1>5. d.calls[n + 1].at = "enter" /\ d.calls[n + 1].pkg = q
  BY DEF Descends, Call
<1> HIDE DEF n, t
<1>6. \A i \in 1..n : /\ d.calls[i].pkg = c.calls[i].pkg /\ d.calls[i].at = "deps" /\ c.calls[i].at = "deps"
                      /\ i # n => d.calls[i].deps = c.calls[i].deps
  BY <1>3, <1>4 DEF t
<1>7. Busy(c) = {c.calls[i].pkg : i \in 1..n}
  BY <1>6 DEF Busy, n
<1>8. {i \in 1..n + 1 : d.calls[i].at # "enter"} = 1..n
  BY <1>1, <1>5, <1>6
<1>9. Busy(d) = {d.calls[i].pkg : i \in 1..n}
  BY <1>1, <1>8 DEF Busy
<1>10. Busy(d) = Busy(c)
  BY <1>6, <1>7, <1>9
<1>11. Fetched(d) = Fetched(c)
  BY <1>10 DEF Fetched, Descends
<1>12. QED
  BY <1>1, <1>3, <1>5, <1>6, <1>10, <1>11 DEF n, t

LEMMA DescendKeeps ==
  ASSUME NEW c, NEW d, NEW q, Descends(c, d, q), Stacked(c)
  PROVE  /\ Stacked(d)
         /\ \A u, g : Fetching(c, u, g) => Fetching(d, u, g)
         /\ \A u, g, D, roots : Collected(c, roots, u, g, D) => Collected(d, roots, u, g, D)
<1> DEFINE n == Len(c.calls)
<1>1. /\ n \in Nat \ {0} /\ Len(d.calls) = n + 1
      /\ \A i \in 1..n + 1 : i \in 1..n \/ i = n + 1
      /\ \A i \in 1..n : /\ d.calls[i].pkg = c.calls[i].pkg /\ d.calls[i].at = "deps"
                         /\ c.calls[i].at = "deps"
                         /\ i # n => d.calls[i].deps = c.calls[i].deps
      /\ d.calls[n].deps = c.calls[n].deps \ {q}
      /\ d.calls[n + 1].at = "enter" /\ d.calls[n + 1].pkg = q
      /\ Busy(d) = Busy(c) /\ Fetched(d) = Fetched(c)
  BY DescendIs
<1>2. d.visited = c.visited /\ d.queue = c.queue
  BY DEF Descends
<1>3. /\ \A i, j \in 1..n : i < j /\ c.calls[j].at # "enter" => c.calls[i].pkg # c.calls[j].pkg
      /\ \A i \in 1..n : c.calls[i].at = "deps" => c.calls[i].pkg \in c.visited
  BY DEF Stacked
<1>4. Stacked(d)
  <2> HIDE DEF n
  <2>1. \A i, j \in 1..n + 1 : i < j /\ d.calls[j].at # "enter" => i \in 1..n /\ j \in 1..n
    BY <1>1
  <2>2. \A i, j \in 1..n + 1 : i < j /\ d.calls[j].at # "enter" => d.calls[i].pkg # d.calls[j].pkg
    BY <1>1, <1>3, <2>1
  <2>3. \A i \in 1..n + 1 : d.calls[i].at # "enter" => d.calls[i].at = "deps" /\ d.calls[i].pkg \in d.visited
    BY <1>1, <1>2, <1>3
  <2>4. \A i \in 1..n + 1 : i # n + 1 => d.calls[i].at = "deps"
    BY <1>1
  <2>5. QED
    BY <1>1, <2>2, <2>3, <2>4 DEF Stacked
<1>5. ASSUME NEW u, NEW g, Fetching(c, u, g) PROVE Fetching(d, u, g)
  <2>1. ASSUME NEW i \in 1..n + 1, d.calls[i].at = "deps", NEW r \in u[d.calls[i].pkg]
        PROVE  \/ r \in Fetched(d) \/ r \in d.calls[i].deps
               \/ i # n + 1 /\ d.calls[i + 1].pkg = r
    <3>1. i \in 1..n /\ i # n + 1 /\ c.calls[i].at = "deps" /\ d.calls[i].pkg = c.calls[i].pkg
      <4> HIDE DEF n
      <4> QED
        BY <1>1, <2>1
    <3>2. \/ r \in Fetched(c) \/ r \in c.calls[i].deps
          \/ i # n /\ c.calls[i + 1].pkg = r
      BY <2>1, <3>1, <1>5 DEF Fetching
    <3> HIDE DEF n
    <3>3. CASE i = n
      BY <1>1, <3>1, <3>2, <3>3
    <3>4. CASE i # n
      <4>1. i + 1 \in 1..n
        BY <1>1, <3>1, <3>4
      <4>2. d.calls[i + 1].pkg = c.calls[i + 1].pkg /\ d.calls[i].deps = c.calls[i].deps
        BY <1>1, <3>1, <3>4, <4>1
      <4>3. QED
        BY <1>1, <3>1, <3>2, <4>2
    <3>5. QED
      BY <3>3, <3>4
  <2>2. d.visited \subseteq g /\ \A p \in Fetched(d) : u[p] \subseteq Fetched(d)
    BY <1>1, <1>2, <1>5 DEF Fetching
  <2>3. QED
    BY <1>1, <2>1, <2>2 DEF Fetching
<1>6. ASSUME NEW u, NEW g, NEW D, NEW roots, Collected(c, roots, u, g, D)
      PROVE  Collected(d, roots, u, g, D)
  <2>1. d.calls # <<>> /\ d.calls[1].pkg = c.calls[1].pkg
    <3> HIDE DEF n
    <3> QED
      BY <1>1
  <2>2. QED
    BY <1>1, <1>2, <1>6, <2>1 DEF Collected
<1>7. QED
  BY <1>4, <1>5, <1>6

-----------------------------------------------------------------------------
\* update_lockfile replaces a line or adds one, and leaves the others alone.
LEMMA WithLineIs ==
  ASSUME NEW r, NEW lines, LinesOk(lines, r), NEW l \in LockLines, LineOk(l, r)
  PROVE  LET next == WithLine(lines, l)
         IN  /\ LinesOk(next, r)
             /\ \E i \in 1..Len(next) : next[i] = l
             /\ \A i \in 1..Len(lines) : lines[i].pkg # l.pkg =>
                  \E j \in 1..Len(next) : next[j] = lines[i]
<1> DEFINE next == WithLine(lines, l)
           n == Len(lines)
<1>1. lines \in Seq(LockLines) /\ n \in Nat /\ DOMAIN lines = 1..n /\ \A i \in 1..n : lines[i] \in LockLines
  BY DEF LinesOk
<1>2. /\ \A i \in 1..n : LineOk(lines[i], r)
      /\ \A i, j \in 1..n : Agree(lines[i], lines[j])
  BY DEF LinesOk
<1>3. CASE \E i \in 1..n : lines[i].pkg = l.pkg
  <2>1. next = [i \in 1..n |-> IF lines[i].pkg = l.pkg THEN l ELSE lines[i]]
    BY <1>1, <1>3 DEF WithLine
  <2>2. next \in Seq(LockLines) /\ Len(next) = n
        /\ \A i \in 1..n : next[i] = IF lines[i].pkg = l.pkg THEN l ELSE lines[i]
    BY <1>1, <2>1
  <2> HIDE DEF next, n
  <2>3. \A i \in 1..n : LineOk(next[i], r)
    BY <1>2, <2>2
  <2>4. \A i, j \in 1..n : Agree(next[i], next[j])
    <3> SUFFICES ASSUME NEW i \in 1..n, NEW j \in 1..n PROVE Agree(next[i], next[j])
      OBVIOUS
    <3>1. next[i].pkg = lines[i].pkg /\ next[j].pkg = lines[j].pkg
      BY <2>2
    <3>2. CASE lines[i].pkg = l.pkg /\ lines[j].pkg = l.pkg
      BY <2>2, <3>2 DEF Agree
    <3>3. CASE lines[i].pkg # l.pkg /\ lines[j].pkg # l.pkg
      BY <1>2, <2>2, <3>3
    <3>4. CASE lines[i].pkg # lines[j].pkg
      BY <3>1, <3>4 DEF Agree
    <3>5. QED
      BY <3>2, <3>3, <3>4
  <2>5. LinesOk(next, r)
    BY <2>2, <2>3, <2>4 DEF LinesOk
  <2>6. QED
    BY <1>3, <2>2, <2>5 DEF next, n
<1>4. CASE ~\E i \in 1..n : lines[i].pkg = l.pkg
  <2>1. next = Append(lines, l)
    BY <1>1, <1>4 DEF WithLine
  <2>2. next \in Seq(LockLines) /\ Len(next) = n + 1 /\ next[n + 1] = l
        /\ \A i \in 1..n : next[i] = lines[i]
    BY <1>1, <2>1
  <2>3. \A i \in 1..n + 1 : i \in 1..n \/ i = n + 1
    BY <1>1
  <2>4. \A i \in 1..n : i \in 1..n + 1
    BY <1>1
  <2>5. n + 1 \in 1..n + 1
    BY <1>1
  <2> HIDE DEF next, n
  <2>6. \A i \in 1..n + 1 : LineOk(next[i], r)
    BY <1>2, <2>2, <2>3
  <2>7. \A i, j \in 1..n + 1 : Agree(next[i], next[j])
    <3> SUFFICES ASSUME NEW i \in 1..n + 1, NEW j \in 1..n + 1 PROVE Agree(next[i], next[j])
      OBVIOUS
    <3>1. CASE i \in 1..n /\ j \in 1..n
      BY <1>2, <2>2, <3>1
    <3>2. CASE i = n + 1 /\ j = n + 1
      BY <3>2 DEF Agree
    <3>3. CASE (i \in 1..n /\ j = n + 1) \/ (i = n + 1 /\ j \in 1..n)
      BY <1>4, <2>2, <3>3 DEF Agree
    <3>4. QED
      BY <2>3, <3>1, <3>2, <3>3
  <2>8. LinesOk(next, r)
    BY <2>2, <2>6, <2>7 DEF LinesOk
  <2>9. QED
    BY <2>2, <2>4, <2>5, <2>8 DEF next, n
<1>5. QED
  BY <1>3, <1>4

LEMMA PrefixOk ==
  ASSUME NEW r, NEW lines, LinesOk(lines, r), NEW n \in 0..Len(lines)
  PROVE  LinesOk(SubSeq(lines, 1, n), r)
<1> DEFINE some == SubSeq(lines, 1, n)
<1>1. lines \in Seq(LockLines) /\ n \in Nat /\ \A i \in 1..n : i \in 1..Len(lines) /\ lines[i] \in LockLines
  BY DEF LinesOk
<1>2. some \in Seq(LockLines) /\ Len(some) = n /\ \A i \in 1..n : some[i] = lines[i]
  BY <1>1, SubSeqProperties
<1> HIDE DEF some
<1>3. LinesOk(some, r)
  BY <1>1, <1>2 DEF LinesOk
<1>4. QED
  BY <1>3 DEF some

\* A line of no commit agrees with every other.
LEMMA UnknownAdded ==
  ASSUME NEW r, NEW lines, LinesOk(lines, r), NEW l \in LockLines, LineOk(l, r), l.sha = Unknown
  PROVE  LinesOk(Append(lines, l), r)
<1> DEFINE next == Append(lines, l)
           n == Len(lines)
<1>1. lines \in Seq(LockLines) /\ n \in Nat
  BY DEF LinesOk
<1>2. next \in Seq(LockLines) /\ Len(next) = n + 1 /\ next[n + 1] = l
      /\ \A i \in 1..n : next[i] = lines[i]
  BY <1>1
<1>3. \A i \in 1..n + 1 : i \in 1..n \/ i = n + 1
  BY <1>1
<1>4. \A i \in 1..n : LineOk(lines[i], r) /\ \A j \in 1..n : Agree(lines[i], lines[j])
  BY DEF LinesOk
<1> HIDE DEF next, n
<1>5. \A i \in 1..n + 1 : LineOk(next[i], r)
  BY <1>2, <1>3, <1>4
<1>6. \A i, j \in 1..n + 1 : Agree(next[i], next[j])
  <2> SUFFICES ASSUME NEW i \in 1..n + 1, NEW j \in 1..n + 1 PROVE Agree(next[i], next[j])
    OBVIOUS
  <2>1. CASE i \in 1..n /\ j \in 1..n
    BY <1>2, <1>4, <2>1
  <2>2. CASE i = n + 1 \/ j = n + 1
    BY <1>2, <2>2 DEF Agree
  <2>3. QED
    BY <1>3, <2>1, <2>2
<1>7. LinesOk(next, r)
  BY <1>2, <1>5, <1>6 DEF LinesOk
<1>8. QED
  BY <1>7 DEF next

\* A write may stop between two lines or in one.
LEMMA TornOk ==
  ASSUME NEW r, \A p \in Pkgs : Len(r[p]) \in Nat,
         NEW lines, LinesOk(lines, r), NEW some \in Torn(lines)
  PROVE  LinesOk(some, r)
<1>1. CASE \E n \in 0..Len(lines) : some = SubSeq(lines, 1, n)
  BY <1>1, PrefixOk
<1>2. ASSUME NEW n \in 1..Len(lines), NEW l \in Cut(lines[n]), some = Append(SubSeq(lines, 1, n - 1), l)
      PROVE  LinesOk(some, r)
  <2>1. lines \in Seq(LockLines) /\ n - 1 \in 0..Len(lines)
    BY DEF LinesOk
  <2>2. lines[n] \in LockLines
    BY <2>1
  <2>3. \E q \in Names : l = Line(q, Unknown)
    BY <2>2, PackagesAssumption DEF Cut, LockLines, Names
  <2>4. l \in LockLines /\ l.sha = Unknown
    BY <2>3 DEF Line, LockLines, Unknown
  <2>5. LineOk(l, r)
    BY <2>4 DEF LineOk, Unknown
  <2>6. LinesOk(SubSeq(lines, 1, n - 1), r)
    BY <2>1, PrefixOk
  <2>7. QED
    BY <1>2, <2>4, <2>5, <2>6, UnknownAdded
<1>3. QED
  BY <1>1, <1>2 DEF Torn

\* Every way a failed update leaves the lockfile is a list of lines as they should be.
LEMMA LeftOk ==
  ASSUME Types, NEW p \in Pkgs, NEW sha \in {cache[p], Unknown}, NEW lines \in Left(Line(p, sha))
  PROVE  LinesOk(lines, remote)
<1> DEFINE l == Line(p, sha)
<1>1. LinesOk(lock, remote) /\ \A q \in Pkgs : Len(remote[q]) \in Nat
  BY DEF Types
<1>2. LinesOk(<<>>, remote)
  BY DEF LinesOk
<1>3. l \in LockLines /\ LineOk(l, remote)
  BY <1>1 DEF Types, Line, LockLines, LineOk, Names, Unknown
<1>4. lines = lock \/ \E old \in {lock, <<>>} : lines \in Torn(WithLine(old, l))
  BY DEF Left
<1> HIDE DEF l
<1>5. ASSUME NEW old \in {lock, <<>>}, lines \in Torn(WithLine(old, l))
      PROVE  LinesOk(lines, remote)
  <2>1. LinesOk(WithLine(old, l), remote)
    BY <1>1, <1>2, <1>3, WithLineIs
  <2>2. QED
    BY <1>1, <1>5, <2>1, TornOk
<1>6. QED
  BY <1>1, <1>4, <1>5

\* A package elsewhere stays there.
LEMMA ThereKept ==
  ASSUME NEW lines, NEW k, NEW exact, NEW next, NEW j, NEW demand, NEW q \in There(lines, k, exact),
         j[q] = k[q], demand => exact /\ (Locked(lines, k, q) => Locked(next, j, q))
  PROVE  q \in There(next, j, demand)
BY DEF There

LEMMA LockedKept ==
  ASSUME NEW lines, NEW k, NEW j, NEW q, j[q] = k[q], Locked(lines, k, q)
  PROVE  Locked(lines, j, q)
BY DEF Locked

LEMMA LockedByLine ==
  ASSUME NEW r, NEW lines, LinesOk(lines, r), NEW l \in LockLines, LineOk(l, r), NEW k
  PROVE  /\ l.sha \in {k[l.pkg], Unknown} => Locked(WithLine(lines, l), k, l.pkg)
         /\ \A q : q # l.pkg /\ Locked(lines, k, q) => Locked(WithLine(lines, l), k, q)
<1> DEFINE next == WithLine(lines, l)
<1>1. /\ \E i \in 1..Len(next) : next[i] = l
      /\ \A i \in 1..Len(lines) : lines[i].pkg # l.pkg => \E j \in 1..Len(next) : next[j] = lines[i]
  BY WithLineIs
<1> HIDE DEF next
<1>2. l.sha \in {k[l.pkg], Unknown} => Locked(next, k, l.pkg)
  BY <1>1 DEF Locked
<1>3. ASSUME NEW q, q # l.pkg, Locked(lines, k, q)
      PROVE  Locked(next, k, q)
  BY <1>1, <1>3 DEF Locked
<1>4. QED
  BY <1>2, <1>3 DEF next

\* What is followed of what is not fetched again.
LEMMA GraphKept ==
  ASSUME remote' = remote, NEW q \in Pkgs, cache'[q] = cache[q], q \in unread' <=> q \in unread
  PROVE  Followed'[q] = Followed[q]
BY DEF Followed, CachedUses

(***************************************************************************)
(* The call at the top goes on to its next step: the steps that change the *)
(* cache and the lockfile keep what is said of the command.                *)
(***************************************************************************)
LEMMA AdvanceKeeps ==
  ASSUME Types, Stacked(cmd), Underway, Running, NEW t, Advances(cmd, cmd', t),
         cmd'.exit = cmd.exit, UNCHANGED <<remote, outcome>>,
         \A q \in Pkgs \ {t.pkg} : cache'[q] = cache[q] /\ (q \in unread' <=> q \in unread),
         ~cmd'.faulty => ~cmd.faulty /\ \A q \in Pkgs \ {t.pkg} :
                           Locked(lock, cache, q) => Locked(lock', cache', q),
         t.at = "deps" => /\ Followed'[t.pkg] \subseteq t.deps
                          /\ t.pkg \in There(lock', cache', ~cmd'.faulty)
  PROVE  Stacked(cmd') /\ Underway'
<1> DEFINE u == Followed
           v == Followed'
           g == There(lock, cache, ~cmd.faulty)
           h == There(lock', cache', ~cmd'.faulty)
<1>1. Stacked(cmd')
  BY AdvanceStacked
<1>2. Elsewhere(u, g, v, h, t.pkg)
  <2> SUFFICES ASSUME NEW q \in Pkgs \ {t.pkg} PROVE v[q] = u[q] /\ (q \in g => q \in h)
    BY DEF Elsewhere
  <2>1. cache'[q] = cache[q] /\ (q \in unread' <=> q \in unread)
    OBVIOUS
  <2>2. v[q] = u[q]
    BY <2>1, GraphKept
  <2>3. q \in g => q \in h
    BY <2>1, ThereKept
  <2>4. QED
    BY <2>2, <2>3
<1>3. t.at = "deps" => t.pkg \in h /\ v[t.pkg] \subseteq t.deps
  OBVIOUS
<1> HIDE DEF u, v, g, h
<1>4. ASSUME cmd'.exit = 0
      PROVE  /\ Fetching(cmd', v, h)
             /\ \E D \in SUBSET Pkgs : Collected(cmd', outcome'.roots, v, h, D)
  <2>1. PICK D \in SUBSET Pkgs : Collected(cmd, outcome.roots, u, g, D)
    BY <1>4 DEF Underway, u, g
  <2>2. Fetching(cmd, u, g)
    BY <1>4 DEF Underway, u, g
  <2>3. Fetching(cmd', v, h)
    BY <1>2, <1>3, <2>2, AdvanceFetching
  <2>4. Collected(cmd', outcome.roots, v, h, D)
    BY <1>2, <2>1, AdvanceCollected
  <2>5. QED
    BY <2>3, <2>4
<1>5. QED
  BY <1>1, <1>4 DEF Underway, Running, u, v, g, h

\* The command's other steps change neither the cache nor the lockfile.
LEMMA StillThere ==
  ASSUME UNCHANGED <<remote, cache, lock, unread>>, cmd'.faulty = cmd.faulty
  PROVE  Followed' = Followed /\ There(lock', cache', ~cmd'.faulty) = There(lock, cache, ~cmd.faulty)
<1>1. Followed' = Followed
  BY DEF Followed, CachedUses
<1>2. QED
  BY <1>1

LEMMA GoKeeps ==
  ASSUME Types, Stacked(cmd), Underway, Running, Goes(cmd, cmd'),
         cmd'.exit = cmd.exit, cmd'.faulty = cmd.faulty, UNCHANGED <<remote, cache, lock, unread, outcome>>
  PROVE  Stacked(cmd') /\ Underway'
<1> DEFINE u == Followed
           g == There(lock, cache, ~cmd.faulty)
<1>1. Stacked(cmd')
  BY GoStacked
<1>2. Followed' = u /\ There(lock', cache', ~cmd'.faulty) = g
  BY StillThere
<1> HIDE DEF u, g
<1>3. ASSUME cmd'.exit = 0
      PROVE  Fetching(cmd', u, g) /\ \E D \in SUBSET Pkgs : Collected(cmd', outcome.roots, u, g, D)
  <2>1. PICK D \in SUBSET Pkgs : Collected(cmd, outcome.roots, u, g, D)
    BY <1>3 DEF Underway, u, g
  <2>2. Fetching(cmd, u, g)
    BY <1>3 DEF Underway, u, g
  <2>3. Fetching(cmd', u, g)
    BY <2>2, GoFetching
  <2>4. \E E \in SUBSET Pkgs : Collected(cmd', outcome.roots, u, g, E)
    BY <2>1, <2>2, GoCollected
  <2>5. QED
    BY <2>3, <2>4
<1>4. Underway'
  BY <1>2, <1>3 DEF Underway
<1>5. QED
  BY <1>1, <1>4

\* A command that has failed has no calls and promises nothing.
LEMMA FailedIs ==
  ASSUME cmd \in Commands, cmd' = Failed(cmd)
  PROVE  /\ cmd' \in Commands /\ cmd'.calls = <<>> /\ cmd'.exit = 1 /\ cmd'.queue = cmd.queue
         /\ cmd'.running = cmd.running
         /\ Stacked(cmd') /\ Underway'
<1>1. /\ cmd' \in Commands /\ cmd'.calls = <<>> /\ cmd'.exit = 1 /\ cmd'.queue = cmd.queue
      /\ cmd'.running = cmd.running
  <2>1. cmd' = [cmd EXCEPT !.calls = <<>>, !.exit = 1]
    BY DEF Failed
  <2>2. <<>> \in Seq(Calls)
    OBVIOUS
  <2>3. QED
    BY <2>1, <2>2 DEF Commands
<1>2. Stacked(cmd')
  BY <1>1 DEF Stacked
<1>3. Underway'
  BY <1>1 DEF Underway
<1>4. QED
  BY <1>1, <1>2, <1>3

\* Where the running command stands.
LEMMA AtIs ==
  ASSUME IInv, NEW step, At(step)
  PROVE  /\ Running /\ cmd \in Commands /\ cmd.calls # <<>>
         /\ Top = cmd.calls[Len(cmd.calls)] /\ Top \in Calls /\ Top.at = step
         /\ Len(cmd.calls) \in Nat \ {0} /\ Len(cmd.calls) \in 1..Len(cmd.calls)
         /\ outcome.kind = "none"
         /\ step # "enter" => \A i \in 1..Len(cmd.calls) - 1 : cmd.calls[i].pkg # Top.pkg
         /\ step \notin {"enter", "deps"} => Top.pkg \notin cmd.visited
<1>1. Running /\ cmd \in Commands /\ cmd.calls # <<>> /\ Top.at = step /\ Stacked(cmd)
      /\ Top = cmd.calls[Len(cmd.calls)] /\ outcome.kind = "none"
  BY DEF At, IInv, Types, Waiting, Top
<1>2. Top \in Calls /\ Len(cmd.calls) \in Nat \ {0} /\ Len(cmd.calls) \in 1..Len(cmd.calls)
  BY <1>1, TopIs
<1>3. \A i \in 1..Len(cmd.calls) - 1 : i \in 1..Len(cmd.calls) /\ i < Len(cmd.calls)
  BY <1>2
<1>4. QED
  BY <1>1, <1>2, <1>3 DEF Stacked

\* A call that goes on, with the lists of the command as they were.
LEMMA StepsOn ==
  ASSUME IInv, NEW step, At(step), step # "deps", NEW t \in Calls, t.at \notin {"enter", "deps"},
         t.pkg = Top.pkg, cmd' = WithTop(t),
         step = "enter" => Top.pkg \notin cmd.visited
                           /\ \A i \in 1..Len(cmd.calls) - 1 : cmd.calls[i].pkg # Top.pkg
  PROVE  /\ Advances(cmd, cmd', t)
         /\ cmd' \in Commands /\ cmd'.queue = cmd.queue /\ cmd'.exit = cmd.exit
         /\ cmd'.faulty = cmd.faulty /\ cmd'.running = cmd.running
<1>1. /\ cmd \in Commands /\ cmd.calls # <<>> /\ Top = cmd.calls[Len(cmd.calls)]
      /\ Top.pkg \notin cmd.visited /\ \A i \in 1..Len(cmd.calls) - 1 : cmd.calls[i].pkg # Top.pkg
  BY AtIs
<1>2. /\ cmd' \in Commands /\ cmd' = [cmd EXCEPT !.calls = cmd'.calls]
      /\ Len(cmd'.calls) = Len(cmd.calls) /\ cmd'.calls[Len(cmd.calls)] = t
      /\ \A i \in 1..Len(cmd.calls) : i # Len(cmd.calls) => cmd'.calls[i] = cmd.calls[i]
  BY <1>1, WithTopIs
<1>3. /\ cmd'.queue = cmd.queue /\ cmd'.exit = cmd.exit /\ cmd'.visited = cmd.visited
      /\ cmd'.faulty = cmd.faulty /\ cmd'.running = cmd.running
  BY <1>1, <1>2 DEF Commands
<1>4. QED
  BY <1>1, <1>2, <1>3 DEF Advances

\* Which calls are about to read a copy.
LEMMA WaitsOn ==
  ASSUME Waiting, Stacked(cmd), Running, NEW t, Advances(cmd, cmd', t),
         t.at = "lock" => cache'[t.pkg] # None, UNCHANGED outcome
  PROVE  Waiting'
<1> DEFINE n == Len(cmd.calls)
<1>1. \A i \in 1..n : i # n => cmd'.calls[i].at = "deps"
  BY DEF Advances, Stacked
<1>2. Len(cmd'.calls) = n /\ cmd'.calls[n] = t /\ cmd'.queue = cmd.queue
  BY DEF Advances
<1>3. QED
  BY <1>1, <1>2 DEF Waiting

-----------------------------------------------------------------------------
\* A type is kept when only the command changes, and so is what has ended.
LEMMA OnlyCommand ==
  ASSUME IInv, UNCHANGED <<remote, cache, lock, unread, outcome>>, cmd' \in Commands, events' \in 0..MaxEvents
  PROVE  Types' /\ Ended'
<1>1. Types'
  BY DEF IInv, Types
<1>2. Followed' = Followed
  BY DEF Followed, CachedUses
<1>3. Ended'
  BY <1>2 DEF IInv, Ended
<1>4. QED
  BY <1>1, <1>3

\* While it runs nothing has ended.
LEMMA NotEnded == ASSUME outcome.kind = "none", UNCHANGED outcome PROVE Ended'
BY DEF Ended

LEMMA Counted == Types => \A n \in Nat : Events(n) => events' \in 0..MaxEvents
<1>1. MaxEvents \in Nat
  BY PackagesAssumption
<1>2. QED
  BY <1>1 DEF Types, Events

LEMMA CountedOne == Types /\ Event => events' \in 0..MaxEvents
BY Counted DEF Event

LEMMA InitInv == Init => IInv
<1> SUFFICES ASSUME Init PROVE IInv
  OBVIOUS
<1>1. PICK uses \in SUBSET (Pkgs \X [to : Pkgs, form : Forms]), bare \in SUBSET Pkgs :
        remote = [p \in Pkgs |-> <<[index |-> p \notin bare,
                                   uses |-> {u[2] : u \in {u \in uses : u[1] = p}}]>>]
  BY DEF Init
<1>2. \A p \in Pkgs :
        [index |-> p \notin bare, uses |-> {u[2] : u \in {u \in uses : u[1] = p}}] \in Commits
  <2> SUFFICES ASSUME NEW p \in Pkgs, NEW u \in uses PROVE u[2] \in [to : Pkgs, form : Forms]
    BY DEF Commits
  <2> QED
    OBVIOUS
<1>3. \A commit \in Commits : <<commit>> \in Seq(Commits) \ {<<>>} /\ Len(<<commit>>) = 1
  OBVIOUS
<1>4. remote \in [Pkgs -> Seq(Commits) \ {<<>>}] /\ \A p \in Pkgs : Len(remote[p]) = 1
  BY <1>1, <1>2, <1>3
<1>5. cache \in [Pkgs -> Nat] /\ \A p \in Pkgs : cache[p] = 0
  BY DEF Init, None
<1>6. LinesOk(lock, remote) /\ unread \subseteq Pkgs
  BY DEF Init, LinesOk
<1>7. cmd \in Commands /\ cmd.calls = <<>> /\ cmd.queue = <<>> /\ ~cmd.running
  BY DEF Init, Idle, Commands
<1>8. outcome \in Outcomes /\ outcome.kind = "none" /\ events = 0 /\ 0 \in 0..MaxEvents
  BY PackagesAssumption DEF Init, Outcomes
<1>9. Types
  BY <1>4, <1>5, <1>6, <1>7, <1>8 DEF Types
<1>10. Waiting /\ Stacked(cmd) /\ Underway /\ Ended
  BY <1>7, <1>8 DEF Waiting, Stacked, Underway, Running, Ended
<1>11. QED
  BY <1>9, <1>10 DEF IInv

\* A push changes what a package will use, not what it uses in the cache.
LEMMA PushInv == ASSUME IInv, NEW p \in Pkgs, Push(p) PROVE IInv'
<1>1. PICK commit \in Commits : remote' = [remote EXCEPT ![p] = Append(@, commit)]
  BY DEF Push
<1>2. UNCHANGED <<cache, lock, unread, cmd, outcome>> /\ events' \in 0..MaxEvents
  BY CountedOne DEF Push, IInv
<1>3. /\ remote[p] \in Seq(Commits) \ {<<>>}
      /\ \A q \in Pkgs : remote[q] \in Seq(Commits) \ {<<>>} /\ Len(remote[q]) \in Nat
  BY DEF IInv, Types
<1>4. /\ Append(remote[p], commit) \in Seq(Commits) \ {<<>>}
      /\ Len(Append(remote[p], commit)) = Len(remote[p]) + 1
      /\ \A i \in 1..Len(remote[p]) : Append(remote[p], commit)[i] = remote[p][i]
  BY <1>3
<1>5. remote' = [q \in Pkgs |-> IF q = p THEN Append(remote[p], commit) ELSE remote[q]]
  BY <1>1 DEF IInv, Types
<1>6. /\ remote' \in [Pkgs -> Seq(Commits) \ {<<>>}]
      /\ \A q \in Pkgs : /\ Len(remote[q]) <= Len(remote'[q]) /\ Len(remote'[q]) \in Nat
                         /\ \A i \in 1..Len(remote[q]) : remote'[q][i] = remote[q][i]
  BY <1>3, <1>4, <1>5
<1>7. /\ \A q \in Pkgs : cache'[q] \in Nat /\ cache'[q] <= Len(remote'[q])
      /\ cache' \in [Pkgs -> Nat]
  BY <1>2, <1>3, <1>6 DEF IInv, Types
<1>8. LinesOk(lock', remote')
  <2>1. LinesOk(lock, remote) /\ lock' = lock /\ \A i \in 1..Len(lock) : lock[i] \in LockLines
    BY <1>2 DEF IInv, Types, LinesOk
  <2>2. \A l \in LockLines : LineOk(l, remote) => LineOk(l, remote')
    <3> SUFFICES ASSUME NEW l \in LockLines, l.pkg \in Pkgs, l.sha <= Len(remote[l.pkg])
                 PROVE  l.sha <= Len(remote'[l.pkg])
      BY DEF LineOk
    <3>1. l.sha \in Nat
      BY DEF LockLines
    <3>2. QED
      BY <1>3, <1>6, <3>1
  <2>3. QED
    BY <2>1, <2>2 DEF LinesOk
<1>9. Types'
  BY <1>2, <1>6, <1>7, <1>8 DEF IInv, Types
<1>10. Followed' = Followed
  <2>1. \A q \in Pkgs : CachedUses(q)' = CachedUses(q)
    <3> SUFFICES ASSUME NEW q \in Pkgs, cache[q] # None PROVE remote'[q][cache[q]] = remote[q][cache[q]]
      BY <1>2 DEF CachedUses
    <3>1. cache[q] \in 1..Len(remote[q])
      BY <1>3 DEF IInv, Types, None
    <3>2. QED
      BY <1>6, <3>1
  <2>2. QED
    BY <1>2, <2>1 DEF Followed
<1>11. Waiting' /\ Stacked(cmd') /\ Underway' /\ Ended'
  BY <1>2, <1>10 DEF IInv, Waiting, Underway, Running, Ended
<1>12. QED
  BY <1>9, <1>11 DEF IInv

\* A command starts: nothing is fetched, everything asked for is in the queue.
LEMMA StartInv ==
  ASSUME IInv, NEW queue \in Seq(Calls \cup Queued), Start(queue), \A i \in 1..Len(queue) : queue[i].at = "enter"
  PROVE  IInv'
<1>1. /\ cmd' = [Idle EXCEPT !.running = TRUE, !.queue = queue]
      /\ outcome' = [kind |-> "none", roots |-> {queue[i].pkg : i \in 1..Len(queue)}]
      /\ UNCHANGED <<remote, cache, lock, unread>> /\ events' \in 0..MaxEvents
  <2>1. Types /\ Event /\ DOMAIN queue = 1..Len(queue)
    BY DEF Start, IInv
  <2>2. events' \in 0..MaxEvents
    BY <2>1, CountedOne
  <2>3. QED
    BY <2>1, <2>2 DEF Start
<1>2. /\ cmd' \in Commands /\ cmd'.calls = <<>> /\ cmd'.queue = queue /\ cmd'.visited = {}
      /\ cmd'.running
  <2>1. <<>> \in Seq(Calls)
    OBVIOUS
  <2>2. cmd'.queue = queue /\ cmd'.calls = <<>>
    BY <1>1 DEF Idle
  <2>3. QED
    BY <1>1, <2>1, <2>2 DEF Idle, Commands
<1>3. outcome' \in Outcomes /\ outcome'.kind = "none"
      /\ outcome'.roots = {queue[i].pkg : i \in 1..Len(queue)}
  <2>1. \A i \in 1..Len(queue) : queue[i].pkg \in Names
    <3>1. \A i \in 1..Len(queue) : queue[i] \in Calls \cup Queued
      OBVIOUS
    <3>2. QED
      BY <3>1 DEF Calls, Queued, Names
  <2>2. QED
    BY <1>1, <2>1 DEF Outcomes
<1>4. Types'
  BY <1>1, <1>2, <1>3 DEF IInv, Types
<1>5. Waiting' /\ Stacked(cmd') /\ Ended'
  BY <1>2, <1>3 DEF Waiting, Stacked, Ended
<1>6. Underway'
  <2>1. Busy(cmd') = {} /\ Fetched(cmd') = {}
    BY <1>2 DEF Busy, Fetched
  <2>2. ASSUME NEW u, NEW g
        PROVE  Fetching(cmd', u, g) /\ Collected(cmd', outcome'.roots, u, g, {})
    <3>1. Fetching(cmd', u, g)
      BY <1>2, <2>1 DEF Fetching
    <3>2. Sound(u, g, {}, {})
      BY DEF Sound, Tidy
    <3>3. Collected(cmd', outcome'.roots, u, g, {})
      BY <1>2, <1>3, <2>1, <3>2 DEF Collected
    <3>4. QED
      BY <3>1, <3>3
  <2>3. {} \in SUBSET Pkgs
    OBVIOUS
  <2>4. QED
    BY <2>2, <2>3 DEF Underway
<1>7. QED
  BY <1>4, <1>5, <1>6 DEF IInv

\* The call of cmd_add.
LEMMA CallIs ==
  /\ \A p \in Pkgs, ref \in {"HEAD", "tag"} :
       Call(p, ref) \in Calls /\ Call(p, ref).at = "enter" /\ Call(p, ref).pkg = p
  /\ \A p \in Names : Call(p, "HEAD") \in Queued /\ Call(p, "HEAD").at = "enter"
BY DEF Call, Calls, Steps, Queued

LEMMA AddInv == ASSUME IInv, NEW p \in Named, NEW ref \in {"HEAD", "tag"}, Add(p, ref) PROVE IInv'
<1> DEFINE call == Call(p, ref)
<1>1. p \in Pkgs
  BY PackagesAssumption
<1>2. call \in Calls \cup Queued /\ call.at = "enter"
  BY <1>1, CallIs
<1>3. Start(<<call>>)
  BY DEF Add
<1> HIDE DEF call
<1>4. <<call>> \in Seq(Calls \cup Queued) /\ \A i \in 1..Len(<<call>>) : <<call>>[i].at = "enter"
  BY <1>2
<1>5. QED
  BY <1>3, <1>4, StartInv

LEMMA UpdateInv == ASSUME IInv, NEW p \in Pkgs, Update(p) PROVE IInv'
<1> DEFINE call == Call(p, "HEAD")
<1>1. call \in Calls \cup Queued /\ call.at = "enter"
  BY CallIs
<1>2. PICK lines \in {lock, <<>>} :
        Start([i \in 1..Cardinality({i \in DOMAIN lines : lines[i].pkg = p}) |-> call])
  BY DEF Update
<1> DEFINE n == Cardinality({i \in DOMAIN lines : lines[i].pkg = p})
           queue == [i \in 1..n |-> call]
<1>3. n \in Nat
  <2>1. lines \in Seq(LockLines)
    <3>1. lock \in Seq(LockLines) /\ <<>> \in Seq(LockLines)
      BY DEF IInv, Types, LinesOk
    <3>2. QED
      BY <3>1
  <2>2. IsFiniteSet(DOMAIN lines)
    BY <2>1, FS_Interval
  <2>3. {i \in DOMAIN lines : lines[i].pkg = p} \subseteq DOMAIN lines
    OBVIOUS
  <2>4. QED
    BY <2>2, <2>3, FS_Subset, FS_CardinalityType
<1> HIDE DEF n, call
<1>4. queue \in Seq(Calls \cup Queued) /\ \A i \in 1..Len(queue) : queue[i].at = "enter"
  BY <1>1, <1>3
<1>5. Start(queue)
  BY <1>2 DEF n
<1> HIDE DEF queue
<1>6. QED
  BY <1>4, <1>5, StartInv

LEMMA UpdateAllInv == ASSUME IInv, UpdateAll PROVE IInv'
<1>1. PICK lines \in {lock, <<>>} : Start([i \in DOMAIN lines |-> Call(lines[i].pkg, "HEAD")])
  BY DEF UpdateAll
<1>2. lines \in Seq(LockLines) /\ \A i \in 1..Len(lines) : lines[i].pkg \in Names
  <2>1. lines \in Seq(LockLines)
    <3>1. lock \in Seq(LockLines) /\ <<>> \in Seq(LockLines)
      BY DEF IInv, Types, LinesOk
    <3>2. QED
      BY <3>1
  <2>2. \A i \in 1..Len(lines) : lines[i] \in LockLines
    BY <2>1
  <2>3. QED
    BY <2>1, <2>2 DEF LockLines
<1>3. \A i \in 1..Len(lines) :
        Call(lines[i].pkg, "HEAD") \in Calls \cup Queued /\ Call(lines[i].pkg, "HEAD").at = "enter"
  BY <1>2, CallIs
<1> DEFINE queue == [i \in DOMAIN lines |-> Call(lines[i].pkg, "HEAD")]
<1>4. queue \in Seq(Calls \cup Queued) /\ \A i \in 1..Len(queue) : queue[i].at = "enter"
  BY <1>2, <1>3
<1> HIDE DEF queue
<1>5. QED
  BY <1>1, <1>4, StartInv DEF queue

-----------------------------------------------------------------------------
\* The command with other calls and an empty visited set.
Resumed(c, s, t) == [c EXCEPT !.calls = s, !.queue = t, !.visited = {}]

LEMMA ResumedIs ==
  ASSUME NEW c \in Commands, NEW s \in Seq(Calls), NEW t \in Seq(Calls \cup Queued)
  PROVE  /\ Resumed(c, s, t) \in Commands
         /\ Resumed(c, s, t).calls = s /\ Resumed(c, s, t).queue = t /\ Resumed(c, s, t).visited = {}
         /\ Resumed(c, s, t).running = c.running /\ Resumed(c, s, t).exit = c.exit
         /\ Resumed(c, s, t).faulty = c.faulty
<1>1. Resumed(c, s, t) \in Commands
  BY DEF Resumed, Commands
<1>2. Resumed(c, s, t).calls = s /\ Resumed(c, s, t).queue = t /\ Resumed(c, s, t).visited = {}
  BY DEF Resumed, Commands
<1>3. /\ Resumed(c, s, t).running = c.running /\ Resumed(c, s, t).exit = c.exit
      /\ Resumed(c, s, t).faulty = c.faulty
  BY DEF Resumed, Commands
<1>4. QED
  BY <1>1, <1>2, <1>3

\* The next cmd_add of the command, of a package that exists.
LEMMA RootInv == ASSUME IInv, NextRoot, Head(cmd.queue).pkg \in Pkgs PROVE IInv'
<1>1. /\ cmd \in Commands /\ cmd.running /\ cmd.calls = <<>> /\ cmd.queue # <<>>
      /\ cmd' = [cmd EXCEPT !.calls = <<Head(cmd.queue)>>, !.queue = Tail(@), !.visited = {}]
      /\ UNCHANGED <<remote, cache, lock, unread, outcome, events>> /\ outcome.kind = "none"
  BY DEF NextRoot, Running, IInv, Types, Waiting
<1> DEFINE q == cmd.queue
           h == Head(q)
<1>2. q \in Seq(Calls \cup Queued) /\ q # <<>> /\ \A i \in 1..Len(q) : q[i].at = "enter"
  BY <1>1 DEF Commands, IInv, Waiting
<1>3. /\ h \in Calls \cup Queued /\ h = q[1] /\ h.at = "enter" /\ Tail(q) \in Seq(Calls \cup Queued)
      /\ Len(Tail(q)) = Len(q) - 1 /\ Len(q) \in Nat \ {0}
      /\ \A i \in 1..Len(Tail(q)) : Tail(q)[i] = q[i + 1] /\ i + 1 \in 1..Len(q)
      /\ \A i \in 1..Len(q) : i = 1 \/ (i - 1 \in 1..Len(Tail(q)) /\ Tail(q)[i - 1] = q[i])
  BY <1>2
<1>3a. h \in Calls
  <2>1. h.pkg \in Pkgs
    OBVIOUS
  <2> HIDE DEF h
  <2>2. QED
    BY <1>3, <2>1 DEF Calls, Queued, Steps
<1> HIDE DEF q, h
<1>4. /\ cmd' \in Commands /\ cmd'.calls = <<h>> /\ cmd'.queue = Tail(q) /\ cmd'.visited = {}
      /\ cmd'.running /\ cmd'.exit = cmd.exit /\ cmd'.faulty = cmd.faulty
  <2>1. <<h>> \in Seq(Calls)
    BY <1>3a
  <2>2. cmd' = [cmd EXCEPT !.calls = <<h>>, !.queue = Tail(q), !.visited = {}]
    BY <1>1 DEF q, h
  <2> DEFINE s == <<h>>
             t == Tail(q)
  <2>3. cmd \in Commands /\ s \in Seq(Calls) /\ t \in Seq(Calls \cup Queued)
    BY <1>1, <1>3, <2>1
  <2>4. cmd' = Resumed(cmd, s, t)
    BY <2>2 DEF Resumed
  <2> HIDE DEF s, t
  <2>5. /\ cmd' \in Commands /\ cmd'.calls = s /\ cmd'.queue = t /\ cmd'.visited = {}
        /\ cmd'.running = cmd.running /\ cmd'.exit = cmd.exit /\ cmd'.faulty = cmd.faulty
    BY <2>3, <2>4, ResumedIs
  <2>6. QED
    BY <1>1, <2>5 DEF s, t
<1>5. Types' /\ Ended'
  BY <1>1, <1>4, OnlyCommand DEF IInv, Types
<1>6. Waiting'
  BY <1>1, <1>2, <1>3, <1>4 DEF Waiting
<1>7. Stacked(cmd')
  BY <1>3, <1>4 DEF Stacked
<1>8. Underway'
  <2>1. Busy(cmd') = {} /\ Fetched(cmd') = {} /\ Busy(cmd) = {}
    BY <1>1, <1>3, <1>4 DEF Busy, Fetched
  <2>2. Followed' = Followed /\ There(lock', cache', ~cmd'.faulty) = There(lock, cache, ~cmd.faulty)
    BY <1>1, <1>4, StillThere
  <2>3. ASSUME NEW u, NEW g, NEW D, Collected(cmd, outcome.roots, u, g, D)
        PROVE  Collected(cmd', outcome.roots, u, g, D)
    <3>1. ASSUME NEW p \in outcome.roots
          PROVE  \/ p \in D
                 \/ cmd'.calls # <<>> /\ cmd'.calls[1].pkg = p
                 \/ \E i \in 1..Len(cmd'.queue) : cmd'.queue[i].pkg = p
      <4>1. p \in D \/ \E i \in 1..Len(q) : q[i].pkg = p
        BY <1>1, <2>3 DEF Collected, q
      <4>2. cmd'.calls # <<>> /\ cmd'.calls[1] = h
        BY <1>4
      <4>3. ASSUME NEW i \in 1..Len(q), i # 1, q[i].pkg = p
            PROVE  \E j \in 1..Len(cmd'.queue) : cmd'.queue[j].pkg = p
        <5>1. i - 1 \in 1..Len(cmd'.queue) /\ cmd'.queue[i - 1] = q[i]
          BY <1>3, <1>4, <4>3
        <5>2. QED
          BY <4>3, <5>1
      <4>4. QED
        BY <1>3, <4>1, <4>2, <4>3
    <3>2. QED
      BY <2>1, <2>3, <3>1 DEF Collected
  <2>4. ASSUME NEW u, NEW g PROVE Fetching(cmd', u, g)
    <3>1. \A i \in 1..Len(cmd'.calls) : cmd'.calls[i].at # "deps"
      BY <1>3, <1>4
    <3>2. QED
      BY <1>4, <2>1, <3>1 DEF Fetching
  <2>5. QED
    BY <1>1, <1>4, <2>2, <2>3, <2>4 DEF IInv, Underway, Running
<1>9. QED
  BY <1>5, <1>6, <1>7, <1>8 DEF IInv

\* A name that is no package's fails the command, which goes on with the next.
LEMMA NoRootInv == ASSUME IInv, NextRoot, Head(cmd.queue).pkg \notin Pkgs PROVE IInv'
<1>1. /\ cmd \in Commands /\ cmd.running /\ cmd.calls = <<>> /\ cmd.queue # <<>>
      /\ cmd' = [cmd EXCEPT !.queue = Tail(@), !.exit = 1]
      /\ UNCHANGED <<remote, cache, lock, unread, outcome, events>> /\ outcome.kind = "none"
  BY DEF NextRoot, Running, IInv, Types, Waiting
<1>2. /\ cmd.queue \in Seq(Calls \cup Queued) /\ \A i \in 1..Len(cmd.queue) : cmd.queue[i].at = "enter"
  BY <1>1 DEF Commands, IInv, Waiting
<1> DEFINE t == Tail(cmd.queue)
<1>3. t \in Seq(Calls \cup Queued) /\ \A i \in 1..Len(t) : t[i].at = "enter"
  <2>1. t \in Seq(Calls \cup Queued)
        /\ \A i \in 1..Len(t) : t[i] = cmd.queue[i + 1] /\ i + 1 \in 1..Len(cmd.queue)
    BY <1>1, <1>2
  <2>2. QED
    BY <1>2, <2>1
<1> HIDE DEF t
<1>4. cmd' \in Commands /\ cmd'.calls = <<>> /\ cmd'.queue = t /\ cmd'.exit = 1 /\ cmd'.running
  <2>1. cmd' = [cmd EXCEPT !.queue = t, !.exit = 1]
    BY <1>1 DEF t
  <2>2. QED
    BY <1>1, <1>3, <2>1 DEF Commands
<1>5. Types' /\ Ended'
  BY <1>1, <1>4, OnlyCommand DEF IInv, Types
<1>6. Waiting' /\ Stacked(cmd') /\ Underway'
  BY <1>1, <1>3, <1>4 DEF Waiting, Stacked, Underway
<1>7. QED
  BY <1>5, <1>6 DEF IInv

LEMMA NextRootInv == ASSUME IInv, NextRoot PROVE IInv'
BY RootInv, NoRootInv

\* The command exits: nothing is being fetched and nothing is left to look at.
LEMMA ExitInv == ASSUME IInv, Exit PROVE IInv'
<1>1. /\ cmd \in Commands /\ cmd.running /\ cmd.calls = <<>> /\ cmd.queue = <<>>
      /\ cmd' = Idle /\ UNCHANGED <<remote, cache, lock, unread, events>>
      /\ outcome' = [outcome EXCEPT !.kind =
           IF cmd.exit # 0 THEN "failed" ELSE IF cmd.faulty THEN "faulty" ELSE "ok"]
      /\ outcome \in Outcomes
  BY DEF Exit, Running, IInv, Types
<1>2. cmd' \in Commands /\ cmd'.calls = <<>> /\ cmd'.queue = <<>> /\ ~cmd'.running
  <2>1. <<>> \in Seq(Calls)
    OBVIOUS
  <2>2. QED
    BY <1>1, <2>1 DEF Idle, Commands
<1>3. /\ outcome' \in Outcomes /\ outcome'.roots = outcome.roots
      /\ outcome'.kind \in {"ok", "faulty"} => cmd.exit = 0 /\ (outcome'.kind = "ok") = ~cmd.faulty
  BY <1>1 DEF Outcomes, Commands
<1>4. Types'
  BY <1>1, <1>2, <1>3 DEF IInv, Types
<1>5. Waiting' /\ Stacked(cmd') /\ Underway'
  BY <1>2 DEF Waiting, Stacked, Underway, Running
<1>6. Ended'
  <2>1. Followed' = Followed
    BY <1>1 DEF Followed, CachedUses
  <2>2. Busy(cmd) = {}
    BY <1>1 DEF Busy
  <2> SUFFICES ASSUME outcome'.kind \in {"ok", "faulty"}
               PROVE  \E D \in SUBSET Pkgs : /\ outcome'.roots \subseteq D
                        /\ Sound(Followed', There(lock', cache', outcome'.kind = "ok"), D, D)
    BY DEF Ended
  <2>3. PICK D \in SUBSET Pkgs :
          Collected(cmd, outcome.roots, Followed, There(lock, cache, ~cmd.faulty), D)
    BY <1>1, <1>3 DEF IInv, Underway, Running
  <2>4. There(lock', cache', outcome'.kind = "ok") = There(lock, cache, ~cmd.faulty)
    BY <1>1, <1>3
  <2>5. D \ Busy(cmd) = D /\ outcome.roots \subseteq D
    BY <1>1, <2>2, <2>3 DEF Collected
  <2>6. Sound(Followed, There(lock, cache, ~cmd.faulty), D, D)
    BY <2>3, <2>5 DEF Collected
  <2>7. QED
    BY <1>3, <2>1, <2>4, <2>5, <2>6
<1>7. QED
  BY <1>4, <1>5, <1>6 DEF IInv

\* The command is killed.
LEMMA CrashInv == ASSUME IInv, Crash PROVE IInv'
<1>1. /\ cmd' = Idle /\ outcome' = [outcome EXCEPT !.kind = "crashed"] /\ UNCHANGED <<remote, cache, unread>>
      /\ Types /\ Event
      /\ \/ UNCHANGED lock
         \/ At("lock") /\ lock' \in Left(Line(Top.pkg, cache[Top.pkg]))
  BY DEF Crash, IInv
<1>2. cmd' \in Commands /\ cmd'.calls = <<>> /\ cmd'.queue = <<>> /\ ~cmd'.running
  <2>1. <<>> \in Seq(Calls)
    OBVIOUS
  <2>2. QED
    BY <1>1, <2>1 DEF Idle, Commands
<1>3. outcome' \in Outcomes /\ outcome'.kind = "crashed"
  BY <1>1 DEF Types, Outcomes
<1>4. LinesOk(lock', remote)
  <2>1. CASE UNCHANGED lock
    BY <1>1, <2>1 DEF Types
  <2>2. CASE At("lock") /\ lock' \in Left(Line(Top.pkg, cache[Top.pkg]))
    <3>1. Top.pkg \in Pkgs
      BY <2>2, AtIs DEF Calls
    <3>2. QED
      BY <1>1, <2>2, <3>1, LeftOk
  <2>3. QED
    BY <1>1, <2>1, <2>2
<1>5. Types'
  <2>1. events' \in 0..MaxEvents
    BY <1>1, CountedOne
  <2>2. QED
    BY <1>1, <1>2, <1>3, <1>4, <2>1 DEF Types
<1>6. Waiting' /\ Stacked(cmd') /\ Underway' /\ Ended'
  BY <1>2, <1>3 DEF Waiting, Stacked, Underway, Running, Ended
<1>7. QED
  BY <1>5, <1>6 DEF IInv

-----------------------------------------------------------------------------
\* A call ends with an error: the command keeps its queue.
LEMMA FailedWaits == ASSUME IInv, Running, cmd' = Failed(cmd), UNCHANGED outcome PROVE Waiting' /\ Ended'
<1>1. cmd'.calls = <<>> /\ cmd'.queue = cmd.queue
  BY FailedIs DEF IInv, Types
<1>2. Waiting'
  BY <1>1 DEF IInv, Waiting
<1>3. Ended'
  BY NotEnded DEF IInv, Waiting
<1>4. QED
  BY <1>2, <1>3

\* The call at the top goes.
LEMMA PoppedWaits ==
  ASSUME IInv, NEW step, At(step), cmd' = Popped(cmd), UNCHANGED <<remote, cache, lock, unread, outcome, events>>,
         \/ step = "deps" /\ Top.deps = {}
         \/ /\ step = "enter" /\ Top.pkg \in cmd.visited
            /\ \A i \in 1..Len(cmd.calls) - 1 : cmd.calls[i].pkg # Top.pkg
  PROVE  IInv'
<1>1. /\ Running /\ cmd \in Commands /\ cmd.calls # <<>>
      /\ Top = cmd.calls[Len(cmd.calls)] /\ Top.at = step
      /\ Len(cmd.calls) \in Nat \ {0}
  BY AtIs
<1>2. /\ cmd' \in Commands /\ cmd' = [cmd EXCEPT !.calls = cmd'.calls]
      /\ Len(cmd'.calls) = Len(cmd.calls) - 1
      /\ \A i \in 1..Len(cmd.calls) - 1 : cmd'.calls[i] = cmd.calls[i]
  BY <1>1, PoppedIs
<1>3. /\ cmd'.queue = cmd.queue /\ cmd'.exit = cmd.exit /\ cmd'.visited = cmd.visited
      /\ cmd'.faulty = cmd.faulty /\ cmd'.running = cmd.running
  BY <1>1, <1>2 DEF Commands
<1>4. Goes(cmd, cmd')
  BY <1>1, <1>2, <1>3 DEF Goes
<1>5. Stacked(cmd') /\ Underway'
  BY <1>1, <1>3, <1>4, GoKeeps DEF IInv
<1>6. Types' /\ Ended'
  BY <1>2, OnlyCommand DEF IInv, Types
<1>7. Waiting'
  <2>1. \A i \in 1..Len(cmd.calls) - 1 : i \in 1..Len(cmd.calls)
    BY <1>1
  <2>2. QED
    BY <1>1, <1>2, <1>3, <2>1 DEF IInv, Waiting
<1>8. QED
  BY <1>5, <1>6, <1>7 DEF IInv

LEMMA ReturnInv == ASSUME IInv, Return PROVE IInv'
BY PoppedWaits DEF Return

\* The package of the call is on the stack, has been fetched, or is begun.
LEMMA EnterInv == ASSUME IInv, Enter PROVE IInv'
<1>1. At("enter") /\ cmd' = Entered /\ UNCHANGED <<remote, cache, lock, unread, outcome, events>>
  BY DEF Enter
<1>2. /\ Running /\ cmd \in Commands /\ cmd.calls # <<>> /\ Top \in Calls
      /\ Top = cmd.calls[Len(cmd.calls)]
  BY <1>1, AtIs
<1>3. CASE Top.pkg \in Ancestors
  <2>1. cmd' = Failed(cmd)
    BY <1>1, <1>3 DEF Entered
  <2>2. cmd' \in Commands /\ Stacked(cmd') /\ Underway'
    BY <1>2, <2>1, FailedIs
  <2>3. Types'
    BY <1>1, <2>2, OnlyCommand DEF IInv, Types
  <2>4. QED
    BY <1>1, <1>2, <2>1, <2>2, <2>3, FailedWaits DEF IInv
<1>4. CASE Top.pkg \notin Ancestors
  <2>1. \A i \in 1..Len(cmd.calls) - 1 : cmd.calls[i].pkg # Top.pkg
    BY <1>4 DEF Ancestors
  <2>2. CASE Top.pkg \in cmd.visited
    BY <1>1, <1>4, <2>1, <2>2, PoppedWaits DEF Entered
  <2>3. CASE Top.pkg \notin cmd.visited
    <3> DEFINE t == [Top EXCEPT !.at = "resolve"]
    <3>1. t \in Calls /\ t.at = "resolve" /\ t.pkg = Top.pkg
      BY <1>2 DEF Calls, Steps
    <3>2. cmd' = WithTop(t)
      BY <1>1, <1>4, <2>3 DEF Entered
    <3> HIDE DEF t
    <3>3. /\ Advances(cmd, cmd', t) /\ cmd' \in Commands /\ cmd'.queue = cmd.queue
          /\ cmd'.exit = cmd.exit /\ cmd'.faulty = cmd.faulty /\ cmd'.running = cmd.running
      BY <1>1, <2>1, <2>3, <3>1, <3>2, StepsOn
    <3>4. Stacked(cmd') /\ Underway'
      BY <1>1, <1>2, <3>1, <3>3, AdvanceKeeps DEF IInv
    <3>5. Waiting'
      BY <1>1, <1>2, <3>1, <3>3, WaitsOn DEF IInv
    <3>6. Types' /\ Ended'
      BY <1>1, <3>3, OnlyCommand DEF IInv, Types
    <3>7. QED
      BY <3>4, <3>5, <3>6 DEF IInv
  <2>4. QED
    BY <2>2, <2>3
<1>5. QED
  BY <1>3, <1>4

(***************************************************************************)
(* A step on the cache: the call goes on or fails, and no directory but    *)
(* that of its package is another.                                         *)
(***************************************************************************)
LEMMA CacheStep ==
  ASSUME IInv, NEW step \in {"resolve", "clone"}, At(step), UNCHANGED <<remote, lock, unread, outcome>>,
         events' \in 0..MaxEvents,
         cache' \in [Pkgs -> Nat], cache'[Top.pkg] <= Len(remote[Top.pkg]),
         \A q \in Pkgs \ {Top.pkg} : cache'[q] = cache[q],
         \/ cmd' = Failed(cmd)
         \/ \E next \in {"clone", "lock"} :
              /\ cmd' = WithTop([Top EXCEPT !.at = next])
              /\ next = "lock" => cache'[Top.pkg] # None
  PROVE  IInv'
<1>1. /\ Running /\ cmd \in Commands /\ cmd.calls # <<>> /\ Top \in Calls
      /\ outcome.kind = "none"
  BY AtIs
<1>2. Ended'
  BY <1>1, NotEnded
<1>3. cmd' \in Commands => Types'
  <2>1. \A q \in Pkgs : cache'[q] <= Len(remote'[q])
    BY DEF IInv, Types
  <2>2. QED
    BY <2>1 DEF IInv, Types
<1>4. CASE cmd' = Failed(cmd)
  <2>1. cmd' \in Commands /\ Stacked(cmd') /\ Underway'
    BY <1>1, <1>4, FailedIs
  <2>2. Waiting'
    BY <1>1, <1>4, FailedWaits
  <2>3. QED
    BY <1>2, <1>3, <2>1, <2>2 DEF IInv
<1>5. ASSUME NEW next \in {"clone", "lock"}, cmd' = WithTop([Top EXCEPT !.at = next]),
             next = "lock" => cache'[Top.pkg] # None
      PROVE  IInv'
  <2> DEFINE t == [Top EXCEPT !.at = next]
  <2>1. t \in Calls /\ t.at = next /\ t.pkg = Top.pkg
    BY <1>1 DEF Calls, Steps
  <2>2. cmd' = WithTop(t)
    BY <1>5
  <2> HIDE DEF t
  <2>3. /\ Advances(cmd, cmd', t) /\ cmd' \in Commands /\ cmd'.queue = cmd.queue
        /\ cmd'.exit = cmd.exit /\ cmd'.faulty = cmd.faulty /\ cmd'.running = cmd.running
    BY <2>1, <2>2, StepsOn
  <2>4. \A q \in Pkgs \ {t.pkg} : Locked(lock, cache, q) => Locked(lock', cache', q)
    BY <2>1, LockedKept
  <2>5. Stacked(cmd') /\ Underway'
    BY <1>1, <2>1, <2>3, <2>4, AdvanceKeeps DEF IInv
  <2>6. Waiting'
    BY <1>1, <1>5, <2>1, <2>3, WaitsOn DEF IInv
  <2>7. QED
    BY <1>2, <1>3, <2>3, <2>5, <2>6 DEF IInv
<1>6. QED
  BY <1>4, <1>5

\* The entry of one package is replaced in the cache.
LEMMA CacheIs ==
  ASSUME Types, NEW p \in Pkgs, NEW n \in Nat, n <= Len(remote[p])
  PROVE  LET next == [cache EXCEPT ![p] = n]
         IN  /\ next \in [Pkgs -> Nat] /\ next[p] = n /\ n <= Len(remote[p])
             /\ \A q \in Pkgs \ {p} : next[q] = cache[q]
BY DEF Types

LEMMA RemoveCacheInv == ASSUME IInv, RemoveCache PROVE IInv'
<1> DEFINE p == Top.pkg
           gone == [cache EXCEPT ![p] = None]
<1>1. /\ At("resolve") /\ UNCHANGED <<remote, lock, unread, outcome>>
      /\ \/ cmd' = WithTop([Top EXCEPT !.at = "clone"]) /\ cache' = gone /\ UNCHANGED events
         \/ Event /\ cmd' = Failed(cmd) /\ cache' \in {cache, gone}
  BY DEF RemoveCache, GoTo
<1>2. events' \in 0..MaxEvents
  BY <1>1, CountedOne DEF IInv, Types
<1>3. p \in Pkgs
  BY <1>1, AtIs DEF Calls
<1>4. 0 \in Nat /\ 0 <= Len(remote[p]) /\ cache[p] <= Len(remote[p]) /\ cache \in [Pkgs -> Nat]
  BY <1>3 DEF IInv, Types
<1>5. gone \in [Pkgs -> Nat] /\ gone[p] = 0 /\ \A q \in Pkgs \ {p} : gone[q] = cache[q]
  BY <1>3, <1>4, CacheIs DEF None, IInv
<1> HIDE DEF gone
<1>6. /\ cache' \in [Pkgs -> Nat] /\ cache'[p] <= Len(remote[p])
      /\ \A q \in Pkgs \ {p} : cache'[q] = cache[q]
  BY <1>1, <1>4, <1>5
<1> HIDE DEF p
<1>7. QED
  BY <1>1, <1>2, <1>6, CacheStep DEF p

LEMMA CloneInv == ASSUME IInv, Clone PROVE IInv'
<1> DEFINE p == Top.pkg
           head == Len(remote[p])
           wanted == IF Top.ref = "tag" THEN 1 ELSE head
<1>1. /\ At("clone") /\ UNCHANGED <<remote, lock, unread, outcome>>
      /\ \/ /\ cmd' = WithTop([Top EXCEPT !.at = "lock"])
            /\ cache' = [cache EXCEPT ![p] = wanted] /\ UNCHANGED events
         \/ Event /\ cmd' = Failed(cmd) /\ cache' \in {cache, [cache EXCEPT ![p] = head]}
  BY DEF Clone, GoTo
<1>2. events' \in 0..MaxEvents
  BY <1>1, CountedOne DEF IInv, Types
<1>3. p \in Pkgs
  BY <1>1, AtIs DEF Calls
<1>4. head \in Nat \ {0} /\ wanted \in Nat \ {0} /\ wanted <= head /\ cache \in [Pkgs -> Nat] /\ cache[p] <= head
  <2>1. remote[p] \in Seq(Commits) \ {<<>>}
    BY <1>3 DEF IInv, Types
  <2>2. head \in Nat \ {0}
    BY <2>1
  <2>3. QED
    BY <1>3, <2>2 DEF IInv, Types
<1> HIDE DEF wanted
<1>5. /\ cache' \in [Pkgs -> Nat] /\ cache'[p] <= head
      /\ \A q \in Pkgs \ {p} : cache'[q] = cache[q]
      /\ cache' = [cache EXCEPT ![p] = wanted] => cache'[p] # None
  <2>1. \A n \in Nat : n <= head =>
          /\ [cache EXCEPT ![p] = n] \in [Pkgs -> Nat] /\ [cache EXCEPT ![p] = n][p] = n
          /\ \A q \in Pkgs \ {p} : [cache EXCEPT ![p] = n][q] = cache[q]
    BY <1>3, CacheIs DEF IInv
  <2>2. CASE cache' = cache
    BY <1>4, <2>1, <2>2 DEF None
  <2>3. ASSUME NEW n \in {wanted, head}, cache' = [cache EXCEPT ![p] = n]
        PROVE  /\ cache' \in [Pkgs -> Nat] /\ cache'[p] <= head /\ cache'[p] # None
               /\ \A q \in Pkgs \ {p} : cache'[q] = cache[q]
    <3>1. n \in Nat \ {0} /\ n <= head
      BY <1>4
    <3> HIDE DEF head
    <3>2. QED
      BY <2>1, <2>3, <3>1 DEF None
  <2>4. CASE cache' # cache
    BY <1>1, <2>3, <2>4
  <2>5. QED
    BY <2>2, <2>4
<1> HIDE DEF p, head
<1>6. QED
  BY <1>1, <1>2, <1>5, CacheStep DEF p, head

-----------------------------------------------------------------------------
LEMMA Three == ASSUME NEW S \in SUBSET {1, 2, 3} PROVE Cardinality(S) \in Nat
<1>1. \A a, b \in Int : IsFiniteSet(a..b)
  BY FS_Interval
<1>2. {1, 2, 3} = 1..3 /\ 1 \in Int /\ 3 \in Int
  OBVIOUS
<1>3. IsFiniteSet({1, 2, 3})
  BY <1>1, <1>2, Zenon
<1>4. IsFiniteSet(S)
  BY <1>3, FS_Subset
<1>5. QED
  BY <1>4, FS_CardinalityType

(***************************************************************************)
(* The package is fetched: its line is written, unless the lockfile fails  *)
(* the command, and of its dependencies those the scan found are known.    *)
(***************************************************************************)
LEMMA WriteLockInv == ASSUME IInv, WriteLock PROVE IInv'
<1> DEFINE p == Top.pkg
           all == Scan(CachedUses(p))
<1>1. At("lock") /\ UNCHANGED <<remote, cache, outcome>>
  BY DEF WriteLock
<1>2. /\ Running /\ cmd \in Commands /\ cmd.calls # <<>> /\ Top \in Calls
      /\ Top = cmd.calls[Len(cmd.calls)] /\ Top.at = "lock" /\ outcome.kind = "none"
      /\ p \notin cmd.visited /\ \A i \in 1..Len(cmd.calls) - 1 : cmd.calls[i].pkg # p
      /\ Len(cmd.calls) \in 1..Len(cmd.calls)
  BY <1>1, AtIs
<1>3. p \in Pkgs /\ cache[p] # None
  BY <1>2 DEF Calls, IInv, Waiting
<1>4. cache[p] \in Nat \ {0} /\ cache[p] <= Len(remote[p]) /\ remote[p] \in Seq(Commits)
  BY <1>3 DEF IInv, Types, None
<1>5. all \subseteq Pkgs
  <2>1. remote[p][cache[p]] \in Commits
    BY <1>4
  <2>2. QED
    BY <1>3, <2>1 DEF CachedUses, Scan, Commits
<1> HIDE DEF all
<1> DEFINE with(sha) == WithLine(lock, Line(p, sha))
           went(deps) == WithTop([Top EXCEPT !.at = "deps", !.deps = deps])
<1>6. PICK sha \in {cache[p], Unknown}, fails \in BOOLEAN, deps \in SUBSET all :
        /\ Events(Cardinality({f \in {1, 2, 3} : <<sha # cache[p], fails, deps # all>>[f]}))
        /\ lock' \in IF fails THEN Left(Line(p, sha)) ELSE {with(sha)}
        /\ unread' = IF deps = all THEN unread \ {p} ELSE unread \cup {p}
        /\ cmd' = [went(deps) EXCEPT !.visited = @ \cup {p}, !.faulty = @ \/ fails]
  BY DEF WriteLock, all
<1> DEFINE t == [Top EXCEPT !.at = "deps", !.deps = deps]
           w == WithTop(t)
<1>7. t \in Calls /\ t.at = "deps" /\ t.pkg = p /\ t.deps = deps
  BY <1>2, <1>5 DEF Calls, Steps
<1>8. events' \in 0..MaxEvents
  <2>1. Cardinality({f \in {1, 2, 3} : <<sha # cache[p], fails, deps # all>>[f]}) \in Nat
    BY Three
  <2>2. QED
    BY <1>6, <2>1, Counted DEF IInv
<1>9. LinesOk(lock', remote)
  <2>1. Line(p, sha) \in LockLines /\ LineOk(Line(p, sha), remote)
    BY <1>3, <1>4 DEF Line, LockLines, LineOk, Names, Unknown
  <2>2. LinesOk(with(sha), remote)
    BY <2>1, WithLineIs DEF IInv, Types
  <2>3. \A lines \in Left(Line(p, sha)) : LinesOk(lines, remote)
    BY <1>3, LeftOk DEF IInv
  <2>4. QED
    BY <1>6, <2>2, <2>3
<1>10. /\ w \in Commands /\ w = [cmd EXCEPT !.calls = w.calls] /\ Len(w.calls) = Len(cmd.calls)
       /\ w.calls[Len(cmd.calls)] = t
       /\ \A i \in 1..Len(cmd.calls) : i # Len(cmd.calls) => w.calls[i] = cmd.calls[i]
  <2> HIDE DEF t
  <2> QED
    BY <1>2, <1>7, WithTopIs
<1>11. cmd' = [w EXCEPT !.visited = @ \cup {p}, !.faulty = @ \/ fails]
  BY <1>6
<1> HIDE DEF w
<1>12. /\ cmd' \in Commands /\ cmd'.calls = w.calls /\ cmd'.visited = cmd.visited \cup {p}
       /\ cmd'.queue = cmd.queue /\ cmd'.exit = cmd.exit /\ cmd'.running = cmd.running
       /\ cmd'.faulty = (cmd.faulty \/ fails)
  <2>1. /\ w.queue = cmd.queue /\ w.exit = cmd.exit /\ w.visited = cmd.visited
        /\ w.faulty = cmd.faulty /\ w.running = cmd.running
    BY <1>2, <1>10 DEF Commands
  <2> HIDE DEF p
  <2>2. /\ cmd' \in Commands /\ cmd'.calls = w.calls /\ cmd'.visited = w.visited \cup {p}
        /\ cmd'.queue = w.queue /\ cmd'.exit = w.exit /\ cmd'.running = w.running
        /\ cmd'.faulty = (w.faulty \/ fails)
    BY <1>3, <1>10, <1>11 DEF Commands
  <2>3. QED
    BY <2>1, <2>2
<1>13. Advances(cmd, cmd', t)
  <2> HIDE DEF p, t
  <2>1. t.at = "deps" /\ t.pkg = p /\ t \in Calls
    BY <1>7
  <2>2. QED
    BY <1>2, <1>10, <1>12, <2>1 DEF Advances, p
<1>14. ~cmd'.faulty => ~cmd.faulty /\ lock' = with(sha)
  BY <1>6, <1>12
<1>15. ASSUME ~cmd'.faulty
       PROVE  /\ Locked(lock', cache', p)
              /\ \A q \in Pkgs \ {p} : Locked(lock, cache, q) => Locked(lock', cache', q)
  <2> DEFINE l == Line(p, sha)
  <2>1. l \in LockLines /\ LineOk(l, remote) /\ l.pkg = p /\ l.sha = sha
    BY <1>3, <1>4 DEF Line, LockLines, LineOk, Names, Unknown
  <2>2. lock' = WithLine(lock, l) /\ LinesOk(lock, remote) /\ cache' = cache
    BY <1>1, <1>14, <1>15 DEF IInv, Types
  <2> HIDE DEF l
  <2>3. QED
    BY <2>1, <2>2, LockedByLine
<1>16. Followed'[p] \subseteq t.deps /\ (p \in There(lock', cache', ~cmd'.faulty))
  <2>1. Followed'[p] = IF p \in unread' THEN {} ELSE all
    BY <1>1, <1>3 DEF Followed, CachedUses, all, Scan
  <2>2. p \in unread' <=> deps # all
    BY <1>6
  <2>3. p \in There(lock', cache', ~cmd'.faulty)
    BY <1>1, <1>3, <1>15 DEF There
  <2>4. QED
    BY <1>7, <2>1, <2>2, <2>3
<1>17. unread' \subseteq Pkgs /\ \A q \in Pkgs \ {p} : q \in unread' <=> q \in unread
  BY <1>3, <1>6 DEF IInv, Types
<1> HIDE DEF with, went
<1>18. Stacked(cmd') /\ Underway'
  <2> HIDE DEF p, t
  <2> QED
    BY <1>1, <1>2, <1>7, <1>12, <1>13, <1>14, <1>15, <1>16, <1>17, AdvanceKeeps DEF IInv
<1>19. Waiting'
  <2> HIDE DEF p, t
  <2> QED
    BY <1>1, <1>2, <1>7, <1>13, WaitsOn DEF IInv
<1>20. Ended'
  BY <1>1, <1>2, NotEnded
<1>21. Types'
  BY <1>1, <1>8, <1>9, <1>12, <1>17 DEF IInv, Types
<1>22. QED
  BY <1>18, <1>19, <1>20, <1>21 DEF IInv

LEMMA NextDepInv == ASSUME IInv, NextDep PROVE IInv'
<1> DEFINE n == Len(cmd.calls)
<1>1. PICK q \in Top.deps :
        cmd' = [WithTop([Top EXCEPT !.deps = @ \ {q}]) EXCEPT !.calls = Append(@, Call(q, "HEAD"))]
  BY DEF NextDep
<1> DEFINE t == [Top EXCEPT !.deps = @ \ {q}]
           w == WithTop(t)
           s == Append(w.calls, Call(q, "HEAD"))
<1>2. At("deps") /\ UNCHANGED <<remote, cache, lock, unread, outcome, events>>
  BY DEF NextDep
<1>3. /\ Running /\ cmd \in Commands /\ cmd.calls # <<>> /\ Top \in Calls
      /\ Top = cmd.calls[n] /\ Top.at = "deps" /\ n \in Nat \ {0} /\ n \in 1..n
  BY <1>2, AtIs
<1>4. q \in Pkgs /\ Call(q, "HEAD") \in Calls /\ Call(q, "HEAD").at = "enter"
  BY <1>3 DEF Calls, Call, Steps
<1>5. t \in Calls
  BY <1>3 DEF Calls
<1>6. /\ w \in Commands /\ w = [cmd EXCEPT !.calls = w.calls] /\ Len(w.calls) = n /\ w.calls[n] = t
      /\ \A i \in 1..n : i # n => w.calls[i] = cmd.calls[i]
  <2> HIDE DEF t
  <2> QED
    BY <1>3, <1>5, WithTopIs
<1>7. cmd' = [w EXCEPT !.calls = s]
  BY <1>1
<1> HIDE DEF t, w
<1>8. /\ s \in Seq(Calls) /\ Len(s) = n + 1 /\ s[n + 1] = Call(q, "HEAD")
      /\ \A i \in 1..n : s[i] = w.calls[i]
  <2>1. w.calls \in Seq(Calls)
    BY <1>6 DEF Commands
  <2>2. QED
    BY <1>3, <1>4, <1>6, <2>1
<1> HIDE DEF s, n
<1>9. cmd' \in Commands /\ cmd'.calls = s
      /\ cmd'.queue = cmd.queue /\ cmd'.exit = cmd.exit /\ cmd'.visited = cmd.visited
      /\ cmd'.faulty = cmd.faulty /\ cmd'.running = cmd.running
  <2>1. /\ w.queue = cmd.queue /\ w.exit = cmd.exit /\ w.visited = cmd.visited
        /\ w.faulty = cmd.faulty /\ w.running = cmd.running
    BY <1>3, <1>6 DEF Commands
  <2>2. cmd' \in Commands /\ cmd'.calls = s /\ cmd'.queue = w.queue /\ cmd'.exit = w.exit
        /\ cmd'.visited = w.visited /\ cmd'.faulty = w.faulty /\ cmd'.running = w.running
    BY <1>6, <1>7, <1>8 DEF Commands
  <2>3. QED
    BY <2>1, <2>2
<1>10. Descends(cmd, cmd', q)
  <2>1. \A i \in 1..n - 1 : i \in 1..n /\ i # n
    BY <1>3
  <2>2. \A i \in 1..n - 1 : cmd'.calls[i] = cmd.calls[i]
    BY <1>6, <1>8, <1>9, <2>1
  <2>3. cmd'.calls[n] = t
    BY <1>3, <1>6, <1>8, <1>9
  <2>4. QED
    BY <1>3, <1>8, <1>9, <2>2, <2>3 DEF Descends, n, t
<1>11. Stacked(cmd')
  BY <1>10, DescendKeeps DEF IInv
<1>12. Followed' = Followed /\ There(lock', cache', ~cmd'.faulty) = There(lock, cache, ~cmd.faulty)
  BY <1>2, <1>9, StillThere
<1>13. Underway'
  <2> DEFINE u == Followed
             g == There(lock, cache, ~cmd.faulty)
  <2> HIDE DEF u, g
  <2>1. ASSUME cmd'.exit = 0
        PROVE  Fetching(cmd', u, g) /\ \E D \in SUBSET Pkgs : Collected(cmd', outcome.roots, u, g, D)
    <3>1. Fetching(cmd, u, g) /\ \E D \in SUBSET Pkgs : Collected(cmd, outcome.roots, u, g, D)
      BY <1>3, <1>9, <2>1 DEF IInv, Underway, u, g
    <3>2. QED
      BY <1>10, <3>1, DescendKeeps DEF IInv
  <2>2. QED
    BY <1>2, <1>12, <2>1 DEF Underway, u, g
<1>14. Waiting'
  <2>1. \A i \in 1..n + 1 : i \in 1..n \/ i = n + 1
    BY <1>3
  <2>2. \A i \in 1..n : cmd'.calls[i].at = "lock" => i # n /\ cmd'.calls[i] = cmd.calls[i]
    <3>1. t.at = "deps"
      BY <1>3 DEF t, Calls
    <3>2. QED
      BY <1>6, <1>8, <1>9, <3>1
  <2>3. cmd'.calls[n + 1].at = "enter" /\ Len(cmd'.calls) = n + 1
    BY <1>4, <1>8, <1>9
  <2>4. QED
    BY <1>2, <1>9, <2>1, <2>2, <2>3 DEF IInv, Waiting, Running, n
<1>15. Types' /\ Ended'
  BY <1>2, <1>9, OnlyCommand DEF IInv, Types
<1>16. QED
  BY <1>11, <1>13, <1>14, <1>15 DEF IInv

-----------------------------------------------------------------------------
(***************************************************************************)
(* Each action keeps the invariant.                                        *)
(***************************************************************************)
LEMMA NextInv == IInv /\ [Next]_vars => IInv'
<1> SUFFICES ASSUME IInv, [Next]_vars PROVE IInv'
  OBVIOUS
<1>1. CASE NextRoot
  BY <1>1, NextRootInv
<1>2. CASE Exit
  BY <1>2, ExitInv
<1>3. CASE Enter
  BY <1>3, EnterInv
<1>4. CASE RemoveCache
  BY <1>4, RemoveCacheInv
<1>5. CASE Clone
  BY <1>5, CloneInv
<1>6. CASE WriteLock
  BY <1>6, WriteLockInv
<1>7. CASE NextDep
  BY <1>7, NextDepInv
<1>8. CASE Return
  BY <1>8, ReturnInv
<1>9. CASE Crash
  BY <1>9, CrashInv
<1>10. ASSUME NEW p \in Named, NEW ref \in {"HEAD", "tag"}, Add(p, ref)
       PROVE  IInv'
  BY <1>10, AddInv
<1>11. ASSUME NEW p \in Pkgs, Push(p) \/ Update(p)
       PROVE  IInv'
  BY <1>11, PushInv, UpdateInv
<1>12. CASE UpdateAll
  BY <1>12, UpdateAllInv
<1>13. CASE UNCHANGED vars
  <2>1. UNCHANGED <<remote, cache, lock, unread, cmd, outcome, events>>
    BY <1>13 DEF vars
  <2>2. Followed' = Followed
    BY <2>1 DEF Followed, CachedUses
  <2>3. Types' /\ Waiting' /\ Stacked(cmd')
    BY <2>1 DEF IInv, Types, Waiting, Running
  <2>4. Underway' /\ Ended'
    BY <2>1, <2>2 DEF IInv, Underway, Ended, Running
  <2>5. QED
    BY <2>3, <2>4 DEF IInv
<1>14. QED
  BY <1>1, <1>2, <1>3, <1>4, <1>5, <1>6, <1>7, <1>8, <1>9, <1>10, <1>11, <1>12, <1>13 DEF Next, Step

LEMMA Invariance == Spec => []IInv
<1>1. QED
  BY InitInv, NextInv, PTL DEF Spec

LEMMA TypesOk == IInv => TypeOK
<1> SUFFICES ASSUME IInv PROVE TypeOK
  OBVIOUS
<1>1. \A p \in Pkgs : /\ remote[p] \in Seq(Commits) /\ cache[p] \in 0..Len(remote[p])
                      /\ Len(remote[p]) \in Nat
  BY DEF IInv, Types
<1>2. lock \in Seq(LockLines) /\ DOMAIN lock = 1..Len(lock) /\ \A i \in 1..Len(lock) : lock[i] \in LockLines
  BY DEF IInv, Types, LinesOk
<1>3. \A i \in 1..Len(lock) :
        /\ lock[i].pkg \in Names
        /\ lock[i].sha \in IF lock[i].pkg \in Pkgs THEN 0..Len(remote[lock[i].pkg]) ELSE {Unknown}
  <2> SUFFICES ASSUME NEW i \in 1..Len(lock)
               PROVE  /\ lock[i].pkg \in Names
                      /\ lock[i].sha \in IF lock[i].pkg \in Pkgs THEN 0..Len(remote[lock[i].pkg])
                                         ELSE {Unknown}
    OBVIOUS
  <2>1. lock[i].pkg \in Names /\ lock[i].sha \in Nat
    BY <1>2 DEF LockLines
  <2>2. LineOk(lock[i], remote)
    BY DEF IInv, Types, LinesOk
  <2>3. QED
    BY <1>1, <2>1, <2>2 DEF LineOk
<1>4. \A i, j \in 1..Len(lock) : lock[i].pkg = lock[j].pkg =>
        lock[i].sha = lock[j].sha \/ Unknown \in {lock[i].sha, lock[j].sha}
  BY DEF IInv, Types, LinesOk, Agree
<1>5. /\ cmd.queue \in Seq(Calls \cup Queued) /\ cmd.calls \in Seq(Calls)
      /\ cmd.visited \subseteq Pkgs /\ cmd.exit \in {0, 1}
      /\ {cmd.running, cmd.faulty} \subseteq BOOLEAN
  BY DEF IInv, Types, Commands
<1>6. /\ outcome.kind \in {"none", "ok", "faulty", "failed", "crashed"} /\ outcome.roots \subseteq Names
      /\ events \in 0..MaxEvents /\ unread \subseteq Pkgs
  BY DEF IInv, Types, Outcomes
<1>7. QED
  BY <1>1, <1>2, <1>3, <1>4, <1>5, <1>6 DEF TypeOK

(***************************************************************************)
(* Whatever commands, pushes, faults and kills come in whatever order, for *)
(* every set of packages: the lockfile names one commit of a package at    *)
(* most, one that exists, though a write of it may stop between two lines, *)
(* in the name of a package or in the commit.                              *)
(***************************************************************************)
THEOREM TypeCorrect == Spec => []TypeOK
<1>1. QED
  BY Invariance, TypesOk, PTL

-----------------------------------------------------------------------------
\* What is reached is the least closed set.
LEMMA ReachedIs ==
  ASSUME NEW u, NEW S \in SUBSET Pkgs, \A p \in Pkgs : u[p] \subseteq Pkgs
  PROVE  /\ Reached(u, S) \in SUBSET Pkgs /\ S \subseteq Reached(u, S)
         /\ \A p \in Reached(u, S) : u[p] \subseteq Reached(u, S)
         /\ \A C \in SUBSET Pkgs : S \subseteq C /\ (\A p \in C : u[p] \subseteq C) => Reached(u, S) \subseteq C
BY DEF Reached

(***************************************************************************)
(* `ilo add` and `ilo update` that exit with 0 and could read and write    *)
(* the lockfile have fetched and locked all their packages use right after *)
(* the word `use`, where the scan could read: however the packages use     *)
(* each other, whatever was pushed meanwhile, and whatever commands that   *)
(* failed or were killed left behind.                                      *)
(***************************************************************************)
THEOREM Complete == Spec => []InstalledAndLocked
<1>1. IInv => InstalledAndLocked
  <2> SUFFICES ASSUME IInv, outcome.kind = "ok", NEW q \in Reached(Followed, outcome.roots)
               PROVE  /\ cache[q] # None
                      /\ \E i \in DOMAIN lock : lock[i].pkg = q /\ lock[i].sha \in {cache[q], Unknown}
    BY DEF InstalledAndLocked
  <2>1. PICK D \in SUBSET Pkgs : /\ outcome.roots \subseteq D
                                 /\ Sound(Followed, There(lock, cache, TRUE), D, D)
    BY DEF IInv, Ended
  <2>2. \A p \in D : Followed[p] \subseteq D
    BY <2>1 DEF Sound
  <2>3. q \in D
    BY <2>1, <2>2 DEF Reached
  <2>4. q \in There(lock, cache, TRUE)
    BY <2>1, <2>3 DEF Sound
  <2>5. DOMAIN lock = 1..Len(lock)
    BY DEF IInv, Types, LinesOk
  <2>6. QED
    BY <2>4, <2>5 DEF There, Locked
<1>2. QED
  BY <1>1, Invariance, PTL

-----------------------------------------------------------------------------
(***************************************************************************)
(* The resolver.  Its recursion is over a number; a property of every      *)
(* number holds because there is no least one without it.                  *)
(***************************************************************************)
LEMMA Least == ASSUME NEW T \in SUBSET Nat, T # {} PROVE \E m \in T : \A k \in T : m <= k
<1>1. PICK m \in T : \A k \in T : ~(<<k, m>> \in OpToRel(<, Nat))
  BY NatLessThanWellFounded, WFMin
<1>2. \A k \in T : <<k, m>> \in Nat \X Nat /\ <<k, m>>[1] = k /\ <<k, m>>[2] = m
  OBVIOUS
<1>3. \A k \in T : ~(k < m)
  BY <1>1, <1>2 DEF OpToRel
<1>4. QED
  BY <1>3

LEMMA PkgsFinite ==
  /\ IsFiniteSet(Pkgs) /\ Cardinality(Pkgs) \in Nat
  /\ \A V \in SUBSET Pkgs : IsFiniteSet(V) /\ Cardinality(V) \in Nat
BY PackagesAssumption, FS_CardinalityType, FS_Subset

\* The codes at n, where g has those at n - 1.
Row(n, g) ==
  [p \in Pkgs |-> [visited \in SUBSET Pkgs |->
    IF ~Found(p) THEN {"ILO-P017"}
    ELSE IF p \in visited THEN {"ILO-P018"}
    ELSE IF n = 0 THEN {}
    ELSE UNION {g[n - 1][u.to][Chain(visited, p)] : u \in CachedUses(p)}]]

Rows(m, g) == [n \in 0..m |-> Row(n, g)]

LEMMA SomeRows == \A m \in Nat : \E g : g = Rows(m, g)
<1> DEFINE T == {m \in Nat : ~\E g : g = Rows(m, g)}
<1>1. SUFFICES ASSUME T # {} PROVE FALSE
  OBVIOUS
<1>2. PICK m \in T : \A k \in T : m <= k
  BY <1>1, Least
<1>3. CASE m = 0
  <2> DEFINE g == [n \in 0..0 |-> Row(0, <<>>)]
  <2>1. \A h : Row(0, h) = Row(0, <<>>)
    BY DEF Row
  <2>2. \A n \in 0..0 : n = 0
    OBVIOUS
  <2>3. g = Rows(0, g)
    BY <2>1, <2>2 DEF Rows
  <2>4. QED
    BY <1>2, <1>3, <2>3
<1>4. CASE m # 0
  <2>1. m - 1 \in Nat /\ m - 1 \notin T
    BY <1>2, <1>4
  <2>2. PICK g : g = Rows(m - 1, g)
    BY <2>1
  <2> DEFINE h == [n \in 0..m |-> IF n = m THEN Row(m, g) ELSE g[n]]
  <2>3. \A n \in 0..m : n # 0 => n - 1 \in 0..m - 1 /\ n - 1 # m /\ n - 1 \in 0..m
    BY <1>2
  <2>4. \A n \in 0..m : n # 0 => h[n - 1] = g[n - 1]
    BY <2>3
  <2>5. \A n \in 0..m - 1 : g[n] = Row(n, g)
    <3> HIDE DEF T
    <3> QED
      BY <2>2 DEF Rows
  <2> HIDE DEF h
  <2>6. \A n \in 0..m : Row(n, h) = Row(n, g)
    <3> SUFFICES ASSUME NEW n \in 0..m PROVE Row(n, h) = Row(n, g)
      OBVIOUS
    <3>1. CASE n = 0
      BY <3>1 DEF Row
    <3>2. CASE n # 0
      <4>1. h[n - 1] = g[n - 1]
        BY <2>4, <3>2
      <4>2. QED
        BY <4>1 DEF Row
    <3>3. QED
      BY <3>1, <3>2
  <2>7. \A n \in 0..m : n = m \/ n \in 0..m - 1
    BY <1>2
  <2>8. \A n \in 0..m : h[n] = Row(n, h)
    BY <2>5, <2>6, <2>7 DEF h
  <2>9. h = Rows(m, h)
    BY <2>8 DEF h, Rows
  <2>10. QED
    BY <1>2, <2>9
<1>5. QED
  BY <1>3, <1>4

LEMMA ResolveIs ==
  ASSUME NEW n \in 0..Cardinality(Pkgs), NEW p \in Pkgs, NEW V \in SUBSET Pkgs
  PROVE  Resolve[n][p][V] = Row(n, Resolve)[p][V]
<1>1. PICK g : g = Rows(Cardinality(Pkgs), g)
  BY PkgsFinite, SomeRows
<1>2. Resolve = CHOOSE h : h = Rows(Cardinality(Pkgs), h)
  BY DEF Resolve, Rows, Row
<1>3. Resolve = Rows(Cardinality(Pkgs), Resolve)
  BY <1>1, <1>2
<1>4. QED
  BY <1>3 DEF Rows

-----------------------------------------------------------------------------
\* The packages from which only packages that are there are imported, but for those of
\* V; and those outside V from which nothing of V and no cycle is.
Present(V) == UNION {E \in SUBSET Pkgs : \A q \in E : Found(q) /\ Uses(q) \subseteq E \cup V}
Acyclic(V) ==
  UNION {E \in SUBSET Pkgs : E \cap V = {} /\ Tidy(Imports, E) /\ \A q \in E : Uses(q) \subseteq E}

\* The codes at n for a package p and the chain V of its importers.
RightFor(n, p, V, r) ==
  /\ r \subseteq {"ILO-P017", "ILO-P018"}
  /\ "ILO-P017" \in r => \E q \in Closure({p}) : ~Found(q)
  /\ "ILO-P018" \in r /\ (\A v \in V : p \in Closure(Uses(v))) => \E q \in Closure({p}) : OnCycle(q)
  /\ n + Cardinality(V) >= Cardinality(Pkgs) =>
       /\ "ILO-P017" \notin r => p \in V \cup Present(V)
       /\ "ILO-P018" \notin r /\ (\A v \in V : Found(v)) => p \in Acyclic(V)

Right(n) == \A p \in Pkgs, V \in SUBSET Pkgs : RightFor(n, p, V, Resolve[n][p][V])

LEMMA UsesIs ==
  ASSUME Types
  PROVE  \A p \in Pkgs : Uses(p) \subseteq Pkgs /\ (~Found(p) => Uses(p) = {})
<1> SUFFICES ASSUME NEW p \in Pkgs, Found(p) PROVE Uses(p) \subseteq Pkgs
  BY DEF Uses
<1>1. cache[p] # None /\ remote[p] \in Seq(Commits) /\ cache[p] \in 1..Len(remote[p])
  BY DEF Types, Found, None
<1>2. remote[p][cache[p]] \in Commits
  BY <1>1
<1>3. QED
  BY <1>1, <1>2 DEF Uses, CachedUses, Commits

\* The closure is the least set closed under imports.
LEMMA ClosureIs ==
  ASSUME NEW S \in SUBSET Pkgs, \A p \in Pkgs : Uses(p) \subseteq Pkgs
  PROVE  /\ Closure(S) \in SUBSET Pkgs /\ S \subseteq Closure(S)
         /\ \A p \in Closure(S) : Uses(p) \subseteq Closure(S)
         /\ \A C \in SUBSET Pkgs : S \subseteq C /\ (\A p \in C : Uses(p) \subseteq C) => Closure(S) \subseteq C
<1>1. \A p \in Pkgs : Imports[p] = Uses(p)
  BY DEF Imports
<1>2. /\ Closure(S) \in SUBSET Pkgs /\ S \subseteq Closure(S)
      /\ \A p \in Closure(S) : Imports[p] \subseteq Closure(S)
      /\ \A C \in SUBSET Pkgs : S \subseteq C /\ (\A p \in C : Imports[p] \subseteq C) => Closure(S) \subseteq C
  BY <1>1, ReachedIs DEF Closure
<1>3. QED
  BY <1>1, <1>2

LEMMA PresentIs ==
  ASSUME NEW V \in SUBSET Pkgs
  PROVE  /\ Present(V) \subseteq Pkgs
         /\ \A q \in Present(V) : Found(q) /\ Uses(q) \subseteq Present(V) \cup V
         /\ \A E \in SUBSET Pkgs :
              (\A q \in E : Found(q) /\ Uses(q) \subseteq E \cup V) => E \subseteq Present(V)
<1>1. ASSUME NEW q \in Present(V)
      PROVE  Found(q) /\ Uses(q) \subseteq Present(V) \cup V
  <2>1. PICK E \in SUBSET Pkgs : q \in E /\ \A w \in E : Found(w) /\ Uses(w) \subseteq E \cup V
    BY DEF Present
  <2>2. E \subseteq Present(V)
    BY <2>1 DEF Present
  <2>3. QED
    BY <2>1, <2>2
<1>2. QED
  BY <1>1 DEF Present

LEMMA AcyclicIs ==
  ASSUME NEW V \in SUBSET Pkgs
  PROVE  /\ Acyclic(V) \subseteq Pkgs /\ Acyclic(V) \cap V = {}
         /\ \A q \in Acyclic(V) : Uses(q) \subseteq Acyclic(V)
         /\ Tidy(Imports, Acyclic(V))
         /\ \A E \in SUBSET Pkgs :
              E \cap V = {} /\ Tidy(Imports, E) /\ (\A q \in E : Uses(q) \subseteq E) => E \subseteq Acyclic(V)
<1>1. \A q \in Acyclic(V) : \E E \in SUBSET Pkgs :
        q \in E /\ E \cap V = {} /\ Tidy(Imports, E) /\ \A w \in E : Uses(w) \subseteq E
  BY DEF Acyclic
<1>2. \A E \in SUBSET Pkgs :
        E \cap V = {} /\ Tidy(Imports, E) /\ (\A q \in E : Uses(q) \subseteq E) => E \subseteq Acyclic(V)
  BY DEF Acyclic
<1>3. Acyclic(V) \subseteq Pkgs /\ Acyclic(V) \cap V = {}
  BY <1>1
<1>4. \A q \in Acyclic(V) : Uses(q) \subseteq Acyclic(V)
  BY <1>1, <1>2
<1>5. Tidy(Imports, Acyclic(V))
  <2> SUFFICES ASSUME NEW T \in SUBSET Acyclic(V), T # {} PROVE \E q \in T : Imports[q] \cap T = {}
    BY DEF Tidy
  <2>1. PICK t \in T : TRUE
    OBVIOUS
  <2>2. PICK E \in SUBSET Pkgs : t \in E /\ Tidy(Imports, E) /\ \A w \in E : Uses(w) \subseteq E
    BY <1>1, <2>1
  <2>3. T \cap E \in SUBSET E /\ T \cap E # {}
    BY <2>1, <2>2
  <2>4. PICK q \in T \cap E : Imports[q] \cap (T \cap E) = {}
    BY <2>2, <2>3 DEF Tidy
  <2>5. Imports[q] \subseteq E
    BY <2>2 DEF Imports
  <2>6. QED
    BY <2>4, <2>5
<1>6. QED
  BY <1>2, <1>3, <1>4, <1>5

\* A package reached from S is in S or reached from what a package of S uses.
LEMMA ReachedBy ==
  ASSUME Types, NEW S \in SUBSET Pkgs, NEW q \in Closure(S)
  PROVE  \E s \in S : q = s \/ q \in Closure(Uses(s))
<1> DEFINE C == {x \in Pkgs : \E s \in S : x = s \/ x \in Closure(Uses(s))}
<1>1. S \subseteq C
  OBVIOUS
<1>2. ASSUME NEW x \in C, NEW w \in Uses(x)
      PROVE  w \in C
  <2>1. PICK s \in S : x = s \/ x \in Closure(Uses(s))
    OBVIOUS
  <2>2. Uses(s) \subseteq Pkgs /\ w \in Pkgs
    BY UsesIs
  <2>3. w \in Closure(Uses(s))
    BY <2>1, <2>2, UsesIs, ClosureIs
  <2>4. QED
    BY <2>2, <2>3
<1>3. q \in C
  <2>1. C \in SUBSET Pkgs
    OBVIOUS
  <2> HIDE DEF C
  <2>2. QED
    BY <1>1, <1>2, <2>1, UsesIs, ClosureIs
<1>4. QED
  BY <1>3

\* A package of a tidy set closed under imports is on no cycle.
LEMMA TidyHasNoCycle ==
  ASSUME Types, NEW E \in SUBSET Pkgs, Tidy(Imports, E), \A p \in E : Uses(p) \subseteq E, NEW q \in E
  PROVE  ~OnCycle(q)
<1> SUFFICES ASSUME OnCycle(q) PROVE FALSE
  OBVIOUS
<1> DEFINE T == {t \in E : q \in Closure(Uses(t))}
<1>1. T \in SUBSET E /\ q \in T
  BY DEF OnCycle
<1>2. PICK t \in T : Imports[t] \cap T = {}
  BY <1>1 DEF Tidy
<1>3. Imports[t] = Uses(t) /\ Uses(t) \subseteq E /\ Uses(t) \subseteq Pkgs
  BY DEF Imports
<1>4. PICK w \in Uses(t) : q = w \/ q \in Closure(Uses(w))
  BY <1>3, ReachedBy
<1>5. w \in T
  BY <1>1, <1>3, <1>4
<1>6. QED
  BY <1>2, <1>3, <1>5

LEMMA MissingRight ==
  ASSUME Types, NEW n \in Nat, NEW p \in Pkgs, NEW V \in SUBSET Pkgs, ~Found(p)
  PROVE  RightFor(n, p, V, {"ILO-P017"})
<1>1. p \in Closure({p})
  BY UsesIs, ClosureIs
<1>2. ASSUME \A v \in V : Found(v)
      PROVE  p \in Acyclic(V)
  <2>1. Uses(p) = {} /\ Imports[p] = {}
    BY UsesIs DEF Imports
  <2>2. Tidy(Imports, {p})
    BY <2>1 DEF Tidy
  <2>3. {p} \subseteq Acyclic(V)
    BY <1>2, <2>1, <2>2, AcyclicIs
  <2>4. QED
    BY <2>3
<1>3. QED
  BY <1>1, <1>2 DEF RightFor

LEMMA CircularRight ==
  ASSUME Types, NEW n \in Nat, NEW p \in Pkgs, NEW V \in SUBSET Pkgs, Found(p), p \in V
  PROVE  RightFor(n, p, V, {"ILO-P018"})
<1>1. p \in Closure({p})
  BY UsesIs, ClosureIs
<1>2. (\A v \in V : p \in Closure(Uses(v))) => OnCycle(p)
  BY DEF OnCycle
<1>3. QED
  BY <1>1, <1>2 DEF RightFor

\* The number does not run out before the chain holds every package.
LEMMA LastRight ==
  ASSUME NEW p \in Pkgs, NEW V \in SUBSET Pkgs, p \notin V
  PROVE  RightFor(0, p, V, {})
<1>1. Cardinality(V) \in Nat /\ Cardinality(V) <= Cardinality(Pkgs) /\ Cardinality(V) # Cardinality(Pkgs)
  BY PkgsFinite, FS_Subset
<1>2. ~(0 + Cardinality(V) >= Cardinality(Pkgs))
  BY <1>1, PkgsFinite
<1>3. QED
  BY <1>2 DEF RightFor

LEMMA ImportedRight ==
  ASSUME Types, NEW n \in Nat \ {0}, NEW p \in Pkgs, NEW V \in SUBSET Pkgs, Found(p), p \notin V,
         NEW g, \A w \in Uses(p) : RightFor(n - 1, w, V \cup {p}, g[w]),
         NEW r, \A x : x \in r <=> \E w \in Uses(p) : x \in g[w]
  PROVE  RightFor(n, p, V, r)
<1> DEFINE W == V \cup {p}
<1>1. Uses(p) \subseteq Pkgs /\ W \in SUBSET Pkgs /\ {p} \in SUBSET Pkgs
  BY UsesIs
<1>2. /\ p \in Closure({p}) /\ Uses(p) \subseteq Closure({p})
      /\ \A w \in Uses(p) : Closure({w}) \subseteq Closure({p})
  BY <1>1, UsesIs, ClosureIs
<1>3. r \subseteq {"ILO-P017", "ILO-P018"}
  BY DEF RightFor
<1>4. "ILO-P017" \in r => \E q \in Closure({p}) : ~Found(q)
  BY <1>2 DEF RightFor
<1>5. ASSUME "ILO-P018" \in r, \A v \in V : p \in Closure(Uses(v))
      PROVE  \E q \in Closure({p}) : OnCycle(q)
  <2>1. PICK w \in Uses(p) : "ILO-P018" \in g[w]
    BY <1>5
  <2>2. ASSUME NEW v \in W PROVE w \in Closure(Uses(v))
    <3>1. Uses(v) \in SUBSET Pkgs
      BY UsesIs
    <3>2. CASE v = p
      BY <3>1, <3>2, UsesIs, ClosureIs
    <3>3. CASE v \in V
      BY <1>5, <3>1, <3>3, UsesIs, ClosureIs
    <3>4. QED
      BY <3>2, <3>3
  <2>3. \E q \in Closure({w}) : OnCycle(q)
    BY <2>1, <2>2 DEF RightFor
  <2>4. QED
    BY <1>2, <2>3
<1>6. ASSUME n + Cardinality(V) >= Cardinality(Pkgs)
      PROVE  (n - 1) + Cardinality(W) >= Cardinality(Pkgs)
  <2>1. IsFiniteSet(V) /\ Cardinality(V) \in Nat /\ Cardinality(Pkgs) \in Nat
    BY PkgsFinite
  <2>2. Cardinality(W) = Cardinality(V) + 1
    BY <2>1, FS_AddElement
  <2> HIDE DEF W
  <2>3. QED
    BY <1>6, <2>1, <2>2
<1>7. ASSUME n + Cardinality(V) >= Cardinality(Pkgs), "ILO-P017" \notin r
      PROVE  p \in Present(V)
  <2> DEFINE E == Present(W) \cup {p}
  <2>1. \A w \in Uses(p) : w \in W \cup Present(W)
    BY <1>6, <1>7 DEF RightFor
  <2>2. E \in SUBSET Pkgs /\ \A q \in E : Found(q) /\ Uses(q) \subseteq E \cup V
    BY <1>1, <2>1, PresentIs
  <2>3. E \subseteq Present(V)
    <3> HIDE DEF E
    <3> QED
      BY <2>2, PresentIs
  <2>4. QED
    BY <2>3
<1>8. ASSUME n + Cardinality(V) >= Cardinality(Pkgs), "ILO-P018" \notin r, \A v \in V : Found(v)
      PROVE  p \in Acyclic(V)
  <2> DEFINE F == Acyclic(W)
  <2>1. Uses(p) \subseteq F
    BY <1>6, <1>8 DEF RightFor
  <2>2. /\ F \subseteq Pkgs /\ F \cap W = {} /\ (\A q \in F : Uses(q) \subseteq F)
        /\ Tidy(Imports, F)
    BY <1>1, AcyclicIs
  <2> HIDE DEF F
  <2>3. \A q \in F : Imports[q] \subseteq F
    BY <2>2 DEF Imports
  <2>4. Imports[p] \subseteq F /\ p \notin F
    BY <2>1, <2>2 DEF Imports
  <2>5. Tidy(Imports, F \cup {p})
    BY <2>2, <2>3, <2>4, TidyAdded
  <2>6. F \cup {p} \subseteq Acyclic(V)
    <3>1. /\ F \cup {p} \in SUBSET Pkgs /\ (F \cup {p}) \cap V = {}
          /\ \A q \in F \cup {p} : Uses(q) \subseteq F \cup {p}
      BY <2>1, <2>2
    <3>2. QED
      BY <2>5, <3>1, AcyclicIs
  <2>7. QED
    BY <2>6
<1>9. QED
  BY <1>3, <1>4, <1>5, <1>7, <1>8 DEF RightFor

LEMMA AllRight == ASSUME Types PROVE \A n \in 0..Cardinality(Pkgs) : Right(n)
<1> DEFINE N == Cardinality(Pkgs)
           T == {n \in 0..N : ~Right(n)}
<1>1. N \in Nat
  BY PkgsFinite
<1> HIDE DEF N
<1>2. SUFFICES ASSUME T # {} PROVE FALSE
  BY DEF N
<1>3. PICK n \in T : \A k \in T : n <= k
  <2>1. T \in SUBSET Nat
    BY <1>1
  <2> HIDE DEF T
  <2>2. QED
    BY <1>2, <2>1, Least
<1>4. n \in 0..N /\ ~Right(n) /\ n \in Nat
  BY <1>1
<1>5. n # 0 => n - 1 \in 0..N /\ n \in Nat \ {0} /\ Right(n - 1)
  BY <1>1, <1>3
<1>6. ASSUME NEW p \in Pkgs, NEW V \in SUBSET Pkgs
      PROVE  RightFor(n, p, V, Resolve[n][p][V])
  <2>1. Resolve[n][p][V] =
          IF ~Found(p) THEN {"ILO-P017"}
          ELSE IF p \in V THEN {"ILO-P018"}
          ELSE IF n = 0 THEN {}
          ELSE UNION {Resolve[n - 1][u.to][Chain(V, p)] : u \in CachedUses(p)}
    <3>1. Resolve[n][p][V] = Row(n, Resolve)[p][V]
      BY <1>4, ResolveIs DEF N
    <3>2. QED
      BY <3>1 DEF Row
  <2>2. CASE ~Found(p)
    BY <1>4, <2>1, <2>2, MissingRight
  <2>3. CASE Found(p) /\ p \in V
    BY <1>4, <2>1, <2>3, CircularRight
  <2>4. CASE Found(p) /\ p \notin V /\ n = 0
    BY <2>1, <2>4, LastRight
  <2>5. CASE Found(p) /\ p \notin V /\ n # 0
    <3> DEFINE g == [w \in Pkgs |-> Resolve[n - 1][w][V \cup {p}]]
    <3>1. Uses(p) \subseteq Pkgs /\ V \cup {p} \in SUBSET Pkgs
      BY UsesIs
    <3>2. \A w \in Uses(p) : g[w] = Resolve[n - 1][w][V \cup {p}]
      BY <3>1
    <3>3. \A x : x \in Resolve[n][p][V] <=> \E w \in Uses(p) : x \in g[w]
      <4>1. Resolve[n][p][V] = UNION {Resolve[n - 1][u.to][V \cup {p}] : u \in CachedUses(p)}
        BY <2>1, <2>5 DEF Chain
      <4>2. \A x : x \in Resolve[n][p][V] <=>
                     \E u \in CachedUses(p) : x \in Resolve[n - 1][u.to][V \cup {p}]
        BY <4>1, Zenon
      <4>3. \A u \in CachedUses(p) : u.to \in Uses(p) /\ g[u.to] = Resolve[n - 1][u.to][V \cup {p}]
        BY <2>5, <3>2 DEF Uses
      <4>4. \A w \in Uses(p) : \E u \in CachedUses(p) : w = u.to
        BY <2>5 DEF Uses
      <4> HIDE DEF g, T
      <4>5. QED
        <5>1. ASSUME NEW x, x \in Resolve[n][p][V] PROVE \E w \in Uses(p) : x \in g[w]
          <6>1. PICK u \in CachedUses(p) : x \in Resolve[n - 1][u.to][V \cup {p}]
            BY <4>2, <5>1
          <6>2. QED
            BY <4>3, <6>1
        <5>2. ASSUME NEW x, NEW w \in Uses(p), x \in g[w] PROVE x \in Resolve[n][p][V]
          <6>1. PICK u \in CachedUses(p) : w = u.to
            BY <4>4
          <6>2. x \in Resolve[n - 1][u.to][V \cup {p}]
            BY <4>3, <5>2, <6>1
          <6>3. QED
            BY <4>2, <6>2
        <5>3. QED
          BY <5>1, <5>2
    <3> HIDE DEF g, T
    <3>4. \A w \in Uses(p) : RightFor(n - 1, w, V \cup {p}, g[w])
      BY <1>5, <2>5, <3>1, <3>2 DEF Right
    <3>5. n \in Nat \ {0} /\ Found(p) /\ p \notin V
      BY <1>5, <2>5
    <3>6. QED
      BY <3>3, <3>4, <3>5, ImportedRight
  <2>6. QED
    BY <2>2, <2>3, <2>4, <2>5
<1>7. QED
  BY <1>4, <1>6 DEF Right

LEMMA CodesAre ==
  ASSUME Types, NEW p \in Pkgs
  PROVE  /\ Codes(p) \subseteq {"ILO-P017", "ILO-P018"}
         /\ "ILO-P017" \in Codes(p) <=> \E q \in Closure({p}) : ~Found(q)
         /\ "ILO-P018" \in Codes(p) <=> \E q \in Closure({p}) : OnCycle(q)
<1> DEFINE N == Cardinality(Pkgs)
<1>1. RightFor(N, p, {}, Codes(p))
  BY PkgsFinite, AllRight DEF Right, Codes
<1>2. N + Cardinality({}) >= N
  BY PkgsFinite, FS_EmptySet
<1>3. /\ Codes(p) \subseteq {"ILO-P017", "ILO-P018"}
      /\ "ILO-P017" \in Codes(p) => \E q \in Closure({p}) : ~Found(q)
      /\ "ILO-P018" \in Codes(p) => \E q \in Closure({p}) : OnCycle(q)
      /\ "ILO-P017" \notin Codes(p) => p \in Present({})
      /\ "ILO-P018" \notin Codes(p) => p \in Acyclic({})
  BY <1>1, <1>2 DEF RightFor
<1>4. ASSUME "ILO-P017" \notin Codes(p), NEW q \in Closure({p})
      PROVE  Found(q)
  <2>1. Closure({p}) \subseteq Present({})
    BY <1>3, <1>4, UsesIs, ClosureIs, PresentIs
  <2>2. QED
    BY <2>1, PresentIs
<1>5. ASSUME "ILO-P018" \notin Codes(p), NEW q \in Closure({p})
      PROVE  ~OnCycle(q)
  <2>1. Closure({p}) \subseteq Acyclic({})
    BY <1>3, <1>5, UsesIs, ClosureIs, AcyclicIs
  <2>2. QED
    BY <2>1, AcyclicIs, TidyHasNoCycle
<1>6. QED
  BY <1>3, <1>4, <1>5

(***************************************************************************)
(* resolve_imports reports a missing package exactly if one is reached,    *)
(* and a circular import exactly if a cycle is, in every state of the      *)
(* cache and for every graph of imports.                                   *)
(***************************************************************************)
THEOREM ResolverExact == Spec => []CodesExact
<1>1. IInv => CodesExact
  BY CodesAre DEF IInv, CodesExact
<1>2. QED
  BY <1>1, Invariance, PTL

(***************************************************************************)
(* What a command that exits with 0 was asked for can be imported, even    *)
(* if the lockfile failed it, unless a package is imported with it in      *)
(* which add_recursive passed over a file it could not read, a `use` with  *)
(* a prefix, or a missing index.ilo: but for these three it leaves no      *)
(* dependency out and lets no cycle in.                                    *)
(***************************************************************************)
THEOREM Importable == Spec => []InstalledResolves
<1>1. IInv => InstalledResolves
  <2> SUFFICES ASSUME IInv, outcome.kind \in {"ok", "faulty"}, NEW p \in outcome.roots,
                      \A q \in Closure({p}) : ~PassedOver(q)
               PROVE  Codes(p) = {}
    BY DEF InstalledResolves
  <2> DEFINE C == Closure({p})
  <2>1. PICK D \in SUBSET Pkgs : /\ outcome.roots \subseteq D
                                 /\ Sound(Followed, There(lock, cache, outcome.kind = "ok"), D, D)
    BY DEF IInv, Ended
  <2>2. p \in D /\ p \in Pkgs /\ Types
    BY <2>1 DEF IInv
  <2>3. /\ C \in SUBSET Pkgs /\ p \in C /\ \A q \in C : Uses(q) \subseteq C
        /\ \A E \in SUBSET Pkgs : p \in E /\ (\A q \in E : Uses(q) \subseteq E) => C \subseteq E
    BY <2>2, UsesIs, ClosureIs
  <2>4. \A q \in C : ~PassedOver(q)
    OBVIOUS
  <2> HIDE DEF C
  <2>5. ASSUME NEW q \in C \cap D
        PROVE  Found(q) /\ Uses(q) = Followed[q] /\ Uses(q) \subseteq D
    <3>1. cache[q] # None /\ Followed[q] \subseteq D
      BY <2>1 DEF Sound, There
    <3>2. Found(q) /\ q \notin unread /\ \A w \in CachedUses(q) : w.form = "plain"
      BY <2>4, <3>1 DEF PassedOver
    <3>3. Uses(q) = Followed[q]
      BY <3>2 DEF Uses, Followed
    <3>4. QED
      BY <3>1, <3>2, <3>3
  <2>6. C \subseteq D
    <3>1. \A q \in C \cap D : Uses(q) \subseteq C \cap D
      BY <2>3, <2>5
    <3>2. C \subseteq C \cap D
      BY <2>2, <2>3, <3>1
    <3>3. QED
      BY <3>2
  <2>7. Tidy(Imports, C)
    <3>1. \A q \in C : Imports[q] = Followed[q]
      BY <2>3, <2>5, <2>6 DEF Imports
    <3>2. QED
      BY <2>1, <2>6, <3>1, TidyKept DEF Sound
  <2>8. \A q \in C : Found(q) /\ ~OnCycle(q)
    BY <2>2, <2>3, <2>5, <2>6, <2>7, TidyHasNoCycle
  <2>9. QED
    BY <2>2, <2>8, CodesAre DEF C
<1>2. QED
  BY <1>1, Invariance, PTL
=============================================================================
