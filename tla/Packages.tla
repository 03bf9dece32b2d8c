------------------------------ MODULE Packages ------------------------------
(***************************************************************************)
(* Packages: `ilo add` and `ilo update` (src/pkg.rs), which fetch packages *)
(* and what they use into ~/.ilo/pkgs and record them in ilo.lock, and the *)
(* resolver of `use "owner/repo"` (resolve_imports in src/main.rs), which  *)
(* reads the cache later.  The two walk the same graph independently: the  *)
(* installer follows the strings it finds in the source text, the resolver *)
(* the parsed `use` declarations.                                          *)
(*                                                                         *)
(* One command at a time; the repositories move on while it runs, git and  *)
(* the file system may fail, and the command may be killed between or      *)
(* inside its writes.  A package is what its .ilo files use, and whether   *)
(* there is an index.ilo among them, which uses all of it.                 *)
(***************************************************************************)
EXTENDS Naturals, Sequences, FiniteSets

CONSTANTS
  Pkgs,         \* the packages that exist
  Junk,         \* a name no package has
  Short,        \* the package, if any, whose name is the beginning of all others
  Forms,        \* the forms of `use` their sources contain: see UseForms
  Named,        \* the packages `ilo add` is asked for
  MaxFirst,     \* bound: `use` declarations of the first commits, prefixed ones counted
                \* twice, and index.ilo missing from them
  MaxPushed,    \* bound: the same of a later commit
  MaxEvents     \* bound: commands, pushes and faults together

\* `use "p"`, or with a prefix or condition before the path: `use m:"p"`,
\* `use re:"p" [..]`, `use ?wasm "p" : "q"`.
UseForms == {"plain", "prefixed"}

ASSUME PackagesAssumption ==
  /\ IsFiniteSet(Pkgs) /\ Junk \notin Pkgs
  /\ Forms \subseteq UseForms /\ Named \subseteq Pkgs /\ Short \subseteq Pkgs
  /\ {MaxFirst, MaxPushed, MaxEvents} \subseteq Nat

VARIABLES
  remote,   \* the commits of each repository, oldest first
  cache,    \* ~/.ilo/pkgs: the number of the commit checked out, or None
  lock,     \* the lines of ilo.lock
  unread,   \* history: the packages whose last scan missed a dependency
  cmd,      \* the running command; faulty is history: the lockfile failed it
  outcome,  \* history: how the last command ended, and the names it was asked for
  events    \* commands started, commits pushed and faults so far

vars == <<remote, cache, lock, unread, cmd, outcome, events>>

-----------------------------------------------------------------------------
\* No directory in the cache, or what a failed removal has left of one.
None == 0

\* What a commit can be: an index.ilo that can be read, or none; and its uses.
Commits == [index : BOOLEAN, uses : SUBSET [to : Pkgs, form : Forms]]

\* What the lockfile may name: a line cut short may name no package.
Names == Pkgs \cup {Junk}

\* What resolved_sha returns when git gives no answer; and a commit cut short.
Unknown == 0

Line(p, sha) == [pkg |-> p, sha |-> sha]

\* One add_recursive call, at the step it does next.  Only the package the
\* user named can have a ref: "tag" is a tag of the first commit.
Call(p, ref) == [pkg |-> p, ref |-> ref, at |-> "enter", deps |-> {}]

Idle == [running |-> FALSE, queue |-> <<>>, calls |-> <<>>, visited |-> {},
         exit |-> 0, faulty |-> FALSE]

Running == cmd.running

Top == cmd.calls[Len(cmd.calls)]

At(step) == Running /\ cmd.calls # <<>> /\ Top.at = step

WithTop(c) == [cmd EXCEPT !.calls[Len(cmd.calls)] = c]

GoTo(step) == cmd' = WithTop([Top EXCEPT !.at = step])

Popped(c) == [c EXCEPT !.calls = SubSeq(@, 1, Len(@) - 1)]

\* Mutant: the caller of a failed call does not return.
FailedBelow(c) ==
  [c EXCEPT !.calls = IF Len(@) > 1 THEN <<[@[1] EXCEPT !.at = "left"]>> ELSE <<>>, !.exit = 1]

\* A nonzero code is handed up through all the calls.
Failed(c) == [c EXCEPT !.calls = <<>>, !.exit = 1]

\* The uses of what is in the cache, and whether `use "p"` finds its index.ilo.
CachedUses(p) == IF cache[p] = None THEN {} ELSE remote[p][cache[p]].uses

Found(p) == cache[p] # None /\ remote[p][cache[p]].index

Init ==
  /\ \E uses \in SUBSET (Pkgs \X [to : Pkgs, form : Forms]), bare \in SUBSET Pkgs :
       /\ Cardinality(uses) + Cardinality({u \in uses : u[2].form = "prefixed"})
            + Cardinality(bare) <= MaxFirst
       /\ remote = [p \in Pkgs |-> <<[index |-> p \notin bare,
                                      uses |-> {u[2] : u \in {u \in uses : u[1] = p}}]>>]
  /\ cache = [p \in Pkgs |-> None]
  /\ lock = <<>>
  /\ unread = {}
  /\ cmd = Idle
  /\ outcome = [kind |-> "none", roots |-> {}]
  /\ events = 0

-----------------------------------------------------------------------------
Events(n) == events + n <= MaxEvents /\ events' = events + n

Event == Events(1)

\* The owner of a repository pushes a commit.
Push(p) ==
  /\ Event
  /\ \E commit \in Commits :
       /\ Cardinality(commit.uses) + Cardinality({u \in commit.uses : u.form = "prefixed"})
            + (IF commit.index THEN 0 ELSE 1) <= MaxPushed
       /\ remote' = [remote EXCEPT ![p] = Append(@, commit)]
  /\ UNCHANGED <<cache, lock, unread, cmd, outcome>>

Start(queue) ==
  /\ ~Running
  /\ Event
  /\ cmd' = [Idle EXCEPT !.running = TRUE, !.queue = queue]
  /\ outcome' = [kind |-> "none", roots |-> {queue[i].pkg : i \in DOMAIN queue}]
  /\ UNCHANGED <<remote, cache, lock, unread>>

\* cmd_add.
Add(p, ref) == Start(<<Call(p, ref)>>)

\* cmd_update: every line of the lockfile, by cmd_add and without the ref it was
\* added with.  A lockfile that cannot be read is empty.
UpdateAll ==
  \E lines \in {lock, <<>>} : Start([i \in DOMAIN lines |-> Call(lines[i].pkg, "HEAD")])

\* cmd_update of one package: its lines.
Update(p) ==
  \E lines \in {lock, <<>>} :
    LET matching == {i \in DOMAIN lines : lines[i].pkg = p}
    IN  Start([i \in 1..Cardinality(matching) |-> Call(p, "HEAD")])

\* The next cmd_add, with a visited set of its own; of no package, it fails.
NextRoot ==
  /\ Running
  /\ cmd.calls = <<>> /\ cmd.queue # <<>>
  /\ \/ /\ Head(cmd.queue).pkg \in Pkgs
        /\ cmd' = [cmd EXCEPT !.calls = <<Head(cmd.queue)>>, !.queue = Tail(@), !.visited = {}]
     \/ /\ Head(cmd.queue).pkg \notin Pkgs
        /\ cmd' = [cmd EXCEPT !.queue = Tail(@), !.exit = 1]
  /\ UNCHANGED <<remote, cache, lock, unread, outcome, events>>

\* The command exits.
Exit ==
  /\ Running
  /\ cmd.calls = <<>> /\ cmd.queue = <<>>
  /\ outcome' = [outcome EXCEPT !.kind =
       IF cmd.exit # 0 THEN "failed" ELSE IF cmd.faulty THEN "faulty" ELSE "ok"]
  /\ cmd' = Idle
  /\ UNCHANGED <<remote, cache, lock, unread, events>>

\* The packages being processed further up: the entries of `stack`.
Ancestors == {cmd.calls[i].pkg : i \in 1..Len(cmd.calls) - 1}

\* Mutant: the visited set is looked at before the stack.
EnteredVisitedFirst ==
  IF Top.pkg \in cmd.visited THEN Popped(cmd)
  ELSE IF Top.pkg \in Ancestors THEN Failed(cmd)
  ELSE WithTop([Top EXCEPT !.at = "resolve"])

\* A dependency cycle, a package already fetched by this cmd_add, or a new one.
Entered ==
  IF Top.pkg \in Ancestors THEN Failed(cmd)
  ELSE IF Top.pkg \in cmd.visited THEN Popped(cmd)
  ELSE WithTop([Top EXCEPT !.at = "resolve"])

Enter ==
  /\ At("enter")
  /\ cmd' = Entered
  /\ UNCHANGED <<remote, cache, lock, unread, outcome, events>>

\* The tag for a version constraint is asked from the remote, which may fail; then
\* the old copy is removed, which may fail before or after something is gone.
RemoveCache ==
  /\ At("resolve")
  /\ \/ GoTo("clone") /\ cache' = [cache EXCEPT ![Top.pkg] = None] /\ UNCHANGED events
     \/ Event /\ Top.ref # "HEAD" /\ cmd' = Failed(cmd) /\ UNCHANGED cache
     \/ /\ Event /\ cache[Top.pkg] # None
        /\ cmd' = Failed(cmd)
        /\ cache' \in {cache, [cache EXCEPT ![Top.pkg] = None]}
  /\ UNCHANGED <<remote, lock, unread, outcome>>

\* git clone of the ref; else of the default branch, one commit deep, and a
\* checkout of the ref, which finds only that commit.  Nobody looks whether there
\* is an index.ilo.
Clone ==
  /\ At("clone")
  /\ LET p == Top.pkg
         head == Len(remote[p])
         wanted == IF Top.ref = "tag" THEN 1 ELSE head
     IN  \/ GoTo("lock") /\ cache' = [cache EXCEPT ![p] = wanted] /\ UNCHANGED events
         \/ /\ Event /\ wanted # head
            /\ cmd' = Failed(cmd) /\ cache' = [cache EXCEPT ![p] = head]
         \/ Event /\ cmd' = Failed(cmd) /\ UNCHANGED cache
  /\ UNCHANGED <<remote, lock, unread, outcome>>

\* Mutant: an existing line is kept, the new one goes to the end.
WithLineAppended(lines, l) == Append(lines, l)

\* update_lockfile replaces the line of the package or appends one.
WithLine(lines, l) ==
  IF \E i \in DOMAIN lines : lines[i].pkg = l.pkg
  THEN [i \in DOMAIN lines |-> IF lines[i].pkg = l.pkg THEN l ELSE lines[i]]
  ELSE Append(lines, l)

\* Mutant: every quoted path is taken for a file of the package.
ScanNothing(uses) == {}

\* collect_pkg_deps: the packages named right after the word `use`.
Scan(uses) == {u.to : u \in {u \in uses : u.form = "plain"}}

\* A line the write stopped in: of what it names the end is lost.  (In the address,
\* nothing is.)
Cut(l) == {Line(q, Unknown) : q \in {l.pkg, Junk} \cup Short}

\* What is on disk when a write of the lines stops, anywhere.
Torn(lines) ==
  {SubSeq(lines, 1, n) : n \in 0..Len(lines)}
    \cup UNION {{Append(SubSeq(lines, 1, n - 1), l) : l \in Cut(lines[n])} : n \in 1..Len(lines)}

\* What an update of the lockfile leaves if it fails: a file that cannot be read
\* counts as empty, and one that cannot be written is truncated or not even opened.
Left(l) == {lock} \cup UNION {Torn(WithLine(old, l)) : old \in {lock, <<>>}}

(***************************************************************************)
(* rev-parse, update_lockfile and the scan.  Each may fail, and the call   *)
(* goes on: with a commit nobody knows, with a warning at most about the   *)
(* lockfile, and without what was used where the scan could not read.      *)
(***************************************************************************)
WriteLock ==
  /\ At("lock")
  /\ LET p == Top.pkg
         all == Scan(CachedUses(p))
     IN  \E sha \in {cache[p], Unknown}, fails \in BOOLEAN, deps \in SUBSET all :
           /\ Events(Cardinality({f \in {1, 2, 3} : <<sha # cache[p], fails, deps # all>>[f]}))
           /\ lock' \in IF fails THEN Left(Line(p, sha)) ELSE {WithLine(lock, Line(p, sha))}
           /\ unread' = IF deps = all THEN unread \ {p} ELSE unread \cup {p}
           /\ cmd' = [WithTop([Top EXCEPT !.at = "deps", !.deps = deps])
                        EXCEPT !.visited = @ \cup {p}, !.faulty = @ \/ fails]
  /\ UNCHANGED <<remote, cache, outcome>>

\* The next dependency, in the order of the directory listing, at its default
\* branch whatever ref it was added with.
NextDep ==
  /\ At("deps")
  /\ \E q \in Top.deps :
       cmd' = [WithTop([Top EXCEPT !.deps = @ \ {q}]) EXCEPT !.calls = Append(@, Call(q, "HEAD"))]
  /\ UNCHANGED <<remote, cache, lock, unread, outcome, events>>

\* The call returns 0.
Return ==
  /\ At("deps")
  /\ Top.deps = {}
  /\ cmd' = Popped(cmd)
  /\ UNCHANGED <<remote, cache, lock, unread, outcome, events>>

\* The command is killed, perhaps while it writes the lockfile.
Crash ==
  /\ Running
  /\ Event
  /\ cmd' = Idle
  /\ outcome' = [outcome EXCEPT !.kind = "crashed"]
  /\ IF At("lock")
     THEN lock' \in Left(Line(Top.pkg, cache[Top.pkg]))
     ELSE UNCHANGED lock
  /\ UNCHANGED <<remote, cache, unread>>

Step ==
  \/ NextRoot \/ Exit \/ Enter \/ RemoveCache \/ Clone \/ WriteLock \/ NextDep \/ Return

Next ==
  \/ Step \/ Crash
  \/ \E p \in Named, ref \in {"HEAD", "tag"} : Add(p, ref)
  \/ \E p \in Pkgs : Push(p) \/ Update(p)
  \/ UpdateAll

\* git and the file system answer, one way or the other.
Spec == Init /\ [][Next]_vars /\ WF_vars(Step)

-----------------------------------------------------------------------------
(***************************************************************************)
(* The error codes resolve_imports reports for `use "p"` in a program.     *)
(* `visited` is the chain of files being imported; it ends the recursion   *)
(* before n does.                                                          *)
(***************************************************************************)
\* Mutant: p is not added to the chain, only its importers are.
ChainWithout(visited, p) == visited

Chain(visited, p) == visited \cup {p}

Resolve[n \in 0..Cardinality(Pkgs)] ==
  [p \in Pkgs |-> [visited \in SUBSET Pkgs |->
    IF ~Found(p) THEN {"ILO-P017"}
    ELSE IF p \in visited THEN {"ILO-P018"}
    ELSE IF n = 0 THEN {}
    ELSE UNION {Resolve[n - 1][u.to][Chain(visited, p)] : u \in CachedUses(p)}]]

Codes(p) == Resolve[Cardinality(Pkgs)][p][{}]

\* What importing p imports.
Uses(p) == IF Found(p) THEN {u.to : u \in CachedUses(p)} ELSE {}

\* What the installer has to follow, unless it could not read it.
Followed ==
  [p \in Pkgs |-> IF p \in unread THEN {}
                  ELSE {u.to : u \in {u \in CachedUses(p) : u.form = "plain"}}]

\* The packages reached from S in the graph u.
Reached(u, S) ==
  {q \in Pkgs : \A C \in SUBSET Pkgs : S \subseteq C /\ (\A p \in C : u[p] \subseteq C) => q \in C}

Imports == [p \in Pkgs |-> Uses(p)]

Closure(S) == Reached(Imports, S)

\* p imports itself, directly or through others.
OnCycle(p) == p \in Closure(Uses(p))

-----------------------------------------------------------------------------
Steps == {"enter", "resolve", "clone", "lock", "deps"}

Calls == [pkg : Pkgs, ref : {"HEAD", "tag"}, at : Steps, deps : SUBSET Pkgs]

Queued == [pkg : Names, ref : {"HEAD"}, at : {"enter"}, deps : {{}}]

\* The lockfile names one commit of a package at most, one that exists: if it has a
\* second line of the package, of a write that stopped, the commit is not in it.
TypeOK ==
  /\ \A p \in Pkgs : remote[p] \in Seq(Commits) /\ cache[p] \in 0..Len(remote[p])
  /\ \A i \in DOMAIN lock :
       /\ lock[i].pkg \in Names
       /\ lock[i].sha \in IF lock[i].pkg \in Pkgs THEN 0..Len(remote[lock[i].pkg]) ELSE {Unknown}
       /\ \A j \in DOMAIN lock : lock[i].pkg = lock[j].pkg =>
            lock[i].sha = lock[j].sha \/ Unknown \in {lock[i].sha, lock[j].sha}
  /\ unread \subseteq Pkgs
  /\ cmd.queue \in Seq(Calls \cup Queued) /\ cmd.calls \in Seq(Calls)
  /\ cmd.visited \subseteq Pkgs /\ cmd.exit \in {0, 1}
  /\ {cmd.running, cmd.faulty} \subseteq BOOLEAN
  /\ outcome.kind \in {"none", "ok", "faulty", "failed", "crashed"} /\ outcome.roots \subseteq Names
  /\ events \in 0..MaxEvents

(***************************************************************************)
(* After a command that exits with 0 and could read and write the lockfile *)
(* all that its packages use, directly or not, right after the word `use`  *)
(* and where the scan could read, is in the cache, and the lockfile names  *)
(* the commit that is there (or does not know it), whatever was pushed     *)
(* meanwhile and whatever earlier commands left behind.                    *)
(***************************************************************************)
InstalledAndLocked ==
  outcome.kind = "ok" => \A q \in Reached(Followed, outcome.roots) :
    /\ cache[q] # None
    /\ \E i \in DOMAIN lock : lock[i].pkg = q /\ lock[i].sha \in {cache[q], Unknown}

\* What add_recursive passes over and still succeeds: a scan that missed something,
\* a `use` that has no path right after the word, and a package with no index.ilo.
PassedOver(q) ==
  \/ q \in unread
  \/ \E u \in CachedUses(q) : u.form # "plain"
  \/ cache[q] # None /\ ~Found(q)

(***************************************************************************)
(* What was installed by a command that exits with 0 can be imported, with *)
(* no missing file and no circular import, or a package is imported that   *)
(* the installer passed something over in: a missing or circular package   *)
(* by itself, without that, fails the command.                             *)
(***************************************************************************)
InstalledResolves ==
  outcome.kind \in {"ok", "faulty"} =>
    \A p \in outcome.roots : Codes(p) = {} \/ \E q \in Closure({p}) : PassedOver(q)

(***************************************************************************)
(* Whatever state the cache is in, the resolver reports a missing file     *)
(* exactly if a package without one is reached, and a circular import      *)
(* exactly if a cycle is.                                                  *)
(***************************************************************************)
CodesExact ==
  \A p \in Pkgs :
    /\ "ILO-P017" \in Codes(p) <=> \E q \in Closure({p}) : ~Found(q)
    /\ "ILO-P018" \in Codes(p) <=> \E q \in Closure({p}) : OnCycle(q)

(***************************************************************************)
(* A command ends, on cyclic graphs and with failures too, and while the   *)
(* repositories change under it.                                           *)
(***************************************************************************)
CommandEnds == Running ~> ~Running
=============================================================================
