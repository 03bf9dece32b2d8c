# ilo: specifications, model checks and proofs

ilo is a small functional language for programs written by agents. One Rust
binary (`src/src`, 136 000 lines with its unit tests) lexes, parses, verifies and
runs a program on one of several engines, and offers a formatter, source
generators, a package manager, a tool client and two servers beside it. This
directory holds TLA+ models of the parts where several threads, several
activations, several engines or several processes meet, the TLC configurations
that check them on small instances, and TLAPS proofs of their safety properties
for every value of the constants.

Source references are to `src/src/...` unless another path is given; the lines
behind every definition are in `PROJECT.json` under `map`.

- [Inventory](#inventory)
- [Modules](#modules)
- [Runs](#runs)
- [Proofs](#proofs)
- [Where code and documents differ](#where-code-and-documents-differ)
- [What is not modelled](#what-is-not-modelled)
- [Plan](#plan)

## Inventory

| component | state it keeps | operations | what is hard about it | what makes it correct |
|---|---|---|---|---|
| runtime guard (`runtime_guard.rs`) | process-wide atomics: byte counter, aborted flag, limits | `install`, `record_output`, `abort_with`, watchdog loop | every printing thread and the watchdog race to abort; `main` may return meanwhile | output within budget, one whole diagnostic, runaways stopped |
| tree interpreter, control flow (`interpreter/mod.rs` 9790-11240) | `Env`: variables, scope marks, defer stack; the host stack | `call_function`, `eval_body`, `eval_stmt`, `eval_expr` | cleanups that call and defer, nested drains, tail calls, eight ways to leave a body | each defer once, in its activation, last in first out; scopes balance; exits end the function |
| fan-out builtins (12430-12660) | one chunk and one result vector per thread, a cancellation flag | `par-map`, `get-many` | threads finish, fail, panic and see the flag in any order | list order, thread caps, no unexplained gap, the call ends |
| process builtins (11790-12420) | a child, three pipes, two reader threads | `run`, `run2`, with and without stdin; `run-bg` | pipes block; a child may exit, close or write too much at any time | no partial output as `Ok`, no deadlock, no zombie |
| `spawn` (5513-5583) | a detached thread with a copy of the functions | `spawn` | races the end of `main` | nothing beyond fire-and-forget |
| other builtins | none | some 230 functions on values | arithmetic at the edges, indices | equal to their definitions |
| engine dispatch (`main.rs` 4240-5760) | which engine runs, what was printed, the exit code | `run_default`, `--vm`, `--jit`, tree fallback, `print_value` | an engine may refuse, fail half-way or leave an error behind | a named engine's effects once; exit code and output agree |
| register VM (`vm/mod.rs`) | frames with registers and defer stacks, nested `execute()` activations, a reference-counted heap | `compile`, `execute`, 194 opcodes | a deferred thunk is a nested `execute()` over the same frames; in-place updates rest on a count of 1; errors leave `execute` directly | defers as in the tree interpreter, frames isolated from thunks, exact counts, sharing invisible |
| Cranelift JIT, ahead-of-time compiler, LLVM JIT (`vm/jit_*.rs`, `vm/compile_cranelift.rs`, `vm/aot_blob.rs`) | arena, error cell, active registry in thread-locals | one code sequence per opcode | native code cannot unwind; thread-locals outlive calls | as the VM; errors judged at return |
| import resolution (`main.rs` 2810-3241) | visited set, exported names | package paths; flat, selective, aliased, lazy and re-exported local imports | cycles, diamonds, a missing file below a cycle, privacy per form | errors exact, each declaration once, private names stay private |
| packages (`pkg.rs`) | `ilo.lock`, the cache directory | `ilo add` with what its packages use, `ilo update` | the repositories move on, any step may fail or be the last one | after success what could be read of the packages is in the cache, locked at the commit that is there, and importable unless something was passed over |
| capabilities (`caps.rs`) | allow lists, fixed at start | checks for net, read, write, run | prefixes and wildcards | deny means deny |
| tools (`tools/*.rs`) | MCP child processes, a request counter each, the tool index | connect, discover, call, drop | answers matched by id, late answers, unasked lines, a full pipe, a server that dies | each caller gets its own answer from a server that has the tool, no server outlives the provider |
| serve, httpd (`main.rs` 990-1180, 2136-2300) | one program, one thread per connection | read request, run, answer | unbounded threads | connections are independent |
| random numbers (`rng.rs`) | one atomic word | `seed`, `next_u64`, range | rejection limit, draws of several threads | uniform, reproducible |
| lexer, parser, verifier, AST, formatter, generators, graph, diagnostics, command line | none between calls | pure passes | size, not state | |

How they meet. `main` parses, resolves imports, verifies, installs the guard and
hands the program to an engine. The default engine is the register VM; whatever
goes wrong there is retried on the tree interpreter, which is also the reference
semantics, the target of the VM's bridge calls for I/O and higher-order builtins,
and the engine of `serv`, `httpd`, `test` and the REPL. `--jit` enters native
code and falls back to the VM when there is none. Print sites of every engine and
thread call the guard before they write. `par-map`, `get-many`, `spawn`, `httpd`,
the reader threads of `run` and the watchdog are the only sources of concurrency;
threads share the capability set, the flag of their fan-out, the guard's atomics
and the generator's word, and nothing else.

The behaviours a test would hardly reach are listed, each at its line, under
`hazards` in `PROJECT.json`.

## Modules

| module | models | uses |
|---|---|---|
| `RuntimeGuard` | `runtime_guard.rs` | |
| `Cleanup` | the promise of `defer` / `errdefer`, for any engine | |
| `TreeEval` | control flow of the tree interpreter | implements `Cleanup` (`INSTANCE Cleanup WITH acts <- ...`) |
| `FanOut` | `par-map` and `get-many` | |
| `ChildRun` | `run` and `run2` | |
| `Engines` | dispatch, fallback, report and exit code | |
| `Command` | one `ilo run` as a process: `Engines` on the main thread under `RuntimeGuard` | extends both |
| `VmFrames` | calls, blocks, defers and errors of the register VM | |
| `VmHeap` | the VM's reference counts and in-place updates | |
| `McpClient` | tool calls over MCP | |
| `Packages` | `ilo add`, `ilo update`, and the resolver of package imports | |
| `<M>Proofs` | theorems about `M`; `CommandProofs` is about `Engines`, `RuntimeGuard` and `Command` | extends `M` and `TLAPS` |

Definitions whose comment begins with "Mutant:" are faulty variants of the
definition that follows; no specification uses them. Each checked property is
known to fail when one of them takes the place of the real definition.

### RuntimeGuard

`Install` is `install`; `used`, `aborted` are the atomics `OUTPUT_BYTES_USED` and `ABORTED`; `elapsed` is
`start.elapsed()` in ticks of the watchdog's poll; `pc[t]` is where a thread is
between two atomic operations. `RecordOutput` is the `fetch_add` and the
comparison of the total it returned; `AbortSwap`, `AbortWrite` (one of two
lines), `AbortExit` are `abort_with`; `WatchdogPoll` and `WatchdogElapsed` are the
two reads of the loop; `MainReturn` ends the process under everybody. `admitted`
and `stderr` are histories. The program is a nondeterministic sequence of prints.
The module has no run of its own; its properties are checked in `command`, with
a program on the main thread.

### Cleanup

One list of pending cleanups per activation. `Enter`, `Register`, `Resolve`
(run, run through a call, or, for an `errdefer`, skip) and `Leave`, possible only
with an empty list. It does not say how a body is left. It has no run of its own:
`tree_cleanup` and the theorem `Implements` say that the tree interpreter keeps the
discipline, and `Disciplined` what that is worth. The VM does not keep it
(`vm_cleanup`), so `VmFrames` states what the VM does guarantee instead.

### TreeEval

The host stack of Rust is made explicit. A frame is one activation of a function
that runs a body: `call_function` (form `"fn"`), the five conditional forms and
the value-producing match (`"arm"`), the four loops. `env` is the current `Env`
(number of scope marks, defer stack, and the slot of the accumulator in a
self-rebind), `Frame.saved` is what `call_function` saves or a block remembers as
`defer_mark`. `Finish` is what happens when a body ends with a `BodyResult` or an
error: the entries above the mark are taken off and `Drain` resolves them one at
a time, directly, through a call, or through a match that may defer again.
`LeaveFn`, `LeaveArm`, `LeaveBlock`, `LeaveLoop` are the `match` on the result
that each construct makes, `Deliver` hands an expression's outcome to the
statement that uses it (plain, `ret`, self-rebind, deferred), `Unwrapped` is `!`
and `!!`. `Trampoline` is the loop of `call_function` that takes a tail call.
`TailCallEscapes` is the `unreachable!` of the loops and of the match.

Data is abstracted to `"plain"`, `"nil"` and `"Err"`, which is what unwrapping and
`errdefer` look at; which statement comes next is a free choice among `Forms` and
`Features`, so a run covers every program made of them. `fates`, `Env.depth` and
`Env.exited` are histories.

Refinement: `acts` is, for each function frame, the defer stack in use there
followed by the reverse of the list being drained (`PendingOf`).

### FanOut

`worker[k]` is the thread of chunk k (for `get-many` a chunk is one URL), with its
`local` vector; `cancelled` is the Relaxed flag, read at `CheckFlag` - a thread
may read the old value after another has stored; `Spawn`, `Join` and the unwinding
of a scope whose `spawn` failed are the caller. A call ends in a value, an `Err`
value, a runtime error or a panic. `ChunkSize`, `Base` and `Concurrency` are the
arithmetic of `par_map_chunk_size` and `par_map_concurrency`.

### ChildRun

The caller (`Spawn`, `Feed`, `CloseStdin`, `Join`, `Kill`, `Wait`), the two reader
threads (`Read` takes any part of what the pipe holds, `ReadEof`), and the
operating system's side: bounded pipes, and a child that writes its two streams
in any interleaving, may read its stdin or not, close a stream early, and exit.
Every error path of the builtins is there: the spawn fails, a write meets a stdin
that nobody reads any more (`FeedFails`), a read fails (`ReadFails`, which the
caller treats like a stream over the cap), and so does the wait for a child that the
system has already done away with (`WaitFails`).

### Engines

`request` is the engine asked for, `--json`, and the suppression of a value that
a loop has printed; `runs` lists the executions of the program with their number
of effects and whether an error has been raised or recorded in them. `RunVm`,
`RunTree`, `RunJit`, `JitBailsOut` (`NotEligible`), `JitPanics`, `CompileFails`,
`Reject` are the branches before the program starts, `RuntimeError` is the `Err`
branch of each engine including `run_default`'s fallback, `Returns` is
`print_value` and `program_exit_code`.

`JitHelperFails` stores into the error cell while native code runs on. Only some
helpers do: where the VM raises an error, the permissive ones answer nil
(`vm/mod.rs` 7594-7597; for instance `jit_slc` with a fractional bound, 18545), which
is a value like any other here. So that native code returned with an empty cell (`CallSucceeded`) does
not mean that the VM would have run the program without an error, and no property
says so.

### Command

The two parts above as one process, with the variables of both. They meet in the
prints, charged by the guard (`Charge`) before they become an effect of the
execution that is going on (`Emit`); in the threads that print beside main, which
exist once the program has started; and in the exit status: `Exit` is
`process::exit` of what the dispatch returned, while `AbortExit` ends everything at
any point of the execution. main takes a step of `Engines` only when it is not
inside a print site.

### VmFrames

`frames` is `VM.frames`, `pc` the point the running `execute()` has reached, and
`execs` the activations of `execute()` on the host stack, each but the last
inside the loop of a drain; `stop` is `execute_stop_depth`. A point names the
blocks around it, so what the compiler emits around a body (`OpenBlock`,
`EndBlock`, `LoopTest`, and `Escape` with the jump of `brk` and `cnt`) are states
of the machine. What the compiler decides once, whether a function or a block contains
a defer, is chosen on entry. `EmitRet` and `ScopePop` with `Drain` are
`OP_DEFER_DRAIN` and `OP_DEFER_SCOPE_POP`, `EndExec` is the end of a nested
`execute()`, `Return` is `OP_RET`, `RuntimeError` is `vm_err!`, which leaves the
frames of the thunk behind. As in `TreeEval` the program is chosen as it runs.

### VmHeap

Registers of up to two frames, and a heap of texts, lists, maps and window views
with counts. One action is an instruction, or the instructions of one statement
that rebinds a local to a call: `ListAppend`, `MapSet`, `TextAdd`, `ListReverse`
with their three ways (in place when source and target are one register and the
count is 1, reuse, copy), `WindowView` and `Item`, `Move`, `Call`, `CallOwn`
(`OP_MOVE_OWN`), `TailCall`, `Return`. `vals` is the reference: the same locals
in a language that never shares. Everything that is not counted is `Nil`. `DropAll` is `drop_rc`
with its recursion into the items as a loop (`Release`), and `Tree(v)` is the value
a reference stands for.

### McpClient

`McpProvider::connect` (`Spawn`, the handshake in `Answered`, `Connected`), `call`
(`CallTool`), the drop of the provider (`End`) and the end of the process by the
runtime guard, in the middle of a request too, where nothing is dropped (`Abort`),
over `send_request` and `send_notification`: `Write` fills a bounded pipe, `Read`
and `ReadEof` take the next line and decide by its id. A response may be an error, a
result, or a result with an array of tools (`"list"`, perhaps an empty one), which
is what `tools/list` needs. The servers (`ServerReads`, `ServerAnswers`,
`ServerWrites`, `ServerSays`, `ServerCloses`) are other people's programs and are
bounded only by the number of lines they write without being asked and the ids of
their own requests.

### Packages

`remote` is the list of commits of each repository: what its files use, right after
the word `use` or with a prefix or condition before the path, and whether there is
an `index.ilo`, which nobody looks for when a package is installed. `cache` is the
commit checked out in `~/.ilo/pkgs`, `lock` the lines of `ilo.lock`, `cmd` the
running command with the stack of its `add_recursive` calls. `Enter` to `Return`
are the steps of one call in the order of the code, with the failure of git and of
the file system at each; `Push` is a commit by someone else.

`WriteLock` has the failures that do not stop the command. `collect_pkg_deps` skips
the directories and files it cannot read, so any part of what it should find may
be missing (`unread` remembers for which packages); `rev-parse` may not answer; the
lockfile may be unreadable, which counts as empty, or unwritable. A write of the
lockfile that fails, or that is cut short by a kill (`Crash`), leaves what `Torn`
says: some whole lines, and perhaps one that ends in the commit or in the name,
which may then be the name of another package (`Short`) or of none (`Junk`).

`Codes` is the resolver as a recursive function of the cache: it walks the graph a
second time, independently of the installer, which looks for `use` in the text
(`Scan`). `Followed` is what the installer was able to follow, `Imports` what the
resolver does.

## Runs

`expect: violation` runs check one statement of a document or comment that the
code does not keep; they are explained [below](#where-code-and-documents-differ).

| run | distinct states | what it shows |
|---|---|---|
| `command` | 207 388 | one diagnostic, output within budget, runaways and overflows end the process; named engines run the program once; exit code, exit status and output agree |
| `tree_eval` | 1 191 855 | whatever way a body is left: scopes balance; a block drains only its own entries; an entry waits in one place, in the frame that registered it; an exit is final; no statement sees the Nil of a self-rebind |
| `tree_cleanup` | 162 845 | the interpreter implements `Cleanup` |
| `fan_out` | 30 928 | order, caps, explained gaps, termination |
| `fan_out_docs` | violation | an error in one item of a par-map keeps others from being called |
| `child_run` | 116 517 | complete or `Err`, child reaped, no deadlock within the cap |
| `vm_frames` | 2 955 164 | a thunk runs isolated and once, drains are last in first out, a block's entries do not outlive it, failing thunks included |
| `vm_cleanup` | violation | a `!` on the VM loses the defers before it |
| `vm_heap` | 287 890 | counts are exact, sharing is invisible, nothing leaks |
| `vm_alias` | violation | `x = f x x` on the VM loses its second argument |
| `mcp` | 566 799 | each call its own answer, from a server that has the tool; calls return; no server is left by a provider that is dropped |
| `packages` | 850 064 | success means complete and locked as far as the scan could read, and importable unless something was passed over; the resolver's errors are exact; commands end |

Type invariants are checked by TLC in `vm_heap` and `packages`, where a fault of the
code would break them; the others are proved only.

Bounds.

- `command`: every engine and output mode; one effect per execution lets two
  executions have some. Main and one spawned printer beside the watchdog are all the
  roles there are; a third printer adds only another parked thread. A cap of 3 with
  prints of 1 and 2 has exact hits and overshoots; `MaxUsed` 5 lets both printers
  overflow together. Two ticks separate the start, the middle and the end of the
  time budget.
- `tree_eval`: depth 4 and two activations hold a block around a deferred match
  that rebinds a variable by a call: three frames are not enough for it, and without
  the exemption for ignored errors `RebindInvisible` is false there. One defer
  statement gives a block drain, a function drain, a call from either, and a match
  that is deferred. What two entries can do to each other (a drain inside a drain, a
  match that defers while it is deferred) is in `tree_cleanup` but for the last, and
  in the theorems, which bound neither depth nor defers. Of the forms, one of each
  kind: `ternary`, `braceless`, a loop with a mark (`each`), the loop without one
  (`lazy`), the loop without a scope (`while`), `arm`; `braced`, `match` and `range`
  are treated by the same definitions as one of these.
- `tree_cleanup`: depth 3 and two defers, with `braced` and block errdefers. Deferred
  matches (`deferarm`) are left out because a defer registered inside one is
  dropped (see below), which `Cleanup` forbids: the two runs cannot be one.
- `fan_out`: four items over 1, 2, 3 and 5 threads give chunks of 4, 2, 2 and 1,
  an uneven last chunk, and fewer chunks than threads; two fetches per wave over
  four URLs give two waves. `fan_out_docs` needs two items on two threads.
- `child_run`: a cap of 3 over pipes of 2; outputs of nothing, less, the cap
  exactly, one more, and more than cap and pipe together; texts that fit the pipe
  and texts that do not.
- `vm_frames`: two activations and two thunks over four frames let a thunk call a
  function that drains a thunk; two blocks and two scope marks give the `brk` that
  crosses an inner scope; both ways for a thunk to fail are in. `vm_cleanup` needs
  one function, one defer and one `!`.
- `vm_heap`: two cells beside the constant hold a list in a list, a list twice in a
  map, or a view and its list; two frames of two locals hold each of them several
  times; two items distinguish a reversed list. One call crosses into a frame and
  back, or is a tail call. `vm_alias` adds `x = f x x`.
- `mcp`: two servers that may list the same tool give both owners and a second
  connection that fails after the first; two calls and two unasked lines, one of which
  may fail a request whose answer then comes late, let that answer meet a later call;
  ids up to 3 are those of the handshake and of a first call; requests of one unit and
  two over a pipe of two fit and do not fit.
- `packages`: three packages with two uses among their first commits and a third in
  the commit pushed last are every chain, diamond and cycle up to length three, the
  third use arriving late. A use with a prefix weighs two (what it uses is not
  followed), a missing `index.ilo` one. A command and two events more are a second
  command after a failure, a push between fetch and lock, a kill inside a write, a scan
  that misses something. One name (`Short`) is the beginning of the others, as a cut
  line needs.

Deadlock is not checked in these runs: each models one program, call or command,
which ends. Where ending matters it is a property (`CallEnds`, `ReturnsWithinCap`,
`CallReturns`, `CommandEnds`, `RunawayIsKilled`, `OverflowIsKilled`).

Fairness.

- `Command`: time passes; the watchdog thread is scheduled; a thread inside
  `abort_with` is scheduled. Nothing is assumed of the program, which may loop.
- `FanOut`: the caller and every started thread are scheduled, and every call they
  make ends (with any of the four outcomes). A call that never ends holds the
  join; the code has no timeout there.
- `ChildRun`: the caller, both readers, and a child that does what it can when it
  is not blocked. It need not close a stream before it exits, and no read need fail.
- `McpClient`: the client goes on unless a read or a write blocks, and a server that is up goes on reading, answering and writing, one weak fairness
  each (`ServerStep`). Nothing is assumed of
  unasked lines, of the end of a server or of an abort.
- `Packages`: git and the file system answer, one way or the other; kills, pushes
  and new commands are not fair.
- `TreeEval`, `VmFrames` and `VmHeap` have no liveness property, and `Command` none
  about the program: it may run for ever.

## Proofs

Every theorem is about `Spec` (or what it implies) for all values of the
constants that satisfy the module's named assumption: sets of naturals, bounds
that are at least 1 where the code guarantees it.

| module | theorems | inductive invariant |
|---|---|---|
| `TreeEvalProofs` | `TypeCorrect`, `Scopes`, `BlockDrains`, `OwnDefers`, `Exits`, `Rebinds`, `RunOnce`, `Implements`, `NothingLost`, `LastInFirstOut`, `ResolvedAtEnd`, `Disciplined` | four, each over a stack and an environment, with one lemma per helper (`Finish`, `Deliver`, `OpenBlock`, `EnterFn`, the pops), of which each action is a chain: `WellNested`, `Sound`, `Unique`, `Simple` ([below](#the-tree-interpreter)). |
| `FanOutProofs` | `TypeCorrect`, `Ordered`, `Capped`, `ChunksStop`, `Skipped` | where the caller stands (`CallerInv`), what an unstarted, running and joined thread can be (`ThreadInv`), what its local vector holds item by item (`Sound`), that a set flag has a thread holding the error (`CauseInv`), and which positions are written (`ResultInv`). The non-linear facts about `ceil(n/t)` chunks are lemmas of their own (`DivCeilIs`, `ChunkIs`). |
| `ChildRunProofs` | `TypeCorrect`, `Complete`, `Reaped` | `StageInv` ties the child, the readers and the answer to the caller's stage; `FlowInv` says each unit written is captured or in the pipe until the cap is hit, an end of file is seen only of an empty closed pipe, and a stream is closed early only by a kill, after the answer is `Err`. |
| `CommandProofs` | of `Engines`: `TypeCorrect`, `RunsOnce`, `ExitsExplained`; of `RuntimeGuard`: `GuardTypeCorrect`, `OutputBounded`, `DiagnosticCoherent`; of `Command`: `PartsImplemented`, `StatusExplained` | Engines: a named engine has started at most once (`OneStart`), nothing is reported before the exit (`SilentUntilExit`). Guard: at most one thread is between the winning swap and the exit (`OneAborter`), stderr is what that thread has written so far (`Progress`), what was let through has been charged (`Charged`). `SingleDiagnostic` alone does not say who may still write. Command: each step of the process is a step or a stutter of either part (`PartsStep`), so that both invariants hold of it, and `StatusSource` says who set the exit status. |
| `VmFramesProofs` | `VmTypeOK`, `VmIsolation`, `VmWaitsOnce`, `VmLastInFirstOut`, `VmRegistersKept`, `VmDrainedWithBlock` | `TInv` (types, the nesting of the stop depths), and on it `OnceInv`, `LifoInv`, `RegsInv` and `ShapesInv` ([below](#the-frames-of-the-vm)). |
| `VmHeapProofs` | `TypeCorrect`, `CountsAreExact`, `SharingInvisible`, `NothingLeaks` | the books balance (`Sound`), and every object has a value and a place in an order (`Meant`) ([below](#the-heap-of-the-vm)). |
| `McpClientProofs` | `McpTypes`, `Routed`, `NoneLeft`, `AnswersAreOwn` | `RpcSound` ties the request in progress to phase and connection, `IdsSpent` says every id in the log is below the connection's counter: a late answer can only carry a spent id. An abort leaves the children as they are, and `NoOrphans` speaks of the two ends that drop. `NoOrphans` and `RoutedToOwner` are inductive beside the types. |
| `PackagesProofs` | `TypeCorrect`, `Complete`, `Importable`, `ResolverExact` | what the calls on the stack owe each other (`Fetching`), what all roots of the command have fetched (`Collected`), what holds when it has ended (`Ended`) ([below](#the-packages)). |

The assumptions are the named `ASSUME` of each module, which TLC evaluates in
every run. The type theorems of `command`, `tree_eval`, `fan_out`, `child_run`,
`vm_frames` and `mcp` stand in for a type invariant in the run.
`Implements` is the step simulation of `Cleanup` by `TreeEval`. `Disciplined`
follows from it and from the steps of `Cleanup` alone, where `PendingIffWaiting` and
`InOrder` are inductive together: order makes an entry's place unique, and
pending-iff-waiting keeps a resolved one from coming back. Both assume
`"deferarm" \notin Features`: a match that defers while it is itself deferred loses what it registered
([below](#where-code-and-documents-differ)), which `Cleanup` forbids. The other
theorems have such programs in.

### The tree interpreter

`WellNested(s, e)` is types, scope marks and defer prefixes of every frame, with
the environment each frame will find again (`EnvAt`): the property of the top
frame alone says nothing about the frame found after a pop.

`Sound(s, e)` explains the histories `depth`, `exited` and `slot` by where a frame
stands. `Shaped` says who waits for whom: a frame whose value is deferred was
started by a drain, every other by a body. `OwnAt` puts environment, entries and
list of a frame under one function frame. `ExitAt`: an activation that has exited
is inside one of its deferred expressions, or leaves its frames with a result that
nothing between swallows. `RebindAt`: a variable is empty while an operand is
evaluated, or while the exit it caused goes through. An action first pops or ends
something and then acts on the result, and between the two the top frame satisfies
neither of them; so the lemmas carry `Open`, which leaves the top frame out, and
`Rests` is established at the end of the step.

`Unique(s, e, fates)` gives every frame two lists: the list of its drain, and the
defer stack of its body unless a block has taken it over. Over all of them each
entry is of a different statement, and that statement is pending. The property
counts places; that no number repeats is the stronger fact a step can preserve.

The refinement maps the stack to one list per activation (`PendingLists`): the
entries on the defer stack of its innermost frame, then what its drain has taken
off, turned round. Activations are counted by the cardinality of the function
frames below (`Activations`), so that the map needs no recursion. `Simple(s, e)`
is `WellNested` and what makes the map a step simulation: each activation has one
innermost frame (`Covered`), no match is a deferred expression (`Plain`), and a
function that drains has nothing left on its defer stack (`Emptied`). `Call` is
`Enter`, `Defer` is `Register`, an evaluated entry is `Resolve` (with a new list
when it calls), the return of a function is `Leave`; blocks, loops, exits and the
start of a drain move entries about inside one list, and the lists stay the same
(`SameLists`).

### The frames of the VM

`StopsNest`: each `execute()` was started with more frames than it must stop at, and
above the depth of the one that started it. Without the order of the saved depths,
the end of one drain could restore a depth above frames that are gone. `LoopsOpen`
keeps the loop test inside a block. `VmIsolation` follows from these.

`Waiting` says of the defer stacks of all frames and the lists of all drains what
`Unique` says of the interpreter's, and that each pending statement has its entry.
A failing thunk marks its statement `"failed"` over whatever it was: `ThunkRan`
says that the statement of a frame's thunk is off the lists.

Order within one list (`Ordered`) and between a drain and the stacks (`Younger`)
is kept by a push only if the pushing frame is the only one with entries of its
activation. `OwnersKnown` and `OneFrame` say so of the frames, `Suspended` says
that what a suspended drain holds belongs to no frame above the stop depth, where
the pushes happen.

`VmRegistersKept`: a frame whose result goes to register 0 is the first above a stop
depth (`ThunkAtStop`), so that its `OP_RET` leaves `execute()`; and the frame above
each stop depth belongs to a defer statement (`StopOfDefer`), so that a failure
there is seen in `fates`.

`Shapes`: in a frame that is in step, the outermost blocks are the scoped ones, the
defer stack has one mark for each in the same order, and an entry stands behind the
marks of the blocks around its statement. Between two iterations a loop has no mark
(`MarksAt`). `DrainedWithBlock` mentions neither marks nor scopes: the compiler
knows only the blocks, the machine only the marks, and the invariant is the
correspondence.

### The heap of the VM

`Sound` is the books: each count is the number of references held by registers, by
the pool and by items, a free cell has none, a view looks into a list and a text
refers to nothing. Inside an instruction a reference can be counted and stand
nowhere yet, so the lemmas keep books (`Ledger`) with what the rest of the machine
holds and what is in hand. `clone_rc` puts references in the hand, a write to a
register exchanges one for the old content, `drop_rc` takes one from it; whoever
drops the last one gets the items of the object in hand. `DropAll` is a loop with a
list of what is still to be dropped; `Work`, which falls with each round, shows that
`MostDrops` rounds empty it. These lemmas are about one frame and what the others
hold, so that an instruction is a chain of them, and a call or a return only moves
what counts as the others.

`Meant` says that some assignment of values to cells agrees with the items of every
object and with `vals` in every register that is a local and has not been moved
away, and that some order ranks each object above what it holds. An overwrite in
place changes the value of one cell. It is sound because a count of 1 is, by the
books, the register that the instruction writes (`SoleIs`), so that nobody else sees
the change. A new object, and one that is overwritten, goes to the top of the order:
nothing holds it. The order makes the values the ones `Tree` computes to the depth
of the heap; and of the objects that no register leads to, the one that ranks highest
would be held by nobody, so there are none.

`TypeCorrect` and `CountsAreExact` hold for all statements. `SharingInvisible` and
`NothingLeaks` assume `Shapes = {}`: with `"selfstore"` an object is stored in itself
and has neither value nor rank, with `"ownalias"` a register is read after it was
moved; there the properties are false, as the code is
([below](#where-code-and-documents-differ)).

### The packages

Graphs of packages are kept apart from how they are walked. `Stacked` says which calls
are on the stack: each but the last is at its dependencies, and a package is marked
visited from there on. So of the visited packages those on the stack are being
fetched (`Busy`) and the others are done with all they use (`Fetched`). `Fetching`
says that what is done is there and closed, and that a call still knows what it owes.
A later root of the same command starts with nothing visited and fetches again what
is there, perhaps at a newer commit that uses other packages. `Collected` therefore
speaks of a set D of all packages the command has fetched, closed and acyclic except
at the packages being fetched again, which may be anything until their calls return.
Acyclic is `Tidy`: each set of packages has one that uses none of the set; it goes on
holding when a package is added that uses only members. `Ended` is what remains when
the command exits, and it is not touched by pushes.

The graph of all this is `Followed`: nothing is owed for what a scan has missed, and a
later scan of the same package is another graph. All four theorems hold for all
sources, whatever the scans miss and wherever a write stops. `Complete` says of this
graph alone that it is there and locked. `Importable` compares it with the graph of
the imports, and can do so where nothing was passed over (`PassedOver`): there the two
graphs agree, on everything that is imported. The lockfile is right line by line
(`LineOk`), and two lines of one package agree unless the commit of one was cut off
(`Agree`), which `update_lockfile` keeps because it replaces all lines of a package.

`ResolverExact` is about a recursive function. That the definition determines one
(`SomeRows`, `ResolveIs`), and what it returns at each depth (`AllRight`), is shown by
taking the least number for which it fails: the induction rules of the library take an
operator, which the provers cannot instantiate, but that a set of naturals has a least
element they can use. `RightFor` says of a package and the chain of its importers that
a missing package or a cycle that is not reported is not reached without passing the
chain again, if enough depth is left for all packages outside the chain. A closure
under imports is the intersection of all closed sets, so nothing is said of paths.

### Only model-checked

- liveness (`RunawayIsKilled`, `OverflowIsKilled`, `CallEnds`,
  `ReturnsWithinCap`, `CallReturns`, `CommandEnds`): fairness is outside the
  prover's reach;
- what becomes of the cleanups of a match that is itself deferred, beyond
  `RunOnce` and `OwnDefers`: `Implements` leaves these programs out.

## Where code and documents differ

With a run:

- `fan_out_docs`: `skills/ilo/ilo-builtins-io.md`:27, `examples/par-map.ilo`:6-7 and
  the comment at `interpreter/mod.rs` 8660-8661 say that a failing item of a par-map
  does not short-circuit the others. It does: the first error sets a flag (12608), and
  the function is never called on what a worker looks at after that (12594-12600), as
  another comment (12539-12546) and a test (18827) say. `ChunkStopsAtError` and
  `SkipsExplained` state what this cancellation keeps, not that it is wanted.
- `vm_cleanup`: README.md:202 of the repository promises cleanup on every exit
  path. On the VM `emit_ret` drains the defers, but `!` returns by an `OP_RET` of
  its own (`vm/mod.rs` 2353) without a drain, and so does a function without defers
  that was entered by a tail call: the entries are lost with the frame.
- `vm_alias`: the comment at `vm/mod.rs` 506-513 says `OP_MOVE_OWN` is emitted where
  the first argument is dead after the call. The peephole (2945) looks at the first
  argument only: in `x = f x x` the move empties the register that the second
  argument is copied from, and f receives nil.

Met while modelling, with no run of their own.

Defers and exits:

- A tail call of the tree interpreter clears the variables but keeps the defer
  stack (`interpreter/mod.rs` 9818): the deferred expression is evaluated in the
  environment of another function, fails, and the failure is ignored
  (README.md:202).
- SPEC.md:66 says `!` leaves the function. In a ternary branch (10615) and a
  value-producing match (11211) it becomes a plain value and the function goes on
  (`Swallows`).
- A defer registered in a match that is itself a deferred expression is dropped
  (9893); `tree_cleanup` leaves such programs out for this reason.
- A tail call that reaches a loop body panics (10738): `ret f x` in a loop. The
  comment there calls it unreachable; `TailCallEscapes` reaches it.
- The comment at 10526 says user code never observes the Nil of a failed
  self-rebind. The defers of the activation do, and so does the code after a
  ternary or match that swallowed a propagated `Err`, and the code after a block
  whose deferred match failed in a self-rebind, an error that the drain ignores.
- A block's `errdefer` also runs on a plain `ret` (10605; `ast/mod.rs` 302), and
  block-level defers exist although `ast/mod.rs` 372 says they do not.
- On the VM a deferred thunk that fails leaves its frame on the stack
  (`vm/mod.rs` 14801, 9313), which then runs again in place of the outer code,
  where the comment at 14804 says the error is silently swallowed
  (`RegistersKept` allows for it). A runtime error skips all defers. `brk` and `cnt`
  pop one scope sentinel whatever the number of scopes they cross (3540-3575).
  The comments at 1212 and 10960 say the VM has no native defer support;
  `stmt_has_defer` (8808) does not look into expressions.

Engines and processes:

- main.rs:5498 describes the fallback to the tree interpreter as one for programs
  the VM cannot run, but it is taken on every runtime error too (5506), and the
  program starts again from the beginning: effects happen twice.
  `NamedEngineRunsOnce` therefore speaks of named engines.
- SPEC.md:1340 promises an `Err` for a stream over the cap. The reader that meets
  the cap stops (`interpreter/mod.rs` 11865; comment at 11843), its pipe stays
  open, and the caller waits for the other reader before it kills the child: if
  the child keeps writing, for ever. `ReturnsWithinCap` is limited accordingly.
- Native code goes on with nil where the VM raises an error: only some helpers fill
  the error cell (`vm/mod.rs` 7594-7597). A program that fails under `--vm` may
  succeed under `--jit`.
- `abort_with` parks concurrent callers; its comment says they return. `main` can
  return 0 between the diagnostic and `exit(1)` of another thread: the diagnostic is
  then written, and the command succeeds.

Values on the VM (`vm/mod.rs`):

- `xs = += xs xs` (14346 lacks the test that the two operands differ) and
  `m = mset m "k" m` (9694) build an object that contains itself: `ValueSemantics`
  is false with `Shapes = {"selfstore"}`.
- Numeric instructions (11622) and the all-numeric `OP_RET` (11257) store without
  dropping what the register held: it leaks when another branch left a heap value
  there.
- `OP_CALL_OWN1`, `OP_CALL_DYN` and `OP_TAILCALL` do not test `is_tool` and
  `is_defer_fn` as `OP_CALL` does (14601 against 10922, 10962).
- `OP_LISTAPPEND` promotes a record of the arena that escapes into a list (comment
  at 14302). A list literal (`OP_LISTNEW`, 11603) and `OP_MSET` (9653) do not. The
  last `OP_RET` promotes only a result that is itself a record (11273), then resets
  the arena, which releases the records' fields (11277), and converts the result
  last (11279): a list literal of records with computed texts is read after the
  release.
- `OP_RECWITH` on a record of the arena takes a field name that was left for run
  time as slot 0 (11361), where the comment at 6938 says that it is looked up by
  name, as the heap path does: with `r` of unknown type, `r with y:9` sets the
  first field.

Packages and imports:

- `extract_use_pkg_slugs` finds only a path right after the word `use` (the comment
  at `pkg.rs` 497 says it always stands there), so what `use m:"p"`,
  `use re:"p" [..]` or `use ?wasm "p"` need is not installed. Nor is what is used in a
  directory or file that the scan cannot read (471-474, 484-486), and no command looks
  for `index.ilo` (387-431). In all three cases `ilo add` exits with 0 and the import
  fails with ILO-P017 (main.rs 2987-3009); `InstalledResolves` names them
  (`PassedOver`), and is false without them.
- `ilo add q` fetches a dependency that is pinned in the lockfile at its newest
  commit (`skills/ilo/ilo-agent.md`:81), and `ilo update` drops pins. A commit that
  is not the newest cannot be checked out in a clone of depth 1 (SPEC.md:2186),
  and the cache keeps the newest.
- `ilo.lock` is not written atomically, one that cannot be read counts as empty
  (616), and a write that fails is only a warning; two commands at once lose
  lines. SPEC.md:2226 lists the resolution of transitive dependencies as a
  non-goal, where `add_recursive` fetches them (`pkg.rs` 291-292).
- An alias is ignored for a package path (main.rs 3002-3056, SPEC.md:2116), a
  `_private` name can be selected from a package, and the declarations of a diamond
  are declared twice (3140), which the verifier refuses (`verify.rs` 4626).
- Flat imports let private names through (main.rs 3216), a selective import
  accepts names the module does not re-export (3178, comment 3148), and an alias
  renames declarations but not the references to them.

Others: `rng.rs` 65 accepts one value too many, which favours the lowest result.
SPEC.md:2642 gives exit code 2 to verifier and parser errors; `main.rs` returns 1.

## What is not modelled

- Values, the builtins that compute on them, formatting and parsing. They are
  sequential and total; what matters about them is data. They are also most of the
  136 000 lines, which is why the map's share of the code stays small.
- The lexer, parser, verifier and generators: pure passes. Conditions the verifier
  enforces (`brk` and `cnt` only in loops) are guards of `TreeEval` and `VmFrames`.
- Of the VM: records and their arena, closures and their captures, `OP_WINDOW` with
  its fresh copies, and the opcodes that read operands and build a new number,
  text or boolean.
- Native code beyond its outcome in `Engines`: it restates the VM opcode by opcode.
- Of `Packages`: version constraints and sub-paths, two commands at once, an
  `index.ilo` that is there and cannot be read. Of imports: local files with their selective,
  aliased, lazy and conditional forms.
- Of `McpClient`: the HTTP provider, the conversion of schemas and values, and what
  a server does after an abort.
- Of `ChildRun`: a reader thread that cannot be started (`thread::scope` panics).
- `run-bg`, `spawn`'s own body, servers, the random generator, capabilities: see
  the plan or the note of the component in `PROJECT.json`.
- Memory exhaustion and host stack overflow.

## Plan

1. `Imports`: `resolve_imports` for local files as a machine over module graphs:
   diamonds, privacy per form, lazy loading, compared with the set of names a module
   exports.
2. `Rng`: `SplitMix64` over a small width, the rejection loop against a uniform
   reference, draws of several threads.
3. Records in a module of their own beside `VmHeap` (the arena, and promotion to the
   heap when one escapes): together with calls and views an instance in which a
   promotion fits has more states than a run of a few minutes reaches.
4. Pure algorithms against reference definitions over bounded inputs: sliding
   minimum, glob matching, bisection, capability prefixes.
5. The active-registry and arena guards of native code; `httpd` and `serv`.
