# A TLA+ model of the Klang toolchain

This directory specifies, model-checks and proves properties of the Klang
toolchain (`src/src/`, a Rust crate; the language's promises are in
`src/SPEC.md`): the structured concurrency of its interpreter, worker threads
and channels, the HTTP server, the package registry and its clients, the echo
threads of the second interpreter, the loader of multi-file programs, and the
path from checked programs through MIR to the interpreter and the JIT.
`PROJECT.json` maps the definitions to the lines they model, and lists the
hazards with the properties that watch them.

To check one run: `tlc -config Channel.cfg MCChannel`.
To check a proof: `tlapm WorkersProofs.tla`.

Contents: 1 inventory, 2 modules, 3 runs, 4 what the code does not keep,
5 bounds, 6 fairness, 7 proofs, 8 what is not modelled, 9 plan.

## 1. Inventory of the system

### Parts with several actors

**Task groups** (`runtime/mod.rs` 30-60, 760-1080, 1590-1680;
`diagnostics.rs`; discipline in `hir.rs` `check_block`).
*State, per activation of a function*: `groups` (a stack of cancel tokens),
`pending` (handle name to JoinHandle), `values`, the `parent` token.
*Operations*: enter and leave a group, `spawn`, `await`, plain call, `return`,
`break`, `try/catch`, `exit`, and the failure drain `fail_group`.
*Interaction*: a task reads its group's token at every back-edge; a parent
joins tasks by OS thread joins; errors travel as a `Diagnostic` with `related`
failures.
*Hard*: a failure while siblings run, fail or wait; a frame that fails by itself
while it holds handles; handles bound again in a loop; a control transfer out
of a group; what the static checker does not see.
*Correct when*: every task is joined exactly once; a value means all tasks were
joined; failures are neither lost nor invented; a drain ends; no stale value is
awaited.

**Worker threads** (`stdlib/a2_threads.rs` 90-375, `runtime/mod.rs` 675-690,
1110-1181).
*State*: the live count, the run's registry of handles, per thread a lock
around a JoinHandle and a cached result.
*Operations*: `thread_spawn` (check limit, count, start, register, or undo),
the end of a body, `thread_join`, the reaping at the end of a run.
*Hard*: check-then-act on the limit; a lock dropped around the blocking join;
reaping a copy of a registry that still grows.
*Correct when*: the count is exact; a join tells the truth; a handle has one
joiner; nothing outlives the run.

**Channels** (`a2_threads.rs` 430-597): a bounded queue, a flag and ONE condition
variable for senders and receivers. *Operations*: `send`, `recv`,
`recv_timeout`, `try_recv`, `close`. *Hard*: lost wake-ups, deadlines, close
against sleepers. *Correct when*: it is a FIFO queue and nobody sleeps without
a reason.

**HTTP server** (`runtime/mod.rs` 3569-4073, `stdlib/a3_http.rs` 915-1216,
`stdlib/a1_net.rs`). *State*: listener, `running`, the job queue (a channel), the
idle pool, the JoinHandles. *Threads*: one acceptor, N workers, one idle poller,
whoever calls `http_stop`, and a finisher when that is a worker. *Hard*:
connections change owners six ways while a shutdown of eight steps runs.
*Correct when*: a connection has one owner; accepted connections are served; a
stop ends; a run leaves no thread of a server behind.

**Package registry service** (`registry.rs`, `registry_storage.rs`): HTTP
handlers on threads over an in-memory index, a local directory or a bucket
that several instances share. *Operations*: publish, download, search, refresh,
repair, load, save. *Hard*: create-then-write, snapshots written out of order,
repeated publishes, refresh against publish, two instances, restart.
*Correct when*: versions are immutable, what is listed has its bytes, and an
acknowledged version stays.

**Echo threads of the second interpreter** (`runtime/v2.rs`): a table of thread
handles behind a mutex, `listen`, the final join. *Hard*: handles that travel
as values; a join with the table locked; output copied before the join.
*Correct when*: no circle of listeners, no line, failure or thread is lost, a
run returns.

**Async fetch pool** (`async_pool.rs`): a FIFO queue and a fixed set of threads.
**Signals** (`a2_threads.rs` 596-690): three flags, set by a handler, swapped by
a poll.

### Parts with one actor and a long history

**Package client** (`registry.rs` client half, `package/`, `package_manager/`):
the resolver's worklist with pins that are taken back; `klang.toml`,
`klang.lock` and `.klang_pkgs`, written by `install`, `add`, `remove` and
`update`. *Hard*: the registry changes between two requests, a request fails,
the process dies between two writes, a multi-add must be undone. *Correct
when*: a resolution satisfies every requirement, what is installed is what is
locked, a locked version keeps its checksum.

**Loader of multi-file programs** (`imports.rs`): a breadth-first walk over
whole, selective and aliased imports, then a pass that resolves the aliases.
*Hard*: cycles, one file met by several kinds of import, rewriting calls while
functions are still added. *Correct when*: result and verdict do not depend on
the order, every program ends, no call keeps an alias.

**Parser, formatter, checker, lowering and backends** (`parser/mod.rs`, `fmt.rs`,
`hir.rs`, `mir/mod.rs`, `runtime/mod.rs` 1590-2200, `jit.rs`): text to tree and
back, what is accepted, one flat list of instructions over flat names, an
interpreter with slices for `try`, a JIT with a flag for errors. *Hard*: precedence
and line ends, jumps that are patched later, names saved and restored around match
arms, errors that leave a slice half way, overflow. *Correct when*: the code does
what the program that was written means, also after a format, both backends agree,
accepted programs do not get stuck.

### Other sequential parts

Tokenizer and the parsers of v2, echo and flow; file, process, time and regex
builtins; the PostgreSQL client; the repair driver; the language server and CLI. See
section 8.

## 2. Modules

| module | models | uses |
|---|---|---|
| `TaskGroup` | task groups, checker discipline included | |
| `BoundedQueue` | what a channel promises (abstract) | |
| `Channel` | one channel with its condition variable | implements `BoundedQueue` |
| `Threads` | spawn, join, registry, end of run | |
| `Workers` | a program with threads and a channel | `Threads` + `Channel` |
| `HttpServer` | acceptor, workers, poller, stop | job queue as in `BoundedQueue` |
| `VersionStore` | what the registry promises (abstract) | |
| `Registry` | the registry service on both stores | implements `VersionStore` |
| `Versions` | version order and constraints | |
| `Resolver` | the resolver's worklist | `Versions` |
| `Project` | install, add, remove, update of one project | `Resolver` |
| `Echo` | echo threads of the second interpreter | |
| `Imports` | the loader of multi-file programs | |
| `Mir` | lowering to MIR | |
| `Builtins` | the builtins and methods, as the checker and as the interpreter see them | |
| `Checker` | the static checker for that language | `Mir`, `Builtins` |
| `Values` | runtime values and operations | `Checker` |
| `Meaning` | what a program means (reference) | `Values` |
| `Syntax` | the text of a program: formatter and parser | |
| `Text` | from the author's text to what is lowered | `Checker`, two instances of `Syntax` |
| `Backends` | the interpreter and the JIT, compared | `Meaning`; `Text` through a constant |
| `MC*` | value sets, program families and symmetry for TLC | one module each |
| `*Proofs` | theorems: `TaskGroup`, `Workers` (with `Channel`), `HttpServer`, `Registry`, `Project` (with `Versions` and `Resolver`), `Echo`, `Imports`, `Builtins` | |

### TaskGroup

A *frame* is one activation of `exec_function`. The module fixes no program: a
running frame may execute any statement the checker accepts at its syntactic
position (`scope`), so a behaviour is an execution of some checked program.
`features` is what that program uses (nested groups, try, jumps, calls, exit,
frames that fail by themselves, awaits that are counted and not executed); the
properties that the code guarantees only without a feature say so. An await that
the checker counts and the run does not wait for is `AwaitCounted`: of a handle that
is not bound yet (`early`), or skipped, because it stands in the right operand of
`&&` or `||` or in a match arm that is not taken (`skip`). After it the checker's
record (`NoteAwait`) says awaited, and the task still runs.

| code | model |
|---|---|
| `mode` of an OS thread inside `run_instrs` | `mode[f]`: run, await, rebind, drain, leak, call, done |
| `groups`, `group_depth` | `groups[f]` |
| `pending`, `values` | the same names; a value is named by the frame that computed it |
| `CancelToken` | `<<frame, n>>`; its flag is membership in `cancelled` |
| `fail_group` | `FailGroup`, `DrainJoin`, `DrainEnd` |
| `Diagnostic::task_group` | `Merge`: the set of primitive failures with their origin |
| `?` out of `run_instrs` | `Raise` without a try: `pending` dies, live threads become "detached" |

Expressions are one possible fault; values have no content but their origin.

### BoundedQueue and Channel

Every section under the channel's mutex is one action; waiting on the condition
variable is membership in `asleep`, `notify_all` empties it, `Spurious` wakes for
no reason, `Expire` passes a deadline. The refinement maps the shared
variables to themselves and forgets `asleep`, `late` and the call counter.

### Threads and Workers

Each step between two shared accesses is an action: `SpawnCheck` (the limit is
read), `SpawnCount` (the count is raised), `SpawnStart` (the body may already
run), `SpawnRegister` or `SpawnFails`; `JoinCached`, `JoinTake` (the handle is
taken and the lock dropped), `JoinDone`, `JoinConsumed`; `MainEnd` and the four
`Reap` actions. `knows` says which handles a thread has, since the language
gives no other way to name a thread. `Workers` adds a channel whose messages
may be handles, and lets a thread be inside one call at a time. A thread that
joins itself is left out. A failed body stands for an error, a cancellation, a
panic and an exit.

### HttpServer

A connection is in the backlog, in the acceptor's, a worker's, the poller's or
the shutdown's hands (`hold`), in the job queue, in the pool (`parked`) or in
the poller's batch (`batch`, `idle`).

| code | model |
|---|---|
| acceptor loop | `AcceptorChecks`, `AcceptorAccepts`, `AcceptorFails`, `AcceptorRechecks`, `AcceptorSends` |
| worker loop and `handle_http_conn` | `Recv`, `ReadRequest`, `ReadEnds`, `HandlerReturns`, `Write`, `Probe`, `Park` |
| `idle_poller_loop` | `PollerScans`, `PollerExamines`, `PollerSends`, `PollerPutsBack` |
| `http_stop` by the program or the end of the run | `StopCalled`, `StopWakes`, then `FinishShutdown` |
| `http_stop` by a handler | `HandlerStops`, `HandlerWakes`, `HandlerSpawns`, `HandlerStores`; the finisher runs `FinishShutdown` |
| `http_stop` by a thread a handler waits for | `HandlerDelegates`, `HandlerResumes` |
| `ServerState.accept` | `accept`: acceptor, a finisher or none |

A wake-up connection is the value `Wake`, already at end of file. The content of
a request is whether it is read and handed to the handler, or rejected. The
calls on the job queue are atomic, which `WorkersProofs!ChannelIsQueue`
justifies. The pool and the batch are sets: the order of the peeks is not
observable by the properties. One peek and the read of `running` before it are
one action, because no outcome depends on what happens between them.
Left out: a server whose start fails half-way (mod.rs:3762), panics of a worker
thread, `read_timeout_ms = 0` (a silent client then blocks a worker, and a
stop, for ever).

### VersionStore and Registry

One package. A connection is a slot of `req`, with the step its thread is at;
an instance that loads its index is another one. An action is one storage
operation or one section under a lock.

| code | model |
|---|---|
| `Server.index`, `Server.index_cache` | `index`, `cached`, per instance |
| archives, checksum sidecars, `index.json` or `index/<name>.json` | `archive`, `sidecar`, `doc` |
| publish on local disk | `Create`, `Write`, `Push`, `Snapshot`, `Save`, `Answer`; `Compare` when the version exists |
| publish on the bucket | `Head`, `Put`, `ReadBack`, `PutSidecar`, `Index`, `PutDoc`, `Invalidate` |
| `refresh_package_if_stale`, `load_b2_index` | `List`, `Meta`, `Repair`, `Heal`, `Install`, `Cache`, `Expire` |
| an I/O error, the death of the process, its restart | `Fault`, `Crash`, `RestartLocal`, `RestartB2` |

Three history variables record what the code cannot exclude: `contended`
(two publishers of different bytes found the version absent in the bucket) and
`disturbed` (on local disk, a publish that overlapped another, failed half-way
or died, until a publish that ends alone stores a list with it); `acked` is what
was answered with 200. The refinement maps an archive
to `stored`, a partial file to "nothing", and a contended version to
`Disputed`, for which `VersionStore` promises nothing.

### Versions, Resolver and Project

`Versions` gives each operator twice, as the range the code computes and as
what its documentation says. `Resolver` has one action per turn of the worklist
loop (`Turn`) and one per way in which it ends early (`SelfDependent`, `Conflict`,
`Unknown`); a history variable, `tried`, keeps every version that was ever pinned,
so that `Asked` is all that was required in the course of the resolution.
`Project` extends it: the resolution of a command is those very actions, and
everything else is one action per file operation or request (`Add`, `Fetch`,
`Remove`), so that `Crash`, `Publish` (a new version appears) and `Move` (a
version is served with other bytes) can come in between. A file operation may
fail (`ManifestUnwritten`, `ManifestUnrestored`, `LockUnrestored`, `VendorUnrestored`,
`UnvendorFails`, `UnlockFails`, and the failing writes of a fetch): what was being
written is left as that operation leaves it, a manifest possibly empty, and the
command goes on or returns as the code does. `unwritten` remembers the failures
that no rollback makes good. `klang.toml` is a
sequence of sections with sets of requirements, `klang.lock` a set of pins,
`.klang_pkgs` a function to the bytes or to `Partial`.

### Echo

The program is any: a body is a sequence of prints, calls of echo functions and
listens that ends. v2 has no loops, bounds the depth of its calls and catches
no error. A handle is a value: `handles[t]` are those a thread can reach, passed
on as arguments and inside results. (In the code it is a string; that a program
writes such a string itself is left out.) `table` is `global.handles`, `owner`
who keeps it locked. `Copy`, `Lock`, `Remove`, `Joined`, `Exit` are the end of a
run (v2.rs 405-440); bodies stop when the process does, which main.rs:2140
brings about. The lifetime checker `sema/echo_lifetime.rs` is called by tests
only, so the programs it would reject are in the model.

### Imports

Files are any functions to import lines and definitions (`Graphs`, `Contents`).
The walk takes one queued import at a time (`SkipWhole`, `MergeWhole`,
`MergeSelected`, `NoteAlias`, or `Unreadable`); then `ResolveAlias` takes one
edge at a time. A function is its file, name, whether it is a renamed copy, and
the calls through aliases it still has. Left out: imports of packages by their
bare name, `mod` blocks, calls inside an aliased file. `Missing` stands for a
file that does not parse, too.

### Builtins

150 builtins, in 14 groups, each with two tables: for each argument the types
`check_builtin_call` takes and the type of the call, and for each argument the
kinds of values that `exec_builtin` accepts and the kinds it returns. The same
for `check_method_call` and `exec_method`. The kind of a value is its variant in
`enum Value`. What depends on the content of an argument (a path that is not
there, an index out of bounds, a number that does not parse), the answers of the
operating system and the refusals of the sandbox are left out; so are the nine
internal `__echo_*`, `__tune_validate` and `__verify_validate`, which no checked
program can call.

### Mir, Syntax, Text, Checker, Values, Meaning, Backends

`Mir!Lower` is the lowering, with its patched jumps, generated names, the save
and restore around match arms and the slices of `try`. `Checker!Accepts` is what
`hir.rs` accepts of that language; `Values` what one operation does. `Meaning`
is the other side of the comparison, written from SPEC.md by structure: scopes,
outcomes, no instructions.

A text in `Syntax` is a sequence of tokens and line breaks, a parser a record with
a position, an error flag and the node it read last; each function of the source
is an operator from parser to parser. The constant `Terse` chooses who writes:
the formatter of the code (`Grammar` in `Text`), with parentheses around every
operator and no semicolons, or an author (`Author`), with semicolons and only
the parentheses that the precedence in SPEC.md asks for. `Text!Delivered` is the way
of a program that the checker accepts: the author's text is parsed, formatted and
parsed again. What comes out is lowered and run, while `Meaning` is that of the
program the author had in mind. A wrong precedence, a statement of an arm that the
parser drops or a parenthesis the formatter omits shows as a run that does
something else. `Backends` has the programs and what was delivered as constants,
which TLC computes before it starts. Each declaration of a struct or an enum is
the same in all programs and is taken through its text once.

In `Backends` a behaviour runs one accepted program
on the interpreter, an instruction a step, and then on the JIT where it
compiles it. A call of a builtin looks up the kinds in `Builtins`; its result is
exact for arrays and ints, and one value of its kind otherwise. `push`, `pop` and
`insert` change the variable they are given, and `exit` ends the program through
every `try`. Left out: strings, floats, maps and closures that a program writes
itself, method calls, tasks and stubs. These modules use recursion over syntax,
so they have no theorems.

## 3. Runs

| run | instance | question |
|---|---|---|
| `task_group` | 3 activations, 2 handles, 2 groups, nesting 2, five classes of programs | which tasks, failures, tokens and values can be lost, doubled or confused; does a drain end |
| `channel` | 3 threads, 2 calls each, capacity 2 | is a wake-up lost, is it a queue |
| `workers` | main and 2 workers, capacity 1, limits 1 and 2, spawns by main or by anyone; handles are shared only where main spawns | limit, joins, what is left at the end of the run, does the run end |
| `http_safety` | 2 clients, 2 requests, 2 workers, queue 1, accept queue 2, 2 stops by main, 1 by a handler, 1 accept error | owners, what the end of a run leaves, what stays unserved |
| `http_end` | the same with 1 client | does the stop end, is every request taken care of |
| `registry` | 2 connections, 2 instances, 2 versions, one of them with 2 archives, 3 publishes on disk or 2 on the bucket, 1 failure | is what is acknowledged, listed and stored the same |
| `registry_reads` | 2 connections, 1 instance, 1 publish | violates "so the next read is fresh" |
| `packages` | 2 packages, 3 version numbers, 4 registries, 2 commands, 1 publish or move, 1 crash or failing file operation | what is resolved, locked and installed |
| `echo` | 3 echo threads, 1 line | circles, lost threads, lines and failures, does the run end |
| `echo_returns` | 2 echo threads | violates "join any leaked echo threads ..., then report" |
| `imports` | every program of 3 files with up to 3 import lines | what is merged, when it fails, does it end |
| `backends` | 6843 programs, 2770 of them accepted | does the code do what the program means, read, formatted and read again, on both backends |

What the properties would catch:

* `HeldOnce`, `OkMeansJoined`: a JoinHandle overwritten, dropped or joined twice.
* `Lossless`, `CancelledNotAggregated`: the report of a failed group against
  what really failed, with the leak report as the one stand-in (section 4).
* `TokenIsInnermost`, `NoStaleValue`: state left behind by a control transfer.
* `DrainTerminates`: a drain that waits for a task nobody told to stop.
* `NoLostWakeup`, `ImplementsQueue`: the shared condition variable.
* `LimitHolds`, `JoinTruthful`, `OnlyCirclesOutliveRun`, `RunEnds`: spawn, join
  and reaping under races.
* `OwnedOnce`: two threads on one socket, or a socket forgotten open.
* `RunStopsServer`, `StopEnds`, `RequestAnswered`: the end of a run, of a stop and
  of a request.
* `AtMostOneUnserved`: the shutdown loses at most the connection the acceptor
  has in its hands, whatever else is under way.
* `Backed`, `RefreshSeesAcked`, `Durable`, `KeepsPromise`: phantom entries; a list
  that was begun after an acknowledgement and lacks the version; a version lost by
  a restart, also after a publish that ends alone has stored everything; a version
  that changes its bytes.
* `Sound`, `PicksMaximum`: requirements of versions that were taken back, or met
  after their package was pinned; a higher version passed over for something
  that nobody asked for.
* `Installed`, `AddAllOrNothing`, `NeverRepinned`: half-written packages, commands
  that are half undone although each of their writes worked, a locked version
  that gets another checksum at any write but the last one of a fetch.
* `NoCircularWait`, `NoneDetached`, `OutputKept`, `FailureNotLost`, `EndsUnlessLocked`:
  see section 1.
* `MergesWanted`, `FailsOnConflict`, `FlatCallsResolved`, `LoadEnds`: an item or
  error that depends on the order of the imports, an edge resolved too early, a
  circle that is walked for ever.
* `MeansSource`, `JitAgrees`, `NeverStuck`, `RunsDone`: a jump to the wrong place, a
  name restored too early, an error flag nobody looks at, a type error at run
  time.

## 4. What the code does not keep

Two runs show a disagreement as a violation:

* `echo_returns`: the comment at v2.rs:411-412 says that the end of a run joins
  the echo threads nobody listened to and "then" reports them. It joins them
  with the table locked (v2.rs:415-423), and a thread that calls an echo
  function or listens needs that lock: both wait for ever. `EndsUnlessLocked` is
  the part that holds.
* `registry_reads`: "publishes invalidate the entry immediately" (registry.rs:482-484)
  and "so the next read is fresh" (registry.rs:1496-1497). A refresh lists the
  archives (753), and installs and caches what it listed (788-798) without a look
  at what was published in between: a version that was answered with 200 is
  missing from reads until the 30 s of the cached list are over. The answer to a
  publish of bytes that are stored already does not invalidate at all.
  `RefreshSeesAcked` is the part that holds: it promises nothing for a list that
  was begun before the answer.

The others are kept as named conditions of properties that pass, or as
definitions that no run checks because they fail:

* **A frame that fails by itself** (assertion, trap, cancelled back-edge, task
  limit) drops its live JoinHandles (mod.rs:895), against "No detached tasks,
  ever" (SPEC.md:230): `TaskGroup!NoDetachedTask`.
* **Nested groups.** `fail_group` sets only the innermost flag (mod.rs:773) and
  `EnterGroup` makes a token that is not linked to the outer one: a sibling that
  loops inside a group of its own is joined for ever, against "failure drains
  always terminate" (SPEC.md:239-240). `DrainTerminates` is for programs without.
* **Awaits that are counted and do not happen.** The checker records that a handle
  is awaited where the text says so, against "HIR guarantees `pending` is empty here"
  (mod.rs:966): `TaskGroup!GroupsEndAwaited`, which holds for programs without the
  features `early` and `skip` (theorem `PlainGroupsEndAwaited`). The ways past it:
  an await before the spawn, `task_group { await a; let a = spawn f() }`, or among
  the arguments of the spawn itself; in the right operand of `&&` or `||`,
  `task_group { let a = spawn f(); let b = false && await a }` (hir.rs 2888-2918); in a
  match guard or arm (hir.rs 3234-3268); a name that is spawned again inside a
  branch or loop and awaited outside; a plain variable of the same name; a handle of
  an else branch that the list loses (hir.rs 1440-1475). All end in `LeaveGroup` with
  a live task. The leak path joins it, so no task is detached, but when the task
  failed, its failure is replaced by the leak report, against SPEC.md's lossless
  failures: `Lossless` counts the leak report for it in such programs, and nowhere
  else.
* **Jumps and try.** A token of a group that ended may stay the innermost one
  after a caught error or a `break` out of the group, so that a later back-edge
  reports a cancellation nobody asked for; with `try` an await may take a stale
  value.
* **Two concurrent joins** of one thread: the second fails with "already
  consumed", which "should not happen" (a2_threads.rs:340). It happens without
  sharing a handle, between a worker and the reaper: `Threads!NeverConsumed`.
* **Two spawning threads** can pass the limit check for one last place
  (`LimitHolds` is for one spawner). A worker that spawns after the reaper copied
  the registry, and workers that join each other, outlive the run
  (`OnlyCirclesOutliveRun`).
* **HTTP stop.** The acceptor closes a connection it accepted before the stop
  (mod.rs:3703): `HttpServer!EveryAcceptedServed`, of which `AtMostOneUnserved` is what
  remains. A stop by a handler hides the server from the reaper until the
  finisher is stored (`RunStopsServer`), and a handler that waits for a thread that
  stops the server waits for ever (`Circle`).
* **Registry, local disk.** Two saves may be written in the other order, and a
  publish that is repeated after a half-finished one is acknowledged without
  being listed: `disturbed`, until a publish that ends alone saves the index again;
  a restart before that loses the version from the list. **Bucket:** the check and the write are two requests,
  so two publishers of different bytes may both be told 200: `contended`.
* **Package client.** `klang install` resolves again although cli.rs:14 promises to
  reproduce the lock (registry.rs:2249): `Project!Reproducible`. `remove` forgets
  what a package that stays depends on (registry.rs:2772 against 2886-2894):
  `Project!RemoveKeepsNeeded`. A package may depend on itself through others,
  although resolver.rs:5-7 says cycles are refused: `Resolver!NoCycles`. A multi-add
  that is undone leaves the directories it vendored, against "leaves the project
  exactly as it found it" (registry.rs:2624-2626). Nor is it undone when a write
  fails: the edit of `klang.toml` truncates the file first and returns without a
  rollback (2744-2745), the writes of the rollback ignore their errors (2751-2766),
  and a lock that could not be read is removed: `unwritten`, the exception of
  `AddAllOrNothing`. A single `add` has no rollback. The last write of a fetch locks
  the checksum of the resolution: if the registry replaced the bytes in the meantime,
  it is not the one that was compared or vendored, the exception of `NeverRepinned`
  and `Installed`. A version that is passed over for a requirement which is gone later
  is not reconsidered: `PicksMaximum` counts all that was `Asked`. An
  `add` into a section that is missing appends at the end of the file. A
  conflict with a root that asks for "*" is not reported (resolver.rs:241-243). An
  offline fetch passes when pins of dependencies are missing.
* **Loader.** Calls inside renamed copies keep their alias
  (imports.rs:1311-1315), and so do those of a copy that a later edge adds after
  its own edges were resolved: `Imports!CopiesResolved`; `FlatCallsResolved` is about
  the functions that exist before the first edge. A diamond of whole and selective
  imports merges a type twice (imports.rs:21): `Imports!TypesOnce`. Two functions of
  one name in one file are no error (imports.rs:5 against `insert_fn` 1012):
  `Imports!DuplicatesAreErrors`. An alias of a bare package picks one of two
  functions of the same name.
* **Lowering and backends.** Collected as `quirks` by `Meaning`, or as `Reseeds`, and
  exempted from `MeansSource`, `NeverStuck` or `JitAgrees`:
  a variable named like a generated one (`t1`) is overwritten by it (mir 1466); a
  match arm that assigns an outer variable which another arm binds loses the
  assignment, and an error that leaves an arm leaves its binding behind (mir
  537-590; SPEC.md 139-153); a `let` in an inner block overwrites the outer variable
  (hir.rs:1421 against mir 543-546); operands are read by name when the operation
  runs, so that a later operand's assignment is seen, and `for` reads its array
  again on each turn; a function that falls off its end returns an Int whatever
  it declares; a store to an element of an element is lost (hir.rs:2124-2126); the
  JIT resets the value of the last expression whenever the first instruction
  runs again (jit.rs 833-842 against mod.rs:1674-1679). Outside the comparison:
  the JIT ignores the stub table; the comment at jit.rs:249-250 says that
  `i64::MIN % -1` is `Some(0)`, and both backends report E-OVERFLOW; equality of
  structs depends on the order of fields in the literals; the checker accepts an
  assignment to an element of a string, which fails at run time.
* **Formatter.** docs/getting-started.md:94-95: "formatted code re-parses to the same
  program", fmt.rs:3-5: "always correct". `fmt` drops the semicolons and the grammar
  does not see line ends, so a statement that begins with `(`, `[` or `-` is read as
  part of the line above: `let y = x; -y` as a block no longer parses, and a call
  on a line of its own with `-` in front becomes a subtraction. Such texts are
  `RunsOn` and the formatter is skipped for them. Outside the model: `(-x).f` and
  `(-a)[0]` lose their parentheses (fmt.rs 375-378), so that the sign applies to the
  field or element; a capitalised name before the brace of a `match` or an `if` is
  read as a struct literal (parser/mod.rs 2490-2497); an omitted return type is
  written as `-> void`, after which main.rs 2020-2025 reports another exit value;
  getting-started.md:96-98 says that comments are lost, and `fmt_source`
  re-attaches them (fmt.rs:7-8).
* *Builtins*: `int`, `float`, `http_json` and `json_stringify` take arguments of any
  type and refuse some at run time (`LenientRefuse`), and so do `repeat`, `pad_start`
  and `pad_end`, whose arguments the checker does not look at. A type variable is
  "a wildcard wherever a concrete type is required" (hir.rs 143-145), but
  `check_builtin_call` takes it only where it takes anything. The comment at
  runtime/mod.rs:76-77 says that only `tcp_accept_timeout` and `conn_read_line`
  produce null; `route_match`, `json_decode`, `recv_timeout` and others do, too.
  `abs`, `min` and `max` of an unknown type are an f64 for the checker and keep an int
  at run time (`KindsOf`).

## 5. Bounds

Where a bound is smaller than the code's, the theorems of section 7 say that a
property does not depend on it.

* *Task groups*: three activations give a group with two siblings, or a nested
  group with one; every divergence above needs no more. Two handles are the least
  for a re-binding next to a live handle; the limit of 256 tasks is 2 here, so
  that it is met. All program forms at once are too many states: five classes
  combine those that interact, among them awaits before the spawn with skipped ones; groups with both jumps and nesting are left to
  the theorems.
* *Channels and workers*: capacities 1 and 2 make full and empty queues frequent;
  three threads on a channel are the least for a wrong one to be woken; two
  workers the least for a thread with two joiners. Handles travel through the
  channel only where main does all the spawning; `JoinsAreTruthful` covers the rest.
* *HTTP*: two workers can meet on one connection; two requests let a connection be
  served, parked and served again; two clients are needed for "at most one".
* *Registry*: two instances and two connections, versions with different bytes, one
  failure or crash at any step; disk needs a third publish for a
  repeated one, and for one that ends alone and stores what a disturbed one left out.
* *Packages*: 6 turns of the resolver (`MaxTurns`; the code has 10 000) are enough
  for each registry to converge, to conflict or to run out of turns; one registry
  converges, one needs a pin to be taken back, one circles, one has a package that
  needs itself. Two commands, so that each meets what another left.
* *Echo*: three threads are the least for handles to travel past a thread.
* *Imports*: three files and three import lines give chains, diamonds and cycles,
  and each pair of import kinds on one file.
* *Backends*: ints are -4..3, `u8` is 0..2, the call depth is 2 (1024 in the code).
  Families, with the accepted and rejected programs among them: arithmetic 325,
  operators in operators 338, loops 432, try 729, match 2560, data 324, calls 121,
  calls of builtins 2014 (each builtin with one argument of each type in turn). A
  `for` over an array whose body pushes to it never ends in the interpreter, so
  there is none.

Identifiers, calls, requests, stops, failures, publishes and commands are finite
by the named constants (`MaxCalls`, `MaxOps`, `MaxRequests`, `MaxStops`, `MaxFaults`,
`Spare`, `MaxPublishes`, `MaxFailures`, `MaxCommands`, `MaxMoves`, `MaxBreaks`,
`MaxLines`).

Deadlock is checked for `TaskGroup`, where an execution that is over has a step of
its own. The other configurations say `CHECK_DEADLOCK FALSE`, because the system
really may stop: threads for good when a program never closes its channel or has
no more calls, a server that is left alone, a run or a load that is over. What must
not hang is stated as liveness instead.

## 6. Fairness

Only liveness properties use it. The next instruction of a thread that can run
is weakly fair, because the operating system schedules threads: joins whose
thread has ended, drains, woken threads, the reaper, the server's threads, the
end of an echo run. A task is expected to reach its end or a back-edge, as
SPEC.md states; a cancelled back-edge is then taken. Expiry of a deadline is
fair. Nobody owes a spurious wake-up, a new call, a client's request or an
explicit stop. A read of the server is fair because it has a timeout, and
handlers are assumed to return. Bodies of echo functions end because v2 has no
loops. The loader and the two backends are sequential: their next step is fair.
The registry and the package client state no liveness.

## 7. Proofs

The theorems hold for every value of the constants that the named assumptions
of the modules allow: any numbers of frames, threads, connections, instances,
packages, files; any bounds. The assumptions say that bounds are natural
numbers, that the different kinds of threads and special values are different,
that sets of threads and connections are finite where they are counted, and
that programs, registries and commands have their types. None of the theorems
uses fairness. Each inductive invariant was an invariant of a TLC run first.

All safety properties of the runs are theorems, except those of `Backends`. Of
these, the part of `NeverStuck` that is about builtins is proved for every builtin
and every list of argument types (`BuiltinsProofs`).

### TaskGroupProofs

`HeldOnce` alone is not inductive: that a new task is nobody else's needs that an
idle frame has no thread and a frame that is done holds nothing (`NotRunning`);
that a failing frame is the only one that drops handles needs the spawner of
each detached thread (`Abandoned`); a drain must remember a failure (`Blocked`).
`IInv` is their conjunction with the types, and gives `EachTaskHeldOnce` and
`OkReturnJoinsAll`; `TypeCorrect` adds the checker's position.

The other four are about programs without try (`TryFree`), where a failing frame
ends, so that each step is one of a few kinds. `FramesKeepTheirPlace` proves the
second invariant, `FrameInv`: the open blocks are the open groups and their
tokens the frame's own (`Shapes`); a live handle stores the last task bound to
it and an awaited value is that task's (`Values`); a live thread runs with a token
of its spawner, a callee with its caller's (`TokensFromAbove`); only a failing frame
cancels, and only its own token, so who ends as cancelled inherited a cancelled
token (`Cancels`). In programs without nesting, jumps, early and skipped awaits each
live handle is owed by the one group (`Owes`): no group is left with a live task
(`PlainGroupsEndAwaited`), and a joined failure is in its spawner's (`Tally`). From
these: `TokenOfInnermostGroup`, `AwaitGivesLastValue`, `CancelledStaysOut`, and
`FailureIsLossless`, which is `Lossless` for all programs without try: exact in the
plain ones, up to the leak report in the others.

### WorkersProofs

`ChanInvariant` is types, the queue within its capacity, "a pending send carries a
value", and `NoLostWakeup`: an action leaves queue and flag alone, or wakes
everybody. `ChannelIsQueue`: every step is a step of `BoundedQueue` or a stutter. The
fairness half of `ImplementsQueue` is model-checked.

`ThreadInvariant`: a cached result is that of a thread that is over
(`CachedTruthful`); two spawners never deal with the same worker (`SpawnsApart`);
whoever joins has a worker to join (`BusyWithWorker`); a taken handle has one
joiner (`SoleJoiner`). For programs that spawn from main only: the count is the
number of workers that run or are about to (`CountExact`), which needs who is at
which step of a spawn (`Roles`) and that nothing raises it between main's check
and main's increment (`RoomKept`), which gives `LimitIsKept`. `RunLeavesOnlyCircles`:
whoever was started is registered or about to be (`Registered`); the reaper drops
a worker from its list only once its handle is taken or its result cached
(`ReapsInOrder`, `Reaped`). Each worker left over is then joined by another one, and
none joins two, so by the pigeonhole principle every one of them is in a join of
another. `WorkersJoin`, `WorkersLoseNoWakeup`, `WorkersKeepLimit` carry all that to the
composition: a step of `Workers` is a step of one part that leaves the other alone,
or a channel call that hands over a handle.

### HttpServerProofs

`HttpInv` has three layers. Where each thread is and what it has in its hands
(`Stages`, `Hands`, and the parts about helpers, queues, pool and flags). Who took
the handles of the server from whom (`Chain`), and therefore which threads have
ended at each step of a shutdown (`Progress`, `Drained`). The connections: their
places are pairwise disjoint and together hold the open ones (`Sorted`), what is
past its first request was served (`Served`), and what waited at the time of the
stop leaves the accept queue during the drain (`Late`). Theorems `OwnedOnceAlways`,
`RunStopsServerAlways`, `AtMostOneUnservedAlways`, `HttpTypes`. TLC confirmed the
invariant on 1 280 371 states.

### RegistryProofs

`RegInv`: types and who is at which step; the two stores keep apart; what a list
says, in an instance, in the store or in the hands of a step, has stored bytes
behind it, unless the version is contended (`StoredFirst`, `Sidecars`, `AckedStored`,
`GoodLists`, `GoodOut`), and a list that is about to be installed covers what was
acknowledged when it was begun (`Knows`). It gives `ListsAreBacked`,
`RefreshesSeeAcked`, and `RegistryKeepsPromise`: the whole refinement of
`VersionStore`, initial states and steps. `LocalInv` adds for the local disk the order
of what an index remembers, a snapshot lists and the file has, while no two
publishes overlap: `AckedIsDurable`. That a publish which ends alone heals what
earlier ones disturbed is the lemma `SaveOrder`: no save is under way that could
put an older list over the one it has written.

### ProjectProofs

*Versions*: `OperatorsMeanRanges`, and that the order is total. *Resolver*:
`ResolveInvariant` keeps pins, constraints, metadata and worklist in step: every
constraint was asked by a root or by a pinned version's metadata, and a
package whose constraints changed is in the worklist; a version above a pin is
refused by something that was `Asked`. It gives `ResolveSound`,
`ResolvePicksMaximum`, `ResolveTypes`; each step has a lemma. *Project*:
`ProjectInvariant` adds what the files and the local variables hold while a command
works (`Files`, `Locals`, `Control`, `RolledBack`, `Locked`, `Fresh`), and the lemmas of the
resolver are used for the resolution inside a command: `ProjectSound`,
`ProjectPicksMaximum`, `ProjectAddAllOrNothing`, `ProjectNeverRepins`, `ProjectTypes`.
`ProjectInstalls` needs `Complete`, which is inductive next to it: a version keeps
its dependencies (`SameDeps`), a fetch starts from the roots of the manifest
(`FetchesRoots`), a package is vendored before it leaves the list of what is to do
(`Vendoring`), and when a command has succeeded the lock settles the manifest and
is vendored byte for byte (`Delivered`). TLC confirmed both on 2 602 876 states.

### EchoProofs

Handles only travel down a strict partial order of the threads that were
started, with the entry function on top (`Ordered`): a new thread can be put below
its parent and above all it is handed. The order forbids circles of listeners
(`EchoNoCircularWait`). With it a thread nobody waits for is found from any thread
that still runs (lemma `Extreme`), and `Owned` says the table has it: that gives
`EchoNoneDetached`, `EchoFailureNotLost` and, with `LateLinesLeak`, `EchoOutputKept`.

### ImportsProofs

`LoadInvariant`: every import line of a file that was opened is in the queue or
done, and nothing else is queued (`Followed`); what was opened is reached and what
was merged is asked for, one file for each name (`Justified`); a call through an
alias is spelled as such only until the turn of its edge (`Spelled`); `Phases` says
what the verdict means for the queue and the edges. When the queue is empty, the files read are
closed under imports, so they are the ones reached and nothing conflicts (lemma
`WalkIsOver`). Theorems `LoadMergesWanted`, `LoadFailsOnConflict`, `LoadResolvesFlatCalls`,
`LoadTypes`. TLC confirmed the invariant on 563 478 states.

### BuiltinsProofs

A row of the checker and a row of the interpreter agree when they have as many
arguments, each type taken has only kinds that run, and the result has the type
promised. That is one lemma for each of the 14 groups; no name is in two groups
(`OneGroup`), so the row of a builtin is that of its group (`RowOf`). From rows to
calls: `OnlyUnknownBlamed` says that in an accepted call only an argument of unknown
type can be of a kind that is refused, `CheckedCallsRun` that a call with known
types raises no error over kinds, `CallsConform` that the result is of the type the
checker gave the call, `LenientRefuse` that the four exceptions are real, and
`CheckedMethodsRun` the same for methods. The run `backends` puts the tables to use
between lowering and execution.

### Only model-checked

* Liveness, with its fairness: `DrainTerminates`, `RunEnds`, `StopEnds`, `RequestAnswered`,
  `EndsUnlessLocked`, `LoadEnds`, `RunsDone`, and the fairness of `ImplementsQueue`. The
  provers have neither ENABLED nor fairness.
* `MeansSource`, `JitAgrees`, `NeverStuck`: they speak about recursive operators over
  the syntax of programs, and what these compute for every program is an
  induction over data, which is out of the provers' reach.

## 8. Not modelled

* *Tokenizer, comments, the parsers of v2, echo and flow; blocking I/O builtins;
  repair, derive, contracts; command line, language server, query database*:
  sequential text processing and drivers without state shared between actors; the
  repository's tests cover them.
* *PostgreSQL client*: a protocol over one socket; its transaction states would be
  worth a module.
* *Async fetch pool*: a job that panics ends its worker, which nothing replaces
  (async_pool.rs:67). *Signals*: three independent flags.
* *Registry*: accounts and tokens, HTTP framing, download, search, deletion.
* *Package client*: parsing, list and init, the conflict report, two processes in
  one project (registry.rs:2021).
* *HTTP*: the bytes of a request; the body reader's count (mod.rs:3964).
* *Checker*: operators and literals of strings, floats and maps; closures, generics,
  effects.
* *Second interpreter*: its sequential evaluation, its static checks.

## 9. Plan

1. Done: all modules of section 2, their runs, and the theorems of section 7.
2. Next: lemmas about the operations of `Values` that need no recursion, in a
   module of their own that the recursive ones extend.
3. Candidates for modules: the fetch pool and the signals, both small; the
   transaction states of the PostgreSQL client; two clients in one project.
