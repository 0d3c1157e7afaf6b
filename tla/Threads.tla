------------------------------ MODULE Threads ------------------------------
(***************************************************************************)
(* The threads a program starts with `thread_spawn`: the spawn site of the *)
(* interpreter and the reaping at the end of a run                         *)
(* (src/src/runtime/mod.rs), the count of live threads and `thread_join`   *)
(* (src/src/stdlib/a2_threads.rs).  Each step between two shared accesses  *)
(* (the atomic count, the registry's lock, a handle's lock, the join of an *)
(* operating-system thread) is an action.                                  *)
(***************************************************************************)
EXTENDS Naturals, Sequences, FiniteSets, SequencesExt

CONSTANTS
    Main,       \* the thread that runs the program
    Worker,     \* the threads that can be spawned
    None,       \* no thread
    Limits,     \* values of KLANG_MAX_THREADS
    Spawners,   \* which sets of threads may call `thread_spawn`
    Sharing     \* whether programs pass handles to workers

Thread == Worker \union {Main}

ASSUME ThreadAssumption ==
    /\ Main \notin Worker /\ None \notin Thread
    /\ IsFiniteSet(Worker)
    /\ Limits \subseteq Nat \ {0}
    /\ Spawners \subseteq SUBSET Thread /\ Sharing \subseteq BOOLEAN

VARIABLES
    limit,      \* the configured maximum of live threads
    spawners,   \* the threads whose code calls `thread_spawn`
    shares,     \* a handle may be passed to a worker, as argument or message
    pc,         \* where a thread is, "unborn" before its spawn
    at,         \* the thread it is spawning or joining
    active,     \* ACTIVE_THREADS
    registry,   \* ExecCtx.threads
    handle,     \* ThreadState.handle: "none" (not made), "held" or "taken"
    result,     \* ThreadState.result, the cached one
    outcome,    \* how a thread's body ended
    knows,      \* the handles each thread has
    told,       \* what a thread's last join of another one returned
    todo        \* the handles the reaper still has to join

setup == <<limit, spawners, shares>>
threadVars == <<setup, pc, at, active, registry, handle, result, outcome, knows, told, todo>>

Outcome == {"ok", "failed"}
Stage == {"unborn", "run", "allowed", "counted", "started", "join", "reap", "reaping", "over"}

ThreadInit ==
    /\ limit \in Limits
    /\ spawners \in Spawners
    /\ shares \in Sharing
    /\ pc = [t \in Thread |-> IF t = Main THEN "run" ELSE "unborn"]
    /\ at = [t \in Thread |-> None]
    /\ active = 0
    /\ registry = <<>> /\ todo = <<>>
    /\ handle = [w \in Worker |-> "none"]
    /\ result = [w \in Worker |-> "none"]
    /\ outcome = [w \in Worker |-> "none"]
    /\ knows = [t \in Thread |-> {}]
    /\ told = [t \in Thread |-> [w \in Worker |-> "none"]]

-----------------------------------------------------------------------------
(* Helpers. *)

\* Thread `t` moves to stage `s`, busy with thread `w`.
Goto(t, s, w) ==
    /\ pc' = [pc EXCEPT ![t] = s]
    /\ at' = [at EXCEPT ![t] = w]

\* Workers whose body runs.
Live == {w \in Worker : pc[w] \notin {"unborn", "over"}}

Unborn == {w \in Worker : pc[w] = "unborn"} \ {at[t] : t \in Thread}

\* Bound: a spawn begins only while there is a worker left for it.
IdsLeft == Cardinality(Unborn) > Cardinality({t \in Thread : pc[t] = "allowed"})

\* Those blocked in `JoinHandle::join` of `w`.
Joining(w) == {t \in Thread : pc[t] \in {"join", "reaping"} /\ at[t] = w}

-----------------------------------------------------------------------------
(* thread_spawn. *)

\* Mutant: the limit is checked with <=.
SpawnCheckOffByOne(t) ==
    /\ pc[t] = "run" /\ t \in spawners
    /\ IdsLeft /\ active <= limit
    /\ Goto(t, "allowed", None)
    /\ UNCHANGED <<setup, active, registry, handle, result, outcome, knows, told, todo>>

\* `spawn_allowed` reads the count ...
SpawnCheck(t) ==
    /\ pc[t] = "run" /\ t \in spawners
    /\ IdsLeft /\ active < limit
    /\ Goto(t, "allowed", None)
    /\ UNCHANGED <<setup, active, registry, handle, result, outcome, knows, told, todo>>

\* ... and only later `inc_active` raises it, for the id just allocated.
SpawnCount(t) ==
    /\ pc[t] = "allowed"
    /\ \E w \in Unborn : Goto(t, "counted", w)
    /\ active' = active + 1
    /\ UNCHANGED <<setup, registry, handle, result, outcome, knows, told, todo>>

\* The operating system starts the thread: its body runs, with handles
\* among its arguments, before the parent has made its handle.
SpawnStart(t) ==
    /\ pc[t] = "counted"
    /\ pc' = [pc EXCEPT ![t] = "started", ![at[t]] = "run"]
    /\ \E args \in SUBSET (IF shares THEN knows[t] ELSE {}) :
          knows' = [knows EXCEPT ![at[t]] = args]
    /\ UNCHANGED <<setup, at, active, registry, handle, result, outcome, told, todo>>

\* The operating system refuses: the count is taken back.
SpawnFails(t) ==
    /\ pc[t] = "counted"
    /\ Goto(t, "run", None)
    /\ active' = active - 1
    /\ UNCHANGED <<setup, registry, handle, result, outcome, knows, told, todo>>

\* Mutant: the thread is not registered.
SpawnUnregistered(t) ==
    /\ pc[t] = "started"
    /\ Goto(t, "run", None)
    /\ handle' = [handle EXCEPT ![at[t]] = "held"]
    /\ knows' = [knows EXCEPT ![t] = @ \union {at[t]}]
    /\ UNCHANGED <<setup, active, registry, result, outcome, told, todo>>

\* The handle is made, registered for the end of the run and returned.
SpawnRegister(t) ==
    /\ pc[t] = "started"
    /\ Goto(t, "run", None)
    /\ handle' = [handle EXCEPT ![at[t]] = "held"]
    /\ registry' = Append(registry, at[t])
    /\ knows' = [knows EXCEPT ![t] = @ \union {at[t]}]
    /\ UNCHANGED <<setup, active, result, outcome, told, todo>>

-----------------------------------------------------------------------------
(* The end of a thread's body, by a value, an error or a panic; the guard  *)
(* that lowers the count is dropped with it.                               *)

Finish(t) ==
    /\ t \in Worker /\ pc[t] = "run"
    /\ Goto(t, "over", None)
    /\ \E o \in Outcome : outcome' = [outcome EXCEPT ![t] = o]
    /\ active' = active - 1
    /\ UNCHANGED <<setup, registry, handle, result, knows, told, todo>>

-----------------------------------------------------------------------------
(* thread_join.  A thread that joins itself is left out.                    *)

Told(t, w, answer) == told' = [told EXCEPT ![t][w] = answer]

\* A cached result is returned ...
JoinCached(t, w) ==
    /\ pc[t] = "run" /\ w \in knows[t] \ {t}
    /\ result[w] # "none"
    /\ Told(t, w, result[w])
    /\ UNCHANGED <<setup, pc, at, active, registry, handle, result, outcome, knows, todo>>

\* ... otherwise the handle is taken out, its lock released, and the thread
\* waits for the other one to end ...
JoinTake(t, w) ==
    /\ pc[t] = "run" /\ w \in knows[t] \ {t}
    /\ result[w] = "none" /\ handle[w] = "held"
    /\ handle' = [handle EXCEPT ![w] = "taken"]
    /\ Goto(t, "join", w)
    /\ UNCHANGED <<setup, active, registry, result, outcome, knows, told, todo>>

\* ... which leaves a window in which a second joiner finds neither handle
\* nor result, and fails.
JoinConsumed(t, w) ==
    /\ pc[t] = "run" /\ w \in knows[t] \ {t}
    /\ result[w] = "none" /\ handle[w] = "taken"
    /\ Told(t, w, "consumed")
    /\ UNCHANGED <<setup, pc, at, active, registry, handle, result, outcome, knows, todo>>

\* Mutant: the join does not wait.
JoinDoneEarly(t) ==
    /\ pc[t] = "join"
    /\ result' = [result EXCEPT ![at[t]] = "ok"]
    /\ Told(t, at[t], "ok")
    /\ Goto(t, "run", None)
    /\ UNCHANGED <<setup, active, registry, handle, outcome, knows, todo>>

\* The other thread has ended: its outcome is cached and returned.
JoinDone(t) ==
    /\ pc[t] = "join" /\ pc[at[t]] = "over"
    /\ result' = [result EXCEPT ![at[t]] = outcome[at[t]]]
    /\ Told(t, at[t], outcome[at[t]])
    /\ Goto(t, "run", None)
    /\ UNCHANGED <<setup, active, registry, handle, outcome, knows, todo>>

\* A handle comes with a message.
Learn(t, w) ==
    /\ pc[t] = "run" /\ shares /\ \E u \in Thread : w \in knows[u]
    /\ knows' = [knows EXCEPT ![t] = @ \union {w}]
    /\ UNCHANGED <<setup, pc, at, active, registry, handle, result, outcome, told, todo>>

-----------------------------------------------------------------------------
(* The end of the run. *)

\* The entry function has returned; the registry is copied.
MainEnd ==
    /\ pc[Main] = "run"
    /\ Goto(Main, "reap", None)
    /\ todo' = registry
    /\ UNCHANGED <<setup, active, registry, handle, result, outcome, knows, told>>

\* Each copied handle is joined in turn.  What somebody has joined, or is
\* joining, is passed over.
ReapTake ==
    /\ pc[Main] = "reap" /\ todo # <<>>
    /\ result[Head(todo)] = "none" /\ handle[Head(todo)] = "held"
    /\ handle' = [handle EXCEPT ![Head(todo)] = "taken"]
    /\ Goto(Main, "reaping", Head(todo))
    /\ UNCHANGED <<setup, active, registry, result, outcome, knows, told, todo>>

ReapSkip ==
    /\ pc[Main] = "reap" /\ todo # <<>>
    /\ result[Head(todo)] # "none" \/ handle[Head(todo)] = "taken"
    /\ todo' = Tail(todo)
    /\ UNCHANGED <<setup, pc, at, active, registry, handle, result, outcome, knows, told>>

ReapDone ==
    /\ pc[Main] = "reaping" /\ pc[at[Main]] = "over"
    /\ result' = [result EXCEPT ![at[Main]] = outcome[at[Main]]]
    /\ todo' = Tail(todo)
    /\ Goto(Main, "reap", None)
    /\ UNCHANGED <<setup, active, registry, handle, outcome, knows, told>>

ReapEnd ==
    /\ pc[Main] = "reap" /\ todo = <<>>
    /\ Goto(Main, "over", None)
    /\ UNCHANGED <<setup, active, registry, handle, result, outcome, knows, told, todo>>

-----------------------------------------------------------------------------
(* Specification. *)

\* What a thread's code calls, and what goes on inside the call.
Operation(t) == SpawnCheck(t) \/ \E w \in Worker : JoinCached(t, w) \/ JoinTake(t, w) \/ JoinConsumed(t, w)
Inside(t) == SpawnCount(t) \/ SpawnStart(t) \/ SpawnFails(t) \/ SpawnRegister(t) \/ JoinDone(t)
EndOfRun == MainEnd \/ ReapTake \/ ReapSkip \/ ReapDone \/ ReapEnd

ThreadNext ==
    \/ \E t \in Thread : Operation(t) \/ Inside(t) \/ Finish(t)
    \/ \E t \in Thread, w \in Worker : Learn(t, w)
    \/ EndOfRun

ThreadSpec == ThreadInit /\ [][ThreadNext]_threadVars

-----------------------------------------------------------------------------
(* Properties. *)

\* At most `limit` threads live, as long as one thread does all the
\* spawning: the check and the count are two steps, and two spawners can
\* both pass the check for the last place.
LimitHolds == spawners = {Main} => active <= limit

\* A join that returns a result returns the thread's own, after its end,
\* whoever joined first and whatever was cached.
JoinTruthful ==
    \A t \in Thread, w \in Worker :
        told[t][w] \in Outcome => pc[w] = "over" /\ told[t][w] = outcome[w]

\* A handle that was taken is in the hands of exactly one joiner until the
\* result is cached, so "already consumed" is only ever said while somebody
\* is waiting for that very thread.
OneJoiner ==
    \A w \in Worker :
        IF handle[w] = "taken" /\ result[w] = "none" THEN Cardinality(Joining(w)) = 1
                                                      ELSE Joining(w) = {}

\* "No handle and no cached result (should not happen ...)" (the comment at
\* the end of thread_join): nobody who joins a thread is told that it was
\* consumed; a second join gets what the first one got.
NeverConsumed == \A t \in Thread, w \in Worker : told[t][w] # "consumed"

\* When main does all the spawning, the reaper joins a thread or waits for
\* one that joins it, so all that can outlive the run are threads that wait
\* for each other in a circle of joins.
OnlyCirclesOutliveRun ==
    spawners = {Main} /\ pc[Main] = "over" => \A w \in Live : pc[w] = "join" /\ at[w] \in Live

=============================================================================
