----------------------------- MODULE TaskGroup -----------------------------
(***************************************************************************)
(* Structured concurrency of the Klang interpreter                         *)
(* (src/src/runtime/mod.rs): `task_group`, `spawn`, `await`, cooperative   *)
(* cancellation, `try/catch`, `return`, `break` and `exit()`.              *)
(*                                                                         *)
(* An activation ("frame") is one run of exec_function.  A frame is either *)
(* called (it runs on its caller's thread) or spawned (it has a thread of  *)
(* its own, whose JoinHandle its spawner keeps in the `pending` map).      *)
(* The module does not fix a program: in each step a running frame may     *)
(* execute any statement that the static checker (src/src/hir.rs,          *)
(* check_block) lets stand at that point, so a behaviour is an execution   *)
(* of some checked program.  `features` is the class of that program.      *)
(***************************************************************************)
EXTENDS Naturals, SequencesExt

CONSTANTS
    Frames,     \* activations a behaviour may use
    Root,       \* the activation of the entry function
    None,       \* "no frame"
    MaxHandle,  \* bound: handle names a frame may bind, 1..MaxHandle, in sort order
    Limit,      \* MAX_CONCURRENT_TASKS (256 in the code)
    MaxGroups,  \* bound: groups one frame may enter
    MaxScope,   \* bound: syntactic nesting of group, try and catch blocks
    Classes     \* classes of programs to consider, each a subset of AllFeatures

(* nest:  groups inside groups, or in functions run by a group's task      *)
(* try:   try/catch          jump:  break, continue, early return          *)
(* call:  plain calls        exit:  exit(n)                                *)
(* own:   a frame may itself fail while it still holds live tasks          *)
(* early: an await that comes before a spawn counts for it: it stands in a  *)
(*        block that is still open, around the branch or loop the spawn is  *)
(*        in, or in the arguments of the spawn, or awaits a plain variable  *)
(*        that has the handle's name                                       *)
(* skip:  an await counts though the run does not execute it: it stands in  *)
(*        the right operand of && or ||, or in a match arm or guard         *)
AllFeatures == {"nest", "try", "jump", "call", "exit", "own", "early", "skip"}

ASSUME FramesAssumption == Root \in Frames /\ None \notin Frames
ASSUME BoundsAssumption ==
    /\ MaxHandle \in Nat /\ Limit \in Nat
    /\ MaxGroups \in Nat /\ MaxScope \in Nat
ASSUME ClassesAssumption == Classes \subseteq SUBSET AllFeatures

Handles == 1..MaxHandle

(* A CancelToken is named by the frame that created it and a number; number *)
(* 0 of Root is the default token the entry function is run with.           *)
Tokens == Frames \X (0..MaxGroups)
RootToken == <<Root, 0>>

(* A result: "ok", or the code of a Diagnostic and the primitive failures   *)
(* it carries (itself, or those under `related`), each with its origin.     *)
LeafCodes == {"fault", "cancelled", "exit", "leak"}
Codes == LeafCodes \cup {"ok", "group"}
Results == [code : Codes, leaves : SUBSET (LeafCodes \X Frames)]
Ok == [code |-> "ok", leaves |-> {}]
Primitive(c, f) == [code |-> c, leaves |-> {<<c, f>>}]

(* Diagnostic::task_group: two failures make one E-TASK-GROUP diagnostic.   *)
Merge(d, e) == [code |-> "group", leaves |-> d.leaves \cup e.leaves]

NoToken == <<None, 0>>
Blocks == [kind : {"group", "try", "catch"}, tok : Tokens \cup {NoToken},
           list : Seq(Handles), from : Nat, awaited : SUBSET Handles,
           before : SUBSET Handles]
Block(k, t, n, v) ==
    [kind |-> k, tok |-> t, list |-> <<>>, from |-> n, awaited |-> {}, before |-> v]

VARIABLES
    features,   \* what the program uses; it never changes
    mode,       \* what each frame is doing (see Modes)
    at,         \* the handle an await or a re-binding spawn is joining, or 0
    inherited,  \* the `parent` token exec_function was given
    groups,     \* the `groups` stack of tokens; its length is group_depth
    entered,    \* groups entered so far (names the next token)
    scope,      \* syntactic position and what the checker knows there: the open
                \*   blocks, each with the handles a group has spawned (list), how
                \*   many its group had when a try region began (from), the names
                \*   awaited in it, and the handles visible before it
    visible,    \* the handles whose binding is in (lexical) scope
    bound,      \* the task last spawned under each handle
    values,     \* the frame whose result `values` stores for each handle
    pending,    \* the `pending` map: handle -> frame whose thread it holds
    failure,    \* fail_group's accumulated failures
    outcome,    \* what exec_function returned
    thread,     \* the fate of each frame's OS thread (see Threads)
    spawner,    \* the frame that spawned or called a frame
    cancelled,  \* tokens whose flag is set
    caught      \* codes of the primitive failures catch handlers have swallowed

vars == <<features, mode, at, inherited, groups, entered, scope, visible, bound,
          values, pending, failure, outcome, thread, spawner, cancelled, caught>>

(* What a frame keeps besides its control state: its locals, which die with *)
(* it, and what was fixed when it started.                                  *)
locals == <<groups, visible, bound, values>>
started == <<inherited, entered, spawner>>

Modes == {"idle", "run", "await", "rebind", "drain", "leak", "call", "done"}
Threads == {"none", "call", "live", "joined", "detached"}

NoPending == [h \in Handles |-> None]
Held(p) == {h \in Handles : p[h] # None}
Smallest(S) == CHOOSE h \in S : \A k \in S : h <= k

Init ==
    /\ features \in Classes
    /\ mode = [f \in Frames |-> IF f = Root THEN "run" ELSE "idle"]
    /\ at = [f \in Frames |-> 0]
    /\ inherited = [f \in Frames |-> RootToken]
    /\ groups = [f \in Frames |-> <<>>]
    /\ entered = [f \in Frames |-> 0]
    /\ scope = [f \in Frames |-> <<>>]
    /\ visible = [f \in Frames |-> {}]
    /\ bound = [f \in Frames |-> NoPending]
    /\ values = [f \in Frames |-> NoPending]
    /\ pending = [f \in Frames |-> NoPending]
    /\ failure = [f \in Frames |-> Ok]
    /\ outcome = [f \in Frames |-> Ok]
    /\ thread = [f \in Frames |-> IF f = Root THEN "call" ELSE "none"]
    /\ spawner = [f \in Frames |-> None]
    /\ cancelled = {}
    /\ caught = {}

(* Innermost group token, else the inherited one.                           *)
Current(f) == IF groups[f] = <<>> THEN inherited[f] ELSE groups[f][Len(groups[f])]

Top(f) == scope[f][Len(scope[f])]
InGroup(f) == \E i \in 1..Len(scope[f]) : scope[f][i].kind = "group"

(* The group_stack entry that a spawn or a try region consults.             *)
Innermost(f) ==
    LET G == {i \in 1..Len(scope[f]) : scope[f][i].kind = "group"}
    IN CHOOSE i \in G \cup {0} : \A j \in G : j <= i
List(f) == IF InGroup(f) THEN scope[f][Innermost(f)].list ELSE <<>>

(* check_block's awaited_here of the innermost open block.                  *)
NoteAwait(f, h) ==
    scope' = IF scope[f] = <<>> THEN scope
             ELSE [scope EXCEPT ![f][Len(scope[f])].awaited = @ \cup {h}]

(* The handles of an open group that no block inside it has awaited.        *)
Owed(f) ==
    {h \in Handles :
        \E i \in 1..Len(scope[f]) :
            /\ h \in Range(scope[f][i].list)
            /\ \A j \in i..Len(scope[f]) : h \notin scope[f][j].awaited}

----------------------------------------------------------------------------
(* Leaving a frame.                                                         *)

(* exec_function returns d: its locals are dropped, and dropping a handle   *)
(* that is still in the pending map detaches the thread.  th is the thread  *)
(* table after the joins of the same step.                                  *)
End(f, d, th) ==
    /\ mode' = [mode EXCEPT ![f] = "done"]
    /\ outcome' = [outcome EXCEPT ![f] = d]
    /\ thread' = [c \in Frames |->
                    IF th[c] = "live" /\ \E h \in Handles : pending[f][h] = c
                    THEN "detached" ELSE th[c]]
    /\ pending' = [pending EXCEPT ![f] = NoPending]
    /\ groups' = [groups EXCEPT ![f] = <<>>]
    /\ visible' = [visible EXCEPT ![f] = {}]
    /\ bound' = [bound EXCEPT ![f] = NoPending]
    /\ values' = [values EXCEPT ![f] = NoPending]
    /\ scope' = [scope EXCEPT ![f] = <<>>]
    /\ UNCHANGED caught

Tries(f) == {i \in 1..Len(scope[f]) : scope[f][i].kind = "try"}
Catchable(d) == d.code \notin {"cancelled", "exit"}

(* An Err inside run_instrs: the innermost try body hands it to its handler *)
(* (groups, group_depth and pending stay as they are), except cancellation  *)
(* and exit; without a try the frame ends.                                  *)
Raise(f, d, th) ==
    /\ IF Catchable(d) /\ Tries(f) # {}
       THEN LET i == CHOOSE i \in Tries(f) : \A j \in Tries(f) : j <= i
            IN /\ mode' = [mode EXCEPT ![f] = "run"]
               /\ scope' = [scope EXCEPT ![f] =
                               Append(SubSeq(@, 1, i - 1),
                                      Block("catch", NoToken,
                                            Len(List(f)), @[i].before))]
               /\ visible' = [visible EXCEPT ![f] = scope[f][i].before]
               /\ caught' = caught \cup {l[1] : l \in d.leaves}
               /\ thread' = th
               /\ UNCHANGED <<pending, outcome, groups, bound, values>>
       ELSE End(f, d, th)
    /\ failure' = [failure EXCEPT ![f] = Ok]
    /\ at' = [at EXCEPT ![f] = 0]
    /\ UNCHANGED <<started, cancelled>>

----------------------------------------------------------------------------
(* Blocks.                                                                  *)

EnterGroup(f) ==
    /\ mode[f] = "run"
    /\ entered[f] < MaxGroups /\ Len(scope[f]) < MaxScope
    /\ \/ "nest" \in features
       \/ groups[f] = <<>> /\ inherited[f] = RootToken
    /\ LET t == <<f, entered[f] + 1>>
       IN /\ groups' = [groups EXCEPT ![f] = Append(@, t)]
          /\ scope' = [scope EXCEPT ![f] = Append(@, Block("group", t, 0, visible[f]))]
    /\ entered' = [entered EXCEPT ![f] = @ + 1]
    /\ UNCHANGED <<mode, at, inherited, visible, bound, values, pending, failure,
                   outcome, thread, spawner, cancelled, caught>>

(* The end of a group: what it awaited counts as awaited around it.         *)
Outward(s) ==
    IF Len(s) = 1 THEN <<>>
    ELSE [Front(s) EXCEPT ![Len(s) - 1].awaited = @ \cup s[Len(s)].awaited]

(* Mutant: the end of a group leaves its token on the stack.                *)
LeaveGroupKeepsToken(f) ==
    /\ mode[f] = "run"
    /\ scope[f] # <<>> /\ Top(f).kind = "group"
    /\ Range(Top(f).list) \subseteq Top(f).awaited
    /\ groups' = groups
    /\ scope' = [scope EXCEPT ![f] = Outward(@)]
    /\ mode' = [mode EXCEPT ![f] = IF Held(pending[f]) = {} THEN @ ELSE "leak"]
    /\ UNCHANGED <<at, started, visible, bound, values, pending, failure, outcome,
                   thread, cancelled, caught>>

(* The checker lets a group end only after each of its handles is awaited.  *)
(* The pending map is the frame's: it also holds the outer groups' handles. *)
LeaveGroup(f) ==
    /\ mode[f] = "run"
    /\ scope[f] # <<>> /\ Top(f).kind = "group"
    /\ Range(Top(f).list) \subseteq Top(f).awaited
    /\ groups' = [groups EXCEPT ![f] = IF @ = <<>> THEN @ ELSE Front(@)]
    /\ scope' = [scope EXCEPT ![f] = Outward(@)]
    /\ mode' = [mode EXCEPT ![f] = IF Held(pending[f]) = {} THEN @ ELSE "leak"]
    /\ UNCHANGED <<at, started, visible, bound, values, pending, failure, outcome,
                   thread, cancelled, caught>>

EnterTry(f) ==
    /\ "try" \in features
    /\ mode[f] = "run" /\ Len(scope[f]) < MaxScope
    /\ scope' = [scope EXCEPT ![f] = Append(@, Block("try", NoToken, Len(List(f)), visible[f]))]
    /\ UNCHANGED <<mode, at, started, locals, pending, failure, outcome, thread,
                   cancelled, caught>>

(* The end of a try body or of a handler: what it spawned it has awaited.   *)
LeaveTry(f) ==
    /\ mode[f] = "run"
    /\ scope[f] # <<>> /\ Top(f).kind \in {"try", "catch"}
    /\ \A i \in (Top(f).from + 1)..Len(List(f)) : List(f)[i] \in Top(f).awaited
    /\ scope' = [scope EXCEPT ![f] = Front(@)]
    /\ visible' = [visible EXCEPT ![f] = Top(f).before]
    /\ UNCHANGED <<mode, at, started, groups, bound, values, pending, failure,
                   outcome, thread, cancelled, caught>>

(* break or continue of a loop around the innermost group(s): a jump past   *)
(* LeaveGroup.  A loop cannot be left from inside a try region.             *)
Break(f) ==
    /\ "jump" \in features
    /\ mode[f] = "run" /\ scope[f] # <<>> /\ Top(f).kind = "group"
    /\ scope' = [scope EXCEPT ![f] = Front(@)]
    /\ visible' = [visible EXCEPT ![f] = Top(f).before]
    /\ UNCHANGED <<mode, at, started, groups, bound, values, pending, failure,
                   outcome, thread, cancelled, caught>>

----------------------------------------------------------------------------
(* spawn and await.                                                         *)

(* retain: the entry of h, of which there is at most one, leaves the list.  *)
Dropped(s, h) ==
    IF h \in Range(s) THEN RemoveAt(s, CHOOSE i \in DOMAIN s : s[i] = h) ELSE s

(* A new thread runs frame c in f's current group, bound to handle h.       *)
Start(f, h, c) ==
    /\ mode[c] = "idle"
    /\ mode' = [mode EXCEPT ![f] = "run", ![c] = "run"]
    /\ inherited' = [inherited EXCEPT ![c] = Current(f)]
    /\ spawner' = [spawner EXCEPT ![c] = f]
    /\ thread' = [thread EXCEPT ![c] = "live"]
    /\ pending' = [pending EXCEPT ![f][h] = c]
    /\ visible' = [visible EXCEPT ![f] = @ \cup {h}]
    /\ bound' = [bound EXCEPT ![f][h] = c]
    /\ LET again == h \in Range(List(f))
           noted == [scope EXCEPT ![f][Innermost(f)].list = Append(Dropped(@, h), h)]
       IN \/ scope' = IF again
                      THEN [noted EXCEPT ![f][Len(scope[f])].awaited = @ \ {h}]
                      ELSE noted
          \/ "early" \in features /\ scope' = noted

(* The checker's discipline: a handle of the innermost group is bound again *)
(* only after this block awaited it; but `continue` may come back to a      *)
(* spawn whose await it passed over.  Stale: an await that came before the  *)
(* spawn, in a block that is still open, will count for the new task.       *)
Stale(f, h) ==
    \E i \in Innermost(f)..Len(scope[f]) :
        /\ h \in scope[f][i].awaited
        /\ i < Len(scope[f]) \/ h \notin Range(List(f))
MaySpawn(f, h) ==
    /\ mode[f] = "run" /\ InGroup(f)
    /\ h \in Range(List(f)) => h \in Top(f).awaited \/ "jump" \in features
    /\ "early" \in features \/ ~Stale(f, h)
AtLimit(f) == Cardinality(Held(pending[f])) >= Limit

(* Mutant: insert() overwrites a live handle.                               *)
SpawnOverwrites(f, h) ==
    /\ MaySpawn(f, h) /\ ~AtLimit(f)
    /\ \E c \in Frames : Start(f, h, c)
    /\ UNCHANGED <<at, groups, entered, values, failure, outcome, cancelled,
                   caught>>

Spawn(f, h) ==
    /\ MaySpawn(f, h) /\ ~AtLimit(f) /\ pending[f][h] = None
    /\ \E c \in Frames : Start(f, h, c)
    /\ UNCHANGED <<at, groups, entered, values, failure, outcome, cancelled,
                   caught>>

SpawnAtLimit(f, h) ==
    /\ MaySpawn(f, h) /\ AtLimit(f) /\ "own" \in features
    /\ Raise(f, Primitive("fault", f), thread)

(* The handle still holds a live task: join that task first.                *)
SpawnRebind(f, h) ==
    /\ MaySpawn(f, h) /\ ~AtLimit(f) /\ pending[f][h] # None
    /\ mode' = [mode EXCEPT ![f] = "rebind"]
    /\ at' = [at EXCEPT ![f] = h]
    /\ UNCHANGED <<started, locals, scope, pending, failure, outcome, thread, cancelled,
                   caught>>

(* await of a live handle blocks in join; of one with a stored value it is  *)
(* idempotent; of one that has neither it is E-TASK-CANCEL.                 *)
MayAwait(f, h) == mode[f] = "run" /\ h \in visible[f] /\ InGroup(f)

Await(f, h) ==
    /\ MayAwait(f, h) /\ pending[f][h] # None
    /\ mode' = [mode EXCEPT ![f] = "await"]
    /\ at' = [at EXCEPT ![f] = h]
    /\ UNCHANGED <<started, locals, scope, pending, failure, outcome, thread, cancelled,
                   caught>>

AwaitStored(f, h) ==
    /\ MayAwait(f, h) /\ pending[f][h] = None /\ values[f][h] # None
    /\ NoteAwait(f, h)
    /\ UNCHANGED <<mode, at, started, locals, pending, failure, outcome, thread,
                   cancelled, caught>>

(* An await the checker counts and the run does not wait for: it is skipped, *)
(* or its name is (still) that of a plain variable, whose value it takes.    *)
AwaitCounted(f, h) ==
    /\ mode[f] = "run" /\ InGroup(f)
    /\ \/ "skip" \in features /\ h \in visible[f]
       \/ "early" \in features /\ h \notin visible[f]
    /\ NoteAwait(f, h)
    /\ UNCHANGED <<mode, at, started, locals, pending, failure, outcome, thread,
                   cancelled, caught>>

AwaitMissing(f, h) ==
    /\ MayAwait(f, h) /\ pending[f][h] = None /\ values[f][h] = None
    /\ Raise(f, Primitive("leak", f), thread)

(* Mutant: no token is cancelled.                                          *)
FailGroupSilently(f, d) ==
    /\ cancelled' = cancelled
    /\ failure' = [failure EXCEPT ![f] = d]
    /\ mode' = [mode EXCEPT ![f] = "drain"]

(* fail_group: cancel the current token, then drain what is pending.        *)
FailGroup(f, d) ==
    /\ cancelled' = cancelled \cup {Current(f)}
    /\ failure' = [failure EXCEPT ![f] = d]
    /\ mode' = [mode EXCEPT ![f] = "drain"]

Joinable(f, h) == pending[f][h] # None /\ mode[pending[f][h]] = "done"
Joined(f, h) == [thread EXCEPT ![pending[f][h]] = "joined"]

(* Mutant: a value already stored for the handle is kept.                   *)
AwaitJoinKeepsValue(f) ==
    /\ mode[f] = "await"
    /\ LET h == at[f]
           r == outcome[pending[f][h]]
       IN /\ Joinable(f, h)
          /\ thread' = Joined(f, h)
          /\ pending' = [pending EXCEPT ![f][h] = None]
          /\ at' = [at EXCEPT ![f] = 0]
          /\ IF r.code = "ok"
             THEN /\ mode' = [mode EXCEPT ![f] = "run"]
                  /\ values' = [values EXCEPT ![f][h] =
                                        IF @ = None THEN pending[f][h] ELSE @]
                  /\ NoteAwait(f, h)
                  /\ UNCHANGED <<cancelled, failure>>
             ELSE FailGroup(f, r) /\ UNCHANGED <<values, scope>>
    /\ UNCHANGED <<started, groups, visible, bound, outcome, caught>>

AwaitJoin(f) ==
    /\ mode[f] = "await"
    /\ LET h == at[f]
           r == outcome[pending[f][h]]
       IN /\ Joinable(f, h)
          /\ thread' = Joined(f, h)
          /\ pending' = [pending EXCEPT ![f][h] = None]
          /\ at' = [at EXCEPT ![f] = 0]
          /\ IF r.code = "ok"
             THEN /\ mode' = [mode EXCEPT ![f] = "run"]
                  /\ values' = [values EXCEPT ![f][h] = pending[f][h]]
                  /\ NoteAwait(f, h)
                  /\ UNCHANGED <<cancelled, failure>>
             ELSE FailGroup(f, r) /\ UNCHANGED <<values, scope>>
    /\ UNCHANGED <<started, groups, visible, bound, outcome, caught>>

RebindJoin(f) ==
    /\ mode[f] = "rebind" /\ Joinable(f, at[f])
    /\ LET h == at[f]
           r == outcome[pending[f][h]]
       IN /\ thread' = Joined(f, h)
          /\ pending' = [pending EXCEPT ![f][h] = None]
          /\ IF r.code = "ok"
             THEN UNCHANGED <<mode, at, cancelled, failure>>
             ELSE FailGroup(f, r) /\ at' = [at EXCEPT ![f] = 0]
    /\ UNCHANGED <<started, locals, scope, outcome, caught>>

RebindStart(f) ==
    /\ mode[f] = "rebind" /\ pending[f][at[f]] = None
    /\ \/ /\ \E c \in Frames : Start(f, at[f], c)
          /\ at' = [at EXCEPT ![f] = 0]
          /\ UNCHANGED <<groups, entered, values, failure, outcome, cancelled,
                         caught>>
       \/ Raise(f, Primitive("fault", f), thread)   \* the OS refuses the thread

(* Mutants: later failures are dropped; cancelled siblings are kept.        *)
DrainJoinDrops(f) ==
    /\ mode[f] = "drain" /\ Held(pending[f]) # {}
    /\ LET h == Smallest(Held(pending[f]))
       IN /\ Joinable(f, h)
          /\ thread' = Joined(f, h)
          /\ pending' = [pending EXCEPT ![f][h] = None]
    /\ UNCHANGED <<failure, mode, at, started, locals, scope, outcome, cancelled, caught>>

DrainJoinKeepsCancelled(f) ==
    /\ mode[f] = "drain" /\ Held(pending[f]) # {}
    /\ LET h == Smallest(Held(pending[f]))
           r == outcome[pending[f][h]]
       IN /\ Joinable(f, h)
          /\ thread' = Joined(f, h)
          /\ pending' = [pending EXCEPT ![f][h] = None]
          /\ failure' = [failure EXCEPT ![f] =
                            IF r.code = "ok" THEN @ ELSE Merge(@, r)]
    /\ UNCHANGED <<mode, at, started, locals, scope, outcome, cancelled, caught>>

(* The joins of fail_group, in sorted handle order.                         *)
DrainJoin(f) ==
    /\ mode[f] = "drain" /\ Held(pending[f]) # {}
    /\ LET h == Smallest(Held(pending[f]))
           r == outcome[pending[f][h]]
       IN /\ Joinable(f, h)
          /\ thread' = Joined(f, h)
          /\ pending' = [pending EXCEPT ![f][h] = None]
          /\ failure' = [failure EXCEPT ![f] =
                            IF r.code \in {"ok", "cancelled"} THEN @ ELSE Merge(@, r)]
    /\ UNCHANGED <<mode, at, started, locals, scope, outcome, cancelled, caught>>

DrainEnd(f) ==
    /\ mode[f] = "drain" /\ Held(pending[f]) = {}
    /\ Raise(f, failure[f], thread)

(* The joins of LeaveGroup and Return when tasks are still live: the        *)
(* results are discarded and E-TASK-CANCEL is returned.                     *)
LeakJoin(f) ==
    /\ mode[f] = "leak" /\ Held(pending[f]) # {}
    /\ LET h == Smallest(Held(pending[f]))
       IN /\ Joinable(f, h)
          /\ thread' = Joined(f, h)
          /\ pending' = [pending EXCEPT ![f][h] = None]
    /\ UNCHANGED <<mode, at, started, locals, scope, failure, outcome, cancelled, caught>>

LeakEnd(f) ==
    /\ mode[f] = "leak" /\ Held(pending[f]) = {}
    /\ Raise(f, Primitive("leak", f), thread)

----------------------------------------------------------------------------
(* Calls, failures and ends.                                                *)

(* call_value: the callee runs on the caller's thread, in its group.        *)
Call(f) ==
    /\ "call" \in features
    /\ mode[f] = "run"
    /\ "own" \in features \/ Held(pending[f]) = {}
    /\ \E c \in Frames :
          /\ mode[c] = "idle"
          /\ mode' = [mode EXCEPT ![f] = "call", ![c] = "run"]
          /\ inherited' = [inherited EXCEPT ![c] = Current(f)]
          /\ spawner' = [spawner EXCEPT ![c] = f]
          /\ thread' = [thread EXCEPT ![c] = "call"]
    /\ UNCHANGED <<at, entered, locals, scope, pending, failure, outcome,
                   cancelled, caught>>

CallReturn(f) ==
    /\ mode[f] = "call"
    /\ \E c \in Frames :
          /\ spawner[c] = f /\ thread[c] = "call" /\ mode[c] = "done"
          /\ LET th == [thread EXCEPT ![c] = "joined"]
             IN IF outcome[c].code = "ok"
                THEN /\ mode' = [mode EXCEPT ![f] = "run"]
                     /\ thread' = th
                     /\ UNCHANGED <<at, started, locals, scope, pending, failure,
                                    outcome, cancelled, caught>>
                ELSE Raise(f, outcome[c], th)

(* Any other statement that fails: a failed assert, an overflow, a panic.   *)
Fault(f) ==
    /\ mode[f] = "run"
    /\ "own" \in features \/ Held(pending[f]) = {}
    /\ Raise(f, Primitive("fault", f), thread)

Exit(f) ==
    /\ "exit" \in features
    /\ mode[f] = "run"
    /\ "own" \in features \/ Held(pending[f]) = {}
    /\ Raise(f, Primitive("exit", f), thread)

(* A backward jump, the only cancellation checkpoint; with the flag clear   *)
(* it changes nothing here.                                                 *)
BackEdge(f) ==
    /\ mode[f] = "run"
    /\ Current(f) \in cancelled
    /\ Raise(f, Primitive("cancelled", f), thread)

(* Mutant: handles still pending are dropped.                               *)
ReturnDrops(f) ==
    /\ mode[f] = "run"
    /\ "jump" \in features \/ Owed(f) = {}
    /\ \E d \in {Ok, Primitive("fault", f)} : End(f, d, thread)
    /\ UNCHANGED <<at, started, failure, cancelled>>

(* `return`, or the end of the body.  With live tasks: the leak path.  The  *)
(* declared return type is checked last, outside every try of the frame.    *)
Return(f) ==
    /\ mode[f] = "run"
    /\ "jump" \in features \/ Owed(f) = {}
    /\ IF Held(pending[f]) # {}
       THEN /\ mode' = [mode EXCEPT ![f] = "leak"]
            /\ UNCHANGED <<locals, scope, pending, outcome, thread, caught>>
       ELSE \E d \in {Ok, Primitive("fault", f)} : End(f, d, thread)
    /\ UNCHANGED <<at, started, failure, cancelled>>

(* The program is over; threads that were detached die with the process.    *)
Terminated == mode[Root] = "done" /\ UNCHANGED vars

----------------------------------------------------------------------------
(* A frame blocked in the runtime moves on; a running one picks a statement.*)
Runtime(f) ==
    \/ AwaitJoin(f) \/ RebindJoin(f) \/ RebindStart(f)
    \/ DrainJoin(f) \/ DrainEnd(f) \/ LeakJoin(f) \/ LeakEnd(f) \/ CallReturn(f)

Statement(f) ==
    \/ EnterGroup(f) \/ LeaveGroup(f) \/ EnterTry(f) \/ LeaveTry(f) \/ Break(f)
    \/ \E h \in Handles :
          \/ Spawn(f, h) \/ SpawnAtLimit(f, h) \/ SpawnRebind(f, h)
          \/ Await(f, h) \/ AwaitStored(f, h) \/ AwaitCounted(f, h) \/ AwaitMissing(f, h)
    \/ Call(f) \/ Fault(f) \/ Exit(f) \/ BackEdge(f) \/ Return(f)

Next ==
    \/ \E f \in Frames : (Runtime(f) \/ Statement(f)) /\ UNCHANGED features
    \/ Terminated

(* The OS schedules every thread, and (SPEC.md) every infinite execution of *)
(* a frame crosses back-edges.  A frame may otherwise run for ever.         *)
Fairness ==
    \A f \in Frames : /\ WF_vars(Runtime(f) /\ UNCHANGED features)
                       /\ WF_vars(BackEdge(f) /\ UNCHANGED features)

Spec == Init /\ [][Next]_vars
FairSpec == Spec /\ Fairness

----------------------------------------------------------------------------
(* Properties.                                                              *)

(* What a blocked frame remembers: the handle it joins, the first failure.  *)
Blocked ==
    \A f \in Frames :
        /\ mode[f] \in {"await", "rebind"} => at[f] \in Handles
        /\ mode[f] = "drain" => failure[f].code # "ok"

(* Every variable stays in its type, and a frame drains only to report a    *)
(* failure.                                                                 *)
TypeOK ==
    /\ Blocked
    /\ features \in Classes
    /\ mode \in [Frames -> Modes]
    /\ at \in [Frames -> Handles \cup {0}]
    /\ inherited \in [Frames -> Tokens]
    /\ groups \in [Frames -> Seq(Tokens)]
    /\ entered \in [Frames -> 0..MaxGroups]
    /\ scope \in [Frames -> Seq(Blocks)]
    /\ visible \in [Frames -> SUBSET Handles]
    /\ bound \in [Frames -> [Handles -> Frames \cup {None}]]
    /\ values \in [Frames -> [Handles -> Frames \cup {None}]]
    /\ pending \in [Frames -> [Handles -> Frames \cup {None}]]
    /\ failure \in [Frames -> Results]
    /\ outcome \in [Frames -> Results]
    /\ thread \in [Frames -> Threads]
    /\ spawner \in [Frames -> Frames \cup {None}]
    /\ cancelled \subseteq Tokens
    /\ caught \subseteq LeafCodes

(* The JoinHandle of every live task is in its spawner's pending map, under *)
(* one handle, and every pending handle holds a live task: no join is done  *)
(* twice and no thread is forgotten while its spawner runs.                 *)
HeldOnce ==
    /\ \A f \in Frames : \A h \in Handles :
          pending[f][h] # None =>
              /\ thread[pending[f][h]] = "live"
              /\ spawner[pending[f][h]] = f
              /\ \A k \in Handles \ {h} : pending[f][k] # pending[f][h]
    /\ \A c \in Frames :
          thread[c] = "live" => \E h \in Handles : pending[spawner[c]][h] = c

(* A function that returns a value has joined every task it spawned: only a *)
(* failing frame can leave one behind.                                      *)
OkMeansJoined ==
    \A c \in Frames :
        /\ thread[c] \in {"live", "detached"}
        /\ mode[spawner[c]] = "done"
        => outcome[spawner[c]].code # "ok"

(* SPEC.md: "No detached tasks, ever".  No JoinHandle is dropped unjoined.  *)
NoDetachedTask == \A c \in Frames : thread[c] # "detached"

Without(S) == features \cap S = {}

(* "HIR guarantees `pending` is empty here": neither the end of a group nor *)
(* a return of a checked program meets a live handle.                       *)
GroupsEndAwaited == \A f \in Frames : mode[f] # "leak"

(* "Failure is lossless", in programs without try: a task's failure that    *)
(* its spawner joined is part of what the spawner itself failed with.  Only *)
(* the leak path drops one, only in a program the checker passes without    *)
(* each await being executed, and never silently: the spawner fails as well.*)
Lossless ==
    Without({"try"}) =>
        \A c \in Frames :
            /\ thread[c] = "joined" /\ mode[spawner[c]] = "done"
            /\ outcome[c].code \notin {"ok", "cancelled"}
            => \/ outcome[c].leaves \subseteq outcome[spawner[c]].leaves
               \/ /\ outcome[spawner[c]] = Primitive("leak", spawner[c])
                  /\ ~Without({"nest", "jump", "early", "skip"})

(* "Cancelled siblings are excluded from the aggregate", in programs without *)
(* try.                                                                      *)
CancelledNotAggregated ==
    Without({"try"}) =>
        \A f \in Frames :
            outcome[f].code = "group" =>
                \A g \in Frames : <<"cancelled", g>> \notin outcome[f].leaves

(* "Innermost group token, else the inherited one": without try and jumps,  *)
(* the token a running frame polls and hands to its tasks is that of the    *)
(* innermost group whose body it is in.                                     *)
BodyToken(f) == IF InGroup(f) THEN scope[f][Innermost(f)].tok ELSE inherited[f]
TokenIsInnermost ==
    Without({"try", "jump"}) =>
        \A f \in Frames : mode[f] = "run" => Current(f) = BodyToken(f)

(* "A re-spawned handle must join the new thread, not reuse the previous    *)
(* iteration's value": without try, where a handle may be awaited and is    *)
(* not live, the value stored for it is that of the last task bound to it.  *)
NoStaleValue ==
    Without({"try"}) =>
        \A f \in Frames : \A h \in Handles :
            /\ MayAwait(f, h) /\ pending[f][h] = None /\ values[f][h] # None
            => values[f][h] = bound[f][h]

(* "Failure drains always terminate" (SPEC.md), in programs with no group   *)
(* inside a group: the drain cancels the innermost group only, and a task   *)
(* of an outer one, which it joins too, may spin for ever.                  *)
DrainTerminates ==
    \A f \in Frames :
        mode[f] = "drain" /\ Without({"nest"}) ~> mode[f] # "drain"
============================================================================
