-------------------------------- MODULE Echo --------------------------------
(***************************************************************************)
(* The echo threads of the v2 interpreter (runtime/v2.rs).  A call of an   *)
(* `echo fn` starts a thread and is worth a handle; `listen` takes the     *)
(* thread's JoinHandle out of the run's table and joins it; the end of the *)
(* run joins what nobody listened to.                                      *)
(*                                                                         *)
(* The program is any: a body is some sequence of prints, calls of echo    *)
(* functions and listens that ends, with a value or with an error.  v2 has *)
(* no loops, bounds the depth of its calls and catches no error, so every  *)
(* body ends and every error is its thread's.                              *)
(*                                                                         *)
(* A handle is a value: it reaches a thread as the value of its own call   *)
(* of an echo function, among the arguments it was started with, or in     *)
(* what it listened to.  (It is a string in the code; that a program might *)
(* also write that string itself is left out.)                             *)
(***************************************************************************)
EXTENDS Naturals, FiniteSets

CONSTANTS
    Main,      \* the thread that runs the entry function
    Echo,      \* the echo threads, at most one for every call of an echo fn
    None,      \* no thread
    MaxLines   \* how many lines are printed, at most

Thread == {Main} \union Echo

ASSUME EchoAssumption ==
    /\ IsFiniteSet(Echo)
    /\ Main \notin Echo
    /\ None \notin Thread
    /\ MaxLines \in Nat

VARIABLES
    pc,       \* what a thread is doing
    handles,  \* the handles among the values of a thread's variables
    target,   \* whom a thread has started, listens to or joins
    value,    \* the handles in what an echo thread returned
    table,    \* global.handles: the threads whose JoinHandle it keeps
    owner,    \* who has locked the table for more than one step
    keys,     \* the keys the end of the run has yet to remove
    leaked,   \* the keys it has removed and joined
    printed,  \* global.output, which lines are only added to: their number
    out,      \* the number of lines in the copy that the run returns
    outcome   \* what run_v2_program_partial returns

vars == <<pc, handles, target, value, table, owner, keys, leaked, printed, out, outcome>>
program == <<pc, handles, target>>
end == <<owner, keys, leaked, out, outcome>>

-----------------------------------------------------------------------------
Init ==
    /\ pc = [t \in Thread |-> IF t = Main THEN "run" ELSE "unborn"]
    /\ handles = [t \in Thread |-> {}]
    /\ target = [t \in Thread |-> None]
    /\ value = [e \in Echo |-> {}]
    /\ table = {}
    /\ owner = None
    /\ keys = {}
    /\ leaked = {}
    /\ printed = 0
    /\ out = 0
    /\ outcome = "running"

Running(t) == pc[t] = "run"
Free == owner = None

\* `print`: a line goes to the output of the run.
PrintLine(t) ==
    /\ Running(t)
    /\ printed < MaxLines
    /\ printed' = printed + 1
    /\ UNCHANGED <<program, value, table, end>>

\* Mutant: the thread is given its own handle.
StartWithHandle(t, e) ==
    /\ Running(t)
    /\ pc[e] = "unborn"
    /\ handles' = [handles EXCEPT ![e] = handles[t] \union {e}]
    /\ pc' = [pc EXCEPT ![t] = "started", ![e] = "run"]
    /\ target' = [target EXCEPT ![t] = e]
    /\ UNCHANGED <<value, table, end, printed>>

\* A call of an echo function: its thread starts at once, with the values
\* of the arguments, while the table does not have its handle yet.
Start(t, e) ==
    /\ Running(t)
    /\ pc[e] = "unborn"
    /\ \E args \in SUBSET handles[t] : handles' = [handles EXCEPT ![e] = args]
    /\ pc' = [pc EXCEPT ![t] = "started", ![e] = "run"]
    /\ target' = [target EXCEPT ![t] = e]
    /\ UNCHANGED <<value, table, end, printed>>

\* The second half of the call: the table takes the JoinHandle, and the call
\* returns the handle.
Insert(t) ==
    /\ pc[t] = "started"
    /\ Free
    /\ table' = table \union {target[t]}
    /\ handles' = [handles EXCEPT ![t] = @ \union {target[t]}]
    /\ pc' = [pc EXCEPT ![t] = "run"]
    /\ target' = [target EXCEPT ![t] = None]
    /\ UNCHANGED <<value, end, printed>>

\* Mutant: the table stays locked during the join.
ListenLocked(t, e) ==
    /\ Running(t)
    /\ e \in handles[t] \intersect table
    /\ Free
    /\ owner' = t
    /\ table' = table \ {e}
    /\ pc' = [pc EXCEPT ![t] = "listen"]
    /\ target' = [target EXCEPT ![t] = e]
    /\ UNCHANGED <<handles, value, keys, leaked, out, outcome, printed>>

\* `listen` of a handle takes its JoinHandle out of the table, which is
\* unlocked again before the join.
Listen(t, e) ==
    /\ Running(t)
    /\ e \in handles[t] \intersect table
    /\ Free
    /\ table' = table \ {e}
    /\ pc' = [pc EXCEPT ![t] = "listen"]
    /\ target' = [target EXCEPT ![t] = e]
    /\ UNCHANGED <<handles, value, end, printed>>

\* The thread listened to has returned: so does the listen, with its value.
\* (The variable listened to is overwritten; a copy of the handle may remain.)
Hear(t) ==
    /\ pc[t] = "listen"
    /\ pc[target[t]] = "returned"
    /\ handles' = [handles EXCEPT ![t] = @ \union value[target[t]]]
    /\ pc' = [pc EXCEPT ![t] = "run"]
    /\ target' = [target EXCEPT ![t] = None]
    /\ UNCHANGED <<value, table, end, printed>>

\* An error ends the thread.  That of the entry function ends the run as
\* well: it returns what was printed, and joins nobody.
Fail(t) ==
    /\ pc' = [pc EXCEPT ![t] = "failed"]
    /\ IF t = Main
       THEN outcome' = "failed" /\ out' = printed
       ELSE UNCHANGED <<outcome, out>>
    /\ UNCHANGED <<handles, target, value, table, owner, keys, leaked, printed>>

\* An error of the thread's own: an overflow, a name that is not defined, a
\* thread that cannot be started, a listen of what is not a handle, ...
Err(t) == Running(t) /\ Fail(t)

\* A listen of a handle that somebody has listened to before.
ListenTwice(t, e) ==
    /\ Running(t)
    /\ e \in handles[t] \ table
    /\ Free
    /\ Fail(t)

\* Mutant: a thread that failed is worth a value like any other.
HearNoFailure(t) ==
    /\ pc[t] = "listen"
    /\ pc[target[t]] = "failed"
    /\ pc' = [pc EXCEPT ![t] = "run"]
    /\ target' = [target EXCEPT ![t] = None]
    /\ UNCHANGED <<handles, value, table, end, printed>>

\* A listen of a thread that failed returns its error.
HearFailure(t) ==
    /\ pc[t] = "listen"
    /\ pc[target[t]] = "failed"
    /\ Fail(t)

\* The body of an echo thread ends with a value.
Return(t) ==
    /\ t \in Echo
    /\ Running(t)
    /\ pc' = [pc EXCEPT ![t] = "returned"]
    /\ \E v \in SUBSET handles[t] : value' = [value EXCEPT ![t] = v]
    /\ UNCHANGED <<handles, target, table, end, printed>>

-----------------------------------------------------------------------------
(* The end of the run, when the entry function has returned. *)

\* The output is copied, before anything is joined.
Copy ==
    /\ Running(Main)
    /\ pc' = [pc EXCEPT ![Main] = "copied"]
    /\ out' = printed
    /\ UNCHANGED <<handles, target, value, table, owner, keys, leaked, printed, outcome>>

\* Mutant: the keys are copied, and the table is unlocked again.
LockForCopy ==
    /\ pc[Main] = "copied"
    /\ Free
    /\ pc' = [pc EXCEPT ![Main] = "clear"]
    /\ keys' = table
    /\ UNCHANGED <<handles, target, value, table, owner, leaked, printed, out, outcome>>

\* The table is locked until its entries are joined; the keys are those it
\* has now.
Lock ==
    /\ pc[Main] = "copied"
    /\ Free
    /\ pc' = [pc EXCEPT ![Main] = "clear"]
    /\ owner' = Main
    /\ keys' = table
    /\ UNCHANGED <<handles, target, value, table, leaked, printed, out, outcome>>

\* The next key: if the table has it, it is removed, and its thread joined.
Remove(e) ==
    /\ pc[Main] = "clear"
    /\ e \in keys
    /\ keys' = keys \ {e}
    /\ table' = table \ {e}
    /\ IF e \in table
       THEN /\ pc' = [pc EXCEPT ![Main] = "join"]
            /\ target' = [target EXCEPT ![Main] = e]
       ELSE UNCHANGED <<pc, target>>
    /\ UNCHANGED <<handles, value, owner, leaked, printed, out, outcome>>

\* Its thread has ended: what it returned is dropped, error or not.
Joined ==
    /\ pc[Main] = "join"
    /\ pc[target[Main]] \in {"returned", "failed"}
    /\ leaked' = leaked \union {target[Main]}
    /\ pc' = [pc EXCEPT ![Main] = "clear"]
    /\ target' = [target EXCEPT ![Main] = None]
    /\ UNCHANGED <<handles, value, table, owner, keys, printed, out, outcome>>

\* Mutant: leaked threads are joined, and not reported.
ExitQuietly ==
    /\ pc[Main] = "clear"
    /\ keys = {}
    /\ pc' = [pc EXCEPT ![Main] = "over"]
    /\ owner' = None
    /\ outcome' \in {"ok", "overflow"}
    /\ UNCHANGED <<handles, target, value, table, keys, leaked, printed, out>>

\* The table is unlocked and the run over.  If nothing was leaked, the value
\* of the entry function must still fit the exit code.
Exit ==
    /\ pc[Main] = "clear"
    /\ keys = {}
    /\ pc' = [pc EXCEPT ![Main] = "over"]
    /\ owner' = None
    /\ outcome' \in IF leaked = {} THEN {"ok", "overflow"} ELSE {"unlistened"}
    /\ UNCHANGED <<handles, target, value, table, keys, leaked, printed, out>>

-----------------------------------------------------------------------------
Call(t) ==
    \/ \E e \in Echo : Start(t, e)
    \/ Insert(t)

Listens(t) ==
    \/ \E e \in Echo : Listen(t, e) \/ ListenTwice(t, e)
    \/ Hear(t)
    \/ HearFailure(t)

\* The process ends with the run, and with it the threads that are left.
Body(t) ==
    /\ outcome = "running"
    /\ PrintLine(t) \/ Call(t) \/ Listens(t) \/ Err(t) \/ Return(t)

End ==
    \/ Copy
    \/ Lock
    \/ \E e \in Echo : Remove(e)
    \/ Joined
    \/ Exit

Next == End \/ \E t \in Thread : Body(t)

\* Every thread goes on while it can.
Fairness ==
    /\ WF_vars(Body(Main) \/ End)
    /\ \A e \in Echo : WF_vars(Body(e))

Spec == Init /\ [][Next]_vars /\ Fairness

-----------------------------------------------------------------------------
States == {"unborn", "run", "started", "listen", "returned", "failed"}
Ending == {"copied", "clear", "join", "over"}

EchoTypeOK ==
    /\ pc \in [Thread -> States \union Ending]
    /\ \A e \in Echo : pc[e] \in States
    /\ pc[Main] \notin {"unborn", "returned"}
    /\ handles \in [Thread -> SUBSET Echo]
    /\ target \in [Thread -> Echo \union {None}]
    /\ value \in [Echo -> SUBSET Echo]
    /\ table \subseteq Echo
    /\ owner \in {Main, None}
    /\ keys \subseteq Echo
    /\ leaked \subseteq Echo
    /\ printed \in 0..MaxLines
    /\ out \in 0..MaxLines
    /\ outcome \in {"running", "ok", "overflow", "unlistened", "failed"}

Alive(e) == pc[e] \in {"run", "started", "listen"}

\* Listening threads never wait for each other in a circle, whatever handles
\* the program passes on as arguments and as values.
NoCircularWait ==
    \A S \in SUBSET Echo :
        S # {} => \E t \in S : ~(pc[t] = "listen" /\ target[t] \in S)

\* "Join any leaked (unlistened) echo threads so no thread is detached": no
\* echo thread runs when the run has returned a value or E-ECHO-UNLISTENED.
NoneDetached ==
    outcome \in {"ok", "overflow", "unlistened"} => \A e \in Echo : ~Alive(e)

\* The output is copied before the threads are joined; still a run that
\* returns a value returns all that was printed.
OutputKept == outcome = "ok" => out = printed

\* "Echo failures must reach the listener lossless": a run that returns a
\* value has no echo thread that failed.
FailureNotLost == outcome = "ok" => \A e \in Echo : pc[e] # "failed"

\* The end of the run has the table locked and joins, and a thread waits
\* for the table.
Hangs ==
    /\ pc[Main] = "join"
    /\ \E e \in Echo :
          \/ pc[e] = "started"
          \/ Running(e) /\ handles[e] # {}

\* The run returns, or has joined a thread that it keeps from ending.
EndsUnlessLocked == <>(outcome # "running" \/ Hangs)

\* What the comment above the join says: the leaked threads are joined, "then"
\* the run reports them.
RunReturns == <>(outcome # "running")
=============================================================================
