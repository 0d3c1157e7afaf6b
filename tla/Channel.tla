------------------------------ MODULE Channel ------------------------------
(***************************************************************************)
(* A bounded channel, src/src/stdlib/a2_threads.rs: one mutex around a     *)
(* queue and a closed flag, and one condition variable on which senders    *)
(* that found the queue full and receivers that found it empty sleep       *)
(* together.  A critical section, from taking the mutex to releasing it or *)
(* to `Condvar::wait`, is one action.                                      *)
(***************************************************************************)
EXTENDS Naturals, Sequences

CONSTANTS
    Users,      \* the threads that share the channel
    Values,     \* what they send
    Capacity,   \* the channel's capacity
    Null,       \* the answer of a receive that got nothing
    MaxCalls    \* bound: the calls each user makes

\* `chan` refuses a capacity below 1.
ASSUME CapacityAssumption == Capacity \in Nat \ {0}
ASSUME NullAssumption == Null \notin Values
ASSUME BoundAssumption == MaxCalls \in Nat

VARIABLES
    queue,      \* ChanInner.queue
    closed,     \* ChanInner.closed
    call,       \* the blocking call a user is in, "none" outside
    item,       \* the value a pending `send` carries
    answer,     \* what the user's last call returned
    asleep,     \* the users waiting on the condition variable
    late,       \* the users whose `recv_timeout` deadline has passed
    calls       \* how many calls a user has made

chanVars == <<queue, closed, call, item, answer, asleep, late, calls>>

Calls == {"send", "recv", "timed"}

ChanTypeOK ==
    /\ queue \in Seq(Values) /\ closed \in BOOLEAN
    /\ call \in [Users -> Calls \union {"none"}]
    /\ item \in [Users -> Values \union {Null}]
    /\ answer \in [Users -> Values \union {Null, "none", "sent", "refused"}]
    /\ asleep \subseteq Users /\ late \subseteq Users
    /\ calls \in [Users -> 0 .. MaxCalls]

ChanInit ==
    /\ queue = <<>> /\ closed = FALSE
    /\ call = [u \in Users |-> "none"]
    /\ item = [u \in Users |-> Null]
    /\ answer = [u \in Users |-> "none"]
    /\ asleep = {} /\ late = {}
    /\ calls = [u \in Users |-> 0]

-----------------------------------------------------------------------------
(* Helpers. *)

Full == Len(queue) >= Capacity

\* Mutants: nobody is notified; one waiter is.
NotifyNobody == asleep' = asleep
NotifyOne ==
    IF asleep = {} THEN asleep' = {}
                   ELSE \E u \in asleep : asleep' = asleep \ {u}

NotifyAll == asleep' = {}

\* A user makes one more of its calls.
Count(u) ==
    /\ call[u] = "none" /\ calls[u] < MaxCalls
    /\ calls' = [calls EXCEPT ![u] = @ + 1]

\* The call of `u` returns `a`.
Return(u, a) ==
    /\ answer' = [answer EXCEPT ![u] = a]
    /\ call' = [call EXCEPT ![u] = "none"]
    /\ item' = [item EXCEPT ![u] = Null]
    /\ late' = late \ {u}

\* `cvar.wait`: the mutex is released and the user sleeps.
Sleep(u) ==
    /\ asleep' = asleep \union {u}
    /\ UNCHANGED <<queue, closed, call, item, answer, late, calls>>

\* Mutant: the queue is a stack.
PopNewest(u) ==
    /\ queue # <<>>
    /\ queue' = SubSeq(queue, 1, Len(queue) - 1)
    /\ Return(u, queue[Len(queue)])
    /\ NotifyAll

\* The oldest value is handed to `u` and everyone asleep is woken.
Pop(u) ==
    /\ queue # <<>>
    /\ queue' = Tail(queue)
    /\ Return(u, Head(queue))
    /\ NotifyAll

Quit(u, a) ==
    /\ Return(u, a)
    /\ UNCHANGED <<queue, asleep>>

-----------------------------------------------------------------------------
(* Calls. *)

\* A user calls `send`, `recv` or `recv_timeout`; a window of 0 ms is over
\* before it begins.
BeginSend(u, v) ==
    /\ Count(u)
    /\ call' = [call EXCEPT ![u] = "send"]
    /\ item' = [item EXCEPT ![u] = v]
    /\ UNCHANGED <<queue, closed, answer, asleep, late>>

BeginRecv(u) ==
    /\ Count(u)
    /\ call' = [call EXCEPT ![u] = "recv"]
    /\ UNCHANGED <<queue, closed, item, answer, asleep, late>>

BeginTimed(u) ==
    /\ Count(u)
    /\ call' = [call EXCEPT ![u] = "timed"]
    /\ late' \in {late, late \union {u}}
    /\ UNCHANGED <<queue, closed, item, answer, asleep>>

\* One pass through the loop of `send`.
SendStep(u) ==
    /\ call[u] = "send" /\ u \notin asleep
    /\ \/ closed /\ Quit(u, "refused") /\ UNCHANGED <<closed, calls>>
       \/ /\ ~closed /\ ~Full
          /\ queue' = Append(queue, item[u])
          /\ Return(u, "sent")
          /\ NotifyAll
          /\ UNCHANGED <<closed, calls>>
       \/ ~closed /\ Full /\ Sleep(u)

\* One pass through the loop of `recv`.
RecvStep(u) ==
    /\ call[u] = "recv" /\ u \notin asleep
    /\ \/ Pop(u) /\ UNCHANGED <<closed, calls>>
       \/ queue = <<>> /\ closed /\ Quit(u, Null) /\ UNCHANGED <<closed, calls>>
       \/ queue = <<>> /\ ~closed /\ Sleep(u)

\* One pass through `recv_timeout`: a queued value wins over a deadline
\* that has passed, on the last pass too.
TimedStep(u) ==
    /\ call[u] = "timed" /\ u \notin asleep
    /\ \/ Pop(u) /\ UNCHANGED <<closed, calls>>
       \/ /\ queue = <<>> /\ (closed \/ u \in late)
          /\ Quit(u, Null)
          /\ UNCHANGED <<closed, calls>>
       \/ queue = <<>> /\ ~closed /\ u \notin late /\ Sleep(u)

\* `try_recv` does not wait.
TryRecv(u) ==
    /\ Count(u)
    /\ Pop(u) \/ (queue = <<>> /\ Quit(u, Null))
    /\ UNCHANGED closed

\* Mutant: close wakes nobody.
CloseSilently(u) ==
    /\ Count(u)
    /\ closed' = TRUE
    /\ NotifyNobody
    /\ UNCHANGED <<queue, call, item, answer, late>>

\* `close` may be repeated.
Close(u) ==
    /\ Count(u)
    /\ closed' = TRUE
    /\ NotifyAll
    /\ UNCHANGED <<queue, call, item, answer, late>>

\* The deadline of a `recv_timeout` passes; it ends the wait.
Expire(u) ==
    /\ call[u] = "timed" /\ u \notin late
    /\ late' = late \union {u}
    /\ asleep' = asleep \ {u}
    /\ UNCHANGED <<queue, closed, call, item, answer, calls>>

\* A condition variable may wake a waiter for no reason.
Spurious(u) ==
    /\ u \in asleep
    /\ asleep' = asleep \ {u}
    /\ UNCHANGED <<queue, closed, call, item, answer, late, calls>>

-----------------------------------------------------------------------------
(* Specification. *)

\* What runs inside a call that has begun.
Pass(u) == SendStep(u) \/ RecvStep(u) \/ TimedStep(u)

ChanStep(u) ==
    \/ \E v \in Values : BeginSend(u, v)
    \/ BeginRecv(u) \/ BeginTimed(u)
    \/ Pass(u) \/ TryRecv(u) \/ Close(u)
    \/ Expire(u) \/ Spurious(u)

ChanNext == \E u \in Users : ChanStep(u)

\* A thread that is not asleep gets the mutex and runs; a deadline passes.
ChanFairness == \A u \in Users : WF_chanVars(Pass(u)) /\ WF_chanVars(Expire(u))

ChanSpec == ChanInit /\ [][ChanNext]_chanVars /\ ChanFairness

-----------------------------------------------------------------------------
(* Properties. *)

\* No wake-up is lost although senders and receivers share one condition
\* variable: whoever sleeps has a reason to.  A sleeping sender means a full
\* open channel and a sleeping receiver an empty open one, so no path of
\* send, recv, recv_timeout, try_recv or close may change the queue or the
\* flag without notifying.
NoLostWakeup ==
    \A u \in asleep :
        /\ ~closed /\ call[u] \in Calls
        /\ call[u] = "send" => Full
        /\ call[u] # "send" => queue = <<>>

\* The channel with its sleepers implements the queue in which every call
\* takes effect at once: values leave in the order they came, each once;
\* recv gives null only when closed and drained; send is refused only when
\* closed; and once it is closed every pending call returns.
Abstract == INSTANCE BoundedQueue WITH
    queue <- queue, closed <- closed, call <- call, item <- item, answer <- answer

ImplementsQueue == Abstract!Spec

=============================================================================
