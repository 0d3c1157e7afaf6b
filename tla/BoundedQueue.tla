---------------------------- MODULE BoundedQueue ----------------------------
(***************************************************************************)
(* What a channel (`chan`, src/src/stdlib/a2_threads.rs) promises to the   *)
(* threads that share it: a first-in first-out queue of bounded length in  *)
(* which every call takes effect at once.  Nobody sleeps here and nobody   *)
(* is woken: a pending call is answered in one step, at any moment at      *)
(* which its answer is a legal one.                                        *)
(***************************************************************************)
EXTENDS Naturals, Sequences

CONSTANTS
    Users,      \* the threads that share the channel
    Values,     \* what they send
    Capacity,   \* how many values the queue holds
    Null        \* the answer of a receive that got nothing

VARIABLES
    queue,      \* the values sent and not received, oldest first
    closed,     \* `close` was called
    call,       \* the call each user is in, "none" outside
    item,       \* the value a pending `send` carries
    answer      \* what the user's last call returned

vars == <<queue, closed, call, item, answer>>

Init ==
    /\ queue = <<>> /\ closed = FALSE
    /\ call = [u \in Users |-> "none"]
    /\ item = [u \in Users |-> Null]
    /\ answer = [u \in Users |-> "none"]

\* A user enters a call: `send` with a value, `recv`, or `recv_timeout`.
Ask(u) ==
    /\ call[u] = "none"
    /\ \E k \in {"send", "recv", "timed"} : call' = [call EXCEPT ![u] = k]
    /\ \E v \in Values \union {Null} : item' = [item EXCEPT ![u] = v]
    /\ UNCHANGED <<queue, closed, answer>>

Answer(u, a) ==
    /\ answer' = [answer EXCEPT ![u] = a]
    /\ call' = [call EXCEPT ![u] = "none"]
    /\ item' = [item EXCEPT ![u] = Null]

\* A send is accepted when the channel is open and has room,
\* and refused only when it is closed.
Put(u) ==
    /\ call[u] = "send" /\ ~closed /\ Len(queue) < Capacity
    /\ queue' = Append(queue, item[u])
    /\ Answer(u, "sent")
    /\ UNCHANGED closed

Refuse(u) ==
    /\ call[u] = "send" /\ closed
    /\ Answer(u, "refused")
    /\ UNCHANGED <<queue, closed>>

\* A receive gets the oldest value, from a closed channel too.  `try_recv`
\* is a receive nobody sees pending.
Take(u) ==
    /\ call[u] # "send" /\ queue # <<>>
    /\ queue' = Tail(queue)
    /\ Answer(u, Head(queue))
    /\ UNCHANGED closed

\* Nothing is received only from an empty channel, and by a plain `recv`
\* only from one that is closed as well.
Nothing(u) ==
    /\ call[u] # "send" /\ queue = <<>>
    /\ call[u] = "recv" => closed
    /\ Answer(u, Null)
    /\ UNCHANGED <<queue, closed>>

Close(u) ==
    /\ call[u] = "none"
    /\ closed' = TRUE
    /\ UNCHANGED <<queue, call, item, answer>>

Next == \E u \in Users : Ask(u) \/ Put(u) \/ Refuse(u) \/ Take(u) \/ Nothing(u) \/ Close(u)

\* Once the channel is closed a pending call is answered.
Fairness == \A u \in Users : WF_vars(closed /\ call[u] # "none" /\ (Refuse(u) \/ Take(u) \/ Nothing(u)))

Spec == Init /\ [][Next]_vars /\ Fairness

=============================================================================
