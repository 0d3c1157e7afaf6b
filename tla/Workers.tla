------------------------------ MODULE Workers ------------------------------
(***************************************************************************)
(* A program with threads and a channel they share: the composition of     *)
(* Threads and Channel.  A thread is inside one call at a time, so it ends, *)
(* spawns and joins only while it is in no channel call; the channel's      *)
(* messages can carry thread handles.                                       *)
(***************************************************************************)
EXTENDS Threads, Channel

CONSTANTS
    Job,        \* a message without a handle
    MaxOps      \* bound: the spawns and joins each thread attempts

ASSUME CompositionAssumption ==
    /\ Users = Thread /\ Values = Worker \union {Job}
    /\ MaxOps \in Nat

VARIABLE ops    \* how many spawns and joins a thread has attempted

vars == <<threadVars, chanVars, ops>>

Init == ThreadInit /\ ChanInit /\ ops = [t \in Thread |-> 0]

Free(t) == pc[t] = "run" /\ call[t] = "none"

\* A handle is sent only by a thread that has it; who receives one has it.
ChannelCall(t) ==
    /\ pc[t] = "run"
    /\ ChanStep(t)
    /\ item'[t] \in Worker => shares /\ item'[t] \in knows[t]
    /\ IF answer'[t] \in Worker THEN Learn(t, answer'[t]) ELSE UNCHANGED threadVars
    /\ UNCHANGED ops

ThreadCall(t) ==
    /\ Free(t) /\ ops[t] < MaxOps
    /\ Operation(t)
    /\ ops' = [ops EXCEPT ![t] = @ + 1]
    /\ UNCHANGED chanVars

\* The body of a worker, or the entry function, returns.
BodyEnds(t) ==
    /\ Free(t)
    /\ Finish(t) \/ (t = Main /\ MainEnd)
    /\ UNCHANGED <<chanVars, ops>>

Runtime(t) ==
    /\ Inside(t) \/ (t = Main /\ EndOfRun /\ pc[Main] # "run")
    /\ UNCHANGED <<chanVars, ops>>

Next == \E t \in Thread : ChannelCall(t) \/ ThreadCall(t) \/ BodyEnds(t) \/ Runtime(t)

\* Every thread that can take a step takes one: a program makes finitely
\* many calls and ends, and the operating system runs its threads.  Being
\* woken for no reason and the start of one more call are not owed.
Fairness ==
    /\ \A t \in Thread :
          /\ WF_vars(ChannelCall(t) /\ Pass(t))
          /\ WF_vars(ChannelCall(t) /\ Expire(t))
          /\ WF_vars(Runtime(t))
    /\ \A t \in Worker : WF_vars(BodyEnds(t))

Spec == Init /\ [][Next]_vars /\ Fairness

-----------------------------------------------------------------------------
(* Properties. *)

\* "Never detach" (the comment on the reaping): once the entry function has
\* returned and the channel is closed, the run ends.  Closing wakes every
\* worker that sleeps on the channel and the reaper is never left waiting,
\* as long as no handle is passed around; workers that join each other
\* would wait for each other.
RunEnds == (pc[Main] = "reap" /\ closed /\ ~shares) ~> pc[Main] = "over"

=============================================================================
