--------------------------- MODULE WorkersProofs ---------------------------
(***************************************************************************)
(* Proofs about the threads of a program, for any set of workers that      *)
(* spawn each other and pass handles around: a result that a join returns  *)
(* is the thread's own, and a handle that was taken has exactly one        *)
(* joiner.  And for a program whose main thread does all the spawning: the *)
(* threads that live are never more than the limit, and only workers that  *)
(* wait for each other outlive the run.                                    *)
(*                                                                         *)
(* Both need to know that the thread a spawn is about to start is nobody   *)
(* else's: SpawnsApart.  Otherwise a spawn could revive a thread that has  *)
(* ended, or give back a handle that somebody has taken.                   *)
(*                                                                         *)
(* The limit needs that the count is exact (CountExact) and that nothing   *)
(* raises it between main's check and main's increment (Roles, RoomKept).  *)
(* What outlives the run needs that whoever was started is registered, or  *)
(* about to be (Registered), and that the reaper drops a worker from its   *)
(* list only once the handle is taken or the result is cached (Reaped);    *)
(* each worker left is then joined by another one left, and no worker      *)
(* joins two, so that all of them are in a join of one another.            *)
(*                                                                         *)
(* What is proved of the channel alone and of the threads alone holds of   *)
(* the program that has both: every step of the composition is a step of   *)
(* each part or leaves it alone.                                           *)
(***************************************************************************)
EXTENDS Workers, SequenceTheorems, FiniteSetTheorems, TLAPS

-----------------------------------------------------------------------------
(* The channel alone, for any number of threads and values, any capacity   *)
(* and any bound on the calls.  ChanInvariant says that the types are      *)
(* right, that a pending send has a value to send, that the queue is       *)
(* within its capacity, and NoLostWakeup.  Everything asleep keeps its     *)
(* reason because an action either leaves the queue and the flag alone or  *)
(* wakes everybody.                                                        *)

CarriesValue == \A u \in Users : call[u] = "send" => item[u] \in Values
WithinCapacity == Len(queue) <= Capacity

ChanInvariant == ChanTypeOK /\ CarriesValue /\ WithinCapacity /\ NoLostWakeup

\* A call returns: the types of what Return assigns.
LEMMA ReturnTypes ==
    ASSUME ChanTypeOK, CarriesValue, NEW u \in Users,
           NEW a \in Values \union {Null, "none", "sent", "refused"}, Return(u, a)
    PROVE  /\ answer' \in [Users -> Values \union {Null, "none", "sent", "refused"}]
           /\ call' \in [Users -> Calls \union {"none"}]
           /\ item' \in [Users -> Values \union {Null}]
           /\ late' \subseteq Users
           /\ CarriesValue'
  BY DEF ChanTypeOK, CarriesValue, Return, Calls

\* The queue after its oldest value was taken.
LEMMA PopTypes ==
    ASSUME ChanTypeOK, WithinCapacity, queue # <<>>
    PROVE  /\ Tail(queue) \in Seq(Values) /\ Head(queue) \in Values
           /\ Len(Tail(queue)) <= Capacity
  BY CapacityAssumption, HeadTailProperties DEF ChanTypeOK, WithinCapacity

\* Sleeping for a reason, and returning, keep the invariant.
LEMMA SleepKeeps ==
    ASSUME ChanInvariant, NEW u \in Users, Sleep(u), ~closed, call[u] \in Calls,
           call[u] = "send" => Full, call[u] # "send" => queue = <<>>
    PROVE  ChanInvariant'
  BY DEF ChanInvariant, ChanTypeOK, CarriesValue, WithinCapacity, NoLostWakeup, Sleep, Full, Calls

LEMMA PopKeeps ==
    ASSUME ChanInvariant, NEW u \in Users, Pop(u), closed' = closed, calls' \in [Users -> 0 .. MaxCalls]
    PROVE  ChanInvariant'
  <1> USE DEF ChanInvariant
  <1>1. Head(queue) \in Values /\ Tail(queue) \in Seq(Values) /\ Len(Tail(queue)) <= Capacity
    BY PopTypes DEF Pop
  <1>2. Return(u, Head(queue)) /\ queue' = Tail(queue) /\ asleep' = {}
    BY DEF Pop, NotifyAll
  <1>3. ChanTypeOK' /\ CarriesValue'
    BY <1>1, <1>2, ReturnTypes DEF ChanTypeOK
  <1> QED
    BY <1>1, <1>2, <1>3 DEF WithinCapacity, NoLostWakeup

LEMMA QuitKeeps ==
    ASSUME ChanInvariant, NEW u \in Users, u \notin asleep, NEW a \in {Null, "refused"},
           Quit(u, a), closed' = closed, calls' \in [Users -> 0 .. MaxCalls]
    PROVE  ChanInvariant'
  <1> USE DEF ChanInvariant
  <1>1. Return(u, a) /\ queue' = queue /\ asleep' = asleep
    BY DEF Quit
  <1>2. ChanTypeOK' /\ CarriesValue'
    BY <1>1, ReturnTypes DEF ChanTypeOK
  <1>3. NoLostWakeup'
    BY <1>1 DEF NoLostWakeup, Return, Full, ChanTypeOK
  <1> QED
    BY <1>1, <1>2, <1>3 DEF WithinCapacity

\* One more call of a user is counted.
LEMMA CountTypes ==
    ASSUME ChanTypeOK, NEW u \in Users, Count(u)
    PROVE  calls' \in [Users -> 0 .. MaxCalls]
  BY BoundAssumption DEF ChanTypeOK, Count


-----------------------------------------------------------------------------
(* One lemma per action, or per pair of actions of one shape. *)

LEMMA InitHolds == ChanInit => ChanInvariant
  <1> SUFFICES ASSUME ChanInit PROVE ChanInvariant
    OBVIOUS
  <1>1. queue \in Seq(Values) /\ Len(queue) = 0
    BY EmptySeq DEF ChanInit
  <1>2. ChanTypeOK
    <2>1. calls \in [Users -> 0 .. MaxCalls]
      BY BoundAssumption DEF ChanInit
    <2>2. /\ call \in [Users -> Calls \union {"none"}]
          /\ item \in [Users -> Values \union {Null}]
          /\ answer \in [Users -> Values \union {Null, "none", "sent", "refused"}]
      BY DEF ChanInit
    <2>3. closed \in BOOLEAN /\ asleep \subseteq Users /\ late \subseteq Users
      BY DEF ChanInit
    <2> QED
      BY <1>1, <2>1, <2>2, <2>3 DEF ChanTypeOK
  <1>3. WithinCapacity
    BY <1>1, CapacityAssumption DEF WithinCapacity
  <1> QED
    BY <1>2, <1>3 DEF ChanInvariant, CarriesValue, NoLostWakeup, ChanInit

\* Whoever begins a call was in none, so it was awake.
LEMMA BeginKeeps ==
    ASSUME ChanInvariant, NEW u \in Users,
           (\E v \in Values : BeginSend(u, v)) \/ BeginRecv(u) \/ BeginTimed(u)
    PROVE  ChanInvariant'
  <1> USE DEF ChanInvariant
  <1>1. Count(u) /\ calls' \in [Users -> 0 .. MaxCalls]
    BY CountTypes DEF BeginSend, BeginRecv, BeginTimed
  <1>2. u \notin asleep
    BY <1>1 DEF Count, NoLostWakeup, Calls
  <1>3. queue' = queue /\ closed' = closed /\ answer' = answer /\ asleep' = asleep
    BY DEF BeginSend, BeginRecv, BeginTimed
  <1>4. ChanTypeOK'
    <2>1. call' \in [Users -> Calls \union {"none"}]
      BY DEF ChanTypeOK, Calls, BeginSend, BeginRecv, BeginTimed
    <2>2. item' \in [Users -> Values \union {Null}]
      BY DEF ChanTypeOK, BeginSend, BeginRecv, BeginTimed
    <2>3. late' \subseteq Users
      BY DEF ChanTypeOK, BeginSend, BeginRecv, BeginTimed
    <2> QED
      BY <1>1, <1>3, <2>1, <2>2, <2>3 DEF ChanTypeOK
  <1>5. CarriesValue'
    BY DEF ChanTypeOK, CarriesValue, BeginSend, BeginRecv, BeginTimed
  <1>6. \A t \in asleep : call'[t] = call[t]
    BY <1>2 DEF ChanTypeOK, BeginSend, BeginRecv, BeginTimed
  <1>7. NoLostWakeup'
    BY <1>3, <1>6 DEF NoLostWakeup, Full
  <1> QED
    BY <1>3, <1>4, <1>5, <1>7 DEF WithinCapacity

LEMMA SendKeeps ==
    ASSUME ChanInvariant, NEW u \in Users, SendStep(u)
    PROVE  ChanInvariant'
  <1>1. CASE closed /\ Quit(u, "refused") /\ UNCHANGED <<closed, calls>>
    <2>1. u \notin asleep /\ calls' \in [Users -> 0 .. MaxCalls]
      BY <1>1 DEF SendStep, ChanInvariant, ChanTypeOK
    <2> QED
      BY <1>1, <2>1, QuitKeeps
  <1>2. CASE /\ ~closed /\ ~Full
             /\ queue' = Append(queue, item[u])
             /\ Return(u, "sent") /\ NotifyAll
             /\ UNCHANGED <<closed, calls>>
    <2>1. item[u] \in Values
      BY DEF ChanInvariant, CarriesValue, SendStep
    <2>2. queue \in Seq(Values) /\ Len(queue) \in Nat
      BY LenProperties DEF ChanInvariant, ChanTypeOK
    <2>3. queue' \in Seq(Values) /\ Len(queue') = Len(queue) + 1
      BY <1>2, <2>1, <2>2, AppendProperties
    <2>4. Len(queue) < Capacity
      BY <1>2, <2>2, CapacityAssumption DEF Full
    <2>5. WithinCapacity'
      BY <2>2, <2>3, <2>4, CapacityAssumption DEF WithinCapacity
    <2>6. ChanTypeOK' /\ CarriesValue'
      BY <1>2, <2>3, ReturnTypes DEF ChanInvariant, ChanTypeOK, NotifyAll
    <2> QED
      BY <1>2, <2>5, <2>6 DEF ChanInvariant, NoLostWakeup, NotifyAll
  <1>3. CASE ~closed /\ Full /\ Sleep(u)
    BY <1>3, SleepKeeps DEF SendStep, Calls
  <1> QED
    BY <1>1, <1>2, <1>3 DEF SendStep

LEMMA ReceiveKeeps ==
    ASSUME ChanInvariant, NEW u \in Users, RecvStep(u) \/ TimedStep(u)
    PROVE  ChanInvariant'
  <1>1. u \notin asleep /\ call[u] \in {"recv", "timed"} /\ calls \in [Users -> 0 .. MaxCalls]
    BY DEF RecvStep, TimedStep, ChanInvariant, ChanTypeOK
  <1>2. CASE Pop(u) /\ UNCHANGED <<closed, calls>>
    BY <1>1, <1>2, PopKeeps
  <1>3. CASE Quit(u, Null) /\ UNCHANGED <<closed, calls>>
    BY <1>1, <1>3, QuitKeeps
  <1>4. CASE queue = <<>> /\ ~closed /\ Sleep(u)
    BY <1>1, <1>4, SleepKeeps DEF Calls
  <1> QED
    BY <1>2, <1>3, <1>4 DEF RecvStep, TimedStep

LEMMA TryRecvKeeps ==
    ASSUME ChanInvariant, NEW u \in Users, TryRecv(u)
    PROVE  ChanInvariant'
  <1>1. Count(u) /\ calls' \in [Users -> 0 .. MaxCalls] /\ closed' = closed
    BY CountTypes DEF TryRecv, ChanInvariant
  <1>2. u \notin asleep
    BY <1>1 DEF Count, ChanInvariant, NoLostWakeup, Calls
  <1> QED
    BY <1>1, <1>2, PopKeeps, QuitKeeps DEF TryRecv

LEMMA CloseKeeps ==
    ASSUME ChanInvariant, NEW u \in Users, Close(u)
    PROVE  ChanInvariant'
  <1>1. calls' \in [Users -> 0 .. MaxCalls]
    BY CountTypes DEF Close, ChanInvariant
  <1> QED
    BY <1>1 DEF Close, NotifyAll, ChanInvariant, ChanTypeOK, CarriesValue, WithinCapacity, NoLostWakeup

\* A waiter is woken by its deadline or for no reason.
LEMMA WakeKeeps ==
    ASSUME ChanInvariant, NEW u \in Users, Expire(u) \/ Spurious(u)
    PROVE  ChanInvariant'
  <1>1. /\ UNCHANGED <<queue, closed, call, item, answer, calls>>
        /\ asleep' \subseteq asleep /\ late' \subseteq late \union {u}
    BY DEF Expire, Spurious
  <1> QED
    BY <1>1 DEF ChanInvariant, ChanTypeOK, CarriesValue, WithinCapacity, NoLostWakeup, Full

LEMMA StepKeeps == ChanInvariant /\ [ChanNext]_chanVars => ChanInvariant'
  <1> SUFFICES ASSUME ChanInvariant, [ChanNext]_chanVars PROVE ChanInvariant'
    OBVIOUS
  <1>1. CASE UNCHANGED chanVars
    BY <1>1 DEF chanVars, ChanInvariant, ChanTypeOK, CarriesValue, WithinCapacity, NoLostWakeup, Full
  <1>2. ASSUME NEW u \in Users, ChanStep(u) PROVE ChanInvariant'
    BY <1>2, BeginKeeps, SendKeeps, ReceiveKeeps, TryRecvKeeps, CloseKeeps, WakeKeeps DEF ChanStep, Pass
  <1> QED
    BY <1>1, <1>2 DEF ChanNext

-----------------------------------------------------------------------------
(* Every call of the channel preserves the strengthened invariant.         *)
THEOREM ChannelInvariant == ChanSpec => []ChanInvariant
  BY InitHolds, StepKeeps, PTL DEF ChanSpec

(* No path through send, recv, recv_timeout, try_recv or close strands a   *)
(* sleeping thread, for any number of threads and any capacity.            *)
THEOREM NoWakeupLost == ChanSpec => []NoLostWakeup
  <1>1. ChanInvariant => NoLostWakeup
    BY DEF ChanInvariant
  <1> QED
    BY <1>1, ChannelInvariant, PTL

(* The types of the channel's state, and the queue within its capacity.    *)
THEOREM ChannelTypes == ChanSpec => [](ChanTypeOK /\ WithinCapacity)
  <1>1. ChanInvariant => ChanTypeOK /\ WithinCapacity
    BY DEF ChanInvariant
  <1> QED
    BY <1>1, ChannelInvariant, PTL


-----------------------------------------------------------------------------
(* Refinement: each step of the channel is a step of the queue in which    *)
(* calls take effect at once, or changes nothing of it.                    *)

LEMMA QuitAnswers ==
    ASSUME NEW u \in Users, NEW a, Quit(u, a)
    PROVE  Abstract!Answer(u, a) /\ queue' = queue
  BY DEF Quit, Return, Abstract!Answer

LEMMA PopTakes ==
    ASSUME NEW u \in Users, Pop(u), call[u] # "send", closed' = closed
    PROVE  Abstract!Take(u)
  BY DEF Pop, Return, Abstract!Take, Abstract!Answer

LEMMA SleepStutters ==
    ASSUME NEW u \in Users, Sleep(u) \/ Expire(u) \/ Spurious(u)
    PROVE  UNCHANGED Abstract!vars
  BY DEF Sleep, Expire, Spurious, Abstract!vars

LEMMA BeginAsks ==
    ASSUME ChanTypeOK, NEW u \in Users,
           (\E v \in Values : BeginSend(u, v)) \/ BeginRecv(u) \/ BeginTimed(u)
    PROVE  Abstract!Ask(u)
  <1>1. call[u] = "none" /\ UNCHANGED <<queue, closed, answer>>
    BY DEF BeginSend, BeginRecv, BeginTimed, Count
  <1>2. \E k \in {"send", "recv", "timed"} : call' = [call EXCEPT ![u] = k]
    BY DEF BeginSend, BeginRecv, BeginTimed
  <1>3. \E v \in Values \union {Null} : item' = [item EXCEPT ![u] = v]
    <2>1. item = [item EXCEPT ![u] = item[u]] /\ item[u] \in Values \union {Null}
      BY DEF ChanTypeOK
    <2> QED
      BY <2>1 DEF BeginSend, BeginRecv, BeginTimed
  <1> QED
    BY <1>1, <1>2, <1>3 DEF Abstract!Ask

LEMMA SendImplements ==
    ASSUME ChanInvariant, NEW u \in Users, SendStep(u)
    PROVE  Abstract!Put(u) \/ Abstract!Refuse(u) \/ UNCHANGED Abstract!vars
  <1>1. CASE closed /\ Quit(u, "refused") /\ UNCHANGED <<closed, calls>>
    BY <1>1, QuitAnswers DEF SendStep, Abstract!Refuse
  <1>2. CASE /\ ~closed /\ ~Full
             /\ queue' = Append(queue, item[u])
             /\ Return(u, "sent")
             /\ UNCHANGED <<closed, calls>>
    <2>1. Len(queue) < Capacity
      BY <1>2, LenProperties, CapacityAssumption DEF Full, ChanInvariant, ChanTypeOK
    <2> QED
      BY <1>2, <2>1 DEF SendStep, Return, Abstract!Put, Abstract!Answer
  <1>3. CASE Sleep(u)
    BY <1>3, SleepStutters
  <1> QED
    BY <1>1, <1>2, <1>3 DEF SendStep

LEMMA ReceiveImplements ==
    ASSUME NEW u \in Users, RecvStep(u) \/ TimedStep(u) \/ TryRecv(u)
    PROVE  Abstract!Take(u) \/ Abstract!Nothing(u) \/ UNCHANGED Abstract!vars
  <1>1. call[u] # "send"
    BY DEF RecvStep, TimedStep, TryRecv, Count
  <1>2. CASE Pop(u) /\ closed' = closed
    BY <1>1, <1>2, PopTakes
  <1>3. CASE queue = <<>> /\ (call[u] = "recv" => closed) /\ Quit(u, Null) /\ closed' = closed
    BY <1>1, <1>3, QuitAnswers DEF Abstract!Nothing
  <1>4. CASE Sleep(u)
    BY <1>4, SleepStutters
  <1> QED
    BY <1>2, <1>3, <1>4 DEF RecvStep, TimedStep, TryRecv, Count

LEMMA StepImplements == ChanInvariant /\ [ChanNext]_chanVars => [Abstract!Next]_(Abstract!vars)
  <1> SUFFICES ASSUME ChanInvariant, [ChanNext]_chanVars PROVE [Abstract!Next]_(Abstract!vars)
    OBVIOUS
  <1>1. CASE UNCHANGED chanVars
    BY <1>1 DEF chanVars, Abstract!vars
  <1>2. ASSUME NEW u \in Users, ChanStep(u) PROVE [Abstract!Next]_(Abstract!vars)
    <2>1. CASE (\E v \in Values : BeginSend(u, v)) \/ BeginRecv(u) \/ BeginTimed(u)
      BY <2>1, BeginAsks DEF ChanInvariant, Abstract!Next
    <2>2. CASE SendStep(u)
      BY <2>2, SendImplements DEF Abstract!Next
    <2>3. CASE RecvStep(u) \/ TimedStep(u) \/ TryRecv(u)
      BY <2>3, ReceiveImplements DEF Abstract!Next
    <2>4. CASE Close(u)
      BY <2>4 DEF Close, Count, Abstract!Close, Abstract!Next
    <2>5. CASE Expire(u) \/ Spurious(u)
      BY <2>5, SleepStutters
    <2> QED
      BY <1>2, <2>1, <2>2, <2>3, <2>4, <2>5 DEF ChanStep, Pass
  <1> QED
    BY <1>1, <1>2 DEF ChanNext

(* The safety part of ImplementsQueue: values leave in the order they      *)
(* came, recv gives null only when the channel is closed and drained, and  *)
(* send is refused only when it is closed.                                 *)
THEOREM ChannelIsQueue == ChanSpec => Abstract!Init /\ [][Abstract!Next]_(Abstract!vars)
  <1>1. ChanInit => Abstract!Init
    BY DEF ChanInit, Abstract!Init
  <1> QED
    BY <1>1, ChannelInvariant, StepImplements, PTL DEF ChanSpec

-----------------------------------------------------------------------------
(* The threads alone.                                                      *)

Types ==
    /\ pc \in [Thread -> Stage] /\ at \in [Thread -> Worker \union {None}]
    /\ registry \in Seq(Worker) /\ todo \in Seq(Worker)
    /\ handle \in [Worker -> {"none", "held", "taken"}]
    /\ result \in [Worker -> Outcome \union {"none"}]
    /\ outcome \in [Worker -> Outcome \union {"none"}]
    /\ knows \in [Thread -> SUBSET Worker]
    /\ told \in [Thread -> [Worker -> Outcome \union {"none", "consumed"}]]

\* A thread that spawns or joins another one is busy with one.
BusyWithWorker ==
    \A t \in Thread : pc[t] \in {"counted", "started", "join", "reaping"} => at[t] \in Worker

\* The worker that a spawn is about to start was never started, it has no
\* handle until the spawn ends, and no two spawns are about the same worker.
SpawnsApart ==
    /\ \A w \in Worker : pc[w] = "unborn" => handle[w] = "none"
    /\ \A t \in Thread : pc[t] = "counted" => pc[at[t]] = "unborn"
    /\ \A t \in Thread : pc[t] = "started" => handle[at[t]] = "none" /\ pc[at[t]] # "unborn"
    /\ \A t, u \in Thread :
          pc[t] \in {"counted", "started"} /\ pc[u] \in {"counted", "started"} /\ at[t] = at[u] => t = u

\* What was cached is how the thread ended.
CachedTruthful ==
    \A w \in Worker :
        /\ result[w] # "none" => pc[w] = "over" /\ result[w] = outcome[w]
        /\ pc[w] = "over" => outcome[w] \in Outcome

\* OneJoiner without counting.
SoleJoiner ==
    \A w \in Worker :
        IF handle[w] = "taken" /\ result[w] = "none" THEN \E t \in Thread : Joining(w) = {t}
                                                      ELSE Joining(w) = {}

\* The reaper that waits has a handle to wait for.
ReaperAtWork == pc[Main] = "reaping" => todo # <<>>

ThreadInvariant ==
    /\ Types /\ BusyWithWorker /\ SpawnsApart
    /\ CachedTruthful /\ JoinTruthful /\ SoleJoiner

-----------------------------------------------------------------------------

LEMMA WorkersAreThreads == Worker \subseteq Thread
  BY DEF Thread

LEMMA ThreadInitHolds == ThreadInit => ThreadInvariant
  <1> SUFFICES ASSUME ThreadInit PROVE ThreadInvariant
    OBVIOUS
  <1>1. registry \in Seq(Worker) /\ todo \in Seq(Worker)
    BY EmptySeq DEF ThreadInit
  <1>2. Main \in Thread /\ Worker \subseteq Thread /\ Main \notin Worker
    BY ThreadAssumption DEF Thread
  <1>3. \A t \in Thread : pc[t] \in {"run", "unborn"}
    BY DEF ThreadInit
  <1>4. pc \in [Thread -> Stage] /\ at \in [Thread -> Worker \union {None}]
    BY DEF ThreadInit, Stage
  <1>5. /\ handle \in [Worker -> {"none", "held", "taken"}]
        /\ result \in [Worker -> Outcome \union {"none"}]
        /\ outcome \in [Worker -> Outcome \union {"none"}]
        /\ knows \in [Thread -> SUBSET Worker]
    BY DEF ThreadInit
  <1>6. told \in [Thread -> [Worker -> Outcome \union {"none", "consumed"}]]
    BY DEF ThreadInit
  <1>7. Types
    BY <1>1, <1>4, <1>5, <1>6 DEF Types
  <1>8. BusyWithWorker /\ SpawnsApart
    BY <1>2, <1>3 DEF BusyWithWorker, SpawnsApart, ThreadInit
  <1>9. CachedTruthful
    BY <1>2, <1>3 DEF CachedTruthful, ThreadInit
  <1>11. JoinTruthful
    BY DEF JoinTruthful, Outcome, ThreadInit
  <1>10. SoleJoiner
    BY <1>3 DEF SoleJoiner, Joining, ThreadInit
  <1> QED
    BY <1>7, <1>8, <1>9, <1>10, <1>11 DEF ThreadInvariant

\* A thread that only changes its own stage, between stages that are no part
\* of a spawn or a join, disturbs nothing.
LEMMA IdleMove ==
    ASSUME ThreadInvariant, NEW t \in Thread, NEW s \in {"allowed", "reap", "over"},
           pc[t] \in {"run", "reap"}, t \in Worker => s # "over",
           pc' = [pc EXCEPT ![t] = s], at' = [at EXCEPT ![t] = None],
           UNCHANGED <<registry, handle, result, outcome, knows, told>>,
           todo' \in Seq(Worker)
    PROVE  ThreadInvariant'
  <1> USE DEF ThreadInvariant
  <1>1. Types'
    BY DEF Types, Stage
  <1>2. BusyWithWorker'
    BY DEF Types, BusyWithWorker
  <1>3. SpawnsApart'
    BY DEF Types, SpawnsApart, BusyWithWorker, Thread
  <1>4. CachedTruthful' /\ JoinTruthful'
    BY DEF Types, CachedTruthful, JoinTruthful, Thread
  <1>5. \A w \in Worker : Joining(w)' = Joining(w)
    BY DEF Types, Joining
  <1>6. SoleJoiner'
    BY <1>5 DEF SoleJoiner
  <1> QED
    BY <1>1, <1>2, <1>3, <1>4, <1>6

-----------------------------------------------------------------------------
(* Spawning. *)

LEMMA SpawnCountKeeps ==
    ASSUME ThreadInvariant, NEW t \in Thread, SpawnCount(t)
    PROVE  ThreadInvariant'
  <1> USE DEF ThreadInvariant
  <1>1. PICK w \in Unborn : Goto(t, "counted", w)
    BY DEF SpawnCount
  <1>2. w \in Worker /\ pc[w] = "unborn" /\ \A u \in Thread : at[u] # w
    BY DEF Unborn
  <1>3. /\ pc[t] = "allowed" /\ w # t
        /\ pc' = [pc EXCEPT ![t] = "counted"] /\ at' = [at EXCEPT ![t] = w]
        /\ UNCHANGED <<registry, handle, result, outcome, knows, told, todo>>
    BY <1>1, <1>2 DEF SpawnCount, Goto
  <1>4. Types'
    BY <1>2, <1>3 DEF Types, Stage
  <1>5. BusyWithWorker'
    BY <1>2, <1>3 DEF Types, BusyWithWorker
  <1>6. SpawnsApart'
    <2>1. \A x \in Worker : pc'[x] = "unborn" => handle'[x] = "none"
      BY <1>3 DEF Types, SpawnsApart, Thread
    <2>2. \A u \in Thread : pc'[u] = "counted" => pc'[at'[u]] = "unborn"
      BY <1>2, <1>3 DEF Types, SpawnsApart, BusyWithWorker, Thread
    <2>3. \A u \in Thread : pc'[u] = "started" => handle'[at'[u]] = "none" /\ pc'[at'[u]] # "unborn"
      BY <1>3 DEF Types, SpawnsApart, BusyWithWorker, Thread
    <2>4. \A u, v \in Thread :
             pc'[u] \in {"counted", "started"} /\ pc'[v] \in {"counted", "started"} /\ at'[u] = at'[v] => u = v
      BY <1>2, <1>3 DEF Types, SpawnsApart
    <2> QED
      BY <2>1, <2>2, <2>3, <2>4 DEF SpawnsApart
  <1>7. CachedTruthful' /\ JoinTruthful'
    BY <1>3 DEF Types, CachedTruthful, JoinTruthful, Thread
  <1>8. \A x \in Worker : Joining(x)' = Joining(x)
    BY <1>3 DEF Types, Joining
  <1>9. SoleJoiner'
    BY <1>3, <1>8 DEF SoleJoiner
  <1> QED
    BY <1>4, <1>5, <1>6, <1>7, <1>9

\* The thread that starts was unborn, so nobody joined it and no other spawn
\* is about it.
LEMMA SpawnStartKeeps ==
    ASSUME ThreadInvariant, NEW t \in Thread, SpawnStart(t)
    PROVE  ThreadInvariant'
  <1> USE DEF ThreadInvariant
  <1>0. PICK w \in Worker : w = at[t]
    BY DEF SpawnStart, BusyWithWorker
  <1>1. w \in Worker /\ w \in Thread /\ pc[t] = "counted" /\ pc[w] = "unborn" /\ w # t /\ handle[w] = "none"
    BY <1>0 DEF SpawnStart, SpawnsApart, Thread
  <1>2. /\ pc' = [pc EXCEPT ![t] = "started", ![w] = "run"]
        /\ UNCHANGED <<at, registry, handle, result, outcome, told, todo>>
    BY <1>0 DEF SpawnStart
  <1>3. PICK args \in SUBSET (IF shares THEN knows[t] ELSE {}) : knows' = [knows EXCEPT ![w] = args]
    BY <1>0 DEF SpawnStart
  <1>4. knows' \in [Thread -> SUBSET Worker]
    BY <1>3 DEF Types
  <1>5. pc' \in [Thread -> Stage]
    BY <1>2 DEF Types, Stage
  <1>6. Types'
    BY <1>2, <1>4, <1>5 DEF Types
  <1>7. /\ pc'[t] = "started" /\ pc'[w] = "run"
        /\ \A u \in Thread : u # t /\ u # w => pc'[u] = pc[u]
    BY <1>1, <1>2 DEF Types
  <1>8. BusyWithWorker'
    BY <1>0, <1>1, <1>2, <1>7 DEF BusyWithWorker
  <1>9. SpawnsApart'
    <2>1. \A x \in Worker : pc'[x] = "unborn" => handle'[x] = "none"
      BY <1>1, <1>2, <1>7, WorkersAreThreads DEF SpawnsApart
    <2>2. ASSUME NEW u \in Thread, pc'[u] = "counted"
          PROVE  pc'[at'[u]] = "unborn"
      <3>1. u # t /\ u # w /\ pc[u] = "counted"
        BY <1>1, <1>7, <2>2
      <3>2. at[u] \in Worker /\ pc[at[u]] = "unborn"
        BY <3>1 DEF BusyWithWorker, SpawnsApart
      <3>3. at[u] # at[t]
        BY <1>1, <3>1 DEF SpawnsApart
      <3>4. at[u] \in Thread /\ at[u] # w /\ at[u] # t
        BY <1>0, <1>1, <3>2, <3>3, WorkersAreThreads
      <3>5. pc'[at[u]] = "unborn"
        BY <1>7, <3>2, <3>4
      <3> QED
        BY <1>2, <3>5
    <2>4. ASSUME NEW u \in Thread, pc'[u] = "started"
          PROVE  handle'[at'[u]] = "none" /\ pc'[at'[u]] # "unborn"
      <3>1. CASE u = t
        BY <1>0, <1>1, <1>2, <1>7, <3>1
      <3>2. CASE u # t
        <4>1. pc[u] = "started"
          BY <1>7, <2>4, <3>2
        <4>2. at[u] \in Thread /\ handle[at[u]] = "none" /\ pc[at[u]] # "unborn"
          BY <4>1, WorkersAreThreads DEF SpawnsApart, BusyWithWorker
        <4>3. pc'[at[u]] # "unborn"
          BY <1>7, <4>2
        <4> QED
          BY <1>2, <4>2, <4>3
      <3> QED
        BY <3>1, <3>2
    <2>5. \A u \in Thread : pc'[u] \in {"counted", "started"} => pc[u] \in {"counted", "started"}
      BY <1>1, <1>7
    <2>6. \A u, v \in Thread :
             pc'[u] \in {"counted", "started"} /\ pc'[v] \in {"counted", "started"} /\ at'[u] = at'[v] => u = v
      BY <1>2, <2>5 DEF SpawnsApart
    <2> QED
      BY <2>1, <2>2, <2>4, <2>6 DEF SpawnsApart
  <1>10. \A x \in Worker : pc'[x] = "over" <=> pc[x] = "over"
    BY <1>1, <1>7, WorkersAreThreads
  <1>13. CachedTruthful' /\ JoinTruthful'
    BY <1>2, <1>10 DEF CachedTruthful, JoinTruthful
  <1>11. \A x \in Worker : Joining(x)' = Joining(x)
    BY <1>1, <1>2, <1>7 DEF Joining
  <1>12. SoleJoiner'
    BY <1>2, <1>11 DEF SoleJoiner
  <1> QED
    BY <1>6, <1>8, <1>9, <1>12, <1>13

LEMMA SpawnFailsKeeps ==
    ASSUME ThreadInvariant, NEW t \in Thread, SpawnFails(t)
    PROVE  ThreadInvariant'
  <1> USE DEF ThreadInvariant
  <1>1. /\ pc[t] = "counted" /\ pc' = [pc EXCEPT ![t] = "run"] /\ at' = [at EXCEPT ![t] = None]
        /\ UNCHANGED <<registry, handle, result, outcome, knows, told, todo>>
    BY DEF SpawnFails, Goto
  <1>2. Types' /\ BusyWithWorker'
    BY <1>1 DEF Types, Stage, BusyWithWorker
  <1>3. SpawnsApart'
    BY <1>1 DEF Types, SpawnsApart, BusyWithWorker, Thread
  <1>4. CachedTruthful' /\ JoinTruthful'
    BY <1>1 DEF Types, CachedTruthful, JoinTruthful, Thread
  <1>5. \A x \in Worker : Joining(x)' = Joining(x)
    BY <1>1 DEF Types, Joining
  <1>6. SoleJoiner'
    BY <1>1, <1>5 DEF SoleJoiner
  <1> QED
    BY <1>2, <1>3, <1>4, <1>6

LEMMA SpawnRegisterKeeps ==
    ASSUME ThreadInvariant, NEW t \in Thread, SpawnRegister(t)
    PROVE  ThreadInvariant'
  <1> USE DEF ThreadInvariant
  <1>0. PICK w \in Worker : w = at[t]
    BY DEF SpawnRegister, BusyWithWorker
  <1>1. w \in Worker /\ pc[t] = "started" /\ handle[w] = "none" /\ pc[w] # "unborn"
    BY <1>0 DEF SpawnRegister, SpawnsApart
  <1>2. /\ pc' = [pc EXCEPT ![t] = "run"] /\ at' = [at EXCEPT ![t] = None]
        /\ handle' = [handle EXCEPT ![w] = "held"]
        /\ registry' = Append(registry, w)
        /\ knows' = [knows EXCEPT ![t] = @ \union {w}]
        /\ UNCHANGED <<result, outcome, told, todo>>
    BY <1>0 DEF SpawnRegister, Goto
  <1>3. registry' \in Seq(Worker)
    BY <1>1, <1>2, AppendProperties DEF Types
  <1>4. knows' \in [Thread -> SUBSET Worker]
    BY <1>1, <1>2 DEF Types
  <1>5. handle' \in [Worker -> {"none", "held", "taken"}]
    BY <1>1, <1>2 DEF Types
  <1>6. pc' \in [Thread -> Stage] /\ at' \in [Thread -> Worker \union {None}]
    BY <1>2 DEF Types, Stage
  <1>7. Types'
    BY <1>2, <1>3, <1>4, <1>5, <1>6 DEF Types
  <1>8. /\ pc'[t] = "run" /\ \A u \in Thread : u # t => pc'[u] = pc[u] /\ at'[u] = at[u]
        /\ handle'[w] = "held" /\ \A x \in Worker : x # w => handle'[x] = handle[x]
    BY <1>1, <1>2 DEF Types
  <1>9. BusyWithWorker'
    BY <1>8 DEF BusyWithWorker
  <1>10. SpawnsApart'
    <2>1. \A x \in Worker : pc'[x] = "unborn" => handle'[x] = "none"
      BY <1>1, <1>8 DEF SpawnsApart, Thread
    <2>2. \A u \in Thread : pc'[u] = "counted" => pc'[at'[u]] = "unborn"
      BY <1>1, <1>8 DEF SpawnsApart, BusyWithWorker, Thread
    <2>3. \A u \in Thread : pc'[u] = "started" => at'[u] \in Worker /\ at'[u] # w
      BY <1>0, <1>1, <1>8 DEF SpawnsApart, BusyWithWorker
    <2>4. \A u \in Thread : pc'[u] = "started" => handle'[at'[u]] = "none" /\ pc'[at'[u]] # "unborn"
      BY <1>8, <2>3 DEF SpawnsApart, Thread
    <2>5. \A u \in Thread : pc'[u] \in {"counted", "started"} => u # t
      BY <1>8
    <2> QED
      BY <1>8, <2>1, <2>2, <2>4, <2>5 DEF SpawnsApart
  <1>11. CachedTruthful' /\ JoinTruthful'
    BY <1>1, <1>2, <1>8 DEF CachedTruthful, JoinTruthful, Thread
  <1>12. \A x \in Worker : Joining(x)' = Joining(x)
    BY <1>1, <1>8 DEF Joining
  <1>13. SoleJoiner'
    BY <1>1, <1>2, <1>8, <1>12 DEF SoleJoiner
  <1> QED
    BY <1>7, <1>9, <1>10, <1>11, <1>13

-----------------------------------------------------------------------------
(* The end of a body, and joining. *)

\* Only a thread that runs ends, so nothing was cached or told of it.
LEMMA FinishKeeps ==
    ASSUME ThreadInvariant, NEW t \in Thread, Finish(t)
    PROVE  ThreadInvariant'
  <1> USE DEF ThreadInvariant
  <1>1. PICK o \in Outcome : outcome' = [outcome EXCEPT ![t] = o]
    BY DEF Finish
  <1>2. /\ t \in Worker /\ pc[t] = "run"
        /\ pc' = [pc EXCEPT ![t] = "over"] /\ at' = [at EXCEPT ![t] = None]
        /\ UNCHANGED <<registry, handle, result, knows, told, todo>>
    BY DEF Finish, Goto
  <1>3. Types'
    BY <1>1, <1>2 DEF Types, Stage
  <1>4. BusyWithWorker'
    BY <1>2 DEF Types, BusyWithWorker
  <1>5. SpawnsApart'
    BY <1>2 DEF Types, SpawnsApart, BusyWithWorker, Thread
  <1>6. result[t] = "none" /\ \A u \in Thread : told[u][t] \notin Outcome
    BY <1>2 DEF CachedTruthful, JoinTruthful
  <1>7. CachedTruthful'
    BY <1>1, <1>2, <1>6 DEF Types, CachedTruthful, Thread
  <1>8. JoinTruthful'
    BY <1>1, <1>2, <1>6 DEF Types, JoinTruthful, Thread
  <1>9. \A x \in Worker : Joining(x)' = Joining(x)
    BY <1>2 DEF Types, Joining
  <1>10. SoleJoiner'
    BY <1>2, <1>9 DEF SoleJoiner
  <1> QED
    BY <1>3, <1>4, <1>5, <1>7, <1>8, <1>10

\* A join that need not wait tells what was cached, or that it was consumed.
LEMMA TellKeeps ==
    ASSUME ThreadInvariant, NEW t \in Thread, NEW w \in Worker,
           JoinCached(t, w) \/ JoinConsumed(t, w)
    PROVE  ThreadInvariant'
  <1> USE DEF ThreadInvariant
  <1>1. UNCHANGED <<pc, at, registry, handle, result, outcome, knows, todo>>
    BY DEF JoinCached, JoinConsumed
  <1>2. PICK a \in Outcome \union {"consumed"} :
           /\ told' = [told EXCEPT ![t][w] = a]
           /\ a # "consumed" => result[w] = a
    BY DEF JoinCached, JoinConsumed, Told, Types
  <1>3. told' \in [Thread -> [Worker -> Outcome \union {"none", "consumed"}]]
    BY <1>2 DEF Types
  <1>4. Types' /\ BusyWithWorker' /\ SpawnsApart' /\ CachedTruthful'
    BY <1>1, <1>3 DEF Types, BusyWithWorker, SpawnsApart, CachedTruthful
  <1>5. a \in Outcome => pc[w] = "over" /\ a = outcome[w]
    BY <1>2 DEF CachedTruthful, Outcome
  <1>6. JoinTruthful'
    BY <1>1, <1>2, <1>5 DEF Types, JoinTruthful
  <1>7. SoleJoiner'
    BY <1>1 DEF SoleJoiner, Joining
  <1> QED
    BY <1>4, <1>6, <1>7

\* Whoever takes the handle out is its only joiner: the handle was held, so
\* nobody was joining.
LEMMA TakeKeeps ==
    ASSUME ThreadInvariant, NEW t \in Thread, NEW w \in Worker,
           NEW s \in {"join", "reaping"}, pc[t] \in {"run", "reap"},
           result[w] = "none", handle[w] = "held",
           handle' = [handle EXCEPT ![w] = "taken"], Goto(t, s, w),
           UNCHANGED <<registry, result, outcome, knows, told, todo>>
    PROVE  ThreadInvariant'
  <1> USE DEF ThreadInvariant
  <1>1. pc' = [pc EXCEPT ![t] = s] /\ at' = [at EXCEPT ![t] = w]
    BY DEF Goto
  <1>2. handle' \in [Worker -> {"none", "held", "taken"}]
    BY DEF Types
  <1>3. Types'
    BY <1>1, <1>2 DEF Types, Stage
  <1>4. BusyWithWorker'
    BY <1>1 DEF Types, BusyWithWorker
  <1>5. /\ pc'[t] = s /\ at'[t] = w /\ \A u \in Thread : u # t => pc'[u] = pc[u] /\ at'[u] = at[u]
        /\ handle'[w] = "taken" /\ \A x \in Worker : x # w => handle'[x] = handle[x]
    BY <1>1 DEF Types
  <1>6. SpawnsApart'
    <2>1. \A x \in Worker : pc'[x] = "unborn" => handle'[x] = "none"
      BY <1>5 DEF SpawnsApart, Thread
    <2>2. \A u \in Thread : pc'[u] = "counted" => pc'[at'[u]] = "unborn"
      BY <1>5 DEF SpawnsApart, BusyWithWorker, Thread
    <2>3. \A u \in Thread : pc'[u] = "started" => handle'[at'[u]] = "none" /\ pc'[at'[u]] # "unborn"
      BY <1>5 DEF SpawnsApart, BusyWithWorker, Thread
    <2>4. \A u \in Thread : pc'[u] \in {"counted", "started"} => u # t
      BY <1>5
    <2> QED
      BY <1>5, <2>1, <2>2, <2>3, <2>4 DEF SpawnsApart
  <1>7. CachedTruthful' /\ JoinTruthful'
    BY <1>5 DEF CachedTruthful, JoinTruthful, Thread
  <1>8. Joining(w)' = {t}
    <2>1. Joining(w) = {}
      BY DEF SoleJoiner
    <2> QED
      BY <2>1, <1>5 DEF Joining
  <1>9. \A x \in Worker : x # w => Joining(x)' = Joining(x)
    BY <1>5 DEF Joining
  <1>10. SoleJoiner'
    BY <1>5, <1>8, <1>9 DEF SoleJoiner
  <1> QED
    BY <1>3, <1>4, <1>6, <1>7, <1>10

\* The joiner caches what the other thread ended with, and nobody joins it
\* any more.
LEMMA DoneKeeps ==
    ASSUME ThreadInvariant, NEW t \in Thread, NEW s \in {"run", "reap"},
           pc[t] \in {"join", "reaping"}, pc[at[t]] = "over",
           result' = [result EXCEPT ![at[t]] = outcome[at[t]]],
           Goto(t, s, None), todo' \in Seq(Worker),
           told' = told \/ Told(t, at[t], outcome[at[t]]),
           UNCHANGED <<registry, handle, outcome, knows>>
    PROVE  ThreadInvariant'
  <1> USE DEF ThreadInvariant
  <1>0. PICK w \in Worker : w = at[t]
    BY DEF BusyWithWorker
  <1>1. pc' = [pc EXCEPT ![t] = s] /\ at' = [at EXCEPT ![t] = None]
    BY DEF Goto
  <1>2. w \in Worker /\ outcome[w] \in Outcome /\ pc[w] = "over"
    BY <1>0 DEF CachedTruthful
  <1>3. result' = [result EXCEPT ![w] = outcome[w]]
    BY <1>0
  <1>4. told' = told \/ told' = [told EXCEPT ![t][w] = outcome[w]]
    BY <1>0 DEF Told
  <1>5. /\ told' \in [Thread -> [Worker -> Outcome \union {"none", "consumed"}]]
        /\ \A u \in Thread, x \in Worker :
              told'[u][x] = told[u][x] \/ (x = w /\ told'[u][x] = outcome[w])
    <2>1. CASE told' = told
      BY <2>1 DEF Types
    <2>2. CASE told' = [told EXCEPT ![t][w] = outcome[w]]
      BY <1>2, <2>2 DEF Types
    <2> QED
      BY <1>4, <2>1, <2>2
  <1>6. result' \in [Worker -> Outcome \union {"none"}]
    BY <1>2, <1>3 DEF Types
  <1>7. Types'
    BY <1>1, <1>5, <1>6 DEF Types, Stage
  <1>8. /\ pc'[t] = s /\ at'[t] = None
        /\ \A u \in Thread : u # t => pc'[u] = pc[u] /\ at'[u] = at[u]
        /\ result'[w] = outcome[w] /\ \A x \in Worker : x # w => result'[x] = result[x]
    BY <1>1, <1>2, <1>3 DEF Types
  <1>9. BusyWithWorker'
    BY <1>8 DEF BusyWithWorker
  <1>10. SpawnsApart'
    <2>1. \A x \in Worker : pc'[x] = "unborn" => handle'[x] = "none"
      BY <1>8 DEF SpawnsApart, Thread
    <2>2. \A u \in Thread : pc'[u] = "counted" => pc'[at'[u]] = "unborn"
      BY <1>8 DEF SpawnsApart, BusyWithWorker, Thread
    <2>3. \A u \in Thread : pc'[u] = "started" => handle'[at'[u]] = "none" /\ pc'[at'[u]] # "unborn"
      BY <1>8 DEF SpawnsApart, BusyWithWorker, Thread
    <2>4. \A u \in Thread : pc'[u] \in {"counted", "started"} => u # t
      BY <1>8
    <2> QED
      BY <1>8, <2>1, <2>2, <2>3, <2>4 DEF SpawnsApart
  <1>11. CachedTruthful'
    BY <1>2, <1>8 DEF CachedTruthful, Thread
  <1>12. JoinTruthful'
    <2>1. \A x \in Worker : pc[x] = "over" => pc'[x] = "over"
      BY <1>8, WorkersAreThreads
    <2> QED
      BY <1>2, <1>5, <2>1 DEF JoinTruthful
  <1>13. Joining(w)' = {}
    <2>1. t \in Joining(w)
      BY <1>0 DEF Joining
    <2>2. \E u \in Thread : Joining(w) = {u}
      BY <1>2, <2>1 DEF SoleJoiner
    <2>3. Joining(w) = {t}
      BY <2>1, <2>2
    <2> QED
      BY <1>8, <2>3 DEF Joining
  <1>14. \A x \in Worker : x # w => Joining(x)' = Joining(x)
    BY <1>0, <1>8 DEF Joining
  <1>15. SoleJoiner'
    BY <1>2, <1>8, <1>13, <1>14 DEF SoleJoiner, Outcome
  <1> QED
    BY <1>7, <1>9, <1>10, <1>11, <1>12, <1>15


-----------------------------------------------------------------------------
(* The rest of the steps, and the theorems. *)

LEMMA ListsKeep ==
    ASSUME ThreadInvariant, UNCHANGED <<pc, at, registry, handle, result, outcome, told>>,
           todo' \in Seq(Worker), knows' \in [Thread -> SUBSET Worker]
    PROVE  ThreadInvariant'
  <1> USE DEF ThreadInvariant
  <1>1. Types'
    BY DEF Types
  <1>2. BusyWithWorker' /\ SpawnsApart'
    BY DEF BusyWithWorker, SpawnsApart
  <1>3. CachedTruthful' /\ JoinTruthful'
    BY DEF CachedTruthful, JoinTruthful
  <1>4. SoleJoiner'
    BY DEF SoleJoiner, Joining
  <1> QED
    BY <1>1, <1>2, <1>3, <1>4

LEMMA LearnKeeps ==
    ASSUME ThreadInvariant, NEW t \in Thread, NEW w \in Worker, Learn(t, w)
    PROVE  ThreadInvariant'
  <1>1. UNCHANGED <<pc, at, registry, handle, result, outcome, told, todo>>
    BY DEF Learn
  <1>2. knows' \in [Thread -> SUBSET Worker] /\ todo' \in Seq(Worker)
    BY DEF Learn, ThreadInvariant, Types
  <1> QED
    BY <1>1, <1>2, ListsKeep

LEMMA OperationKeeps ==
    ASSUME ThreadInvariant, NEW t \in Thread, Operation(t)
    PROVE  ThreadInvariant'
  <1>1. CASE SpawnCheck(t)
    BY <1>1, IdleMove DEF SpawnCheck, Goto, ThreadInvariant, Types
  <1>2. ASSUME NEW w \in Worker, JoinCached(t, w) \/ JoinConsumed(t, w) PROVE ThreadInvariant'
    BY <1>2, TellKeeps
  <1>3. ASSUME NEW w \in Worker, JoinTake(t, w) PROVE ThreadInvariant'
    BY <1>3, TakeKeeps DEF JoinTake
  <1> QED
    BY <1>1, <1>2, <1>3 DEF Operation

LEMMA InsideKeeps ==
    ASSUME ThreadInvariant, NEW t \in Thread, Inside(t)
    PROVE  ThreadInvariant'
  <1>1. CASE JoinDone(t)
    BY <1>1, DoneKeeps DEF JoinDone, ThreadInvariant, Types
  <1> QED
    BY <1>1, SpawnCountKeeps, SpawnStartKeeps, SpawnFailsKeeps, SpawnRegisterKeeps DEF Inside

LEMMA EndOfRunKeeps ==
    ASSUME ThreadInvariant, ReaperAtWork, EndOfRun
    PROVE  ThreadInvariant'
  <1>1. Main \in Thread /\ Main \notin Worker
    BY ThreadAssumption DEF Thread
  <1>2. registry \in Seq(Worker) /\ todo \in Seq(Worker)
    BY DEF ThreadInvariant, Types
  <1>3. CASE MainEnd
    BY <1>1, <1>2, <1>3, IdleMove DEF MainEnd, Goto
  <1>4. CASE ReapTake
    <2>1. Head(todo) \in Worker
      BY <1>2, <1>4, HeadTailProperties DEF ReapTake
    <2> QED
      BY <1>1, <1>4, <2>1, TakeKeeps DEF ReapTake
  <1>5. CASE ReapSkip
    <2>1. todo' \in Seq(Worker)
      BY <1>2, <1>5, HeadTailProperties DEF ReapSkip
    <2>2. UNCHANGED <<pc, at, registry, handle, result, outcome, knows, told>>
      BY <1>5 DEF ReapSkip
    <2>3. knows' \in [Thread -> SUBSET Worker]
      BY <2>2 DEF ThreadInvariant, Types
    <2> QED
      BY <2>1, <2>2, <2>3, ListsKeep
  <1>6. CASE ReapDone
    <2>1. todo' \in Seq(Worker)
      BY <1>2, <1>6, HeadTailProperties DEF ReapDone, ReaperAtWork
    <2> QED
      BY <1>1, <1>6, <2>1, DoneKeeps DEF ReapDone
  <1>7. CASE ReapEnd
    BY <1>1, <1>2, <1>7, IdleMove DEF ReapEnd, Goto
  <1> QED
    BY <1>3, <1>4, <1>5, <1>6, <1>7 DEF EndOfRun

\* The reaper has a handle to wait for.
LEMMA ReaperKeeps ==
    ASSUME Types, ReaperAtWork, [ThreadNext]_threadVars
    PROVE  ReaperAtWork'
  <1>1. Main \in Thread
    BY DEF Thread
  <1>2. CASE UNCHANGED threadVars
    BY <1>2 DEF threadVars, ReaperAtWork
  <1>3. ASSUME NEW t \in Thread, Operation(t) PROVE ReaperAtWork'
    <2>1. ASSUME NEW s \in {"allowed", "join"}, pc' = [pc EXCEPT ![t] = s], todo' = todo PROVE ReaperAtWork'
      BY <1>1, <2>1 DEF Types, ReaperAtWork
    <2>2. ASSUME pc' = pc, todo' = todo PROVE ReaperAtWork'
      BY <2>2 DEF ReaperAtWork
    <2> QED
      BY <1>3, <2>1, <2>2 DEF Operation, SpawnCheck, JoinTake, JoinCached, JoinConsumed, Goto
  <1>4. ASSUME NEW t \in Thread, Inside(t) \/ Finish(t) PROVE ReaperAtWork'
    <2>1. ASSUME NEW s \in {"counted", "run", "over"}, pc' = [pc EXCEPT ![t] = s], todo' = todo PROVE ReaperAtWork'
      BY <1>1, <2>1 DEF Types, ReaperAtWork
    <2>2. CASE SpawnStart(t)
      BY <1>1, <2>2 DEF Types, ReaperAtWork, SpawnStart
    <2>3. CASE SpawnCount(t)
      BY <2>1, <2>3 DEF SpawnCount, Goto
    <2> QED
      BY <1>4, <2>1, <2>2, <2>3 DEF Inside, Finish, SpawnFails, SpawnRegister, JoinDone, Goto
  <1>5. ASSUME NEW t \in Thread, NEW w \in Worker, Learn(t, w) PROVE ReaperAtWork'
    BY <1>5 DEF Learn, ReaperAtWork
  <1>6. CASE EndOfRun
    BY <1>1, <1>6 DEF Types, ReaperAtWork, EndOfRun, MainEnd, ReapTake, ReapSkip, ReapDone, ReapEnd, Goto
  <1> QED
    BY <1>2, <1>3, <1>4, <1>5, <1>6 DEF ThreadNext

LEMMA ThreadStepKeeps ==
    ThreadInvariant /\ ReaperAtWork /\ [ThreadNext]_threadVars => (ThreadInvariant /\ ReaperAtWork)'
  <1> SUFFICES ASSUME ThreadInvariant, ReaperAtWork, [ThreadNext]_threadVars
               PROVE  ThreadInvariant'
    BY ReaperKeeps DEF ThreadInvariant
  <1>1. CASE UNCHANGED threadVars
    <2>1. /\ UNCHANGED <<pc, at, registry, handle, result, outcome, told>>
          /\ todo' = todo /\ knows' = knows
      BY <1>1 DEF threadVars
    <2>2. todo' \in Seq(Worker) /\ knows' \in [Thread -> SUBSET Worker]
      BY <2>1 DEF ThreadInvariant, Types
    <2> QED
      BY <2>1, <2>2, ListsKeep
  <1>2. ASSUME NEW t \in Thread, Operation(t) \/ Inside(t) \/ Finish(t) PROVE ThreadInvariant'
    BY <1>2, OperationKeeps, InsideKeeps, FinishKeeps
  <1>3. ASSUME NEW t \in Thread, NEW w \in Worker, Learn(t, w) PROVE ThreadInvariant'
    BY <1>3, LearnKeeps
  <1> QED
    BY <1>1, <1>2, <1>3, EndOfRunKeeps DEF ThreadNext

(* The strengthened invariant holds in every state of every run. *)
THEOREM ThreadsInvariant == ThreadSpec => [](ThreadInvariant /\ ReaperAtWork)
  <1>1. ThreadInit => ReaperAtWork
    BY EmptySeq DEF ThreadInit, ReaperAtWork, Thread
  <1> QED
    BY <1>1, ThreadInitHolds, ThreadStepKeeps, PTL DEF ThreadSpec

(* A join that returns a result returns the one the thread ended with,     *)
(* whoever joins, spawns and passes handles around.                        *)
THEOREM JoinsAreTruthful == ThreadSpec => []JoinTruthful
  <1>1. ThreadInvariant => JoinTruthful
    BY DEF ThreadInvariant
  <1> QED
    BY <1>1, ThreadsInvariant, PTL

(* A handle that was taken and has no result yet is in the hands of        *)
(* exactly one joiner, and otherwise nobody is waiting for the thread.     *)
LEMMA SoleJoinerCounts == SoleJoiner => OneJoiner
  <1> SUFFICES ASSUME SoleJoiner, NEW w \in Worker
               PROVE  IF handle[w] = "taken" /\ result[w] = "none" THEN Cardinality(Joining(w)) = 1
                                                                    ELSE Joining(w) = {}
    BY DEF OneJoiner
  <1>1. CASE handle[w] = "taken" /\ result[w] = "none"
    <2>1. PICK t \in Thread : Joining(w) = {t}
      BY <1>1 DEF SoleJoiner
    <2> QED
      BY <1>1, <2>1, FS_Singleton
  <1>2. CASE ~(handle[w] = "taken" /\ result[w] = "none")
    BY <1>2 DEF SoleJoiner
  <1> QED
    BY <1>1, <1>2

THEOREM TakenHandleHasOneJoiner == ThreadSpec => []OneJoiner
  <1>1. ThreadInvariant => OneJoiner
    BY SoleJoinerCounts DEF ThreadInvariant
  <1> QED
    BY <1>1, ThreadsInvariant, PTL

-----------------------------------------------------------------------------
(* The limit and the end of the run, when only some threads spawn. *)

\* The workers that are counted: those whose body runs, and those a spawn has
\* counted and is about to start.
Counted == {w \in Worker : w \in Live \/ \E t \in Thread : pc[t] = "counted" /\ at[t] = w}

CountExact == active = Cardinality(Counted)

\* Only who may spawn is inside a spawn, and only main reaps.
Roles ==
    /\ limit \in Nat
    /\ \A t \in Thread : pc[t] \in {"allowed", "counted", "started"} => t \in spawners
    /\ \A t \in Thread : pc[t] \in {"reap", "reaping"} => t = Main

\* What main has checked still holds when it raises the count.
RoomKept == spawners = {Main} /\ pc[Main] = "allowed" => active < limit

Has(list, w) == \E i \in 1 .. Len(list) : list[i] = w

\* A worker that was started is registered, or about to be.
Registered ==
    \A w \in Worker : pc[w] # "unborn" =>
        Has(registry, w) \/ \E t \in Thread : pc[t] = "started" /\ at[t] = w

\* The reaper joins the first of those it still has to.
ReapsInOrder ==
    /\ pc[Main] = "reaping" => todo # <<>> /\ at[Main] = Head(todo)
    /\ pc[Main] = "over" => todo = <<>>

\* Once main reaps, a worker that it need not join any more is somebody
\* else's to join, or was joined.
Reaped ==
    spawners = {Main} /\ pc[Main] \in {"reap", "reaping", "over"} =>
        \A w \in Worker : pc[w] # "unborn" => Has(todo, w) \/ handle[w] = "taken" \/ result[w] # "none"

CountInvariant == CountExact /\ Roles /\ RoomKept /\ LimitHolds
ReapInvariant == Registered /\ ReapsInOrder /\ Reaped

LEMMA CountedIsFinite == IsFiniteSet(Counted) /\ Cardinality(Counted) \in Nat
  <1>1. Counted \in SUBSET Worker
    BY DEF Counted
  <1> QED
    BY <1>1, ThreadAssumption, FS_Subset, FS_CardinalityType

\* A move between stages outside the spawn, or into and out of its parts that
\* count nothing, leaves the counted workers alone.
LEMMA UncountedMove ==
    ASSUME Types, NEW t \in Thread, NEW s,
           pc' = [pc EXCEPT ![t] = s], \A u \in Thread : u # t => at'[u] = at[u],
           pc[t] \in {"run", "started", "join", "reap", "reaping"},
           s \in {"run", "allowed", "join", "reap", "reaping"} \/ (t \notin Worker /\ s = "over")
    PROVE  Counted' = Counted
  <1>1. /\ pc'[t] = s /\ pc[t] # "counted" /\ s # "counted"
        /\ \A u \in Thread : u # t => pc'[u] = pc[u] /\ at'[u] = at[u]
    BY DEF Types
  <1>2. \A x \in Worker : pc'[x] \notin {"unborn", "over"} <=> pc[x] \notin {"unborn", "over"}
    BY <1>1, WorkersAreThreads
  <1>3. \A x : (\E u \in Thread : pc'[u] = "counted" /\ at'[u] = x)
                 <=> (\E u \in Thread : pc[u] = "counted" /\ at[u] = x)
    BY <1>1
  <1>4. Live' = Live
    BY <1>2 DEF Live
  <1> QED
    BY <1>3, <1>4 DEF Counted

\* What each step does to the count: it leaves both the count and the counted
\* workers alone, or adds one to both, or takes one from both.
LEMMA CountSteps ==
    ASSUME ThreadInvariant, Roles, [ThreadNext]_threadVars
    PROVE  \/ active' = active /\ Counted' = Counted
           \/ active' = active + 1 /\ \E w \in Worker : w \notin Counted /\ Counted' = Counted \union {w}
           \/ active' = active - 1 /\ \E w \in Counted : Counted' = Counted \ {w}
  <1> USE DEF ThreadInvariant
  <1> DEFINE Same == active' = active /\ Counted' = Counted
             More == active' = active + 1 /\ \E w \in Worker : w \notin Counted /\ Counted' = Counted \union {w}
             Less == active' = active - 1 /\ \E w \in Counted : Counted' = Counted \ {w}
  <1>0. Main \in Thread /\ Main \notin Worker
    BY ThreadAssumption DEF Thread
  <1>1. ASSUME pc' = pc, at' = at, active' = active PROVE Same
    BY <1>1 DEF Counted, Live
  <1>2. CASE UNCHANGED threadVars
    BY <1>1, <1>2 DEF threadVars
  <1>3. ASSUME NEW t \in Thread, Operation(t) PROVE Same
    <2>1. CASE SpawnCheck(t)
      <3>1. pc' = [pc EXCEPT ![t] = "allowed"] /\ at' = [at EXCEPT ![t] = None] /\ pc[t] = "run" /\ active' = active
        BY <2>1 DEF SpawnCheck, Goto
      <3>2. \A u \in Thread : u # t => at'[u] = at[u]
        BY <3>1 DEF Types
      <3> QED
        BY <3>1, <3>2, UncountedMove
    <2>2. ASSUME NEW w \in Worker, JoinCached(t, w) \/ JoinConsumed(t, w) PROVE Same
      <3>1. pc' = pc /\ at' = at /\ active' = active
        BY <2>2 DEF JoinCached, JoinConsumed
      <3> QED
        BY <1>1, <3>1
    <2>3. ASSUME NEW w \in Worker, JoinTake(t, w) PROVE Same
      <3>1. pc' = [pc EXCEPT ![t] = "join"] /\ at' = [at EXCEPT ![t] = w] /\ pc[t] = "run" /\ active' = active
        BY <2>3 DEF JoinTake, Goto
      <3>2. \A u \in Thread : u # t => at'[u] = at[u]
        BY <3>1 DEF Types
      <3> QED
        BY <3>1, <3>2, UncountedMove
    <2> QED
      BY <1>3, <2>1, <2>2, <2>3 DEF Operation
  <1>4. ASSUME NEW t \in Thread, SpawnCount(t) PROVE More
    <2>1. PICK w \in Unborn : Goto(t, "counted", w)
      BY <1>4 DEF SpawnCount
    <2>2. w \in Worker /\ pc[w] = "unborn" /\ \A u \in Thread : at[u] # w
      BY <2>1 DEF Unborn
    <2>3. w \notin Counted
      BY <2>2 DEF Counted, Live
    <2>4. /\ pc[t] = "allowed" /\ pc'[t] = "counted" /\ at'[t] = w
          /\ \A u \in Thread : u # t => pc'[u] = pc[u] /\ at'[u] = at[u]
      BY <1>4, <2>1 DEF SpawnCount, Goto, Types
    <2>5. Live' = Live
      BY <2>4, WorkersAreThreads DEF Live
    <2>6. \A x : (\E u \in Thread : pc'[u] = "counted" /\ at'[u] = x)
                   <=> x = w \/ (\E u \in Thread : pc[u] = "counted" /\ at[u] = x)
      BY <2>4
    <2>7. Counted' = Counted \union {w}
      BY <2>2, <2>5, <2>6 DEF Counted
    <2>8. active' = active + 1
      BY <1>4 DEF SpawnCount
    <2> QED
      BY <2>2, <2>3, <2>7, <2>8
  <1>5. ASSUME NEW t \in Thread, SpawnStart(t) PROVE Same
    <2>1. PICK w \in Worker : w = at[t]
      BY <1>5 DEF SpawnStart, BusyWithWorker
    <2>2. pc[t] = "counted" /\ pc[w] = "unborn" /\ w # t /\ w \in Thread
      BY <1>5, <2>1, WorkersAreThreads DEF SpawnStart, SpawnsApart
    <2>3. pc' = [pc EXCEPT ![t] = "started", ![w] = "run"] /\ at' = at /\ active' = active
      BY <1>5, <2>1 DEF SpawnStart
    <2>4. /\ pc'[t] = "started" /\ pc'[w] = "run"
          /\ \A u \in Thread : u # t /\ u # w => pc'[u] = pc[u]
      BY <2>2, <2>3 DEF Types
    <2>5. Live' = Live \union {w}
      BY <2>2, <2>4, WorkersAreThreads DEF Live
    <2>6. \A x : (\E u \in Thread : pc[u] = "counted" /\ at[u] = x)
                   <=> x = w \/ (\E u \in Thread : pc'[u] = "counted" /\ at'[u] = x)
      BY <2>1, <2>2, <2>3, <2>4
    <2> QED
      BY <2>3, <2>5, <2>6 DEF Counted
  <1>6. ASSUME NEW t \in Thread, SpawnFails(t) PROVE Less
    <2>1. PICK w \in Worker : w = at[t]
      BY <1>6 DEF SpawnFails, BusyWithWorker
    <2>2. pc[t] = "counted" /\ pc[w] = "unborn"
      BY <1>6, <2>1 DEF SpawnFails, SpawnsApart
    <2>3. \A u \in Thread : pc[u] = "counted" /\ at[u] = w => u = t
      BY <2>1, <2>2 DEF SpawnsApart
    <2>4. /\ pc'[t] = "run" /\ active' = active - 1
          /\ \A u \in Thread : u # t => pc'[u] = pc[u] /\ at'[u] = at[u]
      BY <1>6 DEF SpawnFails, Goto, Types
    <2>5. Live' = Live
      BY <2>2, <2>4, WorkersAreThreads DEF Live
    <2>6. \A x : (\E u \in Thread : pc'[u] = "counted" /\ at'[u] = x)
                   <=> x # w /\ (\E u \in Thread : pc[u] = "counted" /\ at[u] = x)
      BY <2>1, <2>2, <2>3, <2>4
    <2>7. w \in Counted /\ w \notin Live
      BY <2>1, <2>2 DEF Counted, Live
    <2>8. Counted' = Counted \ {w}
      BY <2>5, <2>6, <2>7 DEF Counted
    <2> QED
      BY <2>4, <2>7, <2>8
  <1>7. ASSUME NEW t \in Thread, SpawnRegister(t) \/ JoinDone(t) PROVE Same
    <2>1. /\ pc' = [pc EXCEPT ![t] = "run"] /\ at' = [at EXCEPT ![t] = None]
          /\ pc[t] \in {"started", "join"} /\ active' = active
      BY <1>7 DEF SpawnRegister, JoinDone, Goto
    <2>2. \A u \in Thread : u # t => at'[u] = at[u]
      BY <2>1 DEF Types
    <2> QED
      BY <2>1, <2>2, UncountedMove
  <1>8. ASSUME NEW t \in Thread, Finish(t) PROVE Less
    <2>1. /\ t \in Worker /\ pc[t] = "run" /\ pc'[t] = "over" /\ active' = active - 1
          /\ \A u \in Thread : u # t => pc'[u] = pc[u] /\ at'[u] = at[u]
      BY <1>8 DEF Finish, Goto, Types
    <2>2. \A u \in Thread : pc[u] = "counted" => at[u] # t
      BY <2>1 DEF SpawnsApart
    <2>3. t \in Counted /\ Live' = Live \ {t}
      BY <2>1, WorkersAreThreads DEF Counted, Live
    <2>4. \A x : (\E u \in Thread : pc'[u] = "counted" /\ at'[u] = x)
                   <=> (\E u \in Thread : pc[u] = "counted" /\ at[u] = x)
      BY <2>1
    <2>5. Counted' = Counted \ {t}
      BY <2>2, <2>3, <2>4 DEF Counted
    <2> QED
      BY <2>1, <2>3, <2>5
  <1>9. ASSUME NEW t \in Thread, NEW w \in Worker, Learn(t, w) PROVE Same
    BY <1>1, <1>9 DEF Learn
  <1>10. CASE EndOfRun
    <2>1. ASSUME NEW x, NEW y, Goto(Main, x, y), x \in {"reap", "reaping", "over"},
                 pc[Main] \in {"run", "reap", "reaping"}, active' = active
          PROVE  Same
      <3>1. pc' = [pc EXCEPT ![Main] = x] /\ \A u \in Thread : u # Main => at'[u] = at[u]
        BY <2>1 DEF Goto, Types
      <3> QED
        BY <1>0, <2>1, <3>1, UncountedMove
    <2>2. PICK first : first = Head(todo)
      OBVIOUS
    <2>3. CASE ReapSkip
      BY <1>1, <2>3 DEF ReapSkip
    <2>4. CASE ReapTake
      BY <2>1, <2>2, <2>4 DEF ReapTake
    <2>5. CASE MainEnd \/ ReapDone \/ ReapEnd
      BY <2>1, <2>5 DEF MainEnd, ReapDone, ReapEnd
    <2> QED
      BY <1>10, <2>3, <2>4, <2>5 DEF EndOfRun
  <1> QED
    BY <1>2, <1>3, <1>4, <1>5, <1>6, <1>7, <1>8, <1>9, <1>10 DEF ThreadNext, Inside

LEMMA CountKeeps ==
    ASSUME ThreadInvariant, Roles, CountExact, [ThreadNext]_threadVars
    PROVE  CountExact'
  <1>1. CASE active' = active /\ Counted' = Counted
    BY <1>1 DEF CountExact
  <1>2. ASSUME NEW w \in Worker, w \notin Counted, Counted' = Counted \union {w}, active' = active + 1
        PROVE  CountExact'
    <2>1. Cardinality(Counted \union {w}) = Cardinality(Counted) + 1
      BY <1>2, CountedIsFinite, FS_AddElement
    <2> QED
      BY <1>2, <2>1 DEF CountExact
  <1>3. ASSUME NEW w \in Counted, Counted' = Counted \ {w}, active' = active - 1 PROVE CountExact'
    <2>1. Cardinality(Counted \ {w}) = Cardinality(Counted) - 1
      BY <1>3, CountedIsFinite, FS_RemoveElement
    <2> QED
      BY <1>3, <2>1 DEF CountExact
  <1> QED
    BY <1>1, <1>2, <1>3, CountSteps

\* Where a thread can go from where it is.
LEMMA Moves ==
    ASSUME ThreadInvariant, [ThreadNext]_threadVars, NEW u \in Thread, pc'[u] # pc[u]
    PROVE  \/ pc[u] = "run" /\ pc'[u] = "allowed" /\ u \in spawners /\ active < limit /\ active' = active
           \/ pc[u] = "allowed" /\ pc'[u] = "counted"
           \/ pc[u] = "counted" /\ pc'[u] \in {"started", "run"}
           \/ pc[u] \in {"started", "join"} /\ pc'[u] = "run"
           \/ pc[u] = "unborn" /\ pc'[u] = "run" /\ \E t \in Thread : pc[t] = "counted"
           \/ pc[u] = "run" /\ pc'[u] = "join"
           \/ u \in Worker /\ pc[u] = "run" /\ pc'[u] = "over"
           \/ u = Main /\ pc[u] = "run" /\ pc'[u] = "reap" /\ MainEnd
           \/ u = Main /\ pc[u] = "reap" /\ pc'[u] = "reaping" /\ ReapTake
           \/ u = Main /\ pc[u] = "reap" /\ pc'[u] = "over" /\ ReapEnd
           \/ u = Main /\ pc[u] = "reaping" /\ pc'[u] = "reap"
  <1> USE DEF ThreadInvariant
  <1>0. Main \in Thread /\ pc = [t \in Thread |-> pc[t]]
    BY DEF Types, Thread
  <1>1. ASSUME NEW t \in Thread, NEW s, NEW w, Goto(t, s, w) PROVE u = t /\ pc'[u] = s
    BY <1>0, <1>1 DEF Goto
  <1>2. pc' # pc
    OBVIOUS
  <1>3. ASSUME NEW t \in Thread, Operation(t)
        PROVE  \/ pc[u] = "run" /\ pc'[u] = "allowed" /\ u \in spawners /\ active < limit /\ active' = active
               \/ pc[u] = "run" /\ pc'[u] = "join"
    <2>1. CASE SpawnCheck(t)
      BY <1>1, <2>1 DEF SpawnCheck
    <2>2. ASSUME NEW w \in Worker, JoinTake(t, w) PROVE pc[u] = "run" /\ pc'[u] = "join"
      BY <1>1, <2>2 DEF JoinTake
    <2>3. ASSUME NEW w \in Worker PROVE ~JoinCached(t, w) /\ ~JoinConsumed(t, w)
      BY <1>2 DEF JoinCached, JoinConsumed
    <2> QED
      BY <1>3, <2>1, <2>2, <2>3 DEF Operation
  <1>4. ASSUME NEW t \in Thread, Inside(t)
        PROVE  \/ pc[u] = "allowed" /\ pc'[u] = "counted"
               \/ pc[u] = "counted" /\ pc'[u] \in {"started", "run"}
               \/ pc[u] \in {"started", "join"} /\ pc'[u] = "run"
               \/ pc[u] = "unborn" /\ pc'[u] = "run" /\ \E x \in Thread : pc[x] = "counted"
    <2>1. CASE SpawnCount(t)
      BY <1>1, <2>1 DEF SpawnCount
    <2>2. CASE SpawnStart(t)
      <3>1. PICK w \in Worker : w = at[t]
        BY <2>2 DEF SpawnStart, BusyWithWorker
      <3>2. pc[t] = "counted" /\ pc[w] = "unborn" /\ w # t /\ w \in Thread
        BY <2>2, <3>1, WorkersAreThreads DEF SpawnStart, SpawnsApart
      <3>3. pc' = [pc EXCEPT ![t] = "started", ![w] = "run"]
        BY <2>2, <3>1 DEF SpawnStart
      <3>4. (u = t /\ pc'[u] = "started") \/ (u = w /\ pc'[u] = "run")
        BY <1>0, <3>2, <3>3
      <3> QED
        BY <3>2, <3>4
    <2>3. CASE SpawnFails(t)
      BY <1>1, <2>3 DEF SpawnFails
    <2>4. CASE SpawnRegister(t)
      BY <1>1, <2>4 DEF SpawnRegister
    <2>5. CASE JoinDone(t)
      BY <1>1, <2>5 DEF JoinDone
    <2> QED
      BY <1>4, <2>1, <2>2, <2>3, <2>4, <2>5 DEF Inside
  <1>5. ASSUME NEW t \in Thread, Finish(t) PROVE u \in Worker /\ pc[u] = "run" /\ pc'[u] = "over"
    BY <1>1, <1>5 DEF Finish
  <1>6. ASSUME NEW t \in Thread, NEW w \in Worker PROVE ~Learn(t, w)
    BY <1>2 DEF Learn
  <1>7. CASE EndOfRun
    <2>1. CASE MainEnd
      BY <1>0, <1>1, <2>1 DEF MainEnd
    <2>2. CASE ReapTake
      BY <1>0, <1>1, <2>2 DEF ReapTake
    <2>3. ~ReapSkip
      BY <1>2 DEF ReapSkip
    <2>4. CASE ReapDone
      BY <1>0, <1>1, <2>4 DEF ReapDone
    <2>5. CASE ReapEnd
      BY <1>0, <1>1, <2>5 DEF ReapEnd
    <2> QED
      BY <1>7, <2>1, <2>2, <2>3, <2>4, <2>5 DEF EndOfRun
  <1>8. ThreadNext
    BY <1>2 DEF threadVars
  <1>9. CASE \E t \in Thread : Operation(t)
    BY <1>3, <1>9
  <1>10. CASE \E t \in Thread : Inside(t)
    BY <1>4, <1>10
  <1>11. CASE \E t \in Thread : Finish(t)
    BY <1>5, <1>11
  <1> QED
    BY <1>6, <1>7, <1>8, <1>9, <1>10, <1>11 DEF ThreadNext

LEMMA SetupStays ==
    ASSUME [ThreadNext]_threadVars
    PROVE  UNCHANGED <<limit, spawners>>
  BY DEF ThreadNext, threadVars, setup, Operation, Inside, EndOfRun, SpawnCheck, SpawnCount, SpawnStart,
         SpawnFails, SpawnRegister, Finish, JoinCached, JoinTake, JoinConsumed, JoinDone, Learn,
         MainEnd, ReapTake, ReapSkip, ReapDone, ReapEnd

LEMMA RolesKeep ==
    ASSUME ThreadInvariant, Roles, [ThreadNext]_threadVars
    PROVE  Roles'
  <1>1. limit' = limit /\ spawners' = spawners
    BY SetupStays
  <1>2. ASSUME NEW u \in Thread, pc'[u] \in {"allowed", "counted", "started"} PROVE u \in spawners
    BY <1>2, Moves DEF Roles
  <1>3. ASSUME NEW u \in Thread, pc'[u] \in {"reap", "reaping"} PROVE u = Main
    BY <1>3, Moves DEF Roles
  <1> QED
    BY <1>1, <1>2, <1>3 DEF Roles

\* Main counts the thread it was allowed, and nobody else raised the count in
\* between.
LEMMA RoomKeeps ==
    ASSUME ThreadInvariant, CountInvariant, [ThreadNext]_threadVars
    PROVE  RoomKept' /\ LimitHolds'
  <1> USE DEF CountInvariant
  <1>1. limit' = limit /\ spawners' = spawners /\ limit \in Nat
    BY SetupStays DEF Roles
  <1> SUFFICES ASSUME spawners = {Main}
               PROVE  (pc'[Main] = "allowed" => active' < limit) /\ active' <= limit
    BY <1>1 DEF RoomKept, LimitHolds
  <1>2. Main \in Thread /\ active \in Nat
    BY CountedIsFinite DEF CountExact, Thread
  <1>3. active <= limit /\ (pc[Main] = "allowed" => active < limit)
    BY DEF RoomKept, LimitHolds
  <1>4. CASE active' = active \/ active' = active - 1
    BY <1>1, <1>2, <1>3, <1>4, Moves
  <1>5. CASE active' = active + 1
    <2>1. ASSUME NEW t \in Thread, SpawnCount(t) PROVE t = Main /\ pc[Main] = "allowed" /\ pc'[Main] = "counted"
      <3>1. t = Main /\ pc[Main] = "allowed"
        BY <2>1 DEF SpawnCount, Roles
      <3> QED
        BY <1>2, <2>1, <3>1 DEF SpawnCount, Goto, ThreadInvariant, Types
    <2>2. \E t \in Thread : SpawnCount(t)
      BY <1>2, <1>5 DEF ThreadNext, threadVars, setup, Operation, Inside, EndOfRun, SpawnCheck, SpawnStart,
         SpawnFails, SpawnRegister, Finish, JoinCached, JoinTake, JoinConsumed, JoinDone, Learn,
         MainEnd, ReapTake, ReapSkip, ReapDone, ReapEnd
    <2> QED
      BY <1>1, <1>2, <1>3, <1>5, <2>1, <2>2
  <1> QED
    BY <1>4, <1>5, CountSteps DEF ThreadInvariant

LEMMA CountInvariantKeeps ==
    ThreadInvariant /\ CountInvariant /\ [ThreadNext]_threadVars => CountInvariant'
  BY CountKeeps, RolesKeep, RoomKeeps DEF CountInvariant

LEMMA CountInit == ThreadInit => CountInvariant
  <1> SUFFICES ASSUME ThreadInit PROVE CountInvariant
    OBVIOUS
  <1>1. \A t \in Thread : pc[t] \in {"run", "unborn"} /\ (t \in Worker => pc[t] = "unborn")
    BY ThreadAssumption DEF ThreadInit
  <1>2. Counted = {}
    BY <1>1, WorkersAreThreads DEF Counted, Live
  <1>3. active = 0 /\ limit \in Nat /\ limit > 0
    BY ThreadAssumption DEF ThreadInit
  <1>4. CountExact
    BY <1>2, <1>3, FS_EmptySet DEF CountExact
  <1>5. Roles /\ RoomKept /\ LimitHolds
    BY <1>1, <1>3 DEF Roles, RoomKept, LimitHolds, Thread
  <1> QED
    BY <1>4, <1>5 DEF CountInvariant

-----------------------------------------------------------------------------
(* What outlives the run. *)

LEMMA AppendHas ==
    ASSUME NEW list \in Seq(Worker), NEW w \in Worker
    PROVE  /\ Has(Append(list, w), w)
           /\ \A x \in Worker : Has(list, x) => Has(Append(list, w), x)
  <1>1. /\ Len(list) \in Nat /\ Len(Append(list, w)) = Len(list) + 1
        /\ \A i \in 1 .. Len(list) : Append(list, w)[i] = list[i]
        /\ Append(list, w)[Len(list) + 1] = w
    BY AppendProperties, LenProperties
  <1> QED
    BY <1>1 DEF Has

LEMMA TailHas ==
    ASSUME NEW list \in Seq(Worker), list # <<>>, NEW w \in Worker, Has(list, w), w # Head(list)
    PROVE  Has(Tail(list), w)
  <1>1. /\ Len(list) \in Nat \ {0} /\ Len(Tail(list)) = Len(list) - 1
        /\ \A i \in 1 .. Len(Tail(list)) : Tail(list)[i] = list[i + 1]
    BY HeadTailProperties, EmptySeq
  <1>2. PICK i \in 1 .. Len(list) : list[i] = w
    BY DEF Has
  <1>3. i # 1
    BY <1>2
  <1>4. i - 1 \in 1 .. Len(Tail(list)) /\ Tail(list)[i - 1] = list[(i - 1) + 1] /\ (i - 1) + 1 = i
    BY <1>1, <1>3
  <1> QED
    BY <1>2, <1>4 DEF Has

LEMMA EmptyHasNone == \A w : ~Has(<<>>, w)
  BY EmptySeq DEF Has

LEMMA RegisteredKeeps ==
    ASSUME ThreadInvariant, Registered, [ThreadNext]_threadVars
    PROVE  Registered'
  <1> USE DEF ThreadInvariant
  <1>1. ASSUME UNCHANGED <<registry, at>>,
               \A w \in Worker : pc'[w] # "unborn" => pc[w] # "unborn",
               \A u \in Thread : pc[u] = "started" => pc'[u] = "started"
        PROVE  Registered'
    BY <1>1 DEF Registered
  <1>2. ASSUME NEW t \in Thread, NEW s, NEW w, Goto(t, s, w), pc[t] \notin {"started", "unborn"},
               registry' = registry
        PROVE  Registered'
    <2>1. \A u \in Thread : u # t => pc'[u] = pc[u] /\ at'[u] = at[u]
      BY <1>2 DEF Goto, Types
    <2> QED
      BY <1>2, <2>1, WorkersAreThreads DEF Registered
  <1>3. ASSUME pc' = pc, at' = at, registry' = registry PROVE Registered'
    BY <1>1, <1>3
  <1>4. CASE UNCHANGED threadVars
    BY <1>3, <1>4 DEF threadVars
  <1>5. ASSUME NEW t \in Thread, Operation(t) PROVE Registered'
    BY <1>2, <1>3, <1>5 DEF Operation, SpawnCheck, JoinCached, JoinTake, JoinConsumed
  <1>6. ASSUME NEW t \in Thread, SpawnCount(t) \/ SpawnFails(t) \/ JoinDone(t) \/ Finish(t) PROVE Registered'
    BY <1>2, <1>6 DEF SpawnCount, SpawnFails, JoinDone, Finish
  <1>7. ASSUME NEW t \in Thread, SpawnStart(t) PROVE Registered'
    <2>1. PICK w \in Worker : w = at[t]
      BY <1>7 DEF SpawnStart, BusyWithWorker
    <2>2. pc[t] = "counted" /\ pc[w] = "unborn" /\ w # t /\ w \in Thread
      BY <1>7, <2>1, WorkersAreThreads DEF SpawnStart, SpawnsApart
    <2>3. pc' = [pc EXCEPT ![t] = "started", ![w] = "run"] /\ at' = at /\ registry' = registry
      BY <1>7, <2>1 DEF SpawnStart
    <2>4. /\ pc'[t] = "started" /\ pc'[w] = "run"
          /\ \A u \in Thread : u # t /\ u # w => pc'[u] = pc[u]
      BY <2>2, <2>3 DEF Types
    <2>5. ASSUME NEW x \in Worker, pc'[x] # "unborn", x # w
          PROVE  Has(registry, x) \/ \E u \in Thread : pc'[u] = "started" /\ at'[u] = x
      <3>1. pc[x] # "unborn"
        BY <2>2, <2>4, <2>5, WorkersAreThreads
      <3>2. CASE Has(registry, x)
        BY <3>2
      <3>3. ASSUME NEW u \in Thread, pc[u] = "started", at[u] = x
            PROVE  pc'[u] = "started" /\ at'[u] = x
        BY <2>2, <2>3, <2>4, <3>3
      <3> QED
        BY <3>1, <3>2, <3>3 DEF Registered
    <2>6. pc'[t] = "started" /\ at'[t] = w
      BY <2>1, <2>3, <2>4
    <2> QED
      BY <2>3, <2>5, <2>6 DEF Registered
  <1>8. ASSUME NEW t \in Thread, SpawnRegister(t) PROVE Registered'
    <2>1. PICK w \in Worker : w = at[t]
      BY <1>8 DEF SpawnRegister, BusyWithWorker
    <2>2. /\ pc[t] = "started" /\ pc'[t] = "run" /\ registry' = Append(registry, w)
          /\ \A u \in Thread : u # t => pc'[u] = pc[u] /\ at'[u] = at[u]
      BY <1>8, <2>1 DEF SpawnRegister, Goto, Types
    <2>3. /\ Has(registry', w)
          /\ \A x \in Worker : Has(registry, x) => Has(registry', x)
      BY <2>2, AppendHas DEF Types
    <2>4. ASSUME NEW x \in Worker, pc'[x] # "unborn", x # w
          PROVE  Has(registry', x) \/ \E u \in Thread : pc'[u] = "started" /\ at'[u] = x
      <3>1. pc[x] # "unborn"
        BY <2>2, <2>4, WorkersAreThreads
      <3> QED
        BY <2>1, <2>2, <2>3, <2>4, <3>1 DEF Registered
    <2> QED
      BY <2>3, <2>4 DEF Registered
  <1>9. ASSUME NEW t \in Thread, NEW w \in Worker, Learn(t, w) PROVE Registered'
    BY <1>3, <1>9 DEF Learn
  <1>10. CASE EndOfRun
    <2>1. Main \in Thread
      BY DEF Thread
    <2> QED
      BY <1>2, <1>3, <1>10, <2>1 DEF EndOfRun, MainEnd, ReapTake, ReapSkip, ReapDone, ReapEnd
  <1> QED
    BY <1>4, <1>5, <1>6, <1>7, <1>8, <1>9, <1>10 DEF ThreadNext, Inside


\* A thread is about another one only as long as it stays where it is.
LEMMA AtMoves ==
    ASSUME ThreadInvariant, [ThreadNext]_threadVars, NEW u \in Thread, at'[u] # at[u]
    PROVE  pc'[u] # pc[u]
  <1> USE DEF ThreadInvariant
  <1>1. ASSUME NEW t \in Thread, NEW s, NEW w, Goto(t, s, w), s # pc[t] PROVE pc'[u] # pc[u]
    BY <1>1 DEF Goto, Types
  <1>2. at' # at /\ Main \in Thread
    BY DEF Thread
  <1>3. ThreadNext
    BY <1>2 DEF threadVars
  <1>4. ASSUME NEW t \in Thread, Operation(t) PROVE pc'[u] # pc[u]
    BY <1>1, <1>2, <1>4 DEF Operation, SpawnCheck, JoinCached, JoinTake, JoinConsumed
  <1>5. ASSUME NEW t \in Thread, Inside(t) PROVE pc'[u] # pc[u]
    BY <1>1, <1>2, <1>5 DEF Inside, SpawnCount, SpawnStart, SpawnFails, SpawnRegister, JoinDone
  <1>6. ASSUME NEW t \in Thread, Finish(t) PROVE pc'[u] # pc[u]
    BY <1>1, <1>6 DEF Finish
  <1>7. ASSUME NEW t \in Thread, NEW w \in Worker PROVE ~Learn(t, w)
    BY <1>2 DEF Learn
  <1>8. CASE EndOfRun
    BY <1>1, <1>2, <1>8 DEF EndOfRun, MainEnd, ReapTake, ReapSkip, ReapDone, ReapEnd
  <1> QED
    BY <1>3, <1>4, <1>5, <1>6, <1>7, <1>8 DEF ThreadNext

\* What the reaper still has to join changes only when it starts, and when it
\* is done with the first of them.
LEMMA TodoMoves ==
    ASSUME [ThreadNext]_threadVars, todo' # todo
    PROVE  MainEnd \/ ReapSkip \/ ReapDone
  BY DEF ThreadNext, threadVars, Operation, Inside, EndOfRun, SpawnCheck, SpawnCount, SpawnStart,
         SpawnFails, SpawnRegister, Finish, JoinCached, JoinTake, JoinConsumed, JoinDone, Learn,
         ReapTake, ReapEnd

LEMMA ReapsInOrderKeeps ==
    ASSUME ThreadInvariant, ReapsInOrder, [ThreadNext]_threadVars
    PROVE  ReapsInOrder'
  <1>1. Main \in Thread
    BY DEF Thread
  <1>2. CASE MainEnd \/ ReapSkip \/ ReapDone
    <2>1. pc'[Main] = "reap"
      BY <1>1, <1>2 DEF MainEnd, ReapSkip, ReapDone, Goto, ThreadInvariant, Types
    <2> QED
      BY <2>1 DEF ReapsInOrder
  <1>3. CASE todo' = todo /\ pc'[Main] = pc[Main]
    BY <1>1, <1>3, AtMoves DEF ReapsInOrder
  <1>4. CASE ReapTake
    BY <1>1, <1>4 DEF ReapTake, Goto, ReapsInOrder, ThreadInvariant, Types
  <1>5. CASE ReapEnd
    BY <1>1, <1>5 DEF ReapEnd, Goto, ReapsInOrder, ThreadInvariant, Types
  <1>6. CASE pc'[Main] # pc[Main] /\ ~ReapTake /\ ~ReapEnd
    <2>1. pc'[Main] \notin {"reaping", "over"}
      BY <1>1, <1>2, <1>6, Moves, ThreadAssumption DEF ReapDone
    <2> QED
      BY <2>1 DEF ReapsInOrder
  <1> QED
    BY <1>2, <1>3, <1>4, <1>5, <1>6, TodoMoves

\* Once a handle is taken, or a result cached, it stays so.
LEMMA Settled ==
    ASSUME ThreadInvariant, [ThreadNext]_threadVars, NEW w \in Worker
    PROVE  /\ handle[w] = "taken" => handle'[w] = "taken"
           /\ result[w] # "none" => result'[w] # "none"
  <1> USE DEF ThreadInvariant
  <1>1. ASSUME handle' = handle, result' = result
        PROVE  (handle[w] = "taken" => handle'[w] = "taken") /\ (result[w] # "none" => result'[w] # "none")
    BY <1>1
  <1>2. ASSUME NEW x, handle' = [handle EXCEPT ![x] = "taken"], result' = result
        PROVE  (handle[w] = "taken" => handle'[w] = "taken") /\ (result[w] # "none" => result'[w] # "none")
    BY <1>2 DEF Types
  <1>3. ASSUME NEW t \in Thread, pc[t] \in {"join", "reaping"}, pc[at[t]] = "over", handle' = handle,
               result' = [result EXCEPT ![at[t]] = outcome[at[t]]]
        PROVE  (handle[w] = "taken" => handle'[w] = "taken") /\ (result[w] # "none" => result'[w] # "none")
    <2>1. PICK x \in Worker : x = at[t]
      BY <1>3 DEF BusyWithWorker
    <2>2. outcome[x] \in Outcome
      BY <1>3, <2>1 DEF CachedTruthful
    <2>3. result' = [result EXCEPT ![x] = outcome[x]]
      BY <1>3, <2>1
    <2>4. result'[w] = IF w = x THEN outcome[x] ELSE result[w]
      BY <2>3 DEF Types
    <2> QED
      BY <1>3, <2>2, <2>4 DEF Outcome
  <1>4. ASSUME NEW t \in Thread, SpawnRegister(t)
        PROVE  (handle[w] = "taken" => handle'[w] = "taken") /\ (result[w] # "none" => result'[w] # "none")
    <2>1. PICK x \in Worker : x = at[t]
      BY <1>4 DEF SpawnRegister, BusyWithWorker
    <2>2. handle[x] = "none" /\ handle' = [handle EXCEPT ![x] = "held"] /\ result' = result
      BY <1>4, <2>1 DEF SpawnRegister, SpawnsApart
    <2> QED
      BY <2>2 DEF Types
  <1>5. CASE UNCHANGED threadVars
    BY <1>1, <1>5 DEF threadVars
  <1>6. ASSUME NEW t \in Thread, Operation(t)
        PROVE  (handle[w] = "taken" => handle'[w] = "taken") /\ (result[w] # "none" => result'[w] # "none")
    BY <1>1, <1>2, <1>6 DEF Operation, SpawnCheck, JoinCached, JoinTake, JoinConsumed
  <1>7. ASSUME NEW t \in Thread, SpawnCount(t) \/ SpawnStart(t) \/ SpawnFails(t) \/ Finish(t)
        PROVE  (handle[w] = "taken" => handle'[w] = "taken") /\ (result[w] # "none" => result'[w] # "none")
    BY <1>1, <1>7 DEF SpawnCount, SpawnStart, SpawnFails, Finish
  <1>8. ASSUME NEW t \in Thread, JoinDone(t)
        PROVE  (handle[w] = "taken" => handle'[w] = "taken") /\ (result[w] # "none" => result'[w] # "none")
    BY <1>3, <1>8 DEF JoinDone
  <1>9. ASSUME NEW t \in Thread, NEW x \in Worker, Learn(t, x)
        PROVE  (handle[w] = "taken" => handle'[w] = "taken") /\ (result[w] # "none" => result'[w] # "none")
    BY <1>1, <1>9 DEF Learn
  <1>10. CASE EndOfRun
    <2>1. Main \in Thread
      BY DEF Thread
    <2>2. CASE MainEnd \/ ReapSkip \/ ReapEnd
      BY <1>1, <2>2 DEF MainEnd, ReapSkip, ReapEnd
    <2>3. CASE ReapTake
      BY <1>2, <2>3 DEF ReapTake
    <2>4. CASE ReapDone
      BY <1>3, <2>1, <2>4 DEF ReapDone
    <2> QED
      BY <1>10, <2>2, <2>3, <2>4 DEF EndOfRun
  <1> QED
    BY <1>4, <1>5, <1>6, <1>7, <1>8, <1>9, <1>10 DEF ThreadNext, Inside

\* A list copied when main was the only one to spawn names every worker that
\* was started; none is started while main reaps.
LEMMA ReapedKeeps ==
    ASSUME ThreadInvariant, Roles, Registered, ReapsInOrder, Reaped, [ThreadNext]_threadVars
    PROVE  Reaped'
  <1> USE DEF ThreadInvariant
  <1>1. spawners' = spawners /\ Main \in Thread
    BY SetupStays DEF Thread
  <1> SUFFICES ASSUME spawners = {Main}, pc'[Main] \in {"reap", "reaping", "over"},
                      NEW w \in Worker, pc'[w] # "unborn"
               PROVE  Has(todo', w) \/ handle'[w] = "taken" \/ result'[w] # "none"
    BY <1>1 DEF Reaped
  <1>2. CASE MainEnd
    <2>1. pc[Main] = "run" /\ todo' = registry
      BY <1>2 DEF MainEnd
    <2>2. \A t \in Thread : pc[t] # "started"
      BY <2>1 DEF Roles
    <2>3. pc[w] # "unborn"
      BY <1>2, ThreadAssumption, WorkersAreThreads DEF MainEnd, Goto, Types
    <2> QED
      BY <2>1, <2>2, <2>3 DEF Registered
  <1>3. CASE ~MainEnd
    <2>1. pc[Main] \in {"reap", "reaping", "over"}
      BY <1>1, <1>3, Moves, ThreadAssumption
    <2>2. \A t \in Thread : pc[t] # "counted"
      BY <2>1 DEF Roles
    <2>3. pc[w] # "unborn"
      BY <2>2, Moves, WorkersAreThreads
    <2>4. Has(todo, w) \/ handle[w] = "taken" \/ result[w] # "none"
      BY <2>1, <2>3 DEF Reaped
    <2>5. CASE handle[w] = "taken" \/ result[w] # "none"
      BY <2>5, Settled
    <2>6. CASE Has(todo, w) /\ todo' = todo
      BY <2>6
    <2>7. CASE Has(todo, w) /\ (ReapSkip \/ ReapDone) /\ w # Head(todo)
      <3>1. todo \in Seq(Worker) /\ todo # <<>> /\ todo' = Tail(todo)
        BY <2>7, EmptyHasNone DEF ReapSkip, ReapDone, Types
      <3> QED
        BY <2>7, <3>1, TailHas
    <2>8. CASE ReapSkip /\ w = Head(todo)
      BY <2>5, <2>8 DEF ReapSkip
    <2>9. CASE ReapDone /\ w = Head(todo)
      <3>1. pc[Main] = "reaping" /\ at[Main] = w /\ pc[w] = "over"
        BY <2>9 DEF ReapDone, ReapsInOrder
      <3>2. outcome[w] \in Outcome /\ result' = [result EXCEPT ![w] = outcome[w]]
        BY <2>9, <3>1 DEF ReapDone, CachedTruthful
      <3> QED
        BY <3>2 DEF Types, Outcome
    <2> QED
      BY <1>3, <2>4, <2>5, <2>6, <2>7, <2>8, <2>9, TodoMoves
  <1> QED
    BY <1>2, <1>3

LEMMA ReapInvariantKeeps ==
    ThreadInvariant /\ Roles /\ ReapInvariant /\ [ThreadNext]_threadVars => ReapInvariant'
  BY RegisteredKeeps, ReapsInOrderKeeps, ReapedKeeps DEF ReapInvariant

LEMMA ReapInit == ThreadInit => ReapInvariant
  <1> SUFFICES ASSUME ThreadInit PROVE ReapInvariant
    OBVIOUS
  <1>1. /\ Main \in Thread /\ pc[Main] = "run" /\ todo = <<>>
        /\ \A w \in Worker : pc[w] = "unborn"
    BY ThreadAssumption, WorkersAreThreads DEF ThreadInit, Thread
  <1> QED
    BY <1>1 DEF ReapInvariant, Registered, ReapsInOrder, Reaped

\* When main has joined what it had to, every worker left has somebody else
\* who joins it.  That is one of those left, and it joins no other; so there
\* are as many joins as workers left, and all of them are in one.
LEMMA OutliversJoin ==
    ASSUME ThreadInvariant, Roles, ReapInvariant
    PROVE  OnlyCirclesOutliveRun
  <1> USE DEF ThreadInvariant, ReapInvariant
  <1> SUFFICES ASSUME spawners = {Main}, pc[Main] = "over"
               PROVE  \A w \in Live : pc[w] = "join" /\ at[w] \in Live
    BY DEF OnlyCirclesOutliveRun
  <1>1. ASSUME NEW w \in Live
        PROVE  \E t \in Live : pc[t] = "join" /\ at[t] = w
    <2>1. w \in Worker /\ pc[w] # "unborn" /\ pc[w] # "over"
      BY DEF Live
    <2>2. ~Has(todo, w)
      BY EmptyHasNone DEF ReapsInOrder
    <2>3. result[w] = "none"
      BY <2>1 DEF CachedTruthful
    <2>4. handle[w] = "taken"
      BY <2>1, <2>2, <2>3 DEF Reaped
    <2>5. PICK t \in Thread : Joining(w) = {t}
      BY <2>1, <2>3, <2>4 DEF SoleJoiner
    <2>6. pc[t] \in {"join", "reaping"} /\ at[t] = w
      BY <2>5 DEF Joining
    <2>7. pc[t] = "join" /\ t \in Worker
      BY <2>6 DEF Roles, Thread
    <2> QED
      BY <2>6, <2>7 DEF Live
  <1> DEFINE f == [w \in Live |-> CHOOSE t \in Live : pc[t] = "join" /\ at[t] = w]
  <1>2. \A w \in Live : f[w] \in Live /\ pc[f[w]] = "join" /\ at[f[w]] = w
    BY <1>1
  <1>3. f \in [Live -> Live]
    BY <1>2
  <1> HIDE DEF f
  <1>4. f \in Injection(Live, Live)
    BY <1>2, <1>3 DEF Injection, IsInjective
  <1>5. IsFiniteSet(Live)
    <2>1. Live \in SUBSET Worker
      BY DEF Live
    <2> QED
      BY <2>1, ThreadAssumption, FS_Subset
  <1>6. f \in Surjection(Live, Live)
    BY <1>4, <1>5, FS_Injection
  <1>7. \A t \in Live : \E w \in Live : f[w] = t
    BY <1>6 DEF Surjection
  <1> QED
    BY <1>2, <1>7

-----------------------------------------------------------------------------
(* The theorems about the limit and the end of the run.                    *)

LEMMA WholeInit == ThreadInit => ThreadInvariant /\ ReaperAtWork /\ CountInvariant /\ ReapInvariant
  <1>1. ThreadInit => ReaperAtWork
    BY EmptySeq DEF ThreadInit, ReaperAtWork, Thread
  <1> QED
    BY <1>1, ThreadInitHolds, CountInit, ReapInit

LEMMA WholeKeeps ==
    /\ ThreadInvariant /\ ReaperAtWork /\ CountInvariant /\ ReapInvariant
    /\ [ThreadNext]_threadVars
    => (ThreadInvariant /\ ReaperAtWork /\ CountInvariant /\ ReapInvariant)'
  BY ThreadStepKeeps, CountInvariantKeeps, ReapInvariantKeeps DEF CountInvariant

(* When one thread does all the spawning, no more threads live than        *)
(* KLANG_MAX_THREADS allows: the count is never above the limit, and it is *)
(* exactly the number of workers that run or are about to.                 *)
THEOREM LimitIsKept == ThreadSpec => [](LimitHolds /\ CountExact)
  <1>1. CountInvariant => LimitHolds /\ CountExact
    BY DEF CountInvariant
  <1> QED
    BY <1>1, WholeInit, WholeKeeps, PTL DEF ThreadSpec

(* When main does all the spawning, all that is left when the run is over  *)
(* are workers that wait for each other: the reaper passes over a thread   *)
(* only if it has ended or another worker waits for it.                    *)
THEOREM RunLeavesOnlyCircles == ThreadSpec => []OnlyCirclesOutliveRun
  <1>1. ThreadInvariant /\ CountInvariant /\ ReapInvariant => OnlyCirclesOutliveRun
    BY OutliversJoin DEF CountInvariant
  <1> QED
    BY <1>1, WholeInit, WholeKeeps, PTL DEF ThreadSpec

-----------------------------------------------------------------------------
(* Threads and channel together.                                           *)

\* The channel's part of a step.
LEMMA StepOfChannel == [Next]_vars => [ChanNext]_chanVars
  <1> SUFFICES ASSUME [Next]_vars PROVE [ChanNext]_chanVars
    OBVIOUS
  <1>1. CASE UNCHANGED vars
    BY <1>1 DEF vars
  <1>2. ASSUME NEW t \in Thread, ChannelCall(t) PROVE ChanNext
    BY <1>2, CompositionAssumption DEF ChannelCall, ChanNext
  <1>3. ASSUME NEW t \in Thread, ThreadCall(t) \/ BodyEnds(t) \/ Runtime(t) PROVE UNCHANGED chanVars
    BY <1>3 DEF ThreadCall, BodyEnds, Runtime
  <1> QED
    BY <1>1, <1>2, <1>3 DEF Next

\* The threads' part of a step.
LEMMA StepOfThreads == [Next]_vars => [ThreadNext]_threadVars
  <1> SUFFICES ASSUME [Next]_vars PROVE [ThreadNext]_threadVars
    OBVIOUS
  <1>1. CASE UNCHANGED vars
    BY <1>1 DEF vars
  <1>2. ASSUME NEW t \in Thread, ChannelCall(t) PROVE [ThreadNext]_threadVars
    BY <1>2 DEF ChannelCall, ThreadNext
  <1>3. ASSUME NEW t \in Thread, ThreadCall(t) PROVE ThreadNext
    BY <1>3 DEF ThreadCall, ThreadNext
  <1>4. ASSUME NEW t \in Thread, BodyEnds(t) PROVE ThreadNext
    BY <1>4 DEF BodyEnds, ThreadNext, EndOfRun
  <1>5. ASSUME NEW t \in Thread, Runtime(t) PROVE ThreadNext
    BY <1>5 DEF Runtime, ThreadNext
  <1> QED
    BY <1>1, <1>2, <1>3, <1>4, <1>5 DEF Next

(* A program with threads never strands one asleep on its channel, however *)
(* its threads are spawned, end and are joined.                            *)
THEOREM WorkersLoseNoWakeup == Spec => []NoLostWakeup
  <1>1. Init => ChanInvariant
    BY InitHolds DEF Init
  <1>2. ChanInvariant /\ [Next]_vars => ChanInvariant'
    BY StepKeeps, StepOfChannel
  <1>3. ChanInvariant => NoLostWakeup
    BY DEF ChanInvariant
  <1> QED
    BY <1>1, <1>2, <1>3, PTL DEF Spec

(* A channel that carries handles changes nothing of the joins: a result   *)
(* is the thread's own, and a taken handle has one joiner.                 *)
THEOREM WorkersJoin == Spec => [](JoinTruthful /\ OneJoiner)
  <1>1. Init => ThreadInvariant /\ ReaperAtWork
    <2>1. ThreadInit => ReaperAtWork
      BY EmptySeq DEF ThreadInit, ReaperAtWork, Thread
    <2> QED
      BY <2>1, ThreadInitHolds DEF Init
  <1>2. ThreadInvariant /\ ReaperAtWork /\ [Next]_vars => (ThreadInvariant /\ ReaperAtWork)'
    BY ThreadStepKeeps, StepOfThreads
  <1>3. ThreadInvariant => JoinTruthful /\ OneJoiner
    BY SoleJoinerCounts DEF ThreadInvariant
  <1> QED
    BY <1>1, <1>2, <1>3, PTL DEF Spec

(* Nor does a channel change the limit, or what can outlive the run.      *)
THEOREM WorkersKeepLimit == Spec => [](LimitHolds /\ OnlyCirclesOutliveRun)
  <1>1. Init => ThreadInvariant /\ ReaperAtWork /\ CountInvariant /\ ReapInvariant
    BY WholeInit DEF Init
  <1>2. /\ ThreadInvariant /\ ReaperAtWork /\ CountInvariant /\ ReapInvariant
        /\ [Next]_vars
        => (ThreadInvariant /\ ReaperAtWork /\ CountInvariant /\ ReapInvariant)'
    BY WholeKeeps, StepOfThreads
  <1>3. ThreadInvariant /\ CountInvariant /\ ReapInvariant => LimitHolds /\ OnlyCirclesOutliveRun
    BY OutliversJoin DEF CountInvariant
  <1> QED
    BY <1>1, <1>2, <1>3, PTL DEF Spec

=============================================================================
