----------------------------- MODULE HttpServer -----------------------------
(***************************************************************************)
(* The HTTP server of the interpreter: acceptor, workers and keep-alive    *)
(* handling (src/src/runtime/mod.rs), idle poller and the graceful stop    *)
(* (src/src/stdlib/a3_http.rs), over the listener of                       *)
(* src/src/stdlib/a1_net.rs.  A connection is owned by one place at a      *)
(* time: the kernel's backlog, the acceptor, the job queue, a worker, the  *)
(* idle pool or the poller.  The job queue is the channel of Channel,      *)
(* here with atomic calls (WorkersProofs!ChannelIsQueue).                  *)
(***************************************************************************)
EXTENDS Naturals, Sequences, FiniteSets, SequencesExt

CONSTANTS
    Conn,           \* the connections that clients open
    Worker,         \* the server's worker threads
    Main,           \* the thread that runs the program
    Spare,          \* bound: threads that stop the server for a handler
    Acceptor, Poller,
    None,           \* no thread, no connection
    Wake,           \* a connection `listener_wake` made and dropped at once
    Capacity,       \* of the job queue
    BacklogLimit,   \* of the kernel's accept queue
    MaxRequests,    \* bound: requests all clients send
    MaxStops,       \* bound: calls of `http_stop` by the main thread
    MaxFaults       \* bound: accept calls that fail

Stopper == Spare \union {Main}
Thread == Worker \union Stopper \union {Acceptor, Poller}

ASSUME ServerAssumption ==
    /\ IsFiniteSet(Conn) /\ IsFiniteSet(Worker) /\ IsFiniteSet(Spare)
    /\ Worker # {} /\ Worker \intersect Stopper = {} /\ Main \notin Spare
    /\ Acceptor # Poller /\ {Acceptor, Poller} \intersect (Worker \union Stopper) = {}
    /\ None \notin Thread \union Conn \union {Wake} /\ Wake \notin Conn
    /\ {Capacity, BacklogLimit} \subseteq Nat \ {0}
    /\ {MaxRequests, MaxStops, MaxFaults} \subseteq Nat

VARIABLES
    state,      \* of each connection: "new", "open" or "closed"
    pending,    \* requests a client sent that no worker has read
    hungup,     \* clients that closed their end
    served,     \* connections a worker has read a request from
    backlog,    \* connections the kernel accepted and the server did not
    listening,  \* the listener is open
    jobs,       \* the job queue
    closed,     \* the job queue is closed
    parked,     \* IdlePool.conns
    stopped,    \* IdlePool.stopped
    batch,      \* connections the poller took and has not looked at
    idle,       \* connections the poller found idle, `still_idle`
    running,    \* ServerState.running
    accept,     \* ServerState.accept: the thread to join, or None
    handles,    \* worker_handles and poller are still in ServerState
    pc,         \* where a thread is
    hold,       \* the connection a thread has in its hands
    keep,       \* keep_alive of the response a worker writes
    helper,     \* the thread a handler's stop is left to
    join,       \* what a stopping thread took from `accept` ...
    all,        \* ... and whether it took the other handles too
    atStop,     \* history: connections in the server when a stop was asked
    calls, sent, faults,    \* bounded counters
    broke       \* history: an accept failed while the backlog was drained

clientVars == <<pending, hungup, served, sent>>
queueVars == <<jobs, closed>>
pollVars == <<parked, stopped, batch, idle>>
stopVars == <<running, accept, handles, helper, join, all, atStop, calls>>
netVars == <<backlog, listening, faults, broke>>
vars == <<state, clientVars, netVars, queueVars, pollVars, stopVars, pc, hold, keep>>

Stage ==
    [ acceptor |-> {"check", "accept", "recheck", "send", "done"},
      worker |-> {"recv", "read", "handler", "write", "probe", "park",
                  "wake", "spawn", "store", "await", "done"},
      poller |-> {"scan", "examine", "send", "done"},
      main |-> {"run", "wake", "join", "drain", "offer", "pool", "poller",
                "queue", "workers", "listener", "over"},
      spare |-> {"unborn", "reserved", "failed", "call", "wake", "join", "drain",
                 "offer", "pool", "poller", "queue", "workers", "listener", "done"} ]

HttpTypeOK ==
    /\ state \in [Conn -> {"new", "open", "closed"}]
    /\ pending \in [Conn -> Nat] /\ hungup \subseteq Conn /\ served \subseteq Conn
    /\ backlog \in Seq(Conn \union {Wake}) /\ Len(backlog) <= BacklogLimit
    /\ jobs \in Seq(Conn \union {Wake}) /\ Len(jobs) <= Capacity
    /\ {listening, closed, stopped, running, handles, broke} \subseteq BOOLEAN
    /\ parked \subseteq Conn /\ batch \subseteq Conn /\ idle \subseteq Conn
    /\ accept \in Spare \union {Acceptor, None}
    /\ \A w \in Worker : pc[w] \in Stage.worker
    /\ \A f \in Spare : pc[f] \in Stage.spare
    /\ pc[Acceptor] \in Stage.acceptor /\ pc[Poller] \in Stage.poller /\ pc[Main] \in Stage.main
    /\ hold \in [Thread -> Conn \union {Wake, None}]
    /\ keep \in [Worker -> BOOLEAN] /\ helper \in [Worker -> Spare \union {None}]
    /\ join \in [Stopper -> Spare \union {Acceptor, None}] /\ all \in [Stopper -> BOOLEAN]
    /\ atStop \subseteq Conn /\ {calls, sent, faults} \subseteq Nat

\* `start_http_server`, up to the value it returns.
Init ==
    /\ state = [c \in Conn |-> "new"] /\ pending = [c \in Conn |-> 0]
    /\ hungup = {} /\ served = {} /\ backlog = <<>> /\ listening = TRUE
    /\ jobs = <<>> /\ closed = FALSE
    /\ parked = {} /\ stopped = FALSE /\ batch = {} /\ idle = {}
    /\ running = TRUE /\ accept = Acceptor /\ handles = TRUE
    /\ pc = [t \in Thread |->
               CASE t \in Worker -> "recv"
                 [] t \in Spare -> "unborn"
                 [] t = Acceptor -> "check"
                 [] t = Poller -> "scan"
                 [] t = Main -> "run"]
    /\ hold = [t \in Thread |-> None]
    /\ keep = [w \in Worker |-> FALSE] /\ helper = [w \in Worker |-> None]
    /\ join = [s \in Stopper |-> None] /\ all = [s \in Stopper |-> FALSE]
    /\ atStop = {} /\ calls = 0 /\ sent = 0 /\ faults = 0 /\ broke = FALSE

-----------------------------------------------------------------------------
(* Helpers. *)

Go(t, s) == pc' = [pc EXCEPT ![t] = s]
Hold(t, c) == hold' = [hold EXCEPT ![t] = c]

\* `conn_close`: what the server holds of the connection is gone.
Shut(cs) == state' = [c \in Conn |-> IF c \in cs THEN "closed" ELSE state[c]]

\* A blocking send of what thread `t` holds, which goes on at stage `s`; on
\* a closed queue the connection is closed and the thread goes on at `e`.
SendJob(t, s, e) ==
    /\ Hold(t, None)
    /\ IF closed
       THEN Shut({hold[t]}) /\ Go(t, e) /\ UNCHANGED queueVars
       ELSE /\ Len(jobs) < Capacity
            /\ jobs' = Append(jobs, hold[t])
            /\ Go(t, s)
            /\ UNCHANGED <<state, closed>>

\* Where a connection can be.
Times(c, s) == Cardinality({i \in DOMAIN s : s[i] = c})
Places(c) ==
    Times(c, backlog) + Times(c, jobs)
      + Cardinality({t \in Thread : hold[t] = c})
      + Cardinality({S \in {1, 2, 3} : c \in <<parked, batch, idle>>[S]})

-----------------------------------------------------------------------------
(* The clients and the kernel. *)

\* A handshake completes while the listener is open and its queue has room.
Connect(c) ==
    /\ state[c] = "new" /\ listening /\ Len(backlog) < BacklogLimit
    /\ state' = [state EXCEPT ![c] = "open"]
    /\ backlog' = Append(backlog, c)
    /\ UNCHANGED <<clientVars, listening, faults, broke, queueVars, pollVars, stopVars, pc, hold, keep>>

Request(c) ==
    /\ state[c] = "open" /\ c \notin hungup /\ sent < MaxRequests
    /\ pending' = [pending EXCEPT ![c] = @ + 1]
    /\ sent' = sent + 1
    /\ UNCHANGED <<state, hungup, served, netVars, queueVars, pollVars, stopVars, pc, hold, keep>>

HangUp(c) ==
    /\ state[c] = "open" /\ c \notin hungup
    /\ hungup' = hungup \union {c}
    /\ UNCHANGED <<state, pending, served, sent, netVars, queueVars, pollVars, stopVars, pc, hold, keep>>

Client == \E c \in Conn : Connect(c) \/ Request(c) \/ HangUp(c)

-----------------------------------------------------------------------------
(* The acceptor. *)

AcceptorChecks ==
    /\ pc[Acceptor] = "check"
    /\ Go(Acceptor, IF running THEN "accept" ELSE "done")
    /\ UNCHANGED <<state, clientVars, netVars, queueVars, pollVars, stopVars, hold, keep>>

\* `listener_accept_blocking`, which nothing but a connection wakes.
AcceptorAccepts ==
    /\ pc[Acceptor] = "accept" /\ backlog # <<>>
    /\ Hold(Acceptor, Head(backlog))
    /\ backlog' = Tail(backlog)
    /\ Go(Acceptor, "recheck")
    /\ UNCHANGED <<state, clientVars, listening, faults, broke, queueVars, pollVars, stopVars, keep>>

\* A transient error: back to the check.
AcceptorFails ==
    /\ pc[Acceptor] = "accept" /\ faults < MaxFaults
    /\ faults' = faults + 1
    /\ Go(Acceptor, "check")
    /\ UNCHANGED <<state, clientVars, backlog, listening, broke, queueVars, pollVars, stopVars, hold, keep>>

\* "Post-stop arrivals are closed, never served."
AcceptorRechecks ==
    /\ pc[Acceptor] = "recheck"
    /\ IF running
       THEN Go(Acceptor, "send") /\ UNCHANGED <<state, hold>>
       ELSE Shut({hold[Acceptor]}) /\ Hold(Acceptor, None) /\ Go(Acceptor, "done")
    /\ UNCHANGED <<clientVars, netVars, queueVars, pollVars, stopVars, keep>>

AcceptorSends ==
    /\ pc[Acceptor] = "send"
    /\ SendJob(Acceptor, "check", "done")
    /\ UNCHANGED <<clientVars, netVars, pollVars, stopVars, keep>>

AcceptorStep ==
    AcceptorChecks \/ AcceptorAccepts \/ AcceptorFails \/ AcceptorRechecks \/ AcceptorSends

-----------------------------------------------------------------------------
(* The workers: `handle_http_conn` between two `recv`. *)

\* A closed queue still gives out what it holds.
Recv(w) ==
    /\ pc[w] = "recv"
    /\ \/ /\ jobs # <<>>
          /\ Hold(w, Head(jobs)) /\ jobs' = Tail(jobs)
          /\ Go(w, "read")
       \/ /\ jobs = <<>> /\ closed
          /\ Go(w, "done") /\ UNCHANGED <<jobs, hold>>
    /\ UNCHANGED <<state, clientVars, netVars, closed, pollVars, stopVars, keep>>

\* `conn_close` at the end of `handle_http_conn`.
CloseConn(w) == Shut({hold[w]}) /\ Hold(w, None) /\ Go(w, "recv")

\* A request is read; one that is malformed or too large is answered with
\* an error and its connection closed.
ReadRequest(w) ==
    /\ pc[w] = "read" /\ hold[w] \in Conn /\ pending[hold[w]] > 0
    /\ pending' = [pending EXCEPT ![hold[w]] = @ - 1]
    /\ served' = served \union {hold[w]}
    /\ \/ Go(w, "handler") /\ UNCHANGED <<state, hold>>
       \/ CloseConn(w)
    /\ UNCHANGED <<hungup, sent, netVars, queueVars, pollVars, stopVars, keep>>

\* No request: the other end is gone, or the read timeout (408) expires.
ReadEnds(w) ==
    /\ pc[w] = "read" /\ (hold[w] \in Conn => pending[hold[w]] = 0)
    /\ CloseConn(w)
    /\ UNCHANGED <<clientVars, netVars, queueVars, pollVars, stopVars, keep>>

\* The handler returns and keep-alive is decided: request, response and the
\* limit of requests per connection may forbid it, and so does a stop.
HandlerReturns(w) ==
    /\ pc[w] = "handler"
    /\ \E wanted \in BOOLEAN : keep' = [keep EXCEPT ![w] = wanted /\ running]
    /\ Go(w, "write")
    /\ UNCHANGED <<state, clientVars, netVars, queueVars, pollVars, stopVars, hold>>

\* The response is written, which fails when the client is gone.
Write(w) ==
    /\ pc[w] = "write"
    /\ \/ keep[w] /\ Go(w, "probe") /\ UNCHANGED <<state, hold>>
       \/ (~keep[w] \/ hold[w] \in hungup) /\ CloseConn(w)
    /\ UNCHANGED <<clientVars, netVars, queueVars, pollVars, stopVars, keep>>

\* `conn_poll_readable`: serve the next request, close, or hand over.
Probe(w) ==
    /\ pc[w] = "probe"
    /\ IF pending[hold[w]] > 0 THEN Go(w, "read") /\ UNCHANGED <<state, hold>>
       ELSE IF hold[w] \in hungup THEN CloseConn(w)
       ELSE Go(w, "park") /\ UNCHANGED <<state, hold>>
    /\ UNCHANGED <<clientVars, netVars, queueVars, pollVars, stopVars, keep>>

\* Mutant: the worker parks the connection and goes on reading from it.
ParkAndRead(w) ==
    /\ pc[w] = "park"
    /\ IF stopped THEN CloseConn(w) /\ UNCHANGED parked
       ELSE /\ parked' = parked \union {hold[w]}
            /\ Go(w, "read") /\ UNCHANGED <<state, hold>>
    /\ UNCHANGED <<clientVars, netVars, queueVars, stopped, batch, idle, stopVars, keep>>

\* Mutant: a pool that was stopped still takes connections.
ParkLate(w) ==
    /\ pc[w] = "park"
    /\ parked' = parked \union {hold[w]}
    /\ Hold(w, None) /\ Go(w, "recv")
    /\ UNCHANGED <<state, clientVars, netVars, queueVars, stopped, batch, idle, stopVars, keep>>

\* `IdlePool::park`.
Park(w) ==
    /\ pc[w] = "park"
    /\ IF stopped THEN CloseConn(w) /\ UNCHANGED parked
       ELSE /\ parked' = parked \union {hold[w]}
            /\ Hold(w, None) /\ Go(w, "recv") /\ UNCHANGED state
    /\ UNCHANGED <<clientVars, netVars, queueVars, stopped, batch, idle, stopVars, keep>>

Serve(w) ==
    \/ Recv(w) \/ ReadRequest(w) \/ ReadEnds(w) \/ HandlerReturns(w)
    \/ Write(w) \/ Probe(w) \/ Park(w)

-----------------------------------------------------------------------------
(* The idle poller. *)

PollerUnchanged == UNCHANGED <<clientVars, netVars, stopVars, keep>>

\* The poller takes the whole pool, or closes it and ends; the wait on an
\* empty pool is not a step.
PollerScans ==
    /\ pc[Poller] = "scan"
    /\ parked' = {}
    /\ IF stopped THEN Shut(parked) /\ Go(Poller, "done") /\ UNCHANGED batch
       ELSE /\ parked # {}
            /\ batch' = parked
            /\ Go(Poller, "examine") /\ UNCHANGED state
    /\ UNCHANGED <<stopped, idle, hold, queueVars>>
    /\ PollerUnchanged

\* It peeks one connection of its batch.  While the server runs, one that
\* is idle for too long is closed unseen.
PollerExamines ==
    /\ pc[Poller] = "examine"
    /\ \E c \in batch :
          /\ batch' = batch \ {c}
          /\ \/ /\ pending[c] > 0
                /\ Hold(Poller, c) /\ Go(Poller, "send") /\ UNCHANGED <<state, idle>>
             \/ /\ running \/ pending[c] = 0
                /\ Shut({c}) /\ UNCHANGED <<idle, hold, pc>>
             \/ /\ running /\ pending[c] = 0 /\ c \notin hungup
                /\ idle' = idle \union {c} /\ UNCHANGED <<state, hold, pc>>
    /\ UNCHANGED <<parked, stopped, queueVars>>
    /\ PollerUnchanged

PollerSends ==
    /\ pc[Poller] = "send"
    /\ SendJob(Poller, "examine", "examine")
    /\ UNCHANGED pollVars
    /\ PollerUnchanged

\* At the end of its batch it puts back what is idle.
PollerPutsBack ==
    /\ pc[Poller] = "examine" /\ batch = {}
    /\ idle' = {}
    /\ IF stopped /\ idle # {}
       THEN Shut(idle \union parked) /\ parked' = {} /\ Go(Poller, "done")
       ELSE parked' = parked \union idle /\ Go(Poller, "scan") /\ UNCHANGED state
    /\ UNCHANGED <<batch, stopped, hold, queueVars>>
    /\ PollerUnchanged

PollerStep == PollerScans \/ PollerExamines \/ PollerSends \/ PollerPutsBack

-----------------------------------------------------------------------------
(* http_stop, called by the main thread, by a handler, or by a thread that  *)
(* a handler started and waits for.                                         *)

Owned == {c \in Conn : state[c] = "open"}

\* Its critical section: what is in ServerState goes to thread `s`.
TakeHandles(s) ==
    /\ running' = FALSE
    /\ join' = [join EXCEPT ![s] = accept]
    /\ all' = [all EXCEPT ![s] = handles]
    /\ accept' = None /\ handles' = FALSE
    /\ atStop' = IF running THEN Owned ELSE atStop

\* Mutant: the acceptor is not woken.
WakeNobody == backlog' = backlog

\* `listener_wake`, best effort: a full accept queue leaves the acceptor
\* something to accept anyway.
WakeAcceptor ==
    backlog' = IF listening /\ Len(backlog) < BacklogLimit THEN Append(backlog, Wake) ELSE backlog

\* What follows the last step of a stop by `s`.
Finished(s) == Go(s, IF s = Main THEN "run" ELSE "done")

\* Main calls it when the program says so and when the run ends; a helper
\* calls it once.  Handles that are gone mean that somebody else stops.
StopCalled(s) ==
    /\ pc[s] = (IF s = Main THEN "run" ELSE "call")
    /\ s = Main => calls < MaxStops
    /\ calls' = IF s = Main THEN calls + 1 ELSE calls
    /\ IF accept = None
       THEN Finished(s) /\ UNCHANGED <<running, join, all, accept, handles, atStop>>
       ELSE TakeHandles(s) /\ Go(s, "wake")
    /\ UNCHANGED <<state, clientVars, netVars, queueVars, pollVars, helper, hold, keep>>

StopWakes(s) ==
    /\ pc[s] = "wake"
    /\ WakeAcceptor
    /\ Go(s, "join")
    /\ UNCHANGED <<state, clientVars, listening, faults, broke, queueVars, pollVars, stopVars, hold, keep>>

StopOnly == UNCHANGED <<clientVars, stopVars, keep>>

\* Mutant: a stop does not wait for the finisher of an earlier one.
JoinAcceptorOnly(s) ==
    /\ pc[s] = "join" /\ (join[s] = Acceptor => pc[Acceptor] = "done")
    /\ Go(s, "drain")
    /\ UNCHANGED <<state, netVars, queueVars, pollVars, hold>> /\ StopOnly

\* finish_shutdown.
JoinAcceptor(s) ==
    /\ pc[s] = "join" /\ pc[join[s]] = "done"
    /\ Go(s, "drain")
    /\ UNCHANGED <<state, netVars, queueVars, pollVars, hold>> /\ StopOnly

\* Mutant: the accept queue is not drained.
DrainNothing(s) ==
    /\ pc[s] = "drain"
    /\ Go(s, "pool")
    /\ UNCHANGED <<state, netVars, queueVars, pollVars, hold>> /\ StopOnly

\* What waits in the accept queue is given to the workers, until it is
\* empty, the listener is closed or an accept fails.
Drain(s) ==
    /\ pc[s] = "drain"
    /\ \/ /\ listening /\ backlog # <<>>
          /\ Hold(s, Head(backlog)) /\ backlog' = Tail(backlog)
          /\ Go(s, "offer") /\ UNCHANGED <<faults, broke>>
       \/ /\ ~listening \/ backlog = <<>>
          /\ Go(s, "pool") /\ UNCHANGED <<hold, backlog, faults, broke>>
       \/ /\ listening /\ faults < MaxFaults
          /\ faults' = faults + 1 /\ broke' = TRUE
          /\ Go(s, "pool") /\ UNCHANGED <<hold, backlog>>
    /\ UNCHANGED <<state, listening, queueVars, pollVars>> /\ StopOnly

Offer(s) ==
    /\ pc[s] = "offer"
    /\ SendJob(s, "drain", "drain")
    /\ UNCHANGED <<netVars, pollVars>> /\ StopOnly

\* `IdlePool::stop`.
StopPool(s) ==
    /\ pc[s] = "pool"
    /\ stopped' = TRUE
    /\ Go(s, "poller")
    /\ UNCHANGED <<state, netVars, queueVars, parked, batch, idle, hold>> /\ StopOnly

JoinPoller(s) ==
    /\ pc[s] = "poller" /\ (all[s] => pc[Poller] = "done")
    /\ Go(s, "queue")
    /\ UNCHANGED <<state, netVars, queueVars, pollVars, hold>> /\ StopOnly

CloseQueue(s) ==
    /\ pc[s] = "queue"
    /\ closed' = TRUE
    /\ Go(s, "workers")
    /\ UNCHANGED <<state, netVars, jobs, pollVars, hold>> /\ StopOnly

JoinWorkers(s) ==
    /\ pc[s] = "workers" /\ (all[s] => \A w \in Worker : pc[w] = "done")
    /\ Go(s, "listener")
    /\ UNCHANGED <<state, netVars, queueVars, pollVars, hold>> /\ StopOnly

\* Closing the listener resets whatever came too late.
CloseListener(s) ==
    /\ pc[s] = "listener"
    /\ listening' = FALSE /\ backlog' = <<>>
    /\ Shut(Range(backlog))
    /\ Finished(s)
    /\ UNCHANGED <<faults, broke, queueVars, pollVars, hold>> /\ StopOnly

FinishShutdown(s) ==
    \/ JoinAcceptor(s) \/ Drain(s) \/ Offer(s) \/ StopPool(s)
    \/ JoinPoller(s) \/ CloseQueue(s) \/ JoinWorkers(s) \/ CloseListener(s)

\* The run is over after the stop that reaps the servers.
MainEnds ==
    /\ pc[Main] = "run" /\ calls > 0
    /\ Go(Main, "over")
    /\ UNCHANGED <<state, clientVars, netVars, queueVars, pollVars, stopVars, hold, keep>>

\* A handler stops the server: the worker takes the handles and wakes the
\* acceptor, a finisher does the rest.
HandlerStops(w) ==
    /\ pc[w] = "handler" /\ accept # None
    /\ \E f \in Spare :
          /\ pc[f] = "unborn"
          /\ TakeHandles(f)
          /\ helper' = [helper EXCEPT ![w] = f]
          /\ pc' = [pc EXCEPT ![w] = "wake", ![f] = "reserved"]
    /\ UNCHANGED <<state, clientVars, netVars, queueVars, pollVars, calls, hold, keep>>

HandlerWakes(w) ==
    /\ pc[w] = "wake"
    /\ WakeAcceptor
    /\ Go(w, "spawn")
    /\ UNCHANGED <<state, clientVars, listening, faults, broke, queueVars, pollVars, stopVars, hold, keep>>

\* The finisher starts, or the operating system refuses it: then nobody
\* has the handles any more.
HandlerSpawns(w) ==
    /\ pc[w] = "spawn"
    /\ \/ pc' = [pc EXCEPT ![w] = "store", ![helper[w]] = "join"]
       \/ pc' = [pc EXCEPT ![w] = "handler", ![helper[w]] = "failed"]
    /\ UNCHANGED <<state, clientVars, netVars, queueVars, pollVars, stopVars, hold, keep>>

\* The finisher's handle takes the place of the acceptor's.
HandlerStores(w) ==
    /\ pc[w] = "store"
    /\ accept' = helper[w]
    /\ Go(w, "handler")
    /\ UNCHANGED <<state, clientVars, netVars, queueVars, pollVars, running, handles,
                   helper, join, all, atStop, calls, hold, keep>>

\* A handler starts a thread or a task that stops the server, and waits for
\* it: that thread is not marked as a worker.
HandlerDelegates(w) ==
    /\ pc[w] = "handler"
    /\ \E f \in Spare :
          /\ pc[f] = "unborn"
          /\ helper' = [helper EXCEPT ![w] = f]
          /\ pc' = [pc EXCEPT ![w] = "await", ![f] = "call"]
    /\ UNCHANGED <<state, clientVars, netVars, queueVars, pollVars, running, accept, handles,
                   join, all, atStop, calls, hold, keep>>

HandlerResumes(w) ==
    /\ pc[w] = "await" /\ pc[helper[w]] = "done"
    /\ Go(w, "handler")
    /\ UNCHANGED <<state, clientVars, netVars, queueVars, pollVars, stopVars, hold, keep>>

-----------------------------------------------------------------------------
(* The specification. *)

WorkerStep(w) ==
    \/ Serve(w) \/ HandlerStops(w) \/ HandlerWakes(w) \/ HandlerSpawns(w)
    \/ HandlerStores(w) \/ HandlerDelegates(w) \/ HandlerResumes(w)
StopStep(s) == StopCalled(s) \/ StopWakes(s) \/ FinishShutdown(s)

Next ==
    \/ Client \/ AcceptorStep \/ PollerStep \/ MainEnds
    \/ \E w \in Worker : WorkerStep(w)
    \/ \E s \in Stopper : StopStep(s)

\* Every thread of the server runs, its reads have a timeout and handlers
\* return.  Clients owe nothing, and no program has to call `http_stop`.
Fairness ==
    /\ WF_vars(AcceptorStep) /\ WF_vars(PollerStep)
    /\ \A w \in Worker : WF_vars(WorkerStep(w))
    /\ \A s \in Stopper : WF_vars((s \in Spare /\ StopCalled(s)) \/ StopWakes(s) \/ FinishShutdown(s))

Spec == Init /\ [][Next]_vars /\ Fairness

-----------------------------------------------------------------------------
(* Properties. *)

\* A connection that is open is in exactly one place, and one that is not
\* is nowhere: the hand-overs between acceptor, queue, workers, pool,
\* poller and shutdown neither lose nor share one, so no two threads ever
\* read from the same socket and none is left open for ever.
OwnedOnce == \A c \in Conn : Places(c) = IF state[c] = "open" THEN 1 ELSE 0

Quiet ==
    /\ pc[Acceptor] = "done" /\ pc[Poller] = "done"
    /\ \A w \in Worker : pc[w] = "done"
    /\ jobs = <<>> /\ parked = {}

\* The reaping of servers at the end of a run, "never leak sockets or worker
\* threads past the run": it holds whenever the main thread's stop found a
\* handle, the acceptor's or a finisher's.  If it found none, a stop by a
\* handler is still under way or has failed.
RunStopsServer ==
    pc[Main] = "over" =>
        Quiet \/ (join[Main] = None /\ \E f \in Spare : pc[f] \notin {"unborn", "done"})

\* Connections in the server when it was asked to stop that had a request
\* and were closed without any.
Unserved == {c \in atStop : state[c] = "closed" /\ pending[c] > 0 /\ c \notin served}

\* `finish_shutdown` promises that "every connection accepted (or already
\* handshake-completed in the backlog) at the time of the stop request is
\* served".
EveryAcceptedServed == Unserved = {}

\* What the code does: the acceptor may close the one connection it is just
\* accepting; all others are served, whatever the queue, the workers and
\* the poller are doing, unless an accept fails during the drain.
AtMostOneUnserved == ~broke => Cardinality(Unserved) <= 1

\* Nobody has the handles since a finisher could not be started.
Abandoned == \E f \in Spare : pc[f] = "failed"

\* A worker waits for a thread inside a shutdown, which waits for workers.
Circle == \E w \in Worker : pc[w] = "await" /\ pc[helper[w]] \notin {"call", "done"}

\* A stop ends: nothing waits for ever in the shutdown, neither for a free
\* place in the queue nor for a thread that sleeps.
StopEnds == ~running ~> (~listening \/ Abandoned \/ Circle)

\* A request that reached an open connection is read, or its connection is
\* closed: none is forgotten in a pool, a batch or a queue.
RequestAnswered ==
    \A c \in Conn :
        pending[c] > 0 ~> (pending[c] = 0 \/ state[c] = "closed" \/ Abandoned \/ Circle)

=============================================================================
