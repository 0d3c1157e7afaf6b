-------------------------- MODULE HttpServerProofs --------------------------
(***************************************************************************)
(* Proofs about HttpServer, for any number of connections, workers and     *)
(* threads that stop the server: its types, that a connection is in one    *)
(* place (OwnedOnce), that the end of a run stops the server               *)
(* (RunStopsServer), and what a stop leaves unserved (AtMostOneUnserved).  *)
(*                                                                         *)
(* The argument has three layers.  First, where each thread is and what it *)
(* then has in its hands (Stages, Hands).  Second, the order of a          *)
(* shutdown: who took the handles from whom (Chain), and therefore which   *)
(* threads have ended at each of its steps (Progress).  Third, the         *)
(* connections: the places are disjoint and together hold the open ones    *)
(* (Sorted), what is past its first request was served (Served), and what  *)
(* waited at the time of the stop leaves the accept queue in the drain     *)
(* (Late).                                                                 *)
(***************************************************************************)
EXTENDS HttpServer, SequenceTheorems, FiniteSetTheorems, TLAPS

\* The threads of different kinds are different, and None is none of them.
LEMMA Kinds ==
  /\ Acceptor \in Thread /\ Poller \in Thread /\ Main \in Stopper /\ Stopper \subseteq Thread
  /\ Spare \subseteq Stopper /\ Worker \subseteq Thread /\ Worker \intersect Stopper = {}
  /\ Acceptor \notin Worker \union Stopper /\ Poller \notin Worker \union Stopper
  /\ Acceptor # Poller /\ Main \notin Spare /\ None \notin Thread \union Conn \union {Wake}
  /\ Wake \notin Conn /\ Capacity \in Nat \ {0} /\ BacklogLimit \in Nat \ {0}
  /\ Stopper = Spare \union {Main}
  /\ \A t \in Thread : t \in Worker \/ t \in Stopper \/ t = Acceptor \/ t = Poller
  BY ServerAssumption DEF Thread, Stopper

-----------------------------------------------------------------------------
(* The invariant. *)

\* What a queue holds and a thread has in its hands.
Item == Conn \union {Wake}

\* Where each kind of thread can be.
Stages ==
    /\ pc = [t \in Thread |-> pc[t]]
    /\ pc[Acceptor] \in {"check", "accept", "recheck", "send", "done"}
    /\ pc[Poller] \in {"scan", "examine", "send", "done"}
    /\ pc[Main] \in {"run", "wake", "join", "drain", "offer", "pool", "poller",
                     "queue", "workers", "listener", "over"}
    /\ \A f \in Spare :
          pc[f] \in {"unborn", "reserved", "failed", "call", "wake", "join", "drain",
                    "offer", "pool", "poller", "queue", "workers", "listener", "done"}
    /\ \A w \in Worker :
          pc[w] \in {"recv", "read", "handler", "write", "probe", "park", "wake",
                    "spawn", "store", "await", "done"}

\* A worker that stops the server has a finisher of its own.
Helpers ==
    /\ helper \in [Worker -> Spare \union {None}]
    /\ \A w \in Worker :
          /\ pc[w] \in {"wake", "spawn", "store", "await"} => helper[w] \in Spare
          /\ pc[w] \in {"wake", "spawn"} => pc[helper[w]] = "reserved"
    /\ \A v, w \in Worker :
          pc[v] \in {"wake", "spawn"} /\ pc[w] \in {"wake", "spawn"} /\
              helper[v] = helper[w] => v = w

\* What a stopping thread can have taken.
Stops ==
    /\ join \in [Stopper -> Spare \union {Acceptor, None}] /\ all \in [Stopper -> BOOLEAN]
    /\ accept \in Spare \union {Acceptor, None} /\ handles \in BOOLEAN

\* A thread has a connection in its hands exactly at these stages.
Hands ==
    /\ hold \in [Thread -> Item \union {None}]
    /\ hold[Acceptor] # None <=> pc[Acceptor] \in {"recheck", "send"}
    /\ hold[Poller] # None <=> pc[Poller] = "send"
    /\ hold[Poller] # Wake
    /\ \A s \in Stopper : hold[s] # None <=> pc[s] = "offer"
    /\ \A w \in Worker :
        /\ hold[w] = None <=> pc[w] \in {"recv", "done"}
        /\ hold[w] = Wake => pc[w] = "read"

Queues ==
    /\ backlog \in Seq(Item) /\ Len(backlog) <= BacklogLimit
    /\ jobs \in Seq(Item) /\ Len(jobs) <= Capacity

LEMMA Dequeue ==
  ASSUME NEW q \in Seq(Item), q # <<>>
  PROVE  Head(q) \in Item /\ Tail(q) \in Seq(Item) /\ Len(Tail(q)) \in Nat /\ Len(q) \in Nat
         /\ Len(Tail(q)) < Len(q)
  BY HeadTailProperties

LEMMA Enqueue ==
  ASSUME NEW q \in Seq(Item), NEW x \in Item
  PROVE  Append(q, x) \in Seq(Item) /\ Len(Append(q, x)) = Len(q) + 1 /\ Len(q) \in Nat
  BY AppendProperties

Sets ==
    /\ state \in [Conn -> {"new", "open", "closed"}]
    /\ pending \in [Conn -> Nat] /\ hungup \subseteq Conn /\ served \subseteq Conn
    /\ parked \subseteq Conn /\ batch \subseteq Conn /\ idle \subseteq Conn
    /\ atStop \subseteq Conn

Flags ==
    /\ listening \in BOOLEAN /\ closed \in BOOLEAN /\ stopped \in BOOLEAN
    /\ running \in BOOLEAN /\ broke \in BOOLEAN
    /\ keep \in [Worker -> BOOLEAN]
    /\ calls \in Nat /\ sent \in Nat /\ faults \in Nat

\* The stages of a thread that has taken handles.
Taking == {"reserved", "failed", "wake", "join", "drain", "offer", "pool", "poller",
           "queue", "workers", "listener"}

\* Who took the handles from whom: the first one has the acceptor's, every
\* other one that of a finisher.
Chain ==
    /\ running <=> accept = Acceptor
    /\ running <=> handles
    /\ running => calls = 0 /\ pc[Main] = "run"
    /\ running => \A s \in Stopper : join[s] = None
    /\ accept \in Spare => join[accept] # None
    /\ \A w \in Worker : pc[w] \in {"wake", "spawn", "store"} => join[helper[w]] # None
    /\ \A s \in Stopper : pc[s] \in Taking => join[s] # None
    /\ \A s \in Stopper : pc[s] \in {"unborn", "call"} => join[s] = None
    /\ \A s \in Stopper : all[s] <=> join[s] = Acceptor
    /\ \A s \in Stopper : join[s] \in Spare => join[join[s]] # None
    /\ \A s, t \in Stopper : join[s] = Acceptor /\ join[t] = Acceptor => s = t

\* The steps of a shutdown that follow the join of the acceptor.
After == {"drain", "offer", "pool", "poller", "queue", "workers", "listener"}
Over == pc[Acceptor] = "done" /\ pc[Poller] = "done" /\ \A w \in Worker : pc[w] = "done"

\* How far a shutdown has come, by the place of the thread in it.
Progress ==
    /\ running => listening /\ ~closed
    /\ closed => pc[Acceptor] = "done" /\ pc[Poller] = "done"
    /\ \A s \in Stopper : pc[s] \in After => join[s] # None /\ pc[join[s]] = "done"
    /\ \A s \in Stopper : all[s] /\ pc[s] \in Taking => listening
    /\ \A s \in Stopper : all[s] /\ pc[s] \in Taking => (closed <=> pc[s] \in {"workers",
           "listener"})
    /\ \A s \in Stopper : all[s] /\ pc[s] \in {"queue", "workers", "listener"} =>
           pc[Poller] = "done"
    /\ \A s \in Stopper : all[s] /\ pc[s] = "listener" => Over
    /\ \A s \in Stopper :
          join[s] # None /\ pc[s] \in {"run", "over", "done"} => Over /\ ~listening /\ closed

\* Who stopped the server first has what it took.
Attended == running \/ \E s \in Stopper : join[s] # None

\* What the poller has in its hands, and what a closed queue holds.
Pool ==
    /\ pc[Poller] \in {"scan", "done"} => batch = {} /\ idle = {}
    /\ pc[Poller] = "done" => parked = {} /\ stopped

Drained == \A w \in Worker : pc[w] = "done" => closed /\ jobs = <<>>

\* The places of a connection.
Waiting == Range(backlog) \intersect Conn
Queued == Range(jobs) \intersect Conn
Held == {hold[t] : t \in Thread} \intersect Conn

\* No place holds a connection twice ...
Unique ==
    /\ \A i, j \in DOMAIN backlog : backlog[i] = backlog[j] /\ backlog[i] \in Conn => i = j
    /\ \A i, j \in DOMAIN jobs : jobs[i] = jobs[j] /\ jobs[i] \in Conn => i = j
    /\ \A t, u \in Thread : hold[t] = hold[u] /\ hold[t] \in Conn => t = u

\* ... no two places hold the same one, and together they hold the open ones.
Apart ==
    /\ Waiting \intersect (Queued \union Held \union parked \union batch \union idle) = {}
    /\ Queued \intersect (Held \union parked \union batch \union idle) = {}
    /\ Held \intersect (parked \union batch \union idle) = {}
    /\ parked \intersect (batch \union idle) = {}
    /\ batch \intersect idle = {}
    /\ Owned = Waiting \union Queued \union Held \union parked \union batch \union idle

Sorted == Unique /\ Apart
PlaceVars == <<state, backlog, jobs, hold, parked, batch, idle>>

\* Everything past its first request is known to be served.
Served ==
    /\ parked \union batch \union idle \subseteq served
    /\ hold[Poller] # None => hold[Poller] \in served
    /\ \A w \in Worker : pc[w] \notin {"recv", "read", "done"} => hold[w] \in served

\* The steps of a shutdown after the drain.
Past == {"pool", "poller", "queue", "workers", "listener"}

\* What waited in the accept queue when the stop was asked is gone from it
\* after the drain.
Late ==
    /\ \A c \in atStop : state[c] # "new"
    /\ running => atStop = {}
    /\ ~listening => backlog = <<>>
    /\ \A s \in Stopper : pc[s] = "offer" => all[s]
    /\ ~broke => \A s \in Stopper : pc[s] \in Past => Waiting \intersect atStop = {}

\* A connection that is closed unserved was in the acceptor's hands.
AtMostOne ==
    ~broke => /\ \A c, d \in Unserved : c = d
              /\ Unserved = {} \/ pc[Acceptor] = "done"

\* What one step can do to that.
Fewer ==
    \/ broke'
    \/ Unserved' \subseteq Unserved
    \/ pc[Acceptor] = "recheck" /\ pc'[Acceptor] = "done" /\
           Unserved' \subseteq Unserved \union {hold[Acceptor]}

\* The ordinary business of the server: nobody takes or passes on a handle.
Business == Client \/ AcceptorStep \/ PollerStep \/ \E w \in Worker : Serve(w)
Serving == {"recv", "read", "handler", "write", "probe", "park"}

\* What it leaves alone.
Aside ==
    /\ UNCHANGED <<stopVars, listening, broke, closed>>
    /\ \A s \in Stopper : pc'[s] = pc[s]
    /\ \A w \in Worker :
          pc'[w] = pc[w] \/ (pc[w] \in Serving /\ pc'[w] \in Serving \union {"done"})
    /\ pc[Acceptor] = "done" => pc'[Acceptor] = "done"
    /\ pc[Poller] = "done" => pc'[Poller] = "done"

LEMMA ServeGoes ==
  ASSUME Stages, NEW w \in Worker, Serve(w)
  PROVE  /\ pc[w] \in Serving /\ UNCHANGED <<stopVars, listening, broke, closed>>
         /\ \E p \in Serving \union {"done"} : Go(w, p)
  <1> USE DEF Serving, netVars, queueVars
  <1>1. CASE Recv(w)
    BY <1>1 DEF Recv
  <1>2. CASE ReadRequest(w)
    BY <1>2 DEF ReadRequest, CloseConn
  <1>3. CASE ReadEnds(w)
    BY <1>3 DEF ReadEnds, CloseConn
  <1>4. CASE HandlerReturns(w)
    BY <1>4 DEF HandlerReturns
  <1>5. CASE Write(w)
    BY <1>5 DEF Write, CloseConn
  <1>6. CASE Probe(w)
    BY <1>6 DEF Probe, CloseConn
  <1>7. CASE Park(w)
    BY <1>7 DEF Park, CloseConn
  <1> QED
    BY <1>1, <1>2, <1>3, <1>4, <1>5, <1>6, <1>7 DEF Serve

LEMMA AcceptorGoes ==
  ASSUME AcceptorStep
  PROVE  /\ pc[Acceptor] # "done" /\ UNCHANGED <<stopVars, listening, broke, closed>>
         /\ \E p : Go(Acceptor, p)
  <1>1. CASE AcceptorSends
    BY <1>1 DEF AcceptorSends, SendJob, netVars, queueVars
  <1>2. CASE ~AcceptorSends
    BY <1>2
    DEF AcceptorStep, AcceptorChecks, AcceptorAccepts, AcceptorFails, AcceptorRechecks,
        netVars, queueVars
  <1> QED
    BY <1>1, <1>2

LEMMA PollerGoes ==
  ASSUME Stages, PollerStep
  PROVE  /\ pc[Poller] # "done" /\ UNCHANGED <<stopVars, listening, broke, closed>>
         /\ \E p : Go(Poller, p) \/ UNCHANGED pc
  <1>1. CASE PollerSends
    BY <1>1 DEF PollerSends, SendJob, PollerUnchanged, netVars, queueVars
  <1>2. CASE ~PollerSends
    BY <1>2
    DEF PollerStep, PollerScans, PollerExamines, PollerPutsBack, PollerUnchanged, netVars,
        queueVars
  <1> QED
    BY <1>1, <1>2

LEMMA BusinessAside ==
  ASSUME Stages, Business
  PROVE  Aside
  <1>1. CASE Client
    BY <1>1 DEF Client, Connect, Request, HangUp, netVars, queueVars, Aside
  <1>2. CASE AcceptorStep
    BY <1>2, AcceptorGoes, Kinds DEF Go, Stages, Aside
  <1>3. CASE PollerStep
    BY <1>3, PollerGoes, Kinds DEF Go, Stages, Aside
  <1>4. ASSUME NEW w \in Worker, Serve(w) PROVE Aside
    <2>1. PICK p \in Serving \union {"done"} : Go(w, p)
      BY <1>4, ServeGoes
    <2>2. /\ \A u \in Thread \ {w} : pc'[u] = pc[u]
          /\ pc'[w] = p
      BY <2>1, Kinds DEF Go, Stages
    <2> QED
      BY <1>4, <2>1, <2>2, ServeGoes, Kinds DEF Aside
  <1> QED
    BY <1>1, <1>2, <1>3, <1>4 DEF Business

LEMMA PcStep ==
  ASSUME Stages, Helpers, [Next]_vars
  PROVE  Stages'
  <1>1. ASSUME NEW c \in Conn, Connect(c) PROVE Stages'
    <2>1. UNCHANGED pc
      BY <1>1 DEF Connect
    <2> QED
      BY <2>1, Kinds DEF Stages
  <1>2. CASE AcceptorAccepts
    <2>1. Go(Acceptor, "recheck")
      BY <1>2 DEF AcceptorAccepts
    <2> QED
      BY <2>1, Kinds DEF Stages, Go
  <1>3. CASE AcceptorSends
    <2>1. Go(Acceptor, "check") \/ Go(Acceptor, "done")
      BY <1>3 DEF AcceptorSends, SendJob
    <2> QED
      BY <2>1, Kinds DEF Stages, Go
  <1>4. CASE PollerSends
    <2>1. Go(Poller, "examine")
      BY <1>4 DEF PollerSends, SendJob
    <2> QED
      BY <2>1, Kinds DEF Stages, Go
  <1>5. ASSUME NEW w \in Worker, Recv(w) PROVE Stages'
    <2>1. Go(w, "read") \/ Go(w, "done")
      BY <1>5 DEF Recv
    <2> QED
      BY <2>1, Kinds DEF Stages, Go
  <1>6. ASSUME NEW w \in Worker, ReadRequest(w) PROVE Stages'
    <2>1. Go(w, "handler") \/ Go(w, "recv")
      BY <1>6 DEF ReadRequest, CloseConn
    <2> QED
      BY <2>1, Kinds DEF Stages, Go
  <1>7. ASSUME NEW w \in Worker, HandlerStops(w) PROVE Stages'
    <2>1. PICK f \in Spare : pc' = [pc EXCEPT ![w] = "wake", ![f] = "reserved"]
      BY <1>7 DEF HandlerStops
    <2>2. /\ pc' = [t \in Thread |-> pc'[t]] /\ pc'[w] = "wake" /\ pc'[f] = "reserved"
          /\ \A u \in Thread \ {w, f} : pc'[u] = pc[u]
      BY <2>1, Kinds DEF Stages
    <2> QED
      BY <2>2, Kinds DEF Stages
  <1>8. ASSUME NEW w \in Worker, HandlerDelegates(w) PROVE Stages'
    <2>1. PICK f \in Spare : pc' = [pc EXCEPT ![w] = "await", ![f] = "call"]
      BY <1>8 DEF HandlerDelegates
    <2>2. /\ pc' = [t \in Thread |-> pc'[t]] /\ pc'[w] = "await" /\ pc'[f] = "call"
          /\ \A u \in Thread \ {w, f} : pc'[u] = pc[u]
      BY <2>1, Kinds DEF Stages
    <2> QED
      BY <2>2, Kinds DEF Stages
  <1>9. ASSUME NEW s \in Stopper, StopCalled(s) PROVE Stages'
    <2>1. Finished(s) \/ Go(s, "wake")
      BY <1>9 DEF StopCalled
    <2> QED
      BY <2>1, Kinds DEF Stages, Go, Finished
  <1>10. ASSUME NEW s \in Stopper, Drain(s) PROVE Stages'
    <2>1. Go(s, "offer") \/ Go(s, "pool")
      BY <1>10 DEF Drain
    <2> QED
      BY <2>1, Kinds DEF Stages, Go
  <1>11. ASSUME NEW s \in Stopper, Offer(s) PROVE Stages'
    <2>1. Go(s, "drain")
      BY <1>11 DEF Offer, SendJob
    <2> QED
      BY <2>1, Kinds DEF Stages, Go
  <1>12. ASSUME NEW s \in Stopper, CloseListener(s) PROVE Stages'
    <2>1. Finished(s)
      BY <1>12 DEF CloseListener
    <2> QED
      BY <2>1, Kinds DEF Stages, Go, Finished
  <1> USE Kinds
      DEF Stages, Helpers, Go
  <1>13. ASSUME NEW c \in Conn, Request(c) PROVE Stages'
    BY <1>13 DEF Request
  <1>14. ASSUME NEW c \in Conn, HangUp(c) PROVE Stages'
    BY <1>14 DEF HangUp
  <1>15. CASE AcceptorChecks
    BY <1>15 DEF AcceptorChecks
  <1>16. CASE AcceptorFails
    BY <1>16 DEF AcceptorFails
  <1>17. CASE AcceptorRechecks
    BY <1>17 DEF AcceptorRechecks
  <1>18. CASE PollerScans
    BY <1>18 DEF PollerScans
  <1>19. CASE PollerExamines
    BY <1>19 DEF PollerExamines
  <1>20. CASE PollerPutsBack
    BY <1>20 DEF PollerPutsBack
  <1>21. CASE MainEnds
    BY <1>21 DEF MainEnds
  <1>22. ASSUME NEW w \in Worker, ReadEnds(w) PROVE Stages'
    BY <1>22 DEF ReadEnds, CloseConn
  <1>23. ASSUME NEW w \in Worker, HandlerReturns(w) PROVE Stages'
    BY <1>23 DEF HandlerReturns
  <1>24. ASSUME NEW w \in Worker, Write(w) PROVE Stages'
    BY <1>24 DEF Write, CloseConn
  <1>25. ASSUME NEW w \in Worker, Probe(w) PROVE Stages'
    BY <1>25 DEF Probe, CloseConn
  <1>26. ASSUME NEW w \in Worker, Park(w) PROVE Stages'
    BY <1>26 DEF Park, CloseConn
  <1>27. ASSUME NEW w \in Worker, HandlerWakes(w) PROVE Stages'
    BY <1>27 DEF HandlerWakes
  <1>28. ASSUME NEW w \in Worker, HandlerSpawns(w) PROVE Stages'
    BY <1>28 DEF HandlerSpawns
  <1>29. ASSUME NEW w \in Worker, HandlerStores(w) PROVE Stages'
    BY <1>29 DEF HandlerStores
  <1>30. ASSUME NEW w \in Worker, HandlerResumes(w) PROVE Stages'
    BY <1>30 DEF HandlerResumes
  <1>31. ASSUME NEW s \in Stopper, StopWakes(s) PROVE Stages'
    BY <1>31 DEF StopWakes
  <1>32. ASSUME NEW s \in Stopper, JoinAcceptor(s) PROVE Stages'
    BY <1>32 DEF JoinAcceptor
  <1>33. ASSUME NEW s \in Stopper, StopPool(s) PROVE Stages'
    BY <1>33 DEF StopPool
  <1>34. ASSUME NEW s \in Stopper, JoinPoller(s) PROVE Stages'
    BY <1>34 DEF JoinPoller
  <1>35. ASSUME NEW s \in Stopper, CloseQueue(s) PROVE Stages'
    BY <1>35 DEF CloseQueue
  <1>36. ASSUME NEW s \in Stopper, JoinWorkers(s) PROVE Stages'
    BY <1>36 DEF JoinWorkers
  <1>37. CASE UNCHANGED vars
    BY <1>37 DEF vars
  <1> QED
    BY <1>1, <1>2, <1>3, <1>4, <1>5, <1>6, <1>7, <1>8, <1>9, <1>10, <1>11, <1>12, <1>13, <1>14,
       <1>15, <1>16, <1>17, <1>18, <1>19, <1>20, <1>21, <1>22, <1>23, <1>24, <1>25, <1>26,
       <1>27, <1>28, <1>29, <1>30, <1>31, <1>32, <1>33, <1>34, <1>35, <1>36, <1>37
    DEF Next, Client, AcceptorStep, PollerStep, Serve, WorkerStep, StopStep, FinishShutdown

LEMMA HelperStep ==
  ASSUME Stages, Helpers, [Next]_vars
  PROVE  Helpers'
  <1>1. CASE Business
    BY <1>1, BusinessAside, Kinds DEF Aside, Stages, Helpers, Serving, stopVars
  <1>2. ASSUME NEW w \in Worker, HandlerStops(w) PROVE Helpers'
    <2>1. PICK f \in Spare : /\ pc' = [pc EXCEPT ![w] = "wake", ![f] = "reserved"]
                           /\ helper' = [helper EXCEPT ![w] = f]
                           /\ pc[f] = "unborn" /\ pc[w] = "handler"
      BY <1>2 DEF HandlerStops
    <2> QED
      BY <2>1, Kinds DEF Stages, Helpers
  <1>3. ASSUME NEW w \in Worker, HandlerDelegates(w) PROVE Helpers'
    <2>1. PICK f \in Spare : /\ pc' = [pc EXCEPT ![w] = "await", ![f] = "call"]
                           /\ helper' = [helper EXCEPT ![w] = f]
                           /\ pc[f] = "unborn" /\ pc[w] = "handler"
      BY <1>3 DEF HandlerDelegates
    <2> QED
      BY <2>1, Kinds DEF Stages, Helpers
  <1>4. ASSUME NEW s \in Stopper, StopCalled(s) PROVE Helpers'
    <2>1. pc[s] \in {"run", "call"} /\ (Finished(s) \/ Go(s, "wake")) /\ UNCHANGED helper
      BY <1>4 DEF StopCalled
    <2> QED
      BY <2>1, Kinds DEF Stages, Helpers, Go, Finished
  <1>5. ASSUME NEW s \in Stopper, Drain(s) PROVE Helpers'
    <2>1. pc[s] = "drain" /\ (Go(s, "offer") \/ Go(s, "pool")) /\ UNCHANGED helper
      BY <1>5 DEF Drain, StopOnly, stopVars
    <2> QED
      BY <2>1, Kinds DEF Stages, Helpers, Go
  <1>6. ASSUME NEW s \in Stopper, Offer(s) PROVE Helpers'
    <2>1. pc[s] = "offer" /\ Go(s, "drain") /\ UNCHANGED helper
      BY <1>6 DEF Offer, SendJob, StopOnly, stopVars
    <2> QED
      BY <2>1, Kinds DEF Stages, Helpers, Go
  <1>7. ASSUME NEW s \in Stopper, CloseListener(s) PROVE Helpers'
    <2>1. pc[s] = "listener" /\ Finished(s) /\ UNCHANGED helper
      BY <1>7 DEF CloseListener, StopOnly, stopVars
    <2> QED
      BY <2>1, Kinds DEF Stages, Helpers, Go, Finished
  <1> USE Kinds
      DEF Stages, Helpers, Go, stopVars
  <1>8. CASE MainEnds
    BY <1>8 DEF MainEnds
  <1>9. ASSUME NEW w \in Worker, HandlerWakes(w) PROVE Helpers'
    BY <1>9 DEF HandlerWakes
  <1>10. ASSUME NEW w \in Worker, HandlerSpawns(w) PROVE Helpers'
    BY <1>10 DEF HandlerSpawns
  <1>11. ASSUME NEW w \in Worker, HandlerStores(w) PROVE Helpers'
    BY <1>11 DEF HandlerStores
  <1>12. ASSUME NEW w \in Worker, HandlerResumes(w) PROVE Helpers'
    BY <1>12 DEF HandlerResumes
  <1>13. ASSUME NEW s \in Stopper, StopWakes(s) PROVE Helpers'
    BY <1>13 DEF StopWakes
  <1>14. ASSUME NEW s \in Stopper, JoinAcceptor(s) PROVE Helpers'
    BY <1>14 DEF JoinAcceptor, StopOnly
  <1>15. ASSUME NEW s \in Stopper, StopPool(s) PROVE Helpers'
    BY <1>15 DEF StopPool, StopOnly
  <1>16. ASSUME NEW s \in Stopper, JoinPoller(s) PROVE Helpers'
    BY <1>16 DEF JoinPoller, StopOnly
  <1>17. ASSUME NEW s \in Stopper, CloseQueue(s) PROVE Helpers'
    BY <1>17 DEF CloseQueue, StopOnly
  <1>18. ASSUME NEW s \in Stopper, JoinWorkers(s) PROVE Helpers'
    BY <1>18 DEF JoinWorkers, StopOnly
  <1>19. CASE UNCHANGED vars
    BY <1>19 DEF vars
  <1> QED
    BY <1>1, <1>2, <1>3, <1>4, <1>5, <1>6, <1>7, <1>8, <1>9, <1>10, <1>11, <1>12, <1>13, <1>14,
       <1>15, <1>16, <1>17, <1>18, <1>19
    DEF Next, Business, WorkerStep, StopStep, FinishShutdown

LEMMA TakeRest ==
  ASSUME Stops, NEW s \in Stopper, TakeHandles(s)
  PROVE  Stops'
  <1>1. join' \in [Stopper -> Spare \union {Acceptor, None}] 
    BY DEF Stops, TakeHandles
  <1>2. all' \in [Stopper -> BOOLEAN]
    BY DEF Stops, TakeHandles
  <1>3. accept' \in Spare \union {Acceptor, None} /\ handles' \in BOOLEAN
    BY DEF Stops, TakeHandles
  <1> QED
    BY <1>1, <1>2, <1>3 DEF Stops

LEMMA RestStep ==
  ASSUME Stages, Helpers, Stops, [Next]_vars
  PROVE  Stops'
  <1>1. CASE Business
    BY <1>1, BusinessAside DEF Aside, Stops, stopVars
  <1>2. ASSUME NEW w \in Worker, HandlerStops(w) PROVE Stops'
    <2>1. PICK f \in Spare : TakeHandles(f)
      BY <1>2 DEF HandlerStops
    <2> QED
      BY <2>1, TakeRest, Kinds
  <1>3. ASSUME NEW s \in Stopper, StopCalled(s) PROVE Stops'
    BY <1>3, TakeRest DEF StopCalled, Stops
  <1> USE Kinds
      DEF Stops, stopVars
  <1>4. CASE MainEnds
    BY <1>4 DEF MainEnds
  <1>5. ASSUME NEW w \in Worker, HandlerWakes(w) PROVE Stops'
    BY <1>5 DEF HandlerWakes
  <1>6. ASSUME NEW w \in Worker, HandlerSpawns(w) PROVE Stops'
    BY <1>6 DEF HandlerSpawns
  <1>7. ASSUME NEW w \in Worker, HandlerStores(w) PROVE Stops'
    BY <1>7 DEF Helpers, HandlerStores
  <1>8. ASSUME NEW w \in Worker, HandlerDelegates(w) PROVE Stops'
    BY <1>8 DEF HandlerDelegates
  <1>9. ASSUME NEW w \in Worker, HandlerResumes(w) PROVE Stops'
    BY <1>9 DEF HandlerResumes
  <1>10. ASSUME NEW s \in Stopper, StopWakes(s) PROVE Stops'
    BY <1>10 DEF StopWakes
  <1>11. ASSUME NEW s \in Stopper, JoinAcceptor(s) PROVE Stops'
    BY <1>11 DEF JoinAcceptor, StopOnly
  <1>12. ASSUME NEW s \in Stopper, Drain(s) PROVE Stops'
    BY <1>12 DEF Drain, StopOnly
  <1>13. ASSUME NEW s \in Stopper, Offer(s) PROVE Stops'
    BY <1>13 DEF Offer, StopOnly
  <1>14. ASSUME NEW s \in Stopper, StopPool(s) PROVE Stops'
    BY <1>14 DEF StopPool, StopOnly
  <1>15. ASSUME NEW s \in Stopper, JoinPoller(s) PROVE Stops'
    BY <1>15 DEF JoinPoller, StopOnly
  <1>16. ASSUME NEW s \in Stopper, CloseQueue(s) PROVE Stops'
    BY <1>16 DEF CloseQueue, StopOnly
  <1>17. ASSUME NEW s \in Stopper, JoinWorkers(s) PROVE Stops'
    BY <1>17 DEF JoinWorkers, StopOnly
  <1>18. ASSUME NEW s \in Stopper, CloseListener(s) PROVE Stops'
    BY <1>18 DEF CloseListener, StopOnly
  <1>19. CASE UNCHANGED vars
    BY <1>19 DEF vars
  <1> QED
    BY <1>1, <1>2, <1>3, <1>4, <1>5, <1>6, <1>7, <1>8, <1>9, <1>10, <1>11, <1>12, <1>13, <1>14,
       <1>15, <1>16, <1>17, <1>18, <1>19
    DEF Next, Business, WorkerStep, StopStep, FinishShutdown

LEMMA SendQueues ==
  ASSUME Queues, Hands, NEW t \in Thread, hold[t] # None, NEW s, NEW e, SendJob(t, s, e),
         UNCHANGED backlog
  PROVE  Queues'
  <1>1. UNCHANGED jobs \/ (Len(jobs) < Capacity /\ jobs' = Append(jobs, hold[t]))
    BY DEF SendJob, queueVars
  <1>2. hold[t] \in Item
    BY DEF Hands
  <1> QED
    BY <1>1, <1>2, Enqueue, Kinds DEF Queues

LEMMA TakeJob ==
  ASSUME Queues, jobs # <<>>, jobs' = Tail(jobs), UNCHANGED backlog
  PROVE  Queues'
  BY Dequeue, Kinds DEF Queues

LEMMA TakeBacklog ==
  ASSUME Queues, backlog # <<>>, backlog' = Tail(backlog), UNCHANGED jobs
  PROVE  Queues'
  BY Dequeue, Kinds DEF Queues

LEMMA QueuesStep ==
  ASSUME Stages, Hands, Queues, [Next]_vars
  PROVE  Queues'
  <1>1. CASE AcceptorSends
    <2>1. SendJob(Acceptor, "check", "done") /\ pc[Acceptor] = "send" /\ UNCHANGED backlog
      BY <1>1 DEF AcceptorSends, PollerUnchanged, netVars
    <2> QED
      BY <2>1, SendQueues, Kinds DEF Hands, Queues
  <1>2. CASE PollerSends
    <2>1. SendJob(Poller, "examine", "examine") /\ pc[Poller] = "send" /\ UNCHANGED backlog
      BY <1>2 DEF PollerSends, PollerUnchanged, netVars
    <2> QED
      BY <2>1, SendQueues, Kinds DEF Hands, Queues
  <1>3. ASSUME NEW w \in Worker, Recv(w) PROVE Queues'
    <2>1. jobs' = jobs \/ (jobs # <<>> /\ jobs' = Tail(jobs))
      BY <1>3 DEF Recv
    <2>2. UNCHANGED backlog
      BY <1>3 DEF Recv, netVars
    <2> QED
      BY <2>1, <2>2, TakeJob DEF Queues
  <1>4. ASSUME NEW s \in Stopper, Drain(s) PROVE Queues'
    <2>1. UNCHANGED jobs /\ (UNCHANGED backlog \/ (backlog # <<>> /\ backlog' = Tail(backlog)))
      BY <1>4 DEF Drain, queueVars
    <2> QED
      BY <2>1, TakeBacklog DEF Queues
  <1>5. ASSUME NEW s \in Stopper, Offer(s) PROVE Queues'
    <2>1. SendJob(s, "drain", "drain") /\ pc[s] = "offer" /\ UNCHANGED backlog
      BY <1>5 DEF Offer, PollerUnchanged, netVars
    <2> QED
      BY <2>1, SendQueues, Kinds DEF Hands, Queues
  <1> USE Kinds
      DEF Queues, queueVars, netVars
  <1>6. ASSUME NEW c \in Conn, Connect(c) PROVE Queues'
    BY <1>6, Enqueue DEF Item, Connect
  <1>7. ASSUME NEW c \in Conn, Request(c) PROVE Queues'
    BY <1>7 DEF Request
  <1>8. ASSUME NEW c \in Conn, HangUp(c) PROVE Queues'
    BY <1>8 DEF HangUp
  <1>9. CASE AcceptorChecks
    BY <1>9 DEF AcceptorChecks
  <1>10. CASE AcceptorAccepts
    BY <1>10, Dequeue DEF AcceptorAccepts
  <1>11. CASE AcceptorFails
    BY <1>11 DEF AcceptorFails
  <1>12. CASE AcceptorRechecks
    BY <1>12 DEF AcceptorRechecks
  <1>13. CASE PollerScans
    BY <1>13 DEF PollerScans, PollerUnchanged
  <1>14. CASE PollerExamines
    BY <1>14 DEF PollerExamines, PollerUnchanged
  <1>15. CASE PollerPutsBack
    BY <1>15 DEF PollerPutsBack, PollerUnchanged
  <1>16. CASE MainEnds
    BY <1>16 DEF MainEnds
  <1>17. ASSUME NEW w \in Worker, ReadRequest(w) PROVE Queues'
    BY <1>17 DEF ReadRequest
  <1>18. ASSUME NEW w \in Worker, ReadEnds(w) PROVE Queues'
    BY <1>18 DEF ReadEnds
  <1>19. ASSUME NEW w \in Worker, HandlerReturns(w) PROVE Queues'
    BY <1>19 DEF HandlerReturns
  <1>20. ASSUME NEW w \in Worker, Write(w) PROVE Queues'
    BY <1>20 DEF Write
  <1>21. ASSUME NEW w \in Worker, Probe(w) PROVE Queues'
    BY <1>21 DEF Probe
  <1>22. ASSUME NEW w \in Worker, Park(w) PROVE Queues'
    BY <1>22 DEF Park
  <1>23. ASSUME NEW w \in Worker, HandlerStops(w) PROVE Queues'
    BY <1>23 DEF HandlerStops
  <1>24. ASSUME NEW w \in Worker, HandlerWakes(w) PROVE Queues'
    BY <1>24, Enqueue DEF Item, HandlerWakes, WakeAcceptor
  <1>25. ASSUME NEW w \in Worker, HandlerSpawns(w) PROVE Queues'
    BY <1>25 DEF HandlerSpawns
  <1>26. ASSUME NEW w \in Worker, HandlerStores(w) PROVE Queues'
    BY <1>26 DEF HandlerStores
  <1>27. ASSUME NEW w \in Worker, HandlerDelegates(w) PROVE Queues'
    BY <1>27 DEF HandlerDelegates
  <1>28. ASSUME NEW w \in Worker, HandlerResumes(w) PROVE Queues'
    BY <1>28 DEF HandlerResumes
  <1>29. ASSUME NEW s \in Stopper, StopCalled(s) PROVE Queues'
    BY <1>29 DEF StopCalled
  <1>30. ASSUME NEW s \in Stopper, StopWakes(s) PROVE Queues'
    BY <1>30, Enqueue DEF Item, StopWakes, WakeAcceptor
  <1>31. ASSUME NEW s \in Stopper, JoinAcceptor(s) PROVE Queues'
    BY <1>31 DEF JoinAcceptor
  <1>32. ASSUME NEW s \in Stopper, StopPool(s) PROVE Queues'
    BY <1>32 DEF StopPool
  <1>33. ASSUME NEW s \in Stopper, JoinPoller(s) PROVE Queues'
    BY <1>33 DEF JoinPoller
  <1>34. ASSUME NEW s \in Stopper, CloseQueue(s) PROVE Queues'
    BY <1>34 DEF CloseQueue
  <1>35. ASSUME NEW s \in Stopper, JoinWorkers(s) PROVE Queues'
    BY <1>35 DEF JoinWorkers
  <1>36. ASSUME NEW s \in Stopper, CloseListener(s) PROVE Queues'
    BY <1>36 DEF CloseListener
  <1>37. CASE UNCHANGED vars
    BY <1>37 DEF vars
  <1> QED
    BY <1>1, <1>2, <1>3, <1>4, <1>5, <1>6, <1>7, <1>8, <1>9, <1>10, <1>11, <1>12, <1>13, <1>14,
       <1>15, <1>16, <1>17, <1>18, <1>19, <1>20, <1>21, <1>22, <1>23, <1>24, <1>25, <1>26,
       <1>27, <1>28, <1>29, <1>30, <1>31, <1>32, <1>33, <1>34, <1>35, <1>36, <1>37
    DEF Next, Client, AcceptorStep, PollerStep, Serve, WorkerStep, StopStep, FinishShutdown

LEMMA TakeHands ==
  ASSUME Hands, Stages, NEW w \in Worker, NEW c \in Item, Hold(w, c), Go(w, "read")
  PROVE  Hands'
  <1>1. c # None
    BY Kinds DEF Item
  <1>2. hold' \in [Thread -> Item \union {None}]
    BY Kinds DEF Hands, Hold
  <1>3. \A x \in Worker : /\ hold'[x] = None <=> pc'[x] \in {"recv", "done"}
                          /\ hold'[x] = Wake => pc'[x] = "read"
    BY <1>1, Kinds DEF Hands, Hold, Stages, Go
  <1>4. \A s \in Stopper : hold'[s] # None <=> pc'[s] = "offer"
    BY <1>1, Kinds DEF Hands, Hold, Stages, Go
  <1> QED
    BY <1>2, <1>3, <1>4, Kinds DEF Hands, Hold, Stages, Go

LEMMA OfferHands ==
  ASSUME Hands, Stages, NEW s \in Stopper, NEW c \in Item, Hold(s, c), Go(s, "offer")
  PROVE  Hands'
  <1>1. c # None
    BY Kinds DEF Item
  <1>2. hold' \in [Thread -> Item \union {None}]
    BY Kinds DEF Hands, Hold
  <1>3. /\ hold'[s] = c /\ \A u \in Thread \ {s} : hold'[u] = hold[u]
        /\ pc'[s] = "offer" /\ \A u \in Thread \ {s} : pc'[u] = pc[u]
    BY Kinds DEF Hands, Hold, Stages, Go
  <1>4. \A u \in Stopper : hold'[u] # None <=> pc'[u] = "offer"
    BY <1>1, <1>3, Kinds DEF Hands
  <1>5. \A w \in Worker : /\ hold'[w] = None <=> pc'[w] \in {"recv", "done"}
                          /\ hold'[w] = Wake => pc'[w] = "read"
    BY <1>3, Kinds DEF Hands
  <1> QED
    BY <1>2, <1>3, <1>4, <1>5, Kinds DEF Hands

LEMMA HoldStep ==
  ASSUME Stages, Helpers, Hands, Queues, Sets, [Next]_vars
  PROVE  Hands'
  <1>1. ASSUME NEW c \in Conn, Connect(c) PROVE Hands'
    <2>1. UNCHANGED <<pc, hold>>
      BY <1>1 DEF Connect
    <2> QED
      BY <2>1, Kinds DEF Hands
  <1>2. CASE AcceptorAccepts
    <2>1. Head(backlog) \in Item
      BY <1>2, Dequeue DEF AcceptorAccepts, Queues
    <2>2. pc[Acceptor] = "accept" /\ Go(Acceptor, "recheck") /\ Hold(Acceptor, Head(backlog))
      BY <1>2 DEF AcceptorAccepts
    <2> QED
      BY <2>1, <2>2, Kinds DEF Hands, Stages, Go, Hold, Item
  <1>3. CASE AcceptorSends
    <2>1. pc[Acceptor] = "send" /\ Hold(Acceptor, None) /\ (Go(Acceptor, "check") \/
              Go(Acceptor, "done"))
      BY <1>3 DEF AcceptorSends, SendJob
    <2> QED
      BY <2>1, Kinds DEF Hands, Stages, Go, Hold
  <1>4. CASE PollerExamines
    <2>1. PICK c \in batch : \/ Hold(Poller, c) /\ Go(Poller, "send")
                          \/ UNCHANGED <<hold, pc>>
      BY <1>4 DEF PollerExamines
    <2>2. c \in Conn /\ pc[Poller] = "examine"
      BY <1>4 DEF PollerExamines, Sets
    <2> QED
      BY <2>1, <2>2, Kinds DEF Hands, Stages, Go, Hold, Item
  <1>5. CASE PollerSends
    <2>1. pc[Poller] = "send" /\ Hold(Poller, None) /\ Go(Poller, "examine")
      BY <1>5 DEF PollerSends, SendJob
    <2> QED
      BY <2>1, Kinds DEF Hands, Stages, Go, Hold
  <1>6. ASSUME NEW w \in Worker, Recv(w) PROVE Hands'
    <2>1. CASE jobs # <<>> /\ Hold(w, Head(jobs)) /\ Go(w, "read")
      <3>1. PICK c \in Item : Hold(w, c)
        BY <2>1, Dequeue DEF Queues
      <3> QED
        BY <2>1, <3>1, TakeHands
    <2>2. CASE UNCHANGED hold /\ Go(w, "done")
      BY <2>2, <1>6, Kinds DEF Hands, Stages, Go, Recv
    <2> QED
      BY <2>1, <2>2, <1>6 DEF Recv
  <1>7. ASSUME NEW w \in Worker, ReadRequest(w) PROVE Hands'
    <2>1. /\ pc[w] = "read" /\ hold[w] \in Conn
          /\ (Go(w, "handler") /\ UNCHANGED hold) \/ (Go(w, "recv") /\ Hold(w, None))
      BY <1>7 DEF ReadRequest, CloseConn
    <2> QED
      BY <2>1, Kinds DEF Hands, Stages, Go, Hold
  <1>8. ASSUME NEW w \in Worker, HandlerStops(w) PROVE Hands'
    <2>1. PICK f \in Spare : /\ pc' = [pc EXCEPT ![w] = "wake", ![f] = "reserved"]
                           /\ pc[f] = "unborn" /\ pc[w] = "handler" /\ UNCHANGED hold
      BY <1>8 DEF HandlerStops
    <2> QED
      BY <2>1, Kinds DEF Stages, Hands
  <1>9. ASSUME NEW w \in Worker, HandlerDelegates(w) PROVE Hands'
    <2>1. PICK f \in Spare : /\ pc' = [pc EXCEPT ![w] = "await", ![f] = "call"]
                           /\ pc[f] = "unborn" /\ pc[w] = "handler" /\ UNCHANGED hold
      BY <1>9 DEF HandlerDelegates
    <2> QED
      BY <2>1, Kinds DEF Stages, Hands
  <1>10. ASSUME NEW s \in Stopper, StopCalled(s) PROVE Hands'
    <2>1. /\ pc[s] \in {"run", "call"} /\ UNCHANGED hold
          /\ Finished(s) \/ Go(s, "wake")
      BY <1>10 DEF StopCalled
    <2> QED
      BY <2>1, Kinds DEF Hands, Stages, Go, Hold, Finished
  <1>11. ASSUME NEW s \in Stopper, Drain(s) PROVE Hands'
    <2>1. CASE backlog # <<>> /\ Hold(s, Head(backlog)) /\ Go(s, "offer")
      <3>1. PICK c \in Item : Hold(s, c)
        BY <2>1, Dequeue DEF Queues
      <3> QED
        BY <2>1, <3>1, OfferHands
    <2>2. CASE pc[s] = "drain" /\ UNCHANGED hold /\ Go(s, "pool")
      BY <2>2, Kinds DEF Hands, Stages, Go
    <2> QED
      BY <2>1, <2>2, <1>11 DEF Drain
  <1>12. ASSUME NEW s \in Stopper, Offer(s) PROVE Hands'
    <2>1. pc[s] = "offer" /\ Hold(s, None) /\ Go(s, "drain")
      BY <1>12 DEF Offer, SendJob
    <2> QED
      BY <2>1, Kinds DEF Hands, Stages, Go, Hold
  <1>13. ASSUME NEW s \in Stopper, CloseListener(s) PROVE Hands'
    <2>1. pc[s] = "listener" /\ Finished(s) /\ UNCHANGED hold
      BY <1>13 DEF CloseListener
    <2> QED
      BY <2>1, Kinds DEF Hands, Stages, Go, Hold, Finished
  <1> USE Kinds
      DEF Stages, Hands, Go, Hold
  <1>14. ASSUME NEW c \in Conn, Request(c) PROVE Hands'
    BY <1>14 DEF Request
  <1>15. ASSUME NEW c \in Conn, HangUp(c) PROVE Hands'
    BY <1>15 DEF HangUp
  <1>16. CASE AcceptorChecks
    BY <1>16 DEF AcceptorChecks
  <1>17. CASE AcceptorFails
    BY <1>17 DEF AcceptorFails
  <1>18. CASE AcceptorRechecks
    BY <1>18 DEF AcceptorRechecks
  <1>19. CASE PollerScans
    BY <1>19 DEF PollerScans
  <1>20. CASE PollerPutsBack
    BY <1>20 DEF PollerPutsBack
  <1>21. CASE MainEnds
    BY <1>21 DEF MainEnds
  <1>22. ASSUME NEW w \in Worker, ReadEnds(w) PROVE Hands'
    BY <1>22 DEF ReadEnds, CloseConn
  <1>23. ASSUME NEW w \in Worker, HandlerReturns(w) PROVE Hands'
    BY <1>23 DEF HandlerReturns
  <1>24. ASSUME NEW w \in Worker, Write(w) PROVE Hands'
    BY <1>24 DEF Write, CloseConn
  <1>25. ASSUME NEW w \in Worker, Probe(w) PROVE Hands'
    BY <1>25 DEF Probe, CloseConn
  <1>26. ASSUME NEW w \in Worker, Park(w) PROVE Hands'
    BY <1>26 DEF Park, CloseConn
  <1>27. ASSUME NEW w \in Worker, HandlerWakes(w) PROVE Hands'
    BY <1>27 DEF HandlerWakes
  <1>28. ASSUME NEW w \in Worker, HandlerSpawns(w) PROVE Hands'
    BY <1>28 DEF Helpers, HandlerSpawns
  <1>29. ASSUME NEW w \in Worker, HandlerStores(w) PROVE Hands'
    BY <1>29 DEF HandlerStores
  <1>30. ASSUME NEW w \in Worker, HandlerResumes(w) PROVE Hands'
    BY <1>30 DEF HandlerResumes
  <1>31. ASSUME NEW s \in Stopper, StopWakes(s) PROVE Hands'
    BY <1>31 DEF StopWakes
  <1>32. ASSUME NEW s \in Stopper, JoinAcceptor(s) PROVE Hands'
    BY <1>32 DEF JoinAcceptor
  <1>33. ASSUME NEW s \in Stopper, StopPool(s) PROVE Hands'
    BY <1>33 DEF StopPool
  <1>34. ASSUME NEW s \in Stopper, JoinPoller(s) PROVE Hands'
    BY <1>34 DEF JoinPoller
  <1>35. ASSUME NEW s \in Stopper, CloseQueue(s) PROVE Hands'
    BY <1>35 DEF CloseQueue
  <1>36. ASSUME NEW s \in Stopper, JoinWorkers(s) PROVE Hands'
    BY <1>36 DEF JoinWorkers
  <1>37. CASE UNCHANGED vars
    BY <1>37 DEF vars
  <1> QED
    BY <1>1, <1>2, <1>3, <1>4, <1>5, <1>6, <1>7, <1>8, <1>9, <1>10, <1>11, <1>12, <1>13, <1>14,
       <1>15, <1>16, <1>17, <1>18, <1>19, <1>20, <1>21, <1>22, <1>23, <1>24, <1>25, <1>26,
       <1>27, <1>28, <1>29, <1>30, <1>31, <1>32, <1>33, <1>34, <1>35, <1>36, <1>37
    DEF Next, Client, AcceptorStep, PollerStep, Serve, WorkerStep, StopStep, FinishShutdown

LEMMA SetsStep ==
  ASSUME Stages, Hands, Sets, [Next]_vars
  PROVE  Sets'
  <1>1. ASSUME NEW w \in Worker, Park(w) PROVE Sets'
    <2>1. hold[w] \in Conn
      BY <1>1, Kinds DEF Park, Hands, Stages, Item
    <2> QED
      BY <2>1, <1>1, Kinds DEF Sets, Park, CloseConn, Shut, queueVars, netVars, clientVars,
         stopVars
  <1> USE Kinds
      DEF Sets, clientVars, netVars, queueVars, pollVars, stopVars
  <1>2. ASSUME NEW c \in Conn, Connect(c) PROVE Sets'
    BY <1>2 DEF Connect
  <1>3. ASSUME NEW c \in Conn, Request(c) PROVE Sets'
    BY <1>3 DEF Request
  <1>4. ASSUME NEW c \in Conn, HangUp(c) PROVE Sets'
    BY <1>4 DEF HangUp
  <1>5. CASE AcceptorChecks
    BY <1>5 DEF AcceptorChecks
  <1>6. CASE AcceptorAccepts
    BY <1>6 DEF AcceptorAccepts
  <1>7. CASE AcceptorFails
    BY <1>7 DEF AcceptorFails
  <1>8. CASE AcceptorRechecks
    BY <1>8 DEF AcceptorRechecks, Shut
  <1>9. CASE AcceptorSends
    BY <1>9 DEF AcceptorSends, SendJob, Shut
  <1>10. CASE PollerScans
    BY <1>10 DEF PollerScans, Shut, PollerUnchanged
  <1>11. CASE PollerExamines
    BY <1>11 DEF PollerExamines, Shut, PollerUnchanged
  <1>12. CASE PollerSends
    BY <1>12 DEF PollerSends, SendJob, Shut, PollerUnchanged
  <1>13. CASE PollerPutsBack
    BY <1>13 DEF PollerPutsBack, Shut, PollerUnchanged
  <1>14. CASE MainEnds
    BY <1>14 DEF MainEnds
  <1>15. ASSUME NEW w \in Worker, Recv(w) PROVE Sets'
    BY <1>15 DEF Recv
  <1>16. ASSUME NEW w \in Worker, ReadRequest(w) PROVE Sets'
    BY <1>16 DEF ReadRequest, CloseConn, Shut
  <1>17. ASSUME NEW w \in Worker, ReadEnds(w) PROVE Sets'
    BY <1>17 DEF ReadEnds, CloseConn, Shut
  <1>18. ASSUME NEW w \in Worker, HandlerReturns(w) PROVE Sets'
    BY <1>18 DEF HandlerReturns
  <1>19. ASSUME NEW w \in Worker, Write(w) PROVE Sets'
    BY <1>19 DEF Write, CloseConn, Shut
  <1>20. ASSUME NEW w \in Worker, Probe(w) PROVE Sets'
    BY <1>20 DEF Probe, CloseConn, Shut
  <1>21. ASSUME NEW w \in Worker, HandlerStops(w) PROVE Sets'
    BY <1>21 DEF Owned, HandlerStops, TakeHandles
  <1>22. ASSUME NEW w \in Worker, HandlerWakes(w) PROVE Sets'
    BY <1>22 DEF HandlerWakes
  <1>23. ASSUME NEW w \in Worker, HandlerSpawns(w) PROVE Sets'
    BY <1>23 DEF HandlerSpawns
  <1>24. ASSUME NEW w \in Worker, HandlerStores(w) PROVE Sets'
    BY <1>24 DEF HandlerStores
  <1>25. ASSUME NEW w \in Worker, HandlerDelegates(w) PROVE Sets'
    BY <1>25 DEF HandlerDelegates
  <1>26. ASSUME NEW w \in Worker, HandlerResumes(w) PROVE Sets'
    BY <1>26 DEF HandlerResumes
  <1>27. ASSUME NEW s \in Stopper, StopCalled(s) PROVE Sets'
    BY <1>27 DEF Owned, StopCalled, TakeHandles
  <1>28. ASSUME NEW s \in Stopper, StopWakes(s) PROVE Sets'
    BY <1>28 DEF StopWakes
  <1>29. ASSUME NEW s \in Stopper, JoinAcceptor(s) PROVE Sets'
    BY <1>29 DEF JoinAcceptor, StopOnly
  <1>30. ASSUME NEW s \in Stopper, Drain(s) PROVE Sets'
    BY <1>30 DEF Drain, StopOnly
  <1>31. ASSUME NEW s \in Stopper, Offer(s) PROVE Sets'
    BY <1>31 DEF Offer, SendJob, Shut, StopOnly
  <1>32. ASSUME NEW s \in Stopper, StopPool(s) PROVE Sets'
    BY <1>32 DEF StopPool, StopOnly
  <1>33. ASSUME NEW s \in Stopper, JoinPoller(s) PROVE Sets'
    BY <1>33 DEF JoinPoller, StopOnly
  <1>34. ASSUME NEW s \in Stopper, CloseQueue(s) PROVE Sets'
    BY <1>34 DEF CloseQueue, StopOnly
  <1>35. ASSUME NEW s \in Stopper, JoinWorkers(s) PROVE Sets'
    BY <1>35 DEF JoinWorkers, StopOnly
  <1>36. ASSUME NEW s \in Stopper, CloseListener(s) PROVE Sets'
    BY <1>36 DEF CloseListener, Shut, StopOnly
  <1>37. CASE UNCHANGED vars
    BY <1>37 DEF vars
  <1> QED
    BY <1>1, <1>2, <1>3, <1>4, <1>5, <1>6, <1>7, <1>8, <1>9, <1>10, <1>11, <1>12, <1>13, <1>14,
       <1>15, <1>16, <1>17, <1>18, <1>19, <1>20, <1>21, <1>22, <1>23, <1>24, <1>25, <1>26,
       <1>27, <1>28, <1>29, <1>30, <1>31, <1>32, <1>33, <1>34, <1>35, <1>36, <1>37
    DEF Next, Client, AcceptorStep, PollerStep, Serve, WorkerStep, StopStep, FinishShutdown

LEMMA FlagsStep ==
  ASSUME Flags, [Next]_vars
  PROVE  Flags'
  <1>1. ASSUME NEW s \in Stopper, StopCalled(s) PROVE Flags'
    <2>1. /\ UNCHANGED <<listening, closed, stopped, keep, sent, faults, broke>>
          /\ running' = running \/ running' = FALSE
          /\ calls' = calls \/ calls' = calls + 1
      BY <1>1 DEF StopCalled, TakeHandles, clientVars, netVars, queueVars, pollVars
    <2>2. calls' \in Nat /\ sent' \in Nat /\ faults' \in Nat
      BY <2>1 DEF Flags
    <2> QED
      BY <2>1, <2>2, Zenon DEF Flags
  <1>2. ASSUME NEW s \in Stopper, Drain(s) PROVE Flags'
    <2>1. /\ UNCHANGED <<listening, closed, stopped, running, keep, calls, sent>>
          /\ UNCHANGED <<faults, broke>> \/ (faults' = faults + 1 /\ broke' = TRUE)
      BY <1>2 DEF Drain, StopOnly, clientVars, queueVars, pollVars, stopVars
    <2>2. calls' \in Nat /\ sent' \in Nat /\ faults' \in Nat
      BY <2>1 DEF Flags
    <2> QED
      BY <2>1, <2>2, Zenon DEF Flags
  <1> USE Kinds
      DEF Flags, clientVars, netVars, queueVars, pollVars, stopVars
  <1>3. ASSUME NEW c \in Conn, Connect(c) PROVE Flags'
    BY <1>3 DEF Connect
  <1>4. ASSUME NEW c \in Conn, Request(c) PROVE Flags'
    BY <1>4 DEF Request
  <1>5. ASSUME NEW c \in Conn, HangUp(c) PROVE Flags'
    BY <1>5 DEF HangUp
  <1>6. CASE AcceptorChecks
    BY <1>6 DEF AcceptorChecks
  <1>7. CASE AcceptorAccepts
    BY <1>7 DEF AcceptorAccepts
  <1>8. CASE AcceptorFails
    BY <1>8 DEF AcceptorFails
  <1>9. CASE AcceptorRechecks
    BY <1>9 DEF AcceptorRechecks
  <1>10. CASE AcceptorSends
    BY <1>10 DEF AcceptorSends, SendJob
  <1>11. CASE PollerScans
    BY <1>11 DEF PollerScans, PollerUnchanged
  <1>12. CASE PollerExamines
    BY <1>12 DEF PollerExamines, PollerUnchanged
  <1>13. CASE PollerSends
    BY <1>13 DEF PollerSends, SendJob, PollerUnchanged
  <1>14. CASE PollerPutsBack
    BY <1>14 DEF PollerPutsBack, PollerUnchanged
  <1>15. CASE MainEnds
    BY <1>15 DEF MainEnds
  <1>16. ASSUME NEW w \in Worker, Recv(w) PROVE Flags'
    BY <1>16 DEF Recv
  <1>17. ASSUME NEW w \in Worker, ReadRequest(w) PROVE Flags'
    BY <1>17 DEF ReadRequest
  <1>18. ASSUME NEW w \in Worker, ReadEnds(w) PROVE Flags'
    BY <1>18 DEF ReadEnds
  <1>19. ASSUME NEW w \in Worker, HandlerReturns(w) PROVE Flags'
    BY <1>19 DEF HandlerReturns
  <1>20. ASSUME NEW w \in Worker, Write(w) PROVE Flags'
    BY <1>20 DEF Write
  <1>21. ASSUME NEW w \in Worker, Probe(w) PROVE Flags'
    BY <1>21 DEF Probe
  <1>22. ASSUME NEW w \in Worker, Park(w) PROVE Flags'
    BY <1>22 DEF Park
  <1>23. ASSUME NEW w \in Worker, HandlerStops(w) PROVE Flags'
    BY <1>23 DEF HandlerStops, TakeHandles
  <1>24. ASSUME NEW w \in Worker, HandlerWakes(w) PROVE Flags'
    BY <1>24 DEF HandlerWakes
  <1>25. ASSUME NEW w \in Worker, HandlerSpawns(w) PROVE Flags'
    BY <1>25 DEF HandlerSpawns
  <1>26. ASSUME NEW w \in Worker, HandlerStores(w) PROVE Flags'
    BY <1>26 DEF HandlerStores
  <1>27. ASSUME NEW w \in Worker, HandlerDelegates(w) PROVE Flags'
    BY <1>27 DEF HandlerDelegates
  <1>28. ASSUME NEW w \in Worker, HandlerResumes(w) PROVE Flags'
    BY <1>28 DEF HandlerResumes
  <1>29. ASSUME NEW s \in Stopper, StopWakes(s) PROVE Flags'
    BY <1>29 DEF StopWakes
  <1>30. ASSUME NEW s \in Stopper, JoinAcceptor(s) PROVE Flags'
    BY <1>30 DEF JoinAcceptor, StopOnly
  <1>31. ASSUME NEW s \in Stopper, Offer(s) PROVE Flags'
    BY <1>31 DEF Offer, SendJob, StopOnly
  <1>32. ASSUME NEW s \in Stopper, StopPool(s) PROVE Flags'
    BY <1>32 DEF StopPool, StopOnly
  <1>33. ASSUME NEW s \in Stopper, JoinPoller(s) PROVE Flags'
    BY <1>33 DEF JoinPoller, StopOnly
  <1>34. ASSUME NEW s \in Stopper, CloseQueue(s) PROVE Flags'
    BY <1>34 DEF CloseQueue, StopOnly
  <1>35. ASSUME NEW s \in Stopper, JoinWorkers(s) PROVE Flags'
    BY <1>35 DEF JoinWorkers, StopOnly
  <1>36. ASSUME NEW s \in Stopper, CloseListener(s) PROVE Flags'
    BY <1>36 DEF CloseListener, StopOnly
  <1>37. CASE UNCHANGED vars
    BY <1>37 DEF vars
  <1> QED
    BY <1>1, <1>2, <1>3, <1>4, <1>5, <1>6, <1>7, <1>8, <1>9, <1>10, <1>11, <1>12, <1>13, <1>14,
       <1>15, <1>16, <1>17, <1>18, <1>19, <1>20, <1>21, <1>22, <1>23, <1>24, <1>25, <1>26,
       <1>27, <1>28, <1>29, <1>30, <1>31, <1>32, <1>33, <1>34, <1>35, <1>36, <1>37
    DEF Next, Client, AcceptorStep, PollerStep, Serve, WorkerStep, StopStep, FinishShutdown

LEMMA ChainKept ==
  ASSUME Stages, Stops, Chain, NEW s \in Stopper, pc[s] \in Taking, NEW p \in Taking, Go(s, p),
         UNCHANGED stopVars
  PROVE  Chain'
  <1>1. \A u \in Stopper : /\ pc'[u] \in Taking => join'[u] # None
                           /\ pc'[u] \in {"unborn", "call"} => join'[u] = None
    BY Kinds DEF Chain, Go, Stages, Taking, stopVars
  <1>2. \A w \in Worker : pc'[w] \in {"wake", "spawn", "store"} => join'[helper'[w]] # None
    BY Kinds DEF Chain, Go, Stages, stopVars
  <1>3. running' => pc'[Main] = "run"
    BY Kinds DEF Chain, Go, Stages, stopVars, Taking
  <1> QED
    BY <1>1, <1>2, <1>3 DEF Chain, stopVars

\* Thread `s` has the handles.
Passed(s) ==
    /\ ~running' /\ accept' = None /\ ~handles'
    /\ join'[s] # None /\ \A t \in Stopper \ {s} : join'[t] = join[t]
    /\ \A t \in Stopper : all'[t] <=> join'[t] = Acceptor
    /\ \A t \in Stopper : join'[t] \in Spare => join'[join'[t]] # None
    /\ \A t, u \in Stopper : join'[t] = Acceptor /\ join'[u] = Acceptor => t = u

LEMMA ChainTaken ==
  ASSUME Stops, Chain, NEW s \in Stopper, accept # None, TakeHandles(s)
  PROVE  Passed(s)
  <1>1. ~running' /\ accept' = None /\ ~handles'
    BY DEF TakeHandles
  <1>2. join'[s] = accept /\ \A t \in Stopper \ {s} : join'[t] = join[t]
    BY DEF TakeHandles, Stops
  <1>3. (all'[s] <=> handles) /\ \A t \in Stopper \ {s} : all'[t] = all[t]
    BY DEF TakeHandles, Stops
  <1>4. \A t \in Stopper : all'[t] <=> join'[t] = Acceptor
    BY <1>2, <1>3 DEF Chain
  <1>5. \A t \in Stopper : join'[t] \in Spare => join'[join'[t]] # None
    BY <1>2, Kinds DEF Chain
  <1>6. \A t, u \in Stopper : join'[t] = Acceptor /\ join'[u] = Acceptor => t = u
    BY <1>2 DEF Chain
  <1> QED
    BY <1>1, <1>2, <1>4, <1>5, <1>6 DEF Passed

LEMMA ChainStep ==
  ASSUME Stages, Helpers, Stops, Flags, Chain, [Next]_vars
  PROVE  Chain'
  <1>1. CASE Business
    BY <1>1, BusinessAside, Kinds DEF Aside, Chain, Helpers, Stops, Taking, Serving, stopVars
  <1>2. CASE MainEnds
    <2>1. pc[Main] = "run" /\ calls > 0 /\ Go(Main, "over") /\ UNCHANGED stopVars
      BY <1>2 DEF MainEnds
    <2> QED
      BY <2>1, Kinds DEF Stages, Helpers, Stops, Flags, Chain, Go, Taking, stopVars
  <1>3. ASSUME NEW w \in Worker, HandlerStops(w) PROVE Chain'
    <2>1. PICK f \in Spare : /\ accept # None /\ TakeHandles(f) /\ pc[f] = "unborn"
                             /\ helper' = [helper EXCEPT ![w] = f]
                             /\ pc' = [pc EXCEPT ![w] = "wake", ![f] = "reserved"]
      BY <1>3 DEF HandlerStops
    <2>2. /\ pc'[f] = "reserved" /\ \A u \in Stopper \ {f} : pc'[u] = pc[u]
          /\ \A v \in Worker \ {w} : pc'[v] = pc[v]
          /\ \A v \in Worker \ {w} : helper'[v] = helper[v]
          /\ helper'[w] = f
      BY <2>1, Kinds DEF Stages, Helpers
    <2>3. Passed(f) /\ f \in Stopper
      BY <2>1, ChainTaken, Kinds
    <2>4. \A v \in Worker : pc'[v] \in {"wake", "spawn", "store"} => join'[helper'[v]] # None
      BY <2>2, <2>3, Kinds DEF Chain, Helpers, Passed
    <2>5. \A t \in Stopper : /\ pc'[t] \in Taking => join'[t] # None
                             /\ pc'[t] \in {"unborn", "call"} => join'[t] = None
      BY <2>2, <2>3 DEF Chain, Passed
    <2> QED
      BY <2>3, <2>4, <2>5, Kinds DEF Chain, Passed
  <1>4. ASSUME NEW s \in Stopper, StopCalled(s) PROVE Chain'
    <2>1. CASE accept # None /\ TakeHandles(s) /\ Go(s, "wake")
      <3>1. /\ pc'[s] = "wake" /\ \A t \in Thread \ {s} : pc'[t] = pc[t]
            /\ UNCHANGED helper
        BY <1>4, <2>1, Kinds DEF StopCalled, Go, Stages
      <3>2. Passed(s)
        BY <2>1, ChainTaken
      <3>3. \A v \in Worker : pc'[v] \in {"wake", "spawn", "store"} => join'[helper'[v]] # None
        BY <3>1, <3>2, Kinds DEF Chain, Helpers, Passed
      <3>4. \A t \in Stopper : /\ pc'[t] \in Taking => join'[t] # None
                               /\ pc'[t] \in {"unborn", "call"} => join'[t] = None
        BY <3>1, <3>2, Kinds DEF Chain, Passed
      <3> QED
        BY <3>2, <3>3, <3>4, Kinds DEF Chain, Passed
    <2>2. CASE accept = None /\ Finished(s) /\ UNCHANGED <<running, join, all, accept, handles>>
      <3>1. /\ pc'[s] \in {"run", "done"} /\ \A t \in Thread \ {s} : pc'[t] = pc[t]
            /\ UNCHANGED helper /\ ~running
        BY <1>4, <2>2, Kinds DEF StopCalled, Finished, Go, Stages, Chain
      <3> QED
        BY <2>2, <3>1, Kinds DEF Chain, Taking
    <2> QED
      BY <1>4, <2>1, <2>2 DEF StopCalled
  <1>5. ASSUME NEW s \in Stopper, StopWakes(s) PROVE Chain'
    <2>1. pc[s] = "wake" /\ Go(s, "join") /\ UNCHANGED stopVars
      BY <1>5 DEF StopWakes
    <2> QED
      BY <2>1, ChainKept DEF Taking
  <1>6. ASSUME NEW s \in Stopper, JoinAcceptor(s) PROVE Chain'
    <2>1. pc[s] = "join" /\ Go(s, "drain") /\ UNCHANGED stopVars
      BY <1>6 DEF JoinAcceptor, StopOnly
    <2> QED
      BY <2>1, ChainKept DEF Taking
  <1>7. ASSUME NEW s \in Stopper, Drain(s) PROVE Chain'
    <2>1. pc[s] = "drain" /\ UNCHANGED stopVars /\ \E p \in {"offer", "pool"} : Go(s, p)
      BY <1>7 DEF Drain, StopOnly
    <2> QED
      BY <2>1, ChainKept DEF Taking
  <1>8. ASSUME NEW s \in Stopper, Offer(s) PROVE Chain'
    <2>1. pc[s] = "offer" /\ Go(s, "drain") /\ UNCHANGED stopVars
      BY <1>8 DEF Offer, StopOnly, SendJob
    <2> QED
      BY <2>1, ChainKept DEF Taking
  <1>9. ASSUME NEW s \in Stopper, StopPool(s) PROVE Chain'
    <2>1. pc[s] = "pool" /\ Go(s, "poller") /\ UNCHANGED stopVars
      BY <1>9 DEF StopPool, StopOnly
    <2> QED
      BY <2>1, ChainKept DEF Taking
  <1>10. ASSUME NEW s \in Stopper, JoinPoller(s) PROVE Chain'
    <2>1. pc[s] = "poller" /\ Go(s, "queue") /\ UNCHANGED stopVars
      BY <1>10 DEF JoinPoller, StopOnly
    <2> QED
      BY <2>1, ChainKept DEF Taking
  <1>11. ASSUME NEW s \in Stopper, CloseQueue(s) PROVE Chain'
    <2>1. pc[s] = "queue" /\ Go(s, "workers") /\ UNCHANGED stopVars
      BY <1>11 DEF CloseQueue, StopOnly
    <2> QED
      BY <2>1, ChainKept DEF Taking
  <1>12. ASSUME NEW s \in Stopper, JoinWorkers(s) PROVE Chain'
    <2>1. pc[s] = "workers" /\ Go(s, "listener") /\ UNCHANGED stopVars
      BY <1>12 DEF JoinWorkers, StopOnly
    <2> QED
      BY <2>1, ChainKept DEF Taking
  <1>13. ASSUME NEW s \in Stopper, CloseListener(s) PROVE Chain'
    <2>1. /\ pc'[s] \in {"run", "done"} /\ \A t \in Thread \ {s} : pc'[t] = pc[t]
          /\ UNCHANGED stopVars /\ ~running
      BY <1>13, Kinds DEF CloseListener, StopOnly, Finished, Go, Stages, Chain, Taking
    <2> QED
      BY <2>1, Kinds DEF Chain, Taking, stopVars
  <1> USE Kinds
      DEF Stages, Helpers, Stops, Flags, Chain, Go, Taking, stopVars
  <1>14. ASSUME NEW w \in Worker, HandlerWakes(w) PROVE Chain'
    BY <1>14, SMTT(30) DEF HandlerWakes
  <1>15. ASSUME NEW w \in Worker, HandlerSpawns(w) PROVE Chain'
    BY <1>15, SMTT(30) DEF HandlerSpawns
  <1>16. ASSUME NEW w \in Worker, HandlerStores(w) PROVE Chain'
    BY <1>16, SMTT(30) DEF HandlerStores
  <1>17. ASSUME NEW w \in Worker, HandlerDelegates(w) PROVE Chain'
    BY <1>17, SMTT(30) DEF HandlerDelegates
  <1>18. ASSUME NEW w \in Worker, HandlerResumes(w) PROVE Chain'
    BY <1>18, SMTT(30) DEF HandlerResumes
  <1>19. CASE UNCHANGED vars
    BY <1>19 DEF vars
  <1> QED
    BY <1>1, <1>2, <1>3, <1>4, <1>5, <1>6, <1>7, <1>8, <1>9, <1>10, <1>11, <1>12, <1>13, <1>14,
       <1>15, <1>16, <1>17, <1>18, <1>19
    DEF Next, Business, WorkerStep, StopStep, FinishShutdown

DoneStays == \A t \in Thread : pc[t] = "done" => pc'[t] = "done"
SameStop == UNCHANGED <<join, all, running, listening, closed>>

\* What is asked of a thread at step `p` of a shutdown.
At(s, p) ==
    /\ p \in After => join[s] # None /\ pc[join[s]] = "done"
    /\ all[s] /\ p \in Taking => listening /\ (closed <=> p \in {"workers", "listener"})
    /\ all[s] /\ p \in {"queue", "workers", "listener"} => pc[Poller] = "done"
    /\ all[s] /\ p = "listener" => Over
    /\ join[s] # None /\ p \in {"run", "over", "done"} => Over /\ ~listening /\ closed

LEMMA OverStays == ASSUME DoneStays, Over PROVE Over'
  BY Kinds DEF DoneStays, Over

LEMMA StopperMoves ==
  ASSUME Stages, Stops, Flags, Progress, DoneStays, SameStop, NEW s \in Stopper, NEW p,
         pc'[s] = p, \A u \in Stopper \ {s} : pc'[u] = pc[u], At(s, p)
  PROVE  Progress'
  <1>1. /\ \A u \in Stopper : pc'[u] \in After => join'[u] # None /\ pc'[join'[u]] = "done"
        /\ closed' => pc'[Acceptor] = "done" /\ pc'[Poller] = "done"
    <2>1. \A u \in Stopper : join[u] = None \/ join[u] \in Thread
      BY Kinds DEF Stops
    <2>2. \A u \in Stopper : pc'[u] \in After =>
                  join[u] # None /\ pc[join[u]] = "done" /\ join[u] \in Thread
      BY <2>1, Kinds DEF Progress, At, After
    <2> QED
      BY <2>2, Kinds DEF DoneStays, SameStop, Progress
  <1>2. \A u \in Stopper : all'[u] /\ pc'[u] \in Taking =>
           listening' /\ (closed' <=> pc'[u] \in {"workers", "listener"})
    BY DEF SameStop, At, Progress
  <1>3. \A u \in Stopper : all'[u] /\ pc'[u] \in {"queue", "workers", "listener"} =>
            pc'[Poller] = "done"
    BY Kinds DEF SameStop, At, Progress, DoneStays
  <1>4. \A u \in Stopper : all'[u] /\ pc'[u] = "listener" => Over'
    BY OverStays DEF SameStop, At, Progress
  <1>5. \A u \in Stopper : join'[u] # None /\ pc'[u] \in {"run", "over", "done"} =>
           Over' /\ ~listening' /\ closed'
    BY OverStays DEF SameStop, At, Progress
  <1>6. running' => listening' /\ ~closed'
    BY DEF Progress, SameStop
  <1> QED
    BY <1>1, <1>2, <1>3, <1>4, <1>5, <1>6 DEF Progress

LEMMA OthersMove ==
  ASSUME Stages, Stops, Flags, Progress, DoneStays, SameStop, \A u \in Stopper : pc'[u] = pc[u]
  PROVE  Progress'
  <1>1. PICK p : p = pc[Main]
    OBVIOUS
  <1>2. At(Main, p)
    BY <1>1, Kinds DEF Progress, At, Taking
  <1>3. pc'[Main] = p /\ Main \in Stopper /\ \A u \in Stopper \ {Main} : pc'[u] = pc[u]
    BY <1>1, Kinds
  <1> QED
    BY <1>2, <1>3, StopperMoves

LEMMA DoneIsFinal ==
  ASSUME Stages, Helpers, [Next]_vars
  PROVE  DoneStays
  <1>1. CASE Business
    BY <1>1, BusinessAside, Kinds DEF Aside, DoneStays, Serving
  <1>2. ASSUME NEW w \in Worker, HandlerStops(w) PROVE DoneStays
    <2>1. PICK f \in Spare : /\ pc[w] = "handler" /\ pc[f] = "unborn"
                             /\ pc' = [pc EXCEPT ![w] = "wake", ![f] = "reserved"]
      BY <1>2 DEF HandlerStops
    <2> QED
      BY <2>1, Kinds DEF Stages, DoneStays
  <1>3. ASSUME NEW w \in Worker, HandlerDelegates(w) PROVE DoneStays
    <2>1. PICK f \in Spare : /\ pc[w] = "handler" /\ pc[f] = "unborn"
                             /\ pc' = [pc EXCEPT ![w] = "await", ![f] = "call"]
      BY <1>3 DEF HandlerDelegates
    <2> QED
      BY <2>1, Kinds DEF Stages, DoneStays
  <1>4. ASSUME NEW s \in Stopper, StopCalled(s) PROVE DoneStays
    <2>1. pc[s] \in {"run", "call"} /\ (Finished(s) \/ Go(s, "wake"))
      BY <1>4 DEF StopCalled
    <2> QED
      BY <2>1, Kinds DEF Stages, DoneStays, Go, Finished
  <1>5. ASSUME NEW s \in Stopper, Drain(s) PROVE DoneStays
    <2>1. pc[s] = "drain" /\ (Go(s, "offer") \/ Go(s, "pool"))
      BY <1>5 DEF Drain
    <2> QED
      BY <2>1, Kinds DEF Stages, DoneStays, Go
  <1>6. ASSUME NEW s \in Stopper, Offer(s) PROVE DoneStays
    <2>1. pc[s] = "offer" /\ Go(s, "drain")
      BY <1>6 DEF Offer, SendJob
    <2> QED
      BY <2>1, Kinds DEF Stages, DoneStays, Go
  <1>7. ASSUME NEW s \in Stopper, CloseListener(s) PROVE DoneStays
    <2>1. pc[s] = "listener" /\ Finished(s)
      BY <1>7 DEF CloseListener
    <2> QED
      BY <2>1, Kinds DEF Stages, DoneStays, Go, Finished
  <1> USE Kinds
      DEF Stages, Helpers, Go, DoneStays
  <1>8. CASE MainEnds
    BY <1>8 DEF MainEnds
  <1>9. ASSUME NEW w \in Worker, HandlerWakes(w) PROVE DoneStays
    BY <1>9 DEF HandlerWakes
  <1>10. ASSUME NEW w \in Worker, HandlerSpawns(w) PROVE DoneStays
    BY <1>10 DEF HandlerSpawns
  <1>11. ASSUME NEW w \in Worker, HandlerStores(w) PROVE DoneStays
    BY <1>11 DEF HandlerStores
  <1>12. ASSUME NEW w \in Worker, HandlerResumes(w) PROVE DoneStays
    BY <1>12 DEF HandlerResumes
  <1>13. ASSUME NEW s \in Stopper, StopWakes(s) PROVE DoneStays
    BY <1>13 DEF StopWakes
  <1>14. ASSUME NEW s \in Stopper, JoinAcceptor(s) PROVE DoneStays
    BY <1>14 DEF JoinAcceptor
  <1>15. ASSUME NEW s \in Stopper, StopPool(s) PROVE DoneStays
    BY <1>15 DEF StopPool
  <1>16. ASSUME NEW s \in Stopper, JoinPoller(s) PROVE DoneStays
    BY <1>16 DEF JoinPoller
  <1>17. ASSUME NEW s \in Stopper, CloseQueue(s) PROVE DoneStays
    BY <1>17 DEF CloseQueue
  <1>18. ASSUME NEW s \in Stopper, JoinWorkers(s) PROVE DoneStays
    BY <1>18 DEF JoinWorkers
  <1>19. CASE UNCHANGED vars
    BY <1>19 DEF vars
  <1> QED
    BY <1>1, <1>2, <1>3, <1>4, <1>5, <1>6, <1>7, <1>8, <1>9, <1>10, <1>11, <1>12, <1>13, <1>14,
       <1>15, <1>16, <1>17, <1>18, <1>19
    DEF Next, Business, WorkerStep, StopStep, FinishShutdown

LEMMA Turn ==
  ASSUME Stages, Stops, Chain, Progress, NEW s \in Stopper, pc[s] \in After
  PROVE  /\ pc[Acceptor] = "done"
         /\ all[s] \/ (Over /\ ~listening /\ closed)
         /\ \A t \in Stopper \ {s} : ~(all[t] /\ pc[t] \in Taking)
  <1>1. join[s] # None /\ pc[join[s]] = "done"
    BY DEF Progress
  <1>2. CASE join[s] = Acceptor
    BY <1>1, <1>2 DEF Chain
  <1>3. CASE join[s] \in Spare
    <2>1. Over /\ ~listening /\ closed
      BY <1>1, <1>3, Kinds DEF Chain, Progress
    <2> QED
      BY <2>1 DEF Progress, Over
  <1> QED
    BY <1>1, <1>2, <1>3 DEF Stops

LEMMA QueueCloses ==
  ASSUME Stages, Stops, Flags, Chain, Progress, DoneStays, NEW s \in Stopper, CloseQueue(s)
  PROVE  Progress'
  <1>1. /\ pc[s] = "queue" /\ Go(s, "workers") /\ closed'
        /\ UNCHANGED <<join, all, running, listening>>
    BY DEF CloseQueue, StopOnly, stopVars, netVars
  <1>2. /\ pc[Acceptor] = "done" /\ pc[Poller] = "done"
        /\ \A t \in Stopper \ {s} : ~(all[t] /\ pc[t] \in Taking)
    BY <1>1, Turn DEF Progress, After, Over
  <1>3. \A t \in Stopper : pc'[t] \in After => join'[t] # None /\ pc'[join'[t]] = "done"
    <2>1. \A u \in Stopper : join[u] = None \/ join[u] \in Thread
      BY Kinds DEF Stops
    <2>2. \A u \in Stopper : pc'[u] \in After =>
                  join[u] # None /\ pc[join[u]] = "done" /\ join[u] \in Thread
      BY <1>1, <2>1, Kinds DEF Progress, After, Go, Stages
    <2> QED
      BY <1>1, <2>2, Kinds DEF DoneStays
  <1>4. \A t \in Stopper : all'[t] /\ pc'[t] \in Taking =>
           listening' /\ pc'[t] \in {"workers", "listener"} /\ pc'[t] # "listener"
    BY <1>1, <1>2, Kinds DEF Progress, Go, Stages, Taking
  <1>5. \A t \in Stopper : join'[t] # None /\ pc'[t] \in {"run", "over", "done"} =>
           Over' /\ ~listening' /\ closed'
    BY <1>1, OverStays, Kinds DEF Progress, Go, Stages
  <1>6. ~running' /\ pc'[Acceptor] = "done" /\ pc'[Poller] = "done"
    BY <1>1, <1>2, Kinds DEF DoneStays, Chain, Taking
  <1> QED
    BY <1>1, <1>3, <1>4, <1>5, <1>6 DEF Progress, Taking

LEMMA ListenerCloses ==
  ASSUME Stages, Stops, Flags, Chain, Progress, DoneStays, NEW s \in Stopper, CloseListener(s)
  PROVE  Progress'
  <1>1. /\ pc[s] = "listener" /\ pc'[s] \in {"run", "done"} /\ ~listening'
        /\ \A t \in Stopper \ {s} : pc'[t] = pc[t]
        /\ UNCHANGED <<join, all, running, closed>>
    BY Kinds DEF CloseListener, StopOnly, stopVars, queueVars, Finished, Go, Stages
  <1>2. /\ Over /\ closed
        /\ \A t \in Stopper \ {s} : ~(all[t] /\ pc[t] \in Taking)
    BY <1>1, Turn DEF Progress, After, Taking
  <1>3. \A t \in Stopper : pc'[t] \in After => join'[t] # None /\ pc'[join'[t]] = "done"
    <2>1. \A u \in Stopper : join[u] = None \/ join[u] \in Thread
      BY Kinds DEF Stops
    <2>2. \A u \in Stopper : pc'[u] \in After =>
                  join[u] # None /\ pc[join[u]] = "done" /\ join[u] \in Thread
      BY <1>1, <2>1, Kinds DEF Progress, After
    <2> QED
      BY <1>1, <2>2, Kinds DEF DoneStays
  <1>4. \A t \in Stopper : ~(all'[t] /\ pc'[t] \in Taking)
    BY <1>1, <1>2 DEF Taking
  <1>5. Over' /\ ~listening' /\ closed' /\ ~running'
    BY <1>1, <1>2, OverStays DEF Chain, Taking
  <1> QED
    BY <1>1, <1>3, <1>4, <1>5 DEF Progress, Taking, Over

LEMMA HandlesTaken ==
  ASSUME Stages, Stops, Flags, Chain, Progress, DoneStays, NEW s \in Stopper, TakeHandles(s),
         accept # None, NEW p \in {"wake", "reserved"}, pc'[s] = p,
         \A t \in Stopper \ {s} : pc'[t] = pc[t], UNCHANGED <<listening, closed>>
  PROVE  Progress'
  <1>1. /\ join'[s] = accept /\ (all'[s] <=> handles) /\ ~running'
        /\ \A t \in Stopper \ {s} : join'[t] = join[t] /\ (all'[t] <=> all[t])
    BY DEF TakeHandles, Stops
  <1>2. \A t \in Stopper : pc'[t] \in After => join'[t] # None /\ pc'[join'[t]] = "done"
    <2>1. \A u \in Stopper : join[u] = None \/ join[u] \in Thread
      BY Kinds DEF Stops
    <2>2. \A u \in Stopper : pc'[u] \in After =>
                  join'[u] # None /\ pc[join'[u]] = "done" /\ join'[u] \in Thread
      BY <1>1, <2>1, Kinds DEF Progress, After
    <2> QED
      BY <1>1, <2>2, Kinds DEF DoneStays
  <1>3. all'[s] => listening /\ ~closed
    BY <1>1 DEF Chain, Progress
  <1>4. \A t \in Stopper : all'[t] /\ pc'[t] \in Taking =>
           listening' /\ (closed' <=> pc'[t] \in {"workers", "listener"})
    BY <1>1, <1>3 DEF Progress
  <1>5. \A t \in Stopper : all'[t] /\ pc'[t] \in {"queue", "workers", "listener"} =>
           pc'[Poller] = "done" /\ (pc'[t] = "listener" => Over')
    BY <1>1, OverStays, Kinds DEF Progress, DoneStays
  <1>6. \A t \in Stopper : join'[t] # None /\ pc'[t] \in {"run", "over", "done"} =>
           Over' /\ ~listening' /\ closed'
    BY <1>1, OverStays DEF Progress
  <1>7. closed' => pc'[Acceptor] = "done" /\ pc'[Poller] = "done"
    BY Kinds DEF Progress, DoneStays
  <1> QED
    BY <1>1, <1>2, <1>4, <1>5, <1>6, <1>7 DEF Progress

LEMMA ProgressStep ==
  ASSUME Stages, Helpers, Stops, Flags, Chain, Progress, [Next]_vars
  PROVE  Progress'
  <1>1. CASE Business
    BY <1>1, BusinessAside, DoneIsFinal, OthersMove DEF Aside, SameStop, stopVars
  <1>2. CASE MainEnds
    <2>1. /\ pc[Main] = "run" /\ pc'[Main] = "over" /\ SameStop
          /\ \A u \in Stopper \ {Main} : pc'[u] = pc[u]
      BY <1>2, Kinds DEF MainEnds, SameStop, Stages, Go, stopVars, netVars, queueVars
    <2>2. At(Main, "over")
      BY <1>2, <2>1, Kinds DEF MainEnds, At, Progress, Chain, Stops, Taking, After, Over
    <2> QED
      BY <2>1, <2>2, DoneIsFinal, StopperMoves, Kinds
  <1>3. ASSUME NEW w \in Worker, HandlerStops(w) PROVE Progress'
    <2>1. PICK f \in Spare : /\ accept # None /\ TakeHandles(f)
                             /\ pc' = [pc EXCEPT ![w] = "wake", ![f] = "reserved"]
      BY <1>3 DEF HandlerStops
    <2>2. /\ pc'[f] = "reserved" /\ \A u \in Stopper \ {f} : pc'[u] = pc[u]
          /\ f \in Stopper /\ UNCHANGED <<listening, closed>>
      BY <1>3, <2>1, Kinds DEF HandlerStops, Stages, netVars, queueVars
    <2> QED
      BY <2>1, <2>2, DoneIsFinal, HandlesTaken
  <1>4. ASSUME NEW w \in Worker, HandlerWakes(w) PROVE Progress'
    <2>1. SameStop /\ \A u \in Stopper : pc'[u] = pc[u]
      BY <1>4, Kinds DEF SameStop, Stages, Go, HandlerWakes, stopVars, netVars, queueVars
    <2> QED
      BY <2>1, DoneIsFinal, OthersMove
  <1>5. ASSUME NEW w \in Worker, HandlerSpawns(w) PROVE Progress'
    <2>1. PICK f \in Spare : f = helper[w] /\ pc[f] = "reserved"
      BY <1>5 DEF HandlerSpawns, Helpers
    <2>2. /\ pc'[f] \in {"join", "failed"} /\ \A u \in Stopper \ {f} : pc'[u] = pc[u]
          /\ f \in Stopper /\ SameStop
      BY <1>5, <2>1, Kinds DEF HandlerSpawns, Stages, SameStop, stopVars, netVars, queueVars
    <2>3. At(f, "join") /\ At(f, "failed")
      BY <2>1, <2>2 DEF At, Progress, Taking, After
    <2> QED
      BY <2>2, <2>3, DoneIsFinal, StopperMoves
  <1>6. ASSUME NEW w \in Worker, HandlerStores(w) PROVE Progress'
    <2>1. SameStop /\ \A u \in Stopper : pc'[u] = pc[u]
      BY <1>6, Kinds DEF SameStop, Stages, Go, HandlerStores, stopVars, netVars, queueVars
    <2> QED
      BY <2>1, DoneIsFinal, OthersMove
  <1>7. ASSUME NEW w \in Worker, HandlerDelegates(w) PROVE Progress'
    <2>1. PICK f \in Spare : pc[f] = "unborn" /\ pc' = [pc EXCEPT ![w] = "await", ![f] = "call"]
      BY <1>7 DEF HandlerDelegates
    <2>2. /\ pc'[f] = "call" /\ \A u \in Stopper \ {f} : pc'[u] = pc[u]
          /\ f \in Stopper /\ SameStop
      BY <1>7, <2>1, Kinds DEF HandlerDelegates, Stages, SameStop, netVars, queueVars
    <2>3. At(f, "call")
      BY <2>1, <2>2 DEF At, Chain, Taking, After
    <2> QED
      BY <2>2, <2>3, DoneIsFinal, StopperMoves
  <1>8. ASSUME NEW w \in Worker, HandlerResumes(w) PROVE Progress'
    <2>1. SameStop /\ \A u \in Stopper : pc'[u] = pc[u]
      BY <1>8, Kinds DEF SameStop, Stages, Go, HandlerResumes, stopVars, netVars, queueVars
    <2> QED
      BY <2>1, DoneIsFinal, OthersMove
  <1>9. ASSUME NEW s \in Stopper, StopCalled(s) PROVE Progress'
    <2>1. UNCHANGED <<listening, closed>>
      BY <1>9 DEF StopCalled, netVars, queueVars
    <2>2. CASE accept # None /\ TakeHandles(s) /\ Go(s, "wake")
      <3>1. pc'[s] = "wake" /\ \A u \in Stopper \ {s} : pc'[u] = pc[u]
        BY <2>2, Kinds DEF Stages, Go
      <3> QED
        BY <2>1, <2>2, <3>1, DoneIsFinal, HandlesTaken
    <2>3. CASE Finished(s) /\ UNCHANGED <<running, join, all, accept>>
      <3>1. PICK p \in {"run", "done"} : Go(s, p) /\ (p = "run" <=> s = Main)
        BY <2>3 DEF Finished
      <3>2. pc'[s] = p /\ \A u \in Stopper \ {s} : pc'[u] = pc[u]
        BY <3>1, Kinds DEF Stages, Go
      <3>3. At(s, p)
        BY <1>9, <3>1, Kinds DEF StopCalled, At, Progress, Chain, Taking, After
      <3> QED
        BY <2>1, <2>3, <3>2, <3>3, DoneIsFinal, StopperMoves DEF SameStop
    <2> QED
      BY <1>9, <2>2, <2>3 DEF StopCalled
  <1>10. ASSUME NEW s \in Stopper, StopWakes(s) PROVE Progress'
    <2>1. /\ pc[s] = "wake" /\ pc'[s] = "join" /\ SameStop
          /\ \A u \in Stopper \ {s} : pc'[u] = pc[u]
      BY <1>10, Kinds DEF StopWakes, SameStop, Stages, Go, stopVars, netVars, queueVars
    <2>2. At(s, "join")
      BY <1>10, <2>1 DEF StopWakes, At, Progress, Chain, Stops, Taking, After, Over
    <2> QED
      BY <2>1, <2>2, DoneIsFinal, StopperMoves, Kinds
  <1>11. ASSUME NEW s \in Stopper, JoinAcceptor(s) PROVE Progress'
    <2>1. /\ pc[s] = "join" /\ pc'[s] = "drain" /\ SameStop
          /\ \A u \in Stopper \ {s} : pc'[u] = pc[u]
      BY <1>11, Kinds DEF JoinAcceptor, StopOnly, SameStop, Stages, Go, stopVars, netVars,
         queueVars
    <2>2. At(s, "drain")
      BY <1>11, <2>1 DEF JoinAcceptor, At, Progress, Chain, Stops, Taking, After, Over
    <2> QED
      BY <2>1, <2>2, DoneIsFinal, StopperMoves, Kinds
  <1>12. ASSUME NEW s \in Stopper, Drain(s) PROVE Progress'
    <2>1. PICK p \in {"offer", "pool"} : /\ pc[s] = "drain" /\ Go(s, p) /\ SameStop
      BY <1>12 DEF Drain, StopOnly, SameStop, stopVars, queueVars
    <2>2. At(s, p)
      BY <2>1 DEF At, Progress, Chain, Taking, After
    <2>3. pc'[s] = p /\ \A u \in Stopper \ {s} : pc'[u] = pc[u]
      BY <2>1, Kinds DEF Stages, Go
    <2> QED
      BY <2>1, <2>2, <2>3, DoneIsFinal, StopperMoves
  <1>13. ASSUME NEW s \in Stopper, Offer(s) PROVE Progress'
    <2>1. /\ pc[s] = "offer" /\ pc'[s] = "drain" /\ SameStop
          /\ \A u \in Stopper \ {s} : pc'[u] = pc[u]
      BY <1>13, Kinds DEF Offer, StopOnly, SendJob, SameStop, Stages, Go, stopVars, netVars,
         queueVars
    <2>2. At(s, "drain")
      BY <2>1 DEF At, Progress, Chain, Stops, Taking, After, Over
    <2> QED
      BY <2>1, <2>2, DoneIsFinal, StopperMoves, Kinds
  <1>14. ASSUME NEW s \in Stopper, StopPool(s) PROVE Progress'
    <2>1. /\ pc[s] = "pool" /\ pc'[s] = "poller" /\ SameStop
          /\ \A u \in Stopper \ {s} : pc'[u] = pc[u]
      BY <1>14, Kinds DEF StopPool, StopOnly, SameStop, Stages, Go, stopVars, netVars, queueVars
    <2>2. At(s, "poller")
      BY <1>14, <2>1 DEF StopPool, At, Progress, Chain, Stops, Taking, After, Over
    <2> QED
      BY <2>1, <2>2, DoneIsFinal, StopperMoves, Kinds
  <1>15. ASSUME NEW s \in Stopper, JoinPoller(s) PROVE Progress'
    <2>1. /\ pc[s] = "poller" /\ pc'[s] = "queue" /\ SameStop
          /\ \A u \in Stopper \ {s} : pc'[u] = pc[u]
      BY <1>15, Kinds DEF JoinPoller, StopOnly, SameStop, Stages, Go, stopVars, netVars,
         queueVars
    <2>2. At(s, "queue")
      BY <1>15, <2>1 DEF JoinPoller, At, Progress, Chain, Stops, Taking, After, Over
    <2> QED
      BY <2>1, <2>2, DoneIsFinal, StopperMoves, Kinds
  <1>16. ASSUME NEW s \in Stopper, CloseQueue(s) PROVE Progress'
    BY <1>16, DoneIsFinal, QueueCloses
  <1>17. ASSUME NEW s \in Stopper, JoinWorkers(s) PROVE Progress'
    <2>1. /\ pc[s] = "workers" /\ pc'[s] = "listener" /\ SameStop
          /\ \A u \in Stopper \ {s} : pc'[u] = pc[u]
      BY <1>17, Kinds DEF JoinWorkers, StopOnly, SameStop, Stages, Go, stopVars, netVars,
         queueVars
    <2>2. At(s, "listener")
      BY <1>17, <2>1 DEF JoinWorkers, At, Progress, Chain, Stops, Taking, After, Over
    <2> QED
      BY <2>1, <2>2, DoneIsFinal, StopperMoves, Kinds
  <1>18. ASSUME NEW s \in Stopper, CloseListener(s) PROVE Progress'
    BY <1>18, DoneIsFinal, ListenerCloses
  <1> USE Kinds
      DEF Stages, Helpers, Stops, Flags, Chain, Progress, After, Over, Go, Taking, stopVars,
          netVars, queueVars
  <1>19. CASE UNCHANGED vars
    BY <1>19 DEF vars
  <1> QED
    BY <1>1, <1>2, <1>3, <1>4, <1>5, <1>6, <1>7, <1>8, <1>9, <1>10, <1>11, <1>12, <1>13, <1>14,
       <1>15, <1>16, <1>17, <1>18, <1>19
    DEF Next, Business, WorkerStep, StopStep, FinishShutdown

LEMMA AttendedStep ==
  ASSUME Stages, Stops, Attended, [Next]_vars
  PROVE  Attended'
  <1>1. CASE Business
    <2>1. UNCHANGED <<running, join>>
      BY <1>1, BusinessAside DEF Aside, stopVars
    <2> QED
      BY <2>1 DEF Attended
  <1>2. ASSUME NEW w \in Worker, HandlerStops(w) PROVE Attended'
    <2>1. PICK f \in Stopper : accept # None /\ join' = [join EXCEPT ![f] = accept]
      BY <1>2, Kinds DEF HandlerStops, TakeHandles
    <2> QED
      BY <2>1 DEF Stops, Attended
  <1>3. ASSUME NEW s \in Stopper, StopCalled(s) PROVE Attended'
    <2>1. UNCHANGED <<running, join>> \/ (accept # None /\ join' = [join EXCEPT ![s] = accept])
      BY <1>3 DEF StopCalled, TakeHandles
    <2> QED
      BY <2>1 DEF Stops, Attended
  <1> USE Kinds
      DEF Attended, stopVars
  <1>4. CASE MainEnds
    BY <1>4 DEF MainEnds
  <1>5. ASSUME NEW w \in Worker, HandlerWakes(w) PROVE Attended'
    BY <1>5 DEF HandlerWakes
  <1>6. ASSUME NEW w \in Worker, HandlerSpawns(w) PROVE Attended'
    BY <1>6 DEF HandlerSpawns
  <1>7. ASSUME NEW w \in Worker, HandlerStores(w) PROVE Attended'
    BY <1>7 DEF HandlerStores
  <1>8. ASSUME NEW w \in Worker, HandlerDelegates(w) PROVE Attended'
    BY <1>8 DEF HandlerDelegates
  <1>9. ASSUME NEW w \in Worker, HandlerResumes(w) PROVE Attended'
    BY <1>9 DEF HandlerResumes
  <1>10. ASSUME NEW s \in Stopper, StopWakes(s) PROVE Attended'
    BY <1>10 DEF StopWakes
  <1>11. ASSUME NEW s \in Stopper, JoinAcceptor(s) PROVE Attended'
    BY <1>11 DEF JoinAcceptor, StopOnly
  <1>12. ASSUME NEW s \in Stopper, Drain(s) PROVE Attended'
    BY <1>12 DEF Drain, StopOnly
  <1>13. ASSUME NEW s \in Stopper, Offer(s) PROVE Attended'
    BY <1>13 DEF Offer, StopOnly
  <1>14. ASSUME NEW s \in Stopper, StopPool(s) PROVE Attended'
    BY <1>14 DEF StopPool, StopOnly
  <1>15. ASSUME NEW s \in Stopper, JoinPoller(s) PROVE Attended'
    BY <1>15 DEF JoinPoller, StopOnly
  <1>16. ASSUME NEW s \in Stopper, CloseQueue(s) PROVE Attended'
    BY <1>16 DEF CloseQueue, StopOnly
  <1>17. ASSUME NEW s \in Stopper, JoinWorkers(s) PROVE Attended'
    BY <1>17 DEF JoinWorkers, StopOnly
  <1>18. ASSUME NEW s \in Stopper, CloseListener(s) PROVE Attended'
    BY <1>18 DEF CloseListener, StopOnly
  <1>19. CASE UNCHANGED vars
    BY <1>19 DEF vars
  <1> QED
    BY <1>1, <1>2, <1>3, <1>4, <1>5, <1>6, <1>7, <1>8, <1>9, <1>10, <1>11, <1>12, <1>13, <1>14,
       <1>15, <1>16, <1>17, <1>18, <1>19
    DEF Next, Business, WorkerStep, StopStep, FinishShutdown

LEMMA PoolStep ==
  ASSUME Stages, Helpers, Sets, Pool, [Next]_vars
  PROVE  Pool'
  <1> USE Kinds
      DEF Stages, Helpers, Pool, Go, pollVars
  <1>1. ASSUME NEW c \in Conn, Connect(c) PROVE Pool'
    BY <1>1 DEF Connect
  <1>2. ASSUME NEW c \in Conn, Request(c) PROVE Pool'
    BY <1>2 DEF Request
  <1>3. ASSUME NEW c \in Conn, HangUp(c) PROVE Pool'
    BY <1>3 DEF HangUp
  <1>4. CASE AcceptorChecks
    BY <1>4 DEF AcceptorChecks
  <1>5. CASE AcceptorAccepts
    BY <1>5 DEF AcceptorAccepts
  <1>6. CASE AcceptorFails
    BY <1>6 DEF AcceptorFails
  <1>7. CASE AcceptorRechecks
    BY <1>7 DEF AcceptorRechecks
  <1>8. CASE AcceptorSends
    BY <1>8 DEF AcceptorSends, SendJob
  <1>9. CASE PollerScans
    BY <1>9 DEF PollerScans, PollerUnchanged
  <1>10. CASE PollerExamines
    BY <1>10 DEF PollerExamines, PollerUnchanged
  <1>11. CASE PollerSends
    BY <1>11 DEF PollerSends, SendJob, PollerUnchanged
  <1>12. CASE PollerPutsBack
    BY <1>12 DEF PollerPutsBack, PollerUnchanged
  <1>13. CASE MainEnds
    BY <1>13 DEF MainEnds
  <1>14. ASSUME NEW w \in Worker, Recv(w) PROVE Pool'
    BY <1>14 DEF Recv
  <1>15. ASSUME NEW w \in Worker, ReadRequest(w) PROVE Pool'
    BY <1>15 DEF ReadRequest, CloseConn
  <1>16. ASSUME NEW w \in Worker, ReadEnds(w) PROVE Pool'
    BY <1>16 DEF ReadEnds, CloseConn
  <1>17. ASSUME NEW w \in Worker, HandlerReturns(w) PROVE Pool'
    BY <1>17 DEF HandlerReturns
  <1>18. ASSUME NEW w \in Worker, Write(w) PROVE Pool'
    BY <1>18 DEF Write, CloseConn
  <1>19. ASSUME NEW w \in Worker, Probe(w) PROVE Pool'
    BY <1>19 DEF Probe, CloseConn
  <1>20. ASSUME NEW w \in Worker, Park(w) PROVE Pool'
    BY <1>20 DEF Park, CloseConn
  <1>21. ASSUME NEW w \in Worker, HandlerStops(w) PROVE Pool'
    BY <1>21 DEF HandlerStops
  <1>22. ASSUME NEW w \in Worker, HandlerWakes(w) PROVE Pool'
    BY <1>22 DEF HandlerWakes
  <1>23. ASSUME NEW w \in Worker, HandlerSpawns(w) PROVE Pool'
    BY <1>23 DEF HandlerSpawns
  <1>24. ASSUME NEW w \in Worker, HandlerStores(w) PROVE Pool'
    BY <1>24 DEF HandlerStores
  <1>25. ASSUME NEW w \in Worker, HandlerDelegates(w) PROVE Pool'
    BY <1>25 DEF HandlerDelegates
  <1>26. ASSUME NEW w \in Worker, HandlerResumes(w) PROVE Pool'
    BY <1>26 DEF HandlerResumes
  <1>27. ASSUME NEW s \in Stopper, StopCalled(s) PROVE Pool'
    BY <1>27 DEF StopCalled, Finished
  <1>28. ASSUME NEW s \in Stopper, StopWakes(s) PROVE Pool'
    BY <1>28 DEF StopWakes
  <1>29. ASSUME NEW s \in Stopper, JoinAcceptor(s) PROVE Pool'
    BY <1>29 DEF JoinAcceptor, StopOnly
  <1>30. ASSUME NEW s \in Stopper, Drain(s) PROVE Pool'
    BY <1>30 DEF Drain, StopOnly
  <1>31. ASSUME NEW s \in Stopper, Offer(s) PROVE Pool'
    BY <1>31 DEF Offer, SendJob, StopOnly
  <1>32. ASSUME NEW s \in Stopper, StopPool(s) PROVE Pool'
    BY <1>32 DEF StopPool, StopOnly
  <1>33. ASSUME NEW s \in Stopper, JoinPoller(s) PROVE Pool'
    BY <1>33 DEF JoinPoller, StopOnly
  <1>34. ASSUME NEW s \in Stopper, CloseQueue(s) PROVE Pool'
    BY <1>34 DEF CloseQueue, StopOnly
  <1>35. ASSUME NEW s \in Stopper, JoinWorkers(s) PROVE Pool'
    BY <1>35 DEF JoinWorkers, StopOnly
  <1>36. ASSUME NEW s \in Stopper, CloseListener(s) PROVE Pool'
    BY <1>36 DEF CloseListener, Finished, StopOnly
  <1>37. CASE UNCHANGED vars
    BY <1>37 DEF vars
  <1> QED
    BY <1>1, <1>2, <1>3, <1>4, <1>5, <1>6, <1>7, <1>8, <1>9, <1>10, <1>11, <1>12, <1>13, <1>14,
       <1>15, <1>16, <1>17, <1>18, <1>19, <1>20, <1>21, <1>22, <1>23, <1>24, <1>25, <1>26,
       <1>27, <1>28, <1>29, <1>30, <1>31, <1>32, <1>33, <1>34, <1>35, <1>36, <1>37
    DEF Next, Client, AcceptorStep, PollerStep, Serve, WorkerStep, StopStep, FinishShutdown

LEMMA DrainedStep ==
  ASSUME Stages, Helpers, Queues, Drained, [Next]_vars
  PROVE  Drained'
  <1>1. CASE AcceptorRechecks
    <2>1. UNCHANGED queueVars
      BY <1>1, Kinds DEF AcceptorRechecks, Stages, Go
    <2>2. \A v \in Worker : pc'[v] = pc[v]
      BY <1>1, Kinds DEF AcceptorRechecks, Stages, Go
    <2> QED
      BY <2>1, <2>2 DEF Drained, queueVars
  <1>2. CASE AcceptorSends
    <2>1. closed => UNCHANGED queueVars
      BY <1>2, Kinds DEF AcceptorSends, Stages, Go, SendJob
    <2>2. \A v \in Worker : pc'[v] = pc[v]
      BY <1>2, Kinds DEF AcceptorSends, Stages, Go, SendJob
    <2> QED
      BY <2>1, <2>2 DEF Drained, queueVars
  <1>3. CASE PollerScans
    <2>1. UNCHANGED queueVars
      BY <1>3, Kinds DEF PollerScans, Stages, Go
    <2>2. \A v \in Worker : pc'[v] = pc[v]
      BY <1>3, Kinds DEF PollerScans, Stages, Go
    <2> QED
      BY <2>1, <2>2 DEF Drained, queueVars
  <1>4. CASE PollerExamines
    <2>1. UNCHANGED queueVars
      BY <1>4, Kinds DEF PollerExamines, Stages, Go
    <2>2. \A v \in Worker : pc'[v] = pc[v]
      BY <1>4, Kinds DEF PollerExamines, Stages, Go
    <2> QED
      BY <2>1, <2>2 DEF Drained, queueVars
  <1>5. CASE PollerSends
    <2>1. closed => UNCHANGED queueVars
      BY <1>5, Kinds DEF PollerSends, Stages, Go, SendJob
    <2>2. \A v \in Worker : pc'[v] = pc[v]
      BY <1>5, Kinds DEF PollerSends, Stages, Go, SendJob
    <2> QED
      BY <2>1, <2>2 DEF Drained, queueVars
  <1>6. CASE PollerPutsBack
    <2>1. UNCHANGED queueVars
      BY <1>6, Kinds DEF PollerPutsBack, Stages, Go
    <2>2. \A v \in Worker : pc'[v] = pc[v]
      BY <1>6, Kinds DEF PollerPutsBack, Stages, Go
    <2> QED
      BY <2>1, <2>2 DEF Drained, queueVars
  <1>7. ASSUME NEW w \in Worker, Recv(w) PROVE Drained'
    <2>1. CASE jobs = <<>> /\ closed /\ UNCHANGED queueVars
      BY <2>1 DEF Drained, queueVars
    <2>2. CASE jobs # <<>> /\ Go(w, "read")
      <3>1. \A v \in Worker : pc'[v] = "done" => pc[v] = "done"
        BY <2>2, Kinds DEF Stages, Go
      <3> QED
        BY <2>2, <3>1 DEF Drained
    <2> QED
      BY <1>7, <2>1, <2>2 DEF Recv, queueVars
  <1>8. ASSUME NEW w \in Worker, ReadRequest(w) PROVE Drained'
    <2>1. (Go(w, "handler") \/ Go(w, "recv")) /\ UNCHANGED queueVars
      BY <1>8 DEF ReadRequest, CloseConn
    <2> QED
      BY <2>1, Kinds DEF Drained, Stages, Go, queueVars
  <1>9. ASSUME NEW w \in Worker, Write(w) PROVE Drained'
    <2>1. UNCHANGED queueVars /\ \E p \in {"recv", "read", "probe", "park"} : Go(w, p)
      BY <1>9 DEF Write, CloseConn
    <2>2. \A v \in Worker : pc'[v] = "done" => pc[v] = "done"
      BY <2>1, Kinds DEF Stages, Go
    <2> QED
      BY <2>1, <2>2 DEF Drained, queueVars
  <1>10. ASSUME NEW w \in Worker, Probe(w) PROVE Drained'
    <2>1. UNCHANGED queueVars /\ \E p \in {"recv", "read", "probe", "park"} : Go(w, p)
      BY <1>10 DEF Probe, CloseConn
    <2>2. \A v \in Worker : pc'[v] = "done" => pc[v] = "done"
      BY <2>1, Kinds DEF Stages, Go
    <2> QED
      BY <2>1, <2>2 DEF Drained, queueVars
  <1>11. ASSUME NEW w \in Worker, Park(w) PROVE Drained'
    <2>1. Go(w, "recv") /\ UNCHANGED queueVars
      BY <1>11 DEF Park, CloseConn
    <2> QED
      BY <2>1, Kinds DEF Drained, Stages, Go, queueVars
  <1>12. ASSUME NEW w \in Worker, HandlerSpawns(w) PROVE Drained'
    <2>1. PICK f \in Spare : f = helper[w] /\ pc[w] = "spawn" /\ UNCHANGED queueVars
      BY <1>12 DEF HandlerSpawns, Helpers
    <2>2. \A v \in Worker : pc'[v] = "done" => pc[v] = "done"
      BY <1>12, <2>1, Kinds DEF HandlerSpawns, Stages
    <2> QED
      BY <2>1, <2>2 DEF Drained, queueVars
  <1>13. ASSUME NEW w \in Worker, HandlerDelegates(w) PROVE Drained'
    <2>1. PICK f \in Spare : pc' = [pc EXCEPT ![w] = "await", ![f] = "call"]
      BY <1>13 DEF HandlerDelegates
    <2>2. (\A v \in Worker : pc'[v] = "done" => pc[v] = "done") /\ UNCHANGED queueVars
      BY <1>13, <2>1, Kinds DEF HandlerDelegates, Stages
    <2> QED
      BY <2>2 DEF Drained, queueVars
  <1>14. ASSUME NEW s \in Stopper, StopCalled(s) PROVE Drained'
    <2>1. UNCHANGED queueVars
      BY <1>14, Kinds DEF StopCalled, Stages, Go
    <2>2. \A v \in Worker : pc'[v] = pc[v]
      BY <1>14, Kinds DEF StopCalled, Stages, Go, Finished
    <2> QED
      BY <2>1, <2>2 DEF Drained, queueVars
  <1>15. ASSUME NEW s \in Stopper, Drain(s) PROVE Drained'
    <2>1. UNCHANGED queueVars
      BY <1>15, Kinds DEF Drain, Stages, Go, queueVars, StopOnly
    <2>2. \A v \in Worker : pc'[v] = pc[v]
      BY <1>15, Kinds DEF Drain, Stages, Go
    <2> QED
      BY <2>1, <2>2 DEF Drained, queueVars
  <1>16. ASSUME NEW s \in Stopper, Offer(s) PROVE Drained'
    <2>1. closed => UNCHANGED queueVars
      BY <1>16, Kinds DEF Offer, Stages, Go, SendJob
    <2>2. \A v \in Worker : pc'[v] = pc[v]
      BY <1>16, Kinds DEF Offer, Stages, Go, SendJob
    <2> QED
      BY <2>1, <2>2 DEF Drained, queueVars
  <1> USE Kinds
      DEF Stages, Helpers, Drained, Go, queueVars
  <1>17. ASSUME NEW c \in Conn, Connect(c) PROVE Drained'
    BY <1>17 DEF Connect
  <1>18. ASSUME NEW c \in Conn, Request(c) PROVE Drained'
    BY <1>18 DEF Request
  <1>19. ASSUME NEW c \in Conn, HangUp(c) PROVE Drained'
    BY <1>19 DEF HangUp
  <1>20. CASE AcceptorChecks
    BY <1>20 DEF AcceptorChecks
  <1>21. CASE AcceptorAccepts
    BY <1>21 DEF AcceptorAccepts
  <1>22. CASE AcceptorFails
    BY <1>22 DEF AcceptorFails
  <1>23. CASE MainEnds
    BY <1>23 DEF MainEnds
  <1>24. ASSUME NEW w \in Worker, ReadEnds(w) PROVE Drained'
    BY <1>24 DEF ReadEnds, CloseConn
  <1>25. ASSUME NEW w \in Worker, HandlerReturns(w) PROVE Drained'
    BY <1>25 DEF HandlerReturns
  <1>26. ASSUME NEW w \in Worker, HandlerStops(w) PROVE Drained'
    BY <1>26 DEF HandlerStops
  <1>27. ASSUME NEW w \in Worker, HandlerWakes(w) PROVE Drained'
    BY <1>27 DEF HandlerWakes
  <1>28. ASSUME NEW w \in Worker, HandlerStores(w) PROVE Drained'
    BY <1>28 DEF HandlerStores
  <1>29. ASSUME NEW w \in Worker, HandlerResumes(w) PROVE Drained'
    BY <1>29 DEF HandlerResumes
  <1>30. ASSUME NEW s \in Stopper, StopWakes(s) PROVE Drained'
    BY <1>30 DEF StopWakes
  <1>31. ASSUME NEW s \in Stopper, JoinAcceptor(s) PROVE Drained'
    BY <1>31 DEF JoinAcceptor, StopOnly
  <1>32. ASSUME NEW s \in Stopper, StopPool(s) PROVE Drained'
    BY <1>32 DEF StopPool, StopOnly
  <1>33. ASSUME NEW s \in Stopper, JoinPoller(s) PROVE Drained'
    BY <1>33 DEF JoinPoller, StopOnly
  <1>34. ASSUME NEW s \in Stopper, CloseQueue(s) PROVE Drained'
    BY <1>34 DEF CloseQueue, StopOnly
  <1>35. ASSUME NEW s \in Stopper, JoinWorkers(s) PROVE Drained'
    BY <1>35 DEF JoinWorkers, StopOnly
  <1>36. ASSUME NEW s \in Stopper, CloseListener(s) PROVE Drained'
    BY <1>36 DEF CloseListener, Finished, StopOnly
  <1>37. CASE UNCHANGED vars
    BY <1>37 DEF vars
  <1> QED
    BY <1>1, <1>2, <1>3, <1>4, <1>5, <1>6, <1>7, <1>8, <1>9, <1>10, <1>11, <1>12, <1>13, <1>14,
       <1>15, <1>16, <1>17, <1>18, <1>19, <1>20, <1>21, <1>22, <1>23, <1>24, <1>25, <1>26,
       <1>27, <1>28, <1>29, <1>30, <1>31, <1>32, <1>33, <1>34, <1>35, <1>36, <1>37
    DEF Next, Client, AcceptorStep, PollerStep, Serve, WorkerStep, StopStep, FinishShutdown

LEMMA AppendItems ==
  ASSUME NEW q \in Seq(Item), NEW x \in Item,
         \A i, j \in DOMAIN q : q[i] = q[j] /\ q[i] \in Conn =>
             i = j, x \notin Range(q) \intersect Conn
  PROVE  LET r == Append(q, x) IN
         /\ Range(r) \intersect Conn = (Range(q) \intersect Conn) \union ({x} \intersect Conn)
         /\ \A i, j \in DOMAIN r : r[i] = r[j] /\ r[i] \in Conn => i = j
  <1> DEFINE r == Append(q, x)
  <1>1. /\ DOMAIN q = 1 .. Len(q) /\ DOMAIN r = 1 .. Len(q) + 1 /\ Len(q) \in Nat
        /\ r[Len(q) + 1] = x /\ \A i \in 1 .. Len(q) : r[i] = q[i]
    BY AppendProperties, LenProperties
  <1>2. Range(r) = Range(q) \union {x}
    BY <1>1 DEF Range
  <1>3. \A i \in DOMAIN q : q[i] \in Conn => q[i] # x
    BY DEF Range
  <1> HIDE DEF r
  <1>4. \A i, j \in DOMAIN r : r[i] = r[j] /\ r[i] \in Conn => i = j
    BY <1>1, <1>3
  <1> QED
    BY <1>2, <1>4 DEF r

LEMMA TailItems ==
  ASSUME NEW q \in Seq(Item), q # <<>>,
         \A i, j \in DOMAIN q : q[i] = q[j] /\ q[i] \in Conn => i = j
  PROVE  LET r == Tail(q) IN
         /\ Range(r) \intersect Conn = (Range(q) \intersect Conn) \ {Head(q)}
         /\ Head(q) \in Range(q)
         /\ \A i, j \in DOMAIN r : r[i] = r[j] /\ r[i] \in Conn => i = j
  <1> DEFINE r == Tail(q)
  <1>1. /\ Len(q) \in Nat \ {0} /\ DOMAIN q = 1 .. Len(q) /\ DOMAIN r = 1 .. Len(q) - 1
        /\ Head(q) = q[1] /\ \A i \in 1 .. Len(q) - 1 : r[i] = q[i + 1]
    BY HeadTailProperties, LenProperties, EmptySeq
  <1> HIDE DEF r
  <1>2. \A i, j \in DOMAIN r : r[i] = r[j] /\ r[i] \in Conn => i = j
    BY <1>1
  <1>3. ASSUME NEW c \in Range(r) \intersect Conn PROVE c \in Range(q) /\ c # Head(q)
    <2>1. PICK i \in DOMAIN r : c = r[i]
      BY DEF Range
    <2>2. i + 1 \in DOMAIN q /\ 1 \in DOMAIN q /\ i + 1 # 1 /\ q[i + 1] = c
      BY <2>1, <1>1
    <2> QED
      BY <2>2, <1>1 DEF Range
  <1>4. ASSUME NEW c \in (Range(q) \intersect Conn) \ {Head(q)} PROVE c \in Range(r)
    <2>1. PICK i \in DOMAIN q : c = q[i]
      BY DEF Range
    <2>2. i - 1 \in DOMAIN r /\ r[i - 1] = c
      BY <2>1, <1>1
    <2> QED
      BY <2>2 DEF Range
  <1>5. Head(q) \in Range(q)
    BY <1>1 DEF Range
  <1> QED
    BY <1>2, <1>3, <1>4, <1>5 DEF r

LEMMA BacklogAppend ==
  ASSUME Queues, Unique, NEW x \in Item, x \notin Waiting, backlog' = Append(backlog, x),
         UNCHANGED <<jobs, hold>>
  PROVE  /\ Waiting' = Waiting \union ({x} \intersect Conn)
         /\ UNCHANGED <<Queued, Held>> /\ Unique'
  BY AppendItems DEF Queues, Unique, Waiting, Queued, Held

LEMMA JobsAppend ==
  ASSUME Queues, Unique, NEW x \in Item, x \notin Queued, jobs' = Append(jobs, x),
         UNCHANGED backlog
  PROVE  /\ Queued' = Queued \union ({x} \intersect Conn)
         /\ \A i, j \in DOMAIN jobs' : jobs'[i] = jobs'[j] /\ jobs'[i] \in Conn => i = j
  BY AppendItems DEF Queues, Unique, Queued

LEMMA BacklogTail ==
  ASSUME Queues, Unique, backlog # <<>>, backlog' = Tail(backlog)
  PROVE  /\ Waiting' = Waiting \ {Head(backlog)} 
         /\ Head(backlog) \in Item /\ (Head(backlog) \in Conn => Head(backlog) \in Waiting)
         /\ \A i, j \in DOMAIN backlog' : backlog'[i] = backlog'[j] /\ backlog'[i] \in Conn =>
                i = j
  BY TailItems, Dequeue DEF Queues, Unique, Waiting

LEMMA JobsTail ==
  ASSUME Queues, Unique, jobs # <<>>, jobs' = Tail(jobs)
  PROVE  /\ Queued' = Queued \ {Head(jobs)} 
         /\ Head(jobs) \in Item /\ (Head(jobs) \in Conn => Head(jobs) \in Queued)
         /\ \A i, j \in DOMAIN jobs' : jobs'[i] = jobs'[j] /\ jobs'[i] \in Conn => i = j
  BY TailItems, Dequeue DEF Queues, Unique, Queued

LEMMA HoldTakes ==
  ASSUME Hands, Unique, NEW t \in Thread, hold[t] = None, NEW x \in Item, x \notin Held,
         Hold(t, x)
  PROVE  /\ Held' = Held \union ({x} \intersect Conn)
         /\ \A u, v \in Thread : hold'[u] = hold'[v] /\ hold'[u] \in Conn => u = v
  <1>1. /\ hold'[t] = x /\ \A u \in Thread \ {t} : hold'[u] = hold[u]
        /\ None \notin Conn
    BY Kinds DEF Hands, Hold
  <1> QED
    BY <1>1 DEF Unique, Held

LEMMA HoldDrops ==
  ASSUME Hands, Unique, NEW t \in Thread, Hold(t, None)
  PROVE  /\ Held' = Held \ {hold[t]} /\ (hold[t] \in Conn => hold[t] \in Held)
         /\ \A u, v \in Thread : hold'[u] = hold'[v] /\ hold'[u] \in Conn => u = v
  <1>1. /\ hold'[t] = None /\ \A u \in Thread \ {t} : hold'[u] = hold[u]
        /\ None \notin Conn
    BY Kinds DEF Hands, Hold
  <1> QED
    BY <1>1 DEF Unique, Held

LEMMA OwnedAfter ==
  ASSUME Sets, NEW cs, Shut(cs)
  PROVE  Owned' = Owned \ cs
  BY DEF Sets, Shut, Owned

LEMMA SortedKept ==
  ASSUME Sorted, UNCHANGED PlaceVars
  PROVE  Sorted'
  BY DEF Sorted, Unique, Apart, Waiting, Queued, Held, Owned, PlaceVars

LEMMA SendPlaces ==
  ASSUME Queues, Hands, Sets, Sorted, NEW t \in Thread, hold[t] # None, NEW s, NEW e,
         SendJob(t, s, e), UNCHANGED <<backlog, parked, batch, idle>>
  PROVE  Sorted'
  <1>1. PICK x \in Item : x = hold[t]
    BY DEF Hands
  <1>2. /\ Held' = Held \ {x} /\ (x \in Conn => x \in Held) /\ UNCHANGED Waiting
        /\ \A u, v \in Thread : hold'[u] = hold'[v] /\ hold'[u] \in Conn => u = v
    BY <1>1, HoldDrops DEF SendJob, Sorted, Waiting
  <1>3. CASE Shut({x}) /\ UNCHANGED jobs
    <2>1. Owned' = Owned \ {x} /\ UNCHANGED Queued
      BY <1>3, OwnedAfter DEF Queued
    <2>2. Apart'
      BY <2>1, <1>2 DEF Sorted, Apart, Owned
    <2> QED
      BY <2>2, <1>2, <1>3 DEF Sorted, Unique
  <1>4. CASE jobs' = Append(jobs, x) /\ UNCHANGED state
    <2>1. x \notin Queued
      BY <1>2, Kinds DEF Sorted, Apart, Queued
    <2>2. /\ Queued' = Queued \union ({x} \intersect Conn) /\ UNCHANGED Owned
          /\ \A i, j \in DOMAIN jobs' : jobs'[i] = jobs'[j] /\ jobs'[i] \in Conn => i = j
      BY <2>1, <1>4, JobsAppend DEF Sorted, Owned
    <2>3. Apart'
      <3>1. CASE x \in Conn
        <4>1. Queued' = Queued \union {x}
          BY <2>2, <3>1
        <4> QED
          BY <2>2, <4>1, <3>1, <1>2 DEF Sorted, Apart
      <3>2. CASE x \notin Conn
        <4>1. Queued' = Queued /\ Held' = Held
          BY <2>2, <3>2, <1>2 DEF Held
        <4> QED
          BY <2>2, <4>1, <1>2 DEF Sorted, Apart
      <3> QED
        BY <3>1, <3>2
    <2> QED
      BY <2>2, <2>3, <1>2 DEF Sorted, Unique
  <1> QED
    BY <1>1, <1>3, <1>4 DEF SendJob, queueVars

LEMMA ClosePlaces ==
  ASSUME Hands, Sets, Sorted, NEW t \in Thread, Shut({hold[t]}), Hold(t, None),
         UNCHANGED <<backlog, jobs, parked, batch, idle>>
  PROVE  Sorted'
  <1>1. PICK x : x = hold[t]
    OBVIOUS
  <1>2. /\ Held' = Held \ {x} /\ (x \in Conn => x \in Held) /\ UNCHANGED <<Waiting, Queued>>
        /\ \A u, v \in Thread : hold'[u] = hold'[v] /\ hold'[u] \in Conn => u = v
    BY <1>1, HoldDrops DEF Sorted, Waiting, Queued
  <1>3. Owned' = Owned \ {x}
    BY <1>1, OwnedAfter
  <1>4. Apart'
    BY <1>2, <1>3 DEF Sorted, Apart, Owned
  <1> QED
    BY <1>2, <1>4 DEF Sorted, Unique

LEMMA FromBacklog ==
  ASSUME Queues, Hands, Sets, Sorted, NEW t \in Thread, hold[t] = None, backlog # <<>>,
         backlog' = Tail(backlog), Hold(t, Head(backlog)), UNCHANGED <<state, jobs, parked,
             batch, idle>>
  PROVE  Sorted'
  <1>1. PICK x : x = Head(backlog)
    OBVIOUS
  <1>2. /\ Waiting' = Waiting \ {x} /\ x \in Item /\ (x \in Conn => x \in Waiting)
        /\ \A i, j \in DOMAIN backlog' : backlog'[i] = backlog'[j] /\ backlog'[i] \in Conn =>
               i = j
    BY <1>1, BacklogTail DEF Sorted
  <1>3. x \notin Held
    BY <1>2 DEF Sorted, Apart, Held
  <1>4. /\ Held' = Held \union ({x} \intersect Conn) /\ UNCHANGED <<Queued, Owned>>
        /\ \A u, v \in Thread : hold'[u] = hold'[v] /\ hold'[u] \in Conn => u = v
    BY <1>1, <1>2, <1>3, HoldTakes DEF Sorted, Queued, Owned
  <1>5. Apart'
    <2>1. CASE x \in Conn
      <3>1. Held' = Held \union {x}
        BY <1>4, <2>1
      <3> QED
        BY <1>2, <1>4, <2>1, <3>1 DEF Sorted, Apart
    <2>2. CASE x \notin Conn
      <3>1. Held' = Held /\ Waiting' = Waiting
        BY <1>2, <1>4, <2>2 DEF Waiting
      <3> QED
        BY <1>4, <3>1 DEF Sorted, Apart
    <2> QED
      BY <2>1, <2>2
  <1> QED
    BY <1>2, <1>4, <1>5 DEF Sorted, Unique

LEMMA FromJobs ==
  ASSUME Queues, Hands, Sets, Sorted, NEW t \in Thread, hold[t] = None, jobs # <<>>,
         jobs' = Tail(jobs), Hold(t, Head(jobs)), UNCHANGED <<state, backlog, parked, batch,
             idle>>
  PROVE  Sorted'
  <1>1. PICK x : x = Head(jobs)
    OBVIOUS
  <1>2. /\ Queued' = Queued \ {x} /\ x \in Item /\ (x \in Conn => x \in Queued)
        /\ \A i, j \in DOMAIN jobs' : jobs'[i] = jobs'[j] /\ jobs'[i] \in Conn => i = j
    BY <1>1, JobsTail DEF Sorted
  <1>3. x \notin Held
    BY <1>2 DEF Sorted, Apart, Held
  <1>4. /\ Held' = Held \union ({x} \intersect Conn) /\ UNCHANGED <<Waiting, Owned>>
        /\ \A u, v \in Thread : hold'[u] = hold'[v] /\ hold'[u] \in Conn => u = v
    BY <1>1, <1>2, <1>3, HoldTakes DEF Sorted, Waiting, Owned
  <1>5. Apart'
    <2>1. CASE x \in Conn
      <3>1. Held' = Held \union {x}
        BY <1>4, <2>1
      <3> QED
        BY <1>2, <1>4, <2>1, <3>1 DEF Sorted, Apart
    <2>2. CASE x \notin Conn
      <3>1. Held' = Held /\ Queued' = Queued
        BY <1>2, <1>4, <2>2 DEF Queued
      <3> QED
        BY <1>4, <3>1 DEF Sorted, Apart
    <2> QED
      BY <2>1, <2>2
  <1> QED
    BY <1>2, <1>4, <1>5 DEF Sorted, Unique

LEMMA Woken ==
  ASSUME Queues, Sorted, WakeAcceptor, UNCHANGED <<state, jobs, hold, parked, batch, idle>>
  PROVE  Sorted'
  <1>1. CASE UNCHANGED backlog
    BY <1>1, SortedKept DEF PlaceVars
  <1>2. CASE backlog' = Append(backlog, Wake)
    <2>1. Wake \in Item /\ Wake \notin Waiting
      BY Kinds DEF Item, Waiting
    <2>2. /\ Waiting' = Waiting \union ({Wake} \intersect Conn)
          /\ UNCHANGED <<Queued, Held>> /\ Unique'
      BY <1>2, <2>1, BacklogAppend DEF Sorted
    <2>3. UNCHANGED <<Waiting, Owned>>
      BY <2>2, Kinds DEF Waiting, Owned
    <2> QED
      BY <2>2, <2>3 DEF Sorted, Apart
  <1> QED
    BY <1>1, <1>2 DEF WakeAcceptor

LEMMA Arrived ==
  ASSUME Queues, Sets, Sorted, NEW c \in Conn, Connect(c)
  PROVE  Sorted'
  <1>1. /\ backlog' = Append(backlog, c) /\ state[c] = "new" /\
               state' = [state EXCEPT ![c] = "open"]
        /\ UNCHANGED <<jobs, hold, parked, batch, idle>>
    BY DEF Connect, queueVars, pollVars
  <1>2. Owned' = Owned \union {c} /\ c \notin Owned
    BY <1>1 DEF Owned, Sets
  <1>3. c \in Item /\ c \notin Waiting
    BY <1>2 DEF Item, Sorted, Apart
  <1>4. Waiting' = Waiting \union {c} /\ UNCHANGED <<Queued, Held>> /\ Unique'
    BY <1>1, <1>3, BacklogAppend DEF Sorted
  <1> QED
    BY <1>1, <1>2, <1>4 DEF Sorted, Apart

LEMMA Reset ==
  ASSUME Queues, Sets, Sorted, backlog' = <<>>, Shut(Range(backlog)),
         UNCHANGED <<jobs, hold, parked, batch, idle>>
  PROVE  Sorted'
  <1>1. Owned' = Owned \ Waiting
    BY OwnedAfter DEF Owned, Waiting
  <1>2. Waiting' = {} /\ UNCHANGED <<Queued, Held>> /\ Unique'
    BY DEF Waiting, Queued, Held, Unique, Sorted, Range
  <1> QED
    BY <1>1, <1>2 DEF Sorted, Apart

\* The poller and its pool move connections without a thread in between.
LEMMA Pooled ==
  ASSUME Sets, Sorted, UNCHANGED <<backlog, jobs, hold>>, NEW cs, Owned' = Owned \ cs,
         parked' \union batch' \union idle' = (parked \union batch \union idle) \ cs,
         cs \subseteq parked \union batch \union idle,
         parked' \intersect (batch' \union idle') = {}, batch' \intersect idle' = {}
  PROVE  Sorted'
  <1>1. UNCHANGED <<Waiting, Queued, Held>> /\ Unique'
    BY DEF Waiting, Queued, Held, Unique, Sorted
  <1> QED
    BY <1>1 DEF Sorted, Apart

LEMMA SortedStep ==
  ASSUME Stages, Helpers, Hands, Queues, Sets, Pool, Sorted, [Next]_vars
  PROVE  Sorted'
  <1>1. ASSUME NEW c \in Conn, Connect(c) PROVE Sorted'
    BY <1>1, Arrived
  <1>2. ASSUME NEW c \in Conn, Request(c) PROVE Sorted'
    BY <1>2, SortedKept DEF Request, PlaceVars, netVars, queueVars, pollVars
  <1>3. ASSUME NEW c \in Conn, HangUp(c) PROVE Sorted'
    BY <1>3, SortedKept DEF HangUp, PlaceVars, netVars, queueVars, pollVars
  <1>4. CASE AcceptorChecks
    BY <1>4, SortedKept DEF AcceptorChecks, PlaceVars, netVars, queueVars, pollVars
  <1>5. CASE AcceptorAccepts
    <2>1. hold[Acceptor] = None /\ UNCHANGED <<state, jobs, parked, batch, idle>>
      BY <1>5 DEF AcceptorAccepts, Hands, queueVars, pollVars
    <2> QED
      BY <1>5, <2>1, FromBacklog, Kinds DEF AcceptorAccepts
  <1>6. CASE AcceptorFails
    BY <1>6, SortedKept DEF AcceptorFails, PlaceVars, netVars, queueVars, pollVars
  <1>7. CASE AcceptorRechecks
    <2>1. CASE UNCHANGED <<state, hold>>
      BY <1>7, <2>1, SortedKept DEF AcceptorRechecks, PlaceVars, netVars, queueVars, pollVars
    <2>2. CASE Shut({hold[Acceptor]}) /\ Hold(Acceptor, None)
      BY <1>7, <2>2, ClosePlaces, Kinds DEF AcceptorRechecks, netVars, queueVars, pollVars
    <2> QED
      BY <1>7, <2>1, <2>2 DEF AcceptorRechecks, CloseConn
  <1>8. CASE AcceptorSends
    <2>1. hold[Acceptor] # None /\ SendJob(Acceptor, "check", "done") /\ UNCHANGED <<backlog,
              parked, batch, idle>>
      BY <1>8, Kinds DEF AcceptorSends, Hands, netVars, pollVars
    <2> QED
      BY <2>1, SendPlaces, Kinds
  <1>9. CASE PollerScans
    <2>1. batch = {} /\ idle = {} /\ parked' = {} /\ UNCHANGED <<idle, hold, backlog, jobs>>
      BY <1>9 DEF PollerScans, Pool, PollerUnchanged, netVars, queueVars
    <2>2. CASE Shut(parked) /\ UNCHANGED batch
      BY <2>1, <2>2, OwnedAfter, Pooled
    <2>3. CASE batch' = parked /\ UNCHANGED state
      <3>1. Owned' = Owned \ {}
        BY <2>3 DEF Owned
      <3> QED
        BY <2>1, <2>3, <3>1, Pooled
    <2> QED
      BY <1>9, <2>2, <2>3 DEF PollerScans
  <1>10. CASE PollerExamines
    <2>1. PICK c \in batch :
            /\ batch' = batch \ {c} /\ UNCHANGED <<parked, backlog, jobs>>
            /\ \/ Hold(Poller, c) /\ UNCHANGED <<state, idle>>
               \/ Shut({c}) /\ UNCHANGED <<idle, hold>>
               \/ idle' = idle \union {c} /\ UNCHANGED <<state, hold>>
      BY <1>10 DEF PollerExamines, PollerUnchanged, netVars, queueVars
    <2>2. c \in Conn /\ c \notin parked /\ c \notin idle /\ hold[Poller] = None
      BY <1>10, <2>1 DEF PollerExamines, Sets, Sorted, Apart, Hands
    <2>3. CASE Hold(Poller, c) /\ UNCHANGED <<state, idle>>
      <3>1. c \in Item /\ c \notin Held /\ Poller \in Thread
        BY <2>1, <2>2, Kinds DEF Item, Sorted, Apart
      <3>2. /\ Held' = Held \union ({c} \intersect Conn)
            /\ \A u, v \in Thread : hold'[u] = hold'[v] /\ hold'[u] \in Conn => u = v
        BY <2>2, <2>3, <3>1, HoldTakes DEF Sorted
      <3>3. Held' = Held \union {c} /\ UNCHANGED <<Waiting, Queued, Owned>>
        BY <2>1, <2>2, <2>3, <3>2 DEF Waiting, Queued, Owned
      <3>4. Apart'
        BY <2>1, <2>2, <2>3, <3>3 DEF Sorted, Apart
      <3> QED
        BY <2>1, <3>2, <3>4 DEF Sorted, Unique
    <2>4. CASE Shut({c}) /\ UNCHANGED <<idle, hold>>
      <3>1. Owned' = Owned \ {c}
        BY <2>4, OwnedAfter
      <3>2. /\ parked' \union batch' \union idle' = (parked \union batch \union idle) \ {c}
            /\ {c} \subseteq parked \union batch \union idle
            /\ parked' \intersect (batch' \union idle') = {} /\ batch' \intersect idle' = {}
        BY <2>1, <2>2, <2>4 DEF Sorted, Apart
      <3> QED
        BY <2>1, <2>4, <3>1, <3>2, Pooled
    <2>5. CASE idle' = idle \union {c} /\ UNCHANGED <<state, hold>>
      <3>1. Owned' = Owned \ {}
        BY <2>5 DEF Owned
      <3>2. /\ parked' \union batch' \union idle' = (parked \union batch \union idle) \ {}
            /\ parked' \intersect (batch' \union idle') = {} /\ batch' \intersect idle' = {}
        BY <2>1, <2>2, <2>5 DEF Sorted, Apart
      <3> QED
        BY <2>1, <2>5, <3>1, <3>2, Pooled
    <2> QED
      BY <2>1, <2>3, <2>4, <2>5
  <1>11. CASE PollerSends
    <2>1. hold[Poller] # None /\ SendJob(Poller, "examine", "examine") /\ UNCHANGED <<backlog,
              parked, batch, idle>>
      BY <1>11, Kinds DEF PollerSends, Hands, PollerUnchanged, netVars, pollVars
    <2> QED
      BY <2>1, SendPlaces, Kinds
  <1>12. CASE PollerPutsBack
    <2>1. batch = {} /\ idle' = {} /\ UNCHANGED <<batch, hold, backlog, jobs>>
      BY <1>12 DEF PollerPutsBack, PollerUnchanged, netVars, queueVars
    <2>2. CASE Shut(idle \union parked) /\ parked' = {}
      <3>1. Owned' = Owned \ (idle \union parked)
        BY <2>2, OwnedAfter
      <3> QED
        BY <2>1, <2>2, <3>1, Pooled
    <2>3. CASE parked' = parked \union idle /\ UNCHANGED state
      <3>1. Owned' = Owned \ {}
        BY <2>3 DEF Owned
      <3> QED
        BY <2>1, <2>3, <3>1, Pooled
    <2> QED
      BY <1>12, <2>2, <2>3 DEF PollerPutsBack
  <1>13. CASE MainEnds
    BY <1>13, SortedKept DEF MainEnds, PlaceVars, netVars, queueVars, pollVars
  <1>14. ASSUME NEW w \in Worker, Recv(w) PROVE Sorted'
    <2>1. CASE jobs # <<>> /\ Hold(w, Head(jobs)) /\ jobs' = Tail(jobs)
      <3>1. hold[w] = None /\ UNCHANGED <<state, backlog, parked, batch, idle>>
        BY <1>14 DEF Recv, Hands, netVars, pollVars
      <3> QED
        BY <2>1, <3>1, FromJobs, Kinds
    <2>2. CASE UNCHANGED <<jobs, hold>>
      BY <1>14, <2>2, SortedKept DEF Recv, PlaceVars, netVars, pollVars
    <2> QED
      BY <1>14, <2>1, <2>2 DEF Recv
  <1>15. ASSUME NEW w \in Worker, ReadRequest(w) PROVE Sorted'
    <2>1. CASE UNCHANGED <<state, hold>>
      BY <1>15, <2>1, SortedKept DEF ReadRequest, PlaceVars, netVars, queueVars, pollVars
    <2>2. CASE Shut({hold[w]}) /\ Hold(w, None)
      BY <1>15, <2>2, ClosePlaces, Kinds DEF ReadRequest, netVars, queueVars, pollVars
    <2> QED
      BY <1>15, <2>1, <2>2 DEF ReadRequest, CloseConn
  <1>16. ASSUME NEW w \in Worker, ReadEnds(w) PROVE Sorted'
    <2>1. Shut({hold[w]}) /\ Hold(w, None)
      BY <1>16 DEF ReadEnds, CloseConn
    <2> QED
      BY <1>16, <2>1, ClosePlaces, Kinds DEF ReadEnds, netVars, queueVars, pollVars
  <1>17. ASSUME NEW w \in Worker, HandlerReturns(w) PROVE Sorted'
    BY <1>17, SortedKept DEF HandlerReturns, PlaceVars, netVars, queueVars, pollVars
  <1>18. ASSUME NEW w \in Worker, Write(w) PROVE Sorted'
    <2>1. CASE UNCHANGED <<state, hold>>
      BY <1>18, <2>1, SortedKept DEF Write, PlaceVars, netVars, queueVars, pollVars
    <2>2. CASE Shut({hold[w]}) /\ Hold(w, None)
      BY <1>18, <2>2, ClosePlaces, Kinds DEF Write, netVars, queueVars, pollVars
    <2> QED
      BY <1>18, <2>1, <2>2 DEF Write, CloseConn
  <1>19. ASSUME NEW w \in Worker, Probe(w) PROVE Sorted'
    <2>1. CASE UNCHANGED <<state, hold>>
      BY <1>19, <2>1, SortedKept DEF Probe, PlaceVars, netVars, queueVars, pollVars
    <2>2. CASE Shut({hold[w]}) /\ Hold(w, None)
      BY <1>19, <2>2, ClosePlaces, Kinds DEF Probe, netVars, queueVars, pollVars
    <2> QED
      BY <1>19, <2>1, <2>2 DEF Probe, CloseConn
  <1>20. ASSUME NEW w \in Worker, Park(w) PROVE Sorted'
    <2>1. CASE Shut({hold[w]}) /\ Hold(w, None) /\ UNCHANGED parked
      BY <1>20, <2>1, ClosePlaces, Kinds DEF Park, netVars, queueVars
    <2>2. CASE parked' = parked \union {hold[w]} /\ Hold(w, None) /\ UNCHANGED state
      <3>1. PICK x \in Conn : x = hold[w]
        BY <1>20, Kinds DEF Park, Hands, Item
      <3>2. /\ Held' = Held \ {x} /\ x \in Held
            /\ UNCHANGED <<Waiting, Queued, Owned, batch, idle, backlog, jobs>>
            /\ \A u, v \in Thread : hold'[u] = hold'[v] /\ hold'[u] \in Conn => u = v
        BY <1>20, <2>2, <3>1, HoldDrops, Kinds DEF Park, Sorted, Waiting, Queued, Owned,
           netVars, queueVars
      <3>3. Apart'
        BY <2>2, <3>1, <3>2 DEF Sorted, Apart
      <3> QED
        BY <3>2, <3>3 DEF Sorted, Unique
    <2> QED
      BY <1>20, <2>1, <2>2 DEF Park, CloseConn
  <1>21. ASSUME NEW w \in Worker, HandlerStops(w) PROVE Sorted'
    BY <1>21, SortedKept DEF HandlerStops, PlaceVars, netVars, queueVars, pollVars
  <1>22. ASSUME NEW w \in Worker, HandlerWakes(w) PROVE Sorted'
    BY <1>22, Woken DEF HandlerWakes, queueVars, pollVars
  <1>23. ASSUME NEW w \in Worker, HandlerSpawns(w) PROVE Sorted'
    BY <1>23, SortedKept DEF HandlerSpawns, PlaceVars, netVars, queueVars, pollVars
  <1>24. ASSUME NEW w \in Worker, HandlerStores(w) PROVE Sorted'
    BY <1>24, SortedKept DEF HandlerStores, PlaceVars, netVars, queueVars, pollVars
  <1>25. ASSUME NEW w \in Worker, HandlerDelegates(w) PROVE Sorted'
    BY <1>25, SortedKept DEF HandlerDelegates, PlaceVars, netVars, queueVars, pollVars
  <1>26. ASSUME NEW w \in Worker, HandlerResumes(w) PROVE Sorted'
    BY <1>26, SortedKept DEF HandlerResumes, PlaceVars, netVars, queueVars, pollVars
  <1>27. ASSUME NEW s \in Stopper, StopCalled(s) PROVE Sorted'
    BY <1>27, SortedKept DEF StopCalled, PlaceVars, netVars, queueVars, pollVars
  <1>28. ASSUME NEW s \in Stopper, StopWakes(s) PROVE Sorted'
    BY <1>28, Woken DEF StopWakes, queueVars, pollVars
  <1>29. ASSUME NEW s \in Stopper, JoinAcceptor(s) PROVE Sorted'
    BY <1>29, SortedKept DEF JoinAcceptor, StopOnly, PlaceVars, netVars, queueVars, pollVars
  <1>30. ASSUME NEW s \in Stopper, Drain(s) PROVE Sorted'
    <2>1. CASE backlog # <<>> /\ Hold(s, Head(backlog)) /\ backlog' = Tail(backlog)
      <3>1. hold[s] = None /\ UNCHANGED <<state, jobs, parked, batch, idle>>
        BY <1>30 DEF Drain, Hands, queueVars, pollVars
      <3> QED
        BY <2>1, <3>1, FromBacklog, Kinds
    <2>2. CASE UNCHANGED <<hold, backlog>>
      BY <1>30, <2>2, SortedKept DEF Drain, PlaceVars, queueVars, pollVars
    <2> QED
      BY <1>30, <2>1, <2>2 DEF Drain
  <1>31. ASSUME NEW s \in Stopper, Offer(s) PROVE Sorted'
    <2>1. hold[s] # None /\ SendJob(s, "drain", "drain") /\ UNCHANGED <<backlog, parked, batch,
              idle>>
      BY <1>31, Kinds DEF Offer, Hands, netVars, pollVars
    <2> QED
      BY <2>1, SendPlaces, Kinds
  <1>32. ASSUME NEW s \in Stopper, StopPool(s) PROVE Sorted'
    BY <1>32, SortedKept DEF StopPool, StopOnly, PlaceVars, netVars, queueVars, pollVars
  <1>33. ASSUME NEW s \in Stopper, JoinPoller(s) PROVE Sorted'
    BY <1>33, SortedKept DEF JoinPoller, StopOnly, PlaceVars, netVars, queueVars, pollVars
  <1>34. ASSUME NEW s \in Stopper, CloseQueue(s) PROVE Sorted'
    BY <1>34, SortedKept DEF CloseQueue, StopOnly, PlaceVars, netVars, queueVars, pollVars
  <1>35. ASSUME NEW s \in Stopper, JoinWorkers(s) PROVE Sorted'
    BY <1>35, SortedKept DEF JoinWorkers, StopOnly, PlaceVars, netVars, queueVars, pollVars
  <1>36. ASSUME NEW s \in Stopper, CloseListener(s) PROVE Sorted'
    BY <1>36, Reset DEF CloseListener, queueVars, pollVars
  <1> USE Kinds, SortedKept
      DEF PlaceVars, clientVars, netVars, queueVars, pollVars, stopVars
  <1>37. CASE UNCHANGED vars
    BY <1>37 DEF vars
  <1> QED
    BY <1>1, <1>2, <1>3, <1>4, <1>5, <1>6, <1>7, <1>8, <1>9, <1>10, <1>11, <1>12, <1>13, <1>14,
       <1>15, <1>16, <1>17, <1>18, <1>19, <1>20, <1>21, <1>22, <1>23, <1>24, <1>25, <1>26,
       <1>27, <1>28, <1>29, <1>30, <1>31, <1>32, <1>33, <1>34, <1>35, <1>36, <1>37
    DEF Next, Client, AcceptorStep, PollerStep, Serve, WorkerStep, StopStep, FinishShutdown

LEMMA ServedStep ==
  ASSUME Stages, Helpers, Hands, Sets, Served, [Next]_vars
  PROVE  Served'
  <1>1. CASE AcceptorAccepts
    <2>1. /\ pc[Acceptor] = "accept" /\ Go(Acceptor, "recheck") /\ Hold(Acceptor, Head(backlog))
          /\ UNCHANGED <<parked, batch, idle, served>>
      BY <1>1, Kinds DEF AcceptorAccepts, clientVars, pollVars
    <2> QED
      BY <2>1, Kinds DEF Stages, Hands, Served, Go, Hold
  <1>2. CASE AcceptorSends
    <2>1. /\ \E p \in {"check", "done"} : Go(Acceptor, p) /\ Hold(Acceptor, None)
          /\ UNCHANGED <<parked, batch, idle, served>>
      BY <1>2, Kinds DEF AcceptorSends, SendJob, clientVars, pollVars
    <2> QED
      BY <2>1, Kinds DEF Stages, Hands, Served, Go, Hold
  <1>3. CASE PollerSends
    <2>1. /\ pc[Poller] = "send" /\ Go(Poller, "examine") /\ Hold(Poller, None)
          /\ UNCHANGED <<parked, batch, idle, served>>
      BY <1>3, Kinds DEF PollerSends, SendJob, PollerUnchanged, clientVars, pollVars
    <2> QED
      BY <2>1, Kinds DEF Stages, Hands, Served, Go, Hold
  <1>4. ASSUME NEW w \in Worker, Recv(w) PROVE Served'
    <2>1. /\ \/ Go(w, "read") /\ Hold(w, Head(jobs))
             \/ Go(w, "done") /\ UNCHANGED hold
          /\ UNCHANGED <<parked, batch, idle, served>>
      BY <1>4, Kinds DEF Recv, clientVars, pollVars
    <2> QED
      BY <2>1, Kinds DEF Stages, Hands, Served, Go, Hold
  <1>5. ASSUME NEW s \in Stopper, Drain(s) PROVE Served'
    <2>1. /\ \/ Go(s, "offer") /\ Hold(s, Head(backlog))
             \/ Go(s, "pool") /\ UNCHANGED hold
          /\ UNCHANGED <<parked, batch, idle, served>>
      BY <1>5, Kinds DEF Drain, StopOnly, clientVars, pollVars
    <2> QED
      BY <2>1, Kinds DEF Stages, Hands, Served, Go, Hold
  <1>6. ASSUME NEW s \in Stopper, Offer(s) PROVE Served'
    <2>1. /\ Go(s, "drain") /\ Hold(s, None)
          /\ UNCHANGED <<parked, batch, idle, served>>
      BY <1>6, Kinds DEF Offer, SendJob, StopOnly, clientVars, pollVars
    <2> QED
      BY <2>1, Kinds DEF Stages, Hands, Served, Go, Hold
  <1> USE Kinds
      DEF Stages, Helpers, Hands, Served, Go, Hold, Item, clientVars, pollVars
  <1>7. ASSUME NEW c \in Conn, Connect(c) PROVE Served'
    BY <1>7 DEF Connect
  <1>8. ASSUME NEW c \in Conn, Request(c) PROVE Served'
    BY <1>8 DEF Request
  <1>9. ASSUME NEW c \in Conn, HangUp(c) PROVE Served'
    BY <1>9 DEF HangUp
  <1>10. CASE AcceptorChecks
    BY <1>10 DEF AcceptorChecks
  <1>11. CASE AcceptorFails
    BY <1>11 DEF AcceptorFails
  <1>12. CASE AcceptorRechecks
    BY <1>12 DEF AcceptorRechecks
  <1>13. CASE PollerScans
    BY <1>13 DEF PollerScans, PollerUnchanged
  <1>14. CASE PollerExamines
    BY <1>14 DEF PollerExamines, PollerUnchanged
  <1>15. CASE PollerPutsBack
    BY <1>15 DEF PollerPutsBack, PollerUnchanged
  <1>16. CASE MainEnds
    BY <1>16 DEF MainEnds
  <1>17. ASSUME NEW w \in Worker, ReadRequest(w) PROVE Served'
    BY <1>17 DEF ReadRequest, CloseConn
  <1>18. ASSUME NEW w \in Worker, ReadEnds(w) PROVE Served'
    BY <1>18 DEF ReadEnds, CloseConn
  <1>19. ASSUME NEW w \in Worker, HandlerReturns(w) PROVE Served'
    BY <1>19 DEF HandlerReturns
  <1>20. ASSUME NEW w \in Worker, Write(w) PROVE Served'
    BY <1>20 DEF Write, CloseConn
  <1>21. ASSUME NEW w \in Worker, Probe(w) PROVE Served'
    BY <1>21 DEF Probe, CloseConn
  <1>22. ASSUME NEW w \in Worker, Park(w) PROVE Served'
    BY <1>22 DEF Park, CloseConn
  <1>23. ASSUME NEW w \in Worker, HandlerStops(w) PROVE Served'
    BY <1>23 DEF HandlerStops
  <1>24. ASSUME NEW w \in Worker, HandlerWakes(w) PROVE Served'
    BY <1>24 DEF HandlerWakes
  <1>25. ASSUME NEW w \in Worker, HandlerSpawns(w) PROVE Served'
    BY <1>25 DEF HandlerSpawns
  <1>26. ASSUME NEW w \in Worker, HandlerStores(w) PROVE Served'
    BY <1>26 DEF HandlerStores
  <1>27. ASSUME NEW w \in Worker, HandlerDelegates(w) PROVE Served'
    BY <1>27 DEF HandlerDelegates
  <1>28. ASSUME NEW w \in Worker, HandlerResumes(w) PROVE Served'
    BY <1>28 DEF HandlerResumes
  <1>29. ASSUME NEW s \in Stopper, StopCalled(s) PROVE Served'
    BY <1>29 DEF StopCalled, Finished
  <1>30. ASSUME NEW s \in Stopper, StopWakes(s) PROVE Served'
    BY <1>30 DEF StopWakes
  <1>31. ASSUME NEW s \in Stopper, JoinAcceptor(s) PROVE Served'
    BY <1>31 DEF JoinAcceptor, StopOnly
  <1>32. ASSUME NEW s \in Stopper, StopPool(s) PROVE Served'
    BY <1>32 DEF StopPool, StopOnly
  <1>33. ASSUME NEW s \in Stopper, JoinPoller(s) PROVE Served'
    BY <1>33 DEF JoinPoller, StopOnly
  <1>34. ASSUME NEW s \in Stopper, CloseQueue(s) PROVE Served'
    BY <1>34 DEF CloseQueue, StopOnly
  <1>35. ASSUME NEW s \in Stopper, JoinWorkers(s) PROVE Served'
    BY <1>35 DEF JoinWorkers, StopOnly
  <1>36. ASSUME NEW s \in Stopper, CloseListener(s) PROVE Served'
    BY <1>36 DEF CloseListener, Finished, StopOnly
  <1>37. CASE UNCHANGED vars
    BY <1>37 DEF vars
  <1> QED
    BY <1>1, <1>2, <1>3, <1>4, <1>5, <1>6, <1>7, <1>8, <1>9, <1>10, <1>11, <1>12, <1>13, <1>14,
       <1>15, <1>16, <1>17, <1>18, <1>19, <1>20, <1>21, <1>22, <1>23, <1>24, <1>25, <1>26,
       <1>27, <1>28, <1>29, <1>30, <1>31, <1>32, <1>33, <1>34, <1>35, <1>36, <1>37
    DEF Next, Client, AcceptorStep, PollerStep, Serve, WorkerStep, StopStep, FinishShutdown


LEMMA LateKept ==
  ASSUME Late, UNCHANGED <<listening, running, atStop, all>>, broke => broke',
         \A c \in Conn : state'[c] = "new" => state[c] = "new", Sets,
         Waiting' \intersect atStop \subseteq Waiting,
         listening \/ UNCHANGED backlog,
         \A s \in Stopper : /\ pc'[s] = "offer" => pc[s] = "offer"
                            /\ pc'[s] \in Past => pc[s] \in Past
  PROVE  Late'
  <1>1. \A c \in atStop' : state'[c] # "new"
    BY DEF Late, Sets
  <1>2. ~broke' => \A s \in Stopper : pc'[s] \in Past => Waiting' \intersect atStop' = {}
    BY DEF Late
  <1>3. \A s \in Stopper : pc'[s] = "offer" => all'[s]
    BY DEF Late
  <1>4. ~listening' => backlog' = <<>>
    BY DEF Late
  <1> QED
    BY <1>1, <1>2, <1>3, <1>4 DEF Late

LEMMA LateTaken ==
  ASSUME Stages, Stops, Sets, Chain, Progress, Late, NEW s \in Stopper, TakeHandles(s),
         NEW p \in {"wake", "reserved"}, pc'[s] = p, \A t \in Stopper \ {s} : pc'[t] = pc[t],
         UNCHANGED <<state, backlog, listening, broke>>
  PROVE  Late'
  <1>1. ~running' /\ UNCHANGED Waiting
    BY DEF TakeHandles, Waiting
  <1>2. \A c \in atStop' : state'[c] # "new"
    BY DEF TakeHandles, Late, Owned
  <1>3. \A t \in Stopper : pc'[t] = "offer" => all'[t]
    BY DEF TakeHandles, Late, Stops
  <1>4. \A t \in Stopper : pc'[t] \in Past => pc[t] \in Past /\ ~running
    BY DEF Chain, Progress, Past, After
  <1>5. \A t \in Stopper : pc'[t] \in Past => UNCHANGED atStop
    BY <1>4 DEF TakeHandles
  <1> QED
    BY <1>1, <1>2, <1>3, <1>4, <1>5 DEF Late

LEMMA DrainMoves ==
  ASSUME Sets, Late, UNCHANGED <<state, running, listening, atStop, all>>, broke => broke',
         NEW s \in Stopper, NEW p, pc'[s] = p, \A u \in Stopper \ {s} : pc'[u] = pc[u],
         p = "offer" => all[s], p \in Past => broke' \/ Waiting = {},
         Waiting' \subseteq Waiting, listening \/ UNCHANGED backlog
  PROVE  Late'
  <1>1. \A c \in atStop' : state'[c] # "new"
    BY DEF Late, Sets
  <1>2. ~broke' => \A u \in Stopper : pc'[u] \in Past => Waiting' \intersect atStop' = {}
    BY DEF Late
  <1>3. \A u \in Stopper : pc'[u] = "offer" => all'[u]
    BY DEF Late
  <1>4. ~listening' => backlog' = <<>>
    BY DEF Late
  <1> QED
    BY <1>1, <1>2, <1>3, <1>4 DEF Late

LEMMA LateStep ==
  ASSUME Stages, Helpers, Hands, Queues, Sets, Flags, Chain, Progress, Stops, Sorted, Late,
         [Next]_vars
  PROVE  Late'
  <1>1. CASE Business
    <2>1. \A d \in Conn : state'[d] = "new" => state[d] = "new"
      <3> USE DEF Shut, Sets
      <3>1. CASE Client
        BY <3>1 DEF Client, Connect, Request, HangUp
      <3>2. CASE AcceptorStep
        BY <3>2
        DEF AcceptorStep, AcceptorChecks, AcceptorAccepts, AcceptorFails, AcceptorRechecks,
            AcceptorSends,
            SendJob
      <3>3. CASE PollerStep
        BY <3>3
        DEF PollerStep, PollerScans, PollerExamines, PollerSends, PollerPutsBack, SendJob
      <3>4. ASSUME NEW w \in Worker, Serve(w), NEW d \in Conn,
                       state'[d] = "new" PROVE state[d] = "new"
        BY <3>4
        DEF Serve, Recv, ReadRequest, ReadEnds, HandlerReturns, Write, Probe, Park, CloseConn
      <3> QED
        BY <1>1, <3>1, <3>2, <3>3, <3>4 DEF Business
    <2>2. /\ Waiting' \intersect atStop \subseteq Waiting
          /\ listening \/ UNCHANGED backlog
      <3>1. CASE AcceptorAccepts
        BY <3>1, BacklogTail DEF AcceptorAccepts, Sorted, Late
      <3>2. ASSUME NEW c \in Conn, Connect(c)
            PROVE  listening /\ Waiting' \intersect atStop \subseteq Waiting
        <4>1. c \notin atStop /\ c \notin Waiting /\ listening
          BY <3>2 DEF Connect, Late, Sorted, Apart, Owned
        <4>2. UNCHANGED <<jobs, hold>> /\ backlog' = Append(backlog, c)
          BY <3>2 DEF Connect, queueVars
        <4>3. Waiting' = Waiting \union ({c} \intersect Conn)
          BY <4>1, <4>2, BacklogAppend DEF Sorted, Item
        <4> QED
          BY <4>1, <4>3
      <3>3. CASE UNCHANGED backlog
        BY <3>3 DEF Waiting
      <3>4. AcceptorAccepts \/ (\E c \in Conn : Connect(c)) \/ UNCHANGED backlog
        <4>1. CASE Client
          BY <4>1 DEF Client, Request, HangUp, netVars
        <4>2. CASE AcceptorStep
          BY <4>2 DEF AcceptorStep, AcceptorChecks, AcceptorFails, AcceptorRechecks,
             AcceptorSends, netVars
        <4>3. CASE PollerStep
          BY <4>3
          DEF PollerStep, PollerScans, PollerExamines, PollerSends, PollerPutsBack,
              PollerUnchanged, netVars
        <4>4. ASSUME NEW w \in Worker, Serve(w) PROVE UNCHANGED backlog
          BY <4>4
          DEF Serve, Recv, ReadRequest, ReadEnds, HandlerReturns, Write, Probe, Park, netVars
        <4> QED
          BY <1>1, <4>1, <4>2, <4>3, <4>4 DEF Business
      <3> QED
        BY <3>1, <3>2, <3>3, <3>4
    <2> QED
      BY <1>1, <2>1, <2>2, BusinessAside, LateKept DEF Aside, stopVars
  <1>2. ASSUME NEW w \in Worker,
              HandlerSpawns(w) \/ HandlerStores(w)
                \/ HandlerDelegates(w) \/ HandlerResumes(w)
        PROVE Late'
    <2>1. \A d \in Conn : state'[d] = "new" => state[d] = "new"
      BY <1>2
      DEF HandlerSpawns, HandlerStores, HandlerDelegates, HandlerResumes, Shut, Sets
    <2>2. UNCHANGED <<Waiting, backlog, listening, running, atStop, all, broke>>
      BY <1>2
      DEF HandlerSpawns, HandlerStores, HandlerDelegates, HandlerResumes, Waiting, netVars,
          stopVars
    <2>3. \A u \in Stopper : /\ pc'[u] = "offer" => pc[u] = "offer"
                             /\ pc'[u] \in Past => pc[u] \in Past
      BY <1>2, Kinds
      DEF HandlerSpawns, HandlerStores, HandlerDelegates, HandlerResumes, Stages, Helpers, Go,
          Past
    <2> QED
      BY <2>1, <2>2, <2>3, LateKept
  <1>3. ASSUME NEW s \in Stopper,
              JoinAcceptor(s) \/ Offer(s) \/ StopPool(s)
                \/ JoinPoller(s) \/ CloseQueue(s) \/ JoinWorkers(s)
        PROVE Late'
    <2>1. \A d \in Conn : state'[d] = "new" => state[d] = "new"
      BY <1>3
      DEF JoinAcceptor, Offer, StopPool, JoinPoller, CloseQueue, JoinWorkers, SendJob, Shut,
          Sets
    <2>2. UNCHANGED <<Waiting, backlog, listening, running, atStop, all, broke>>
      BY <1>3
      DEF JoinAcceptor, Offer, StopPool, JoinPoller, CloseQueue, JoinWorkers, StopOnly,
          Waiting, netVars, stopVars
    <2>3. \A u \in Stopper : /\ pc'[u] = "offer" => pc[u] = "offer"
                             /\ pc'[u] \in Past => pc[u] \in Past
      BY <1>3, Kinds
      DEF JoinAcceptor, Offer, StopPool, JoinPoller, CloseQueue, JoinWorkers, SendJob, Stages,
          Helpers, Go, Past
    <2> QED
      BY <2>1, <2>2, <2>3, LateKept
  <1>4. CASE MainEnds
    <2>1. \A d \in Conn : state'[d] = "new" => state[d] = "new"
      BY <1>4 DEF MainEnds, Shut, Sets
    <2>2. UNCHANGED <<Waiting, backlog, listening, running, atStop, all, broke>>
      BY <1>4 DEF MainEnds, Waiting, netVars, stopVars
    <2>3. \A u \in Stopper : /\ pc'[u] = "offer" => pc[u] = "offer"
                             /\ pc'[u] \in Past => pc[u] \in Past
      BY <1>4, Kinds DEF MainEnds, Stages, Helpers, Go, Past
    <2> QED
      BY <2>1, <2>2, <2>3, LateKept
  <1>5. ASSUME NEW w \in Worker, HandlerStops(w) PROVE Late'
    <2>1. UNCHANGED <<state, backlog, listening, broke>>
      BY <1>5 DEF HandlerStops, netVars
    <2>2. PICK f \in Spare : /\ TakeHandles(f)
                             /\ pc' = [pc EXCEPT ![w] = "wake", ![f] = "reserved"]
      BY <1>5 DEF HandlerStops
    <2>3. /\ pc'[f] = "reserved" /\ f \in Stopper
          /\ \A u \in Stopper \ {f} : pc'[u] = pc[u]
      BY <2>2, Kinds DEF Stages
    <2> QED
      BY <2>1, <2>2, <2>3, LateTaken
  <1>6. ASSUME NEW w \in Worker, HandlerWakes(w) PROVE Late'
    <2>1. /\ UNCHANGED <<state, jobs, hold, listening, running, atStop, all, broke>>
          /\ UNCHANGED backlog \/ (listening /\ backlog' = Append(backlog, Wake))
      BY <1>6 DEF HandlerWakes, WakeAcceptor, queueVars, stopVars
    <2>2. UNCHANGED Waiting
      BY <2>1, BacklogAppend, Kinds DEF Sorted, Item, Waiting
    <2>3. \A u \in Stopper : /\ pc'[u] = "offer" => pc[u] = "offer"
                             /\ pc'[u] \in Past => pc[u] \in Past
      BY <1>6, Kinds DEF HandlerWakes, Stages, Go, Past
    <2> QED
      BY <2>1, <2>2, <2>3, LateKept
  <1>7. ASSUME NEW s \in Stopper, StopCalled(s) PROVE Late'
    <2>1. UNCHANGED <<state, backlog, listening, broke>>
      BY <1>7 DEF StopCalled, netVars
    <2>2. CASE TakeHandles(s) /\ Go(s, "wake")
      <3>1. pc'[s] = "wake" /\ \A u \in Stopper \ {s} : pc'[u] = pc[u]
        BY <2>2, Kinds DEF Stages, Go
      <3> QED
        BY <2>1, <2>2, <3>1, LateTaken
    <2>3. CASE Finished(s) /\ UNCHANGED <<running, all, atStop>>
      <3>1. \A u \in Stopper : /\ pc'[u] = "offer" => pc[u] = "offer"
                               /\ pc'[u] \in Past => pc[u] \in Past
        BY <2>3, Kinds DEF Finished, Stages, Go, Past
      <3> QED
        BY <2>1, <2>3, <3>1, LateKept DEF Waiting
    <2> QED
      BY <1>7, <2>2, <2>3 DEF StopCalled
  <1>8. ASSUME NEW s \in Stopper, StopWakes(s) PROVE Late'
    <2>1. /\ UNCHANGED <<state, jobs, hold, listening, running, atStop, all, broke>>
          /\ UNCHANGED backlog \/ (listening /\ backlog' = Append(backlog, Wake))
      BY <1>8 DEF StopWakes, WakeAcceptor, queueVars, stopVars
    <2>2. UNCHANGED Waiting
      BY <2>1, BacklogAppend, Kinds DEF Sorted, Item, Waiting
    <2>3. \A u \in Stopper : /\ pc'[u] = "offer" => pc[u] = "offer"
                             /\ pc'[u] \in Past => pc[u] \in Past
      BY <1>8, Kinds DEF StopWakes, Stages, Go, Past
    <2> QED
      BY <2>1, <2>2, <2>3, LateKept
  <1>9. ASSUME NEW s \in Stopper, Drain(s) PROVE Late'
    <2>1. /\ UNCHANGED <<state, listening, running, atStop, all>>
          /\ broke => broke'
          /\ pc[s] = "drain"
      BY <1>9 DEF Drain, StopOnly, stopVars
    <2>2. CASE listening /\ backlog # <<>> /\ backlog' = Tail(backlog) /\ Go(s, "offer")
      <3>1. all[s]
        BY <2>1, <2>2, Turn DEF After
      <3>2. /\ pc'[s] = "offer" /\ \A u \in Stopper \ {s} : pc'[u] = pc[u]
        BY <2>2, Kinds DEF Stages, Go
      <3>3. Waiting' \subseteq Waiting
        BY <2>2, BacklogTail DEF Sorted
      <3> QED
        BY <2>1, <2>2, <3>1, <3>2, <3>3, DrainMoves DEF Past
    <2>3. CASE Go(s, "pool") /\ UNCHANGED backlog /\ (backlog = <<>> \/ broke')
      <3>1. /\ pc'[s] = "pool" /\ \A u \in Stopper \ {s} : pc'[u] = pc[u]
        BY <2>3, Kinds DEF Stages, Go
      <3>2. UNCHANGED Waiting /\ (Waiting = {} \/ broke')
        BY <2>3 DEF Waiting, Range
      <3> QED
        BY <2>1, <2>3, <3>1, <3>2, DrainMoves DEF Late
    <2> QED
      BY <1>9, <2>2, <2>3 DEF Drain, Late
  <1>10. ASSUME NEW s \in Stopper, CloseListener(s) PROVE Late'
    <2>1. /\ UNCHANGED <<running, atStop, all, broke>> /\ backlog' = <<>> /\ ~listening'
          /\ Shut(Range(backlog))
      BY <1>10 DEF CloseListener, StopOnly, stopVars
    <2>2. \A u \in Stopper : /\ pc'[u] = "offer" => pc[u] = "offer"
                             /\ pc'[u] \in Past => pc[u] \in Past
      BY <1>10, Kinds DEF CloseListener, Finished, Stages, Go, Past
    <2>3. \A c \in Conn : state'[c] = "new" => state[c] = "new"
      BY <2>1 DEF Shut, Sets
    <2>4. Waiting' = {}
      BY <2>1 DEF Waiting, Range
    <2> QED
      BY <2>1, <2>2, <2>3, <2>4 DEF Late, Sets
  <1> USE Kinds, LateKept
      DEF Waiting, netVars, stopVars
  <1>11. CASE UNCHANGED vars
    BY <1>11 DEF vars
  <1> QED
    BY <1>1, <1>2, <1>3, <1>4, <1>5, <1>6, <1>7, <1>8, <1>9, <1>10, <1>11
    DEF Next, Business, WorkerStep, StopStep, FinishShutdown

LEMMA BrokeStays ==
  ASSUME Stages, [Next]_vars
  PROVE  broke => broke'
  <1>1. CASE Business
    BY <1>1, BusinessAside DEF Aside
  <1> USE Kinds
      DEF netVars
  <1>2. CASE MainEnds
    BY <1>2 DEF MainEnds
  <1>3. ASSUME NEW w \in Worker, HandlerStops(w) PROVE broke => broke'
    BY <1>3 DEF HandlerStops
  <1>4. ASSUME NEW w \in Worker, HandlerWakes(w) PROVE broke => broke'
    BY <1>4 DEF HandlerWakes
  <1>5. ASSUME NEW w \in Worker, HandlerSpawns(w) PROVE broke => broke'
    BY <1>5 DEF HandlerSpawns
  <1>6. ASSUME NEW w \in Worker, HandlerStores(w) PROVE broke => broke'
    BY <1>6 DEF HandlerStores
  <1>7. ASSUME NEW w \in Worker, HandlerDelegates(w) PROVE broke => broke'
    BY <1>7 DEF HandlerDelegates
  <1>8. ASSUME NEW w \in Worker, HandlerResumes(w) PROVE broke => broke'
    BY <1>8 DEF HandlerResumes
  <1>9. ASSUME NEW s \in Stopper, StopCalled(s) PROVE broke => broke'
    BY <1>9 DEF StopCalled
  <1>10. ASSUME NEW s \in Stopper, StopWakes(s) PROVE broke => broke'
    BY <1>10 DEF StopWakes
  <1>11. ASSUME NEW s \in Stopper, JoinAcceptor(s) PROVE broke => broke'
    BY <1>11 DEF JoinAcceptor
  <1>12. ASSUME NEW s \in Stopper, Drain(s) PROVE broke => broke'
    BY <1>12 DEF Drain
  <1>13. ASSUME NEW s \in Stopper, Offer(s) PROVE broke => broke'
    BY <1>13 DEF Offer
  <1>14. ASSUME NEW s \in Stopper, StopPool(s) PROVE broke => broke'
    BY <1>14 DEF StopPool
  <1>15. ASSUME NEW s \in Stopper, JoinPoller(s) PROVE broke => broke'
    BY <1>15 DEF JoinPoller
  <1>16. ASSUME NEW s \in Stopper, CloseQueue(s) PROVE broke => broke'
    BY <1>16 DEF CloseQueue
  <1>17. ASSUME NEW s \in Stopper, JoinWorkers(s) PROVE broke => broke'
    BY <1>17 DEF JoinWorkers
  <1>18. ASSUME NEW s \in Stopper, CloseListener(s) PROVE broke => broke'
    BY <1>18 DEF CloseListener
  <1>19. CASE UNCHANGED vars
    BY <1>19 DEF vars
  <1> QED
    BY <1>1, <1>2, <1>3, <1>4, <1>5, <1>6, <1>7, <1>8, <1>9, <1>10, <1>11, <1>12, <1>13, <1>14,
       <1>15, <1>16, <1>17, <1>18, <1>19
    DEF Next, Business, WorkerStep, StopStep, FinishShutdown


LEMMA NoneMore ==
  ASSUME Sets, UNCHANGED atStop, served \subseteq served',
         \A c \in Conn : state'[c] = "closed" => state[c] = "closed",
         \A c \in Conn : pending'[c] > 0 => pending[c] > 0 \/ state[c] = "open"
  PROVE  Fewer
  BY DEF Sets, Unserved, Fewer

LEMMA ShutServed ==
  ASSUME Sets, NEW cs, Shut(cs), UNCHANGED atStop, served \subseteq served',
         \A c \in Conn : pending'[c] > 0 => pending[c] > 0,
         \A c \in cs \intersect atStop : c \in served' \/ ~(pending'[c] > 0)
  PROVE  Fewer
  <1>1. \A c \in Conn : state'[c] = "closed" => state[c] = "closed" \/ c \in cs
    BY DEF Shut, Sets
  <1> QED
    BY <1>1 DEF Sets, Unserved, Fewer

LEMMA StopAsked ==
  ASSUME Sets, Late, NEW s \in Stopper, TakeHandles(s), UNCHANGED <<state, pending, served>>
  PROVE  Fewer
  <1>1. CASE running
    <2>1. atStop' = Owned
      BY <1>1 DEF TakeHandles
    <2> QED
      BY <2>1 DEF Owned, Unserved, Fewer
  <1>2. CASE ~running
    BY <1>2 DEF TakeHandles, Unserved, Fewer
  <1> QED
    BY <1>1, <1>2

LEMMA FewerStep ==
  ASSUME Stages, Helpers, Hands, Queues, Sets, Flags, Chain, Progress, Stops, Sorted,
         Served, Late, [Next]_vars
  PROVE  Fewer
  <1>1. CASE AcceptorRechecks
    <2>1. CASE UNCHANGED state
      BY <1>1, <2>1, NoneMore DEF AcceptorRechecks, clientVars, stopVars
    <2>2. CASE Shut({hold[Acceptor]}) /\ Go(Acceptor, "done")
      <3>1. \A c \in Conn : state'[c] = "closed" => state[c] = "closed" \/ c = hold[Acceptor]
        BY <2>2 DEF Shut, Sets
      <3>2. pc[Acceptor] = "recheck" /\ pc'[Acceptor] = "done" /\ UNCHANGED <<atStop, pending,
                served>>
        BY <1>1, <2>2, Kinds DEF AcceptorRechecks, Stages, Go, clientVars, stopVars
      <3> QED
        BY <3>1, <3>2 DEF Fewer, Unserved, Sets
    <2> QED
      BY <1>1, <2>1, <2>2 DEF AcceptorRechecks
  <1>2. CASE AcceptorSends
    <2>1. ~closed
      BY <1>2, Kinds DEF AcceptorSends, Progress, Stages
    <2>2. UNCHANGED state
      BY <1>2, <2>1 DEF AcceptorSends, SendJob
    <2> QED
      BY <1>2, <2>2, NoneMore DEF AcceptorSends, clientVars, stopVars
  <1>3. CASE PollerScans
    <2>1. CASE UNCHANGED state
      BY <1>3, <2>1, NoneMore DEF PollerScans, PollerUnchanged, clientVars, stopVars
    <2>2. CASE Shut(parked)
      BY <1>3, <2>2, ShutServed DEF PollerScans, PollerUnchanged, Served, clientVars, stopVars
    <2> QED
      BY <1>3, <2>1, <2>2 DEF PollerScans
  <1>4. CASE PollerExamines
    <2>1. PICK c \in batch : UNCHANGED state \/ Shut({c})
      BY <1>4 DEF PollerExamines
    <2>2. c \in served /\ UNCHANGED <<atStop, pending, served>>
      BY <1>4, <2>1 DEF PollerExamines, PollerUnchanged, Served, clientVars, stopVars
    <2>3. CASE UNCHANGED state
      BY <2>2, <2>3, NoneMore
    <2>4. CASE Shut({c})
      BY <2>2, <2>4, ShutServed
    <2> QED
      BY <2>1, <2>3, <2>4
  <1>5. CASE PollerSends
    <2>1. ~closed
      BY <1>5, Kinds DEF PollerSends, Progress, Stages
    <2>2. UNCHANGED state
      BY <1>5, <2>1 DEF PollerSends, SendJob
    <2> QED
      BY <1>5, <2>2, NoneMore DEF PollerSends, PollerUnchanged, clientVars, stopVars
  <1>6. CASE PollerPutsBack
    <2>1. CASE UNCHANGED state
      BY <1>6, <2>1, NoneMore DEF PollerPutsBack, PollerUnchanged, clientVars, stopVars
    <2>2. CASE Shut(idle \union parked)
      BY <1>6, <2>2, ShutServed DEF PollerPutsBack, PollerUnchanged, Served, clientVars,
         stopVars
    <2> QED
      BY <1>6, <2>1, <2>2 DEF PollerPutsBack
  <1>7. ASSUME NEW w \in Worker, ReadRequest(w) PROVE Fewer
    <2>1. /\ \A c \in Conn : pending'[c] > 0 => pending[c] > 0
          /\ hold[w] \in served' /\ served \subseteq served' /\ UNCHANGED atStop
      BY <1>7 DEF ReadRequest, Sets, stopVars
    <2>2. CASE UNCHANGED state
      BY <2>1, <2>2, NoneMore
    <2>3. CASE Shut({hold[w]})
      BY <2>1, <2>3, ShutServed
    <2> QED
      BY <1>7, <2>2, <2>3 DEF ReadRequest, CloseConn
  <1>8. ASSUME NEW w \in Worker, ReadEnds(w) PROVE Fewer
    <2>1. /\ UNCHANGED <<atStop, pending, served>>
          /\ Shut({hold[w]}) /\ (hold[w] \in atStop => ~(pending'[hold[w]] > 0))
      BY <1>8 DEF ReadEnds, CloseConn, Sets, stopVars, clientVars
    <2> QED
      BY <2>1, ShutServed
  <1>9. ASSUME NEW w \in Worker, Write(w) PROVE Fewer
    <2>1. CASE UNCHANGED state
      BY <1>9, <2>1, NoneMore DEF Write, clientVars, netVars, queueVars, pollVars, stopVars
    <2>2. CASE Shut({hold[w]})
      <3>1. hold[w] \in served
        BY <1>9, Kinds DEF Write, Served, Stages, Hands
      <3> QED
        BY <1>9, <2>2, <3>1, ShutServed DEF Write, clientVars, stopVars
    <2> QED
      BY <1>9, <2>1, <2>2 DEF Write, CloseConn
  <1>10. ASSUME NEW w \in Worker, Probe(w) PROVE Fewer
    <2>1. CASE UNCHANGED state
      BY <1>10, <2>1, NoneMore DEF Probe, clientVars, netVars, queueVars, pollVars, stopVars
    <2>2. CASE Shut({hold[w]})
      <3>1. hold[w] \in served
        BY <1>10, Kinds DEF Probe, Served, Stages, Hands
      <3> QED
        BY <1>10, <2>2, <3>1, ShutServed DEF Probe, clientVars, stopVars
    <2> QED
      BY <1>10, <2>1, <2>2 DEF Probe, CloseConn
  <1>11. ASSUME NEW w \in Worker, Park(w) PROVE Fewer
    <2>1. CASE UNCHANGED state
      BY <1>11, <2>1, NoneMore DEF Park, clientVars, netVars, queueVars, pollVars, stopVars
    <2>2. CASE Shut({hold[w]})
      <3>1. hold[w] \in served
        BY <1>11, Kinds DEF Park, Served, Stages, Hands
      <3> QED
        BY <1>11, <2>2, <3>1, ShutServed DEF Park, clientVars, stopVars
    <2> QED
      BY <1>11, <2>1, <2>2 DEF Park, CloseConn
  <1>12. ASSUME NEW w \in Worker, HandlerStops(w) PROVE Fewer
    <2>1. PICK f \in Spare : TakeHandles(f)
      BY <1>12 DEF HandlerStops
    <2> QED
      BY <1>12, <2>1, StopAsked, Kinds DEF HandlerStops, clientVars
  <1>13. ASSUME NEW s \in Stopper, StopCalled(s) PROVE Fewer
    <2>1. UNCHANGED <<state, pending, served>>
      BY <1>13 DEF StopCalled, clientVars
    <2>2. CASE TakeHandles(s)
      BY <2>1, <2>2, StopAsked
    <2>3. CASE UNCHANGED atStop
      BY <2>1, <2>3, NoneMore
    <2> QED
      BY <1>13, <2>2, <2>3 DEF StopCalled
  <1>14. ASSUME NEW s \in Stopper, Offer(s) PROVE Fewer
    <2>1. ~closed
      BY <1>14, Kinds DEF Offer, Progress, Late, Taking
    <2>2. UNCHANGED state
      BY <1>14, <2>1 DEF Offer, SendJob
    <2> QED
      BY <1>14, <2>2, NoneMore DEF Offer, StopOnly, clientVars, stopVars
  <1>15. ASSUME NEW s \in Stopper, CloseListener(s) PROVE Fewer
    <2>1. /\ Shut(Range(backlog)) /\ UNCHANGED <<atStop, pending, served, broke>>
          /\ pc[s] \in Past
      BY <1>15 DEF CloseListener, StopOnly, Past, clientVars, stopVars
    <2>2. CASE broke
      BY <2>1, <2>2 DEF Fewer
    <2>3. CASE ~broke
      <3>1. Range(backlog) \intersect atStop = {}
        BY <2>1, <2>3 DEF Late, Waiting, Sets
      <3> QED
        BY <2>1, <3>1, ShutServed
    <2> QED
      BY <2>2, <2>3
  <1> USE Kinds, NoneMore
      DEF clientVars, stopVars
  <1>16. ASSUME NEW c \in Conn, Connect(c) PROVE Fewer
    BY <1>16 DEF Connect
  <1>17. ASSUME NEW c \in Conn, Request(c) PROVE Fewer
    BY <1>17 DEF Request
  <1>18. ASSUME NEW c \in Conn, HangUp(c) PROVE Fewer
    BY <1>18 DEF HangUp
  <1>19. CASE AcceptorChecks
    BY <1>19 DEF AcceptorChecks
  <1>20. CASE AcceptorAccepts
    BY <1>20 DEF AcceptorAccepts
  <1>21. CASE AcceptorFails
    BY <1>21 DEF AcceptorFails
  <1>22. CASE MainEnds
    BY <1>22 DEF MainEnds
  <1>23. ASSUME NEW w \in Worker, Recv(w) PROVE Fewer
    BY <1>23 DEF Recv
  <1>24. ASSUME NEW w \in Worker, HandlerReturns(w) PROVE Fewer
    BY <1>24 DEF HandlerReturns
  <1>25. ASSUME NEW w \in Worker, HandlerWakes(w) PROVE Fewer
    BY <1>25 DEF HandlerWakes
  <1>26. ASSUME NEW w \in Worker, HandlerSpawns(w) PROVE Fewer
    BY <1>26 DEF HandlerSpawns
  <1>27. ASSUME NEW w \in Worker, HandlerStores(w) PROVE Fewer
    BY <1>27 DEF HandlerStores
  <1>28. ASSUME NEW w \in Worker, HandlerDelegates(w) PROVE Fewer
    BY <1>28 DEF HandlerDelegates
  <1>29. ASSUME NEW w \in Worker, HandlerResumes(w) PROVE Fewer
    BY <1>29 DEF HandlerResumes
  <1>30. ASSUME NEW s \in Stopper, StopWakes(s) PROVE Fewer
    BY <1>30 DEF StopWakes
  <1>31. ASSUME NEW s \in Stopper, JoinAcceptor(s) PROVE Fewer
    BY <1>31 DEF JoinAcceptor, StopOnly
  <1>32. ASSUME NEW s \in Stopper, Drain(s) PROVE Fewer
    BY <1>32 DEF Drain, StopOnly
  <1>33. ASSUME NEW s \in Stopper, StopPool(s) PROVE Fewer
    BY <1>33 DEF StopPool, StopOnly
  <1>34. ASSUME NEW s \in Stopper, JoinPoller(s) PROVE Fewer
    BY <1>34 DEF JoinPoller, StopOnly
  <1>35. ASSUME NEW s \in Stopper, CloseQueue(s) PROVE Fewer
    BY <1>35 DEF CloseQueue, StopOnly
  <1>36. ASSUME NEW s \in Stopper, JoinWorkers(s) PROVE Fewer
    BY <1>36 DEF JoinWorkers, StopOnly
  <1>37. CASE UNCHANGED vars
    BY <1>37 DEF vars
  <1> QED
    BY <1>1, <1>2, <1>3, <1>4, <1>5, <1>6, <1>7, <1>8, <1>9, <1>10, <1>11, <1>12, <1>13, <1>14,
       <1>15, <1>16, <1>17, <1>18, <1>19, <1>20, <1>21, <1>22, <1>23, <1>24, <1>25, <1>26,
       <1>27, <1>28, <1>29, <1>30, <1>31, <1>32, <1>33, <1>34, <1>35, <1>36, <1>37
    DEF Next, Client, AcceptorStep, PollerStep, Serve, WorkerStep, StopStep, FinishShutdown

LEMMA AtMostOneStep ==
  ASSUME Stages, Helpers, Hands, Queues, Sets, Flags, Chain, Progress, Stops, Sorted, Served,
         Late,
         AtMostOne, [Next]_vars
  PROVE  AtMostOne'
  <1>1. Fewer /\ (broke => broke') /\ (pc[Acceptor] = "done" => pc'[Acceptor] = "done")
    BY FewerStep, BrokeStays, DoneIsFinal, Kinds DEF DoneStays
  <1> QED
    BY <1>1 DEF Fewer, AtMostOne

HttpInv ==
    /\ Stages /\ Helpers /\ Stops /\ Hands /\ Queues /\ Sets /\ Flags
    /\ Chain /\ Progress /\ Attended /\ Pool /\ Drained
    /\ Sorted /\ Served /\ Late /\ AtMostOne

LEMMA InitInv == Init => HttpInv
  <1> SUFFICES ASSUME Init PROVE HttpInv
    OBVIOUS
  <1>1. /\ state = [c \in Conn |-> "new"] /\ pending = [c \in Conn |-> 0]
        /\ hungup = {} /\ served = {} /\ backlog = <<>> /\ listening = TRUE
        /\ jobs = <<>> /\ closed = FALSE
        /\ parked = {} /\ stopped = FALSE /\ batch = {} /\ idle = {}
        /\ running = TRUE /\ accept = Acceptor /\ handles = TRUE
        /\ hold = [t \in Thread |-> None]
        /\ keep = [w \in Worker |-> FALSE] /\ helper = [w \in Worker |-> None]
        /\ join = [s \in Stopper |-> None] /\ all = [s \in Stopper |-> FALSE]
        /\ atStop = {} /\ calls = 0 /\ sent = 0 /\ faults = 0 /\ broke = FALSE
    BY Zenon DEF Init
  <1>3. \A w \in Worker : pc[w] = "recv"
    BY Kinds, ZenonT(60) DEF Init
  <1>4. \A f \in Spare : pc[f] = "unborn"
    BY Kinds, ZenonT(60) DEF Init
  <1>5. pc[Acceptor] = "check"
    BY Kinds, ZenonT(60) DEF Init
  <1>6. pc[Poller] = "scan"
    BY Kinds, ZenonT(60) DEF Init
  <1>7. pc[Main] = "run"
    BY Kinds, ZenonT(60) DEF Init
  <1>2. pc = [t \in Thread |-> pc[t]]
    <2> DEFINE S == {"recv", "unborn", "check", "scan", "run"}
    <2>1. \A t \in Thread : pc[t] \in S
      BY <1>3, <1>4, <1>5, <1>6, <1>7, Kinds
    <2> HIDE DEF S
    <2>2. pc \in [Thread -> S]
      BY <2>1, Zenon DEF Init
    <2> QED
      BY <2>2
  <1>8. Stages
    BY <1>2, <1>3, <1>4, <1>5, <1>6, <1>7 DEF Stages
  <1>9. Helpers /\ Sets
    BY <1>1, <1>3 DEF Helpers, Sets
  <1>10. Stops
    BY <1>1, Zenon DEF Stops
  <1>11. Hands
    BY <1>1, <1>3, <1>4, <1>5, <1>6, <1>7, Kinds DEF Hands
  <1>12. Queues
    BY <1>1, Kinds DEF Queues
  <1>13. Flags
    BY <1>1, Zenon DEF Flags
  <1>14. Chain
    BY <1>1, <1>3, <1>4, <1>7, Kinds DEF Chain, Taking
  <1>15. Progress /\ Attended
    BY <1>1, <1>4, <1>7, Kinds DEF Progress, Attended, After, Taking
  <1>16. Pool /\ Drained
    BY <1>1, <1>3, <1>6 DEF Pool, Drained
  <1>17. Waiting = {} /\ Queued = {} /\ Held = {} /\ Owned = {}
    BY <1>1, Kinds DEF Waiting, Queued, Held, Owned, Range
  <1>18. Sorted
    BY <1>1, <1>17, Kinds DEF Sorted, Unique, Apart
  <1>19. Served
    BY <1>1, <1>3, Kinds DEF Served
  <1>20. Late
    BY <1>1, <1>4, <1>7, Kinds DEF Late, Past
  <1>21. AtMostOne
    BY <1>1 DEF AtMostOne, Unserved
  <1> QED
    BY <1>8, <1>9, <1>10, <1>11, <1>12, <1>13, <1>14, <1>15, <1>16, <1>18, <1>19, <1>20, <1>21
    DEF HttpInv

LEMMA NextInv == HttpInv /\ [Next]_vars => HttpInv'
  BY PcStep, HelperStep, RestStep, HoldStep, QueuesStep, SetsStep, FlagsStep, ChainStep,
     ProgressStep,
     AttendedStep, PoolStep, DrainedStep, SortedStep, ServedStep, LateStep, AtMostOneStep
  DEF HttpInv

LEMMA Always == Spec => []HttpInv
  BY InitInv, NextInv, PTL DEF Spec

LEMMA TypesMean == HttpInv => HttpTypeOK
  <1> SUFFICES ASSUME HttpInv PROVE HttpTypeOK
    OBVIOUS
  <1>1. \A w \in Worker : pc[w] \in Stage.worker
    BY DEF HttpInv, Stages, Stage
  <1>2. \A f \in Spare : pc[f] \in Stage.spare
    BY DEF HttpInv, Stages, Stage
  <1>3. pc[Acceptor] \in Stage.acceptor /\ pc[Poller] \in Stage.poller
    BY DEF HttpInv, Stages, Stage
  <1>4. pc[Main] \in Stage.main
    BY DEF HttpInv, Stages, Stage
  <1>5. {listening, closed, stopped, running, handles, broke} \subseteq BOOLEAN
    BY Zenon DEF HttpInv, Flags, Stops
  <1>6. {calls, sent, faults} \subseteq Nat
    BY DEF HttpInv, Flags
  <1>7. keep \in [Worker -> BOOLEAN] /\ all \in [Stopper -> BOOLEAN]
    BY DEF HttpInv, Flags, Stops
  <1>8. hold \in [Thread -> Conn \union {Wake, None}]
    <2>1. Item \union {None} = Conn \union {Wake, None}
      BY DEF Item
    <2> QED
      BY <2>1 DEF HttpInv, Hands
  <1>9. /\ backlog \in Seq(Conn \union {Wake}) /\ Len(backlog) <= BacklogLimit
        /\ jobs \in Seq(Conn \union {Wake}) /\ Len(jobs) <= Capacity
    BY DEF HttpInv, Queues, Item
  <1>10. helper \in [Worker -> Spare \union {None}] /\ join \in [Stopper -> Spare \union
             {Acceptor, None}]
    BY DEF HttpInv, Helpers, Stops
  <1>11. /\ state \in [Conn -> {"new", "open", "closed"}]
         /\ pending \in [Conn -> Nat] /\ hungup \subseteq Conn /\ served \subseteq Conn
         /\ parked \subseteq Conn /\ batch \subseteq Conn /\ idle \subseteq Conn
         /\ accept \in Spare \union {Acceptor, None} /\ atStop \subseteq Conn
    BY DEF HttpInv, Sets, Stops
  <1> QED
    BY <1>1, <1>2, <1>3, <1>4, <1>5, <1>6, <1>7, <1>8, <1>9, <1>10, <1>11, Zenon DEF HttpTypeOK

\* Types: every reachable state of the server has the types of HttpTypeOK.
THEOREM HttpTypes == Spec => []HttpTypeOK
  BY Always, TypesMean, PTL

LEMMA TimesAre ==
  ASSUME NEW q \in Seq(Item), NEW c \in Conn,
         \A i, j \in DOMAIN q : q[i] = q[j] /\ q[i] \in Conn => i = j
  PROVE  Times(c, q) = IF c \in Range(q) THEN 1 ELSE 0
  <1> DEFINE I == {i \in DOMAIN q : q[i] = c}
  <1>1. CASE c \in Range(q)
    <2>1. PICK i \in DOMAIN q : q[i] = c
      BY <1>1 DEF Range
    <2>2. I = {i}
      BY <2>1
    <2> QED
      BY <1>1, <2>2, FS_Singleton DEF Times
  <1>2. CASE c \notin Range(q)
    <2>1. I = {}
      BY <1>2 DEF Range
    <2> QED
      BY <1>2, <2>1, FS_EmptySet DEF Times
  <1> QED
    BY <1>1, <1>2

LEMMA HandsAre ==
  ASSUME Hands, Sorted, NEW c \in Conn
  PROVE  Cardinality({t \in Thread : hold[t] = c}) = IF c \in Held THEN 1 ELSE 0
  <1> DEFINE T == {t \in Thread : hold[t] = c}
  <1>1. CASE c \in Held
    <2>1. PICK t \in Thread : hold[t] = c
      BY <1>1 DEF Held
    <2>2. T = {t}
      BY <2>1 DEF Sorted, Unique
    <2> QED
      BY <1>1, <2>2, FS_Singleton
  <1>2. CASE c \notin Held
    <2>1. T = {}
      BY <1>2 DEF Held
    <2> QED
      BY <1>2, <2>1, FS_EmptySet
  <1> QED
    BY <1>1, <1>2

LEMMA PoolsAre ==
  ASSUME Sorted, NEW c \in Conn
  PROVE  Cardinality({S \in {1, 2, 3} : c \in <<parked, batch, idle>>[S]})
            = IF c \in parked \union batch \union idle THEN 1 ELSE 0
  <1> DEFINE P == {S \in {1, 2, 3} : c \in <<parked, batch, idle>>[S]}
  <1>1. P = {S \in {1, 2, 3} : \/ S = 1 /\ c \in parked
                               \/ S = 2 /\ c \in batch
                               \/ S = 3 /\ c \in idle}
    OBVIOUS
  <1> HIDE DEF P
  <1>2. CASE c \notin parked \union batch \union idle
    <2>1. P = {}
      BY <1>1, <1>2
    <2> QED
      BY <1>2, <2>1, FS_EmptySet DEF P
  <1>3. CASE c \in parked \union batch \union idle
    <2>1. P = {1} \/ P = {2} \/ P = {3}
      BY <1>1, <1>3 DEF Sorted, Apart
    <2> QED
      BY <1>3, <2>1, FS_Singleton DEF P
  <1> QED
    BY <1>2, <1>3

LEMMA SortedOnce == HttpInv => OwnedOnce
  <1> SUFFICES ASSUME HttpInv, NEW c \in Conn
               PROVE  Places(c) = IF state[c] = "open" THEN 1 ELSE 0
    BY DEF OwnedOnce
  <1>1. Times(c, backlog) = IF c \in Waiting THEN 1 ELSE 0
    BY TimesAre DEF HttpInv, Queues, Sorted, Unique, Waiting
  <1>2. Times(c, jobs) = IF c \in Queued THEN 1 ELSE 0
    BY TimesAre DEF HttpInv, Queues, Sorted, Unique, Queued
  <1>3. Cardinality({t \in Thread : hold[t] = c}) = IF c \in Held THEN 1 ELSE 0
    BY HandsAre DEF HttpInv
  <1>4. Cardinality({S \in {1, 2, 3} : c \in <<parked, batch, idle>>[S]})
            = IF c \in parked \union batch \union idle THEN 1 ELSE 0
    BY PoolsAre DEF HttpInv
  <1>5. state[c] = "open" <=> c \in Owned
    BY DEF Owned
  <1>6. /\ c \in Waiting => c \notin Queued \union Held \union parked \union batch \union idle
        /\ c \in Queued => c \notin Held \union parked \union batch \union idle
        /\ c \in Held => c \notin parked \union batch \union idle
        /\ c \in Owned <=> c \in Waiting \union Queued \union Held \union parked \union
               batch \union idle
    BY DEF HttpInv, Sorted, Apart
  <1>7. Places(c) = (IF c \in Waiting THEN 1 ELSE 0) + (IF c \in Queued THEN 1 ELSE 0)
                    + (IF c \in Held THEN 1 ELSE 0)
                    + (IF c \in parked \union batch \union idle THEN 1 ELSE 0)
    BY <1>1, <1>2, <1>3, <1>4 DEF Places
  <1> QED
    BY <1>5, <1>6, <1>7

\* However acceptor, workers, poller and shutdown interleave, an open
\* connection is in exactly one place, and a closed one in none: no socket is
\* read by two threads and none is leaked.
THEOREM OwnedOnceAlways == Spec => []OwnedOnce
  BY Always, SortedOnce, PTL

LEMMA OverIsQuiet == HttpInv => RunStopsServer
  <1> SUFFICES ASSUME HttpInv, pc[Main] = "over"
               PROVE  Quiet \/ (join[Main] = None /\ \E f \in Spare : pc[f] \notin {"unborn",
                   "done"})
    BY DEF RunStopsServer
  <1>1. Over => Quiet
    <2> SUFFICES ASSUME Over PROVE Quiet
      OBVIOUS
    <2>1. PICK w \in Worker : pc[w] = "done"
      BY ServerAssumption DEF Over
    <2> QED
      BY <2>1 DEF HttpInv, Over, Quiet, Drained, Pool
  <1>2. CASE join[Main] # None
    BY <1>1, <1>2, Kinds DEF HttpInv, Progress
  <1>3. CASE join[Main] = None
    <2>1. PICK s \in Spare : join[s] # None
      BY <1>3, Kinds DEF HttpInv, Chain, Attended
    <2>2. pc[s] # "unborn"
      BY <2>1, Kinds DEF HttpInv, Chain
    <2>3. CASE pc[s] = "done"
      BY <1>1, <2>1, <2>3, Kinds DEF HttpInv, Progress
    <2> QED
      BY <1>3, <2>2, <2>3
  <1> QED
    BY <1>2, <1>3

\* When the run is over the server's threads have ended and nothing waits in
\* its queue or pool, unless the main thread's stop found no handle because a
\* stop by a handler is still under way or has failed.
THEOREM RunStopsServerAlways == Spec => []RunStopsServer
  BY Always, OverIsQuiet, PTL

LEMMA OneAtMost == HttpInv => AtMostOneUnserved
  <1> SUFFICES ASSUME HttpInv, ~broke PROVE Cardinality(Unserved) <= 1
    BY DEF AtMostOneUnserved
  <1>1. \A a, b \in Unserved : a = b
    BY DEF HttpInv, AtMostOne
  <1>2. CASE Unserved = {}
    BY <1>2, FS_EmptySet
  <1>3. CASE Unserved # {}
    <2>1. PICK d : Unserved = {d}
      BY <1>1, <1>3
    <2> QED
      BY <2>1, FS_Singleton
  <1> QED
    BY <1>2, <1>3

\* Of the connections that were in the server when it was asked to stop, at
\* most the one the acceptor was just accepting is closed with its request
\* unread, unless an accept fails during the drain.
THEOREM AtMostOneUnservedAlways == Spec => []AtMostOneUnserved
  BY Always, OneAtMost, PTL

=============================================================================
