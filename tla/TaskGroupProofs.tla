-------------------------- MODULE TaskGroupProofs --------------------------
(***************************************************************************)
(* Theorems of TaskGroup, for every set of frames, every number of         *)
(* handles and groups and every class of programs: each thread is joined   *)
(* at most once and is held by its spawner until then, and a function that *)
(* returns a value leaves no task behind.  For programs without try: the   *)
(* token a frame polls, the value an await gives, and what a failure       *)
(* reports of the failures below it.                                       *)
(***************************************************************************)
EXTENDS TaskGroup, WellFoundedInduction, SequenceTheorems, TLAPS

(* The types of the variables the argument is about.                       *)
Types ==
    /\ mode \in [Frames -> Modes]
    /\ at \in [Frames -> Handles \cup {0}]
    /\ pending \in [Frames -> [Handles -> Frames \cup {None}]]
    /\ failure \in [Frames -> Results]
    /\ outcome \in [Frames -> Results]
    /\ thread \in [Frames -> Threads]
    /\ spawner \in [Frames -> Frames \cup {None}]

(* A frame holds handles only while it runs: not before, and not after.    *)
NotRunning ==
    \A f \in Frames :
        /\ mode[f] = "idle" => thread[f] = "none" /\ pending[f] = NoPending
        /\ mode[f] = "done" => pending[f] = NoPending

(* A thread that is not joined yet has a spawner; one that was detached    *)
(* has a spawner that failed.                                              *)
Abandoned ==
    \A c \in Frames :
        /\ thread[c] \in {"live", "detached"} => spawner[c] \in Frames
        /\ thread[c] = "detached" =>
              mode[spawner[c]] = "done" /\ outcome[spawner[c]].code # "ok"

IInv == Types /\ NotRunning /\ HeldOnce /\ Abandoned /\ Blocked

----------------------------------------------------------------------------
LEMMA OkIsResult == Ok \in Results
  BY DEF Ok, Results, Codes

LEMMA PrimitiveIsFailure ==
  ASSUME NEW f \in Frames, NEW c \in LeafCodes
  PROVE  Primitive(c, f) \in Results /\ Primitive(c, f).code # "ok"
  BY DEF Primitive, Results, Codes, LeafCodes

LEMMA MergeIsFailure ==
  ASSUME NEW d \in Results, NEW e \in Results
  PROVE  Merge(d, e) \in Results /\ Merge(d, e).code # "ok"
  BY DEF Merge, Results, Codes

(* A nonempty set of handles has a smallest one.                            *)
LEMMA SmallestIsLeast ==
  ASSUME NEW S \in SUBSET Handles, S # {}
  PROVE  Smallest(S) \in S
<1>1. S \subseteq Nat
  BY BoundsAssumption DEF Handles
<1>2. PICK h \in S : \A k \in S : ~(<<k, h>> \in OpToRel(<, Nat))
  BY <1>1, WFMin, NatLessThanWellFounded
<1>3. ASSUME NEW k \in S PROVE h <= k
  <2>1. h \in Nat /\ k \in Nat
    BY <1>1
  <2>2. ~(k < h)
    BY <1>2, <2>1 DEF OpToRel
  <2>3. QED
    BY <2>1, <2>2
<1>4. QED
  BY <1>3 DEF Smallest

LEMMA InitIInv == Init => IInv
  BY FramesAssumption
  DEF Init, IInv, Types, NotRunning, HeldOnce, Abandoned, Blocked, Modes, Threads,
      NoPending, Results, Ok, Codes, LeafCodes

(* A failing frame, once the joins of the step are recorded in th, keeps    *)
(* the invariant whether the failure is caught or ends the frame.           *)
LEMMA RaiseKeeps ==
  ASSUME IInv, NEW f \in Frames, mode[f] \notin {"idle", "done"},
         NEW d \in Results, d.code # "ok",
         NEW th \in [Frames -> Threads],
         \A c \in Frames : th[c] = thread[c] \/ (thread[c] = "call" /\ th[c] = "joined"),
         Raise(f, d, th)
  PROVE  IInv'
<1> USE DEF Types
<1>1. /\ spawner' = spawner
      /\ failure' = [failure EXCEPT ![f] = Ok]
      /\ at' = [at EXCEPT ![f] = 0]
  BY DEF Raise, started
<1>2. CASE Catchable(d) /\ Tries(f) # {}
  <2>1. /\ mode' = [mode EXCEPT ![f] = "run"] /\ thread' = th
        /\ pending' = pending /\ outcome' = outcome
    BY <1>2 DEF Raise
  <2>2. Types'
    BY <1>1, <2>1, OkIsResult DEF IInv, Modes
  <2>3. NotRunning'
    BY <1>1, <2>1 DEF IInv, NotRunning
  <2>4. HeldOnce'
    BY <1>1, <2>1, FramesAssumption DEF IInv, HeldOnce
  <2>5. Abandoned'
    BY <1>1, <2>1 DEF IInv, Abandoned
  <2>6. Blocked'
    BY <1>1, <2>1 DEF IInv, Blocked
  <2>7. QED
    BY <2>2, <2>3, <2>4, <2>5, <2>6 DEF IInv
<1>3. CASE ~(Catchable(d) /\ Tries(f) # {})
  <2>1. End(f, d, th)
    BY <1>3 DEF Raise
  <2>2. Types'
    BY <1>1, <2>1, OkIsResult DEF IInv, End, Modes, Threads, NoPending
  <2>3. NotRunning'
    BY <1>1, <2>1 DEF IInv, End, NotRunning
  <2>4. HeldOnce'
    <3>1. pending'[f] = NoPending /\ \A g \in Frames \ {f} : pending'[g] = pending[g]
      BY <2>1 DEF IInv, End
    <3>2. \A c \in Frames : thread'[c] = "live" <=>
             thread[c] = "live" /\ \A h \in Handles : pending[f][h] # c
      BY <2>1 DEF IInv, End
    <3>3. ASSUME NEW g \in Frames, NEW h \in Handles, pending'[g][h] # None
          PROVE  /\ thread'[pending'[g][h]] = "live"
                 /\ spawner'[pending'[g][h]] = g
                 /\ \A k \in Handles \ {h} : pending'[g][k] # pending'[g][h]
      <4>1. g # f /\ pending'[g] = pending[g]
        BY <3>1, <3>3 DEF NoPending
      <4>2. pending[g][h] \in Frames
        BY <3>3, <4>1 DEF IInv
      <4>3. \A k \in Handles : pending[f][k] # pending[g][h]
        BY <3>3, <4>1, <4>2, FramesAssumption DEF IInv, HeldOnce
      <4>4. QED
        BY <1>1, <3>2, <3>3, <4>1, <4>2, <4>3 DEF IInv, HeldOnce
    <3>4. ASSUME NEW c \in Frames, thread'[c] = "live"
          PROVE  \E h \in Handles : pending'[spawner'[c]][h] = c
      <4>1. PICK h \in Handles : pending[spawner[c]][h] = c
        BY <3>2, <3>4 DEF IInv, HeldOnce
      <4>2. spawner[c] # f /\ spawner[c] \in Frames
        BY <3>2, <3>4, <4>1 DEF IInv, Abandoned
      <4>3. QED
        BY <1>1, <3>1, <4>1, <4>2
    <3>5. QED
      BY <3>3, <3>4 DEF HeldOnce
  <2>5. Abandoned'
    BY <1>1, <2>1, FramesAssumption DEF IInv, End, HeldOnce, Abandoned
  <2>6. Blocked'
    BY <1>1, <2>1 DEF IInv, End, Blocked
  <2>7. QED
    BY <2>2, <2>3, <2>4, <2>5, <2>6 DEF IInv
<1>4. QED
  BY <1>2, <1>3

LEMMA PrimitiveRaiseKeeps ==
  ASSUME IInv, NEW f \in Frames, mode[f] \notin {"idle", "done"},
         NEW c \in LeafCodes, Raise(f, Primitive(c, f), thread)
  PROVE  IInv'
<1>1. thread \in [Frames -> Threads]
  BY DEF IInv, Types
<1>2. QED
  BY <1>1, RaiseKeeps, PrimitiveIsFailure

(* A join takes one handle out of the pending map and closes its thread.    *)
LEMMA JoinKeeps ==
  ASSUME IInv, NEW f \in Frames, NEW h \in Handles, Joinable(f, h),
         thread' = Joined(f, h),
         pending' = [pending EXCEPT ![f][h] = None],
         spawner' = spawner
  PROVE  /\ pending' \in [Frames -> [Handles -> Frames \cup {None}]]
         /\ thread' \in [Frames -> Threads]
         /\ HeldOnce'
<1> DEFINE c == pending[f][h]
<1>1. c \in Frames /\ thread[c] = "live" /\ spawner[c] = f
  BY FramesAssumption DEF IInv, Types, HeldOnce, Joinable
<1>2. /\ pending' \in [Frames -> [Handles -> Frames \cup {None}]]
      /\ thread' \in [Frames -> Threads]
  BY <1>1 DEF IInv, Types, Joined, Threads
<1>3. \A g \in Frames : \A k \in Handles :
         pending'[g][k] = IF g = f /\ k = h THEN None ELSE pending[g][k]
  BY DEF IInv, Types
<1>4. \A b \in Frames : thread'[b] = IF b = c THEN "joined" ELSE thread[b]
  BY <1>1 DEF IInv, Types, Joined
<1>5. ASSUME NEW g \in Frames, NEW k \in Handles, pending'[g][k] # None
      PROVE  /\ thread'[pending'[g][k]] = "live"
             /\ spawner'[pending'[g][k]] = g
             /\ \A j \in Handles \ {k} : pending'[g][j] # pending'[g][k]
  <2>1. ~(g = f /\ k = h) /\ pending'[g][k] = pending[g][k]
    BY <1>3, <1>5
  <2>2. pending[g][k] \in Frames /\ pending[g][k] # c
    BY <1>1, <1>5, <2>1, FramesAssumption DEF IInv, Types, HeldOnce
  <2>3. QED
    BY <1>3, <1>4, <1>5, <2>1, <2>2 DEF IInv, HeldOnce
<1>6. ASSUME NEW b \in Frames, thread'[b] = "live"
      PROVE  \E k \in Handles : pending'[spawner'[b]][k] = b
  <2>1. b # c /\ thread[b] = "live" /\ spawner[b] \in Frames
    BY <1>1, <1>4, <1>6 DEF IInv, Abandoned
  <2>2. PICK k \in Handles : pending[spawner[b]][k] = b
    BY <2>1 DEF IInv, HeldOnce
  <2>3. QED
    BY <1>3, <2>1, <2>2
<1>7. QED
  BY <1>2, <1>5, <1>6 DEF HeldOnce

(* Starting a thread on a frame not used before, under a free handle.       *)
LEMMA StartKeeps ==
  ASSUME IInv, NEW f \in Frames, NEW h \in Handles, NEW c \in Frames,
         mode[f] \in {"run", "rebind"}, pending[f][h] = None, Start(f, h, c),
         at' = at \/ at' = [at EXCEPT ![f] = 0],
         failure' = failure, outcome' = outcome
  PROVE  IInv'
<1> USE DEF Types
<1>1. /\ c # f /\ c # None /\ thread[c] = "none" /\ pending[c] = NoPending
      /\ mode[c] = "idle"
  BY FramesAssumption DEF IInv, Start, NotRunning
<1>2. /\ mode' = [mode EXCEPT ![f] = "run", ![c] = "run"]
      /\ spawner' = [spawner EXCEPT ![c] = f]
      /\ thread' = [thread EXCEPT ![c] = "live"]
      /\ pending' = [pending EXCEPT ![f][h] = c]
  BY DEF Start
<1>3. Types'
  BY <1>1, <1>2 DEF IInv, Modes, Threads
<1>4. NotRunning'
  BY <1>1, <1>2 DEF IInv, NotRunning, NoPending
<1>5. \A g \in Frames : \A k \in Handles : pending[g][k] # c
  BY <1>1 DEF IInv, HeldOnce
<1>6. \A g \in Frames : \A k \in Handles :
         pending'[g][k] = IF g = f /\ k = h THEN c ELSE pending[g][k]
  BY <1>2 DEF IInv
<1>7. thread'[c] = "live" /\ \A b \in Frames \ {c} : thread'[b] = thread[b]
  BY <1>2 DEF IInv
<1>7a. spawner'[c] = f /\ \A b \in Frames \ {c} : spawner'[b] = spawner[b]
  BY <1>2 DEF IInv
<1>8. HeldOnce'
  <2>1. ASSUME NEW g \in Frames, NEW k \in Handles, pending'[g][k] # None
        PROVE  /\ thread'[pending'[g][k]] = "live"
               /\ spawner'[pending'[g][k]] = g
               /\ \A j \in Handles \ {k} : pending'[g][j] # pending'[g][k]
    <3>1. pending[g][k] \in Frames \cup {None}
      BY DEF IInv
    <3>2. CASE g = f /\ k = h
      BY <1>5, <1>6, <1>7, <1>7a, <3>2
    <3>3. CASE ~(g = f /\ k = h)
      BY <1>5, <1>6, <1>7, <1>7a, <2>1, <3>1, <3>3 DEF IInv, HeldOnce
    <3>4. QED
      BY <3>2, <3>3
  <2>2. ASSUME NEW b \in Frames, thread'[b] = "live"
        PROVE  \E k \in Handles : pending'[spawner'[b]][k] = b
    <3>1. CASE b = c
      BY <1>6, <1>7, <1>7a, <3>1
    <3>2. CASE b # c
      <4>1. thread[b] = "live" /\ spawner[b] \in Frames /\ spawner'[b] = spawner[b]
        BY <1>7, <1>7a, <2>2, <3>2 DEF IInv, Abandoned
      <4>2. PICK k \in Handles : pending[spawner[b]][k] = b
        BY <4>1 DEF IInv, HeldOnce
      <4>3. ~(spawner[b] = f /\ k = h)
        BY <4>2, FramesAssumption
      <4>4. QED
        BY <1>6, <4>1, <4>2, <4>3
    <3>3. QED
      BY <3>1, <3>2
  <2>3. QED
    BY <2>1, <2>2 DEF HeldOnce
<1>9. Abandoned'
  BY <1>1, <1>2, <1>7, <1>7a DEF IInv, Abandoned
<1>10. Blocked'
  BY <1>1, <1>2 DEF IInv, Blocked
<1>11. QED
  BY <1>3, <1>4, <1>8, <1>9, <1>10 DEF IInv

(* A join that finishes, in each of the places the code joins: the frame    *)
(* goes on in mode m, joining a next (0 for none), its failures being d.    *)
LEMMA JoinStepKeeps ==
  ASSUME IInv, NEW f \in Frames, NEW h \in Handles, Joinable(f, h),
         mode[f] \notin {"idle", "done"},
         NEW m \in {"run", "rebind", "leak", "drain"},
         NEW a \in Handles \cup {0}, NEW d \in Results,
         m = "rebind" => a \in Handles,
         m = "drain" => d.code # "ok",
         mode' = [mode EXCEPT ![f] = m],
         at' = [at EXCEPT ![f] = a],
         failure' = [failure EXCEPT ![f] = d],
         thread' = Joined(f, h),
         pending' = [pending EXCEPT ![f][h] = None],
         spawner' = spawner, outcome' = outcome
  PROVE  IInv'
<1> USE DEF Types
<1>1. /\ pending' \in [Frames -> [Handles -> Frames \cup {None}]]
      /\ thread' \in [Frames -> Threads]
      /\ HeldOnce'
  BY JoinKeeps
<1>2. pending[f][h] \in Frames /\ mode[pending[f][h]] = "done"
  BY FramesAssumption DEF IInv, Joinable
<1>3. Types'
  BY <1>1 DEF IInv, Modes
<1>4. NotRunning'
  <2>1. \A b \in Frames : mode'[b] \in {"idle", "done"} =>
           b # f /\ mode[b] = mode'[b] /\ pending'[b] = pending[b]
    BY DEF IInv
  <2>2. \A b \in Frames : mode'[b] = "idle" => thread'[b] = thread[b]
    BY <1>2, <2>1 DEF IInv, Joined
  <2>3. QED
    BY <2>1, <2>2 DEF IInv, NotRunning
<1>5. Abandoned'
  <2>1. \A b \in Frames : thread'[b] \in {"live", "detached"} => thread[b] = thread'[b]
    BY <1>2 DEF IInv, Joined
  <2>2. \A b \in Frames : mode[b] = "done" => mode'[b] = "done"
    BY DEF IInv
  <2>3. QED
    BY <2>1, <2>2 DEF IInv, Abandoned
<1>6. Blocked'
  BY DEF IInv, Blocked
<1>7. QED
  BY <1>1, <1>3, <1>4, <1>5, <1>6 DEF IInv

(* A step that moves one running frame between modes and joins nothing.     *)
LEMMA MoveKeeps ==
  ASSUME IInv, NEW f \in Frames, mode[f] = "run",
         NEW m \in {"run", "await", "rebind", "leak"}, NEW a \in Handles \cup {0},
         m \in {"await", "rebind"} => a \in Handles,
         mode' = [mode EXCEPT ![f] = m],
         at' = [at EXCEPT ![f] = a],
         UNCHANGED <<pending, failure, outcome, thread, spawner>>
  PROVE  IInv'
  BY DEF IInv, Types, NotRunning, HeldOnce, Abandoned, Blocked, Modes

----------------------------------------------------------------------------
(* One lemma per group of actions.                                          *)
LEMMA BlockSteps ==
  ASSUME IInv, NEW f \in Frames,
         \/ EnterGroup(f) \/ LeaveGroup(f) \/ EnterTry(f) \/ LeaveTry(f) \/ Break(f)
  PROVE  IInv'
<1>1. /\ mode[f] = "run"
      /\ UNCHANGED <<at, pending, failure, outcome, thread, spawner>>
      /\ mode' = mode \/ mode' = [mode EXCEPT ![f] = "leak"]
  BY DEF EnterGroup, LeaveGroup, EnterTry, LeaveTry, Break, started, IInv, Types
<1>2. at[f] \in Handles \cup {0} /\ at = [at EXCEPT ![f] = at[f]]
  BY DEF IInv, Types
<1>3. mode = [mode EXCEPT ![f] = "run"]
  BY <1>1 DEF IInv, Types
<1>4. QED
  BY <1>1, <1>2, <1>3, MoveKeeps

LEMMA SpawnSteps ==
  ASSUME IInv, NEW f \in Frames, NEW h \in Handles,
         \/ Spawn(f, h) \/ SpawnAtLimit(f, h) \/ SpawnRebind(f, h)
         \/ Await(f, h) \/ AwaitStored(f, h) \/ AwaitCounted(f, h) \/ AwaitMissing(f, h)
  PROVE  IInv'
<1> USE DEF MaySpawn, MayAwait
<1>1. CASE Spawn(f, h)
  BY <1>1, StartKeeps DEF Spawn
<1>2. CASE SpawnAtLimit(f, h)
  BY <1>2, PrimitiveRaiseKeeps DEF SpawnAtLimit, LeafCodes
<1>3. CASE SpawnRebind(f, h)
  BY <1>3, MoveKeeps DEF SpawnRebind, started
<1>4. CASE Await(f, h)
  BY <1>4, MoveKeeps DEF Await, started
<1>5. CASE AwaitStored(f, h) \/ AwaitCounted(f, h)
  BY <1>5 DEF AwaitStored, AwaitCounted, started, IInv, Types, NotRunning, HeldOnce,
              Abandoned, Blocked
<1>6. CASE AwaitMissing(f, h)
  BY <1>6, PrimitiveRaiseKeeps DEF AwaitMissing, LeafCodes
<1>7. QED
  BY <1>1, <1>2, <1>3, <1>4, <1>5, <1>6

LEMMA JoinSteps ==
  ASSUME IInv, NEW f \in Frames,
         AwaitJoin(f) \/ RebindJoin(f) \/ DrainJoin(f) \/ LeakJoin(f)
  PROVE  IInv'
<1> USE DEF started
<1>1. /\ \A h \in Handles : Joinable(f, h) => outcome[pending[f][h]] \in Results
      /\ at[f] \in Handles \cup {0} /\ at = [at EXCEPT ![f] = at[f]]
      /\ failure[f] \in Results /\ failure = [failure EXCEPT ![f] = failure[f]]
      /\ mode = [mode EXCEPT ![f] = mode[f]]
      /\ mode[f] \in {"await", "rebind"} => at[f] \in Handles
      /\ mode[f] = "drain" => failure[f].code # "ok"
  BY FramesAssumption DEF IInv, Types, Joinable, Blocked
<1>2. \A S \in SUBSET Handles : S # {} => Smallest(S) \in S
  BY SmallestIsLeast
<1>3. CASE AwaitJoin(f)
  <2>1. CASE outcome[pending[f][at[f]]].code = "ok"
    <3> DEFINE h == at[f]
    <3>1. h \in Handles /\ Joinable(f, h) /\ mode[f] = "await"
      BY <1>1, <1>3 DEF AwaitJoin
    <3>2. /\ mode' = [mode EXCEPT ![f] = "run"] /\ at' = [at EXCEPT ![f] = 0]
          /\ failure' = [failure EXCEPT ![f] = failure[f]]
          /\ thread' = Joined(f, h) /\ pending' = [pending EXCEPT ![f][h] = None]
          /\ spawner' = spawner /\ outcome' = outcome
      BY <1>1, <1>3, <2>1 DEF AwaitJoin
    <3> HIDE DEF h
    <3>3. QED
      BY <1>1, <3>1, <3>2, JoinStepKeeps
  <2>2. CASE outcome[pending[f][at[f]]].code # "ok"
    <3> DEFINE h == at[f]
               r == outcome[pending[f][h]]
    <3>1. h \in Handles /\ Joinable(f, h) /\ mode[f] = "await" /\ r \in Results
      BY <1>1, <1>3 DEF AwaitJoin
    <3>2. /\ mode' = [mode EXCEPT ![f] = "drain"] /\ at' = [at EXCEPT ![f] = 0]
          /\ failure' = [failure EXCEPT ![f] = r]
          /\ thread' = Joined(f, h) /\ pending' = [pending EXCEPT ![f][h] = None]
          /\ spawner' = spawner /\ outcome' = outcome
      BY <1>3, <2>2 DEF AwaitJoin, FailGroup
    <3>3. r.code # "ok"
      BY <2>2
    <3> HIDE DEF h, r
    <3>4. QED
      BY <3>1, <3>2, <3>3, JoinStepKeeps
  <2>3. QED
    BY <2>1, <2>2
<1>4. CASE RebindJoin(f)
  <2>1. CASE outcome[pending[f][at[f]]].code = "ok"
    <3> DEFINE h == at[f]
    <3>1. h \in Handles /\ Joinable(f, h) /\ mode[f] = "rebind"
      BY <1>1, <1>4 DEF RebindJoin
    <3>2. /\ mode' = [mode EXCEPT ![f] = "rebind"] /\ at' = [at EXCEPT ![f] = h]
          /\ failure' = [failure EXCEPT ![f] = failure[f]]
          /\ thread' = Joined(f, h) /\ pending' = [pending EXCEPT ![f][h] = None]
          /\ spawner' = spawner /\ outcome' = outcome
      BY <1>1, <1>4, <2>1 DEF RebindJoin
    <3> HIDE DEF h
    <3>3. QED
      BY <1>1, <3>1, <3>2, JoinStepKeeps
  <2>2. CASE outcome[pending[f][at[f]]].code # "ok"
    <3> DEFINE h == at[f]
               r == outcome[pending[f][h]]
    <3>1. h \in Handles /\ Joinable(f, h) /\ mode[f] = "rebind" /\ r \in Results
      BY <1>1, <1>4 DEF RebindJoin
    <3>2. /\ mode' = [mode EXCEPT ![f] = "drain"] /\ at' = [at EXCEPT ![f] = 0]
          /\ failure' = [failure EXCEPT ![f] = r]
          /\ thread' = Joined(f, h) /\ pending' = [pending EXCEPT ![f][h] = None]
          /\ spawner' = spawner /\ outcome' = outcome
      BY <1>4, <2>2 DEF RebindJoin, FailGroup
    <3>3. r.code # "ok"
      BY <2>2
    <3> HIDE DEF h, r
    <3>4. QED
      BY <3>1, <3>2, <3>3, JoinStepKeeps
  <2>3. QED
    BY <2>1, <2>2
<1>5. CASE DrainJoin(f)
  <2> DEFINE h == Smallest(Held(pending[f]))
             r == outcome[pending[f][h]]
             d == IF r.code \in {"ok", "cancelled"} THEN failure[f] ELSE Merge(failure[f], r)
  <2>1. h \in Handles /\ Joinable(f, h) /\ mode[f] = "drain"
    BY <1>2, <1>5 DEF DrainJoin, Held
  <2>2. d \in Results /\ d.code # "ok"
    BY <1>1, <2>1, MergeIsFailure
  <2>3. /\ mode' = [mode EXCEPT ![f] = "drain"] /\ at' = [at EXCEPT ![f] = at[f]]
        /\ failure' = [failure EXCEPT ![f] = d]
        /\ thread' = Joined(f, h) /\ pending' = [pending EXCEPT ![f][h] = None]
        /\ spawner' = spawner /\ outcome' = outcome
    BY <1>1, <1>5, <2>1 DEF DrainJoin
  <2> HIDE DEF h, r, d
  <2>4. QED
    BY <1>1, <2>1, <2>2, <2>3, JoinStepKeeps
<1>6. CASE LeakJoin(f)
  <2> DEFINE h == Smallest(Held(pending[f]))
  <2>1. h \in Handles /\ Joinable(f, h) /\ mode[f] = "leak"
    BY <1>2, <1>6 DEF LeakJoin, Held
  <2>2. /\ mode' = [mode EXCEPT ![f] = "leak"] /\ at' = [at EXCEPT ![f] = at[f]]
        /\ failure' = [failure EXCEPT ![f] = failure[f]]
        /\ thread' = Joined(f, h) /\ pending' = [pending EXCEPT ![f][h] = None]
        /\ spawner' = spawner /\ outcome' = outcome
    BY <1>1, <1>6, <2>1 DEF LeakJoin
  <2> HIDE DEF h
  <2>3. QED
    BY <1>1, <2>1, <2>2, JoinStepKeeps
<1>7. QED
  BY <1>3, <1>4, <1>5, <1>6

LEMMA EndSteps ==
  ASSUME IInv, NEW f \in Frames,
         \/ RebindStart(f) \/ DrainEnd(f) \/ LeakEnd(f)
         \/ Fault(f) \/ Exit(f) \/ BackEdge(f)
  PROVE  IInv'
<1>1. CASE RebindStart(f)
  <2>1. at[f] \in Handles
    BY <1>1 DEF RebindStart, IInv, Blocked
  <2>2. CASE Raise(f, Primitive("fault", f), thread)
    BY <1>1, <2>2, PrimitiveRaiseKeeps DEF RebindStart, LeafCodes
  <2>3. CASE ~Raise(f, Primitive("fault", f), thread)
    BY <1>1, <2>1, <2>3, StartKeeps DEF RebindStart
  <2>4. QED
    BY <2>2, <2>3
<1>2. CASE DrainEnd(f)
  BY <1>2, RaiseKeeps DEF DrainEnd, IInv, Types, Blocked
<1>3. CASE LeakEnd(f)
  BY <1>3, PrimitiveRaiseKeeps DEF LeakEnd, LeafCodes
<1>4. CASE Fault(f)
  BY <1>4, PrimitiveRaiseKeeps DEF Fault, LeafCodes
<1>5. CASE Exit(f)
  BY <1>5, PrimitiveRaiseKeeps DEF Exit, LeafCodes
<1>6. CASE BackEdge(f)
  BY <1>6, PrimitiveRaiseKeeps DEF BackEdge, LeafCodes
<1>7. QED
  BY <1>1, <1>2, <1>3, <1>4, <1>5, <1>6

LEMMA CallSteps ==
  ASSUME IInv, NEW f \in Frames, Call(f) \/ CallReturn(f)
  PROVE  IInv'
<1> USE DEF Types
<1>1. CASE Call(f)
  <2>1. PICK c \in Frames :
           /\ mode[f] = "run" /\ mode[c] = "idle"
           /\ mode' = [mode EXCEPT ![f] = "call", ![c] = "run"]
           /\ spawner' = [spawner EXCEPT ![c] = f]
           /\ thread' = [thread EXCEPT ![c] = "call"]
           /\ UNCHANGED <<at, pending, failure, outcome>>
    BY <1>1 DEF Call
  <2>2. c # f /\ thread[c] = "none" /\ pending[c] = NoPending
    BY <2>1 DEF IInv, NotRunning
  <2>3. Types'
    BY <2>1 DEF IInv, Modes, Threads
  <2>4. NotRunning'
    BY <2>1, <2>2 DEF IInv, NotRunning
  <2>5. HeldOnce'
    <3>1. \A a \in Frames : \A h \in Handles :
             pending[a][h] # None =>
                /\ pending[a][h] \in Frames /\ pending[a][h] # c
                /\ spawner'[pending[a][h]] = spawner[pending[a][h]]
                /\ thread'[pending[a][h]] = thread[pending[a][h]]
      BY <2>1, <2>2, FramesAssumption DEF IInv, HeldOnce
    <3>2. \A b \in Frames : thread'[b] = "live" =>
             b # c /\ thread[b] = "live" /\ spawner'[b] = spawner[b]
      BY <2>1, FramesAssumption DEF IInv
    <3>3. pending' = pending /\ HeldOnce
      BY <2>1 DEF IInv
    <3>4. ASSUME NEW a \in Frames, NEW h \in Handles, pending'[a][h] # None
          PROVE  /\ thread'[pending'[a][h]] = "live"
                 /\ spawner'[pending'[a][h]] = a
                 /\ \A k \in Handles \ {h} : pending'[a][k] # pending'[a][h]
      BY <3>1, <3>3, <3>4 DEF HeldOnce
    <3>5. ASSUME NEW b \in Frames, thread'[b] = "live"
          PROVE  \E h \in Handles : pending'[spawner'[b]][h] = b
      BY <3>2, <3>3, <3>5 DEF HeldOnce
    <3>6. QED
      BY <3>4, <3>5 DEF HeldOnce
  <2>6. Abandoned'
    BY <2>1, <2>2 DEF IInv, Abandoned
  <2>7. Blocked'
    BY <2>1 DEF IInv, Blocked
  <2>8. QED
    BY <2>3, <2>4, <2>5, <2>6, <2>7 DEF IInv
<1>2. CASE CallReturn(f)
  <2>1. PICK c \in Frames :
           /\ mode[f] = "call" /\ spawner[c] = f /\ thread[c] = "call" /\ mode[c] = "done"
           /\ IF outcome[c].code = "ok"
              THEN /\ mode' = [mode EXCEPT ![f] = "run"]
                   /\ thread' = [thread EXCEPT ![c] = "joined"]
                   /\ UNCHANGED <<at, spawner, pending, failure, outcome>>
              ELSE Raise(f, outcome[c], [thread EXCEPT ![c] = "joined"])
    BY <1>2 DEF CallReturn, started
  <2>2. [thread EXCEPT ![c] = "joined"] \in [Frames -> Threads]
    BY DEF IInv, Threads
  <2>3. CASE outcome[c].code = "ok"
    <3>1. Types'
      BY <2>1, <2>2, <2>3 DEF IInv, Modes
    <3>2. NotRunning'
      BY <2>1, <2>3 DEF IInv, NotRunning
    <3>3. HeldOnce'
      <4>1. /\ pending' = pending /\ spawner' = spawner /\ HeldOnce
            /\ \A b \in Frames : thread'[b] = "live" <=> thread[b] = "live"
        BY <2>1, <2>3 DEF IInv
      <4>2. \A a \in Frames : \A h \in Handles :
               pending[a][h] # None => pending[a][h] \in Frames
        BY FramesAssumption DEF IInv
      <4>3. QED
        BY <4>1, <4>2 DEF HeldOnce
    <3>4. Abandoned'
      BY <2>1, <2>3 DEF IInv, Abandoned
    <3>5. Blocked'
      BY <2>1, <2>3 DEF IInv, Blocked
    <3>6. QED
      BY <3>1, <3>2, <3>3, <3>4, <3>5 DEF IInv
  <2>4. CASE outcome[c].code # "ok"
    <3>1. outcome[c] \in Results
      BY DEF IInv
    <3>2. \A b \in Frames :
             \/ [thread EXCEPT ![c] = "joined"][b] = thread[b]
             \/ thread[b] = "call" /\ [thread EXCEPT ![c] = "joined"][b] = "joined"
      BY <2>1 DEF IInv
    <3>3. QED
      BY <2>1, <2>2, <2>4, <3>1, <3>2, RaiseKeeps
  <2>5. QED
    BY <2>3, <2>4
<1>3. QED
  BY <1>1, <1>2

(* A return with no task left is the only way to end without a failure.     *)
LEMMA ReturnSteps ==
  ASSUME IInv, NEW f \in Frames, Return(f)
  PROVE  IInv'
<1> USE DEF Types
<1>1. mode[f] = "run" /\ UNCHANGED <<at, spawner, failure>>
  BY DEF Return, started
<1>2. at[f] \in Handles \cup {0} /\ at = [at EXCEPT ![f] = at[f]]
  BY DEF IInv
<1>3. CASE Held(pending[f]) # {}
  BY <1>1, <1>2, <1>3, MoveKeeps DEF Return
<1>4. CASE Held(pending[f]) = {}
  <2>1. PICK d \in {Ok, Primitive("fault", f)} : End(f, d, thread)
    BY <1>4 DEF Return
  <2>2. d \in Results
    BY OkIsResult, PrimitiveIsFailure DEF LeafCodes
  <2>3. \A h \in Handles : pending[f][h] = None
    BY <1>4 DEF Held
  <2>4. /\ thread' = thread /\ mode' = [mode EXCEPT ![f] = "done"]
        /\ outcome' = [outcome EXCEPT ![f] = d]
        /\ pending' = [pending EXCEPT ![f] = NoPending]
    BY <2>1, <2>3, FramesAssumption DEF End, IInv
  <2>5. pending[f] = NoPending /\ pending' = pending
    BY <2>3, <2>4 DEF IInv, NoPending
  <2>6. Types'
    BY <1>1, <2>2, <2>4, <2>5 DEF IInv, Modes
  <2>7. NotRunning'
    BY <1>1, <2>4, <2>5 DEF IInv, NotRunning
  <2>8. HeldOnce'
    BY <1>1, <2>4, <2>5 DEF IInv, HeldOnce
  <2>9. Abandoned'
    BY <1>1, <2>4 DEF IInv, Abandoned
  <2>10. Blocked'
    BY <1>1, <2>4 DEF IInv, Blocked
  <2>11. QED
    BY <2>6, <2>7, <2>8, <2>9, <2>10 DEF IInv
<1>5. QED
  BY <1>3, <1>4

----------------------------------------------------------------------------
THEOREM Invariant == Spec => []IInv
<1>1. IInv /\ [Next]_vars => IInv'
  <2> SUFFICES ASSUME IInv, [Next]_vars PROVE IInv'
    OBVIOUS
  <2>1. CASE UNCHANGED vars
    BY <2>1 DEF vars, IInv, Types, NotRunning, HeldOnce, Abandoned, Blocked
  <2>2. ASSUME NEW f \in Frames, Runtime(f) PROVE IInv'
    BY <2>2, JoinSteps, EndSteps, CallSteps DEF Runtime
  <2>3. ASSUME NEW f \in Frames, Statement(f) PROVE IInv'
    BY <2>3, BlockSteps, SpawnSteps, EndSteps, CallSteps, ReturnSteps DEF Statement
  <2>4. QED
    BY <2>1, <2>2, <2>3 DEF Next, Terminated
<1>2. QED
  BY InitIInv, <1>1, PTL DEF Spec

(* Each live thread is held by its spawner, under exactly one handle.       *)
THEOREM EachTaskHeldOnce == Spec => []HeldOnce
<1>1. IInv => HeldOnce
  BY DEF IInv
<1>2. QED
  BY Invariant, <1>1, PTL

(* A function that returns a value has joined all the tasks it spawned.     *)
THEOREM OkReturnJoinsAll == Spec => []OkMeansJoined
<1>1. IInv => OkMeansJoined
  <2> SUFFICES ASSUME IInv, NEW c \in Frames, thread[c] \in {"live", "detached"},
                      mode[spawner[c]] = "done"
               PROVE  outcome[spawner[c]].code # "ok"
    BY DEF OkMeansJoined
  <2>1. thread[c] # "live"
    BY FramesAssumption DEF IInv, HeldOnce, Abandoned, NotRunning, NoPending
  <2>2. QED
    BY <2>1 DEF IInv, Abandoned
<1>2. QED
  BY Invariant, <1>1, PTL

-----------------------------------------------------------------------------
(* Type correctness, for every value of the constants.                     *)

Scopes == [Frames -> Seq(Blocks)]

(* The types that the invariant of TaskGroupProofs leaves out.             *)
Rest ==
    /\ features \in Classes
    /\ inherited \in [Frames -> Tokens]
    /\ groups \in [Frames -> Seq(Tokens)]
    /\ entered \in [Frames -> 0..MaxGroups]
    /\ scope \in Scopes
    /\ visible \in [Frames -> SUBSET Handles]
    /\ bound \in [Frames -> [Handles -> Frames \cup {None}]]
    /\ values \in [Frames -> [Handles -> Frames \cup {None}]]
    /\ cancelled \subseteq Tokens
    /\ caught \subseteq LeafCodes

(* A set of positions in a sequence has a largest one.                     *)
LEMMA LargestExists ==
  ASSUME NEW n \in Nat, NEW S \in SUBSET (1..n), S # {}
  PROVE  \E i \in S : \A j \in S : j <= i
<1> DEFINE D == {n - j : j \in S}
<1>1. D \subseteq Nat /\ D # {}
  <2>1. \A j \in S : n - j \in Nat
    OBVIOUS
  <2>2. PICK j \in S : TRUE
    OBVIOUS
  <2>3. n - j \in D
    BY <2>2
  <2>4. QED
    BY <2>1, <2>3
<1>2. PICK d \in D : \A e \in D : ~(<<e, d>> \in OpToRel(<, Nat))
  BY <1>1, WFMin, NatLessThanWellFounded
<1>3. PICK i \in S : d = n - i
  OBVIOUS
<1>4. ASSUME NEW j \in S PROVE j <= i
  <2>1. n - j \in D /\ n - j \in Nat /\ d \in Nat
    BY <1>1
  <2>2. ~(n - j < d)
    BY <1>2, <2>1 DEF OpToRel
  <2>3. QED
    BY <1>3, <2>2
<1>5. QED
  BY <1>4

LEMMA PredInRange ==
  ASSUME NEW n \in Nat, n # 0, n # 1
  PROVE  n - 1 \in 1..(n - 1)
  OBVIOUS

LEMMA FrontIsSeq ==
  ASSUME NEW S, NEW s \in Seq(S)
  PROVE  Front(s) \in Seq(S)
<1>1. CASE s = <<>>
  BY <1>1 DEF Front
<1>2. CASE s # <<>>
  BY <1>2 DEF Front
<1>3. QED
  BY <1>1, <1>2

LEMMA BlockIsBlock ==
  ASSUME NEW k \in {"group", "try", "catch"}, NEW t \in Tokens \cup {NoToken},
         NEW n \in Nat, NEW v \in SUBSET Handles
  PROVE  Block(k, t, n, v) \in Blocks
  BY DEF Block, Blocks

(* An entry to the list of a block, or to what it awaited, leaves a block.  *)
LEMMA BlockExcept ==
  ASSUME NEW b \in Blocks, NEW l \in Seq(Handles), NEW a \in SUBSET Handles
  PROVE  [b EXCEPT !.list = l] \in Blocks /\ [b EXCEPT !.awaited = a] \in Blocks
  BY DEF Blocks

LEMMA InnermostIsGroup ==
  ASSUME Rest, NEW f \in Frames, InGroup(f)
  PROVE  Innermost(f) \in 1..Len(scope[f])
<1> DEFINE G == {i \in 1..Len(scope[f]) : scope[f][i].kind = "group"}
<1>1. G \in SUBSET (1..Len(scope[f])) /\ G # {} /\ Len(scope[f]) \in Nat
  <2>1. PICK i \in 1..Len(scope[f]) : scope[f][i].kind = "group"
    BY DEF InGroup
  <2>2. i \in G
    BY <2>1
  <2>3. scope[f] \in Seq(Blocks)
    BY DEF Rest, Scopes
  <2>4. QED
    BY <2>2, <2>3, LenProperties
<1>2. \E i \in G \cup {0} : \A j \in G : j <= i
  BY <1>1, LargestExists
<1>3. Innermost(f) \in G \cup {0} /\ \A j \in G : j <= Innermost(f)
  BY <1>2 DEF Innermost
<1>4. Innermost(f) # 0
  BY <1>1, <1>3
<1>5. QED
  BY <1>3, <1>4

LEMMA ListIsSeq ==
  ASSUME Rest, NEW f \in Frames
  PROVE  List(f) \in Seq(Handles)
<1>1. CASE InGroup(f)
  <2>1. scope[f][Innermost(f)] \in Blocks
    BY <1>1, InnermostIsGroup, ElementOfSeq DEF Rest, Scopes
  <2>2. QED
    BY <1>1, <2>1 DEF List, Blocks
<1>2. CASE ~InGroup(f)
  BY <1>2 DEF List
<1>3. QED
  BY <1>1, <1>2

----------------------------------------------------------------------------
(* What the steps do to the scope.                                          *)
LEMMA PushIsScope ==
  ASSUME Rest, NEW f \in Frames, NEW b \in Blocks
  PROVE  [scope EXCEPT ![f] = Append(@, b)] \in Scopes
  BY DEF Rest, Scopes

LEMMA PopIsScope ==
  ASSUME Rest, NEW f \in Frames
  PROVE  [scope EXCEPT ![f] = Front(@)] \in Scopes
<1>1. scope[f] \in Seq(Blocks)
  BY DEF Rest, Scopes
<1>2. Front(scope[f]) \in Seq(Blocks)
  BY <1>1, FrontIsSeq
<1>3. QED
  BY <1>2 DEF Rest, Scopes

LEMMA OutwardIsScope ==
  ASSUME Rest, NEW f \in Frames, scope[f] # <<>>
  PROVE  [scope EXCEPT ![f] = Outward(@)] \in Scopes
<1> DEFINE s == scope[f]
           n == Len(s)
<1>1. s \in Seq(Blocks) /\ n \in Nat /\ n # 0
  BY DEF Rest, Scopes
<1>2. CASE n = 1
  <2>1. Outward(s) = <<>>
    BY <1>2 DEF Outward
  <2>2. QED
    BY <2>1 DEF Rest, Scopes
<1>3. CASE n # 1
  <2>1. /\ Front(s) \in Seq(Blocks) /\ Len(Front(s)) = n - 1
        /\ n - 1 \in 1..Len(Front(s))
    <3>1. n - 1 \in Nat /\ n - 1 # 0
      BY <1>1, <1>3
    <3>2. Front(s) \in Seq(Blocks)
      BY <1>1, FrontIsSeq
    <3>3. Len(SubSeq(s, 1, n - 1)) = n - 1
      BY <1>1, <3>1
    <3>4. Front(s) = SubSeq(s, 1, n - 1)
      BY DEF Front
    <3>5. Len(Front(s)) = n - 1
      BY <3>3, <3>4
    <3>6. n - 1 \in 1..(n - 1)
      BY <1>1, <1>3, PredInRange
    <3>7. QED
      BY <3>2, <3>5, <3>6
  <2>2. Front(s)[n - 1] \in Blocks /\ s[n] \in Blocks
    BY <1>1, <1>3, <2>1
  <2>3. [Front(s)[n - 1] EXCEPT !.awaited = @ \cup s[n].awaited] \in Blocks
    BY <2>2 DEF Blocks
  <2>4. Outward(s) = [Front(s) EXCEPT ![n - 1] =
                         [Front(s)[n - 1] EXCEPT !.awaited = @ \cup s[n].awaited]]
    BY <1>3, <2>1 DEF Outward
  <2>5. Outward(s) \in Seq(Blocks)
    BY <2>1, <2>3, <2>4, ExceptSeq
  <2>6. QED
    BY <2>5 DEF Rest, Scopes
<1>4. QED
  BY <1>2, <1>3

LEMMA NoteAwaitIsScope ==
  ASSUME Rest, NEW f \in Frames, NEW h \in Handles, NoteAwait(f, h)
  PROVE  scope' \in Scopes
<1> DEFINE s == scope[f]
           n == Len(s)
<1>1. s \in Seq(Blocks) /\ n \in Nat
  BY DEF Rest, Scopes
<1>2. CASE s = <<>>
  BY <1>2 DEF NoteAwait, Rest, Scopes
<1>3. CASE s # <<>>
  <2>1. n \in 1..Len(s) /\ s[n] \in Blocks
    BY <1>1, <1>3
  <2>2. [s[n] EXCEPT !.awaited = @ \cup {h}] \in Blocks
    BY <2>1 DEF Blocks
  <2>3. [s EXCEPT ![n] = [s[n] EXCEPT !.awaited = @ \cup {h}]] \in Seq(Blocks)
    BY <1>1, <2>1, <2>2, ExceptSeq
  <2>4. scope' = [scope EXCEPT ![f] =
                     [s EXCEPT ![n] = [s[n] EXCEPT !.awaited = @ \cup {h}]]]
    BY <1>1, <1>3 DEF NoteAwait, Rest, Scopes
  <2>5. QED
    BY <2>3, <2>4 DEF Rest, Scopes
<1>4. QED
  BY <1>2, <1>3

LEMMA DroppedIsSeq ==
  ASSUME NEW s \in Seq(Handles), NEW h \in Handles
  PROVE  Dropped(s, h) \in Seq(Handles)
<1>1. CASE h \in Range(s)
  <2> DEFINE i == CHOOSE i \in DOMAIN s : s[i] = h
  <2>1. \E j \in DOMAIN s : s[j] = h
    BY <1>1 DEF Range
  <2>2. i \in 1..Len(s)
    BY <2>1
  <2> HIDE DEF i
  <2>3. SubSeq(s, 1, i - 1) \in Seq(Handles) /\ SubSeq(s, i + 1, Len(s)) \in Seq(Handles)
    BY <2>2
  <2>4. RemoveAt(s, i) \in Seq(Handles)
    BY <2>3, ConcatProperties DEF RemoveAt
  <2>5. QED
    BY <1>1, <2>4 DEF Dropped, i
<1>2. CASE h \notin Range(s)
  BY <1>2 DEF Dropped
<1>3. QED
  BY <1>1, <1>2

LEMMA StartInGroup ==
  ASSUME Rest, NEW f \in Frames, NEW h \in Handles, NEW c \in Frames,
         InGroup(f), Start(f, h, c)
  PROVE  scope' \in Scopes
<1> DEFINE s == scope[f]
           g == Innermost(f)
           n == Len(s)
           b == [s[g] EXCEPT !.list = Append(Dropped(@, h), h)]
           t == [s EXCEPT ![g] = b]
           u == [t EXCEPT ![n] = [t[n] EXCEPT !.awaited = @ \ {h}]]
<1>1. s \in Seq(Blocks) /\ n \in Nat /\ g \in 1..n /\ n \in 1..n
  BY InnermostIsGroup DEF Rest, Scopes
<1>2. s[g] \in Blocks
  BY <1>1
<1>3. b \in Blocks
  <2>1. s[g].list \in Seq(Handles)
    BY <1>2 DEF Blocks
  <2>2. Append(Dropped(s[g].list, h), h) \in Seq(Handles)
    BY <2>1, DroppedIsSeq
  <2>3. QED
    BY <1>2, <2>2 DEF Blocks
<1>4. t \in Seq(Blocks) /\ Len(t) = n
  BY <1>1, <1>3, ExceptSeq
<1>5. [t[n] EXCEPT !.awaited = @ \ {h}] \in Blocks
  <2>1. t[n] \in Blocks
    BY <1>1, <1>4
  <2> HIDE DEF t
  <2>2. QED
    BY <2>1 DEF Blocks
<1>6. u \in Seq(Blocks)
  BY <1>1, <1>4, <1>5, ExceptSeq
<1>7. scope' = [scope EXCEPT ![f] = t] \/ scope' = [scope EXCEPT ![f] = u]
  <2> DEFINE noted == [scope EXCEPT ![f][g].list = Append(Dropped(@, h), h)]
  <2>1. noted = [scope EXCEPT ![f] = t]
    BY <1>1 DEF Rest, Scopes
  <2>2. scope' = [noted EXCEPT ![f][n].awaited = @ \ {h}] \/ scope' = noted
    BY DEF Start
  <2>3. [noted EXCEPT ![f][n].awaited = @ \ {h}] = [scope EXCEPT ![f] = u]
    <3>1. noted[f] = t
      BY <2>1 DEF Rest, Scopes
    <3>2. [noted EXCEPT ![f][n].awaited = @ \ {h}]
             = [noted EXCEPT ![f] = [noted[f] EXCEPT ![n] =
                                       [noted[f][n] EXCEPT !.awaited = @ \ {h}]]]
      OBVIOUS
    <3> HIDE DEF t, noted
    <3>3. [noted EXCEPT ![f] = u] = [scope EXCEPT ![f] = u]
      BY <2>1 DEF Rest, Scopes
    <3>4. QED
      BY <3>1, <3>2, <3>3
  <2>4. QED
    BY <2>1, <2>2, <2>3
<1> HIDE DEF t, u
<1>8. QED
  BY <1>4, <1>6, <1>7 DEF Rest, Scopes

LEMMA StartIsScope ==
  ASSUME Rest, NEW f \in Frames, NEW h \in Handles, NEW c \in Frames, Start(f, h, c)
  PROVE  scope' \in Scopes
<1>1. CASE InGroup(f)
  BY <1>1, StartInGroup
<1>2. CASE ~InGroup(f)
  <2>1. {i \in 1..Len(scope[f]) : scope[f][i].kind = "group"} = {}
    BY <1>2 DEF InGroup
  <2>2. Innermost(f) = 0
    BY <2>1 DEF Innermost
  <2>3. h \notin Range(List(f))
    BY <1>2 DEF List, Range
  <2>4. scope' = [scope EXCEPT ![f][0].list = Append(Dropped(@, h), h)]
    BY <2>2, <2>3 DEF Start
  <2>5. scope[f] \in Seq(Blocks) /\ 0 \notin DOMAIN scope[f]
    BY DEF Rest, Scopes
  <2>6. \A X : [scope[f] EXCEPT ![0] = X] = scope[f]
    BY <2>5
  <2>7. scope' = scope
    BY <2>4, <2>6 DEF Rest, Scopes
  <2>8. QED
    BY <2>7 DEF Rest
<1>3. QED
  BY <1>1, <1>2

----------------------------------------------------------------------------
(* The actions.                                                             *)
LEMMA EndTypes ==
  ASSUME Rest, NEW f \in Frames, NEW d, NEW th, End(f, d, th),
         UNCHANGED <<features, inherited, entered, cancelled>>
  PROVE  Rest'
<1>1. NoPending \in [Handles -> Frames \cup {None}] /\ <<>> \in Seq(Tokens)
      /\ <<>> \in Seq(Blocks)
  BY DEF NoPending
<1>2. QED
  BY <1>1 DEF End, Rest, Scopes

LEMMA RaiseTypes ==
  ASSUME Rest, NEW f \in Frames, NEW d \in Results, NEW th, Raise(f, d, th),
         features' = features
  PROVE  Rest'
<1>1. UNCHANGED <<features, inherited, entered, cancelled>>
  BY DEF Raise, started
<1>2. CASE Catchable(d) /\ Tries(f) # {}
  <2> DEFINE i == CHOOSE i \in Tries(f) : \A j \in Tries(f) : j <= i
             s == scope[f]
             b == Block("catch", NoToken, Len(List(f)), s[i].before)
  <2>1. s \in Seq(Blocks) /\ Len(s) \in Nat
    BY DEF Rest, Scopes
  <2>2. i \in 1..Len(s)
    <3>1. Tries(f) \in SUBSET (1..Len(s))
      BY DEF Tries
    <3>2. \E j \in Tries(f) : \A k \in Tries(f) : k <= j
      BY <1>2, <2>1, <3>1, LargestExists
    <3>3. QED
      BY <3>1, <3>2
  <2>3. /\ scope' = [scope EXCEPT ![f] = Append(SubSeq(s, 1, i - 1), b)]
        /\ visible' = [visible EXCEPT ![f] = s[i].before]
        /\ caught' = caught \cup {l[1] : l \in d.leaves}
        /\ UNCHANGED <<groups, bound, values>>
    BY <1>2 DEF Raise
  <2> HIDE DEF i
  <2>4. s[i] \in Blocks
    BY <2>1, <2>2
  <2>5. s[i].before \in SUBSET Handles
    BY <2>4 DEF Blocks
  <2>6. b \in Blocks
    BY <2>5, ListIsSeq, BlockIsBlock
  <2> HIDE DEF b
  <2>7. SubSeq(s, 1, i - 1) \in Seq(Blocks)
    BY <2>1, <2>2
  <2>8. Append(SubSeq(s, 1, i - 1), b) \in Seq(Blocks)
    BY <2>6, <2>7
  <2>9. {l[1] : l \in d.leaves} \subseteq LeafCodes
    BY DEF Results
  <2>10. scope' \in Scopes
    BY <2>3, <2>8 DEF Rest, Scopes
  <2>11. QED
    BY <1>1, <2>3, <2>5, <2>9, <2>10 DEF Rest
<1>3. CASE ~(Catchable(d) /\ Tries(f) # {})
  BY <1>1, <1>3, EndTypes DEF Raise
<1>4. QED
  BY <1>2, <1>3

LEMMA PrimitiveRaiseTypes ==
  ASSUME Rest, NEW f \in Frames, NEW c \in LeafCodes, NEW th,
         Raise(f, Primitive(c, f), th), features' = features
  PROVE  Rest'
  BY PrimitiveIsFailure, RaiseTypes

LEMMA StartTypes ==
  ASSUME Rest, NEW f \in Frames, NEW h \in Handles, NEW c \in Frames,
         Start(f, h, c),
         UNCHANGED <<features, groups, entered, values, cancelled, caught>>
  PROVE  Rest'
<1>1. scope' \in Scopes
  BY StartIsScope
<1>2. Current(f) \in Tokens
  BY DEF Current, Rest
<1>3. QED
  BY <1>1, <1>2 DEF Start, Rest

LEMMA BlockTypes ==
  ASSUME Rest, NEW f \in Frames, features' = features,
         \/ EnterGroup(f) \/ LeaveGroup(f) \/ EnterTry(f) \/ LeaveTry(f) \/ Break(f)
  PROVE  Rest'
<1> USE DEF started, locals
<1>1. /\ scope[f] \in Seq(Blocks) /\ visible[f] \in SUBSET Handles
      /\ Front(groups[f]) \in Seq(Tokens) /\ List(f) \in Seq(Handles)
  BY ListIsSeq, FrontIsSeq DEF Rest, Scopes
<1>2. ASSUME scope[f] # <<>> PROVE Top(f).before \in SUBSET Handles
  <2>1. Top(f) \in Blocks
    BY <1>1, <1>2 DEF Top
  <2>2. QED
    BY <2>1 DEF Blocks
<1>3. CASE EnterGroup(f)
  <2> DEFINE t == <<f, entered[f] + 1>>
             b == Block("group", t, 0, visible[f])
  <2>1. entered[f] \in 0..MaxGroups /\ entered[f] < MaxGroups
    BY <1>3 DEF EnterGroup, Rest
  <2>2. entered[f] + 1 \in 0..MaxGroups
    BY <2>1, BoundsAssumption
  <2>3. t \in Tokens
    BY <2>2 DEF Tokens
  <2>4. b \in Blocks
    BY <1>1, <2>3, BlockIsBlock
  <2>5. /\ groups' = [groups EXCEPT ![f] = Append(@, t)]
        /\ scope' = [scope EXCEPT ![f] = Append(@, b)]
        /\ entered' = [entered EXCEPT ![f] = @ + 1]
        /\ UNCHANGED <<inherited, visible, bound, values, cancelled, caught>>
    BY <1>3 DEF EnterGroup
  <2> HIDE DEF t, b
  <2>6. scope' \in Scopes
    BY <2>4, <2>5, PushIsScope
  <2>7. QED
    BY <2>2, <2>3, <2>5, <2>6 DEF Rest
<1>4. CASE LeaveGroup(f)
  <2>1. scope' \in Scopes
    BY <1>4, OutwardIsScope DEF LeaveGroup
  <2>2. QED
    BY <1>1, <1>4, <2>1 DEF LeaveGroup, Rest
<1>5. CASE EnterTry(f)
  <2>1. Block("try", NoToken, Len(List(f)), visible[f]) \in Blocks
    <3>1. Len(List(f)) \in Nat
      BY <1>1
    <3>2. QED
      BY <1>1, <3>1, BlockIsBlock
  <2>2. scope' \in Scopes
    BY <1>5, <2>1, PushIsScope DEF EnterTry
  <2>3. QED
    BY <1>5, <2>2 DEF EnterTry, Rest
<1>6. CASE LeaveTry(f)
  <2>1. scope' \in Scopes
    BY <1>6, PopIsScope DEF LeaveTry
  <2>2. QED
    BY <1>2, <1>6, <2>1 DEF LeaveTry, Rest
<1>7. CASE Break(f)
  <2>1. scope' \in Scopes
    BY <1>7, PopIsScope DEF Break
  <2>2. QED
    BY <1>2, <1>7, <2>1 DEF Break, Rest
<1>8. QED
  BY <1>3, <1>4, <1>5, <1>6, <1>7

LEMMA SpawnTypes ==
  ASSUME Rest, NEW f \in Frames, NEW h \in Handles, features' = features,
         \/ Spawn(f, h) \/ SpawnAtLimit(f, h) \/ SpawnRebind(f, h)
         \/ Await(f, h) \/ AwaitStored(f, h) \/ AwaitCounted(f, h) \/ AwaitMissing(f, h)
  PROVE  Rest'
<1> USE DEF started, locals
<1>1. CASE Spawn(f, h)
  BY <1>1, StartTypes DEF Spawn
<1>2. CASE SpawnAtLimit(f, h) \/ AwaitMissing(f, h)
  BY <1>2, PrimitiveRaiseTypes DEF SpawnAtLimit, AwaitMissing, LeafCodes
<1>3. CASE SpawnRebind(f, h) \/ Await(f, h)
  BY <1>3 DEF SpawnRebind, Await, Rest, Scopes
<1>4. CASE AwaitStored(f, h) \/ AwaitCounted(f, h)
  <2>1. scope' \in Scopes
    BY <1>4, NoteAwaitIsScope DEF AwaitStored, AwaitCounted
  <2>2. QED
    BY <1>4, <2>1 DEF AwaitStored, AwaitCounted, Rest
<1>5. QED
  BY <1>1, <1>2, <1>3, <1>4

LEMMA JoinTypes ==
  ASSUME IInv, Rest, NEW f \in Frames, features' = features,
         AwaitJoin(f) \/ RebindJoin(f) \/ DrainJoin(f) \/ LeakJoin(f)
  PROVE  Rest'
<1> USE DEF started, locals
<1>1. cancelled \cup {Current(f)} \subseteq Tokens
  BY DEF Rest, Current
<1>2. CASE AwaitJoin(f)
  <2>1. at[f] \in Handles /\ pending[f][at[f]] \in Frames
    BY <1>2 DEF AwaitJoin, Joinable, IInv, Types, Blocked
  <2>2. scope' \in Scopes
    BY <1>2, <2>1, NoteAwaitIsScope DEF AwaitJoin, Rest
  <2>3. cancelled' \subseteq Tokens
    BY <1>1, <1>2 DEF AwaitJoin, FailGroup, Rest
  <2>4. values' \in [Frames -> [Handles -> Frames \cup {None}]]
    <3>1. values' = values \/ values' = [values EXCEPT ![f][at[f]] = pending[f][at[f]]]
      BY <1>2 DEF AwaitJoin
    <3>2. [values EXCEPT ![f][at[f]] = pending[f][at[f]]]
             \in [Frames -> [Handles -> Frames \cup {None}]]
      BY <2>1 DEF Rest
    <3>3. QED
      BY <3>1, <3>2 DEF Rest
  <2>5. UNCHANGED <<inherited, entered, groups, visible, bound, caught>>
    BY <1>2 DEF AwaitJoin
  <2>6. QED
    BY <2>2, <2>3, <2>4, <2>5 DEF Rest
<1>3. CASE RebindJoin(f)
  <2>1. cancelled' \subseteq Tokens
    BY <1>1, <1>3 DEF RebindJoin, FailGroup, Rest
  <2>2. QED
    BY <1>3, <2>1 DEF RebindJoin, Rest, Scopes
<1>4. CASE DrainJoin(f) \/ LeakJoin(f)
  BY <1>4 DEF DrainJoin, LeakJoin, Rest, Scopes
<1>5. QED
  BY <1>2, <1>3, <1>4

LEMMA OtherTypes ==
  ASSUME IInv, Rest, NEW f \in Frames, features' = features,
         \/ RebindStart(f) \/ DrainEnd(f) \/ LeakEnd(f) \/ Call(f) \/ CallReturn(f)
         \/ Fault(f) \/ Exit(f) \/ BackEdge(f) \/ Return(f)
  PROVE  Rest'
<1> USE DEF started, locals
<1>1. CASE RebindStart(f)
  <2>1. at[f] \in Handles
    BY <1>1 DEF RebindStart, IInv, Blocked
  <2>2. CASE Raise(f, Primitive("fault", f), thread)
    BY <2>2, PrimitiveRaiseTypes DEF LeafCodes
  <2>3. CASE ~Raise(f, Primitive("fault", f), thread)
    <3>1. PICK c \in Frames :
             /\ Start(f, at[f], c)
             /\ UNCHANGED <<groups, entered, values, cancelled, caught>>
      BY <1>1, <2>3 DEF RebindStart
    <3>2. QED
      BY <2>1, <3>1, StartTypes
  <2>4. QED
    BY <2>2, <2>3
<1>2. CASE DrainEnd(f)
  <2>1. failure[f] \in Results
    BY DEF IInv, Types
  <2>2. QED
    BY <1>2, <2>1, RaiseTypes DEF DrainEnd
<1>3. CASE Call(f)
  <2>1. Current(f) \in Tokens
    BY DEF Current, Rest
  <2>2. PICK c \in Frames :
           /\ inherited' = [inherited EXCEPT ![c] = Current(f)]
           /\ UNCHANGED <<entered, locals, scope, cancelled, caught>>
    BY <1>3 DEF Call
  <2>3. inherited' \in [Frames -> Tokens]
    BY <2>1, <2>2 DEF Rest
  <2>4. QED
    BY <2>2, <2>3 DEF Rest, Scopes
<1>4. CASE CallReturn(f)
  <2>1. PICK c \in Frames :
           \/ UNCHANGED <<started, locals, scope, cancelled, caught>>
           \/ Raise(f, outcome[c], [thread EXCEPT ![c] = "joined"])
    BY <1>4 DEF CallReturn
  <2>2. outcome[c] \in Results
    BY DEF IInv, Types
  <2>3. CASE Raise(f, outcome[c], [thread EXCEPT ![c] = "joined"])
    BY <2>2, <2>3, RaiseTypes
  <2>4. CASE UNCHANGED <<started, locals, scope, cancelled, caught>>
    BY <2>4 DEF Rest, Scopes
  <2>5. QED
    BY <2>1, <2>3, <2>4
<1>5. CASE LeakEnd(f) \/ Fault(f) \/ Exit(f) \/ BackEdge(f)
  BY <1>5, PrimitiveRaiseTypes DEF LeakEnd, Fault, Exit, BackEdge, LeafCodes
<1>6. CASE Return(f)
  <2>1. CASE Held(pending[f]) # {}
    BY <1>6, <2>1 DEF Return, Rest, Scopes
  <2>2. CASE Held(pending[f]) = {}
    BY <1>6, <2>2, EndTypes DEF Return
  <2>3. QED
    BY <2>1, <2>2
<1>7. QED
  BY <1>1, <1>2, <1>3, <1>4, <1>5, <1>6

LEMMA InitTypes == Init => Rest
<1> SUFFICES ASSUME Init PROVE Rest
  OBVIOUS
<1>1. RootToken \in Tokens
  BY FramesAssumption, BoundsAssumption DEF RootToken, Tokens
<1>2. 0 \in 0..MaxGroups
  BY BoundsAssumption
<1>3. NoPending \in [Handles -> Frames \cup {None}]
  BY DEF NoPending
<1>4. QED
  BY <1>1, <1>2, <1>3 DEF Init, Rest, Scopes

----------------------------------------------------------------------------
(* Type correctness: in every step of every program each variable keeps its *)
(* type, a blocked frame knows what it joins, and a drain has a failure.    *)
THEOREM TypeCorrect == Spec => []TypeOK
<1>1. IInv /\ Rest /\ [Next]_vars => Rest'
  <2> SUFFICES ASSUME IInv, Rest, [Next]_vars PROVE Rest'
    OBVIOUS
  <2>1. CASE UNCHANGED vars
    BY <2>1 DEF vars, Rest, Scopes
  <2>2. ASSUME NEW f \in Frames, Runtime(f), features' = features PROVE Rest'
    BY <2>2, JoinTypes, OtherTypes DEF Runtime
  <2>3. ASSUME NEW f \in Frames, Statement(f), features' = features PROVE Rest'
    BY <2>3, BlockTypes, SpawnTypes, OtherTypes DEF Statement
  <2>4. QED
    BY <2>1, <2>2, <2>3 DEF Next, Terminated
<1>2. IInv /\ Rest => TypeOK
  BY DEF IInv, Types, Rest, Scopes, TypeOK
<1>3. QED
  BY Invariant, InitTypes, <1>1, <1>2, PTL DEF Spec

----------------------------------------------------------------------------
(* Programs without try.  A failing frame ends there, so a step is one of a *)
(* few kinds (Kinds), and the four properties about such programs follow    *)
(* from invariants about single frames (ShapeOf, ValuesOf, OwedOf) and      *)
(* about frames and their spawners (Cancels, Tally).                        *)

TryFree == Without({"try"})
Straight == Without({"try", "jump"})
Plain == Without({"nest", "try", "jump", "early", "skip"})

(* Every open block is a group and each has a token of its own frame on the *)
(* stack; a break leaves tokens behind, without jumps the stack is that of  *)
(* the open groups.  Who joins a task by name is in a group.                *)
ShapeOf(f) ==
    /\ \A i \in 1..Len(scope[f]) : scope[f][i].kind = "group"
    /\ Len(scope[f]) <= Len(groups[f])
    /\ \A i \in 1..Len(groups[f]) : groups[f][i][1] = f
    /\ mode[f] \in {"await", "rebind"} => Len(scope[f]) # 0
    /\ Straight =>
          /\ Len(scope[f]) = Len(groups[f])
          /\ \A i \in 1..Len(scope[f]) : scope[f][i].tok = groups[f][i]
Shapes == \A f \in Frames : ShapeOf(f)

(* A live task is the last one bound to its handle; a value that may be     *)
(* awaited is that task's.                                                  *)
ValuesOf(f) ==
    \A h \in Handles :
        /\ mode[f] = "idle" => values[f][h] = None
        /\ pending[f][h] # None => bound[f][h] = pending[f][h]
        /\ (/\ mode[f] \in {"run", "await", "call", "rebind"}
            /\ mode[f] = "rebind" => at[f] # h
            /\ pending[f][h] = None /\ values[f][h] # None)
           => values[f][h] = bound[f][h]
Values == \A f \in Frames : ValuesOf(f)


(* A frame's thread runs with a token of its spawner, a callee with that of *)
(* its caller, which waits for it alone.                                    *)
TokenFromAbove(c) ==
    /\ thread[c] = "live" => inherited[c][1] = spawner[c]
    /\ thread[c] = "call" /\ spawner[c] # None =>
          /\ mode[spawner[c]] = "call" /\ inherited[c] = Current(spawner[c])
          /\ \A d \in Frames : thread[d] = "call" /\ spawner[d] = spawner[c] => d = c
TokensFromAbove == \A c \in Frames : TokenFromAbove(c)

(* Only a frame that fails cancels a token, one of its own; so a frame that *)
(* ends as cancelled ran in a group that has failed, and its spawner, which *)
(* drains that group, does not count it.                                    *)
Clean(d) == d.code # "cancelled" /\ \A g \in Frames : <<"cancelled", g>> \notin d.leaves
CancelOf(f) ==
    /\ \A n \in 0..MaxGroups : <<f, n>> \in cancelled => mode[f] \in {"drain", "done"}
    /\ mode[f] = "done" /\ outcome[f].code = "cancelled" => inherited[f] \in cancelled
    /\ mode[f] = "drain" => Clean(failure[f])
    /\ mode[f] = "done" /\ outcome[f].code # "cancelled" => Clean(outcome[f])
    /\ mode[f] # "done" => outcome[f] = Ok
Cancels == \A f \in Frames : CancelOf(f)

(* In plain programs a live handle is owed by the one group of its frame,   *)
(* so none is left when the group ends or the frame returns.                *)
OwedOf(f) ==
    /\ Len(scope[f]) <= 1 /\ mode[f] \notin {"leak", "rebind"}
    /\ \A h \in Handles : pending[f][h] # None =>
          /\ Len(scope[f]) = 1
          /\ h \in Range(scope[f][1].list) /\ h \notin scope[f][1].awaited
Owes == \A f \in Frames : OwedOf(f)

(* A failure that was joined is in what its spawner reports, or will; or it *)
(* was joined on the leak path, on which no plain program comes.            *)
Leaks(f) ==
    \/ mode[f] = "leak"
    \/ mode[f] = "done" /\ outcome[f] = Primitive("leak", f)
TalliedOf(c) ==
    thread[c] = "joined" =>
        /\ mode[c] = "done" /\ spawner[c] \in Frames
        /\ outcome[c].code \notin {"ok", "cancelled"} =>
              \/ mode[spawner[c]] = "drain" /\ outcome[c].leaves \subseteq failure[spawner[c]].leaves
              \/ mode[spawner[c]] = "done" /\ outcome[c].leaves \subseteq outcome[spawner[c]].leaves
              \/ ~Plain /\ Leaks(spawner[c])
Tally == \A c \in Frames : TalliedOf(c)

(* What a step does to the blocks of its frame.                            *)

SameShape(s, t) ==
    /\ Len(t) = Len(s)
    /\ \A i \in 1..Len(s) : t[i].kind = s[i].kind /\ t[i].tok = s[i].tok

LEMMA FieldExcept ==
  ASSUME NEW b \in Blocks, NEW l, NEW a
  PROVE  /\ [b EXCEPT !.list = l].kind = b.kind /\ [b EXCEPT !.list = l].tok = b.tok
         /\ [b EXCEPT !.list = l].list = l /\ [b EXCEPT !.list = l].awaited = b.awaited
         /\ [b EXCEPT !.awaited = a].kind = b.kind /\ [b EXCEPT !.awaited = a].tok = b.tok
         /\ [b EXCEPT !.awaited = a].list = b.list /\ [b EXCEPT !.awaited = a].awaited = a
  BY DEF Blocks

LEMMA NoteAwaitEffect ==
  ASSUME Rest, NEW f \in Frames, NEW h \in Handles, NoteAwait(f, h)
  PROVE  /\ \A g \in Frames \ {f} : scope'[g] = scope[g]
         /\ SameShape(scope[f], scope'[f])
         /\ \A i \in 1..Len(scope[f]) :
               /\ scope'[f][i].list = scope[f][i].list
               /\ scope'[f][i].awaited = IF i = Len(scope[f]) THEN scope[f][i].awaited \cup {h}
                                                               ELSE scope[f][i].awaited
<1> DEFINE s == scope[f]
           n == Len(s)
<1>1. s \in Seq(Blocks) /\ n \in Nat
  BY DEF Rest, Scopes
<1>2. CASE s = <<>>
  BY <1>2 DEF NoteAwait, SameShape
<1>3. CASE s # <<>>
  <2>1. n \in 1..Len(s) /\ s[n] \in Blocks
    BY <1>1, <1>3
  <2> DEFINE b == [s[n] EXCEPT !.awaited = s[n].awaited \cup {h}]
             t == [s EXCEPT ![n] = b]
  <2>2. b.kind = s[n].kind /\ b.tok = s[n].tok /\ b.list = s[n].list /\ b.awaited = s[n].awaited \cup {h}
    BY <2>1, FieldExcept
  <2>3. scope' = [scope EXCEPT ![f] = t]
    BY <1>1, <1>3 DEF NoteAwait, Rest, Scopes
  <2> HIDE DEF b
  <2>4. Len(t) = n /\ \A i \in 1..n : t[i] = IF i = n THEN b ELSE s[i]
    BY <1>1
  <2> HIDE DEF t
  <2>5. scope'[f] = t /\ \A g \in Frames \ {f} : scope'[g] = scope[g]
    BY <2>3 DEF Rest, Scopes
  <2>6. QED
    BY <2>2, <2>4, <2>5 DEF SameShape
<1>4. QED
  BY <1>2, <1>3

LEMMA FrontEffect ==
  ASSUME NEW S, NEW s \in Seq(S), s # <<>>
  PROVE  /\ Len(Front(s)) = Len(s) - 1 /\ Len(s) \in Nat \ {0}
         /\ \A i \in 1..(Len(s) - 1) : Front(s)[i] = s[i]
<1>1. Len(s) \in Nat \ {0} /\ Front(s) = SubSeq(s, 1, Len(s) - 1)
  BY DEF Front
<1> DEFINE m == Len(s) - 1
<1>2. m \in Nat /\ m < Len(s)
  BY <1>1
<1> HIDE DEF m
<1>3. Len(SubSeq(s, 1, m)) = m /\ \A i \in 1..m : SubSeq(s, 1, m)[i] = s[i]
  BY <1>1, <1>2
<1>4. QED
  BY <1>1, <1>3 DEF m

LEMMA OutwardEffect ==
  ASSUME NEW s \in Seq(Blocks), s # <<>>
  PROVE  /\ Len(Outward(s)) = Len(s) - 1 /\ Len(s) \in Nat \ {0}
         /\ \A i \in 1..(Len(s) - 1) : Outward(s)[i].kind = s[i].kind /\ Outward(s)[i].tok = s[i].tok
<1> DEFINE n == Len(s)
<1>1. n \in Nat \ {0}
  OBVIOUS
<1>2. CASE n = 1
  BY <1>2 DEF Outward
<1>3. CASE n # 1
  <2>1. /\ Front(s) \in Seq(Blocks) /\ Len(Front(s)) = n - 1
        /\ \A i \in 1..(n - 1) : Front(s)[i] = s[i]
    BY FrontEffect, FrontIsSeq
  <2>2. n - 1 \in 1..(n - 1) /\ s[n - 1] \in Blocks
    <3>1. n - 1 \in 1..(n - 1) /\ n - 1 \in 1..n
      BY <1>1, <1>3, PredInRange
    <3>2. QED
      BY <3>1
  <2> DEFINE b == [Front(s)[n - 1] EXCEPT !.awaited = Front(s)[n - 1].awaited \cup s[n].awaited]
  <2>3. b.kind = s[n - 1].kind /\ b.tok = s[n - 1].tok
    BY <2>1, <2>2, FieldExcept
  <2>4. Outward(s) = [Front(s) EXCEPT ![n - 1] = b]
    BY <1>3, <2>1 DEF Outward
  <2> HIDE DEF b
  <2>5. /\ Len(Outward(s)) = n - 1
        /\ \A i \in 1..(n - 1) : Outward(s)[i] = IF i = n - 1 THEN b ELSE Front(s)[i]
    BY <2>1, <2>2, <2>4
  <2>6. QED
    BY <1>1, <2>1, <2>3, <2>5
<1>4. QED
  BY <1>1, <1>2, <1>3

(* The handle that leaves a list is put back at its end.                   *)
LEMMA DroppedRange ==
  ASSUME NEW s \in Seq(Handles), NEW h \in Handles
  PROVE  /\ Range(s) \subseteq Range(Append(Dropped(s, h), h))
         /\ h \in Range(Append(Dropped(s, h), h))
<1> DEFINE d == Dropped(s, h)
<1>1. d \in Seq(Handles)
  BY DroppedIsSeq
<1>2. \A x \in Range(s) : x # h => x \in Range(d)
  <2>1. CASE h \notin Range(s)
    BY <2>1 DEF Dropped
  <2>2. CASE h \in Range(s)
    <3> DEFINE i == CHOOSE i \in DOMAIN s : s[i] = h
    <3>1. \E j \in DOMAIN s : s[j] = h
      BY <2>2 DEF Range
    <3>2. i \in 1..Len(s) /\ s[i] = h /\ Len(s) \in Nat
      BY <3>1
    <3>3. d = RemoveAt(s, i)
      BY <2>2 DEF Dropped
    <3> HIDE DEF i, d
    <3> DEFINE p == SubSeq(s, 1, i - 1)
               q == SubSeq(s, i + 1, Len(s))
    <3>4. /\ p \in Seq(Handles) /\ Len(p) = i - 1 /\ \A j \in 1..(i - 1) : p[j] = s[j]
          /\ q \in Seq(Handles) /\ Len(q) = Len(s) - i /\ \A j \in 1..(Len(s) - i) : q[j] = s[i + j]
      <4>1. p \in Seq(Handles) /\ Len(p) = i - 1 /\ \A j \in 1..(i - 1) : p[j] = s[j]
        BY <3>2
      <4>2. q \in Seq(Handles) /\ Len(q) = Len(s) - i
        BY <3>2
      <4>3. \A j \in 1..(Len(s) - i) : q[j] = s[(i + 1) + j - 1]
        BY <3>2
      <4>4. QED
        BY <3>2, <4>1, <4>2, <4>3
    <3>5. d = p \o q
      BY <3>3 DEF RemoveAt
    <3> HIDE DEF p, q
    <3>6. /\ Len(d) = Len(s) - 1
          /\ \A j \in 1..(i - 1) : d[j] = s[j]
          /\ \A j \in 1..(Len(s) - i) : d[(i - 1) + j] = s[i + j]
      <4>1. /\ Len(p \o q) = (i - 1) + (Len(s) - i)
            /\ \A j \in 1..(i - 1) : (p \o q)[j] = p[j]
            /\ \A j \in 1..(Len(s) - i) : (p \o q)[(i - 1) + j] = q[j]
        <5>1. /\ Len(p \o q) = Len(p) + Len(q)
              /\ \A j \in 1..(Len(p) + Len(q)) : (p \o q)[j] = IF j <= Len(p) THEN p[j] ELSE q[j - Len(p)]
          BY <3>4, ConcatProperties
        <5>2. i - 1 \in Nat /\ Len(s) - i \in Nat
          BY <3>2
        <5>3. \A j \in 1..(Len(s) - i) : (i - 1) + j \in 1..(Len(p) + Len(q)) /\ ((i - 1) + j) - (i - 1) = j
          BY <3>2, <3>4, <5>2
        <5>4. QED
          BY <3>4, <5>1, <5>2, <5>3
      <4>2. QED
        BY <3>2, <3>4, <3>5, <4>1
    <3>7. ASSUME NEW k \in 1..Len(s), s[k] # h PROVE \E j \in 1..Len(d) : d[j] = s[k]
      <4>1. CASE k < i
        BY <3>2, <3>6, <4>1
      <4>2. CASE k > i
        <5>1. k - i \in 1..(Len(s) - i) /\ i + (k - i) = k /\ (i - 1) + (k - i) = k - 1 /\ k - 1 \in 1..Len(d)
          BY <3>2, <3>6, <4>2
        <5>2. d[k - 1] = s[k]
          BY <3>6, <5>1
        <5>3. QED
          BY <5>1, <5>2
      <4>3. QED
        BY <3>2, <3>7, <4>1, <4>2
    <3>8. QED
      BY <1>1, <3>7 DEF Range
  <2>3. QED
    BY <2>1, <2>2
<1> HIDE DEF d
<1>3. /\ Len(d) \in Nat /\ Len(Append(d, h)) = Len(d) + 1 /\ Append(d, h) \in Seq(Handles)
      /\ \A j \in 1..Len(d) : Append(d, h)[j] = d[j]
      /\ Append(d, h)[Len(d) + 1] = h
  BY <1>1
<1>4. h \in Range(Append(d, h)) /\ Range(d) \subseteq Range(Append(d, h))
  BY <1>1, <1>3 DEF Range
<1>5. QED
  BY <1>2, <1>4 DEF d

LEMMA StartEffect ==
  ASSUME Rest, NEW f \in Frames, NEW h \in Handles, NEW c \in Frames,
         InGroup(f), Start(f, h, c)
  PROVE  /\ \A g \in Frames \ {f} : scope'[g] = scope[g]
         /\ SameShape(scope[f], scope'[f])
         /\ \A i \in 1..Len(scope[f]) :
               /\ Range(scope[f][i].list) \subseteq Range(scope'[f][i].list)
               /\ scope'[f][i].awaited \subseteq scope[f][i].awaited
         /\ Innermost(f) \in 1..Len(scope[f]) /\ h \in Range(scope'[f][Innermost(f)].list)
         /\ "early" \notin features /\ h \in Range(List(f))
               => h \notin scope'[f][Len(scope[f])].awaited
<1> DEFINE s == scope[f]
           g == Innermost(f)
           n == Len(s)
           l == Append(Dropped(s[g].list, h), h)
           b == [s[g] EXCEPT !.list = l]
           t == [s EXCEPT ![g] = b]
           a == [t[n] EXCEPT !.awaited = t[n].awaited \ {h}]
           u == [t EXCEPT ![n] = a]
<1>1. s \in Seq(Blocks) /\ n \in Nat /\ g \in 1..n /\ n \in 1..n
  BY InnermostIsGroup DEF Rest, Scopes
<1>2. s[g] \in Blocks /\ s[g].list \in Seq(Handles)
  <2>1. s[g] \in Blocks
    BY <1>1
  <2>2. QED
    BY <2>1 DEF Blocks
<1>3. l \in Seq(Handles) /\ Range(s[g].list) \subseteq Range(l) /\ h \in Range(l)
  BY <1>2, DroppedIsSeq, DroppedRange, AppendProperties
<1>4. b \in Blocks /\ b.kind = s[g].kind /\ b.tok = s[g].tok /\ b.list = l /\ b.awaited = s[g].awaited
  <2> HIDE DEF l
  <2>1. s[g].awaited \in SUBSET Handles
    BY <1>2 DEF Blocks
  <2>2. b \in Blocks
    BY <1>2, <1>3, <2>1, BlockExcept
  <2>3. b.kind = s[g].kind /\ b.tok = s[g].tok /\ b.list = l /\ b.awaited = s[g].awaited
    BY <1>2, FieldExcept
  <2>4. QED
    BY <2>2, <2>3
<1>5. t \in Seq(Blocks) /\ Len(t) = n /\ \A i \in 1..n : t[i] = IF i = g THEN b ELSE s[i]
  <2> HIDE DEF b
  <2>1. QED
    BY <1>1, <1>4, ExceptSeq
<1>6. t[n] \in Blocks
  <2> HIDE DEF t
  <2>1. QED
    BY <1>1, <1>5
<1>7. /\ a.kind = t[n].kind /\ a.tok = t[n].tok /\ a.list = t[n].list
      /\ a.awaited = t[n].awaited \ {h}
  <2> HIDE DEF t
  <2>1. QED
    BY <1>6, FieldExcept
<1>8. Len(u) = n /\ \A i \in 1..n : u[i] = IF i = n THEN a ELSE t[i]
  <2> HIDE DEF t, a
  <2>1. QED
    BY <1>1, <1>5
<1>9. \/ /\ scope' = [scope EXCEPT ![f] = t]
         /\ "early" \in features \/ h \notin Range(List(f))
      \/ scope' = [scope EXCEPT ![f] = u]
  <2> DEFINE noted == [scope EXCEPT ![f][g].list = Append(Dropped(@, h), h)]
  <2>1. noted = [scope EXCEPT ![f] = t]
    BY <1>1 DEF Rest, Scopes
  <2>2. \/ scope' = [noted EXCEPT ![f][n].awaited = @ \ {h}]
        \/ scope' = noted /\ ("early" \in features \/ h \notin Range(List(f)))
    BY DEF Start
  <2>3. [noted EXCEPT ![f][n].awaited = @ \ {h}] = [scope EXCEPT ![f] = u]
    <3>1. noted[f] = t
      BY <2>1 DEF Rest, Scopes
    <3>2. [noted EXCEPT ![f][n].awaited = @ \ {h}]
             = [noted EXCEPT ![f] = [noted[f] EXCEPT ![n] =
                                       [noted[f][n] EXCEPT !.awaited = noted[f][n].awaited \ {h}]]]
      OBVIOUS
    <3> HIDE DEF t, noted
    <3>3. [noted EXCEPT ![f] = u] = [scope EXCEPT ![f] = u]
      BY <2>1 DEF Rest, Scopes
    <3>4. QED
      BY <3>1, <3>2, <3>3
  <2>4. QED
    BY <2>1, <2>2, <2>3
<1> HIDE DEF l, b, t, a, u
<1>10. CASE /\ scope' = [scope EXCEPT ![f] = t]
            /\ "early" \in features \/ h \notin Range(List(f))
  <2>1. scope'[f] = t /\ \A x \in Frames \ {f} : scope'[x] = scope[x]
    BY <1>10 DEF Rest, Scopes
  <2>2. QED
    BY <1>1, <1>3, <1>4, <1>5, <1>10, <2>1 DEF SameShape
<1>11. CASE scope' = [scope EXCEPT ![f] = u]
  <2>1. scope'[f] = u /\ \A x \in Frames \ {f} : scope'[x] = scope[x]
    BY <1>11 DEF Rest, Scopes
  <2>2. \A i \in 1..n :
           /\ u[i].kind = s[i].kind /\ u[i].tok = s[i].tok /\ Range(s[i].list) \subseteq Range(u[i].list)
           /\ u[i].awaited \subseteq s[i].awaited
    BY <1>1, <1>3, <1>4, <1>5, <1>7, <1>8
  <2>3. h \in Range(u[g].list) /\ h \notin u[n].awaited
    BY <1>1, <1>3, <1>4, <1>5, <1>7, <1>8
  <2>4. QED
    BY <1>1, <1>8, <2>1, <2>2, <2>3 DEF SameShape
<1>12. QED
  BY <1>9, <1>10, <1>11

(* How a frame ends in a program without try, and why.                      *)
Ends(f, d, th) ==
    /\ End(f, d, th)
    /\ UNCHANGED <<inherited, entered, spawner, cancelled>>
    /\ \A g \in Frames \ {f} : failure'[g] = failure[g] /\ at'[g] = at[g]

Reason(f, d, th) ==
    \/ mode[f] = "run" /\ Held(pending[f]) = {} /\ d = Ok /\ th = thread
    \/ /\ mode[f] \in {"run", "rebind", "leak"} /\ th = thread
       /\ \E c \in {"fault", "exit", "leak"} :
             d = Primitive(c, f) /\ (mode[f] = "leak" => c = "leak")
    \/ mode[f] = "run" /\ Current(f) \in cancelled /\ d = Primitive("cancelled", f) /\ th = thread
    \/ mode[f] = "drain" /\ Held(pending[f]) = {} /\ d = failure[f] /\ th = thread
    \/ /\ mode[f] = "call"
       /\ \E c \in Frames :
             /\ spawner[c] = f /\ thread[c] = "call" /\ mode[c] = "done" /\ outcome[c].code # "ok"
             /\ d = outcome[c] /\ th = [thread EXCEPT ![c] = "joined"]

Ending(f) == \E d \in Results, th \in [Frames -> Threads] : Ends(f, d, th) /\ Reason(f, d, th)

(* A task is started under a free handle.                                   *)
Starting(f) ==
    \E h \in Handles, c \in Frames :
        /\ Start(f, h, c) /\ pending[f][h] = None
        /\ \/ mode[f] = "run" /\ MaySpawn(f, h)
           \/ mode[f] = "rebind" /\ h = at[f]
        /\ UNCHANGED <<groups, entered, values, failure, outcome, cancelled>>
        /\ \A g \in Frames \ {f} : at'[g] = at[g]

Joining(f) == AwaitJoin(f) \/ RebindJoin(f) \/ DrainJoin(f) \/ LeakJoin(f)

CallsReturn(f) ==
    /\ mode[f] = "call" /\ mode' = [mode EXCEPT ![f] = "run"]
    /\ \E c \in Frames :
          /\ spawner[c] = f /\ thread[c] = "call" /\ mode[c] = "done" /\ outcome[c].code = "ok"
          /\ thread' = [thread EXCEPT ![c] = "joined"]
    /\ UNCHANGED <<at, started, locals, scope, pending, failure, outcome, cancelled>>

Leaking(f) ==
    /\ mode[f] = "run" /\ mode' = [mode EXCEPT ![f] = "leak"] /\ Held(pending[f]) # {}
    /\ "jump" \in features \/ Owed(f) = {}
    /\ UNCHANGED <<at, started, locals, scope, pending, failure, outcome, thread, cancelled>>

(* An await that joins nothing; in plain programs its task is joined.        *)
Noting(f, h) ==
    /\ mode[f] = "run" /\ InGroup(f) /\ NoteAwait(f, h)
    /\ Plain => pending[f][h] = None
    /\ UNCHANGED <<mode, at, started, locals, pending, failure, outcome, thread, cancelled>>

Kinds(f) ==
    \/ EnterGroup(f) \/ LeaveGroup(f) \/ Break(f)
    \/ \E h \in Handles : SpawnRebind(f, h) \/ Await(f, h) \/ Noting(f, h)
    \/ Call(f) \/ CallsReturn(f) \/ Leaking(f)
    \/ Starting(f) \/ Joining(f) \/ Ending(f)

LEMMA RaiseEnds ==
  ASSUME IInv, Rest, Shapes, NEW f \in Frames, NEW d \in Results, NEW th \in [Frames -> Threads],
         Raise(f, d, th), Reason(f, d, th)
  PROVE  Ending(f)
<1>1. Tries(f) = {}
  BY DEF Tries, Shapes, ShapeOf
<1>2. /\ End(f, d, th) /\ UNCHANGED <<inherited, entered, spawner, cancelled>>
      /\ failure' = [failure EXCEPT ![f] = Ok] /\ at' = [at EXCEPT ![f] = 0]
  BY <1>1 DEF Raise, started
<1>3. Ends(f, d, th)
  BY <1>2 DEF Ends, IInv, Types
<1>4. QED
  BY <1>3 DEF Ending

LEMMA PrimitiveEnds ==
  ASSUME IInv, Rest, Shapes, NEW f \in Frames, NEW c \in {"fault", "exit", "leak"},
         mode[f] \in {"run", "rebind", "leak"}, mode[f] = "leak" => c = "leak",
         Raise(f, Primitive(c, f), thread)
  PROVE  Ending(f)
<1>1. Primitive(c, f) \in Results
  BY PrimitiveIsFailure DEF LeafCodes
<1>2. thread \in [Frames -> Threads]
  BY DEF IInv, Types
<1>3. Reason(f, Primitive(c, f), thread)
  BY DEF Reason
<1>4. QED
  BY <1>1, <1>2, <1>3, RaiseEnds

LEMMA RuntimeKinds ==
  ASSUME IInv, Rest, Shapes, NEW f \in Frames, Runtime(f)
  PROVE  Kinds(f)
<1>0. thread \in [Frames -> Threads]
  BY DEF IInv, Types
<1>1. CASE RebindStart(f)
  <2>1. at[f] \in Handles /\ mode[f] = "rebind" /\ pending[f][at[f]] = None
    BY <1>1 DEF RebindStart, IInv, Blocked
  <2>2. CASE Raise(f, Primitive("fault", f), thread)
    BY <2>1, <2>2, PrimitiveEnds DEF Kinds
  <2>3. CASE ~Raise(f, Primitive("fault", f), thread)
    <3>1. PICK c \in Frames : Start(f, at[f], c)
      BY <1>1, <2>3 DEF RebindStart
    <3>2. UNCHANGED <<groups, entered, values, failure, outcome, cancelled>> /\ at' = [at EXCEPT ![f] = 0]
      BY <1>1, <2>3 DEF RebindStart
    <3>3. \A g \in Frames \ {f} : at'[g] = at[g]
      BY <3>2 DEF IInv, Types
    <3>4. Starting(f)
      BY <2>1, <3>1, <3>2, <3>3 DEF Starting
    <3>5. QED
      BY <3>4 DEF Kinds
  <2>4. QED
    BY <2>2, <2>3
<1>2. CASE DrainEnd(f)
  <2>1. failure[f] \in Results /\ Raise(f, failure[f], thread) /\ Reason(f, failure[f], thread)
    BY <1>2 DEF DrainEnd, Reason, IInv, Types
  <2>2. Ending(f)
    BY <1>0, <2>1, RaiseEnds
  <2>3. QED
    BY <2>2 DEF Kinds
<1>3. CASE LeakEnd(f)
  BY <1>3, PrimitiveEnds DEF LeakEnd, Kinds
<1>4. CASE CallReturn(f)
  <2>1. PICK c \in Frames :
           /\ spawner[c] = f /\ thread[c] = "call" /\ mode[c] = "done"
           /\ LET th == [thread EXCEPT ![c] = "joined"]
              IN IF outcome[c].code = "ok"
                 THEN /\ mode' = [mode EXCEPT ![f] = "run"]
                      /\ thread' = th
                      /\ UNCHANGED <<at, started, locals, scope, pending, failure,
                                     outcome, cancelled, caught>>
                 ELSE Raise(f, outcome[c], th)
    BY <1>4 DEF CallReturn
  <2>2. mode[f] = "call" /\ outcome[c] \in Results /\ [thread EXCEPT ![c] = "joined"] \in [Frames -> Threads]
    BY <1>4 DEF CallReturn, IInv, Types, Threads
  <2>3. CASE outcome[c].code = "ok"
    BY <2>1, <2>2, <2>3 DEF CallsReturn, Kinds
  <2>4. CASE outcome[c].code # "ok"
    <3>1. Reason(f, outcome[c], [thread EXCEPT ![c] = "joined"])
      BY <2>1, <2>2, <2>4 DEF Reason
    <3>2. Raise(f, outcome[c], [thread EXCEPT ![c] = "joined"])
      BY <2>1, <2>4
    <3>3. Ending(f)
      BY <2>2, <3>1, <3>2, RaiseEnds
    <3>4. QED
      BY <3>3 DEF Kinds
  <2>5. QED
    BY <2>3, <2>4
<1>5. QED
  BY <1>1, <1>2, <1>3, <1>4 DEF Runtime, Kinds, Joining

LEMMA StatementKinds ==
  ASSUME IInv, Rest, TryFree, Shapes, NEW f \in Frames, Statement(f)
  PROVE  Kinds(f)
<1>0. thread \in [Frames -> Threads]
  BY DEF IInv, Types
<1>1. ~EnterTry(f)
  BY DEF EnterTry, TryFree, Without
<1>2. ~LeaveTry(f)
  <2>1. SUFFICES ASSUME scope[f] # <<>> PROVE Top(f).kind = "group"
    BY DEF LeaveTry
  <2>2. scope[f] \in Seq(Blocks)
    BY DEF Rest, Scopes
  <2>3. Len(scope[f]) \in 1..Len(scope[f])
    BY <2>1, <2>2
  <2>4. QED
    BY <2>3 DEF Top, Shapes, ShapeOf
<1>3. ASSUME NEW h \in Handles, Spawn(f, h) PROVE Kinds(f)
  <2>1. PICK c \in Frames : Start(f, h, c)
    BY <1>3 DEF Spawn
  <2>2. /\ pending[f][h] = None /\ mode[f] = "run" /\ MaySpawn(f, h)
        /\ UNCHANGED <<at, groups, entered, values, failure, outcome, cancelled>>
    BY <1>3 DEF Spawn, MaySpawn
  <2>3. Starting(f)
    BY <2>1, <2>2 DEF Starting
  <2>4. QED
    BY <2>3 DEF Kinds
<1>4. ASSUME NEW h \in Handles, SpawnAtLimit(f, h) PROVE Kinds(f)
  BY <1>4, PrimitiveEnds DEF SpawnAtLimit, MaySpawn, Kinds
<1>50. ASSUME NEW h \in Handles, AwaitStored(f, h) \/ AwaitCounted(f, h) PROVE Kinds(f)
  <2>1. Noting(f, h)
    BY <1>50 DEF AwaitStored, AwaitCounted, MayAwait, Noting, Plain, Without
  <2>2. QED
    BY <2>1 DEF Kinds
<1>5. ASSUME NEW h \in Handles, AwaitMissing(f, h) PROVE Kinds(f)
  BY <1>5, PrimitiveEnds DEF AwaitMissing, MayAwait, Kinds
<1>6. CASE Fault(f) \/ Exit(f)
  BY <1>6, PrimitiveEnds DEF Fault, Exit, Kinds
<1>7. CASE BackEdge(f)
  <2>1. /\ Primitive("cancelled", f) \in Results /\ Reason(f, Primitive("cancelled", f), thread)
        /\ Raise(f, Primitive("cancelled", f), thread)
    BY <1>7, PrimitiveIsFailure DEF BackEdge, Reason, LeafCodes
  <2>2. Ending(f)
    BY <1>0, <2>1, RaiseEnds
  <2>3. QED
    BY <2>2 DEF Kinds
<1>8. CASE Return(f)
  <2>1. CASE Held(pending[f]) # {}
    <3>1. Leaking(f)
      BY <1>8, <2>1 DEF Return, Leaking
    <3>2. QED
      BY <3>1 DEF Kinds
  <2>2. CASE Held(pending[f]) = {}
    <3>1. /\ mode[f] = "run" /\ UNCHANGED <<at, inherited, entered, spawner, failure, cancelled>>
          /\ \E d \in {Ok, Primitive("fault", f)} : End(f, d, thread)
      BY <1>8, <2>2 DEF Return, started
    <3>2. Ok \in Results /\ Primitive("fault", f) \in Results
      BY OkIsResult, PrimitiveIsFailure DEF LeafCodes
    <3>3. Reason(f, Ok, thread) /\ Reason(f, Primitive("fault", f), thread)
      BY <2>2, <3>1 DEF Reason
    <3>4. PICK d \in {Ok, Primitive("fault", f)} : End(f, d, thread)
      BY <3>1
    <3>5. d \in Results /\ Ends(f, d, thread) /\ Reason(f, d, thread)
      BY <3>1, <3>2, <3>3, <3>4 DEF Ends
    <3>6. Ending(f)
      BY <1>0, <3>5 DEF Ending
    <3>7. QED
      BY <3>6 DEF Kinds
  <2>3. QED
    BY <2>1, <2>2
<1>9. QED
  BY <1>1, <1>2, <1>3, <1>4, <1>50, <1>5, <1>6, <1>7, <1>8 DEF Statement, Kinds

(* What a join does, for the handle it is about.                            *)
JoinOf(f, h) ==
    /\ Joinable(f, h) /\ thread' = Joined(f, h)
    /\ pending' = [pending EXCEPT ![f][h] = None]
    /\ UNCHANGED <<inherited, spawner, groups, bound, outcome>>

JoinYields(f, h) ==
    /\ mode[f] = "await" /\ h = at[f] /\ outcome[pending[f][h]].code = "ok"
    /\ mode' = [mode EXCEPT ![f] = "run"] /\ at' = [at EXCEPT ![f] = 0]
    /\ values' = [values EXCEPT ![f][h] = pending[f][h]]
    /\ NoteAwait(f, h)
    /\ UNCHANGED <<cancelled, failure>>
JoinFails(f, h) ==
    /\ mode[f] \in {"await", "rebind"} /\ h = at[f] /\ outcome[pending[f][h]].code # "ok"
    /\ FailGroup(f, outcome[pending[f][h]]) /\ at' = [at EXCEPT ![f] = 0]
    /\ UNCHANGED <<values, scope>>
JoinRebinds(f, h) ==
    /\ mode[f] = "rebind" /\ h = at[f] /\ outcome[pending[f][h]].code = "ok"
    /\ UNCHANGED <<mode, at, cancelled, failure, values, scope>>
JoinDrains(f, h) ==
    /\ mode[f] = "drain"
    /\ failure' = [failure EXCEPT ![f] =
                      IF outcome[pending[f][h]].code \in {"ok", "cancelled"} THEN failure[f]
                      ELSE Merge(failure[f], outcome[pending[f][h]])]
    /\ UNCHANGED <<mode, at, cancelled, values, scope>>
JoinLeaks(f) ==
    /\ mode[f] = "leak"
    /\ UNCHANGED <<mode, at, cancelled, failure, values, scope>>

LEMMA JoinEffect ==
  ASSUME IInv, NEW f \in Frames, Joining(f)
  PROVE  \E h \in Handles :
            /\ JoinOf(f, h)
            /\ JoinYields(f, h) \/ JoinFails(f, h) \/ JoinRebinds(f, h) \/ JoinDrains(f, h) \/ JoinLeaks(f)
<1> USE DEF started, locals
<1>1. CASE AwaitJoin(f)
  <2>1. PICK h \in Handles : h = at[f]
    BY <1>1 DEF AwaitJoin, IInv, Blocked
  <2>2. JoinOf(f, h)
    BY <1>1, <2>1 DEF AwaitJoin, JoinOf
  <2>3. JoinYields(f, h) \/ JoinFails(f, h)
    <3>1. CASE outcome[pending[f][h]].code = "ok"
      BY <1>1, <2>1, <3>1 DEF AwaitJoin, JoinYields
    <3>2. CASE outcome[pending[f][h]].code # "ok"
      BY <1>1, <2>1, <3>2 DEF AwaitJoin, JoinFails
    <3>3. QED
      BY <3>1, <3>2
  <2>4. QED
    BY <2>2, <2>3
<1>2. CASE RebindJoin(f)
  <2>1. PICK h \in Handles : h = at[f]
    BY <1>2 DEF RebindJoin, IInv, Blocked
  <2>2. JoinOf(f, h)
    BY <1>2, <2>1 DEF RebindJoin, JoinOf
  <2>3. JoinRebinds(f, h) \/ JoinFails(f, h)
    <3>1. CASE outcome[pending[f][h]].code = "ok"
      BY <1>2, <2>1, <3>1 DEF RebindJoin, JoinRebinds
    <3>2. CASE outcome[pending[f][h]].code # "ok"
      BY <1>2, <2>1, <3>2 DEF RebindJoin, JoinFails
    <3>3. QED
      BY <3>1, <3>2
  <2>4. QED
    BY <2>2, <2>3
<1>3. CASE DrainJoin(f) \/ LeakJoin(f)
  <2>1. Held(pending[f]) \in SUBSET Handles /\ Held(pending[f]) # {}
    BY <1>3 DEF DrainJoin, LeakJoin, Held
  <2>2. PICK h \in Handles : h = Smallest(Held(pending[f]))
    BY <2>1, SmallestIsLeast
  <2>3. JoinOf(f, h)
    BY <1>3, <2>2 DEF DrainJoin, LeakJoin, JoinOf
  <2>4. JoinDrains(f, h) \/ JoinLeaks(f)
    BY <1>3, <2>2 DEF DrainJoin, LeakJoin, JoinDrains, JoinLeaks
  <2>5. QED
    BY <2>3, <2>4
<1>4. QED
  BY <1>1, <1>2, <1>3 DEF Joining

(* A step of a frame changes no other frame, but for the one it starts.     *)
Untouched(g) ==
    /\ scope'[g] = scope[g] /\ groups'[g] = groups[g] /\ at'[g] = at[g]
    /\ values'[g] = values[g] /\ bound'[g] = bound[g] /\ pending'[g] = pending[g]
    /\ failure'[g] = failure[g] /\ outcome'[g] = outcome[g]
    /\ mode'[g] = mode[g] \/ (mode[g] = "idle" /\ mode'[g] = "run")

LEMMA Others ==
  ASSUME IInv, Rest, Shapes, NEW f \in Frames, Kinds(f), NEW g \in Frames \ {f}
  PROVE  Untouched(g)
<1> USE DEF Untouched
<1>0. /\ mode = [x \in Frames |-> mode[x]] /\ at = [x \in Frames |-> at[x]]
      /\ pending = [x \in Frames |-> pending[x]] /\ failure = [x \in Frames |-> failure[x]]
      /\ outcome = [x \in Frames |-> outcome[x]] /\ groups = [x \in Frames |-> groups[x]]
      /\ scope = [x \in Frames |-> scope[x]] /\ bound = [x \in Frames |-> bound[x]]
      /\ values = [x \in Frames |-> values[x]]
  BY DEF IInv, Types, Rest, Scopes
<1>1. CASE EnterGroup(f) \/ LeaveGroup(f) \/ Break(f)
  BY <1>0, <1>1 DEF EnterGroup, LeaveGroup, Break, started
<1>2. ASSUME NEW h \in Handles, SpawnRebind(f, h) \/ Await(f, h) PROVE Untouched(g)
  BY <1>0, <1>2 DEF SpawnRebind, Await, started, locals
<1>3. ASSUME NEW h \in Handles, Noting(f, h) PROVE Untouched(g)
  <2>1. scope'[g] = scope[g]
    BY <1>3, NoteAwaitEffect DEF Noting
  <2>2. UNCHANGED <<mode, at, groups, bound, values, pending, failure, outcome>>
    BY <1>3 DEF Noting, started, locals
  <2>3. QED
    BY <2>1, <2>2
<1>4. CASE CallsReturn(f) \/ Leaking(f)
  BY <1>0, <1>4 DEF CallsReturn, Leaking, started, locals
<1>5. CASE Call(f)
  <2>1. PICK c \in Frames : mode[c] = "idle" /\ mode' = [mode EXCEPT ![f] = "call", ![c] = "run"]
    BY <1>5 DEF Call
  <2>2. mode'[g] = mode[g] \/ (mode[g] = "idle" /\ mode'[g] = "run")
    BY <1>0, <2>1
  <2>3. UNCHANGED <<at, groups, bound, values, scope, pending, failure, outcome>>
    BY <1>5 DEF Call, locals
  <2>4. QED
    BY <2>2, <2>3
<1>6. CASE Starting(f)
  <2>1. PICK h \in Handles, c \in Frames :
           /\ Start(f, h, c) /\ mode[f] \in {"run", "rebind"}
           /\ mode[f] = "run" => MaySpawn(f, h)
           /\ UNCHANGED <<groups, values, failure, outcome>>
           /\ at'[g] = at[g]
    BY <1>6 DEF Starting
  <2>2. InGroup(f)
    <3>1. CASE mode[f] = "run"
      BY <2>1, <3>1 DEF MaySpawn
    <3>2. CASE mode[f] = "rebind"
      <4>1. Len(scope[f]) # 0 /\ \A i \in 1..Len(scope[f]) : scope[f][i].kind = "group"
        BY <3>2 DEF Shapes, ShapeOf
      <4>2. Len(scope[f]) \in Nat
        BY LenProperties DEF Rest, Scopes
      <4>3. QED
        BY <4>1, <4>2 DEF InGroup
    <3>3. QED
      BY <2>1, <3>1, <3>2
  <2>3. scope'[g] = scope[g]
    BY <2>1, <2>2, StartEffect
  <2>4. mode[c] = "idle" /\ mode' = [mode EXCEPT ![f] = "run", ![c] = "run"]
    BY <2>1 DEF Start
  <2>5. mode'[g] = mode[g] \/ (mode[g] = "idle" /\ mode'[g] = "run")
    BY <1>0, <2>4
  <2>6. pending'[g] = pending[g] /\ bound'[g] = bound[g]
    BY <1>0, <2>1 DEF Start
  <2>7. QED
    BY <2>1, <2>3, <2>5, <2>6
<1>7. CASE Joining(f)
  <2>1. PICK h \in Handles :
            /\ JoinOf(f, h)
            /\ JoinYields(f, h) \/ JoinFails(f, h) \/ JoinRebinds(f, h) \/ JoinDrains(f, h) \/ JoinLeaks(f)
    BY <1>7, JoinEffect
  <2>2. groups'[g] = groups[g] /\ bound'[g] = bound[g] /\ outcome'[g] = outcome[g] /\ pending'[g] = pending[g]
    BY <1>0, <2>1 DEF JoinOf
  <2>3. CASE JoinYields(f, h)
    <3>1. scope'[g] = scope[g]
      BY <2>3, NoteAwaitEffect DEF JoinYields
    <3>2. mode'[g] = mode[g] /\ at'[g] = at[g] /\ values'[g] = values[g] /\ failure'[g] = failure[g]
      BY <1>0, <2>3 DEF JoinYields
    <3>3. QED
      BY <2>2, <3>1, <3>2
  <2>4. CASE JoinFails(f, h) \/ JoinRebinds(f, h) \/ JoinDrains(f, h) \/ JoinLeaks(f)
    <3>1. mode'[g] = mode[g] /\ at'[g] = at[g] /\ failure'[g] = failure[g] /\ values' = values /\ scope' = scope
      BY <1>0, <2>4 DEF JoinFails, JoinRebinds, JoinDrains, JoinLeaks, FailGroup
    <3>2. QED
      BY <2>2, <3>1
  <2>5. QED
    BY <2>1, <2>3, <2>4
<1>8. CASE Ending(f)
  <2>1. PICK d \in Results, th \in [Frames -> Threads] : Ends(f, d, th)
    BY <1>8 DEF Ending
  <2>2. QED
    BY <1>0, <2>1 DEF Ends, End
<1>9. QED
  BY <1>1, <1>2, <1>3, <1>4, <1>5, <1>6, <1>7, <1>8 DEF Kinds

----------------------------------------------------------------------------
(* Shapes.                                                                  *)
LEMMA ShapeStays ==
  ASSUME NEW f \in Frames, ShapeOf(f), features' = features,
         SameShape(scope[f], scope'[f]), groups'[f] = groups[f],
         mode'[f] \in {"await", "rebind"} => Len(scope[f]) # 0
  PROVE  ShapeOf(f)'
<1>1. Straight' <=> Straight
  BY DEF Straight, Without
<1>2. QED
  BY <1>1 DEF ShapeOf, SameShape

LEMMA ShapeOfOthers ==
  ASSUME NEW g \in Frames, ShapeOf(g), features' = features, Untouched(g)
  PROVE  ShapeOf(g)'
<1>1. SameShape(scope[g], scope'[g]) /\ groups'[g] = groups[g]
  BY DEF Untouched, SameShape
<1>2. mode'[g] \in {"await", "rebind"} => Len(scope[g]) # 0
  BY DEF Untouched, ShapeOf
<1>3. QED
  BY <1>1, <1>2, ShapeStays

LEMMA ShapeGrows ==
  ASSUME Rest, NEW f \in Frames, ShapeOf(f), EnterGroup(f), features' = features
  PROVE  ShapeOf(f)'
<1> DEFINE t == <<f, entered[f] + 1>>
           b == Block("group", t, 0, visible[f])
<1>1. /\ mode[f] = "run" /\ mode' = mode
      /\ groups' = [groups EXCEPT ![f] = Append(groups[f], t)]
      /\ scope' = [scope EXCEPT ![f] = Append(scope[f], b)]
  BY DEF EnterGroup
<1>2. b.kind = "group" /\ b.tok = t /\ t[1] = f
  BY DEF Block
<1> HIDE DEF t, b
<1>3. scope[f] \in Seq(Blocks) /\ groups[f] \in Seq(Tokens)
  BY DEF Rest, Scopes
<1>4. groups'[f] = Append(groups[f], t) /\ scope'[f] = Append(scope[f], b) /\ mode'[f] = "run"
  BY <1>1 DEF Rest, Scopes
<1>5. /\ Len(scope'[f]) = Len(scope[f]) + 1 /\ Len(scope[f]) \in Nat
      /\ Len(groups'[f]) = Len(groups[f]) + 1 /\ Len(groups[f]) \in Nat
      /\ \A i \in 1..Len(scope'[f]) : scope'[f][i] = IF i = Len(scope[f]) + 1 THEN b ELSE scope[f][i]
      /\ \A i \in 1..Len(groups'[f]) : groups'[f][i] = IF i = Len(groups[f]) + 1 THEN t ELSE groups[f][i]
  BY <1>3, <1>4
<1>6. Straight' <=> Straight
  BY DEF Straight, Without
<1>7. /\ \A i \in 1..Len(scope'[f]) : scope'[f][i].kind = "group"
      /\ Len(scope'[f]) <= Len(groups'[f])
      /\ \A i \in 1..Len(groups'[f]) : groups'[f][i][1] = f
  <2>1. ASSUME NEW i \in 1..Len(scope'[f]) PROVE scope'[f][i].kind = "group"
    <3>1. CASE i = Len(scope[f]) + 1
      BY <1>2, <1>5, <3>1
    <3>2. CASE i # Len(scope[f]) + 1
      <4>1. i \in 1..Len(scope[f]) /\ scope'[f][i] = scope[f][i]
        BY <1>5, <3>2
      <4>2. QED
        BY <4>1 DEF ShapeOf
    <3>3. QED
      BY <3>1, <3>2
  <2>2. Len(scope'[f]) <= Len(groups'[f])
    <3>1. Len(scope[f]) <= Len(groups[f])
      BY DEF ShapeOf
    <3>2. QED
      BY <1>5, <3>1
  <2>3. ASSUME NEW i \in 1..Len(groups'[f]) PROVE groups'[f][i][1] = f
    <3>1. CASE i = Len(groups[f]) + 1
      BY <1>2, <1>5, <3>1
    <3>2. CASE i # Len(groups[f]) + 1
      <4>1. i \in 1..Len(groups[f]) /\ groups'[f][i] = groups[f][i]
        BY <1>5, <3>2
      <4>2. QED
        BY <4>1 DEF ShapeOf
    <3>3. QED
      BY <3>1, <3>2
  <2>4. QED
    BY <2>1, <2>2, <2>3
<1>8. ASSUME Straight
      PROVE  /\ Len(scope'[f]) = Len(groups'[f])
             /\ \A i \in 1..Len(scope'[f]) : scope'[f][i].tok = groups'[f][i]
  <2>1. Len(scope[f]) = Len(groups[f]) /\ \A i \in 1..Len(scope[f]) : scope[f][i].tok = groups[f][i]
    BY <1>8 DEF ShapeOf
  <2>2. ASSUME NEW i \in 1..Len(scope'[f]) PROVE scope'[f][i].tok = groups'[f][i]
    <3>1. CASE i = Len(scope[f]) + 1
      BY <1>2, <1>5, <2>1, <3>1
    <3>2. CASE i # Len(scope[f]) + 1
      <4>1. i \in 1..Len(scope[f]) /\ scope'[f][i] = scope[f][i] /\ groups'[f][i] = groups[f][i]
        BY <1>5, <2>1, <3>2
      <4>2. QED
        BY <2>1, <4>1
    <3>3. QED
      BY <3>1, <3>2
  <2>3. QED
    BY <1>5, <2>1, <2>2
<1>9. QED
  BY <1>4, <1>6, <1>7, <1>8 DEF ShapeOf

LEMMA ShapeShrinks ==
  ASSUME IInv, Rest, NEW f \in Frames, ShapeOf(f), LeaveGroup(f) \/ Break(f), features' = features
  PROVE  ShapeOf(f)'
<1>1. scope[f] \in Seq(Blocks) /\ groups[f] \in Seq(Tokens) /\ scope[f] # <<>> /\ mode[f] = "run"
  BY DEF Rest, Scopes, LeaveGroup, Break
<1>2. mode'[f] \in {"run", "leak"}
  <2>1. mode' = mode \/ mode' = [mode EXCEPT ![f] = IF Held(pending[f]) = {} THEN mode[f] ELSE "leak"]
    BY DEF LeaveGroup, Break
  <2>2. mode \in [Frames -> Modes]
    BY DEF IInv, Types
  <2>3. QED
    BY <1>1, <2>1, <2>2
<1>3. scope' = [scope EXCEPT ![f] = Outward(scope[f])] \/ scope' = [scope EXCEPT ![f] = Front(scope[f])]
  BY DEF LeaveGroup, Break
<1>4. /\ Len(scope'[f]) = Len(scope[f]) - 1 /\ Len(scope[f]) \in Nat \ {0}
      /\ \A i \in 1..(Len(scope[f]) - 1) :
            scope'[f][i].kind = scope[f][i].kind /\ scope'[f][i].tok = scope[f][i].tok
  <2>1. scope'[f] = Outward(scope[f]) \/ scope'[f] = Front(scope[f])
    BY <1>3 DEF Rest, Scopes
  <2>2. CASE scope'[f] = Outward(scope[f])
    BY <1>1, <2>2, OutwardEffect
  <2>3. CASE scope'[f] = Front(scope[f])
    BY <1>1, <2>3, FrontEffect
  <2>4. QED
    BY <2>1, <2>2, <2>3
<1>40. ASSUME NEW i \in 1..Len(scope'[f])
       PROVE  /\ i \in 1..Len(scope[f])
              /\ scope'[f][i].kind = scope[f][i].kind /\ scope'[f][i].tok = scope[f][i].tok
  <2>1. i \in 1..(Len(scope[f]) - 1) /\ i \in 1..Len(scope[f])
    BY <1>4
  <2>2. QED
    BY <1>4, <2>1
<1>41. \A i \in 1..Len(scope'[f]) : scope'[f][i].kind = "group"
  BY <1>40 DEF ShapeOf
<1>5. Straight' <=> Straight
  BY DEF Straight, Without
<1>6. CASE Break(f)
  <2>1. groups' = groups /\ ~Straight
    BY <1>6 DEF Break, Straight, Without
  <2>2. Len(groups[f]) \in Nat /\ Len(scope[f]) <= Len(groups[f])
    BY <1>1, LenProperties DEF ShapeOf
  <2>4. Len(scope'[f]) <= Len(groups'[f]) /\ \A i \in 1..Len(groups'[f]) : groups'[f][i][1] = f
    BY <1>4, <2>1, <2>2 DEF ShapeOf
  <2>5. QED
    BY <1>2, <1>41, <1>5, <2>1, <2>4 DEF ShapeOf
<1>7. CASE LeaveGroup(f)
  <2>1. groups[f] # <<>> /\ Len(groups[f]) \in Nat
    BY <1>1, <1>4 DEF ShapeOf
  <2>2. groups'[f] = Front(groups[f])
    BY <1>7, <2>1 DEF LeaveGroup, Rest
  <2>3. /\ Len(groups'[f]) = Len(groups[f]) - 1
        /\ \A i \in 1..(Len(groups[f]) - 1) : groups'[f][i] = groups[f][i]
    BY <1>1, <2>1, <2>2, FrontEffect
  <2>4. /\ \A i \in 1..Len(scope'[f]) : scope'[f][i].kind = "group"
        /\ Len(scope'[f]) <= Len(groups'[f])
        /\ \A i \in 1..Len(groups'[f]) : groups'[f][i][1] = f
    <3>2. Len(scope[f]) <= Len(groups[f])
      BY DEF ShapeOf
    <3>3. Len(scope'[f]) <= Len(groups'[f])
      BY <1>4, <2>1, <2>3, <3>2
    <3>4. ASSUME NEW i \in 1..Len(groups'[f]) PROVE groups'[f][i][1] = f
      <4>1. i \in 1..Len(groups[f]) /\ groups'[f][i] = groups[f][i]
        BY <2>1, <2>3
      <4>2. QED
        BY <4>1 DEF ShapeOf
    <3>5. QED
      BY <1>41, <3>3, <3>4
  <2>5. ASSUME Straight
        PROVE  /\ Len(scope'[f]) = Len(groups'[f])
               /\ \A i \in 1..Len(scope'[f]) : scope'[f][i].tok = groups'[f][i]
    <3>1. Len(scope[f]) = Len(groups[f]) /\ \A i \in 1..Len(scope[f]) : scope[f][i].tok = groups[f][i]
      BY <2>5 DEF ShapeOf
    <3>2. Len(scope'[f]) = Len(groups'[f])
      BY <1>4, <2>3, <3>1
    <3>3. ASSUME NEW i \in 1..Len(scope'[f]) PROVE scope'[f][i].tok = groups'[f][i]
      <4>1. scope'[f][i].tok = groups[f][i]
        BY <1>40, <3>1
      <4>2. groups'[f][i] = groups[f][i]
        BY <1>4, <2>3, <3>1
      <4>3. QED
        BY <4>1, <4>2
    <3>4. QED
      BY <3>2, <3>3
  <2>6. QED
    BY <1>2, <1>5, <2>4, <2>5 DEF ShapeOf
<1>8. QED
  BY <1>6, <1>7

LEMMA ShapeStep ==
  ASSUME IInv, Rest, Shapes, NEW f \in Frames, Kinds(f), features' = features
  PROVE  ShapeOf(f)'
<1>0. ShapeOf(f) /\ SameShape(scope[f], scope[f]) /\ Len(scope[f]) \in Nat
  BY LenProperties DEF Shapes, SameShape, Rest, Scopes
<1>00. InGroup(f) => Len(scope[f]) # 0
  BY DEF InGroup
<1>1. CASE EnterGroup(f) \/ LeaveGroup(f) \/ Break(f)
  BY <1>0, <1>1, ShapeGrows, ShapeShrinks
<1>2. ASSUME NEW h \in Handles, SpawnRebind(f, h) \/ Await(f, h) PROVE ShapeOf(f)'
  BY <1>0, <1>00, <1>2, ShapeStays DEF SpawnRebind, Await, MaySpawn, MayAwait, started, locals
<1>3. ASSUME NEW h \in Handles, Noting(f, h) PROVE ShapeOf(f)'
  <2>1. SameShape(scope[f], scope'[f])
    BY <1>3, NoteAwaitEffect DEF Noting
  <2>2. groups' = groups /\ InGroup(f)
    BY <1>3 DEF Noting, locals, MayAwait
  <2>3. QED
    BY <1>0, <1>00, <2>1, <2>2, ShapeStays
<1>4. CASE Call(f) \/ CallsReturn(f) \/ Leaking(f)
  <2>1. scope' = scope /\ groups' = groups
    BY <1>4 DEF Call, CallsReturn, Leaking, locals
  <2>2. mode'[f] \in {"call", "run", "leak"}
    BY <1>4 DEF Call, CallsReturn, Leaking, IInv, Types
  <2>3. QED
    BY <1>0, <2>1, <2>2, ShapeStays
<1>5. CASE Starting(f)
  <2>1. PICK h \in Handles, c \in Frames :
           /\ Start(f, h, c) /\ mode[f] \in {"run", "rebind"} /\ groups' = groups
           /\ mode[f] = "run" => MaySpawn(f, h)
    BY <1>5 DEF Starting
  <2>2. InGroup(f)
    BY <1>0, <2>1 DEF MaySpawn, ShapeOf, InGroup
  <2>3. SameShape(scope[f], scope'[f])
    BY <2>1, <2>2, StartEffect
  <2>4. QED
    BY <1>0, <1>00, <2>1, <2>2, <2>3, ShapeStays
<1>6. CASE Joining(f)
  <2>1. PICK h \in Handles :
            /\ JoinOf(f, h)
            /\ JoinYields(f, h) \/ JoinFails(f, h) \/ JoinRebinds(f, h) \/ JoinDrains(f, h) \/ JoinLeaks(f)
    BY <1>6, JoinEffect
  <2>2. groups' = groups
    BY <2>1 DEF JoinOf
  <2>3. SameShape(scope[f], scope'[f])
    <3>1. CASE NoteAwait(f, h)
      BY <3>1, NoteAwaitEffect
    <3>2. CASE scope' = scope
      BY <1>0, <3>2
    <3>3. QED
      BY <2>1, <3>1, <3>2 DEF JoinYields, JoinFails, JoinRebinds, JoinDrains, JoinLeaks
  <2>4. mode'[f] \in {"await", "rebind"} => Len(scope[f]) # 0
    BY <1>0, <2>1 DEF JoinYields, JoinFails, JoinRebinds, JoinDrains, JoinLeaks, FailGroup, IInv, Types, ShapeOf
  <2>5. QED
    BY <1>0, <2>2, <2>3, <2>4, ShapeStays
<1>7. CASE Ending(f)
  <2>1. PICK d \in Results, th \in [Frames -> Threads] : Ends(f, d, th)
    BY <1>7 DEF Ending
  <2>2. scope'[f] = <<>> /\ groups'[f] = <<>> /\ mode'[f] = "done"
    BY <2>1 DEF Ends, End, Rest, Scopes, IInv, Types
  <2>3. QED
    BY <2>2 DEF ShapeOf
<1>8. QED
  BY <1>1, <1>2, <1>3, <1>4, <1>5, <1>6, <1>7 DEF Kinds

LEMMA ShapesKeep ==
  ASSUME IInv, Rest, Shapes, NEW f \in Frames, Kinds(f), features' = features
  PROVE  Shapes'
<1>1. ASSUME NEW g \in Frames \ {f} PROVE ShapeOf(g)'
  <2>1. Untouched(g) /\ ShapeOf(g)
    BY Others DEF Shapes
  <2>2. QED
    BY <2>1, ShapeOfOthers
<1>2. QED
  BY <1>1, ShapeStep DEF Shapes


(* No group is further in than the innermost one.                           *)
LEMMA InnermostIsLast ==
  ASSUME Rest, NEW f \in Frames, NEW i \in 1..Len(scope[f]), scope[f][i].kind = "group"
  PROVE  i <= Innermost(f)
<1> DEFINE G == {j \in 1..Len(scope[f]) : scope[f][j].kind = "group"}
<1>1. G \in SUBSET (1..Len(scope[f])) /\ i \in G /\ Len(scope[f]) \in Nat
  <2>1. scope[f] \in Seq(Blocks)
    BY DEF Rest, Scopes
  <2>2. QED
    BY <2>1, LenProperties
<1>2. \E k \in G \cup {0} : \A j \in G : j <= k
  BY <1>1, LargestExists
<1>3. \A j \in G : j <= Innermost(f)
  BY <1>2 DEF Innermost
<1>4. QED
  BY <1>1, <1>3

(* The token a running frame polls.                                         *)
LEMMA ShapesGiveToken ==
  ASSUME Rest, Shapes, Straight, NEW f \in Frames
  PROVE  Current(f) = BodyToken(f)
<1>1. scope[f] \in Seq(Blocks) /\ groups[f] \in Seq(Tokens) /\ Len(scope[f]) \in Nat
  BY LenProperties DEF Rest, Scopes
<1>2. /\ Len(scope[f]) = Len(groups[f])
      /\ \A i \in 1..Len(scope[f]) : scope[f][i].kind = "group" /\ scope[f][i].tok = groups[f][i]
  BY DEF Shapes, ShapeOf
<1>3. CASE groups[f] = <<>>
  <2>1. ~InGroup(f)
    BY <1>2, <1>3 DEF InGroup
  <2>2. QED
    BY <1>3, <2>1 DEF Current, BodyToken
<1>4. CASE groups[f] # <<>>
  <2>1. Len(scope[f]) \in 1..Len(scope[f])
    BY <1>1, <1>2, <1>4, EmptySeq
  <2>2. InGroup(f)
    BY <1>2, <2>1 DEF InGroup
  <2>3. Innermost(f) \in 1..Len(scope[f]) /\ \A j \in 1..Len(scope[f]) : j <= Innermost(f)
    BY <1>2, <2>2, InnermostIsGroup, InnermostIsLast
  <2>4. Innermost(f) = Len(scope[f])
    BY <1>1, <2>1, <2>3
  <2>5. QED
    BY <1>2, <1>4, <2>1, <2>2, <2>4 DEF Current, BodyToken
<1>5. QED
  BY <1>3, <1>4

----------------------------------------------------------------------------
(* Values.                                                                  *)
LEMMA ValuesOfOthers ==
  ASSUME NEW g \in Frames, ValuesOf(g), Untouched(g)
  PROVE  ValuesOf(g)'
BY DEF ValuesOf, Untouched

LEMMA ValuesStep ==
  ASSUME IInv, Rest, Shapes, Values, NEW f \in Frames, Kinds(f)
  PROVE  ValuesOf(f)'
<1> USE DEF started, locals
<1>0. /\ ValuesOf(f) /\ mode \in [Frames -> Modes] /\ at \in [Frames -> Handles \cup {0}]
      /\ pending \in [Frames -> [Handles -> Frames \cup {None}]]
      /\ bound \in [Frames -> [Handles -> Frames \cup {None}]]
      /\ values \in [Frames -> [Handles -> Frames \cup {None}]]
  BY DEF Values, IInv, Types, Rest
<1>1. CASE EnterGroup(f) \/ LeaveGroup(f) \/ Break(f)
  <2>1. UNCHANGED <<pending, bound, values>> /\ mode[f] = "run" /\ mode'[f] \in {"run", "leak"}
    BY <1>0, <1>1 DEF EnterGroup, LeaveGroup, Break
  <2>2. QED
    BY <1>0, <2>1 DEF ValuesOf
<1>2. ASSUME NEW h \in Handles, SpawnRebind(f, h) \/ Await(f, h) PROVE ValuesOf(f)'
  <2>1. UNCHANGED <<pending, bound, values>> /\ mode[f] = "run" /\ mode'[f] \in {"rebind", "await"}
    BY <1>0, <1>2 DEF SpawnRebind, Await, MaySpawn, MayAwait
  <2>2. QED
    BY <1>0, <2>1 DEF ValuesOf
<1>3. ASSUME NEW h \in Handles, Noting(f, h) PROVE ValuesOf(f)'
  <2>1. UNCHANGED <<pending, bound, values, mode, at>>
    BY <1>3 DEF Noting
  <2>2. QED
    BY <1>0, <2>1 DEF ValuesOf
<1>4. CASE Call(f) \/ CallsReturn(f) \/ Leaking(f)
  <2>1. /\ UNCHANGED <<pending, bound, values>> /\ mode[f] \in {"run", "call"}
        /\ mode'[f] \in {"run", "call", "leak"}
    BY <1>0, <1>4 DEF Call, CallsReturn, Leaking
  <2>2. QED
    BY <1>0, <2>1 DEF ValuesOf
<1>5. CASE Starting(f)
  <2>1. PICK h \in Handles, c \in Frames :
           /\ Start(f, h, c)
           /\ mode[f] = "run" \/ (mode[f] = "rebind" /\ h = at[f])
           /\ values' = values
    BY <1>5 DEF Starting
  <2>2. mode' = [mode EXCEPT ![f] = "run", ![c] = "run"]
    BY <2>1 DEF Start
  <2>3. mode'[f] = "run"
    BY <1>0, <2>2
  <2>4. /\ pending' = [pending EXCEPT ![f][h] = c] /\ bound' = [bound EXCEPT ![f][h] = c]
        /\ c # None
    BY <2>1, FramesAssumption DEF Start
  <2>5. pending'[f][h] = c /\ \A k \in Handles \ {h} : pending'[f][k] = pending[f][k]
    BY <1>0, <2>4
  <2>6. bound'[f][h] = c /\ \A k \in Handles \ {h} : bound'[f][k] = bound[f][k]
    BY <1>0, <2>4
  <2>7. QED
    BY <1>0, <2>1, <2>3, <2>4, <2>5, <2>6 DEF ValuesOf
<1>6. CASE Joining(f)
  <2>1. PICK h \in Handles :
            /\ JoinOf(f, h)
            /\ JoinYields(f, h) \/ JoinFails(f, h) \/ JoinRebinds(f, h) \/ JoinDrains(f, h) \/ JoinLeaks(f)
    BY <1>6, JoinEffect
  <2>2. /\ pending[f][h] # None /\ bound' = bound /\ pending'[f][h] = None
        /\ \A k \in Handles \ {h} : pending'[f][k] = pending[f][k]
    BY <1>0, <2>1 DEF JoinOf, Joinable
  <2>3. CASE JoinYields(f, h)
    <3>1. /\ mode[f] = "await" /\ mode'[f] = "run" /\ values'[f][h] = pending[f][h]
          /\ \A k \in Handles \ {h} : values'[f][k] = values[f][k]
      BY <1>0, <2>3 DEF JoinYields
    <3>2. QED
      BY <1>0, <2>2, <3>1 DEF ValuesOf
  <2>4. CASE JoinFails(f, h) \/ JoinDrains(f, h) \/ JoinLeaks(f)
    <3>1. mode'[f] \in {"drain", "leak"}
      BY <1>0, <2>4 DEF JoinFails, JoinDrains, JoinLeaks, FailGroup
    <3>2. QED
      BY <1>0, <2>2, <3>1 DEF ValuesOf
  <2>5. CASE JoinRebinds(f, h)
    <3>1. mode[f] = "rebind" /\ h = at[f] /\ UNCHANGED <<mode, at, values>>
      BY <2>5 DEF JoinRebinds
    <3>2. QED
      BY <1>0, <2>2, <3>1 DEF ValuesOf
  <2>6. QED
    BY <2>1, <2>3, <2>4, <2>5
<1>7. CASE Ending(f)
  <2>1. PICK d \in Results, th \in [Frames -> Threads] : Ends(f, d, th)
    BY <1>7 DEF Ending
  <2>2. mode'[f] = "done" /\ pending'[f] = NoPending
    BY <1>0, <2>1 DEF Ends, End
  <2>3. QED
    BY <2>2 DEF ValuesOf, NoPending
<1>8. QED
  BY <1>1, <1>2, <1>3, <1>4, <1>5, <1>6, <1>7 DEF Kinds

LEMMA ValuesKeep ==
  ASSUME IInv, Rest, Shapes, Values, NEW f \in Frames, Kinds(f)
  PROVE  Values'
<1>1. ASSUME NEW g \in Frames \ {f} PROVE ValuesOf(g)'
  <2>1. Untouched(g) /\ ValuesOf(g)
    BY Others DEF Values
  <2>2. QED
    BY <2>1, ValuesOfOthers
<1>2. QED
  BY <1>1, ValuesStep DEF Values

----------------------------------------------------------------------------
(* What a step of f does to the table of threads.                           *)
Kept(f, c) ==
    /\ inherited'[c] = inherited[c] /\ spawner'[c] = spawner[c]
    /\ \/ thread'[c] = thread[c]
       \/ thread[c] = "live" /\ thread'[c] = "detached"
       \/ thread[c] = "live" /\ thread'[c] = "joined" /\ Joining(f)
       \/ thread[c] = "call" /\ thread'[c] = "joined" /\ spawner[c] = f /\ mode[f] = "call" /\ mode[c] = "done"
Begun(f, c) ==
    /\ mode[c] = "idle" /\ mode'[c] = "run" /\ mode[f] # "idle"
    /\ inherited'[c] = Current(f) /\ spawner'[c] = f
    /\ \/ thread'[c] = "live" /\ InGroup(f) /\ mode[f] # "call"
       \/ thread'[c] = "call" /\ mode[f] = "run" /\ mode'[f] = "call"

LEMMA Tables ==
  ASSUME IInv, Rest, Shapes, NEW f \in Frames, Kinds(f), NEW c \in Frames
  PROVE  Kept(f, c) \/ Begun(f, c)
<1> USE DEF started, locals
<1>0. /\ thread \in [Frames -> Threads] /\ inherited \in [Frames -> Tokens]
      /\ spawner \in [Frames -> Frames \cup {None}] /\ mode \in [Frames -> Modes]
      /\ pending \in [Frames -> [Handles -> Frames \cup {None}]]
  BY DEF IInv, Types, Rest
<1>1. CASE EnterGroup(f) \/ LeaveGroup(f) \/ Break(f)
  BY <1>1 DEF EnterGroup, LeaveGroup, Break, Kept
<1>2. ASSUME NEW h \in Handles, SpawnRebind(f, h) \/ Await(f, h) \/ Noting(f, h) PROVE Kept(f, c)
  BY <1>2 DEF SpawnRebind, Await, Noting, Kept
<1>3. CASE Call(f)
  <2>1. PICK d \in Frames :
           /\ mode[d] = "idle" /\ mode' = [mode EXCEPT ![f] = "call", ![d] = "run"]
           /\ inherited' = [inherited EXCEPT ![d] = Current(f)]
           /\ spawner' = [spawner EXCEPT ![d] = f]
           /\ thread' = [thread EXCEPT ![d] = "call"]
    BY <1>3 DEF Call
  <2>2. mode[f] = "run" /\ d # f
    BY <1>3, <2>1 DEF Call
  <2>3. CASE c = d
    BY <1>0, <2>1, <2>2, <2>3 DEF Begun
  <2>4. CASE c # d
    BY <1>0, <2>1, <2>4 DEF Kept
  <2>5. QED
    BY <2>3, <2>4
<1>4. CASE CallsReturn(f)
  <2>1. PICK d \in Frames :
          /\ spawner[d] = f /\ thread[d] = "call" /\ mode[d] = "done"
          /\ thread' = [thread EXCEPT ![d] = "joined"]
    BY <1>4 DEF CallsReturn
  <2>2. mode[f] = "call" /\ inherited' = inherited /\ spawner' = spawner
    BY <1>4 DEF CallsReturn
  <2>3. QED
    BY <1>0, <2>1, <2>2 DEF Kept
<1>5. CASE Leaking(f)
  BY <1>5 DEF Leaking, Kept
<1>6. CASE Starting(f)
  <2>1. PICK h \in Handles, d \in Frames :
           /\ Start(f, h, d) /\ mode[f] \in {"run", "rebind"}
           /\ mode[f] = "run" => MaySpawn(f, h)
    BY <1>6 DEF Starting
  <2>2. InGroup(f)
    <3>1. CASE mode[f] = "run"
      BY <2>1, <3>1 DEF MaySpawn
    <3>2. CASE mode[f] = "rebind"
      <4>1. Len(scope[f]) # 0 /\ \A i \in 1..Len(scope[f]) : scope[f][i].kind = "group"
        BY <3>2 DEF Shapes, ShapeOf
      <4>2. Len(scope[f]) \in Nat
        BY LenProperties DEF Rest, Scopes
      <4>3. QED
        BY <4>1, <4>2 DEF InGroup
    <3>3. QED
      BY <2>1, <3>1, <3>2
  <2>3. /\ mode[d] = "idle" /\ mode' = [mode EXCEPT ![f] = "run", ![d] = "run"]
        /\ inherited' = [inherited EXCEPT ![d] = Current(f)]
        /\ spawner' = [spawner EXCEPT ![d] = f]
        /\ thread' = [thread EXCEPT ![d] = "live"]
    BY <2>1 DEF Start
  <2>4. CASE c = d
    BY <1>0, <2>1, <2>2, <2>3, <2>4 DEF Begun
  <2>5. CASE c # d
    BY <1>0, <2>3, <2>5 DEF Kept
  <2>6. QED
    BY <2>4, <2>5
<1>7. CASE Joining(f)
  <2>1. PICK h \in Handles :
            /\ JoinOf(f, h)
            /\ JoinYields(f, h) \/ JoinFails(f, h) \/ JoinRebinds(f, h) \/ JoinDrains(f, h) \/ JoinLeaks(f)
    BY <1>7, JoinEffect
  <2>2. /\ thread' = [thread EXCEPT ![pending[f][h]] = "joined"] /\ inherited' = inherited /\ spawner' = spawner
        /\ pending[f][h] # None
    BY <2>1 DEF JoinOf, Joined, Joinable
  <2>3. thread[pending[f][h]] = "live" /\ pending[f][h] \in Frames
    BY <1>0, <2>2 DEF IInv, HeldOnce
  <2>4. CASE c = pending[f][h]
    BY <1>0, <1>7, <2>2, <2>3, <2>4 DEF Kept
  <2>5. CASE c # pending[f][h]
    BY <1>0, <2>2, <2>5 DEF Kept
  <2>6. QED
    BY <2>4, <2>5
<1>8. CASE Ending(f)
  <2>1. PICK d \in Results, th \in [Frames -> Threads] : Ends(f, d, th) /\ Reason(f, d, th)
    BY <1>8 DEF Ending
  <2>2. /\ inherited' = inherited /\ spawner' = spawner
        /\ thread'[c] = th[c] \/ (th[c] = "live" /\ thread'[c] = "detached")
    BY <1>0, <2>1 DEF Ends, End
  <2>3. th[c] = thread[c] \/ (/\ thread[c] = "call" /\ th[c] = "joined" /\ spawner[c] = f
                              /\ mode[f] = "call" /\ mode[c] = "done")
    BY <1>0, <2>1 DEF Reason
  <2>4. QED
    BY <2>2, <2>3 DEF Kept
<1>9. QED
  BY <1>1, <1>2, <1>3, <1>4, <1>5, <1>6, <1>7, <1>8 DEF Kinds

(* A frame in a call moves on when the call is over.                        *)
LEMMA CallerReturns ==
  ASSUME IInv, NEW f \in Frames, Kinds(f), mode[f] = "call"
  PROVE  CallsReturn(f) \/ Ending(f)
BY DEF Kinds, EnterGroup, LeaveGroup, Break, SpawnRebind, MaySpawn, Await, Noting,
     MayAwait, Call, Leaking, Starting, Joining, AwaitJoin, RebindJoin, DrainJoin, LeakJoin

(* A caller goes on only when it has taken its callee's result.             *)
LEMMA CallerTakesResult ==
  ASSUME IInv, NEW f \in Frames, Kinds(f), mode[f] = "call"
  PROVE  \E c \in Frames : spawner[c] = f /\ thread[c] = "call" /\ thread'[c] = "joined"
<1>0. thread \in [Frames -> Threads]
  BY DEF IInv, Types
<1>1. CASE CallsReturn(f)
  BY <1>0, <1>1 DEF CallsReturn
<1>2. CASE Ending(f)
  <2>1. PICK d \in Results, th \in [Frames -> Threads] : Ends(f, d, th) /\ Reason(f, d, th)
    BY <1>2 DEF Ending
  <2>2. PICK c \in Frames : spawner[c] = f /\ thread[c] = "call" /\ th = [thread EXCEPT ![c] = "joined"]
    BY <2>1 DEF Reason
  <2>3. thread'[c] = th[c] \/ (th[c] = "live" /\ thread'[c] = "detached")
    BY <2>1 DEF Ends, End
  <2>4. QED
    BY <1>0, <2>2, <2>3
<1>3. QED
  BY <1>1, <1>2, CallerReturns

(* What runs stays the frame of an activation that has begun; what is done  *)
(* stays done.                                                              *)
LEMMA StepsWhileOpen ==
  ASSUME IInv, NEW f \in Frames, Kinds(f)
  PROVE  mode[f] \notin {"idle", "done"} /\ mode'[f] # "idle"
<1> USE DEF started, locals
<1>0. mode \in [Frames -> Modes]
  BY DEF IInv, Types
<1>1. CASE EnterGroup(f) \/ LeaveGroup(f) \/ Break(f)
  BY <1>0, <1>1 DEF EnterGroup, LeaveGroup, Break
<1>2. ASSUME NEW h \in Handles, SpawnRebind(f, h) \/ Await(f, h) \/ Noting(f, h)
      PROVE  mode[f] \notin {"idle", "done"} /\ mode'[f] # "idle"
  BY <1>0, <1>2 DEF SpawnRebind, Await, Noting, MaySpawn, MayAwait
<1>3. CASE Call(f) \/ CallsReturn(f) \/ Leaking(f)
  BY <1>0, <1>3 DEF Call, CallsReturn, Leaking
<1>4. CASE Starting(f)
  <2>1. PICK h \in Handles, d \in Frames : Start(f, h, d) /\ mode[f] \in {"run", "rebind"}
    BY <1>4 DEF Starting
  <2>2. mode' = [mode EXCEPT ![f] = "run", ![d] = "run"]
    BY <2>1 DEF Start
  <2>3. QED
    BY <1>0, <2>1, <2>2
<1>5. CASE Joining(f)
  <2>1. mode[f] \in {"await", "rebind", "drain", "leak"}
    BY <1>5 DEF Joining, AwaitJoin, RebindJoin, DrainJoin, LeakJoin
  <2>2. PICK h \in Handles :
            JoinYields(f, h) \/ JoinFails(f, h) \/ JoinRebinds(f, h) \/ JoinDrains(f, h) \/ JoinLeaks(f)
    BY <1>5, JoinEffect
  <2>3. mode' = mode \/ \E m \in Modes \ {"idle"} : mode' = [mode EXCEPT ![f] = m]
    BY <2>2 DEF JoinYields, JoinFails, JoinRebinds, JoinDrains, JoinLeaks, FailGroup, Modes
  <2>4. QED
    BY <1>0, <2>1, <2>3
<1>6. CASE Ending(f)
  <2>1. PICK d \in Results, th \in [Frames -> Threads] : Ends(f, d, th) /\ Reason(f, d, th)
    BY <1>6 DEF Ending
  <2>2. mode[f] \in {"run", "rebind", "leak", "drain", "call"}
    BY <2>1 DEF Reason
  <2>3. mode' = [mode EXCEPT ![f] = "done"]
    BY <2>1 DEF Ends, End
  <2>4. QED
    BY <1>0, <2>2, <2>3
<1>7. QED
  BY <1>1, <1>2, <1>3, <1>4, <1>5, <1>6 DEF Kinds

----------------------------------------------------------------------------
(* Cancellation.                                                            *)
LEMMA OwnToken ==
  ASSUME Rest, Shapes, NEW f \in Frames
  PROVE  /\ Current(f) \in Tokens
         /\ groups[f] # <<>> => Current(f)[1] = f
         /\ groups[f] = <<>> => Current(f) = inherited[f]
         /\ Len(scope[f]) # 0 => groups[f] # <<>>
<1>1. scope[f] \in Seq(Blocks) /\ groups[f] \in Seq(Tokens) /\ inherited[f] \in Tokens
  BY DEF Rest, Scopes
<1>2. ShapeOf(f)
  BY DEF Shapes
<1>3. Len(scope[f]) # 0 => groups[f] # <<>>
  BY <1>1, <1>2, LenProperties, EmptySeq DEF ShapeOf
<1>4. ASSUME groups[f] # <<>> PROVE Current(f) \in Tokens /\ Current(f)[1] = f
  <2>1. Len(groups[f]) \in 1..Len(groups[f])
    BY <1>1, <1>4
  <2>2. Current(f) = groups[f][Len(groups[f])]
    BY <1>4 DEF Current
  <2>3. groups[f][Len(groups[f])] \in Tokens
    BY <1>1, <2>1
  <2>4. groups[f][Len(groups[f])][1] = f
    BY <1>2, <2>1 DEF ShapeOf
  <2>5. QED
    BY <2>2, <2>3, <2>4
<1>5. QED
  BY <1>1, <1>3, <1>4 DEF Current

LEMMA CallingIsCall ==
  ASSUME IInv, NEW f \in Frames, Kinds(f), mode[f] = "run", mode'[f] = "call"
  PROVE  Call(f)
<1> USE DEF started, locals
<1>0. mode \in [Frames -> Modes]
  BY DEF IInv, Types
<1>1. ~(EnterGroup(f) \/ LeaveGroup(f) \/ Break(f))
  BY <1>0 DEF EnterGroup, LeaveGroup, Break
<1>2. ASSUME NEW h \in Handles PROVE ~(SpawnRebind(f, h) \/ Await(f, h) \/ Noting(f, h))
  BY <1>0 DEF SpawnRebind, Await, Noting
<1>3. ~(CallsReturn(f) \/ Leaking(f))
  BY <1>0 DEF CallsReturn, Leaking
<1>4. ~Starting(f)
  <2>1. SUFFICES ASSUME Starting(f) PROVE FALSE
    OBVIOUS
  <2>2. PICK h \in Handles, d \in Frames : Start(f, h, d)
    BY <2>1 DEF Starting
  <2>3. mode' = [mode EXCEPT ![f] = "run", ![d] = "run"]
    BY <2>2 DEF Start
  <2>4. QED
    BY <1>0, <2>3
<1>5. ~Joining(f)
  BY DEF Joining, AwaitJoin, RebindJoin, DrainJoin, LeakJoin
<1>6. ~Ending(f)
  BY <1>0 DEF Ending, Ends, End
<1>7. QED
  BY <1>1, <1>2, <1>3, <1>4, <1>5, <1>6 DEF Kinds

LEMMA TokensFromAboveKeep ==
  ASSUME IInv, Rest, Shapes, TokensFromAbove, NEW f \in Frames, Kinds(f)
  PROVE  TokensFromAbove'
<1> SUFFICES ASSUME NEW c \in Frames PROVE TokenFromAbove(c)'
  BY DEF TokensFromAbove
<1>0. /\ mode[f] \notin {"idle", "done"}
      /\ \A d \in Frames : Kept(f, d) \/ Begun(f, d)
      /\ \A g \in Frames \ {f} : Untouched(g)
      /\ \A d \in Frames : TokenFromAbove(d)
      /\ \A d \in Frames : mode[d] = "idle" => thread[d] = "none"
      /\ spawner \in [Frames -> Frames \cup {None}]
  BY StepsWhileOpen, Tables, Others DEF TokensFromAbove, IInv, NotRunning, Types
<1>1. ASSUME thread'[c] = "live" PROVE inherited'[c][1] = spawner'[c]
  <2>1. CASE Kept(f, c)
    BY <1>0, <1>1, <2>1 DEF Kept, TokenFromAbove
  <2>2. CASE Begun(f, c)
    <3>1. InGroup(f) /\ inherited'[c] = Current(f) /\ spawner'[c] = f
      BY <1>1, <2>2 DEF Begun
    <3>2. Len(scope[f]) # 0
      BY <3>1 DEF InGroup
    <3>3. QED
      BY <3>1, <3>2, OwnToken
  <2>3. QED
    BY <1>0, <2>1, <2>2
<1>2. ASSUME thread'[c] = "call", NEW s \in Frames, spawner'[c] = s
      PROVE  /\ mode'[s] = "call"
             /\ inherited'[c] = IF groups'[s] = <<>> THEN inherited'[s] ELSE groups'[s][Len(groups'[s])]
             /\ \A d \in Frames : thread'[d] = "call" /\ spawner'[d] = s => d = c
  <2>1. CASE Kept(f, c)
    <3>1. thread[c] = "call" /\ s = spawner[c] /\ inherited'[c] = inherited[c]
      BY <1>2, <2>1 DEF Kept
    <3>2. /\ mode[spawner[c]] = "call" /\ inherited[c] = Current(spawner[c]) /\ spawner[c] \in Frames
          /\ \A d \in Frames : thread[d] = "call" /\ spawner[d] = spawner[c] => d = c
      BY <1>0, <1>2, <3>1, FramesAssumption DEF TokenFromAbove
    <3>3. spawner[c] # f
      <4>1. SUFFICES ASSUME spawner[c] = f PROVE FALSE
        OBVIOUS
      <4>2. PICK d \in Frames : spawner[d] = f /\ thread[d] = "call" /\ thread'[d] = "joined"
        BY <3>2, <4>1, CallerTakesResult
      <4>3. QED
        BY <1>2, <3>2, <4>1, <4>2
    <3>4. Untouched(spawner[c])
      BY <1>0, <3>2, <3>3
    <3>5. mode'[spawner[c]] = "call" /\ groups'[spawner[c]] = groups[spawner[c]]
      BY <3>2, <3>4 DEF Untouched
    <3>6. inherited'[spawner[c]] = inherited[spawner[c]]
      BY <1>0, <3>2 DEF Kept, Begun
    <3>7. ASSUME NEW d \in Frames, thread'[d] = "call", spawner'[d] = spawner[c] PROVE d = c
      <4>1. Kept(f, d)
        BY <1>0, <3>3, <3>7 DEF Begun
      <4>2. thread[d] = "call" /\ spawner[d] = spawner[c]
        BY <3>7, <4>1 DEF Kept
      <4>3. QED
        BY <3>2, <4>2
    <3>8. QED
      BY <3>1, <3>2, <3>5, <3>6, <3>7 DEF Current
  <2>2. CASE Begun(f, c)
    <3>1. /\ mode[f] = "run" /\ mode'[f] = "call" /\ s = f /\ inherited'[c] = Current(f)
          /\ thread[c] = "none"
      BY <1>0, <1>2, <2>2 DEF Begun
    <3>2. Call(f)
      BY <3>1, CallingIsCall
    <3>3. PICK d \in Frames :
             /\ spawner' = [spawner EXCEPT ![d] = f]
             /\ thread' = [thread EXCEPT ![d] = "call"]
      BY <3>2 DEF Call
    <3>4. groups' = groups
      BY <3>2 DEF Call, locals
    <3>5. inherited'[f] = inherited[f]
      BY <1>0, <3>1 DEF Kept, Begun
    <3>6. thread \in [Frames -> Threads]
      BY DEF IInv, Types
    <3>7. c = d
      BY <1>2, <3>1, <3>3, <3>6
    <3>8. ASSUME NEW e \in Frames, thread'[e] = "call", spawner'[e] = f PROVE e = c
      <4>1. SUFFICES ASSUME e # d PROVE FALSE
        BY <3>7
      <4>2. thread[e] = "call" /\ spawner[e] = f
        BY <1>0, <3>3, <3>6, <3>8, <4>1
      <4>3. QED
        BY <1>0, <3>1, <4>2, FramesAssumption DEF TokenFromAbove
    <3>9. QED
      BY <3>1, <3>4, <3>5, <3>8 DEF Current
  <2>3. QED
    BY <1>0, <2>1, <2>2
<1>3. spawner'[c] = None \/ spawner'[c] \in Frames
  BY <1>0 DEF Kept, Begun
<1>4. QED
  BY <1>1, <1>2, <1>3 DEF TokenFromAbove, Current

(* A join that fails is of a task that failed itself.                       *)
LEMMA NotCancelledBelow ==
  ASSUME IInv, Rest, TokensFromAbove, Cancels, NEW f \in Frames, NEW h \in Handles,
         Joinable(f, h), mode[f] \notin {"drain", "done"}
  PROVE  outcome[pending[f][h]].code # "cancelled"
<1> DEFINE c == pending[f][h]
<1>1. c \in Frames /\ thread[c] = "live" /\ spawner[c] = f /\ mode[c] = "done"
  BY DEF Joinable, IInv, Types, HeldOnce
<1>2. inherited[c][1] = f /\ inherited[c] \in Tokens
  BY <1>1 DEF TokensFromAbove, TokenFromAbove, Rest
<1>3. SUFFICES ASSUME outcome[c].code = "cancelled" PROVE FALSE
  OBVIOUS
<1>4. inherited[c] \in cancelled
  BY <1>1, <1>3 DEF Cancels, CancelOf
<1>5. PICK n \in 0..MaxGroups : inherited[c] = <<f, n>>
  BY <1>2 DEF Tokens
<1>6. QED
  BY <1>4, <1>5 DEF Cancels, CancelOf

(* The token of a running frame is cancelled only from above.               *)
LEMMA PolledFromAbove ==
  ASSUME Rest, Shapes, Cancels, NEW f \in Frames, mode[f] \notin {"drain", "done"},
         Current(f) \in cancelled
  PROVE  inherited[f] \in cancelled
<1>1. SUFFICES ASSUME groups[f] # <<>> PROVE FALSE
  BY OwnToken
<1>2. Current(f) \in Tokens /\ Current(f)[1] = f
  BY <1>1, OwnToken
<1>3. PICK n \in 0..MaxGroups : Current(f) = <<f, n>>
  BY <1>2 DEF Tokens
<1>4. QED
  BY <1>3 DEF Cancels, CancelOf

LEMMA CleanPrimitive ==
  ASSUME NEW f \in Frames, NEW c \in LeafCodes \ {"cancelled"}
  PROVE  Clean(Primitive(c, f))
BY DEF Clean, Primitive

LEMMA CleanMerge ==
  ASSUME NEW d \in Results, NEW e \in Results, Clean(d), Clean(e)
  PROVE  Clean(Merge(d, e))
BY DEF Clean, Merge

(* Who cancels, and what.                                                   *)
LEMMA CancelEffect ==
  ASSUME IInv, Rest, Shapes, NEW f \in Frames, Kinds(f)
  PROVE  \/ cancelled' = cancelled
         \/ /\ cancelled' = cancelled \cup {Current(f)} /\ mode'[f] = "drain"
            /\ Current(f)[1] = f
<1> USE DEF started, locals
<1>1. CASE Joining(f)
  <2>1. PICK h \in Handles :
            /\ JoinOf(f, h)
            /\ JoinYields(f, h) \/ JoinFails(f, h) \/ JoinRebinds(f, h) \/ JoinDrains(f, h) \/ JoinLeaks(f)
    BY <1>1, JoinEffect
  <2>2. CASE JoinFails(f, h)
    <3>1. Len(scope[f]) # 0
      BY <2>2 DEF JoinFails, Shapes, ShapeOf
    <3>2. mode' = [mode EXCEPT ![f] = "drain"] /\ cancelled' = cancelled \cup {Current(f)}
      BY <2>2 DEF JoinFails, FailGroup
    <3>3. QED
      BY <3>1, <3>2, OwnToken DEF IInv, Types
  <2>3. QED
    BY <2>1, <2>2 DEF JoinYields, JoinRebinds, JoinDrains, JoinLeaks
<1>2. CASE EnterGroup(f) \/ LeaveGroup(f) \/ Break(f)
  BY <1>2 DEF EnterGroup, LeaveGroup, Break
<1>3. ASSUME NEW h \in Handles, SpawnRebind(f, h) \/ Await(f, h) \/ Noting(f, h)
      PROVE  cancelled' = cancelled
  BY <1>3 DEF SpawnRebind, Await, Noting
<1>4. CASE Call(f) \/ CallsReturn(f) \/ Leaking(f) \/ Starting(f)
  BY <1>4 DEF Call, CallsReturn, Leaking, Starting
<1>5. CASE Ending(f)
  BY <1>5 DEF Ending, Ends
<1>6. QED
  BY <1>1, <1>2, <1>3, <1>4, <1>5 DEF Kinds

(* Only a join or the end of a frame has to do with failures.               *)
LEMMA NoFailure ==
  ASSUME IInv, NEW f \in Frames, Kinds(f), ~Joining(f), ~Ending(f)
  PROVE  /\ mode[f] \in {"run", "rebind", "call"} /\ mode'[f] \notin {"drain", "done"}
         /\ cancelled' = cancelled /\ outcome' = outcome
<1> USE DEF started, locals
<1>0. mode \in [Frames -> Modes]
  BY DEF IInv, Types
<1>1. CASE EnterGroup(f) \/ LeaveGroup(f) \/ Break(f)
  BY <1>0, <1>1 DEF EnterGroup, LeaveGroup, Break
<1>2. ASSUME NEW h \in Handles, SpawnRebind(f, h) \/ Await(f, h) \/ Noting(f, h)
      PROVE  /\ mode[f] = "run" /\ mode'[f] \notin {"drain", "done"}
             /\ cancelled' = cancelled /\ outcome' = outcome
  BY <1>0, <1>2 DEF SpawnRebind, Await, Noting, MaySpawn, MayAwait
<1>3. CASE Call(f) \/ CallsReturn(f) \/ Leaking(f)
  BY <1>0, <1>3 DEF Call, CallsReturn, Leaking
<1>4. CASE Starting(f)
  <2>1. PICK h \in Handles, d \in Frames :
           /\ Start(f, h, d) /\ mode[f] \in {"run", "rebind"}
           /\ cancelled' = cancelled /\ outcome' = outcome
    BY <1>4 DEF Starting
  <2>2. mode' = [mode EXCEPT ![f] = "run", ![d] = "run"]
    BY <2>1 DEF Start
  <2>3. QED
    BY <1>0, <2>1, <2>2
<1>5. QED
  BY <1>1, <1>2, <1>3, <1>4 DEF Kinds

LEMMA CancelOfOthers ==
  ASSUME IInv, Rest, Shapes, NEW f \in Frames, Kinds(f), NEW g \in Frames \ {f}, CancelOf(g)
  PROVE  CancelOf(g)'
<1>1. Untouched(g) /\ (Kept(f, g) \/ Begun(f, g))
  BY Others, Tables
<1>2. ASSUME NEW n \in 0..MaxGroups, <<g, n>> \in cancelled' PROVE mode'[g] \in {"drain", "done"}
  <2>1. <<g, n>> \in cancelled
    BY <1>2, CancelEffect
  <2>2. QED
    BY <1>1, <2>1 DEF CancelOf, Untouched
<1>3. ASSUME mode'[g] = "done", outcome'[g].code = "cancelled" PROVE inherited'[g] \in cancelled'
  <2>1. mode[g] = "done" /\ outcome[g].code = "cancelled"
    BY <1>1, <1>3 DEF Untouched
  <2>2. inherited'[g] = inherited[g]
    BY <1>1, <2>1 DEF Kept, Begun
  <2>3. cancelled \subseteq cancelled'
    BY CancelEffect
  <2>4. QED
    BY <2>1, <2>2, <2>3 DEF CancelOf
<1>4. /\ mode'[g] = "drain" => Clean(failure[g])
      /\ mode'[g] = "done" /\ outcome[g].code # "cancelled" => Clean(outcome[g])
  BY <1>1 DEF Untouched, CancelOf
<1>5. mode'[g] # "done" => outcome'[g] = Ok
  BY <1>1 DEF Untouched, CancelOf
<1>6. QED
  BY <1>1, <1>2, <1>3, <1>4, <1>5 DEF CancelOf, Untouched, Clean

LEMMA CancelStep ==
  ASSUME IInv, Rest, Shapes, TokensFromAbove, Cancels, NEW f \in Frames, Kinds(f)
  PROVE  CancelOf(f)'
<1>0. /\ mode \in [Frames -> Modes] /\ failure \in [Frames -> Results] /\ outcome \in [Frames -> Results]
      /\ mode[f] # "done" /\ CancelOf(f)
  BY StepsWhileOpen DEF IInv, Types, Cancels
<1>1. CASE ~Joining(f) /\ ~Ending(f)
  BY <1>0, <1>1, NoFailure DEF CancelOf
<1>2. CASE Joining(f)
  <2>1. PICK h \in Handles :
            /\ JoinOf(f, h)
            /\ JoinYields(f, h) \/ JoinFails(f, h) \/ JoinRebinds(f, h) \/ JoinDrains(f, h) \/ JoinLeaks(f)
    BY <1>2, JoinEffect
  <2>2. Joinable(f, h) /\ outcome' = outcome
    BY <2>1 DEF JoinOf
  <2>30. outcome'[f] = Ok
    BY <1>0, <2>2 DEF CancelOf
  <2>3. PICK c \in Frames : c = pending[f][h] /\ mode[c] = "done"
    BY <2>2 DEF Joinable, IInv, Types
  <2>4. outcome[c].code # "cancelled" => Clean(outcome[c])
    BY <2>3 DEF Cancels, CancelOf
  <2>5. CASE JoinFails(f, h)
    <3>1. /\ mode[f] \in {"await", "rebind"} /\ mode' = [mode EXCEPT ![f] = "drain"]
          /\ failure' = [failure EXCEPT ![f] = outcome[c]]
      BY <2>3, <2>5 DEF JoinFails, FailGroup
    <3>2. outcome[c].code # "cancelled"
      BY <2>2, <2>3, <3>1, NotCancelledBelow
    <3>3. mode'[f] = "drain" /\ failure'[f] = outcome[c]
      BY <1>0, <3>1
    <3>4. QED
      BY <2>30, <2>4, <3>2, <3>3 DEF CancelOf, Clean
  <2>6. CASE JoinDrains(f, h)
    <3>1. /\ mode' = mode /\ mode[f] = "drain" /\ cancelled' = cancelled
          /\ failure'[f] = IF outcome[c].code \in {"ok", "cancelled"} THEN failure[f]
                           ELSE Merge(failure[f], outcome[c])
      BY <1>0, <2>3, <2>6 DEF JoinDrains
    <3>2. Clean(failure[f])
      BY <1>0, <3>1 DEF CancelOf
    <3>3. Clean(failure'[f])
      BY <1>0, <2>4, <3>1, <3>2, CleanMerge
    <3>4. QED
      BY <2>30, <3>1, <3>3 DEF CancelOf, Clean
  <2>7. CASE JoinYields(f, h) \/ JoinRebinds(f, h) \/ JoinLeaks(f)
    <3>1. cancelled' = cancelled /\ mode[f] # "drain" /\ mode'[f] \notin {"drain", "done"}
      BY <1>0, <2>7 DEF JoinYields, JoinRebinds, JoinLeaks
    <3>2. QED
      BY <1>0, <2>30, <3>1 DEF CancelOf
  <2>8. QED
    BY <2>1, <2>5, <2>6, <2>7
<1>3. CASE Ending(f)
  <2>1. PICK d \in Results, th \in [Frames -> Threads] : Ends(f, d, th) /\ Reason(f, d, th)
    BY <1>3 DEF Ending
  <2>2. /\ mode'[f] = "done" /\ outcome'[f] = d
        /\ inherited' = inherited /\ cancelled' = cancelled
    BY <1>0, <2>1 DEF Ends, End
  <2>3. ASSUME NEW c \in Frames, mode[c] = "done" PROVE outcome[c].code # "cancelled" => Clean(outcome[c])
    BY <2>3 DEF Cancels, CancelOf
  <2>4. CASE mode[f] = "call" /\ \E c \in Frames :
                  spawner[c] = f /\ thread[c] = "call" /\ mode[c] = "done" /\ d = outcome[c]
    <3>1. PICK c \in Frames : spawner[c] = f /\ thread[c] = "call" /\ mode[c] = "done" /\ d = outcome[c]
      BY <2>4
    <3>2. ASSUME d.code = "cancelled" PROVE inherited[f] \in cancelled
      <4>1. inherited[c] \in cancelled
        BY <3>1, <3>2 DEF Cancels, CancelOf
      <4>2. inherited[c] = Current(f)
        BY <3>1, FramesAssumption DEF TokensFromAbove, TokenFromAbove
      <4>3. QED
        BY <2>4, <4>1, <4>2, PolledFromAbove
    <3>3. QED
      BY <2>2, <2>3, <3>1, <3>2 DEF CancelOf, Clean
  <2>5. CASE mode[f] = "run" /\ Current(f) \in cancelled /\ d = Primitive("cancelled", f)
    <3>1. d.code = "cancelled" /\ inherited[f] \in cancelled
      BY <2>5, PolledFromAbove DEF Primitive
    <3>2. QED
      BY <2>2, <3>1 DEF CancelOf
  <2>6. ASSUME Clean(d) PROVE CancelOf(f)'
    BY <2>2, <2>6 DEF CancelOf, Clean
  <2>7. CASE mode[f] = "drain" /\ d = failure[f]
    BY <1>0, <2>6, <2>7 DEF CancelOf
  <2>8. CASE d = Ok
    BY <2>6, <2>8 DEF Ok, Clean
  <2>9. CASE \E c \in {"fault", "exit", "leak"} : d = Primitive(c, f)
    BY <2>6, <2>9, CleanPrimitive DEF LeafCodes
  <2>10. QED
    BY <2>1, <2>4, <2>5, <2>7, <2>8, <2>9 DEF Reason
<1>4. QED
  BY <1>1, <1>2, <1>3

LEMMA CancelsKeep ==
  ASSUME IInv, Rest, Shapes, TokensFromAbove, Cancels, NEW f \in Frames, Kinds(f)
  PROVE  Cancels'
<1>1. ASSUME NEW g \in Frames \ {f} PROVE CancelOf(g)'
  BY CancelOfOthers DEF Cancels
<1>2. QED
  BY <1>1, CancelStep DEF Cancels

----------------------------------------------------------------------------
(* What a plain program owes.                                               *)
LEMMA OwedOfOthers ==
  ASSUME NEW g \in Frames, OwedOf(g), Untouched(g)
  PROVE  OwedOf(g)'
BY DEF OwedOf, Untouched

(* In a frame with one block, that block is the group a spawn is listed in. *)
LEMMA OneBlock ==
  ASSUME Rest, Shapes, NEW f \in Frames, Len(scope[f]) = 1
  PROVE  /\ InGroup(f) /\ Innermost(f) = 1 /\ List(f) = scope[f][1].list /\ Top(f) = scope[f][1]
         /\ scope[f][1] \in Blocks
<1>1. scope[f] \in Seq(Blocks)
  BY DEF Rest, Scopes
<1>2. 1 \in 1..Len(scope[f]) /\ scope[f][1].kind = "group"
  BY DEF Shapes, ShapeOf
<1>3. InGroup(f)
  BY <1>2 DEF InGroup
<1>4. Innermost(f) = 1
  <2>1. Innermost(f) \in 1..Len(scope[f])
    BY <1>3, InnermostIsGroup
  <2>2. QED
    BY <2>1
<1>5. QED
  BY <1>1, <1>2, <1>3, <1>4 DEF List, Top

LEMMA AtMostOneBlock ==
  ASSUME NEW n \in Nat, n <= 1, n # 0
  PROVE  n = 1
OBVIOUS

LEMMA OwedStep ==
  ASSUME IInv, Rest, Shapes, Plain, NEW f \in Frames, OwedOf(f), Kinds(f)
  PROVE  OwedOf(f)'
<1> USE DEF started, locals
<1>0. /\ mode \in [Frames -> Modes] /\ pending \in [Frames -> [Handles -> Frames \cup {None}]]
      /\ scope \in [Frames -> Seq(Blocks)] /\ scope[f] \in Seq(Blocks) /\ Len(scope[f]) \in Nat
      /\ Len(scope[f]) = Len(groups[f])
      /\ "nest" \notin features /\ "jump" \notin features /\ "early" \notin features
  BY LenProperties DEF IInv, Types, Rest, Scopes, Shapes, ShapeOf, Plain, Straight, Without
<1>1. CASE EnterGroup(f)
  <2>1. groups[f] = <<>>
    BY <1>0, <1>1 DEF EnterGroup
  <2>2. Len(scope[f]) = 0
    BY <1>0, <2>1, EmptySeq
  <2>3. \A h \in Handles : pending[f][h] = None
    BY <2>2 DEF OwedOf
  <2>4. mode' = mode /\ pending' = pending /\ mode[f] = "run"
    BY <1>1 DEF EnterGroup
  <2>5. Len(scope'[f]) = 1
    <3>1. \E b : scope' = [scope EXCEPT ![f] = Append(scope[f], b)]
      BY <1>1 DEF EnterGroup
    <3>2. \E b : scope'[f] = Append(scope[f], b)
      BY <1>0, <3>1
    <3>3. QED
      BY <1>0, <2>2, <3>2
  <2>6. QED
    BY <2>3, <2>4, <2>5 DEF OwedOf
<1>2. CASE LeaveGroup(f)
  <2>1. Len(scope[f]) = 1
    <3>1. scope[f] # <<>> /\ Len(scope[f]) <= 1
      BY <1>2 DEF LeaveGroup, OwedOf
    <3>2. Len(scope[f]) # 0
      BY <1>0, <3>1, EmptySeq
    <3>3. QED
      BY <1>0, <3>1, <3>2, AtMostOneBlock
  <2>2. scope'[f] = Outward(scope[f])
    BY <1>0, <1>2 DEF LeaveGroup
  <2>3. Len(scope'[f]) = 0
    BY <2>1, <2>2 DEF Outward
  <2>4. Range(scope[f][1].list) \subseteq scope[f][1].awaited
    BY <1>2, <2>1, OneBlock DEF LeaveGroup
  <2>5. \A h \in Handles : pending[f][h] = None
    BY <2>4 DEF OwedOf
  <2>6. Held(pending[f]) = {}
    BY <2>5 DEF Held
  <2>7. mode'[f] = "run" /\ pending' = pending
    BY <1>0, <1>2, <2>6 DEF LeaveGroup
  <2>8. QED
    BY <2>3, <2>5, <2>7 DEF OwedOf
<1>3. ~Break(f)
  BY <1>0 DEF Break
<1>4. ASSUME NEW h \in Handles PROVE ~SpawnRebind(f, h)
  <2>1. SUFFICES ASSUME SpawnRebind(f, h) PROVE FALSE
    OBVIOUS
  <2>2. /\ Len(scope[f]) = 1 /\ h \in Range(scope[f][1].list) /\ h \notin scope[f][1].awaited
    BY <2>1 DEF SpawnRebind, OwedOf
  <2>3. h \in Range(List(f)) => h \in Top(f).awaited
    BY <1>0, <2>1 DEF SpawnRebind, MaySpawn
  <2>4. QED
    BY <2>2, <2>3, OneBlock
<1>5. ASSUME NEW h \in Handles, Await(f, h) PROVE OwedOf(f)'
  <2>1. UNCHANGED <<scope, pending>> /\ mode'[f] = "await"
    BY <1>0, <1>5 DEF Await
  <2>2. QED
    BY <2>1 DEF OwedOf
<1>6. ASSUME NEW h \in Handles, NoteAwait(f, h), pending'[f][h] = None,
             \A k \in Handles \ {h} : pending'[f][k] = pending[f][k],
             mode'[f] \notin {"leak", "rebind"}
      PROVE  OwedOf(f)'
  <2>1. /\ Len(scope'[f]) = Len(scope[f])
        /\ \A i \in 1..Len(scope[f]) :
               /\ scope'[f][i].list = scope[f][i].list
               /\ scope'[f][i].awaited \subseteq scope[f][i].awaited \cup {h}
    BY <1>6, NoteAwaitEffect DEF SameShape
  <2>2. ASSUME NEW k \in Handles, pending'[f][k] # None
        PROVE  Len(scope'[f]) = 1 /\ k \in Range(scope'[f][1].list) /\ k \notin scope'[f][1].awaited
    <3>1. k # h /\ pending[f][k] # None
      BY <1>6, <2>2
    <3>2. Len(scope[f]) = 1 /\ k \in Range(scope[f][1].list) /\ k \notin scope[f][1].awaited
      BY <3>1 DEF OwedOf
    <3>3. 1 \in 1..Len(scope[f])
      BY <3>2
    <3>4. QED
      BY <2>1, <3>1, <3>2, <3>3
  <2>3. QED
    BY <1>6, <2>1, <2>2 DEF OwedOf
<1>7. ASSUME NEW h \in Handles, Noting(f, h) PROVE OwedOf(f)'
  <2>1. NoteAwait(f, h) /\ pending' = pending /\ pending[f][h] = None /\ mode' = mode /\ mode[f] = "run"
    BY <1>7 DEF Noting, MayAwait
  <2>2. QED
    BY <1>6, <2>1
<1>8. CASE Call(f) \/ CallsReturn(f)
  <2>1. UNCHANGED <<scope, pending>> /\ mode'[f] \in {"call", "run"}
    BY <1>0, <1>8 DEF Call, CallsReturn
  <2>2. QED
    BY <2>1 DEF OwedOf
<1>9. ~Leaking(f)
  <2>1. SUFFICES ASSUME Leaking(f) PROVE FALSE
    OBVIOUS
  <2>2. Owed(f) = {} /\ Held(pending[f]) # {}
    BY <1>0, <2>1 DEF Leaking
  <2>3. PICK h \in Handles : pending[f][h] # None
    BY <2>2 DEF Held
  <2>4. /\ Len(scope[f]) = 1 /\ h \in Range(scope[f][1].list) /\ h \notin scope[f][1].awaited
    BY <2>3 DEF OwedOf
  <2>5. 1 \in 1..Len(scope[f]) /\ \A j \in 1..Len(scope[f]) : j = 1
    BY <2>4
  <2>6. h \in Owed(f)
    BY <2>4, <2>5 DEF Owed
  <2>7. QED
    BY <2>2, <2>6
<1>10. CASE Starting(f)
  <2>1. PICK h \in Handles, c \in Frames :
           /\ Start(f, h, c) /\ mode[f] \in {"run", "rebind"}
           /\ mode[f] = "run" => MaySpawn(f, h)
    BY <1>10 DEF Starting
  <2>2. MaySpawn(f, h) /\ InGroup(f)
    BY <2>1 DEF OwedOf, MaySpawn
  <2>3. Len(scope[f]) = 1
    <3>1. Len(scope[f]) # 0 /\ Len(scope[f]) <= 1
      BY <1>0, <2>2 DEF InGroup, OwedOf
    <3>2. QED
      BY <1>0, <3>1, AtMostOneBlock
  <2>4. /\ Innermost(f) = 1 /\ List(f) = scope[f][1].list
    BY <2>3, OneBlock
  <2>5. /\ Len(scope'[f]) = 1
        /\ Range(scope[f][1].list) \subseteq Range(scope'[f][1].list)
        /\ scope'[f][1].awaited \subseteq scope[f][1].awaited
        /\ h \in Range(scope'[f][1].list)
        /\ h \in Range(scope[f][1].list) => h \notin scope'[f][1].awaited
    <3>1. 1 \in 1..Len(scope[f])
      BY <2>3
    <3>2. QED
      BY <1>0, <2>1, <2>2, <2>3, <2>4, <3>1, StartEffect DEF SameShape
  <2>6. h \notin scope'[f][1].awaited
    <3>1. SUFFICES ASSUME h \in scope[f][1].awaited, h \notin Range(scope[f][1].list) PROVE FALSE
      BY <2>5
    <3>2. ~Stale(f, h)
      BY <1>0, <2>2 DEF MaySpawn
    <3>3. 1 \in Innermost(f)..Len(scope[f])
      BY <2>3, <2>4
    <3>4. QED
      BY <2>4, <3>1, <3>2, <3>3 DEF Stale
  <2>7. mode'[f] = "run" /\ \A k \in Handles \ {h} : pending'[f][k] = pending[f][k]
    <3>1. mode' = [mode EXCEPT ![f] = "run", ![c] = "run"] /\ pending' = [pending EXCEPT ![f][h] = c]
      BY <2>1 DEF Start
    <3>2. QED
      BY <1>0, <3>1
  <2>8. QED
    BY <2>3, <2>5, <2>6, <2>7 DEF OwedOf
<1>11. CASE Joining(f)
  <2>1. PICK h \in Handles :
            /\ JoinOf(f, h)
            /\ JoinYields(f, h) \/ JoinFails(f, h) \/ JoinRebinds(f, h) \/ JoinDrains(f, h) \/ JoinLeaks(f)
    BY <1>11, JoinEffect
  <2>2. pending'[f][h] = None /\ \A k \in Handles \ {h} : pending'[f][k] = pending[f][k]
    BY <1>0, <2>1 DEF JoinOf
  <2>3. CASE JoinYields(f, h)
    <3>1. mode'[f] = "run" /\ NoteAwait(f, h)
      BY <1>0, <2>3 DEF JoinYields
    <3>2. QED
      BY <1>6, <2>2, <3>1
  <2>4. CASE JoinFails(f, h) \/ JoinDrains(f, h)
    <3>1. mode'[f] = "drain" /\ scope' = scope
      BY <1>0, <2>4 DEF JoinFails, JoinDrains, FailGroup
    <3>2. QED
      BY <2>2, <3>1 DEF OwedOf
  <2>5. ~JoinRebinds(f, h) /\ ~JoinLeaks(f)
    BY DEF JoinRebinds, JoinLeaks, OwedOf
  <2>6. QED
    BY <2>1, <2>3, <2>4, <2>5
<1>12. CASE Ending(f)
  <2>1. PICK d \in Results, th \in [Frames -> Threads] : Ends(f, d, th)
    BY <1>12 DEF Ending
  <2>2. mode'[f] = "done" /\ pending'[f] = NoPending /\ scope'[f] = <<>>
    BY <1>0, <2>1 DEF Ends, End
  <2>3. QED
    BY <2>2 DEF OwedOf, NoPending
<1>13. QED
  BY <1>1, <1>2, <1>3, <1>4, <1>5, <1>7, <1>8, <1>9, <1>10, <1>11, <1>12 DEF Kinds

LEMMA OwesKeep ==
  ASSUME IInv, Rest, Shapes, Plain, Owes, NEW f \in Frames, Kinds(f)
  PROVE  Owes'
<1>1. ASSUME NEW g \in Frames \ {f} PROVE OwedOf(g)'
  <2>1. Untouched(g) /\ OwedOf(g)
    BY Others DEF Owes
  <2>2. QED
    BY <2>1, OwedOfOthers
<1>2. QED
  BY <1>1, OwedStep DEF Owes

----------------------------------------------------------------------------
(* Failures are tallied.                                                    *)
LEMMA TallyStep ==
  ASSUME IInv, Rest, Shapes, Plain => Owes, Tally, NEW f \in Frames, Kinds(f), NEW c \in Frames,
         features' = features, thread'[c] = "joined"
  PROVE  TalliedOf(c)'
<1>0. /\ mode \in [Frames -> Modes] /\ failure \in [Frames -> Results] /\ outcome \in [Frames -> Results]
      /\ pending \in [Frames -> [Handles -> Frames \cup {None}]] /\ thread \in [Frames -> Threads]
      /\ spawner \in [Frames -> Frames \cup {None}]
      /\ mode[f] \notin {"idle", "done"} /\ TalliedOf(c)
      /\ (Plain => mode[f] # "leak") /\ (Plain' <=> Plain)
  BY StepsWhileOpen DEF IInv, Types, Owes, OwedOf, Tally, Plain, Without
<1>1. Kept(f, c)
  BY Tables DEF Begun
<1>2. spawner'[c] = spawner[c]
  BY <1>1 DEF Kept
<1>3. ASSUME mode[c] = "done" PROVE c # f /\ mode'[c] = "done" /\ outcome'[c] = outcome[c]
  BY <1>0, <1>3, Others DEF Untouched
\* The failure of c goes to its spawner, which drains or ends.
<1>4. ASSUME mode[c] = "done", spawner[c] \in Frames,
             outcome[c].code \notin {"ok", "cancelled"} =>
                 \/ mode'[spawner[c]] = "drain" /\ outcome[c].leaves \subseteq failure'[spawner[c]].leaves
                 \/ mode'[spawner[c]] = "done" /\ outcome[c].leaves \subseteq outcome'[spawner[c]].leaves
                 \/ /\ ~Plain
                    /\ \/ mode'[spawner[c]] = "leak"
                       \/ /\ mode'[spawner[c]] = "done"
                          /\ outcome'[spawner[c]] = Primitive("leak", spawner[c])
      PROVE  TalliedOf(c)'
  <2>1. mode'[c] = "done" /\ spawner'[c] = spawner[c] /\ outcome'[c] = outcome[c]
    BY <1>2, <1>3, <1>4
  <2>2. QED
    BY <1>0, <1>4, <2>1 DEF TalliedOf, Leaks
<1>5. CASE thread[c] = "joined" /\ spawner[c] # f
  <2>1. mode[c] = "done" /\ spawner[c] \in Frames \ {f} /\ Untouched(spawner[c])
    BY <1>0, <1>5, Others DEF TalliedOf
  <2>2. QED
    BY <1>0, <1>4, <1>5, <2>1 DEF TalliedOf, Untouched, Leaks
<1>6. CASE thread[c] = "joined" /\ spawner[c] = f
  <2>1. mode[c] = "done"
    BY <1>0, <1>6 DEF TalliedOf
  <2>2. SUFFICES ASSUME outcome[c].code \notin {"ok", "cancelled"}
                 PROVE  \/ mode'[f] = "drain" /\ outcome[c].leaves \subseteq failure'[f].leaves
                        \/ mode'[f] = "done" /\ outcome[c].leaves \subseteq outcome'[f].leaves
                        \/ ~Plain /\ Leaks(f)'
    BY <1>4, <1>6, <2>1 DEF Leaks
  <2>3. CASE mode[f] = "leak"
    <3>1. CASE Joining(f)
      <4>1. PICK h \in Handles : JoinLeaks(f)
        BY <2>3, <3>1, JoinEffect DEF JoinYields, JoinFails, JoinRebinds, JoinDrains
      <4>2. QED
        BY <1>0, <2>3, <4>1 DEF JoinLeaks, Leaks
    <3>2. CASE Ending(f)
      <4>1. PICK d \in Results, th \in [Frames -> Threads] : Ends(f, d, th) /\ Reason(f, d, th)
        BY <3>2 DEF Ending
      <4>2. d = Primitive("leak", f)
        BY <2>3, <4>1 DEF Reason
      <4>3. mode'[f] = "done" /\ outcome'[f] = d
        BY <1>0, <4>1 DEF Ends, End
      <4>4. QED
        BY <1>0, <2>3, <4>2, <4>3 DEF Leaks, Primitive
    <3>3. QED
      BY <2>3, <3>1, <3>2, NoFailure
  <2>4. CASE mode[f] # "leak"
    <3>0. mode[f] = "drain" /\ outcome[c].leaves \subseteq failure[f].leaves
      BY <1>0, <1>6, <2>2, <2>4 DEF TalliedOf, Leaks
    <3>1. CASE Joining(f)
      <4>1. PICK h \in Handles : JoinDrains(f, h)
        BY <3>0, <3>1, JoinEffect DEF JoinYields, JoinFails, JoinRebinds, JoinLeaks
      <4>2. failure'[f] = failure[f] \/ failure'[f] = Merge(failure[f], outcome[pending[f][h]])
        BY <1>0, <4>1 DEF JoinDrains
      <4>3. failure[f].leaves \subseteq failure'[f].leaves
        BY <4>2 DEF Merge
      <4>4. QED
        BY <3>0, <4>1, <4>3 DEF JoinDrains
    <3>2. CASE Ending(f)
      <4>1. PICK d \in Results, th \in [Frames -> Threads] : Ends(f, d, th) /\ Reason(f, d, th)
        BY <3>2 DEF Ending
      <4>2. d = failure[f]
        BY <3>0, <4>1 DEF Reason
      <4>3. mode'[f] = "done" /\ outcome'[f] = d
        BY <1>0, <4>1 DEF Ends, End
      <4>4. QED
        BY <3>0, <4>2, <4>3
    <3>3. QED
      BY <3>0, <3>1, <3>2, NoFailure
  <2>5. QED
    BY <2>3, <2>4
<1>7. CASE thread[c] = "live"
  <2>1. Joining(f)
    BY <1>1, <1>7 DEF Kept
  <2>2. PICK h \in Handles :
            /\ JoinOf(f, h)
            /\ JoinYields(f, h) \/ JoinFails(f, h) \/ JoinRebinds(f, h) \/ JoinDrains(f, h) \/ JoinLeaks(f)
    BY <2>1, JoinEffect
  <2>3. thread' = [thread EXCEPT ![pending[f][h]] = "joined"] /\ Joinable(f, h)
    BY <2>2 DEF JoinOf, Joined
  <2>4. c = pending[f][h]
    BY <1>0, <1>7, <2>3
  <2>5. mode[c] = "done" /\ spawner[c] = f
    BY <2>3, <2>4 DEF Joinable, IInv, HeldOnce
  <2>6. SUFFICES ASSUME outcome[c].code \notin {"ok", "cancelled"}
                 PROVE  \/ mode'[f] = "drain" /\ outcome[c].leaves \subseteq failure'[f].leaves
                        \/ ~Plain /\ Leaks(f)'
    BY <1>4, <2>5 DEF Leaks
  <2>7. ~JoinYields(f, h) /\ ~JoinRebinds(f, h)
    BY <2>4, <2>6 DEF JoinYields, JoinRebinds
  <2>70. CASE JoinLeaks(f)
    BY <1>0, <2>70 DEF JoinLeaks, Leaks
  <2>8. CASE JoinFails(f, h)
    <3>1. mode' = [mode EXCEPT ![f] = "drain"] /\ failure' = [failure EXCEPT ![f] = outcome[c]]
      BY <2>4, <2>8 DEF JoinFails, FailGroup
    <3>2. QED
      BY <1>0, <3>1
  <2>9. CASE JoinDrains(f, h)
    <3>1. /\ mode' = mode /\ mode[f] = "drain"
          /\ failure' = [failure EXCEPT ![f] = Merge(failure[f], outcome[c])]
      BY <2>4, <2>6, <2>9 DEF JoinDrains
    <3>2. failure'[f] = Merge(failure[f], outcome[c])
      BY <1>0, <3>1
    <3>3. QED
      BY <3>1, <3>2 DEF Merge
  <2>10. QED
    BY <2>2, <2>7, <2>70, <2>8, <2>9
<1>8. CASE thread[c] = "call"
  <2>1. spawner[c] = f /\ mode[f] = "call" /\ mode[c] = "done"
    BY <1>1, <1>8 DEF Kept
  <2>2. CASE CallsReturn(f)
    <3>1. PICK d \in Frames : outcome[d].code = "ok" /\ thread' = [thread EXCEPT ![d] = "joined"]
      BY <2>2 DEF CallsReturn
    <3>2. c = d
      BY <1>0, <1>8, <3>1
    <3>3. QED
      BY <1>4, <2>1, <3>1, <3>2
  <2>3. CASE Ending(f)
    <3>1. PICK d \in Results, th \in [Frames -> Threads] : Ends(f, d, th) /\ Reason(f, d, th)
      BY <2>3 DEF Ending
    <3>2. PICK e \in Frames : d = outcome[e] /\ th = [thread EXCEPT ![e] = "joined"]
      BY <2>1, <3>1 DEF Reason
    <3>3. thread'[c] = th[c] \/ thread'[c] = "detached"
      BY <3>1 DEF Ends, End
    <3>4. c = e
      BY <1>0, <1>8, <3>2, <3>3
    <3>5. mode'[f] = "done" /\ outcome'[f] = outcome[c]
      BY <1>0, <3>1, <3>2, <3>4 DEF Ends, End
    <3>6. QED
      BY <1>4, <2>1, <3>5
  <2>4. QED
    BY <2>1, <2>2, <2>3, CallerReturns
<1>9. QED
  BY <1>1, <1>5, <1>6, <1>7, <1>8 DEF Kept

LEMMA TallyKeeps ==
  ASSUME IInv, Rest, Shapes, Plain => Owes, Tally, NEW f \in Frames, Kinds(f),
         features' = features
  PROVE  Tally'
BY TallyStep DEF Tally, TalliedOf

----------------------------------------------------------------------------
FrameInv ==
    /\ TryFree => Shapes /\ Values /\ TokensFromAbove /\ Cancels /\ Tally
    /\ Plain => Owes

LEMMA InitFrameInv == Init => FrameInv
<1> SUFFICES ASSUME Init PROVE FrameInv
  OBVIOUS
<1>1. /\ \A f \in Frames : scope[f] = <<>> /\ groups[f] = <<>> /\ mode[f] \in {"idle", "run"}
      /\ \A f \in Frames, h \in Handles : values[f][h] = None /\ pending[f][h] = None
      /\ \A f \in Frames : thread[f] \in {"none", "call"} /\ spawner[f] = None
      /\ cancelled = {} /\ \A f \in Frames : outcome[f] = Ok
  BY DEF Init, NoPending
<1>2. Shapes
  BY <1>1 DEF Shapes, ShapeOf
<1>3. Values
  BY <1>1 DEF Values, ValuesOf
<1>4. TokensFromAbove
  BY <1>1 DEF TokensFromAbove, TokenFromAbove
<1>5. Cancels
  BY <1>1 DEF Cancels, CancelOf
<1>6. Owes
  BY <1>1 DEF Owes, OwedOf
<1>7. Tally
  BY <1>1 DEF Tally, TalliedOf
<1>8. QED
  BY <1>2, <1>3, <1>4, <1>5, <1>6, <1>7 DEF FrameInv

LEMMA StutterFrameInv ==
  ASSUME FrameInv, UNCHANGED vars
  PROVE  FrameInv'
<1>0. (TryFree' <=> TryFree) /\ (Plain' <=> Plain) /\ (Straight' <=> Straight)
  BY DEF vars, TryFree, Plain, Straight, Without
<1>1. Shapes => Shapes'
  BY <1>0 DEF vars, Shapes, ShapeOf
<1>2. Values => Values'
  BY DEF vars, Values, ValuesOf
<1>3. TokensFromAbove => TokensFromAbove'
  BY DEF vars, TokensFromAbove, TokenFromAbove, Current
<1>4. Cancels => Cancels'
  BY DEF vars, Cancels, CancelOf, Clean
<1>5. Owes => Owes'
  BY DEF vars, Owes, OwedOf
<1>6. Tally => Tally'
  BY <1>0 DEF vars, Tally, TalliedOf, Leaks
<1>7. QED
  BY <1>0, <1>1, <1>2, <1>3, <1>4, <1>5, <1>6 DEF FrameInv

LEMMA StepFrameInv ==
  ASSUME IInv, Rest, FrameInv, NEW f \in Frames, Runtime(f) \/ Statement(f), features' = features
  PROVE  FrameInv'
<1>1. (TryFree' <=> TryFree) /\ (Plain' <=> Plain) /\ (Plain => TryFree)
  BY DEF TryFree, Plain, Without
<1>2. ASSUME TryFree
      PROVE  Kinds(f) /\ Shapes' /\ Values' /\ TokensFromAbove' /\ Cancels' /\ Tally'
  <2>1. Shapes /\ Values /\ TokensFromAbove /\ Cancels /\ Tally /\ (Plain => Owes)
    BY <1>2 DEF FrameInv
  <2>2. Kinds(f)
    BY <1>2, <2>1, RuntimeKinds, StatementKinds
  <2>3. QED
    BY <2>1, <2>2, ShapesKeep, ValuesKeep, TokensFromAboveKeep, CancelsKeep, TallyKeeps
<1>3. ASSUME Plain PROVE Owes'
  <2>1. Kinds(f) /\ Shapes /\ Owes
    BY <1>1, <1>2, <1>3 DEF FrameInv
  <2>2. QED
    BY <1>3, <2>1, OwesKeep
<1>4. QED
  BY <1>1, <1>2, <1>3 DEF FrameInv

THEOREM FramesKeepTheirPlace == Spec => [](IInv /\ Rest /\ FrameInv)
<1>1. IInv /\ Rest /\ FrameInv /\ [Next]_vars => FrameInv'
  <2> SUFFICES ASSUME IInv, Rest, FrameInv, [Next]_vars PROVE FrameInv'
    OBVIOUS
  <2>1. CASE UNCHANGED vars
    BY <2>1, StutterFrameInv
  <2>2. ASSUME NEW f \in Frames, Runtime(f) \/ Statement(f), features' = features PROVE FrameInv'
    BY <2>2, StepFrameInv
  <2>3. QED
    BY <2>1, <2>2 DEF Next, Terminated
<1>2. TypeOK => Rest
  BY DEF TypeOK, Rest, Scopes
<1>3. QED
  BY Invariant, TypeCorrect, InitFrameInv, <1>1, <1>2, PTL DEF Spec

(* Without try and jumps a running frame polls, and hands to its tasks, the *)
(* token of the innermost group whose body it is in.                        *)
THEOREM TokenOfInnermostGroup == Spec => []TokenIsInnermost
<1>1. IInv /\ Rest /\ FrameInv => TokenIsInnermost
  <2> SUFFICES ASSUME Rest, FrameInv, Straight, NEW f \in Frames PROVE Current(f) = BodyToken(f)
    BY DEF TokenIsInnermost, Straight
  <2>1. TryFree
    BY DEF Straight, TryFree, Without
  <2>2. QED
    BY <2>1, ShapesGiveToken DEF FrameInv
<1>2. QED
  BY FramesKeepTheirPlace, <1>1, PTL

(* Without try, a handle that may be awaited and is not live stores the     *)
(* value of the last task bound to it, not of an earlier one.               *)
THEOREM AwaitGivesLastValue == Spec => []NoStaleValue
<1>1. FrameInv => NoStaleValue
  BY DEF FrameInv, TryFree, NoStaleValue, Values, ValuesOf, MayAwait
<1>2. QED
  BY FramesKeepTheirPlace, <1>1, PTL

(* Without try, no aggregated failure counts a cancelled sibling, in        *)
(* whatever nesting of groups, calls and jumps.                             *)
THEOREM CancelledStaysOut == Spec => []CancelledNotAggregated
<1>1. IInv /\ FrameInv => CancelledNotAggregated
  <2> SUFFICES ASSUME IInv, FrameInv, TryFree, NEW f \in Frames, outcome[f].code = "group",
                      NEW g \in Frames
               PROVE  <<"cancelled", g>> \notin outcome[f].leaves
    BY DEF CancelledNotAggregated, TryFree
  <2>1. CASE mode[f] = "done"
    BY <2>1 DEF FrameInv, Cancels, CancelOf, Clean
  <2>2. CASE mode[f] # "done"
    BY <2>2 DEF FrameInv, Cancels, CancelOf, Ok
  <2>3. QED
    BY <2>1, <2>2
<1>2. QED
  BY FramesKeepTheirPlace, <1>1, PTL

(* Without try, every failure that a spawner joined is part of what it      *)
(* failed with itself, unless the leak path joined it and the spawner       *)
(* reports the leak, which no plain program does.                           *)
THEOREM FailureIsLossless == Spec => []Lossless
<1>1. FrameInv => Lossless
  <2> SUFFICES ASSUME FrameInv, TryFree, NEW c \in Frames,
                      thread[c] = "joined", mode[spawner[c]] = "done",
                      outcome[c].code \notin {"ok", "cancelled"}
               PROVE  \/ outcome[c].leaves \subseteq outcome[spawner[c]].leaves
                      \/ ~Plain /\ outcome[spawner[c]] = Primitive("leak", spawner[c])
    BY DEF Lossless, TryFree, Plain, Without
  <2>1. TalliedOf(c)
    BY DEF FrameInv, Tally
  <2>2. QED
    BY <2>1 DEF TalliedOf, Leaks
<1>2. QED
  BY FramesKeepTheirPlace, <1>1, PTL

(* In plain programs no group ends and no function returns with a live      *)
(* task: the leak path is never taken.                                      *)
THEOREM PlainGroupsEndAwaited == Spec => [](Plain => GroupsEndAwaited)
<1>1. FrameInv => (Plain => GroupsEndAwaited)
  BY DEF FrameInv, Owes, OwedOf, GroupsEndAwaited
<1>2. QED
  BY FramesKeepTheirPlace, <1>1, PTL
=============================================================================
