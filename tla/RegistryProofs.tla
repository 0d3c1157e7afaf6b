--------------------------- MODULE RegistryProofs ---------------------------
(***************************************************************************)
(* Proofs about the registry service, for any set of instances, slots,     *)
(* versions and archives and any bounds.  RegInv is inductive: types, who  *)
(* is at which step, and that every list of entries, in an instance, in    *)
(* the store or in the hands of a step, is backed by stored bytes.         *)
(* LocalInv adds what holds of a server on local disk: which entries are   *)
(* remembered and listed while publishes wait to save them.                *)
(***************************************************************************)
EXTENDS Registry, TLAPS

Steps == PublishSteps \union RefreshSteps \union {"idle"}
Job == [pc : Steps, at : Instances \union {Absent},
        v : Versions \union {Absent}, c : Contents \union {Absent},
        listed : SUBSET Versions, out : SUBSET Entry, knew : SUBSET Versions]

Types ==
    /\ backend \in Backends
    /\ up \in [Instances -> {"up", "down", "loading"}]
    /\ index \in [Instances -> SUBSET Entry]
    /\ cached \in [Instances -> BOOLEAN]
    /\ archive \in [Versions -> Contents \union {Absent, Partial}]
    /\ sidecar \in [Versions -> Contents \union {Absent}]
    /\ doc \in SUBSET Entry
    /\ acked \subseteq Versions \X Contents
    /\ contended \subseteq Versions /\ disturbed \subseteq Versions
    /\ publishes \in 0 .. MaxPublishes[backend] /\ failures \in 0 .. MaxFailures

\* Who is at which step, and with what.
Placed ==
    /\ \A w \in Workers : req[w].pc \in PublishSteps =>
          /\ w \in Slots /\ req[w].at \in Instances
          /\ req[w].v \in Versions /\ req[w].c \in Contents
    /\ \A w \in Workers : req[w].pc \in RefreshSteps => req[w].at \in Instances
    /\ \A w \in Workers : req[w].pc \in {"list", "meta"} => req[w].out = {}
    /\ \A w \in Workers : req[w].pc \in {"meta", "repair"} => req[w].listed # {}
    /\ \A w \in Workers : req[w].pc = "repair" =>
          VersionsOf(req[w].out) \subseteq req[w].listed /\ VersionsOf(req[w].out) # req[w].listed
    /\ \A i \in Instances : req[i].pc # "cache"
    /\ \A s \in Slots : req[s].pc # "heal"

\* The steps of each kind of store.
LocalSteps == {"create", "write", "push", "snapshot", "save"}
SharedSteps == {"head", "put", "readback", "sidecar", "index", "doc", "invalidate"}
                  \union RefreshSteps

Kinds ==
    /\ \A w \in Workers : /\ req[w].pc \in LocalSteps => backend = "local"
                          /\ req[w].pc \in SharedSteps => backend = "b2"
    /\ backend = "b2" => \A v \in Versions : archive[v] # Partial

\* What a listing found is stored.
Found ==
    \A w \in Workers : req[w].pc \in {"meta", "repair"} =>
        \A v \in req[w].listed : archive[v] \in Contents

TypeInv == req \in [Workers -> Job] /\ Types /\ Placed /\ Kinds /\ Found

-----------------------------------------------------------------------------
(* What the steps that requests share do to them.                          *)

Others(w) == \A x \in Workers : x # w => req'[x] = req[x]
Kept(w) == /\ req'[w].at = req[w].at /\ req'[w].v = req[w].v /\ req'[w].c = req[w].c
           /\ req'[w].listed = req[w].listed /\ req'[w].knew = req[w].knew

\* The worker goes on to step `p`, or rests.
Goes(w, p) == /\ req' \in [Workers -> Job] /\ Others(w)
              /\ req'[w].pc = p /\ Kept(w)
Went(w, p) == Goes(w, p) /\ req'[w].out = req[w].out
Ended(w) == /\ req' \in [Workers -> Job] /\ Others(w)
            /\ req'[w].pc = "idle" /\ req'[w].out = {}

LEMMA GotoFields ==
  ASSUME req \in [Workers -> Job], NEW w \in Workers, NEW p \in Steps, Goto(w, p)
  PROVE  Went(w, p)
  BY DEF Goto, Job, Others, Kept, Went, Goes

LEMMA GotoWithFields ==
  ASSUME req \in [Workers -> Job], NEW w \in Workers, NEW p \in Steps,
         NEW o \in SUBSET Entry, GotoWith(w, p, o)
  PROVE  Goes(w, p) /\ req'[w].out = o
  BY DEF GotoWith, Job, Others, Kept, Goes

LEMMA TaskIsJob ==
  ASSUME NEW p \in Steps, NEW i \in Instances \union {Absent},
         NEW v \in Versions \union {Absent}, NEW c \in Contents \union {Absent}
  PROVE  /\ Task(p, i, v, c) \in Job
         /\ Task(p, i, v, c).pc = p /\ Task(p, i, v, c).at = i
         /\ Task(p, i, v, c).v = v /\ Task(p, i, v, c).c = c
         /\ Task(p, i, v, c).out = {}
  BY DEF Task, Job

LEMMA EndFields ==
  ASSUME req \in [Workers -> Job], NEW w \in Workers, End(w)
  PROVE  Ended(w)
  <1>1. Idle \in Job /\ Idle.pc = "idle" /\ Idle.out = {}
    BY TaskIsJob DEF Idle, Steps
  <1>2. req' \in [Workers -> Job] /\ req'[w] = Idle /\ Others(w)
    BY <1>1 DEF End, Others
  <1> QED
    BY <1>1, <1>2 DEF Ended

LEMMA BeginFields ==
  ASSUME req \in [Workers -> Job], NEW w \in Workers, NEW p \in Steps, NEW i \in Instances,
         NEW v \in Versions \union {Absent}, NEW c \in Contents \union {Absent},
         Begin(w, p, i, v, c)
  PROVE  /\ req' \in [Workers -> Job] /\ Others(w)
         /\ req'[w].pc = p /\ req'[w].at = i /\ req'[w].v = v /\ req'[w].c = c
         /\ req'[w].out = {}
  <1>1. req'[w] = Task(p, i, v, c) /\ Others(w)
    BY DEF Begin, Others
  <1>2. Task(p, i, v, c) \in Job
    BY TaskIsJob
  <1>3. req' \in [Workers -> Job]
    BY <1>2 DEF Begin
  <1> QED
    BY <1>1, <1>3, TaskIsJob

\* What a listing notes down.
Note(w, p, l, k) == req' = [req EXCEPT ![w].pc = p, ![w].listed = l, ![w].knew = k]

LEMMA NoteFields ==
  ASSUME req \in [Workers -> Job], NEW w \in Workers, NEW p \in Steps,
         NEW l \in SUBSET Versions, NEW k \in SUBSET Versions, Note(w, p, l, k)
  PROVE  /\ req' \in [Workers -> Job] /\ Others(w)
         /\ req'[w].pc = p /\ req'[w].listed = l /\ req'[w].knew = k
         /\ req'[w].at = req[w].at /\ req'[w].v = req[w].v /\ req'[w].c = req[w].c
         /\ req'[w].out = req[w].out
  BY DEF Note, Job, Others

-----------------------------------------------------------------------------
(* A publish.                                                              *)

\* Where the steps of a publish lead.
LEMMA PublishMoves ==
  ASSUME TypeInv, NEW s \in Slots
  PROVE  /\ Compare(s) => req[s].pc = "compare" /\ (Went(s, "answer") \/ Ended(s))
         /\ Create(s) => req[s].pc = "create" /\ (Went(s, "write") \/ Went(s, "compare"))
         /\ Write(s) => req[s].pc = "write" /\ Went(s, "push")
         /\ Push(s) => req[s].pc = "push" /\ Went(s, "snapshot")
         /\ Snapshot(s) => /\ req[s].pc = "snapshot" /\ Goes(s, "save")
                           /\ req'[s].out = index[req[s].at]
         /\ Save(s) => req[s].pc = "save" /\ Goes(s, "answer") /\ req'[s].out = {}
         /\ Head(s) => req[s].pc = "head" /\ (Went(s, "compare") \/ Went(s, "put"))
         /\ Put(s) => req[s].pc = "put" /\ (Went(s, "readback") \/ req' = req)
         /\ ReadBack(s) => req[s].pc = "readback" /\ (Went(s, "sidecar") \/ Ended(s))
         /\ PutSidecar(s) => req[s].pc = "sidecar" /\ Went(s, "index")
         /\ Index(s) => req[s].pc = "index" /\ Goes(s, "doc") /\ req'[s].out = index'[req[s].at]
         /\ PutDoc(s) => req[s].pc = "doc" /\ Goes(s, "invalidate") /\ req'[s].out = {}
         /\ Invalidate(s) => req[s].pc = "invalidate" /\ Ended(s)
         /\ Answer(s) => req[s].pc = "answer" /\ Ended(s)
  <1>1. /\ s \in Workers /\ PublishSteps \subseteq Steps
        /\ req \in [Workers -> Job] /\ req[s] \in Job /\ index \in [Instances -> SUBSET Entry]
    BY DEF TypeInv, Types, Workers, Steps
  <1>2. \A p \in PublishSteps : Goto(s, p) => Went(s, p)
    BY <1>1, GotoFields
  <1>3. End(s) => Ended(s)
    BY <1>1, EndFields
  <1>4. \A p \in PublishSteps : GotoWith(s, p, {}) => Goes(s, p) /\ req'[s].out = {}
    BY <1>1, GotoWithFields
  <1>5. req[s].pc \in PublishSteps => req[s].at \in Instances /\ NewEntry(s) \in Entry
    BY <1>1 DEF TypeInv, Placed, NewEntry, Entry
  <1>6. Snapshot(s) => /\ req[s].pc = "snapshot" /\ Goes(s, "save")
                       /\ req'[s].out = index[req[s].at]
    <2> SUFFICES ASSUME Snapshot(s)
                 PROVE  Goes(s, "save") /\ req'[s].out = index[req[s].at]
      BY DEF Snapshot
    <2>1. PICK o : o = index[req[s].at]
      OBVIOUS
    <2>2. req[s].pc = "snapshot" /\ GotoWith(s, "save", o)
      BY <2>1 DEF Snapshot
    <2>3. o \in SUBSET Entry
      BY <2>1, <2>2, <1>1, <1>5 DEF PublishSteps
    <2> QED
      BY <2>1, <2>2, <2>3, <1>1, GotoWithFields DEF PublishSteps
  <1>7. Index(s) => req[s].pc = "index" /\ Goes(s, "doc") /\ req'[s].out = index'[req[s].at]
    <2> SUFFICES ASSUME Index(s)
                 PROVE  Goes(s, "doc") /\ req'[s].out = index'[req[s].at]
      BY DEF Index
    <2>1. PICK o : o = IF req[s].v \in VersionsOf(index[req[s].at]) THEN index[req[s].at]
                       ELSE index[req[s].at] \union {NewEntry(s)}
      OBVIOUS
    <2>2. /\ req[s].pc = "index" /\ GotoWith(s, "doc", o)
          /\ index' = [index EXCEPT ![req[s].at] = o]
      BY <2>1 DEF Index
    <2>3. o \in SUBSET Entry /\ req[s].at \in Instances
      BY <2>1, <2>2, <1>1, <1>5 DEF PublishSteps
    <2> QED
      BY <2>2, <2>3, <1>1, GotoWithFields DEF PublishSteps
  <1>8. Put(s) => req[s].pc = "put" /\ (Went(s, "readback") \/ req' = req)
    BY <1>2 DEF Put, PublishSteps
  <1> QED
    BY <1>2, <1>3, <1>4, <1>6, <1>7, <1>8 DEF PublishSteps, Compare, Create, Write, Push, Save,
       Head, ReadBack, PutSidecar, PutDoc, Invalidate, Answer

\* What every step leaves as it is, or grows.
Grows ==
    /\ backend' = backend
    /\ \A v \in Versions : archive[v] \in Contents => archive'[v] \in Contents
    /\ backend = "b2" => \A v \in Versions : archive'[v] # Partial

\* The step belongs to the same kind of store.
SameKind(p, old) == /\ p \in LocalSteps => old \in LocalSteps
                    /\ p \in SharedSteps => old \in SharedSteps

LEMMA MoveKeeps ==
  ASSUME TypeInv, NEW s \in Slots, NEW p \in PublishSteps, req[s].pc \in PublishSteps,
         Goes(s, p), SameKind(p, req[s].pc), Grows, Types'
  PROVE  TypeInv'
  <1>1. s \in Workers /\ Slots \subseteq Workers /\ Instances \subseteq Workers
    BY DEF Workers
  <1>2. Placed'
    BY <1>1, SlotsAssumption DEF TypeInv, Placed, PublishSteps, RefreshSteps, VersionsOf, Goes, Kept, Others
  <1>3. Kinds'
    BY <1>1 DEF TypeInv, Kinds, Goes, Others, Grows, SameKind
  <1>4. Found'
    BY <1>1 DEF TypeInv, Found, Goes, Others, Grows, PublishSteps, Job
  <1> QED
    BY <1>2, <1>3, <1>4 DEF TypeInv, Goes

LEMMA EndKeeps ==
  ASSUME TypeInv, NEW w \in Workers, Ended(w), Grows, Types'
  PROVE  TypeInv'
  <1>1. Slots \subseteq Workers /\ Instances \subseteq Workers
    BY DEF Workers
  <1>2. Placed'
    BY <1>1 DEF TypeInv, Placed, PublishSteps, RefreshSteps, VersionsOf, Ended, Others
  <1>3. Kinds'
    BY <1>1 DEF TypeInv, Kinds, Ended, Others, Grows, LocalSteps, SharedSteps, RefreshSteps
  <1>4. Found'
    BY <1>1 DEF TypeInv, Found, Ended, Others, Grows, Job
  <1> QED
    BY <1>2, <1>3, <1>4 DEF TypeInv, Ended

LEMMA SkipKeeps ==
  ASSUME TypeInv, req' = req, Grows, Types'
  PROVE  TypeInv'
  BY DEF TypeInv, Placed, Kinds, Found, Grows, VersionsOf, Job

LEMMA PublishTypes ==
  ASSUME TypeInv, NEW s \in Slots, Publish(s)
  PROVE  TypeInv' /\ Grows
  <1>1. s \in Workers /\ req[s] \in Job /\ req[s].out \in SUBSET Entry
    BY DEF TypeInv, Workers, Job
  <1>2. req[s].pc \in PublishSteps => /\ req[s].at \in Instances /\ req[s].v \in Versions
                                      /\ req[s].c \in Contents /\ NewEntry(s) \in Entry
    BY <1>1 DEF TypeInv, Placed, NewEntry, Entry
  <1>3. req[s].pc \in SharedSteps => backend = "b2"
    BY <1>1 DEF TypeInv, Kinds
  <1>4. req[s].pc \in LocalSteps => backend = "local"
    BY <1>1 DEF TypeInv, Kinds
  <1>5. CASE Compare(s)
    <2>1. req[s].pc = "compare" /\ req[s].pc \in PublishSteps
      BY <1>5, PublishMoves DEF PublishSteps
    <2>2. Types' /\ Grows
      BY <1>5, <1>1, <1>2, <1>3, <1>4, <2>1, BoundsAssumption, ContentsAssumption
      DEF Compare, TypeInv, Types, Kinds, Grows, memory, storage, history, bounds,
          LocalSteps, SharedSteps
    <2>3. Goes(s, "answer") \/ Ended(s)
      BY <1>5, PublishMoves DEF Went
    <2>4. SameKind("answer", "compare")
      BY DEF LocalSteps, SharedSteps, RefreshSteps, SameKind
    <2> QED
      BY <1>1, <2>1, <2>2, <2>3, <2>4, MoveKeeps, EndKeeps DEF PublishSteps
  <1>6. CASE Create(s)
    <2>1. req[s].pc = "create" /\ req[s].pc \in PublishSteps
      BY <1>6, PublishMoves DEF PublishSteps
    <2>2. Types' /\ Grows
      BY <1>6, <1>1, <1>2, <1>3, <1>4, <2>1, BoundsAssumption, ContentsAssumption
      DEF Create, TypeInv, Types, Kinds, Grows, memory, storage, history, bounds,
          LocalSteps, SharedSteps
    <2>3. Goes(s, "write") \/ Goes(s, "compare")
      BY <1>6, PublishMoves DEF Went
    <2>4. SameKind("write", "create") /\ SameKind("compare", "create")
      BY DEF LocalSteps, SharedSteps, RefreshSteps, SameKind
    <2> QED
      BY <1>1, <2>1, <2>2, <2>3, <2>4, MoveKeeps DEF PublishSteps
  <1>7. CASE Write(s)
    <2>1. req[s].pc = "write" /\ req[s].pc \in PublishSteps
      BY <1>7, PublishMoves DEF PublishSteps
    <2>2. Types' /\ Grows
      BY <1>7, <1>1, <1>2, <1>3, <1>4, <2>1, BoundsAssumption, ContentsAssumption
      DEF Write, TypeInv, Types, Kinds, Grows, memory, storage, history, bounds,
          LocalSteps, SharedSteps
    <2>3. Goes(s, "push")
      BY <1>7, PublishMoves DEF Went
    <2>4. SameKind("push", "write")
      BY DEF LocalSteps, SharedSteps, RefreshSteps, SameKind
    <2> QED
      BY <1>1, <2>1, <2>2, <2>3, <2>4, MoveKeeps DEF PublishSteps
  <1>8. CASE Push(s)
    <2>1. req[s].pc = "push" /\ req[s].pc \in PublishSteps
      BY <1>8, PublishMoves DEF PublishSteps
    <2>2. Types' /\ Grows
      BY <1>8, <1>1, <1>2, <1>3, <1>4, <2>1, BoundsAssumption, ContentsAssumption
      DEF Push, TypeInv, Types, Kinds, Grows, memory, storage, history, bounds,
          LocalSteps, SharedSteps
    <2>3. Goes(s, "snapshot")
      BY <1>8, PublishMoves DEF Went
    <2>4. SameKind("snapshot", "push")
      BY DEF LocalSteps, SharedSteps, RefreshSteps, SameKind
    <2> QED
      BY <1>1, <2>1, <2>2, <2>3, <2>4, MoveKeeps DEF PublishSteps
  <1>9. CASE Snapshot(s)
    <2>1. req[s].pc = "snapshot" /\ req[s].pc \in PublishSteps
      BY <1>9, PublishMoves DEF PublishSteps
    <2>2. Types' /\ Grows
      BY <1>9, <1>1, <1>2, <1>3, <1>4, <2>1, BoundsAssumption, ContentsAssumption
      DEF Snapshot, TypeInv, Types, Kinds, Grows, memory, storage, history, bounds,
          LocalSteps, SharedSteps
    <2>3. Goes(s, "save")
      BY <1>9, PublishMoves DEF Went
    <2>4. SameKind("save", "snapshot")
      BY DEF LocalSteps, SharedSteps, RefreshSteps, SameKind
    <2> QED
      BY <1>1, <2>1, <2>2, <2>3, <2>4, MoveKeeps DEF PublishSteps
  <1>10. CASE Save(s)
    <2>1. req[s].pc = "save" /\ req[s].pc \in PublishSteps
      BY <1>10, PublishMoves DEF PublishSteps
    <2>2. Types' /\ Grows
      BY <1>10, <1>1, <1>2, <1>3, <1>4, <2>1, BoundsAssumption, ContentsAssumption
      DEF Save, TypeInv, Types, Kinds, Grows, memory, storage, bounds,
          LocalSteps, SharedSteps
    <2>3. Goes(s, "answer")
      BY <1>10, PublishMoves DEF Went
    <2>4. SameKind("answer", "save")
      BY DEF LocalSteps, SharedSteps, RefreshSteps, SameKind
    <2> QED
      BY <1>1, <2>1, <2>2, <2>3, <2>4, MoveKeeps DEF PublishSteps
  <1>11. CASE Head(s)
    <2>1. req[s].pc = "head" /\ req[s].pc \in PublishSteps
      BY <1>11, PublishMoves DEF PublishSteps
    <2>2. Types' /\ Grows
      BY <1>11, <1>1, <1>2, <1>3, <1>4, <2>1, BoundsAssumption, ContentsAssumption
      DEF Head, TypeInv, Types, Kinds, Grows, memory, storage, history, bounds,
          LocalSteps, SharedSteps
    <2>3. Goes(s, "compare") \/ Goes(s, "put")
      BY <1>11, PublishMoves DEF Went
    <2>4. SameKind("compare", "head") /\ SameKind("put", "head")
      BY DEF LocalSteps, SharedSteps, RefreshSteps, SameKind
    <2> QED
      BY <1>1, <2>1, <2>2, <2>3, <2>4, MoveKeeps DEF PublishSteps
  <1>12. CASE Put(s)
    <2>1. req[s].pc = "put" /\ req[s].pc \in PublishSteps
      BY <1>12, PublishMoves DEF PublishSteps
    <2>2. Types' /\ Grows
      BY <1>12, <1>1, <1>2, <1>3, <1>4, <2>1, BoundsAssumption, ContentsAssumption
      DEF Put, TypeInv, Types, Kinds, Grows, memory, storage, history, bounds,
          LocalSteps, SharedSteps, OneFailure
    <2>3. Goes(s, "readback") \/ req' = req
      BY <1>12, PublishMoves DEF Went
    <2>4. SameKind("readback", "put")
      BY DEF LocalSteps, SharedSteps, RefreshSteps, SameKind
    <2> QED
      BY <1>1, <2>1, <2>2, <2>3, <2>4, MoveKeeps, SkipKeeps DEF PublishSteps
  <1>13. CASE ReadBack(s)
    <2>1. req[s].pc = "readback" /\ req[s].pc \in PublishSteps
      BY <1>13, PublishMoves DEF PublishSteps
    <2>2. Types' /\ Grows
      BY <1>13, <1>1, <1>2, <1>3, <1>4, <2>1, BoundsAssumption, ContentsAssumption
      DEF ReadBack, TypeInv, Types, Kinds, Grows, memory, storage, history, bounds,
          LocalSteps, SharedSteps
    <2>3. Goes(s, "sidecar") \/ Ended(s)
      BY <1>13, PublishMoves DEF Went
    <2>4. SameKind("sidecar", "readback")
      BY DEF LocalSteps, SharedSteps, RefreshSteps, SameKind
    <2> QED
      BY <1>1, <2>1, <2>2, <2>3, <2>4, MoveKeeps, EndKeeps DEF PublishSteps
  <1>14. CASE PutSidecar(s)
    <2>1. req[s].pc = "sidecar" /\ req[s].pc \in PublishSteps
      BY <1>14, PublishMoves DEF PublishSteps
    <2>2. Types' /\ Grows
      BY <1>14, <1>1, <1>2, <1>3, <1>4, <2>1, BoundsAssumption, ContentsAssumption
      DEF PutSidecar, TypeInv, Types, Kinds, Grows, memory, storage, history, bounds,
          LocalSteps, SharedSteps
    <2>3. Goes(s, "index")
      BY <1>14, PublishMoves DEF Went
    <2>4. SameKind("index", "sidecar")
      BY DEF LocalSteps, SharedSteps, RefreshSteps, SameKind
    <2> QED
      BY <1>1, <2>1, <2>2, <2>3, <2>4, MoveKeeps DEF PublishSteps
  <1>15. CASE Index(s)
    <2>1. req[s].pc = "index" /\ req[s].pc \in PublishSteps
      BY <1>15, PublishMoves DEF PublishSteps
    <2>2. Types' /\ Grows
      BY <1>15, <1>1, <1>2, <1>3, <1>4, <2>1, BoundsAssumption, ContentsAssumption
      DEF Index, TypeInv, Types, Kinds, Grows, memory, storage, history, bounds,
          LocalSteps, SharedSteps
    <2>3. Goes(s, "doc")
      BY <1>15, PublishMoves DEF Went
    <2>4. SameKind("doc", "index")
      BY DEF LocalSteps, SharedSteps, RefreshSteps, SameKind
    <2> QED
      BY <1>1, <2>1, <2>2, <2>3, <2>4, MoveKeeps DEF PublishSteps
  <1>16. CASE PutDoc(s)
    <2>1. req[s].pc = "doc" /\ req[s].pc \in PublishSteps
      BY <1>16, PublishMoves DEF PublishSteps
    <2>2. Types' /\ Grows
      BY <1>16, <1>1, <1>2, <1>3, <1>4, <2>1, BoundsAssumption, ContentsAssumption
      DEF PutDoc, TypeInv, Types, Kinds, Grows, memory, storage, history, bounds,
          LocalSteps, SharedSteps
    <2>3. Goes(s, "invalidate")
      BY <1>16, PublishMoves DEF Went
    <2>4. SameKind("invalidate", "doc")
      BY DEF LocalSteps, SharedSteps, RefreshSteps, SameKind
    <2> QED
      BY <1>1, <2>1, <2>2, <2>3, <2>4, MoveKeeps DEF PublishSteps
  <1>17. CASE Invalidate(s)
    <2>1. req[s].pc = "invalidate" /\ req[s].pc \in PublishSteps
      BY <1>17, PublishMoves DEF PublishSteps
    <2>2. Types' /\ Grows
      BY <1>17, <1>1, <1>2, <1>3, <1>4, <2>1, BoundsAssumption, ContentsAssumption
      DEF Invalidate, TypeInv, Types, Kinds, Grows, memory, storage, history, bounds,
          LocalSteps, SharedSteps
    <2>3. Ended(s)
      BY <1>17, PublishMoves DEF Went
    <2> QED
      BY <1>1, <2>2, <2>3, EndKeeps
  <1>18. CASE Answer(s)
    <2>1. req[s].pc = "answer" /\ req[s].pc \in PublishSteps
      BY <1>18, PublishMoves DEF PublishSteps
    <2>2. Types' /\ Grows
      BY <1>18, <1>1, <1>2, <1>3, <1>4, <2>1, BoundsAssumption, ContentsAssumption
      DEF Answer, TypeInv, Types, Kinds, Grows, memory, storage, history, bounds,
          LocalSteps, SharedSteps
    <2>3. Ended(s)
      BY <1>18, PublishMoves DEF Went
    <2> QED
      BY <1>1, <2>2, <2>3, EndKeeps
  <1> QED
    BY <1>5, <1>6, <1>7, <1>8, <1>9, <1>10, <1>11, <1>12, <1>13, <1>14, <1>15, <1>16, <1>17, <1>18 DEF Publish

-----------------------------------------------------------------------------
(* The other actions.  None of them touches an archive.                    *)

LEMMA GrowsIfKept ==
  ASSUME TypeInv, UNCHANGED <<backend, archive>>
  PROVE  Grows
  BY DEF TypeInv, Kinds, Grows

LEMMA StartTypes ==
  ASSUME TypeInv, NEW s \in Slots, NEW i \in Instances, NEW u \in Uploads,
         StartPublish(s, i, u[1], u[2])
  PROVE  /\ TypeInv' /\ Others(s) /\ req[s].pc = "idle" /\ u[1] \in Versions /\ u[2] \in Contents
         /\ req'[s].pc = IF u[1] \in VersionsOf(index[i]) THEN "compare"
                         ELSE IF backend = "b2" THEN "head" ELSE "create"
         /\ req'[s].at = i /\ req'[s].v = u[1] /\ req'[s].c = u[2] /\ req'[s].out = {}
  <1>1. /\ u[1] \in Versions /\ u[2] \in Contents /\ s \in Workers
        /\ Slots \subseteq Workers /\ Instances \subseteq Workers
    BY UploadsAssumption DEF Workers
  <1>2. PICK first : first = IF u[1] \in VersionsOf(index[i]) THEN "compare"
                             ELSE IF backend = "b2" THEN "head" ELSE "create"
    OBVIOUS
  <1>3. Begin(s, first, i, u[1], u[2]) /\ req[s].pc = "idle"
    BY <1>2 DEF StartPublish
  <1>4. PICK v \in Versions, c \in Contents : v = u[1] /\ c = u[2]
    BY <1>1
  <1>5. first \in PublishSteps /\ first \in Steps
    BY <1>2 DEF PublishSteps, Steps
  <1>6. /\ req' \in [Workers -> Job] /\ Others(s)
        /\ req'[s].pc = first /\ req'[s].at = i /\ req'[s].v = u[1] /\ req'[s].c = u[2]
        /\ req'[s].out = {}
    BY <1>1, <1>3, <1>4, <1>5, BeginFields DEF TypeInv
  <1>7. Placed'
    BY <1>1, <1>5, <1>6, SlotsAssumption
    DEF TypeInv, Placed, PublishSteps, RefreshSteps, Others, VersionsOf
  <1>8. \A x \in Publishing(Instances) : req[x].v \in Versions
    BY DEF Publishing, TypeInv, Placed, Workers
  <1>9. Types'
    BY <1>1, <1>8, BoundsAssumption
    DEF StartPublish, TypeInv, Types, memory, storage, history, bounds
  <1>10. backend' = backend /\ archive' = archive /\ backend \in {"local", "b2"}
    BY BackendsAssumption DEF StartPublish, storage, TypeInv, Types
  <1>11. Kinds'
    BY <1>1, <1>2, <1>6, <1>10 DEF TypeInv, Kinds, Others, LocalSteps, SharedSteps, RefreshSteps
  <1>12. Found'
    BY <1>1, <1>5, <1>6, <1>10 DEF TypeInv, Found, Others, PublishSteps, Job
  <1> QED
    BY <1>1, <1>2, <1>3, <1>6, <1>7, <1>9, <1>11, <1>12 DEF TypeInv

\* A worker begins to read, or to note that it has read.
LEMMA BeginKeeps ==
  ASSUME TypeInv, NEW w \in Workers, NEW p \in {"list", "cache"}, NEW i \in Instances,
         Begin(w, p, i, Absent, Absent), p = "cache" => w \in Slots, backend = "b2",
         UNCHANGED <<backend, archive>>, Types'
  PROVE  /\ TypeInv' /\ Others(w) /\ req'[w].pc = p /\ req'[w].at = i /\ req'[w].out = {}
  <1>1. /\ req' \in [Workers -> Job] /\ Others(w)
        /\ req'[w].pc = p /\ req'[w].at = i /\ req'[w].out = {}
    BY BeginFields DEF TypeInv, Steps, RefreshSteps
  <1>2. Placed'
    BY <1>1, SlotsAssumption
    DEF TypeInv, Placed, PublishSteps, RefreshSteps, Others, VersionsOf, Workers
  <1>3. Kinds' /\ Found'
    BY <1>1 DEF TypeInv, Kinds, Found, Others, LocalSteps, SharedSteps, RefreshSteps, Job
  <1> QED
    BY <1>1, <1>2, <1>3 DEF TypeInv

LEMMA ListTypes ==
  ASSUME TypeInv, NEW w \in Workers, List(w)
  PROVE  /\ TypeInv' /\ Others(w)
         /\ req'[w].pc = IF Stored = {} THEN "install" ELSE "meta"
         /\ req'[w].listed = Stored /\ req'[w].knew = AckedVersions
         /\ req'[w].out = {}
  <1>1. PICK p : p = IF Stored = {} THEN "install" ELSE "meta"
    OBVIOUS
  <1>2. p \in Steps /\ req \in [Workers -> Job]
    BY <1>1 DEF Steps, RefreshSteps, TypeInv
  <1>3. PICK l \in SUBSET Versions, k \in SUBSET Versions : l = Stored /\ k = AckedVersions
    BY DEF Stored, AckedVersions, TypeInv, Types
  <1>4. Note(w, p, l, k)
    BY <1>1, <1>3 DEF List, Note
  <1>5. /\ req' \in [Workers -> Job] /\ Others(w)
        /\ req'[w].pc = p /\ req'[w].at = req[w].at /\ req'[w].out = req[w].out
        /\ req'[w].listed = l /\ req'[w].knew = k
    BY <1>2, <1>4, NoteFields
  <1>6. req[w].pc = "list" /\ req[w].out = {} /\ req[w].at \in Instances /\ backend = "b2"
    BY DEF List, TypeInv, Placed, Kinds, RefreshSteps, SharedSteps
  <1>7. UNCHANGED <<backend, archive>> /\ Types'
    BY DEF List, TypeInv, Types, memory, storage, history, bounds
  <1>8. Placed'
    BY <1>1, <1>3, <1>5, <1>6
    DEF TypeInv, Placed, PublishSteps, RefreshSteps, Others, VersionsOf, Workers
  <1>9. \A v \in Stored : archive[v] \in Contents
    BY <1>6 DEF Stored, TypeInv, Types, Kinds
  <1>10. Kinds' /\ Found'
    BY <1>1, <1>3, <1>5, <1>6, <1>7, <1>9
    DEF TypeInv, Kinds, Found, Others, LocalSteps, SharedSteps, RefreshSteps
  <1> QED
    BY <1>1, <1>3, <1>5, <1>6, <1>7, <1>8, <1>10 DEF TypeInv

\* A worker that reads the bucket goes on to step `p`.
LEMMA ReadKeeps ==
  ASSUME TypeInv, NEW w \in Workers, NEW p \in {"repair", "heal", "install"},
         req[w].pc \in {"meta", "repair", "heal"}, Goes(w, p), p = "heal" => w \in Instances,
         p = "repair" => /\ req[w].pc # "heal"
                         /\ VersionsOf(req'[w].out) \subseteq req[w].listed
                         /\ VersionsOf(req'[w].out) # req[w].listed,
         UNCHANGED <<backend, archive>>, Types'
  PROVE  TypeInv'
  <1>1. /\ req' \in [Workers -> Job] /\ Others(w) /\ req'[w].pc = p
        /\ req'[w].at = req[w].at /\ req'[w].listed = req[w].listed
    BY DEF Goes, Kept
  <1>2. req[w].at \in Instances /\ backend = "b2"
    BY DEF TypeInv, Placed, Kinds, RefreshSteps, SharedSteps
  <1>3. Placed'
    BY <1>1, <1>2, SlotsAssumption
    DEF TypeInv, Placed, PublishSteps, RefreshSteps, Others, VersionsOf, Workers
  <1>4. Kinds' /\ Found'
    BY <1>1, <1>2 DEF TypeInv, Kinds, Found, Others, LocalSteps, SharedSteps, RefreshSteps
  <1> QED
    BY <1>1, <1>3, <1>4 DEF TypeInv

LEMMA MetaTypes ==
  ASSUME TypeInv, NEW w \in Workers, Meta(w)
  PROVE  /\ TypeInv' /\ req[w].pc = "meta"
         /\ \/ Goes(w, "install") /\ req'[w].out = doc /\ VersionsOf(doc) = req[w].listed
            \/ Went(w, "repair")
  <1>1. /\ req[w].pc = "meta" /\ doc \in SUBSET Entry /\ req \in [Workers -> Job]
        /\ UNCHANGED <<backend, archive>> /\ Types'
    BY DEF Meta, TypeInv, Types, memory, storage, history, bounds
  <1>2. \/ Goes(w, "install") /\ req'[w].out = doc /\ VersionsOf(doc) = req[w].listed
        \/ Went(w, "repair")
    <2>1. PICK d \in SUBSET Entry : d = doc
      BY <1>1
    <2>2. \/ GotoWith(w, "install", d) /\ VersionsOf(doc) = req[w].listed
          \/ Goto(w, "repair")
      BY <2>1 DEF Meta
    <2> QED
      BY <2>1, <2>2, <1>1, GotoFields, GotoWithFields DEF Steps, RefreshSteps
  <1>3. VersionsOf({}) = {} /\ req[w].out = {} /\ req[w].listed # {}
    BY <1>1 DEF VersionsOf, TypeInv, Placed
  <1>4. CASE Goes(w, "install")
    BY <1>1, <1>2, <1>4, ReadKeeps
  <1>5. CASE Went(w, "repair")
    BY <1>1, <1>2, <1>3, <1>5, ReadKeeps DEF Went
  <1> QED
    BY <1>1, <1>2, <1>4, <1>5

\* What one step of a repair does with version `v`.
LEMMA RepairTypes ==
  ASSUME TypeInv, NEW w \in Workers, Repair(w)
  PROVE  /\ TypeInv' /\ req[w].pc = "repair"
         /\ \E v \in req[w].listed, sha \in Contents, p \in {"repair", "heal", "install"} :
              /\ Goes(w, p) /\ sha = (IF sidecar[v] = Absent THEN archive[v] ELSE sidecar[v])
              /\ sidecar' = [sidecar EXCEPT ![v] = sha]
              /\ req'[w].out = req[w].out \union {[version |-> v, sha |-> sha]}
              /\ p # "repair" => VersionsOf(req'[w].out) = req[w].listed
  <1>1. PICK v : v = CHOOSE x \in req[w].listed \ VersionsOf(req[w].out) : TRUE
    OBVIOUS
  <1>2. PICK sha : sha = IF sidecar[v] = Absent THEN archive[v] ELSE sidecar[v]
    OBVIOUS
  <1>3. PICK out : out = req[w].out \union {[version |-> v, sha |-> sha]}
    OBVIOUS
  <1>4. PICK p : p = IF ~ (VersionsOf(out) = req[w].listed) THEN "repair"
                     ELSE IF w \in Instances THEN "heal" ELSE "install"
    OBVIOUS
  <1>5. /\ req[w].pc = "repair" /\ sidecar' = [sidecar EXCEPT ![v] = sha]
        /\ GotoWith(w, p, out)
        /\ UNCHANGED <<backend, memory, archive, doc, history, bounds>>
    BY <1>1, <1>2, <1>3, <1>4 DEF Repair
  <1>6. /\ v \in req[w].listed /\ VersionsOf(req[w].out) \subseteq req[w].listed
        /\ req[w] \in Job
    BY <1>1, <1>5 DEF TypeInv, Placed
  <1>7. v \in Versions /\ archive[v] \in Contents
    BY <1>5, <1>6 DEF TypeInv, Found, Job
  <1>8. sha \in Contents
    BY <1>2, <1>7 DEF TypeInv, Types
  <1>9. out \in SUBSET Entry /\ VersionsOf(out) \subseteq req[w].listed
    BY <1>3, <1>6, <1>7, <1>8 DEF Job, Entry, VersionsOf
  <1>10. /\ p \in {"repair", "heal", "install"}
         /\ p = "heal" => w \in Instances
         /\ p = "repair" <=> VersionsOf(out) # req[w].listed
    BY <1>4
  <1>11. Goes(w, p) /\ req'[w].out = out
    BY <1>5, <1>9, <1>10, GotoWithFields DEF TypeInv, Steps, RefreshSteps
  <1>12. Types' /\ UNCHANGED <<backend, archive>>
    BY <1>5, <1>7, <1>8 DEF TypeInv, Types, memory, history, bounds
  <1>13. TypeInv'
    BY <1>5, <1>9, <1>10, <1>11, <1>12, ReadKeeps
  <1> QED
    BY <1>2, <1>3, <1>5, <1>6, <1>8, <1>10, <1>11, <1>13

LEMMA HealTypes ==
  ASSUME TypeInv, NEW i \in Instances, Heal(i)
  PROVE  TypeInv' /\ req[i].pc = "heal" /\ Went(i, "install")
  <1>1. i \in Workers /\ req[i].out \in SUBSET Entry /\ req \in [Workers -> Job]
    BY DEF TypeInv, Workers, Job
  <1>2. req[i].pc = "heal" /\ Went(i, "install")
    BY <1>1, GotoFields DEF Heal, Steps, RefreshSteps
  <1>3. Types' /\ UNCHANGED <<backend, archive>>
    BY <1>1 DEF Heal, TypeInv, Types, memory, history, bounds
  <1> QED
    BY <1>1, <1>2, <1>3, ReadKeeps DEF Went

LEMMA InstallTypes ==
  ASSUME TypeInv, NEW w \in Workers, Install(w)
  PROVE  /\ TypeInv' /\ req[w].pc = "install" /\ req[w].at \in Instances /\ Others(w)
         /\ req'[w].pc \in {"idle", "cache"} /\ req'[w].out = {}
  <1>1. /\ req[w].pc = "install" /\ req[w].at \in Instances /\ backend = "b2"
        /\ req[w].out \in SUBSET Entry /\ req \in [Workers -> Job]
    BY DEF Install, TypeInv, Placed, Kinds, RefreshSteps, SharedSteps, Job
  <1>2. Types' /\ UNCHANGED <<backend, archive>>
    BY <1>1 DEF Install, TypeInv, Types, storage, history, bounds
  <1>3. CASE w \in Instances
    <2>1. Ended(w)
      BY <1>1, <1>3, EndFields DEF Install
    <2> QED
      BY <1>1, <1>2, <2>1, EndKeeps, GrowsIfKept DEF Ended
  <1>4. CASE w \notin Instances
    <2>1. PICK i \in Instances : i = req[w].at
      BY <1>1
    <2>2. Begin(w, "cache", i, Absent, Absent) /\ w \in Slots
      BY <1>4, <2>1 DEF Install, Workers
    <2> QED
      BY <1>1, <1>2, <2>2, BeginKeeps
  <1> QED
    BY <1>3, <1>4

LEMMA CacheTypes ==
  ASSUME TypeInv, NEW s \in Slots, Cache(s)
  PROVE  TypeInv' /\ Ended(s)
  <1>1. s \in Workers /\ req[s].at \in Instances /\ req \in [Workers -> Job]
    BY DEF Cache, TypeInv, Placed, RefreshSteps, Workers
  <1>2. Types' /\ UNCHANGED <<backend, archive>>
    BY <1>1 DEF Cache, TypeInv, Types, storage, history, bounds
  <1>3. Ended(s)
    BY <1>1, EndFields DEF Cache
  <1> QED
    BY <1>1, <1>2, <1>3, EndKeeps, GrowsIfKept

LEMMA ExpireTypes ==
  ASSUME TypeInv, NEW i \in Instances, Expire(i)
  PROVE  TypeInv'
  <1>1. Types' /\ req' = req /\ UNCHANGED <<backend, archive>>
    BY DEF Expire, TypeInv, Types, storage, history, bounds
  <1> QED
    BY <1>1, SkipKeeps, GrowsIfKept

LEMMA RefreshTypes ==
  ASSUME TypeInv, NEW i \in Instances, NEW s \in Slots, StartRefresh(s, i)
  PROVE  TypeInv' /\ Others(s) /\ req'[s].pc = "list" /\ req'[s].out = {}
  <1>1. /\ Types' /\ UNCHANGED <<backend, archive>> /\ backend = "b2" /\ s \in Workers
        /\ Begin(s, "list", i, Absent, Absent)
    BY DEF StartRefresh, TypeInv, Types, memory, storage, history, bounds, Workers
  <1> QED
    BY <1>1, BeginKeeps

LEMMA RestartTypes ==
  ASSUME TypeInv, NEW i \in Instances, Restart(i)
  PROVE  /\ TypeInv'
         /\ \/ Others(i) /\ req'[i].pc = "list" /\ req'[i].out = {}
            \/ RestartLocal(i) /\ req' = req
  <1>1. CASE RestartLocal(i)
    <2>1. Types' /\ req' = req /\ UNCHANGED <<backend, archive>>
      BY <1>1 DEF RestartLocal, TypeInv, Types, storage, history, bounds
    <2> QED
      BY <1>1, <2>1, SkipKeeps, GrowsIfKept
  <1>2. CASE RestartB2(i)
    <2>1. /\ Types' /\ UNCHANGED <<backend, archive>> /\ backend = "b2" /\ i \in Workers
          /\ Begin(i, "list", i, Absent, Absent)
      BY <1>2 DEF RestartB2, TypeInv, Types, storage, history, bounds, Workers
    <2> QED
      BY <2>1, BeginKeeps
  <1> QED
    BY <1>1, <1>2 DEF Restart

\* A crash ends the work of the instance's connections, and of its load.
Dropped(i) ==
    \A w \in Workers : req'[w] = IF req[w].at = i THEN Idle ELSE req[w]

LEMMA CrashTypes ==
  ASSUME TypeInv, NEW i \in Instances, Crash(i)
  PROVE  TypeInv' /\ Dropped(i) /\ Idle.pc = "idle" /\ Idle.out = {}
  <1>1. Idle \in Job /\ Idle.pc = "idle" /\ Idle.out = {}
    BY TaskIsJob DEF Idle, Steps
  <1>2. req' \in [Workers -> Job] /\ Dropped(i)
    BY <1>1 DEF Crash, Dropped, TypeInv
  <1>3. \A s \in Publishing({i}) : req[s].v \in Versions
    BY DEF Publishing, TypeInv, Placed, Workers
  <1>4. Types' /\ UNCHANGED <<backend, archive>>
    <2>1. disturbed' \subseteq Versions
      BY <1>3 DEF Crash, TypeInv, Types
    <2>2. failures' \in 0 .. MaxFailures
      BY BoundsAssumption DEF Crash, OneFailure, TypeInv, Types
    <2>3. up' \in [Instances -> {"up", "down", "loading"}]
      BY DEF Crash, TypeInv, Types
    <2>4. index' \in [Instances -> SUBSET Entry] /\ cached' \in [Instances -> BOOLEAN]
      BY DEF Crash, TypeInv, Types
    <2> QED
      BY <2>1, <2>2, <2>3, <2>4 DEF Crash, TypeInv, Types, storage
  <1>5. Placed'
    BY <1>1, <1>2 DEF TypeInv, Placed, PublishSteps, RefreshSteps, Dropped, VersionsOf, Workers
  <1>6. Kinds' /\ Found'
    BY <1>1, <1>2, <1>4
    DEF TypeInv, Kinds, Found, Dropped, LocalSteps, SharedSteps, RefreshSteps
  <1> QED
    BY <1>1, <1>2, <1>4, <1>5, <1>6 DEF TypeInv

LEMMA FaultTypes ==
  ASSUME TypeInv, NEW w \in Workers, Fault(w)
  PROVE  /\ TypeInv'
         /\ \/ Ended(w)
            \/ req[w].pc = "meta" /\ Went(w, "repair") /\ req[w].out = {} /\ req[w].listed # {}
            \/ req[w].pc = "heal" /\ Went(w, "install")
  <1>1. req \in [Workers -> Job] /\ (req[w].pc \in PublishSteps => req[w].v \in Versions)
    BY DEF TypeInv, Placed
  <1>2. \/ End(w)
        \/ req[w].pc = "meta" /\ Goto(w, "repair")
        \/ req[w].pc = "heal" /\ Goto(w, "install")
    BY DEF Fault
  <1>3. Types' /\ UNCHANGED <<backend, archive>>
    BY <1>1, BoundsAssumption DEF Fault, OneFailure, TypeInv, Types, storage, PublishSteps
  <1>4. CASE End(w)
    BY <1>1, <1>3, <1>4, EndFields, EndKeeps, GrowsIfKept
  <1>5. CASE req[w].pc = "meta" /\ Goto(w, "repair")
    <2>1. VersionsOf({}) = {} /\ req[w].out = {} /\ req[w].listed # {}
      BY <1>5 DEF VersionsOf, TypeInv, Placed
    <2>2. Went(w, "repair")
      BY <1>1, <1>5, GotoFields DEF Steps, RefreshSteps
    <2> QED
      BY <1>3, <1>5, <2>1, <2>2, ReadKeeps DEF Went
  <1>6. CASE req[w].pc = "heal" /\ Goto(w, "install")
    <2>1. Went(w, "install")
      BY <1>1, <1>6, GotoFields DEF Steps, RefreshSteps
    <2> QED
      BY <1>3, <1>6, <2>1, ReadKeeps DEF Went
  <1> QED
    BY <1>2, <1>4, <1>5, <1>6

LEMMA TypeStep == TypeInv /\ [Next]_regVars => TypeInv'
  <1> SUFFICES ASSUME TypeInv, [Next]_regVars PROVE TypeInv'
    OBVIOUS
  <1>1. CASE UNCHANGED regVars
    BY <1>1 DEF regVars, memory, storage, history, bounds, TypeInv, Types, Placed, Kinds, Found,
       VersionsOf
  <1>2. CASE \E s \in Slots, i \in Instances, u \in Uploads : StartPublish(s, i, u[1], u[2])
    BY <1>2, StartTypes
  <1>3. CASE \E i \in Instances : Refresh(i) \/ Expire(i) \/ Crash(i) \/ Restart(i)
    BY <1>3, RefreshTypes, ExpireTypes, CrashTypes, RestartTypes DEF Refresh
  <1>4. CASE \E w \in Workers : Work(w) \/ Fault(w)
    BY <1>4, ListTypes, MetaTypes, RepairTypes, InstallTypes, PublishTypes, CacheTypes, HealTypes,
       FaultTypes DEF Work, Read
  <1> QED
    BY <1>1, <1>2, <1>3, <1>4 DEF Next

LEMMA InitTypes == Init => TypeInv
  <1> SUFFICES ASSUME Init PROVE TypeInv
    OBVIOUS
  <1>1. Idle \in Job /\ Idle.pc = "idle"
    BY TaskIsJob DEF Idle, Steps
  <1>2. req \in [Workers -> Job] /\ \A w \in Workers : req[w].pc = "idle"
    BY <1>1 DEF Init
  <1>3. up \in [Instances -> {"up", "down", "loading"}]
    BY DEF Init
  <1>4. Types
    BY <1>3, BoundsAssumption, ContentsAssumption DEF Init, Types
  <1> QED
    BY <1>2, <1>4, ContentsAssumption DEF Init, TypeInv, Placed, Kinds, Found, PublishSteps, RefreshSteps,
       LocalSteps, SharedSteps, Workers

\* Types, and who is at which step, for every set of connections, instances,
\* versions and archives.
THEOREM RegistryTypes == RegSpec => []RegTypeOK
  <1>1. TypeInv => RegTypeOK
    BY DEF TypeInv, Types, RegTypeOK, Job, Steps
  <1> QED
    BY <1>1, InitTypes, TypeStep, PTL DEF RegSpec

-----------------------------------------------------------------------------
(* What is stored.                                                         *)

Settled(v, c) == v \in contended \/ archive[v] = c

\* One connection fills a file; those that store a version in the bucket at
\* the same time store the same bytes, or the version is contended.
Apart ==
    /\ backend = "local" => contended = {}
    /\ \A w \in Workers : req[w].pc = "write" => archive[req[w].v] = Partial
    /\ \A w, x \in Workers :
          req[w].pc = "write" /\ req[x].pc = "write" /\ req[w].v = req[x].v => w = x
    /\ \A w \in Workers :
          req[w].pc = "put" => Settled(req[w].v, req[w].c) \/ archive[req[w].v] = Absent
    /\ \A w, x \in Workers :
          req[w].pc = "put" /\ req[x].pc = "put" /\ req[w].v = req[x].v
             => req[w].c = req[x].c \/ req[w].v \in contended

Firsts == {"compare", "head", "create"}

\* What a step that is not one of a publish does to the publishes.
Aside ==
    /\ UNCHANGED <<backend, archive, contended, acked>>
    /\ \A w \in Workers : req'[w].pc \in PublishSteps \ Firsts => req'[w] = req[w]

LEMMA OtherSteps ==
  ASSUME TypeInv, [Next]_regVars
  PROVE  Aside \/ \E s \in Slots : Publish(s)
  <1>1. CASE UNCHANGED regVars
    BY <1>1 DEF regVars, memory, storage, history, bounds, Aside
  <1>2. CASE \E s \in Slots, i \in Instances, u \in Uploads : StartPublish(s, i, u[1], u[2])
    <2>1. PICK s \in Slots, i \in Instances, u \in Uploads : StartPublish(s, i, u[1], u[2])
      BY <1>2
    <2>2. Others(s) /\ req'[s].pc \in Firsts
      BY <2>1, StartTypes DEF Firsts
    <2> QED
      BY <2>1, <2>2 DEF StartPublish, Aside, Others, storage
  <1>3. CASE \E i \in Instances : Refresh(i) \/ Expire(i) \/ Crash(i) \/ Restart(i)
    <2>1. ASSUME NEW i \in Instances, Refresh(i) PROVE Aside
      <3>1. PICK s \in Slots : StartRefresh(s, i)
        BY <2>1 DEF Refresh
      <3>2. Others(s) /\ req'[s].pc \notin PublishSteps
        BY <3>1, RefreshTypes DEF PublishSteps
      <3> QED
        BY <3>1, <3>2 DEF StartRefresh, Aside, Others, storage, history
    <2>2. ASSUME NEW i \in Instances, Expire(i) PROVE Aside
      BY <2>2 DEF Expire, Aside, storage, history
    <2>3. ASSUME NEW i \in Instances, Crash(i) PROVE Aside
      <3>1. Dropped(i) /\ Idle.pc \notin PublishSteps
        BY <2>3, CrashTypes DEF PublishSteps
      <3> QED
        BY <2>3, <3>1 DEF Crash, Dropped, Aside, storage
    <2>4. ASSUME NEW i \in Instances, Restart(i) PROVE Aside
      BY <2>4, RestartTypes
      DEF Restart, RestartB2, RestartLocal, Aside, Others, PublishSteps, storage, history
    <2> QED
      BY <1>3, <2>1, <2>2, <2>3, <2>4
  <1>4. CASE \E w \in Workers : Work(w) \/ Fault(w)
    <2>1. ASSUME NEW w \in Workers, List(w) PROVE Aside
      <3>1. req'[w].pc \in {"install", "meta"} /\ Others(w)
        BY <2>1, ListTypes
      <3> QED
        BY <2>1, <3>1 DEF List, Aside, Others, PublishSteps, storage, history
    <2>2. ASSUME NEW w \in Workers, Meta(w) PROVE Aside
      BY <2>2, MetaTypes DEF Meta, Aside, Others, Went, Goes, PublishSteps, storage, history
    <2>3. ASSUME NEW w \in Workers, Repair(w) PROVE Aside
      <3>1. PICK p \in {"repair", "heal", "install"} : Goes(w, p)
        BY <2>3, RepairTypes
      <3> QED
        BY <2>3, <3>1 DEF Repair, Aside, Others, Goes, PublishSteps, history
    <2>4. ASSUME NEW w \in Workers, Install(w) PROVE Aside
      BY <2>4, InstallTypes DEF Install, Aside, Others, PublishSteps, storage, history
    <2>5. ASSUME NEW w \in Slots, Cache(w) PROVE Aside
      BY <2>5, CacheTypes DEF Cache, Aside, Others, Ended, PublishSteps, storage, history
    <2>6. ASSUME NEW w \in Instances, Heal(w) PROVE Aside
      BY <2>6, HealTypes DEF Heal, Aside, Others, Went, Goes, PublishSteps, history
    <2>7. ASSUME NEW w \in Workers, Fault(w) PROVE Aside
      BY <2>7, FaultTypes DEF Fault, Aside, Others, Ended, Went, Goes, PublishSteps, storage
    <2> QED
      BY <1>4, <2>1, <2>2, <2>3, <2>4, <2>5, <2>6, <2>7 DEF Work, Read
  <1> QED
    BY <1>1, <1>2, <1>3, <1>4 DEF Next

LEMMA AsideApart ==
  ASSUME TypeInv, Apart, Aside
  PROVE  Apart'
  BY DEF Apart, Aside, Settled, PublishSteps, Firsts

\* A publish at a step at which it does not store.
LEMMA ElsewhereApart ==
  ASSUME TypeInv, Apart, NEW s \in Slots, UNCHANGED <<backend, archive, contended>>,
         req' = req \/ Others(s), req' = req \/ req'[s].pc \notin {"write", "put"}
  PROVE  Apart'
  BY DEF Apart, Others, Settled

LEMMA PublishApart ==
  ASSUME TypeInv, TypeInv', Apart, NEW s \in Slots, Publish(s)
  PROVE  Apart'
  <1>1. s \in Workers /\ req[s] \in Job /\ archive \in [Versions -> Contents \union {Absent, Partial}]
    BY DEF TypeInv, Types, Workers
  <1>2. req[s].pc \in PublishSteps => req[s].v \in Versions /\ req[s].c \in Contents
    BY <1>1 DEF TypeInv, Placed
  <1>a. \A w \in Workers : req[w].pc \in {"write", "put"} => req[w].v \in Versions /\ req[w].c \in Contents /\ w \in Slots
    BY DEF TypeInv, Placed, PublishSteps
  <1>b. \A w \in Workers : req[w].pc = "write" => backend = "local"
    BY DEF TypeInv, Kinds, LocalSteps
  <1>c. \A w \in Workers : req[w].pc \in {"put", "head"} => backend = "b2"
    BY DEF TypeInv, Kinds, SharedSteps
  <1>3. CASE Create(s)
    <2>1. req[s].pc = "create" /\ req[s].v \in Versions /\ backend = "local"
      BY <1>1, <1>2, <1>3 DEF Create, PublishSteps, TypeInv, Kinds, LocalSteps
    <2>2. CASE archive[req[s].v] = Absent
      <3>1. /\ Goes(s, "write") /\ archive' = [archive EXCEPT ![req[s].v] = Partial]
            /\ UNCHANGED <<backend, contended>>
        BY <1>1, <1>3, <2>2, GotoFields DEF Create, history, TypeInv, Went, Steps, PublishSteps
      <3>2. \A w \in Workers : req[w].pc # "put" /\ req'[w].pc # "put"
        BY <1>c, <2>1, <3>1 DEF Goes, Others
      <3>3. \A w \in Workers : req'[w].pc = "write" => archive'[req'[w].v] = Partial
        BY <1>1, <1>a, <2>1, <3>1 DEF Apart, Goes, Kept, Others
      <3>4. \A w \in Workers : w # s /\ req'[w].pc = "write" => req[w] = req'[w] /\ req[w].v # req[s].v
        BY <2>2, <3>1, ContentsAssumption DEF Apart, Goes, Others
      <3>5. \A w, x \in Workers :
               req'[w].pc = "write" /\ req'[x].pc = "write" /\ req'[w].v = req'[x].v => w = x
        BY <3>1, <3>4 DEF Apart, Goes, Kept, Others
      <3> QED
        BY <3>1, <3>2, <3>3, <3>5 DEF Apart
    <2>3. CASE archive[req[s].v] # Absent
      <3>1. Goes(s, "compare") /\ UNCHANGED <<backend, archive, contended>>
        BY <1>1, <1>3, <2>3, GotoFields DEF Create, history, TypeInv, Went, Steps, PublishSteps
      <3> QED
        BY <3>1, ElsewhereApart DEF Goes
    <2> QED
      BY <2>2, <2>3
  <1>4. CASE Write(s)
    <2>1. /\ req[s].pc = "write" /\ Goes(s, "push") /\ UNCHANGED <<backend, contended>>
          /\ archive' = [archive EXCEPT ![req[s].v] = req[s].c]
      BY <1>4, PublishMoves DEF Write, history, Went
    <2> QED
      BY <1>1, <1>2, <1>a, <1>b, <1>c, <2>1 DEF Apart, Goes, Kept, Others, Settled, PublishSteps
  <1>5. CASE Head(s)
    <2>1. req[s].pc = "head" /\ req[s].v \in Versions /\ backend = "b2"
      BY <1>1, <1>2, <1>5, <1>c DEF Head, PublishSteps
    <2>2. CASE archive[req[s].v] = Absent
      <3>1. /\ Goes(s, "put") /\ UNCHANGED <<backend, archive>>
            /\ contended' = IF \E t \in Slots : /\ req[t].pc = "put"
                                                /\ req[t].v = req[s].v /\ req[t].c # req[s].c
                            THEN contended \union {req[s].v} ELSE contended
        BY <1>1, <1>5, <2>2, GotoFields DEF Head, storage, TypeInv, Went, Steps, PublishSteps
      <3> QED
        BY <1>1, <1>a, <1>b, <2>1, <2>2, <3>1 DEF Apart, Goes, Kept, Others, Settled
    <2>3. CASE archive[req[s].v] # Absent
      <3>1. Goes(s, "compare") /\ UNCHANGED <<backend, archive, contended>>
        BY <1>1, <1>5, <2>3, GotoFields DEF Head, storage, TypeInv, Went, Steps, PublishSteps
      <3> QED
        BY <3>1, ElsewhereApart DEF Goes
    <2> QED
      BY <2>2, <2>3
  <1>6. CASE Put(s)
    <2>1. /\ req[s].pc = "put" /\ UNCHANGED <<backend, contended>>
          /\ archive' = [archive EXCEPT ![req[s].v] = req[s].c]
          /\ Goes(s, "readback") \/ req' = req
      BY <1>6, PublishMoves DEF Put, history, Went
    <2> QED
      BY <1>1, <1>2, <1>a, <1>b, <1>c, <2>1 DEF Apart, Goes, Kept, Others, Settled, PublishSteps
  <1>7. CASE Compare(s)
    <2>1. (Ended(s) \/ Goes(s, "answer")) /\ UNCHANGED <<backend, archive, contended>>
      BY <1>7, PublishMoves DEF Compare, storage, history, Went
    <2> QED
      BY <2>1, ElsewhereApart DEF Goes, Ended
  <1>8. CASE Push(s)
    <2>1. (Goes(s, "snapshot")) /\ UNCHANGED <<backend, archive, contended>>
      BY <1>8, PublishMoves DEF Push, storage, history, Went
    <2> QED
      BY <2>1, ElsewhereApart DEF Goes, Ended
  <1>9. CASE Snapshot(s)
    <2>1. (Goes(s, "save")) /\ UNCHANGED <<backend, archive, contended>>
      BY <1>9, PublishMoves DEF Snapshot, storage, history, Went
    <2> QED
      BY <2>1, ElsewhereApart DEF Goes, Ended
  <1>10. CASE Save(s)
    <2>1. (Goes(s, "answer")) /\ UNCHANGED <<backend, archive, contended>>
      BY <1>10, PublishMoves DEF Save, storage, Went
    <2> QED
      BY <2>1, ElsewhereApart DEF Goes, Ended
  <1>11. CASE ReadBack(s)
    <2>1. (Ended(s) \/ Goes(s, "sidecar")) /\ UNCHANGED <<backend, archive, contended>>
      BY <1>11, PublishMoves DEF ReadBack, storage, history, Went
    <2> QED
      BY <2>1, ElsewhereApart DEF Goes, Ended
  <1>12. CASE PutSidecar(s)
    <2>1. (Goes(s, "index")) /\ UNCHANGED <<backend, archive, contended>>
      BY <1>12, PublishMoves DEF PutSidecar, storage, history, Went
    <2> QED
      BY <2>1, ElsewhereApart DEF Goes, Ended
  <1>13. CASE Index(s)
    <2>1. (Goes(s, "doc")) /\ UNCHANGED <<backend, archive, contended>>
      BY <1>13, PublishMoves DEF Index, storage, history, Went
    <2> QED
      BY <2>1, ElsewhereApart DEF Goes, Ended
  <1>14. CASE PutDoc(s)
    <2>1. (Goes(s, "invalidate")) /\ UNCHANGED <<backend, archive, contended>>
      BY <1>14, PublishMoves DEF PutDoc, storage, history, Went
    <2> QED
      BY <2>1, ElsewhereApart DEF Goes, Ended
  <1>15. CASE Invalidate(s)
    <2>1. (Ended(s)) /\ UNCHANGED <<backend, archive, contended>>
      BY <1>15, PublishMoves DEF Invalidate, storage, history, Went
    <2> QED
      BY <2>1, ElsewhereApart DEF Goes, Ended
  <1>16. CASE Answer(s)
    <2>1. (Ended(s)) /\ UNCHANGED <<backend, archive, contended>>
      BY <1>16, PublishMoves DEF Answer, storage, history, Went
    <2> QED
      BY <2>1, ElsewhereApart DEF Goes, Ended
  <1> QED
    BY <1>3, <1>4, <1>5, <1>6, <1>7, <1>8, <1>9, <1>10, <1>11, <1>12, <1>13, <1>14, <1>15, <1>16 DEF Publish

LEMMA ApartStep == TypeInv /\ Apart /\ [Next]_regVars => Apart'
  BY TypeStep, OtherSteps, AsideApart, PublishApart

\* The bytes of a version stay, or the version is contended.
LEMMA SettledStays ==
  ASSUME TypeInv, Apart, [Next]_regVars, NEW v \in Versions, NEW c \in Contents, Settled(v, c)
  PROVE  Settled(v, c)'
  <1>1. CASE Aside
    BY <1>1 DEF Aside, Settled
  <1>2. ASSUME NEW s \in Slots, Publish(s) PROVE Settled(v, c)'
    <2>1. /\ s \in Workers /\ archive \in [Versions -> Contents \union {Absent, Partial}]
          /\ req[s].pc \in PublishSteps => req[s].v \in Versions
      BY DEF Workers, TypeInv, Types, Placed
    <2>2. CASE Create(s)
      BY <2>1, <2>2, ContentsAssumption DEF Create, Settled, history, PublishSteps
    <2>3. CASE Write(s)
      BY <2>1, <2>3, ContentsAssumption DEF Write, Settled, history, Apart, PublishSteps
    <2>4. CASE Put(s)
      BY <2>1, <2>4, ContentsAssumption DEF Put, Settled, history, Apart, PublishSteps
    <2>5. CASE Head(s)
      BY <2>1, <2>5 DEF Head, Settled, storage
    <2> QED
      BY <1>2, <2>2, <2>3, <2>4, <2>5
      DEF Publish, Compare, Push, Snapshot, Save, ReadBack, PutSidecar, Index, PutDoc, Invalidate,
          Answer, Settled, history, storage
  <1> QED
    BY <1>1, <1>2, OtherSteps

\* What is said of the versions in a list is true of the archives.
Good(entries) == \A e \in entries : Settled(e.version, e.sha)

\* The steps of a publish that come after its bytes are stored.
Done == {"push", "snapshot", "save", "sidecar", "index", "doc", "invalidate", "answer"}
StoredBefore(w) == archive[req[w].v] \in Contents /\ Settled(req[w].v, req[w].c)

StoredFirst == \A w \in Workers : req[w].pc \in Done => StoredBefore(w)
Sidecars == \A v \in Versions : sidecar[v] # Absent => Settled(v, sidecar[v])
AckedStored == \A a \in acked : archive[a[1]] \in Contents
GoodLists == Good(doc) /\ \A i \in Instances : Good(index[i])
GoodOut == \A w \in Workers : Good(req[w].out)

\* A list that is to be installed has what was acknowledged before.
Knows ==
    \A w \in Workers :
        /\ req[w].pc \in {"meta", "repair"} => req[w].knew \subseteq req[w].listed
        /\ req[w].pc \in {"heal", "install"} => req[w].knew \subseteq VersionsOf(req[w].out)

Bytes == StoredFirst /\ Sidecars /\ AckedStored /\ GoodLists /\ GoodOut /\ Knows

RegInv == TypeInv /\ Apart /\ Bytes

LEMMA GoodStays ==
  ASSUME TypeInv, Apart, [Next]_regVars, NEW entries \in SUBSET Entry, Good(entries)
  PROVE  Good(entries)'
  <1>1. \A e \in entries : e.version \in Versions /\ e.sha \in Contents
    BY DEF Entry
  <1> QED
    BY <1>1, SettledStays DEF Good

LEMMA ListsStay ==
  ASSUME RegInv, [Next]_regVars
  PROVE  /\ doc' = doc => Good(doc)'
         /\ index' = index => \A i \in Instances : Good(index[i])'
         /\ \A w \in Workers : req'[w].out = req[w].out => Good(req[w].out)'
         /\ sidecar' = sidecar => Sidecars'
  <1>2. doc' = doc => Good(doc)'
    <2>1. PICK d \in SUBSET Entry : d = doc
      BY DEF RegInv, TypeInv, Types
    <2>2. Good(d) /\ Good(d)'
      BY <2>1, GoodStays DEF RegInv, Bytes, GoodLists, Good
    <2> QED
      BY <2>1, <2>2 DEF Good
  <1>3. ASSUME index' = index, NEW i \in Instances PROVE Good(index[i])'
    <2>1. PICK d \in SUBSET Entry : d = index[i]
      BY DEF RegInv, TypeInv, Types
    <2>2. Good(d) /\ Good(d)'
      BY <2>1, GoodStays DEF RegInv, Bytes, GoodLists, Good
    <2> QED
      BY <1>3, <2>1, <2>2 DEF Good
  <1>4. ASSUME NEW w \in Workers, req'[w].out = req[w].out PROVE Good(req[w].out)'
    <2>1. PICK d \in SUBSET Entry : d = req[w].out
      BY DEF RegInv, TypeInv, Job
    <2>2. Good(d) /\ Good(d)'
      BY <2>1, GoodStays DEF RegInv, Bytes, GoodOut, Good
    <2> QED
      BY <1>4, <2>1, <2>2 DEF Good
  <1>5. ASSUME sidecar' = sidecar, NEW v \in Versions, sidecar[v] # Absent
        PROVE  Settled(v, sidecar[v])'
    <2>1. PICK c \in Contents : c = sidecar[v]
      BY <1>5 DEF RegInv, TypeInv, Types
    <2>2. Settled(v, c) /\ Settled(v, c)'
      BY <1>5, <2>1, SettledStays DEF RegInv, Bytes, Sidecars, Settled
    <2> QED
      BY <1>5, <2>1, <2>2 DEF Settled
  <1> QED
    BY <1>2, <1>3, <1>4, <1>5 DEF Sidecars

\* A publish goes on to step `p`: what has to be shown of it.
LEMMA MoveBytes ==
  ASSUME RegInv, TypeInv', [Next]_regVars, Grows, NEW s \in Slots, NEW p \in PublishSteps, Goes(s, p),
         p \in Done => StoredBefore(s)', Good(req[s].out)', acked' = acked, Sidecars', GoodLists'
  PROVE  Bytes'
  <1>1. s \in Workers /\ s \notin Instances
    BY SlotsAssumption DEF Workers
  <1>2. \A w \in Workers : req[w].pc \in PublishSteps => req[w].v \in Versions /\ req[w].c \in Contents
    BY DEF RegInv, TypeInv, Placed
  <1>3. StoredFirst'
    <2> SUFFICES ASSUME NEW w \in Workers, (req[w].pc \in Done)' PROVE StoredBefore(w)'
      BY DEF StoredFirst
    <2>1. CASE w = s
      BY <2>1 DEF Goes
    <2>2. CASE w # s
      <3>1. req'[w] = req[w] /\ StoredBefore(w) /\ req[w].v \in Versions /\ req[w].c \in Contents
        BY <1>2, <2>2 DEF Goes, Others, RegInv, Bytes, StoredFirst, Done, PublishSteps
      <3> QED
        BY <3>1, SettledStays DEF StoredBefore, Settled, Grows, RegInv
    <2> QED
      BY <2>1, <2>2
  <1>4. AckedStored'
    BY DEF AckedStored, Grows, RegInv, Bytes, TypeInv, Types
  <1>5. GoodOut'
    BY ListsStay DEF GoodOut, Goes, Others
  <1>6. Knows'
    BY <1>1 DEF Knows, RegInv, Bytes, Goes, Others, PublishSteps, VersionsOf
  <1> QED
    BY <1>3, <1>4, <1>5, <1>6 DEF Bytes

\* A request ends: what has to be shown of it.
LEMMA EndBytes ==
  ASSUME RegInv, TypeInv', [Next]_regVars, Grows, NEW s \in Workers, Ended(s),
         acked' = acked \/ (StoredBefore(s) /\ req[s].v \in Versions
                            /\ acked' = acked \union {<<req[s].v, req[s].c>>}),
         Sidecars', GoodLists'
  PROVE  Bytes'
  <1>2. \A w \in Workers : req[w].pc \in PublishSteps => req[w].v \in Versions /\ req[w].c \in Contents
    BY DEF RegInv, TypeInv, Placed
  <1>3. StoredFirst'
    <2> SUFFICES ASSUME NEW w \in Workers, (req[w].pc \in Done)' PROVE StoredBefore(w)'
      BY DEF StoredFirst
    <2>1. w # s
      BY DEF Ended, Done
    <2>2. req'[w] = req[w] /\ StoredBefore(w) /\ req[w].v \in Versions /\ req[w].c \in Contents
      BY <1>2, <2>1 DEF Ended, Others, RegInv, Bytes, StoredFirst, Done, PublishSteps
    <2> QED
      BY <2>2, SettledStays DEF StoredBefore, Settled, Grows, RegInv
  <1>4. AckedStored'
    BY DEF AckedStored, StoredBefore, Grows, RegInv, Bytes, TypeInv, Types
  <1>5. GoodOut'
    BY ListsStay DEF GoodOut, Ended, Others, Good
  <1>6. Knows'
    BY DEF Knows, RegInv, Bytes, Ended, Others, VersionsOf
  <1> QED
    BY <1>3, <1>4, <1>5, <1>6 DEF Bytes

LEMMA PublishBytes ==
  ASSUME RegInv, [Next]_regVars, NEW s \in Slots, Publish(s)
  PROVE  Bytes'
  <1>1. TypeInv /\ TypeInv' /\ Grows
    BY PublishTypes DEF RegInv
  <1>2. /\ s \in Workers /\ req[s] \in Job /\ req[s].out \in SUBSET Entry
        /\ archive \in [Versions -> Contents \union {Absent, Partial}]
        /\ sidecar \in [Versions -> Contents \union {Absent}]
        /\ index \in [Instances -> SUBSET Entry]
    BY DEF RegInv, TypeInv, Types, Workers, Job
  <1>3. req[s].pc \in PublishSteps =>
           req[s].at \in Instances /\ req[s].v \in Versions /\ req[s].c \in Contents
    BY <1>2 DEF RegInv, TypeInv, Placed
  <1>4. req[s].pc \in Done => StoredBefore(s)
    BY <1>2 DEF RegInv, Bytes, StoredFirst
  <1>5. Good(doc) /\ (\A i \in Instances : Good(index[i])) /\ Good(req[s].out) /\ Sidecars
    BY <1>2 DEF RegInv, Bytes, GoodLists, GoodOut
  <1>6. CASE Compare(s)
    <2>1. req[s].pc = "compare" /\ (Went(s, "answer") \/ Ended(s))
      BY <1>1, <1>6, PublishMoves
    <2>2. Sidecars' /\ GoodLists'
      BY <1>6, ListsStay DEF Compare, storage, memory, GoodLists
    <2>3. acked' = acked /\ (Went(s, "answer") => StoredBefore(s)')
      BY <1>6, <1>2, <1>3, <2>1
      DEF Compare, history, storage, StoredBefore, Settled, PublishSteps, Goto, End, Idle, Task,
          Went, Goes, Kept
    <2> QED
      BY <1>1, <1>2, <2>1, <2>2, <2>3, MoveBytes, EndBytes, ListsStay DEF PublishSteps, Went
  <1>7. CASE Create(s)
    <2>1. req[s].pc = "create" /\ (Went(s, "write") \/ Went(s, "compare"))
      BY <1>1, <1>7, PublishMoves
    <2>2. Sidecars' /\ GoodLists' /\ acked' = acked
      BY <1>7, ListsStay DEF Create, history, memory, GoodLists
    <2> QED
      BY <1>1, <1>2, <2>1, <2>2, MoveBytes, ListsStay DEF PublishSteps, Done, Went
  <1>8. CASE Write(s)
    <2>1. req[s].pc = "write" /\ Went(s, "push")
      BY <1>1, <1>8, PublishMoves
    <2>2. Sidecars' /\ GoodLists' /\ acked' = acked
      BY <1>8, ListsStay DEF Write, history, memory, GoodLists
    <2>3. StoredBefore(s)'
      BY <1>8, <1>2, <1>3, <2>1 DEF Write, StoredBefore, Settled, PublishSteps, Went, Goes, Kept
    <2> QED
      BY <1>1, <1>2, <2>1, <2>2, <2>3, MoveBytes, ListsStay DEF PublishSteps, Went
  <1>9. CASE Push(s)
    <2>1. req[s].pc = "push" /\ Went(s, "snapshot")
      BY <1>1, <1>9, PublishMoves
    <2>2. Sidecars' /\ acked' = acked
      BY <1>9, ListsStay DEF Push, history, storage
    <2>3. GoodLists'
      <3> SUFFICES ASSUME NEW i \in Instances PROVE Good(index[i])'
        BY <1>9, ListsStay DEF Push, GoodLists, storage
      <3>1. Good(index[i]) /\ StoredBefore(s) /\ req[s].at \in Instances
        BY <1>3, <1>4, <1>5, <2>1 DEF Done, PublishSteps
      <3>2. archive' = archive /\ contended' = contended
            /\ index'[i] \in {index[i], index[i] \union {NewEntry(s)}}
        BY <1>9, <1>2, <3>1 DEF Push, storage, history
      <3> QED
        BY <3>1, <3>2 DEF Good, StoredBefore, Settled, NewEntry
    <2>4. StoredBefore(s)'
      BY <1>9, <1>4, <2>1 DEF Push, storage, history, StoredBefore, Settled, Done, Went, Goes, Kept
    <2> QED
      BY <1>1, <1>2, <2>1, <2>2, <2>3, <2>4, MoveBytes, ListsStay DEF PublishSteps, Went
  <1>10. CASE Snapshot(s)
    <2>1. req[s].pc = "snapshot" /\ Goes(s, "save")
      BY <1>1, <1>10, PublishMoves
    <2>2. Sidecars' /\ GoodLists'
      BY <1>10, ListsStay DEF Snapshot, storage, memory, GoodLists
    <2>3. acked' = acked /\ Good(req[s].out)'
      BY <1>10, <1>3, <1>5, <2>1, <1>1, PublishMoves DEF Snapshot, history, storage, Good, Settled, PublishSteps
    <2>4. StoredBefore(s)'
      BY <1>10, <1>4, <2>1 DEF Snapshot, storage, history, StoredBefore, Settled, Done, Went, Goes, Kept
    <2> QED
      BY <1>1, <2>1, <2>2, <2>3, <2>4, MoveBytes DEF PublishSteps
  <1>11. CASE Save(s)
    <2>1. req[s].pc = "save" /\ Goes(s, "answer")
      BY <1>1, <1>11, PublishMoves
    <2>2. Sidecars' /\ acked' = acked /\ \A i \in Instances : Good(index[i])'
      BY <1>11, ListsStay DEF Save, memory
    <2>3. Good(doc)' /\ Good(req[s].out)'
      BY <1>11, <1>1, <1>5, PublishMoves DEF Save, Good, Settled
    <2>4. StoredBefore(s)'
      BY <1>11, <1>4, <2>1 DEF Save, storage, StoredBefore, Settled, Done, Went, Goes, Kept
    <2> QED
      BY <1>1, <2>1, <2>2, <2>3, <2>4, MoveBytes DEF PublishSteps, GoodLists
  <1>12. CASE Head(s)
    <2>1. req[s].pc = "head" /\ (Went(s, "compare") \/ Went(s, "put"))
      BY <1>1, <1>12, PublishMoves
    <2>2. Sidecars' /\ GoodLists' /\ acked' = acked
      BY <1>12, ListsStay DEF Head, storage, memory, GoodLists
    <2> QED
      BY <1>1, <1>2, <2>1, <2>2, MoveBytes, ListsStay DEF PublishSteps, Done, Went
  <1>13. CASE Put(s)
    <2>1. req[s].pc = "put" /\ (Went(s, "readback") \/ req' = req)
      BY <1>1, <1>13, PublishMoves
    <2>2. Sidecars' /\ GoodLists' /\ acked' = acked
      BY <1>13, ListsStay DEF Put, history, memory, GoodLists
    <2>3. CASE Went(s, "readback")
      BY <1>1, <1>2, <2>2, <2>3, MoveBytes, ListsStay DEF PublishSteps, Done, Went
    <2>4. CASE req' = req
      <3>1. Went(s, "put")
        BY <1>1, <2>1, <2>4 DEF Went, Goes, Kept, Others, TypeInv
      <3> QED
        BY <1>1, <1>2, <2>2, <3>1, MoveBytes, ListsStay DEF PublishSteps, Done, Went
    <2> QED
      BY <2>1, <2>3, <2>4
  <1>14. CASE ReadBack(s)
    <2>1. req[s].pc = "readback" /\ (Went(s, "sidecar") \/ Ended(s))
      BY <1>1, <1>14, PublishMoves
    <2>2. Sidecars' /\ GoodLists'
      BY <1>14, ListsStay DEF ReadBack, storage, memory, GoodLists
    <2>3. acked' = acked /\ (Went(s, "sidecar") => StoredBefore(s)')
      BY <1>14, <1>2, <1>3, <2>1
      DEF ReadBack, history, storage, StoredBefore, Settled, PublishSteps, Goto, End, Idle, Task,
          Went, Goes, Kept
    <2> QED
      BY <1>1, <1>2, <2>1, <2>2, <2>3, MoveBytes, EndBytes, ListsStay DEF PublishSteps, Went
  <1>15. CASE PutSidecar(s)
    <2>1. req[s].pc = "sidecar" /\ Went(s, "index")
      BY <1>1, <1>15, PublishMoves
    <2>2. GoodLists' /\ acked' = acked
      BY <1>15, ListsStay DEF PutSidecar, history, memory, GoodLists
    <2>3. Sidecars'
      BY <1>15, <1>2, <1>3, <1>4, <1>5, <2>1
      DEF PutSidecar, history, Sidecars, Settled, StoredBefore, Done, PublishSteps
    <2>4. StoredBefore(s)'
      BY <1>15, <1>4, <2>1 DEF PutSidecar, storage, history, StoredBefore, Settled, Done, Went, Goes, Kept
    <2> QED
      BY <1>1, <1>2, <2>1, <2>2, <2>3, <2>4, MoveBytes, ListsStay DEF PublishSteps, Went
  <1>16. CASE Index(s)
    <2>1. req[s].pc = "index" /\ Goes(s, "doc")
      BY <1>1, <1>16, PublishMoves
    <2>2. Sidecars' /\ acked' = acked
      BY <1>16, ListsStay DEF Index, history, storage
    <2>3. GoodLists'
      <3> SUFFICES ASSUME NEW i \in Instances PROVE Good(index[i])'
        BY <1>16, ListsStay DEF Index, GoodLists, storage
      <3>1. Good(index[i]) /\ StoredBefore(s) /\ req[s].at \in Instances
        BY <1>3, <1>4, <1>5, <2>1 DEF Done, PublishSteps
      <3>2. archive' = archive /\ contended' = contended
            /\ index'[i] \in {index[i], index[i] \union {NewEntry(s)}}
        BY <1>16, <1>2, <3>1 DEF Index, storage, history
      <3> QED
        BY <3>1, <3>2 DEF Good, StoredBefore, Settled, NewEntry
    <2>4. StoredBefore(s)'
      BY <1>16, <1>4, <2>1 DEF Index, storage, history, StoredBefore, Settled, Done, Went, Goes, Kept
    <2>5. Good(req[s].out)'
      BY <1>16, <1>3, <2>1, <1>1, <2>3, PublishMoves DEF GoodLists, Good, Settled, PublishSteps
    <2> QED
      BY <1>1, <2>1, <2>2, <2>3, <2>4, <2>5, MoveBytes DEF PublishSteps
  <1>17. CASE PutDoc(s)
    <2>1. req[s].pc = "doc" /\ Goes(s, "invalidate")
      BY <1>1, <1>17, PublishMoves
    <2>2. Sidecars' /\ acked' = acked /\ \A i \in Instances : Good(index[i])'
      BY <1>17, ListsStay DEF PutDoc, history, memory
    <2>3. Good(doc)' /\ Good(req[s].out)'
      BY <1>17, <1>1, <1>5, PublishMoves DEF PutDoc, history, Good, Settled
    <2>4. StoredBefore(s)'
      BY <1>17, <1>4, <2>1 DEF PutDoc, storage, history, StoredBefore, Settled, Done, Went, Goes, Kept
    <2> QED
      BY <1>1, <2>1, <2>2, <2>3, <2>4, MoveBytes DEF PublishSteps, GoodLists
  <1>18. CASE Invalidate(s)
    <2>1. req[s].pc = "invalidate" /\ Ended(s)
      BY <1>1, <1>18, PublishMoves
    <2>2. Sidecars' /\ GoodLists'
      BY <1>18, ListsStay DEF Invalidate, storage, memory, GoodLists
    <2>3. /\ StoredBefore(s) /\ req[s].v \in Versions
          /\ acked' = acked \union {<<req[s].v, req[s].c>>}
      BY <1>18, <1>3, <1>4, <2>1 DEF Invalidate, Done, PublishSteps
    <2> QED
      BY <1>1, <1>2, <2>1, <2>2, <2>3, EndBytes
  <1>19. CASE Answer(s)
    <2>1. req[s].pc = "answer" /\ Ended(s)
      BY <1>1, <1>19, PublishMoves
    <2>2. Sidecars' /\ GoodLists'
      BY <1>19, ListsStay DEF Answer, storage, memory, GoodLists
    <2>3. /\ StoredBefore(s) /\ req[s].v \in Versions
          /\ acked' = acked \union {<<req[s].v, req[s].c>>}
      BY <1>19, <1>3, <1>4, <2>1 DEF Answer, Done, PublishSteps
    <2> QED
      BY <1>1, <1>2, <2>1, <2>2, <2>3, EndBytes
  <1> QED
    BY <1>6, <1>7, <1>8, <1>9, <1>10, <1>11, <1>12, <1>13, <1>14, <1>15, <1>16, <1>17, <1>18, <1>19 DEF Publish

\* A step that is not one of a publish: what has to be shown of it.
LEMMA AsideBytes ==
  ASSUME RegInv, TypeInv', Aside, Sidecars', GoodLists', GoodOut', Knows'
  PROVE  Bytes'
  <1>1. Done \subseteq PublishSteps \ Firsts
    BY DEF Done, PublishSteps, Firsts
  <1>2. StoredFirst'
    <2> SUFFICES ASSUME NEW w \in Workers, (req[w].pc \in Done)' PROVE StoredBefore(w)'
      BY DEF StoredFirst
    <2>1. req'[w] = req[w] /\ UNCHANGED <<archive, contended>>
      BY <1>1 DEF Aside
    <2> QED
      BY <2>1 DEF StoredBefore, Settled, RegInv, Bytes, StoredFirst
  <1>3. AckedStored'
    BY DEF AckedStored, Aside, RegInv, Bytes
  <1> QED
    BY <1>2, <1>3 DEF Bytes

\* Only worker `w` changes, and what it has is as it should be.
LEMMA OneWorker ==
  ASSUME RegInv, [Next]_regVars, NEW w \in Workers, Others(w), Good(req[w].out)',
         /\ req'[w].pc \in {"meta", "repair"} => req'[w].knew \subseteq req'[w].listed
         /\ req'[w].pc \in {"heal", "install"} => req'[w].knew \subseteq VersionsOf(req'[w].out)
  PROVE  GoodOut' /\ Knows'
  <1>1. \A x \in Workers : x # w => req'[x] = req[x] /\ Good(req[x].out)'
    BY ListsStay DEF Others
  <1> QED
    BY <1>1 DEF GoodOut, Knows, RegInv, Bytes, VersionsOf

LEMMA SharedBytes ==
  ASSUME RegInv, [Next]_regVars, TypeInv', Aside, UNCHANGED <<sidecar, doc, index>>,
         GoodOut', Knows'
  PROVE  Bytes'
  BY ListsStay, AsideBytes DEF GoodLists

\* A repair says what the sidecar or the archive says.
LEMMA RepairBytes ==
  ASSUME RegInv, [Next]_regVars, TypeInv', Aside, NEW w \in Workers, Repair(w)
  PROVE  Bytes'
  <1>1. PICK v \in req[w].listed, sha \in Contents, p \in {"repair", "heal", "install"} :
           /\ Goes(w, p) /\ sha = (IF sidecar[v] = Absent THEN archive[v] ELSE sidecar[v])
           /\ sidecar' = [sidecar EXCEPT ![v] = sha]
           /\ req'[w].out = req[w].out \union {[version |-> v, sha |-> sha]}
           /\ p # "repair" => VersionsOf(req'[w].out) = req[w].listed
    BY RepairTypes DEF RegInv
  <1>2. req[w].pc = "repair" /\ UNCHANGED <<archive, contended, doc, index>>
    BY DEF Repair, memory, history
  <1>3. v \in Versions /\ sidecar \in [Versions -> Contents \union {Absent}]
    BY DEF RegInv, TypeInv, Types, Job
  <1>4. Settled(v, sha)
    BY <1>1, <1>3 DEF Settled, RegInv, Bytes, Sidecars
  <1>5. Sidecars'
    BY <1>1, <1>2, <1>3, <1>4 DEF RegInv, Bytes, Sidecars, Settled
  <1>6. Good(req[w].out)'
    <2>1. Good(req[w].out)
      BY DEF RegInv, Bytes, GoodOut
    <2> QED
      BY <1>1, <1>2, <1>4, <2>1 DEF Good, Settled
  <1>7. req[w].knew \subseteq req[w].listed /\ req'[w].knew = req[w].knew
        /\ req'[w].listed = req[w].listed /\ req'[w].pc = p /\ Others(w)
    BY <1>1, <1>2 DEF RegInv, Bytes, Knows, Goes, Kept
  <1>8. GoodOut' /\ Knows'
    BY <1>1, <1>6, <1>7, OneWorker
  <1> QED
    BY <1>2, <1>5, <1>8, ListsStay, AsideBytes DEF GoodLists

LEMMA BytesStep == RegInv /\ [Next]_regVars => Bytes'
  <1> SUFFICES ASSUME RegInv, [Next]_regVars PROVE Bytes'
    OBVIOUS
  <1>0. TypeInv /\ TypeInv' /\ req \in [Workers -> Job] /\ VersionsOf({}) = {}
    BY TypeStep DEF RegInv, TypeInv, VersionsOf
  <1>a. Slots \subseteq Workers /\ Instances \subseteq Workers
    BY DEF Workers
  <1>1. CASE \E s \in Slots : Publish(s)
    BY <1>1, PublishBytes
  <1>2. CASE Aside
    <2>a. \A S : S = {} => Good(S)'
      BY DEF Good
    <2>1. CASE UNCHANGED regVars
      BY <2>1, <1>0, <1>2, SharedBytes DEF regVars, memory, storage, history, bounds, RegInv, Bytes,
         GoodOut, Good, Knows, VersionsOf, Settled
    <2>2. ASSUME NEW s \in Slots, NEW i \in Instances, NEW u \in Uploads,
                 StartPublish(s, i, u[1], u[2])
          PROVE  Bytes'
      <3>1. Others(s) /\ req'[s].pc \in Firsts /\ req'[s].out = {}
        BY <2>2, <1>0, StartTypes DEF Firsts
      <3>2. GoodOut' /\ Knows'
        BY <3>1, <1>a, <2>a, OneWorker DEF Firsts
      <3> QED
        BY <1>0, <1>2, <2>2, <3>2, SharedBytes DEF StartPublish, memory, storage
    <2>3. ASSUME NEW i \in Instances, NEW s \in Slots, StartRefresh(s, i) PROVE Bytes'
      <3>1. Others(s) /\ req'[s].pc = "list" /\ req'[s].out = {}
        BY <2>3, <1>0, RefreshTypes
      <3>2. GoodOut' /\ Knows'
        BY <3>1, <1>a, <2>a, OneWorker
      <3> QED
        BY <1>0, <1>2, <2>3, <3>2, SharedBytes DEF StartRefresh, memory, storage
    <2>4. ASSUME NEW i \in Instances, Expire(i) PROVE Bytes'
      BY <2>4, <1>0, <1>2, SharedBytes DEF Expire, storage, history, bounds, RegInv, Bytes,
         GoodOut, Good, Knows, VersionsOf, Settled
    <2>5. ASSUME NEW i \in Instances, Crash(i) PROVE Bytes'
      <3>1. Dropped(i) /\ Idle.pc = "idle" /\ Idle.out = {}
        BY <2>5, <1>0, CrashTypes
      <3>2. UNCHANGED <<sidecar, doc>> /\ Sidecars' /\ Good(doc)'
        BY <2>5, ListsStay DEF Crash, storage
      <3>3. GoodLists'
        <4> SUFFICES ASSUME NEW j \in Instances PROVE Good(index[j])'
          BY <3>2 DEF GoodLists
        <4>1. Good(index[j]) /\ UNCHANGED <<archive, contended>>
          BY <1>2 DEF Aside, RegInv, Bytes, GoodLists
        <4>2. index'[j] \in {index[j], {}}
          BY <2>5 DEF Crash, RegInv, TypeInv, Types
        <4> QED
          BY <4>1, <4>2 DEF Good, Settled
      <3>4. GoodOut'
        BY <1>2, <3>1 DEF Dropped, GoodOut, Good, Settled, Aside, RegInv, Bytes
      <3>5. Knows'
        BY <3>1 DEF Dropped, Knows, RegInv, Bytes, VersionsOf
      <3> QED
        BY <1>0, <1>2, <3>2, <3>3, <3>4, <3>5, AsideBytes
    <2>6. ASSUME NEW i \in Instances, Restart(i) PROVE Bytes'
      <3>1. CASE RestartLocal(i)
        <4>1. UNCHANGED <<sidecar, doc, req, archive, contended>> /\ Sidecars' /\ Good(doc)'
          BY <3>1, ListsStay DEF RestartLocal, storage, history
        <4>2. GoodLists'
          <5> SUFFICES ASSUME NEW j \in Instances PROVE Good(index[j])'
            BY <4>1 DEF GoodLists
          <5>1. Good(index[j]) /\ Good(doc) /\ index'[j] \subseteq index[j] \union doc
            BY <3>1 DEF RestartLocal, RegInv, TypeInv, Types, Bytes, GoodLists
          <5> QED
            BY <4>1, <5>1 DEF Good, Settled
        <4>3. GoodOut' /\ Knows'
          BY <4>1 DEF GoodOut, Good, Settled, Knows, VersionsOf, RegInv, Bytes
        <4> QED
          BY <1>0, <1>2, <4>1, <4>2, <4>3, AsideBytes
      <3>2. CASE Others(i) /\ req'[i].pc = "list" /\ req'[i].out = {} /\ RestartB2(i)
        <4>1. GoodOut' /\ Knows'
          BY <3>2, <1>a, <2>a, OneWorker
        <4> QED
          BY <1>0, <1>2, <3>2, <4>1, SharedBytes DEF RestartB2, storage
      <3> QED
        BY <2>6, <1>0, <3>1, <3>2, RestartTypes DEF Restart
    <2>7. ASSUME NEW w \in Workers, List(w) PROVE Bytes'
      <3>1. /\ Others(w) /\ req'[w].out = {} /\ req'[w].listed = Stored
            /\ req'[w].knew = AckedVersions
            /\ req'[w].pc = IF Stored = {} THEN "install" ELSE "meta"
        BY <2>7, <1>0, ListTypes
      <3>2. AckedVersions \subseteq Stored
        BY ContentsAssumption
        DEF AckedVersions, Stored, RegInv, Bytes, AckedStored, TypeInv, Types
      <3>3. GoodOut' /\ Knows'
        BY <3>1, <3>2, <2>a, OneWorker
      <3> QED
        BY <1>0, <1>2, <2>7, <3>3, SharedBytes DEF List, memory, storage
    <2>8. ASSUME NEW w \in Workers, Meta(w) PROVE Bytes'
      <3>1. /\ req[w].pc = "meta" /\ Others(w)
            /\ req'[w].knew = req[w].knew /\ req'[w].listed = req[w].listed
            /\ \/ /\ req'[w].pc = "install" /\ req'[w].out = doc
                  /\ VersionsOf(doc) = req[w].listed
               \/ req'[w].pc = "repair" /\ req'[w].out = req[w].out
        BY <2>8, <1>0, MetaTypes DEF Went, Goes, Kept
      <3>2. UNCHANGED <<sidecar, doc, index>>
        BY <2>8 DEF Meta, memory, storage
      <3>3. Good(req[w].out)' /\ req[w].knew \subseteq req[w].listed
        BY <3>1, <3>2, ListsStay DEF RegInv, Bytes, Knows, Good, Settled
      <3>4. GoodOut' /\ Knows'
        BY <3>1, <3>3, OneWorker
      <3> QED
        BY <1>0, <1>2, <3>2, <3>4, SharedBytes
    <2>9. ASSUME NEW w \in Workers, Repair(w) PROVE Bytes'
      BY <2>9, <1>0, <1>2, RepairBytes
    <2>10. ASSUME NEW w \in Workers, Install(w) PROVE Bytes'
      <3>1. /\ req[w].at \in Instances /\ Others(w)
            /\ req'[w].pc \in {"idle", "cache"} /\ req'[w].out = {}
        BY <2>10, <1>0, InstallTypes
      <3>2. UNCHANGED <<sidecar, doc, archive, contended>> /\ Sidecars' /\ Good(doc)'
        BY <2>10, ListsStay DEF Install, storage, history
      <3>3. GoodLists'
        <4> SUFFICES ASSUME NEW j \in Instances PROVE Good(index[j])'
          BY <3>2 DEF GoodLists
        <4>1. Good(index[j]) /\ Good(req[w].out) /\ index'[j] \in {index[j], req[w].out}
          BY <2>10, <3>1 DEF Install, RegInv, TypeInv, Types, Bytes, GoodLists, GoodOut
        <4> QED
          BY <3>2, <4>1 DEF Good, Settled
      <3>4. GoodOut' /\ Knows'
        BY <3>1, <2>a, OneWorker
      <3> QED
        BY <1>0, <1>2, <3>2, <3>3, <3>4, AsideBytes
    <2>11. ASSUME NEW s \in Slots, Cache(s) PROVE Bytes'
      <3>1. Others(s) /\ req'[s].pc = "idle" /\ req'[s].out = {}
        BY <2>11, <1>0, CacheTypes DEF Ended
      <3>2. GoodOut' /\ Knows'
        BY <3>1, <1>a, <2>a, OneWorker
      <3> QED
        BY <1>0, <1>2, <2>11, <3>2, SharedBytes DEF Cache, storage
    <2>12. ASSUME NEW i \in Instances, Heal(i) PROVE Bytes'
      <3>1. /\ req[i].pc = "heal" /\ Others(i) /\ req'[i].pc = "install"
            /\ req'[i].knew = req[i].knew /\ req'[i].out = req[i].out
        BY <2>12, <1>0, HealTypes DEF Went, Goes, Kept
      <3>2. /\ UNCHANGED <<sidecar, index>> /\ doc' = req[i].out /\ Sidecars'
            /\ \A j \in Instances : Good(index[j])'
        BY <2>12, ListsStay DEF Heal, memory
      <3>3. Good(req[i].out)' /\ Good(doc)'
        BY <1>a, <3>1, <3>2, ListsStay DEF Good, Settled
      <3>4. GoodOut' /\ Knows'
        BY <1>a, <3>1, <3>3, OneWorker DEF RegInv, Bytes, Knows
      <3> QED
        BY <1>0, <1>2, <3>2, <3>3, <3>4, AsideBytes DEF GoodLists
    <2>13. ASSUME NEW w \in Workers, Fault(w) PROVE Bytes'
      <3>1. /\ Others(w)
            /\ \/ req'[w].pc = "idle" /\ req'[w].out = {}
               \/ /\ req'[w].knew = req[w].knew /\ req'[w].out = req[w].out
                  /\ req'[w].listed = req[w].listed
                  /\ \/ req[w].pc = "meta" /\ req'[w].pc = "repair"
                     \/ req[w].pc = "heal" /\ req'[w].pc = "install"
        BY <2>13, <1>0, FaultTypes DEF Ended, Went, Goes, Kept
      <3>2. Good(req[w].out)'
        BY <3>1, ListsStay DEF Good, Settled
      <3>3. GoodOut' /\ Knows'
        BY <3>1, <3>2, OneWorker DEF RegInv, Bytes, Knows
      <3> QED
        BY <1>0, <1>2, <2>13, <3>3, SharedBytes DEF Fault, storage
    <2> QED
      BY <1>1, <2>1, <2>2, <2>3, <2>4, <2>5, <2>6, <2>7, <2>8, <2>9, <2>10, <2>11, <2>12, <2>13
      DEF Next, Work, Read, Refresh
  <1> QED
    BY <1>0, <1>1, <1>2, OtherSteps

LEMMA RegInit == Init => RegInv
  <1> SUFFICES ASSUME Init PROVE RegInv
    OBVIOUS
  <1>1. Idle.pc = "idle" /\ Idle.out = {}
    BY DEF Idle, Task
  <1>2. /\ \A w \in Workers : req[w].pc = "idle" /\ req[w].out = {}
        /\ Slots \subseteq Workers /\ Instances \subseteq Workers
    BY <1>1 DEF Init, Workers
  <1>3. TypeInv
    BY InitTypes
  <1>4. Apart
    BY <1>2 DEF Init, Apart
  <1>5. Bytes
    BY <1>2 DEF Init, Bytes, StoredFirst, Sidecars, AckedStored, GoodLists, GoodOut, Knows, Good,
       Done
  <1> QED
    BY <1>3, <1>4, <1>5 DEF RegInv

LEMMA RegStep == RegInv /\ [Next]_regVars => RegInv'
  BY TypeStep, ApartStep, BytesStep DEF RegInv

LEMMA Invariant == RegSpec => []RegInv
  BY RegInit, RegStep, PTL DEF RegSpec

\* Every list of versions, in an instance, stored or on its way, is true of
\* the archives, whatever publishes, refreshes, loads and failures overlap.
THEOREM ListsAreBacked == RegSpec => []Backed
  <1>1. RegInv => Backed
    BY DEF RegInv, Bytes, GoodLists, GoodOut, Good, Settled, Backed
  <1> QED
    BY <1>1, Invariant, PTL

\* A list that a refresh or a load installs has every version acknowledged
\* before it began to list.
THEOREM RefreshesSeeAcked == RegSpec => []RefreshSeesAcked
  <1>1. RegInv => RefreshSeesAcked
    BY DEF RegInv, Bytes, Knows, RefreshSeesAcked
  <1> QED
    BY <1>1, Invariant, PTL

-----------------------------------------------------------------------------
(* The refinement: versions get their bytes once.                          *)

\* A step that leaves the bytes of every version and what was acknowledged.
LEMMA PromiseStutters ==
  ASSUME UNCHANGED <<archive, contended, acked>>
  PROVE  UNCHANGED Promise!storeVars
  BY DEF Promise!storeVars, StoredBytes

\* Version `v` gets the bytes `c`, or had them.
LEMMA PromiseStores ==
  ASSUME TypeInv, NEW v \in Versions, NEW c \in Contents,
         archive[v] \in {Absent, Partial, c} \/ v \in contended,
         archive' = [archive EXCEPT ![v] = c], UNCHANGED <<contended, acked>>
  PROVE  [Promise!Next]_(Promise!storeVars)
  <1>1. /\ archive \in [Versions -> Contents \union {Absent, Partial}]
        /\ StoredBytes \in [Versions -> Contents \union {Absent, Disputed}]
    BY DEF TypeInv, Types, StoredBytes
  <1>2. CASE v \in contended \/ archive[v] = c
    <2>1. StoredBytes' = StoredBytes
      BY <1>1, <1>2 DEF StoredBytes
    <2> QED
      BY <2>1 DEF Promise!storeVars
  <1>3. CASE v \notin contended /\ archive[v] \in {Absent, Partial}
    <2>1. StoredBytes[v] = Absent
      BY <1>3 DEF StoredBytes
    <2>2. StoredBytes' = [StoredBytes EXCEPT ![v] = c]
      BY <1>1, <1>3, ContentsAssumption DEF StoredBytes
    <2>3. Promise!Store(v, c)
      BY <2>1, <2>2 DEF Promise!Store
    <2> QED
      BY <2>3 DEF Promise!Next
  <1> QED
    BY <1>2, <1>3

LEMMA PromiseAcknowledges ==
  ASSUME RegInv, NEW w \in Workers, req[w].pc \in {"answer", "invalidate"},
         acked' = acked \union {<<req[w].v, req[w].c>>}, UNCHANGED <<archive, contended>>
  PROVE  Promise!Next
  <1>1. req[w].v \in Versions /\ req[w].c \in Contents /\ StoredBefore(w)
    BY DEF RegInv, TypeInv, Placed, PublishSteps, Bytes, StoredFirst, Done
  <1>2. PICK v \in Versions, c \in Contents : v = req[w].v /\ c = req[w].c
    BY <1>1
  <1>3. StoredBytes[v] \in {c, Disputed} /\ StoredBytes' = StoredBytes
    BY <1>1, <1>2, ContentsAssumption DEF StoredBytes, StoredBefore, Settled
  <1>4. Promise!Acknowledge(v, c)
    BY <1>2, <1>3 DEF Promise!Acknowledge
  <1> QED
    BY <1>4 DEF Promise!Next

LEMMA PromiseStep == RegInv /\ [Next]_regVars => [Promise!Next]_(Promise!storeVars)
  <1> SUFFICES ASSUME RegInv, [Next]_regVars PROVE [Promise!Next]_(Promise!storeVars)
    OBVIOUS
  <1>1. CASE Aside
    BY <1>1, PromiseStutters DEF Aside
  <1>2. ASSUME NEW s \in Slots, Publish(s) PROVE [Promise!Next]_(Promise!storeVars)
    <2>1. /\ s \in Workers /\ TypeInv /\ Apart
          /\ archive \in [Versions -> Contents \union {Absent, Partial}]
          /\ req[s].pc \in PublishSteps => req[s].v \in Versions /\ req[s].c \in Contents
      BY DEF RegInv, TypeInv, Types, Placed, Workers
    <2>2. CASE Create(s)
      <3>1. UNCHANGED <<contended, acked>> /\ StoredBytes' = StoredBytes
        BY <2>1, <2>2, ContentsAssumption DEF Create, history, StoredBytes, PublishSteps
      <3> QED
        BY <3>1 DEF Promise!storeVars
    <2>3. CASE Write(s)
      <3>1. /\ req[s].v \in Versions /\ req[s].c \in Contents /\ archive[req[s].v] = Partial
            /\ archive' = [archive EXCEPT ![req[s].v] = req[s].c] /\ UNCHANGED <<contended, acked>>
        BY <2>1, <2>3 DEF Write, history, PublishSteps, Apart
      <3>2. PICK v \in Versions, c \in Contents : v = req[s].v /\ c = req[s].c
        BY <3>1
      <3> QED
        BY <2>1, <3>1, <3>2, PromiseStores
    <2>4. CASE Put(s)
      <3>1. /\ req[s].v \in Versions /\ req[s].c \in Contents
            /\ archive[req[s].v] \in {Absent, req[s].c} \/ req[s].v \in contended
            /\ archive' = [archive EXCEPT ![req[s].v] = req[s].c] /\ UNCHANGED <<contended, acked>>
        BY <2>1, <2>4 DEF Put, history, PublishSteps, Apart, Settled
      <3>2. PICK v \in Versions, c \in Contents : v = req[s].v /\ c = req[s].c
        BY <3>1
      <3> QED
        BY <2>1, <3>1, <3>2, PromiseStores
    <2>5. CASE Head(s)
      <3>1. /\ req[s].v \in Versions /\ UNCHANGED <<archive, acked>>
            /\ contended' \in {contended, contended \union {req[s].v}}
        BY <2>1, <2>5 DEF Head, storage, PublishSteps
      <3>2. PICK v \in Versions : v = req[s].v
        BY <3>1
      <3>3. CASE contended' = contended
        BY <3>1, <3>3, PromiseStutters
      <3>4. CASE contended' = contended \union {v}
        <4>1. StoredBytes' = [StoredBytes EXCEPT ![v] = Disputed]
          BY <3>1, <3>4 DEF StoredBytes
        <4>2. Promise!Dispute(v)
          BY <3>1, <4>1 DEF Promise!Dispute
        <4> QED
          BY <4>2 DEF Promise!Next
      <3> QED
        BY <3>1, <3>2, <3>3, <3>4
    <2>6. CASE Answer(s) \/ Invalidate(s)
      BY <2>1, <2>6, PromiseAcknowledges DEF Answer, Invalidate, storage
    <2>7. CASE \/ Compare(s) \/ Push(s) \/ Snapshot(s) \/ Save(s) \/ ReadBack(s) \/ PutSidecar(s)
               \/ Index(s) \/ PutDoc(s)
      <3>1. UNCHANGED <<archive, contended, acked>>
        BY <2>7 DEF Compare, Push, Snapshot, Save, ReadBack, PutSidecar, Index, PutDoc, storage,
           history
      <3> QED
        BY <3>1, PromiseStutters
    <2> QED
      BY <1>2, <2>2, <2>3, <2>4, <2>5, <2>6, <2>7 DEF Publish
  <1> QED
    BY <1>1, <1>2, OtherSteps DEF RegInv

\* A version gets its bytes once and keeps them, and only stored bytes are
\* acknowledged: the registry implements VersionStore.
THEOREM RegistryKeepsPromise == RegSpec => KeepsPromise
  <1>1. Init => Promise!Init
    BY DEF Init, Promise!Init, StoredBytes
  <1> QED
    BY <1>1, Invariant, PromiseStep, PTL DEF RegSpec, KeepsPromise, Promise!Spec

-----------------------------------------------------------------------------
(* The order of the writes on local disk.                                  *)

OneServer ==
    /\ \A i, j \in Instances : up[i] # "down" /\ up[j] # "down" => i = j
    /\ \A i \in Instances : up[i] # "loading"
    /\ \A w \in Workers : req[w].pc \in PublishSteps => up[req[w].at] = "up"

\* Publishes that overlap are noted.
Overlap ==
    \A w, x \in Workers :
        w # x /\ req[w].pc \in PublishSteps /\ req[x].pc \in PublishSteps
            => req[w].v \in disturbed

\* A stored archive is in the stored index, or on its way there.
Listed ==
    \A v \in Versions : archive[v] \in Contents =>
        \/ v \in VersionsOf(doc) \union disturbed
        \/ \E w \in Workers : req[w].pc \in {"push", "snapshot", "save"} /\ req[w].v = v

\* The server has what the stored index has.
Remembered ==
    \A i \in Instances : up[i] = "up" =>
        VersionsOf(doc) \subseteq VersionsOf(index[i]) \union disturbed

\* What is about to be stored is the index, up to publishes that overlap.
Rendered ==
    \A w \in Workers :
        /\ req[w].pc = "snapshot" => req[w].v \in VersionsOf(index[req[w].at])
        /\ req[w].pc = "save" =>
              /\ req[w].v \in VersionsOf(req[w].out)
              /\ VersionsOf(req[w].out) \subseteq VersionsOf(index[req[w].at])
              /\ VersionsOf(index[req[w].at]) \subseteq VersionsOf(req[w].out) \union disturbed

AckedListed == AckedVersions \subseteq VersionsOf(doc) \union disturbed

Order == OneServer /\ Overlap /\ Listed /\ Remembered /\ Rendered /\ AckedListed

LocalInv == RegInv /\ (backend = "local" => Order)

\* The actions that there are on local disk.
LEMMA LocalActions ==
  ASSUME RegInv, backend = "local", [Next]_regVars
  PROVE  \/ UNCHANGED regVars
         \/ \E s \in Slots, i \in Instances, u \in Uploads : StartPublish(s, i, u[1], u[2])
         \/ \E i \in Instances : Expire(i) \/ Crash(i) \/ RestartLocal(i)
         \/ \E w \in Workers :
               Fault(w) /\ Ended(w) /\ req[w].pc \in {"compare", "create", "write", "save"}
         \/ \E s \in Slots : \/ Compare(s) \/ Answer(s)
                             \/ Create(s) \/ Write(s) \/ Push(s) \/ Snapshot(s) \/ Save(s)
  <1>1. \A w \in Workers : req[w].pc \notin SharedSteps
    BY DEF RegInv, TypeInv, Kinds
  <1>2. Slots \subseteq Workers /\ Instances \subseteq Workers
    BY DEF Workers
  <1>3. \A i \in Instances : ~ Refresh(i) /\ ~ RestartB2(i)
    BY DEF Refresh, StartRefresh, RestartB2
  <1>4. \A w \in Workers : ~ Read(w) /\ ~ Cache(w) /\ ~ Heal(w)
    BY <1>1 DEF Read, List, Meta, Repair, Install, Cache, Heal, SharedSteps, RefreshSteps
  <1>5. \A s \in Slots : /\ ~ Head(s) /\ ~ Put(s) /\ ~ ReadBack(s) /\ ~ PutSidecar(s)
                         /\ ~ Index(s) /\ ~ PutDoc(s) /\ ~ Invalidate(s)
    BY <1>1, <1>2 DEF Head, Put, ReadBack, PutSidecar, Index, PutDoc, Invalidate, SharedSteps
  <1>6. ASSUME NEW w \in Workers, Fault(w)
        PROVE  Ended(w) /\ req[w].pc \in {"compare", "create", "write", "save"}
    <2>1. Ended(w)
      BY <1>1, <1>6, FaultTypes DEF RegInv, SharedSteps, RefreshSteps
    <2> QED
      BY <1>1, <1>6, <2>1 DEF Fault, SharedSteps, RefreshSteps
  <1> QED
    BY <1>3, <1>4, <1>5, <1>6 DEF Next, Work, Publish, Restart

\* Facts that the steps below use.
LEMMA LocalFacts ==
  ASSUME RegInv
  PROVE  /\ req \in [Workers -> Job] /\ Slots \subseteq Workers
         /\ archive \in [Versions -> Contents \union {Absent, Partial}]
         /\ index \in [Instances -> SUBSET Entry]
         /\ up \in [Instances -> {"up", "down", "loading"}]
         /\ \A w \in Workers : req[w].pc \in PublishSteps =>
               /\ w \in Slots /\ req[w].at \in Instances
               /\ req[w].v \in Versions /\ req[w].c \in Contents
         /\ \A w \in Workers : req[w].pc \in Done => archive[req[w].v] \in Contents
  BY DEF RegInv, TypeInv, Types, Placed, Bytes, StoredFirst, StoredBefore, Workers

\* The servers and the overlaps when a publish goes on or ends.
LEMMA ServersStay ==
  ASSUME RegInv, OneServer, Overlap, up' = up, disturbed \subseteq disturbed',
         \A w \in Workers : req'[w].pc \in PublishSteps =>
            req[w].pc \in PublishSteps /\ req'[w].at = req[w].at /\ req'[w].v = req[w].v
  PROVE  OneServer' /\ Overlap'
  <1>1. OneServer'
    BY LocalFacts DEF OneServer
  <1>2. Overlap'
    BY LocalFacts DEF Overlap
  <1> QED
    BY <1>1, <1>2

LEMMA StartOrder ==
  ASSUME RegInv, backend = "local", Order, NEW s \in Slots, NEW i \in Instances, NEW u \in Uploads,
         StartPublish(s, i, u[1], u[2])
  PROVE  Order'
  <1>1. /\ Others(s) /\ req[s].pc = "idle" /\ req'[s].pc \in {"compare", "create"}
        /\ req'[s].at = i /\ req'[s].v = u[1] /\ u[1] \in Versions /\ s \in Workers
    BY StartTypes DEF RegInv, Workers
  <1>2. up[i] = "up" /\ UNCHANGED <<up, index, doc, archive, acked>> /\ disturbed \subseteq disturbed'
    BY DEF StartPublish, memory, storage
  <1>3. \A w \in Workers : w # s /\ req[w].pc \in PublishSteps => u[1] \in disturbed' /\ req[w].v \in disturbed'
    BY LocalFacts DEF StartPublish, Publishing
  <1>4. OneServer'
    BY <1>1, <1>2 DEF Order, OneServer, Others, PublishSteps
  <1>5. Overlap'
    BY <1>1, <1>2, <1>3 DEF Order, Overlap, Others
  <1>6. Listed'
    BY <1>1, <1>2 DEF Order, Listed, Others, VersionsOf
  <1>7. Remembered'
    BY <1>2 DEF Order, Remembered, VersionsOf
  <1>8. Rendered'
    BY <1>1, <1>2 DEF Order, Rendered, Others, VersionsOf
  <1>9. AckedListed'
    BY <1>2 DEF Order, AckedListed, AckedVersions, VersionsOf
  <1> QED
    BY <1>4, <1>5, <1>6, <1>7, <1>8, <1>9 DEF Order

LEMMA FaultOrder ==
  ASSUME RegInv, backend = "local", Order, NEW w \in Workers, Fault(w), Ended(w),
         req[w].pc \in {"compare", "create", "write", "save"}
  PROVE  Order'
  <1>1. /\ Others(w) /\ req'[w].pc = "idle"
        /\ UNCHANGED <<up, index, doc, archive, acked>> /\ disturbed \subseteq disturbed'
        /\ req[w].pc = "save" => req[w].v \in disturbed'
    BY DEF Fault, Ended, storage
  <1>2. OneServer' /\ Overlap'
    BY <1>1, ServersStay DEF Order, Others, PublishSteps
  <1>3. Listed'
    BY <1>1 DEF Order, Listed, Others, VersionsOf
  <1>4. Remembered'
    BY <1>1 DEF Order, Remembered, VersionsOf
  <1>5. Rendered'
    BY <1>1 DEF Order, Rendered, Others, VersionsOf
  <1>6. AckedListed'
    BY <1>1 DEF Order, AckedListed, AckedVersions, VersionsOf
  <1> QED
    BY <1>2, <1>3, <1>4, <1>5, <1>6 DEF Order

LEMMA CrashOrder ==
  ASSUME RegInv, backend = "local", Order, NEW i \in Instances, Crash(i)
  PROVE  Order'
  <1>1. /\ Dropped(i) /\ Idle.pc = "idle" /\ UNCHANGED <<doc, archive, acked>>
        /\ disturbed \subseteq disturbed'
    BY CrashTypes DEF RegInv, Crash, storage
  <1>2. \A j \in Instances : /\ up'[j] = IF j = i THEN "down" ELSE up[j]
                             /\ index'[j] = IF j = i THEN {} ELSE index[j]
    BY LocalFacts DEF Crash
  <1>3. \A w \in Workers : req[w].pc \in PublishSteps /\ req[w].at = i => req[w].v \in disturbed'
    BY LocalFacts DEF Crash, Publishing
  <1>4. \A w \in Workers : req'[w].pc \in PublishSteps => req'[w] = req[w] /\ req[w].at # i
    BY <1>1 DEF Dropped, PublishSteps
  <1>5. OneServer'
    BY <1>2, <1>4, LocalFacts DEF Order, OneServer
  <1>6. Overlap'
    BY <1>1, <1>4 DEF Order, Overlap
  <1>7. Listed'
    BY <1>1, <1>3 DEF Order, Listed, Dropped, VersionsOf, PublishSteps
  <1>8. Remembered'
    BY <1>1, <1>2 DEF Order, Remembered, VersionsOf
  <1>9. Rendered'
    <2>1. \A w \in Workers : req'[w].pc \in {"snapshot", "save"} =>
             req'[w] = req[w] /\ index'[req[w].at] = index[req[w].at]
      BY <1>2, <1>4, LocalFacts DEF PublishSteps
    <2> QED
      BY <1>1, <2>1 DEF Order, Rendered, VersionsOf
  <1>10. AckedListed'
    BY <1>1 DEF Order, AckedListed, AckedVersions, VersionsOf
  <1> QED
    BY <1>5, <1>6, <1>7, <1>8, <1>9, <1>10 DEF Order

\* The server starts again with the stored index, all of whose archives exist.
LEMMA RestartOrder ==
  ASSUME RegInv, backend = "local", Order, NEW i \in Instances, RestartLocal(i)
  PROVE  Order'
  <1>1. /\ UNCHANGED <<doc, archive, acked, req, disturbed>>
        /\ \A j \in Instances : up[j] = "down"
        /\ \A j \in Instances : up'[j] = IF j = i THEN "up" ELSE "down"
        /\ index'[i] = {e \in doc : archive[e.version] # Absent}
    BY LocalFacts DEF RestartLocal, storage, history
  <1>2. \A e \in doc : archive[e.version] # Absent
    BY ContentsAssumption DEF RegInv, Apart, Bytes, GoodLists, Good, Settled, TypeInv, Types, Entry
  <1>3. \A w \in Workers : req[w].pc \notin PublishSteps
    BY <1>1, LocalFacts DEF Order, OneServer
  <1>4. OneServer' /\ Overlap'
    BY <1>1, <1>3 DEF OneServer, Overlap
  <1>5. Listed'
    BY <1>1 DEF Order, Listed, VersionsOf
  <1>6. Remembered'
    BY <1>1, <1>2 DEF Remembered, VersionsOf
  <1>7. Rendered'
    BY <1>1, <1>3 DEF Rendered, PublishSteps
  <1>8. AckedListed'
    BY <1>1 DEF Order, AckedListed, AckedVersions, VersionsOf
  <1> QED
    BY <1>4, <1>5, <1>6, <1>7, <1>8 DEF Order
\* A publish stores the index it rendered.  When no other publish is under
\* way, the versions in it are no longer disturbed: they are stored.
LEMMA SaveOrder ==
  ASSUME RegInv, backend = "local", Order, NEW s \in Slots, Save(s)
  PROVE  Order'
  <1>1. /\ s \in Workers /\ Others(s)
        /\ req[s].pc = "save" /\ req'[s].pc = "answer" /\ doc' = req[s].out
        /\ req'[s].at = req[s].at /\ req'[s].v = req[s].v
        /\ UNCHANGED <<up, index, archive, acked>>
    BY LocalFacts, PublishMoves DEF RegInv, Save, memory, Goes, Kept
  <1>2. req[s].at \in Instances /\ req[s].v \in Versions /\ up[req[s].at] = "up"
    BY <1>1, LocalFacts DEF Order, OneServer, PublishSteps
  <1>3. /\ disturbed \subseteq disturbed' \union VersionsOf(doc')
        /\ disturbed' \subseteq disturbed
        /\ \/ disturbed' = disturbed
           \/ \A w \in Workers : w # s => req[w].pc \notin PublishSteps
    <2>1. disturbed' = disturbed
                \ (IF Publishing(Instances) = {s} THEN VersionsOf(req[s].out) ELSE {})
      BY DEF Save
    <2>2. Publishing(Instances) = {s} =>
             \A w \in Workers : w # s => req[w].pc \notin PublishSteps
      BY LocalFacts DEF Publishing
    <2>3. VersionsOf(doc') = VersionsOf(req[s].out)
      BY <1>1 DEF VersionsOf
    <2> QED
      BY <2>1, <2>2, <2>3
  <1>4. /\ req[s].v \in VersionsOf(doc')
        /\ VersionsOf(doc') \subseteq VersionsOf(index[req[s].at])
        /\ VersionsOf(index[req[s].at]) \subseteq VersionsOf(doc') \union disturbed
    BY <1>1 DEF Order, Rendered, VersionsOf
  <1>5. VersionsOf(doc) \union disturbed \subseteq VersionsOf(doc') \union disturbed'
    <2>1. VersionsOf(doc) \subseteq VersionsOf(index[req[s].at]) \union disturbed
      BY <1>2 DEF Order, Remembered
    <2> QED
      BY <1>3, <1>4, <2>1
  <1>6. OneServer'
    BY <1>1 DEF Order, OneServer, Others, PublishSteps
  <1>7. Overlap'
    BY <1>1, <1>3 DEF Order, Overlap, Others, PublishSteps
  <1>8. Listed'
    <2> SUFFICES ASSUME NEW v \in Versions, archive[v] \in Contents,
                        v \notin VersionsOf(doc') \union disturbed'
                 PROVE  \E w \in Workers :
                           req'[w].pc \in {"push", "snapshot", "save"} /\ req'[w].v = v
      BY <1>1 DEF Listed, VersionsOf
    <2>1. v \notin VersionsOf(doc) \union disturbed /\ v # req[s].v
      BY <1>4, <1>5
    <2>2. PICK w \in Workers : req[w].pc \in {"push", "snapshot", "save"} /\ req[w].v = v
      BY <2>1 DEF Order, Listed
    <2> QED
      BY <1>1, <2>1, <2>2 DEF Others
  <1>9. Remembered'
    <2> SUFFICES ASSUME NEW i \in Instances, up[i] = "up"
                 PROVE  VersionsOf(doc') \subseteq VersionsOf(index[i]) \union disturbed'
      BY <1>1 DEF Remembered, VersionsOf
    <2>1. i = req[s].at
      BY <1>2 DEF Order, OneServer
    <2> QED
      BY <1>4, <2>1
  <1>10. Rendered'
    <2>1. CASE disturbed' = disturbed
      BY <1>1, <2>1 DEF Order, Rendered, Others, VersionsOf
    <2>2. CASE \A w \in Workers : w # s => req[w].pc \notin PublishSteps
      BY <1>1, <2>2 DEF Rendered, Others, PublishSteps
    <2> QED
      BY <1>3, <2>1, <2>2
  <1>11. AckedListed'
    <2>1. AckedVersions' = AckedVersions
      BY <1>1 DEF AckedVersions
    <2> QED
      BY <1>5, <2>1 DEF Order, AckedListed
  <1> QED
    BY <1>6, <1>7, <1>8, <1>9, <1>10, <1>11 DEF Order

LEMMA PublishOrder ==
  ASSUME RegInv, backend = "local", Order, NEW s \in Slots,
         \/ Compare(s) \/ Answer(s)
         \/ Create(s) \/ Write(s) \/ Push(s) \/ Snapshot(s)
  PROVE  Order'
  <1>1. s \in Workers /\ TypeInv
    BY LocalFacts DEF RegInv
  <1>2. req[s].pc \in PublishSteps => /\ req[s].at \in Instances /\ req[s].v \in Versions
                                      /\ up[req[s].at] = "up"
    BY <1>1, LocalFacts DEF Order, OneServer
  <1>3. OneServer' /\ Overlap' /\ Others(s)
    <2>1. /\ req[s].pc \in PublishSteps /\ Others(s)
          /\ \/ req'[s].pc = "idle"
             \/ req'[s].at = req[s].at /\ req'[s].v = req[s].v
      BY <1>1, PublishMoves DEF Went, Goes, Kept, Ended, PublishSteps
    <2>2. UNCHANGED <<up, disturbed>>
      BY DEF Compare, Answer, Create, Write, Push, Snapshot, memory, history
    <2> QED
      BY <2>1, <2>2, ServersStay DEF Order, Others, PublishSteps
  <1>4. CASE Compare(s)
    <2>1. /\ req[s].pc = "compare" /\ req'[s].pc \in {"answer", "idle"}
          /\ UNCHANGED <<up, index, doc, archive, acked, disturbed>>
      BY <1>1, <1>4, PublishMoves DEF Compare, memory, storage, history, Went, Goes, Ended
    <2>2. Listed'
      BY <1>3, <2>1 DEF Order, Listed, Others, VersionsOf
    <2>3. Remembered' /\ AckedListed'
      BY <2>1 DEF Order, Remembered, AckedListed, AckedVersions, VersionsOf
    <2>4. Rendered'
      BY <1>3, <2>1 DEF Order, Rendered, Others, VersionsOf
    <2> QED
      BY <1>3, <2>2, <2>3, <2>4 DEF Order
  <1>5. CASE Create(s)
    <2>1. /\ req[s].pc = "create" /\ req'[s].pc \in {"write", "compare"}
          /\ UNCHANGED <<up, index, doc, acked, disturbed>>
          /\ \A v \in Versions : archive'[v] \in Contents => archive[v] \in Contents
      BY <1>1, <1>2, <1>5, PublishMoves, LocalFacts, ContentsAssumption
      DEF Create, memory, history, Went, Goes, PublishSteps
    <2>2. Listed'
      BY <1>3, <2>1 DEF Order, Listed, Others, VersionsOf
    <2>3. Remembered' /\ AckedListed'
      BY <2>1 DEF Order, Remembered, AckedListed, AckedVersions, VersionsOf
    <2>4. Rendered'
      BY <1>3, <2>1 DEF Order, Rendered, Others, VersionsOf
    <2> QED
      BY <1>3, <2>2, <2>3, <2>4 DEF Order
  <1>6. CASE Write(s)
    <2>1. /\ req[s].pc = "write" /\ req'[s].pc = "push" /\ req'[s].v = req[s].v
          /\ UNCHANGED <<up, index, doc, acked, disturbed>>
          /\ \A v \in Versions : v # req[s].v => archive'[v] = archive[v]
      BY <1>1, <1>2, <1>6, PublishMoves, LocalFacts
      DEF Write, memory, history, Went, Goes, Kept, PublishSteps
    <2>2. Listed'
      BY <1>1, <1>3, <2>1 DEF Order, Listed, Others, VersionsOf
    <2>3. Remembered' /\ AckedListed'
      BY <2>1 DEF Order, Remembered, AckedListed, AckedVersions, VersionsOf
    <2>4. Rendered'
      BY <1>3, <2>1 DEF Order, Rendered, Others, VersionsOf
    <2> QED
      BY <1>3, <2>2, <2>3, <2>4 DEF Order
  <1>7. CASE Push(s)
    <2>1. /\ req[s].pc = "push" /\ req'[s].pc = "snapshot"
          /\ req'[s].v = req[s].v /\ req'[s].at = req[s].at
          /\ UNCHANGED <<up, doc, archive, acked, disturbed>>
          /\ \A i \in Instances : index'[i] = IF i = req[s].at THEN index[i] \union {NewEntry(s)}
                                              ELSE index[i]
      BY <1>1, <1>2, <1>7, PublishMoves, LocalFacts
      DEF Push, storage, history, Went, Goes, Kept, PublishSteps
    <2>2. Listed'
      BY <1>1, <1>3, <2>1 DEF Order, Listed, Others, VersionsOf
    <2>a. /\ \A i \in Instances : index[i] \subseteq index'[i]
          /\ req[s].at \in Instances /\ NewEntry(s) \in index'[req[s].at]
          /\ NewEntry(s).version = req[s].v
      BY <1>2, <2>1 DEF PublishSteps, NewEntry
    <2>3. Remembered'
      BY <2>1, <2>a DEF Order, Remembered, VersionsOf
    <2>4. AckedListed'
      BY <2>1 DEF Order, AckedListed, AckedVersions, VersionsOf
    <2>5. Rendered'
      <3> SUFFICES ASSUME NEW w \in Workers PROVE
              /\ req'[w].pc = "snapshot" => req'[w].v \in VersionsOf(index'[req'[w].at])
              /\ req'[w].pc = "save" =>
                    /\ req'[w].v \in VersionsOf(req'[w].out)
                    /\ VersionsOf(req'[w].out) \subseteq VersionsOf(index'[req'[w].at])
                    /\ VersionsOf(index'[req'[w].at])
                          \subseteq VersionsOf(req'[w].out) \union disturbed'
        BY DEF Rendered, VersionsOf
      <3>1. CASE w = s
        BY <2>1, <2>a, <3>1 DEF VersionsOf
      <3>2. CASE w # s /\ req[w].pc = "snapshot"
        <4>1. req'[w] = req[w] /\ req[w].at \in Instances
          BY <1>3, <3>2, LocalFacts DEF Others, PublishSteps
        <4>2. req[w].v \in VersionsOf(index[req[w].at])
          BY <3>2 DEF Order, Rendered
        <4> QED
          BY <2>a, <3>2, <4>1, <4>2 DEF VersionsOf
      <3>3. CASE w # s /\ req[w].pc = "save"
        <4>1. req'[w] = req[w] /\ req[w].at \in Instances /\ req[s].v \in disturbed
          BY <1>1, <1>3, <2>1, <3>3, LocalFacts DEF Others, Order, Overlap, PublishSteps
        <4>2. /\ index[req[w].at] \subseteq index'[req[w].at]
              /\ index'[req[w].at] \subseteq index[req[w].at] \union {NewEntry(s)}
              /\ NewEntry(s).version = req[s].v
          BY <2>1, <4>1 DEF NewEntry
        <4> QED
          BY <2>1, <3>3, <4>1, <4>2 DEF Order, Rendered, VersionsOf
      <3>4. CASE w # s /\ req[w].pc \notin {"snapshot", "save"}
        BY <1>3, <3>4 DEF Others
      <3> QED
        BY <3>1, <3>2, <3>3, <3>4
    <2> QED
      BY <1>3, <2>2, <2>3, <2>4, <2>5 DEF Order
  <1>8. CASE Snapshot(s)
    <2>1. /\ req[s].pc = "snapshot" /\ req'[s].pc = "save"
          /\ req'[s].v = req[s].v /\ req'[s].at = req[s].at /\ req'[s].out = index[req[s].at]
          /\ UNCHANGED <<up, index, doc, archive, acked, disturbed>>
      BY <1>1, <1>8, PublishMoves DEF Snapshot, memory, storage, history, Goes, Kept
    <2>2. Listed'
      BY <1>1, <1>3, <2>1 DEF Order, Listed, Others, VersionsOf
    <2>3. Remembered' /\ AckedListed'
      BY <2>1 DEF Order, Remembered, AckedListed, AckedVersions, VersionsOf
    <2>4. Rendered'
      BY <1>1, <1>3, <2>1 DEF Order, Rendered, Others, VersionsOf
    <2> QED
      BY <1>3, <2>2, <2>3, <2>4 DEF Order
  <1>9. CASE Answer(s)
    <2>1. /\ req[s].pc = "answer" /\ req'[s].pc = "idle" /\ acked' = acked \union {<<req[s].v, req[s].c>>}
          /\ UNCHANGED <<up, index, doc, archive, disturbed>>
      BY <1>1, <1>9, PublishMoves DEF Answer, memory, storage, Ended
    <2>2. Listed'
      BY <1>3, <2>1 DEF Order, Listed, Others, VersionsOf
    <2>3. Remembered'
      BY <2>1 DEF Order, Remembered, VersionsOf
    <2>4. Rendered'
      BY <1>3, <2>1 DEF Order, Rendered, Others, VersionsOf
    <2>5. archive[req[s].v] \in Contents /\ req[s].v \in Versions
      BY <1>1, <1>2, <2>1, LocalFacts DEF Done, PublishSteps
    <2>6. req[s].v \in VersionsOf(doc) \union disturbed
      BY <1>1, <2>1, <2>5 DEF Order, Listed, Overlap, PublishSteps
    <2>7. \A a \in acked : a[1] \in VersionsOf(doc) \union disturbed
      BY DEF Order, AckedListed, AckedVersions
    <2>8. AckedListed'
      <3>1. \A a \in acked' : a[1] \in VersionsOf(doc) \union disturbed
        BY <2>1, <2>6, <2>7
      <3> QED
        BY <2>1, <3>1 DEF AckedListed, AckedVersions, VersionsOf
    <2> QED
      BY <1>3, <2>2, <2>3, <2>4, <2>8 DEF Order
  <1> QED
    BY <1>4, <1>5, <1>6, <1>7, <1>8, <1>9

LEMMA OrderStep == LocalInv /\ [Next]_regVars => LocalInv'
  <1> SUFFICES ASSUME LocalInv, [Next]_regVars PROVE LocalInv'
    OBVIOUS
  <1>1. RegInv' /\ backend' = backend
    <2>1. Aside \/ Grows
      BY OtherSteps, PublishTypes DEF LocalInv, RegInv
    <2> QED
      BY <2>1, RegStep DEF LocalInv, Aside, Grows
  <1>2. ASSUME backend = "local" PROVE Order'
    <2>1. CASE UNCHANGED regVars
      BY <1>2, <2>1 DEF LocalInv, regVars, memory, storage, history, Order, OneServer, Overlap,
         Listed, Remembered, Rendered, AckedListed, AckedVersions, VersionsOf
    <2>2. ASSUME NEW i \in Instances, Expire(i) PROVE Order'
      BY <1>2, <2>2 DEF LocalInv, Expire, storage, history, Order, OneServer, Overlap,
         Listed, Remembered, Rendered, AckedListed, AckedVersions, VersionsOf
    <2> QED
      BY <1>2, <2>1, <2>2, LocalActions, StartOrder, FaultOrder, CrashOrder, RestartOrder,
         SaveOrder, PublishOrder DEF LocalInv
  <1> QED
    BY <1>1, <1>2 DEF LocalInv

LEMMA OrderInit == Init => LocalInv
  <1> SUFFICES ASSUME Init, backend = "local" PROVE Order
    BY RegInit DEF LocalInv
  <1>1. \A w \in Workers : req[w].pc = "idle"
    BY DEF Init, Idle, Task
  <1>2. PICK j \in Instances : up = [i \in Instances |-> IF i = j THEN "up" ELSE "down"]
    BY DEF Init
  <1>4. OneServer
    BY <1>1, <1>2 DEF OneServer, PublishSteps
  <1>5. Listed
    BY ContentsAssumption DEF Init, Listed
  <1> QED
    BY <1>1, <1>4, <1>5 DEF Init, Order, Overlap, Remembered, Rendered, AckedListed,
       AckedVersions, VersionsOf, PublishSteps

\* On local disk an acknowledged version is in the stored index, through
\* crashes and restarts, unless publishes overlapped or one broke off.
THEOREM AckedIsDurable == RegSpec => []Durable
  <1>1. LocalInv => Durable
    BY DEF LocalInv, Order, AckedListed, Durable
  <1> QED
    BY <1>1, OrderInit, OrderStep, PTL DEF RegSpec

=============================================================================
