------------------------------ MODULE Registry ------------------------------
(***************************************************************************)
(* The package registry service, src/src/registry.rs (Server, handle) and  *)
(* src/src/registry_storage.rs, for one package.  A connection has a       *)
(* thread; an action of a thread is one storage operation, or one critical *)
(* section on the index or on the cache.  On local disk one instance owns   *)
(* the store; on the bucket (b2) several share it.  Authorisation, routing *)
(* and validation come before a publish starts here, and an answer other    *)
(* than 200 is not told apart from another.  A checksum stands for the     *)
(* bytes it is of.                                                         *)
(***************************************************************************)
EXTENDS Naturals, FiniteSets

CONSTANTS
    Slots,          \* the connections that are served at a time
    Instances,      \* the processes that can share a bucket
    Versions,       \* the versions of the package
    Contents,       \* the archives they are published with
    Uploads,        \* the pairs of a version and an archive that are published
    Absent,         \* no such object
    Partial,        \* a local file that is created and not yet written
    Backends,       \* the kinds of store to explore
    MaxPublishes,   \* bound: publish requests, for each kind of store
    MaxFailures     \* bound: crashes and failing storage operations

ASSUME ContentsAssumption ==
    Absent \notin Contents /\ Partial \notin Contents /\ Absent # Partial
ASSUME UploadsAssumption == Uploads \subseteq Versions \X Contents
ASSUME SlotsAssumption == Slots \intersect Instances = {}
ASSUME BackendsAssumption == Backends \subseteq {"local", "b2"}
ASSUME BoundsAssumption == MaxPublishes \in [Backends -> Nat] /\ MaxFailures \in Nat

VARIABLES
    backend,    \* Server.backend
    up,         \* "up", "down", or "loading" its index from the bucket
    index,      \* Server.index: the entries of the package
    cached,     \* the entry of Server.index_cache is younger than its TTL
    archive,    \* the stored archives
    sidecar,    \* the stored checksums (b2)
    doc,        \* the stored index: index.json, or index/<name>.json (b2)
    req,        \* the work of each connection, and of each instance's load
    acked,      \* history: what was answered with 200
    contended,  \* history: versions that two publishers found absent
    disturbed,  \* history: versions whose publish overlapped or broke off,
                \* until a publish that ends alone stores them
    publishes,  \* how many publishes were started
    failures    \* how many crashes and failing operations there were

memory == <<up, index, cached>>
storage == <<archive, sidecar, doc>>
history == <<acked, contended, disturbed>>
bounds == <<publishes, failures>>
regVars == <<backend, memory, storage, req, history, bounds>>

Workers == Slots \union Instances
Entry == [version : Versions, sha : Contents]
VersionsOf(entries) == {e.version : e \in entries}
Stored == {v \in Versions : archive[v] # Absent}
AckedVersions == {a[1] : a \in acked}

Task(pc, at, v, c) ==
    [pc |-> pc, at |-> at, v |-> v, c |-> c, listed |-> {}, out |-> {}, knew |-> {}]
Idle == Task("idle", Absent, Absent, Absent)

PublishSteps == {"compare", "create", "write", "push", "snapshot", "save",
                 "head", "put", "readback", "sidecar", "index", "doc",
                 "invalidate", "answer"}
RefreshSteps == {"list", "meta", "repair", "heal", "install", "cache"}

RegTypeOK ==
    /\ backend \in Backends
    /\ up \in [Instances -> {"up", "down", "loading"}]
    /\ index \in [Instances -> SUBSET Entry]
    /\ cached \in [Instances -> BOOLEAN]
    /\ archive \in [Versions -> Contents \union {Absent, Partial}]
    /\ sidecar \in [Versions -> Contents \union {Absent}]
    /\ doc \in SUBSET Entry
    /\ req \in [Workers ->
          [pc : PublishSteps \union RefreshSteps \union {"idle"},
           at : Instances \union {Absent},
           v : Versions \union {Absent}, c : Contents \union {Absent},
           listed : SUBSET Versions, out : SUBSET Entry, knew : SUBSET Versions]]
    /\ acked \subseteq Versions \X Contents
    /\ contended \subseteq Versions /\ disturbed \subseteq Versions
    /\ publishes \in 0 .. MaxPublishes[backend] /\ failures \in 0 .. MaxFailures

\* An empty store; the local disk has one server.
Init ==
    /\ backend \in Backends
    /\ \/ backend = "b2" /\ up = [i \in Instances |-> "up"]
       \/ /\ backend = "local"
          /\ \E j \in Instances : up = [i \in Instances |-> IF i = j THEN "up" ELSE "down"]
    /\ index = [i \in Instances |-> {}]
    /\ cached = [i \in Instances |-> FALSE]
    /\ archive = [v \in Versions |-> Absent]
    /\ sidecar = [v \in Versions |-> Absent]
    /\ doc = {}
    /\ req = [w \in Workers |-> Idle]
    /\ acked = {} /\ contended = {} /\ disturbed = {}
    /\ publishes = 0 /\ failures = 0

-----------------------------------------------------------------------------
(* Steps shared by the requests. *)

Goto(w, p) == req' = [req EXCEPT ![w].pc = p]
GotoWith(w, p, out) == req' = [req EXCEPT ![w].pc = p, ![w].out = out]
Begin(w, p, i, v, c) == req' = [req EXCEPT ![w] = Task(p, i, v, c)]
End(w) == req' = [req EXCEPT ![w] = Idle]

\* The entry a publish adds.
NewEntry(s) == [version |-> req[s].v, sha |-> req[s].c]

Publishing(i) == {s \in Slots : req[s].pc \in PublishSteps /\ req[s].at \in i}
OneFailure == failures < MaxFailures /\ failures' = failures + 1

-----------------------------------------------------------------------------
(* POST /api/publish. *)

\* A valid and authorised publish of `c` as version `v` reaches instance `i`:
\* `already_published`, under the index lock.
StartPublish(s, i, v, c) ==
    /\ req[s].pc = "idle" /\ up[i] = "up"
    /\ publishes < MaxPublishes[backend] /\ publishes' = publishes + 1
    /\ LET first == IF v \in VersionsOf(index[i]) THEN "compare"
                    ELSE IF backend = "b2" THEN "head" ELSE "create"
       IN Begin(s, first, i, v, c)
    /\ disturbed' =
          IF backend = "b2" \/ Publishing(Instances) = {} THEN disturbed
          ELSE disturbed \union {v} \union {req[t].v : t \in Publishing(Instances)}
    /\ UNCHANGED <<backend, memory, storage, acked, contended, failures>>

\* Mutant: whatever is stored counts as the same bytes.
CompareNothing(s) ==
    /\ req[s].pc = "compare"
    /\ Goto(s, "answer")
    /\ UNCHANGED <<backend, memory, storage, history, bounds>>

\* The version exists: the same bytes are answered with 200, others with 409.
Compare(s) ==
    /\ req[s].pc = "compare"
    /\ IF archive[req[s].v] = req[s].c THEN Goto(s, "answer") ELSE End(s)
    /\ UNCHANGED <<backend, memory, storage, history, bounds>>

\* Mutant: an existing file is truncated.
CreateTruncates(s) ==
    /\ req[s].pc = "create"
    /\ archive' = [archive EXCEPT ![req[s].v] = Partial]
    /\ Goto(s, "write")
    /\ UNCHANGED <<backend, memory, sidecar, doc, history, bounds>>

\* `create_new`; a file that exists, before or since `is_file`, is compared.
Create(s) ==
    /\ req[s].pc = "create"
    /\ IF archive[req[s].v] = Absent
         THEN /\ archive' = [archive EXCEPT ![req[s].v] = Partial]
              /\ Goto(s, "write")
         ELSE Goto(s, "compare") /\ UNCHANGED archive
    /\ UNCHANGED <<backend, memory, sidecar, doc, history, bounds>>

Write(s) ==
    /\ req[s].pc = "write"
    /\ archive' = [archive EXCEPT ![req[s].v] = req[s].c]
    /\ Goto(s, "push")
    /\ UNCHANGED <<backend, memory, sidecar, doc, history, bounds>>

\* Mutant: the index is rendered before the entry joins it.
PushAfterSnapshot(s) ==
    /\ req[s].pc = "push"
    /\ index' = [index EXCEPT ![req[s].at] = @ \union {NewEntry(s)}]
    /\ GotoWith(s, "save", index[req[s].at])
    /\ UNCHANGED <<backend, up, cached, storage, history, bounds>>

Push(s) ==
    /\ req[s].pc = "push"
    /\ index' = [index EXCEPT ![req[s].at] = @ \union {NewEntry(s)}]
    /\ Goto(s, "snapshot")
    /\ UNCHANGED <<backend, up, cached, storage, history, bounds>>

\* `save` renders the index under the lock and writes it without.
Snapshot(s) ==
    /\ req[s].pc = "snapshot"
    /\ GotoWith(s, "save", index[req[s].at])
    /\ UNCHANGED <<backend, memory, storage, history, bounds>>

Save(s) ==
    /\ req[s].pc = "save"
    /\ doc' = req[s].out
    /\ GotoWith(s, "answer", {})
    /\ disturbed' =
          disturbed \ (IF Publishing(Instances) = {s} THEN VersionsOf(req[s].out) ELSE {})
    /\ UNCHANGED <<backend, memory, archive, sidecar, acked, contended, bounds>>

\* The bucket has no create-if-absent: HEAD, PUT, and GET to look again.
Head(s) ==
    /\ req[s].pc = "head"
    /\ IF archive[req[s].v] # Absent
         THEN Goto(s, "compare") /\ UNCHANGED contended
         ELSE /\ Goto(s, "put")
              /\ contended' =
                    IF \E t \in Slots : /\ req[t].pc = "put"
                                       /\ req[t].v = req[s].v /\ req[t].c # req[s].c
                    THEN contended \union {req[s].v} ELSE contended
    /\ UNCHANGED <<backend, memory, storage, acked, disturbed, bounds>>

\* A PUT whose answer is lost is sent again.
Put(s) ==
    /\ req[s].pc = "put"
    /\ archive' = [archive EXCEPT ![req[s].v] = req[s].c]
    /\ \/ Goto(s, "readback") /\ UNCHANGED failures
       \/ OneFailure /\ UNCHANGED req
    /\ UNCHANGED <<backend, memory, sidecar, doc, history, publishes>>

ReadBack(s) ==
    /\ req[s].pc = "readback"
    /\ IF archive[req[s].v] = req[s].c THEN Goto(s, "sidecar") ELSE End(s)
    /\ UNCHANGED <<backend, memory, storage, history, bounds>>

PutSidecar(s) ==
    /\ req[s].pc = "sidecar"
    /\ sidecar' = [sidecar EXCEPT ![req[s].v] = req[s].c]
    /\ Goto(s, "index")
    /\ UNCHANGED <<backend, memory, archive, doc, history, bounds>>

\* The entry joins the index, and the whole list is rendered, under the lock.
Index(s) ==
    /\ req[s].pc = "index"
    /\ LET i == req[s].at
           new == IF req[s].v \in VersionsOf(index[i]) THEN index[i]
                  ELSE index[i] \union {NewEntry(s)}
       IN /\ index' = [index EXCEPT ![i] = new]
          /\ GotoWith(s, "doc", new)
    /\ UNCHANGED <<backend, up, cached, storage, history, bounds>>

PutDoc(s) ==
    /\ req[s].pc = "doc"
    /\ doc' = req[s].out
    /\ GotoWith(s, "invalidate", {})
    /\ UNCHANGED <<backend, memory, archive, sidecar, history, bounds>>

\* The cached list is dropped, and the publish answered.
Invalidate(s) ==
    /\ req[s].pc = "invalidate"
    /\ cached' = [cached EXCEPT ![req[s].at] = FALSE]
    /\ acked' = acked \union {<<req[s].v, req[s].c>>}
    /\ End(s)
    /\ UNCHANGED <<backend, up, index, storage, contended, disturbed, bounds>>

Answer(s) ==
    /\ req[s].pc = "answer"
    /\ acked' = acked \union {<<req[s].v, req[s].c>>}
    /\ End(s)
    /\ UNCHANGED <<backend, memory, storage, contended, disturbed, bounds>>

-----------------------------------------------------------------------------
(* Reading the bucket: `refresh_package_if_stale` by a connection, and      *)
(* `load_b2_index` by an instance that starts.                              *)

StartRefresh(s, i) ==
    /\ backend = "b2" /\ up[i] = "up" /\ ~cached[i] /\ req[s].pc = "idle"
    /\ Begin(s, "list", i, Absent, Absent)
    /\ UNCHANGED <<backend, memory, storage, history, bounds>>

\* The archives are the source of truth; without any there is nothing to read.
List(w) ==
    /\ req[w].pc = "list"
    /\ req' = [req EXCEPT ![w].pc = IF Stored = {} THEN "install" ELSE "meta",
                          ![w].listed = Stored, ![w].knew = AckedVersions]
    /\ UNCHANGED <<backend, memory, storage, history, bounds>>

\* Mutant: any stored index is used.
MetaTrusted(w) ==
    /\ req[w].pc = "meta"
    /\ IF doc # {} THEN GotoWith(w, "install", doc) ELSE Goto(w, "repair")
    /\ UNCHANGED <<backend, memory, storage, history, bounds>>

\* The stored index is used when it covers exactly the archives listed.
Meta(w) ==
    /\ req[w].pc = "meta"
    /\ \/ /\ VersionsOf(doc) = req[w].listed
          /\ Cardinality(doc) = Cardinality(req[w].listed)
          /\ GotoWith(w, "install", doc)
       \/ /\ \/ VersionsOf(doc) # req[w].listed
             \/ Cardinality(doc) # Cardinality(req[w].listed)
          /\ Goto(w, "repair")
    /\ UNCHANGED <<backend, memory, storage, history, bounds>>

\* `repair_package_index`, one version: the checksum is the sidecar's, or
\* computed from the archive and stored.
Repair(w) ==
    /\ req[w].pc = "repair"
    /\ LET v == CHOOSE x \in req[w].listed \ VersionsOf(req[w].out) : TRUE
           sha == IF sidecar[v] = Absent THEN archive[v] ELSE sidecar[v]
           out == req[w].out \union {[version |-> v, sha |-> sha]}
           done == VersionsOf(out) = req[w].listed
       IN /\ sidecar' = [sidecar EXCEPT ![v] = sha]
          /\ GotoWith(w, IF ~done THEN "repair"
                         ELSE IF w \in Instances THEN "heal" ELSE "install", out)
    /\ UNCHANGED <<backend, memory, archive, doc, history, bounds>>

\* A load stores the repaired index.
Heal(i) ==
    /\ req[i].pc = "heal"
    /\ doc' = req[i].out
    /\ Goto(i, "install")
    /\ UNCHANGED <<backend, memory, archive, sidecar, history, bounds>>

Install(w) ==
    /\ req[w].pc = "install"
    /\ index' = [index EXCEPT ![req[w].at] = req[w].out]
    /\ IF w \in Instances
         THEN End(w) /\ up' = [up EXCEPT ![w] = "up"]
         ELSE /\ Begin(w, "cache", req[w].at, Absent, Absent)
              /\ UNCHANGED up
    /\ UNCHANGED <<backend, cached, storage, history, bounds>>

Cache(s) ==
    /\ req[s].pc = "cache"
    /\ cached' = [cached EXCEPT ![req[s].at] = TRUE]
    /\ End(s)
    /\ UNCHANGED <<backend, up, index, storage, history, bounds>>

\* INDEX_CACHE_TTL has passed.
Expire(i) ==
    /\ cached[i]
    /\ cached' = [cached EXCEPT ![i] = FALSE]
    /\ UNCHANGED <<backend, up, index, storage, req, history, bounds>>

-----------------------------------------------------------------------------
(* Failures. *)

\* A storage operation fails.  A publish is answered with 500, and a file it
\* was writing stays partial; a read of the stored index is made up for by a
\* repair; a refresh is given up and the memory served; a load ends the
\* process, unless it only wanted to store what it repaired.
Fault(w) ==
    /\ OneFailure
    /\ \/ /\ req[w].pc \in {"compare", "create", "write", "save",
                            "head", "put", "readback", "sidecar", "doc"}
          /\ disturbed' = disturbed \union
                (IF req[w].pc \in {"write", "save"} THEN {req[w].v} ELSE {})
          /\ End(w) /\ UNCHANGED up
       \/ req[w].pc = "meta" /\ Goto(w, "repair") /\ UNCHANGED <<up, disturbed>>
       \/ req[w].pc = "heal" /\ Goto(w, "install") /\ UNCHANGED <<up, disturbed>>
       \/ /\ req[w].pc \in {"list", "repair"}
          /\ up' = IF w \in Instances THEN [up EXCEPT ![w] = "down"] ELSE up
          /\ End(w) /\ UNCHANGED disturbed
    /\ UNCHANGED <<backend, index, cached, storage, acked, contended, publishes>>

\* The process dies: its memory and its connections are gone.
Crash(i) ==
    /\ up[i] # "down" /\ OneFailure
    /\ up' = [up EXCEPT ![i] = "down"]
    /\ index' = [index EXCEPT ![i] = {}]
    /\ cached' = [cached EXCEPT ![i] = FALSE]
    /\ req' = [w \in Workers |-> IF req[w].at = i THEN Idle ELSE req[w]]
    /\ disturbed' = IF backend = "b2" THEN disturbed
                    ELSE disturbed \union {req[s].v : s \in Publishing({i})}
    /\ UNCHANGED <<backend, storage, acked, contended, publishes>>

\* `load_with_storage`.  On local disk nobody else writes while it reads: the
\* entries of index.json whose archive exists.
RestartLocal(i) ==
    /\ backend = "local" /\ \A j \in Instances : up[j] = "down"
    /\ up' = [up EXCEPT ![i] = "up"]
    /\ index' = [index EXCEPT ![i] = {e \in doc : archive[e.version] # Absent}]
    /\ UNCHANGED <<backend, cached, storage, req, history, bounds>>

RestartB2(i) ==
    /\ backend = "b2" /\ up[i] = "down"
    /\ up' = [up EXCEPT ![i] = "loading"]
    /\ Begin(i, "list", i, Absent, Absent)
    /\ UNCHANGED <<backend, index, cached, storage, history, bounds>>

-----------------------------------------------------------------------------

Publish(s) ==
    \/ Compare(s) \/ Answer(s)
    \/ Create(s) \/ Write(s) \/ Push(s) \/ Snapshot(s) \/ Save(s)
    \/ Head(s) \/ Put(s) \/ ReadBack(s) \/ PutSidecar(s) \/ Index(s) \/ PutDoc(s)
    \/ Invalidate(s)

Read(w) == List(w) \/ Meta(w) \/ Repair(w) \/ Install(w)

Work(w) ==
    \/ Read(w)
    \/ w \in Slots /\ (Publish(w) \/ Cache(w))
    \/ w \in Instances /\ Heal(w)

Restart(i) == RestartLocal(i) \/ RestartB2(i)

Refresh(i) == \E s \in Slots : StartRefresh(s, i)

Next ==
    \/ \E s \in Slots, i \in Instances, u \in Uploads : StartPublish(s, i, u[1], u[2])
    \/ \E i \in Instances : Refresh(i) \/ Expire(i) \/ Crash(i) \/ Restart(i)
    \/ \E w \in Workers : Work(w) \/ Fault(w)

RegSpec == Init /\ [][Next]_regVars

-----------------------------------------------------------------------------
(* Properties. *)

\* What the index of an instance, the stored index or an index about to be
\* stored or installed says of a version is true of the archive: no phantom
\* versions, no checksum of other bytes ("never serve phantom metadata").
\* Two publishers of different bytes on the bucket are the exception.
Backed ==
    \A entries \in {doc} \union {index[i] : i \in Instances}
                   \union {req[w].out : w \in Workers} :
        \A e \in entries : e.version \in contended \/ archive[e.version] = e.sha

\* A refresh or a load that began to list the bucket after a version was
\* acknowledged installs a list with it, although each publisher stores an
\* index rendered from its own memory, over the one of another instance, and
\* whatever repairs and failures there are.  So a list that lacks the version
\* comes from a refresh that began before the answer, and is the last of it
\* when its TTL has passed and no such refresh is under way.
RefreshSeesAcked ==
    \A w \in Workers :
        req[w].pc = "install" => req[w].knew \subseteq VersionsOf(req[w].out)

\* "Publishes invalidate the entry immediately" (registry.rs:483), "so the
\* next read is fresh" (1497): with one instance, a list that is cached, which
\* reads are served from, has every acknowledged version.
NextReadFresh ==
    \A i \in Instances :
        Instances = {i} /\ cached[i] => AckedVersions \subseteq VersionsOf(index[i])

\* On local disk an acknowledged version is in the stored index, and survives
\* a restart, unless its publish overlapped another one, or an earlier publish
\* of it failed or died.  Such a version may be lost only until a publish that
\* no other one accompanies at its end stores an index with it: the memory
\* makes up for what reordered saves and broken publishes left out.
Durable ==
    backend = "local" => AckedVersions \subseteq VersionsOf(doc) \union disturbed

\* Refinement: a version gets its bytes once and keeps them, and only stored
\* bytes are acknowledged.
Disputed == "disputed"
StoredBytes == [v \in Versions |->
    IF v \in contended THEN Disputed
    ELSE IF archive[v] = Partial THEN Absent ELSE archive[v]]

Promise == INSTANCE VersionStore WITH
    stored <- StoredBytes, acknowledged <- acked, Nothing <- Absent

KeepsPromise == Promise!Spec

=============================================================================
