------------------------------ MODULE Resolver ------------------------------
(***************************************************************************)
(* Dependency resolution: resolve of src/src/package/resolver.rs with the   *)
(* metadata source of resolve_online (src/src/registry.rs).  An action is   *)
(* one turn of the worklist loop.  A package version's dependencies are a   *)
(* set: the order in which the metadata lists them is left open.  The stack *)
(* of the code is empty at every turn, so that it only ever finds a package *)
(* that depends on itself.                                                  *)
(***************************************************************************)
EXTENDS Versions, Sequences, FiniteSets

CONSTANTS
    Packages,   \* the names of packages
    Releases,   \* the versions that are published or may be
    Contents,   \* the archives, told apart by their checksums
    None,       \* nothing pinned
    MaxTurns    \* bound: turns of the loop (10 000 in the code)

ASSUME ReleasesAssumption == Releases \subseteq Version
ASSUME NoneAssumption == None \notin Version
ASSUME TurnsAssumption == MaxTurns \in Nat
ASSUME PackagesAssumption == IsFiniteSet(Packages)

VARIABLES
    catalog,    \* what the registry serves: package -> version -> metadata
    source,     \* `cache`: the metadata that was read, for each package read
    roots,      \* the requirements to resolve
    want,       \* `constraints`: for each package, who asks for what
    pinned,     \* the chosen version of each package
    queue,      \* the packages to look at
    queued,     \* the names the code believes to be in the queue
    turns,      \* `iters`
    tried,      \* history: the versions that were pinned at some time
    outcome     \* how it ended

pinning == <<want, pinned, queue, queued, tried>>
resolveVars == <<catalog, source, roots, pinning, turns, outcome>>

Requirement == [name : Packages, req : Constraint]
Release == [sha : Contents, deps : SUBSET Requirement]
IsMetadata(f) == DOMAIN f \subseteq Releases /\ f \in [DOMAIN f -> Release]
Outcomes == {"none", "running", "ok", "unknown", "conflict", "circular", "diverged"}

Root == <<>>
By(n, v) == <<n, v>>

\* The lists that name every element of S once.
Orders(S) == {s \in [1..Cardinality(S) -> S] : \A x \in S : \E i \in DOMAIN s : s[i] = x}

\* The metadata of a package, read at its first use.  A package that the
\* registry does not know has no versions.
Meta(n) == IF n \in DOMAIN source THEN source[n] ELSE catalog[n]

Read(n) == source' = [m \in DOMAIN source \union {n} |-> Meta(m)]

AllHold(v, entries) == \A e \in entries : Matches(v, e.req)

AnyHolds(v, entries) == entries = {} \/ \E e \in entries : Matches(v, e.req)

Candidates(n) == {v \in DOMAIN Meta(n) : AllHold(v, want[n])}

Lowest(vs) == {v \in vs : \A w \in vs : ~Below(w, v)}

Highest(vs) == {v \in vs : \A w \in vs : ~Below(v, w)}

Deps(n, v) == Meta(n)[v].deps

NoPins == [n \in Packages |-> None]

Idle ==
    /\ source = <<>> /\ pinned = NoPins
    /\ roots = {} /\ want = [n \in Packages |-> {}]
    /\ queue = <<>> /\ queued = {}
    /\ turns = 0 /\ tried = {} /\ outcome = "none"

EntryOf(r) == [req |-> r.req, by |-> Root]

\* The start of resolve_online: a list with every requirement of rs.
Begin(rs) ==
    /\ roots' = rs
    /\ source' = <<>> /\ pinned' = NoPins
    /\ want' = [n \in Packages |-> {EntryOf(r) : r \in {q \in rs : q.name = n}}]
    /\ \E list \in Orders(rs) : queue' = [i \in DOMAIN list |-> list[i].name]
    /\ queued' = {r.name : r \in rs}
    /\ turns' = 0 /\ tried' = {} /\ outcome' = "running"

Finish(result) ==
    /\ outcome' = result
    /\ UNCHANGED <<catalog, source, roots, pinning, turns>>

\* The roots' metadata is read before the loop starts.
Prefetch(n) ==
    /\ outcome = "running" /\ turns = 0
    /\ n \in {r.name : r \in roots}
    /\ n \notin DOMAIN source /\ catalog[n] # <<>>
    /\ Read(n)
    /\ UNCHANGED <<catalog, roots, pinning, turns, outcome>>

\* A root that is unknown, or a request that fails.
PrefetchFails ==
    /\ outcome = "running" /\ turns = 0
    /\ \E r \in roots : r.name \notin DOMAIN source
    /\ Finish("unknown")

\* The loop has a package to look at: the first of the queue.
Turn(n) ==
    /\ outcome = "running"
    /\ \A r \in roots : r.name \in DOMAIN source
    /\ turns < MaxTurns
    /\ queue # <<>> /\ n = Head(queue)

SettledLax(n) == pinned[n] # None /\ AnyHolds(pinned[n], want[n])

\* Pinned, and the pin still satisfies what was collected since.
Settled(n) == pinned[n] # None /\ AllHold(pinned[n], want[n])

Keep(n) ==
    /\ Turn(n) /\ Settled(n)
    /\ queue' = Tail(queue) /\ queued' = queued \ {n} /\ turns' = turns + 1
    /\ UNCHANGED <<catalog, source, roots, want, pinned, tried, outcome>>

\* The requirements that leave with the pin of n.
Retracted(n) ==
    [m \in Packages |-> {e \in want[m] : pinned[n] # None => e.by # By(n, pinned[n])}]

\* What the version v of n adds to the requirements that are left.
Collected(n, v) ==
    [m \in Packages |->
        Retracted(n)[m] \union {[req |-> d.req, by |-> By(n, v)] : d \in {q \in Deps(n, v) : q.name = m}}]

\* A dependency that is pinned already is not looked at again.
ToQueueUnpinned(n, v) == {m \in Packages \ (queued \ {n}) : Collected(n, v)[m] # {} /\ pinned[m] = None}

\* The packages of which the pin of v adds a requirement, and that are not
\* thought to be queued.
ToQueue(n, v) ==
    {m \in Packages \ (queued \ {n}) : Collected(n, v)[m] # Retracted(n)[m]}

\* The maximum satisfying version, and its dependencies into the queue.
Pin(n) ==
    /\ Turn(n) /\ ~Settled(n)
    /\ \E v \in Highest(Candidates(n)) :
          /\ \A d \in Deps(n, v) : d.name # n
          /\ pinned' = [pinned EXCEPT ![n] = v] /\ tried' = tried \union {<<n, v>>}
          /\ Read(n)
          /\ want' = Collected(n, v)
          /\ \E more \in Orders(ToQueue(n, v)) : queue' = Tail(queue) \o more
          /\ queued' = (queued \ {n}) \union ToQueue(n, v)
    /\ turns' = turns + 1
    /\ UNCHANGED <<catalog, roots, outcome>>

SelfDependent(n) ==
    /\ Turn(n) /\ ~Settled(n)
    /\ \E v \in Highest(Candidates(n)) : \E d \in Deps(n, v) : d.name = n
    /\ Finish("circular")

\* No version satisfies what is asked for.
Conflict(n) ==
    /\ Turn(n) /\ ~Settled(n)
    /\ Meta(n) # <<>> /\ Candidates(n) = {}
    /\ Finish("conflict")

\* The metadata cannot be read: unknown, or the request fails.
Unknown(n) ==
    /\ Turn(n) /\ ~Settled(n) /\ n \notin DOMAIN source
    /\ Finish("unknown")

\* The loop does not converge.
GiveUp ==
    /\ outcome = "running" /\ turns = MaxTurns /\ queue # <<>>
    /\ Finish("diverged")

Converge ==
    /\ outcome = "running" /\ queue = <<>>
    /\ Finish("ok")

Resolving ==
    \/ \E n \in Packages :
          Prefetch(n) \/ Keep(n) \/ Pin(n) \/ SelfDependent(n) \/ Conflict(n) \/ Unknown(n)
    \/ PrefetchFails \/ GiveUp \/ Converge

-----------------------------------------------------------------------------
(* A single resolution of any requirements, from any registry. *)

CONSTANTS
    Registries, \* the contents of the registry to explore
    RootSets    \* the requirements to explore

ASSUME RegistriesAssumption ==
    \A c \in Registries : DOMAIN c = Packages /\ \A n \in Packages : IsMetadata(c[n])
ASSUME RootSetsAssumption ==
    \A rs \in RootSets : rs \in SUBSET Requirement /\ IsFiniteSet(rs)

ResolveInit ==
    /\ catalog \in Registries /\ Idle

ResolveNext ==
    \/ outcome = "none" /\ UNCHANGED catalog /\ \E rs \in RootSets : Begin(rs)
    \/ Resolving

ResolveSpec == ResolveInit /\ [][ResolveNext]_resolveVars

-----------------------------------------------------------------------------

InQueue == {queue[i] : i \in DOMAIN queue}

\* The metadata, the requirements, the pins and the worklist fit together.
ResolveTypeOK ==
    /\ DOMAIN source \subseteq Packages /\ \A n \in DOMAIN source : IsMetadata(source[n])
    /\ pinned \in [Packages -> Releases \union {None}]
    /\ \A n \in Packages : pinned[n] # None => n \in DOMAIN source /\ pinned[n] \in DOMAIN source[n]
    /\ roots \subseteq Requirement
    /\ want \in [Packages -> SUBSET [req : Constraint, by : {Root} \union (Packages \X Releases)]]
    /\ queue \in Seq(Packages) /\ queued \subseteq InQueue
    /\ \A t \in tried : t[1] \in DOMAIN source /\ t[2] \in DOMAIN source[t[1]]
    /\ turns \in 0..MaxTurns /\ outcome \in Outcomes

Pinned == {n \in Packages : pinned[n] # None}

DepsOfPins == UNION {source[n][pinned[n]].deps : n \in Pinned}

\* What was resolved satisfies every requirement of the roots, and every
\* dependency of every version that was chosen, also after pins were taken
\* back: what version.rs says the operators mean holds of the result.
Sound ==
    outcome = "ok" =>
        \A r \in roots \union DepsOfPins :
            pinned[r.name] # None /\ Satisfies(pinned[r.name], r.req)

\* What was asked for at some time, by a root or by a version that was pinned.
Asked == roots \union UNION {source[t[1]][t[2]].deps : t \in tried}

\* No version is passed over for a lower one that satisfies everything that
\* was ever asked for (resolver.rs:3-5, "picks the maximum satisfying
\* version"): what counts is what the roots and the versions that were pinned
\* ask for, those taken back included, and only that.
PicksMaximum ==
    outcome = "ok" =>
        \A n \in Pinned : \A w \in DOMAIN source[n] :
            Below(pinned[n], w) => \E r \in Asked : r.name = n /\ ~Satisfies(w, r.req)

\* resolver.rs:3-7 says that the resolver "fails loudly on conflicts and
\* cycles": no package needs itself, through any number of others.
NoCycles ==
    LET Reach[k \in Nat, n \in Packages] ==
            LET direct == IF n \in Pinned THEN {d.name : d \in source[n][pinned[n]].deps} ELSE {}
            IN IF k = 0 THEN direct ELSE direct \union UNION {Reach[k - 1, m] : m \in direct}
    IN outcome = "ok" => \A n \in Packages : n \notin Reach[Cardinality(Packages), n]

=============================================================================
