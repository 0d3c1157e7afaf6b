---------------------------- MODULE ProjectProofs ----------------------------
(***************************************************************************)
(* Theorems about Versions, Resolver and Project, for every registry, every *)
(* set of packages and versions, all commands and checkouts, and every      *)
(* number of commands, moves, crashes and failing file operations.          *)
(*                                                                         *)
(* The first part is about a single resolution: ResolveInvariant is         *)
(* inductive, and each step has a lemma, since the commands of a project    *)
(* resolve by the same steps.  The second part is about the commands:       *)
(* ProjectInvariant joins it with what the files hold while a command works *)
(* on them.  The third part is about what a fetch completes: Complete is    *)
(* inductive next to ProjectInvariant.                                      *)
(***************************************************************************)
EXTENDS Project, FiniteSetTheorems, SequenceTheorems, TLAPS

\* version_cmp (version.rs:84-91) is a strict total order.
LEMMA BelowOrder ==
  ASSUME NEW a \in Version, NEW b \in Version, NEW c \in Version
  PROVE  /\ ~Below(a, a)
         /\ Below(a, b) /\ Below(b, c) => Below(a, c)
         /\ a # b => Below(a, b) \/ Below(b, a)
         /\ ~(Below(a, b) /\ Below(b, a))
  BY DEF Below, Version

\* The ranges that matches (version.rs:222-271) computes for a caret and a
\* tilde are the versions that the operators promise (version.rs:3-17): a
\* caret never crosses the leftmost part that is not zero.
THEOREM OperatorsMeanRanges ==
  ASSUME NEW p \in Predicate, NEW v \in Version
  PROVE  Holds(p, v) <=> Accepts(p, v)
  <1> DEFINE base == p.base
  <1>1. base \in Version /\ p.op \in Operator
    BY DEF Predicate
  <1>2. ~Below(v, base) <=> NotBefore(base, v)
    BY <1>1, BelowOrder DEF NotBefore
  <1>3. ~Below(base, v) <=> NotBefore(v, base)
    BY <1>1, BelowOrder DEF NotBefore
  <1>4. NotBefore(base, v) => (Below(v, CaretEnd(base)) <=> Compatible(base, v))
    BY <1>1 DEF NotBefore, Below, CaretEnd, Compatible, Version, Triple
  <1>5. NotBefore(base, v) => (Below(v, TildeEnd(base)) <=> Close(base, v))
    BY <1>1 DEF NotBefore, Below, TildeEnd, Close, Version, Triple
  <1> QED BY <1>1, <1>2, <1>3, <1>4, <1>5 DEF Holds, Accepts, Operator

\* Constraint::matches says of a version what the operators promise.
LEMMA MatchesMeansSatisfies ==
  ASSUME NEW c \in Constraint, NEW v \in Version
  PROVE  Matches(v, c) <=> Satisfies(v, c)
  BY OperatorsMeanRanges DEF Matches, Satisfies, Constraint

-----------------------------------------------------------------------------
(***************************************************************************)
(* The invariant of the worklist.  Every requirement of a root and every    *)
(* dependency of a pin is collected, and a package somebody wants is either *)
(* settled or in the queue: so the requirements all hold when the queue is  *)
(* empty.  What is collected was asked for at some time, and a version      *)
(* above a pin fails something that was.                                    *)
(***************************************************************************)

Entry == [req : Constraint, by : {Root} \union (Packages \X Releases)]

CatalogOK == DOMAIN catalog = Packages /\ \A n \in Packages : IsMetadata(catalog[n])

RootsWanted == \A r \in roots : EntryOf(r) \in want[r.name]

DepsWanted ==
    \A n \in Pinned : \A d \in source[n][pinned[n]].deps :
        [req |-> d.req, by |-> By(n, pinned[n])] \in want[d.name]

Pending == \A n \in Packages : want[n] # {} => n \in InQueue \/ Settled(n)

Maximal ==
    \A n \in Pinned : \A w \in DOMAIN source[n] :
        Below(pinned[n], w) => \E r \in Asked : r.name = n /\ ~Matches(w, r.req)

Accounted ==
    \A n \in Packages : \A e \in want[n] : [name |-> n, req |-> e.req] \in Asked

Drained == outcome = "ok" => queue = <<>>

ResolveInvariant ==
    /\ CatalogOK /\ ResolveTypeOK /\ Drained
    /\ RootsWanted /\ DepsWanted /\ Pending /\ Maximal /\ Accounted

\* The head of a queue and what is behind it are what is in it.
LEMMA QueueParts ==
  ASSUME NEW q \in Seq(Packages), q # <<>>
  PROVE  /\ Head(q) \in Packages /\ Tail(q) \in Seq(Packages)
         /\ \A i \in DOMAIN q : q[i] = Head(q) \/ \E j \in DOMAIN Tail(q) : Tail(q)[j] = q[i]
         /\ \A j \in DOMAIN Tail(q) : \E i \in DOMAIN q : Tail(q)[j] = q[i]
  <1>1. Head(q) \in Packages /\ Tail(q) \in Seq(Packages)
    OBVIOUS
  <1>2. Len(q) \in Nat /\ Len(q) > 0 /\ DOMAIN q = 1..Len(q) /\ Len(Tail(q)) = Len(q) - 1
        /\ DOMAIN Tail(q) = 1..(Len(q) - 1) /\ Head(q) = q[1]
        /\ \A j \in 1..(Len(q) - 1) : Tail(q)[j] = q[j + 1]
    OBVIOUS
  <1>3. ASSUME NEW i \in DOMAIN q, q[i] # Head(q)
        PROVE  \E j \in DOMAIN Tail(q) : Tail(q)[j] = q[i]
    <2>1. i # 1 /\ i \in 1..Len(q)
      BY <1>2, <1>3
    <2>2. (i - 1) \in 1..(Len(q) - 1) /\ Tail(q)[i - 1] = q[(i - 1) + 1] /\ (i - 1) + 1 = i
      BY <2>1, <1>2
    <2> QED BY <2>2, <1>2
  <1>4. ASSUME NEW j \in DOMAIN Tail(q)
        PROVE  \E i \in DOMAIN q : Tail(q)[j] = q[i]
    <2>1. (j + 1) \in 1..Len(q) /\ Tail(q)[j] = q[j + 1]
      BY <1>2
    <2> QED BY <2>1, <1>2
  <1> QED BY <1>1, <1>3, <1>4

\* The lists of a finite set name all of it.
LEMMA OrdersAreLists ==
  ASSUME NEW S, IsFiniteSet(S), NEW s \in Orders(S)
  PROVE  /\ s \in Seq(S)
         /\ \A x \in S : \E i \in DOMAIN s : s[i] = x
  <1>1. Cardinality(S) \in Nat
    BY FS_CardinalityType
  <1> QED BY <1>1, SeqDef DEF Orders

\* A concatenation has the elements of both parts.
LEMMA ConcatParts ==
  ASSUME NEW p \in Seq(Packages), NEW q \in Seq(Packages)
  PROVE  /\ p \o q \in Seq(Packages)
         /\ \A i \in DOMAIN p : \E k \in DOMAIN (p \o q) : (p \o q)[k] = p[i]
         /\ \A j \in DOMAIN q : \E k \in DOMAIN (p \o q) : (p \o q)[k] = q[j]
  <1>1. /\ p \o q \in Seq(Packages)
        /\ DOMAIN p = 1..Len(p) /\ DOMAIN q = 1..Len(q) /\ Len(p) \in Nat /\ Len(q) \in Nat
        /\ DOMAIN (p \o q) = 1..(Len(p) + Len(q))
        /\ \A i \in 1..(Len(p) + Len(q)) : (p \o q)[i] = IF i <= Len(p) THEN p[i] ELSE q[i - Len(p)]
    OBVIOUS
  <1>2. ASSUME NEW i \in DOMAIN p
        PROVE  \E k \in DOMAIN (p \o q) : (p \o q)[k] = p[i]
    <2>1. i \in 1..(Len(p) + Len(q)) /\ i <= Len(p)
      BY <1>1
    <2> QED BY <2>1, <1>1
  <1>3. ASSUME NEW j \in DOMAIN q
        PROVE  \E k \in DOMAIN (p \o q) : (p \o q)[k] = q[j]
    <2>1. (j + Len(p)) \in 1..(Len(p) + Len(q)) /\ ~(j + Len(p) <= Len(p)) /\ (j + Len(p)) - Len(p) = j
      BY <1>1
    <2> QED BY <2>1, <1>1
  <1> QED BY <1>1, <1>2, <1>3

-----------------------------------------------------------------------------

\* The metadata that is read stays as it is.
LEMMA ReadAdds ==
  ASSUME CatalogOK, ResolveTypeOK, NEW n \in Packages, Read(n)
  PROVE  /\ DOMAIN source' = DOMAIN source \union {n}
         /\ source'[n] = Meta(n) /\ IsMetadata(Meta(n))
         /\ \A m \in DOMAIN source : source'[m] = source[m]
         /\ DOMAIN source' \subseteq Packages
         /\ \A m \in DOMAIN source' : IsMetadata(source'[m])
  <1>1. DOMAIN source \subseteq Packages /\ \A m \in DOMAIN source : IsMetadata(source[m])
    BY DEF ResolveTypeOK
  <1>2. source' = [m \in DOMAIN source \union {n} |-> Meta(m)]
    BY DEF Read
  <1>3. \A m \in DOMAIN source \union {n} : m \in Packages /\ IsMetadata(Meta(m))
    BY <1>1 DEF CatalogOK, Meta
  <1>4. \A m \in DOMAIN source : Meta(m) = source[m]
    BY DEF Meta
  <1> QED BY <1>1, <1>2, <1>3, <1>4

\* Before anything is resolved.
LEMMA IdleHolds ==
  ASSUME CatalogOK, Idle
  PROVE  ResolveInvariant
  <1>1. DOMAIN source = {} /\ queue = <<>> /\ DOMAIN queue = {} /\ InQueue = {}
    BY DEF Idle, InQueue
  <1>2. Pinned = {} /\ DepsOfPins = {}
    BY DEF Idle, Pinned, DepsOfPins, NoPins
  <1>3. ResolveTypeOK
    <2>1. pinned \in [Packages -> Releases \union {None}] /\ \A n \in Packages : pinned[n] = None
      BY DEF Idle, NoPins
    <2>2. want \in [Packages -> SUBSET [req : Constraint, by : {Root} \union (Packages \X Releases)]]
      BY DEF Idle
    <2>3. queue \in Seq(Packages)
      BY <1>1
    <2>4. turns \in 0..MaxTurns
      BY TurnsAssumption DEF Idle
    <2>8. outcome \in Outcomes /\ \A t \in tried : t[1] \in DOMAIN source /\ t[2] \in DOMAIN source[t[1]]
      BY DEF Idle, Outcomes
    <2>5. roots \subseteq Requirement /\ queued \subseteq InQueue
      BY DEF Idle
    <2>6. \A n \in Packages : pinned[n] # None => n \in DOMAIN source /\ pinned[n] \in DOMAIN source[n]
      BY <2>1
    <2>7. DOMAIN source \subseteq Packages /\ \A n \in DOMAIN source : IsMetadata(source[n])
      BY <1>1
    <2> QED BY <2>1, <2>2, <2>3, <2>4, <2>5, <2>6, <2>7, <2>8 DEF ResolveTypeOK
  <1>4. RootsWanted /\ Pending /\ Accounted /\ Drained
    <2>1. roots = {} /\ (\A n \in Packages : want[n] = {}) /\ outcome # "ok"
      BY DEF Idle
    <2> QED BY <2>1 DEF RootsWanted, Pending, Accounted, Drained
  <1>5. DepsWanted /\ Maximal
    BY <1>2 DEF DepsWanted, Maximal
  <1> QED BY <1>3, <1>4, <1>5 DEF ResolveInvariant

\* Every requirement goes into the first queue (resolver.rs:42-58).
LEMMA BeginHolds ==
  ASSUME ResolveInvariant, CatalogOK', NEW rs, rs \subseteq Requirement, IsFiniteSet(rs), Begin(rs)
  PROVE  ResolveInvariant'
  <1>0. pinned' \in [Packages -> Releases \union {None}] /\ \A n \in Packages : pinned'[n] = None
    BY DEF Begin, NoPins
  <1>a. DOMAIN source' = {}
    BY DEF Begin
  <1>1. DOMAIN source' = {} /\ Pinned' = {} /\ DepsOfPins' = {}
    BY <1>0, <1>a DEF Pinned, DepsOfPins
  <1>2. \A r \in rs : EntryOf(r) \in Entry /\ r.name \in Packages /\ EntryOf(r).req = r.req
                      /\ r = [name |-> r.name, req |-> r.req]
    BY DEF EntryOf, Entry, Requirement
  <1>3. want' \in [Packages -> SUBSET Entry]
    BY <1>2 DEF Begin
  <1>4. PICK list \in Orders(rs) : queue' = [i \in DOMAIN list |-> list[i].name]
    BY DEF Begin
  <1>5. list \in Seq(rs) /\ \A r \in rs : \E i \in DOMAIN list : list[i] = r
    BY OrdersAreLists
  <1>6. queue' \in Seq(Packages) /\ DOMAIN queue' = DOMAIN list
    <2>1. Len(list) \in Nat /\ DOMAIN list = 1..Len(list) /\ \A i \in DOMAIN list : list[i] \in rs
      BY <1>5
    <2>2. queue' \in [1..Len(list) -> Packages]
      BY <1>2, <1>4, <2>1
    <2> QED BY <1>4, <2>1, <2>2, SeqDef
  <1>7. \A r \in rs : r.name \in InQueue'
    BY <1>4, <1>5, <1>6 DEF InQueue
  <1>8. queued' \subseteq InQueue'
    BY <1>7 DEF Begin
  <1>9. ResolveTypeOK'
    <2>1. turns' \in 0..MaxTurns /\ roots' \subseteq Requirement
      BY TurnsAssumption DEF Begin
    <2>3. outcome' \in Outcomes /\ tried' = {}
      BY DEF Begin, Outcomes
    <2>2. DOMAIN source' \subseteq Packages /\ \A n \in DOMAIN source' : IsMetadata(source'[n])
      BY <1>1
    <2> QED BY <1>0, <1>3, <1>6, <1>8, <2>1, <2>2, <2>3 DEF ResolveTypeOK, Entry
  <1>10. RootsWanted'
    BY <1>2 DEF RootsWanted, Begin
  <1>11. Pending' /\ Accounted'
    <2>1. ASSUME NEW n \in Packages, NEW e \in want'[n]
          PROVE  \E r \in rs : r.name = n /\ e = EntryOf(r)
      BY DEF Begin
    <2>2. rs \subseteq Asked'
      BY DEF Asked, Begin
    <2>3. Accounted'
      BY <2>1, <2>2, <1>2 DEF Accounted
    <2> QED BY <2>1, <2>3, <1>7 DEF Pending
  <1>12. Drained'
    BY DEF Begin, Drained
  <1> QED BY <1>1, <1>9, <1>10, <1>11, <1>12 DEF ResolveInvariant, DepsWanted, Maximal

\* A resolution that ends changes nothing else.
LEMMA FinishHolds ==
  ASSUME ResolveInvariant, NEW how \in Outcomes, Finish(how), how = "ok" => queue = <<>>
  PROVE  ResolveInvariant'
  <1>1. outcome' = how /\ UNCHANGED <<catalog, source, roots, want, pinned, queue, queued, tried, turns>>
    BY DEF Finish, pinning
  <1>2. UNCHANGED <<InQueue, Pinned, Asked>>
    BY <1>1 DEF InQueue, Pinned, Asked
  <1>3. CatalogOK' /\ ResolveTypeOK' /\ Drained'
    BY <1>1, <1>2 DEF ResolveInvariant, CatalogOK, ResolveTypeOK, Drained
  <1>4. RootsWanted' /\ DepsWanted'
    BY <1>1, <1>2 DEF ResolveInvariant, RootsWanted, DepsWanted
  <1>5. Pending'
    BY <1>1, <1>2 DEF ResolveInvariant, Pending, Settled, AllHold
  <1>6. Maximal' /\ Accounted'
    BY <1>1, <1>2 DEF ResolveInvariant, Maximal, Accounted
  <1> QED BY <1>3, <1>4, <1>5, <1>6 DEF ResolveInvariant

\* Reading the roots' metadata.
LEMMA PrefetchHolds ==
  ASSUME ResolveInvariant, NEW n \in Packages, Prefetch(n)
  PROVE  ResolveInvariant'
  <1>1. Read(n) /\ UNCHANGED <<catalog, roots, want, pinned, queue, queued, tried, turns, outcome>>
    BY DEF Prefetch, pinning
  <1>2. /\ DOMAIN source' = DOMAIN source \union {n} /\ DOMAIN source' \subseteq Packages
        /\ \A m \in DOMAIN source : source'[m] = source[m]
        /\ \A m \in DOMAIN source' : IsMetadata(source'[m])
    BY <1>1, ReadAdds DEF ResolveInvariant
  <1>3. \A m \in Pinned : m \in DOMAIN source /\ source'[m] = source[m]
    BY <1>2 DEF ResolveInvariant, ResolveTypeOK, Pinned
  <1>4. Pinned' = Pinned /\ Asked' = Asked
    <2>1. \A t \in tried : source'[t[1]] = source[t[1]]
      BY <1>2 DEF ResolveInvariant, ResolveTypeOK
    <2> QED BY <1>1, <2>1 DEF Pinned, Asked
  <1>5. CatalogOK' /\ ResolveTypeOK'
    BY <1>1, <1>2, <1>3 DEF ResolveInvariant, CatalogOK, ResolveTypeOK, InQueue, Pinned
  <1>6. RootsWanted' /\ Pending' /\ Drained'
    BY <1>1 DEF ResolveInvariant, RootsWanted, Pending, InQueue, Settled, AllHold, Drained
  <1>7. DepsWanted' /\ Maximal' /\ Accounted'
    BY <1>1, <1>3, <1>4 DEF ResolveInvariant, DepsWanted, Maximal, Accounted
  <1> QED BY <1>5, <1>6, <1>7 DEF ResolveInvariant

\* A turn takes n, and nothing else, from the queue.
LEMMA TurnTakes ==
  ASSUME ResolveTypeOK, NEW n \in Packages, Turn(n)
  PROVE  /\ Tail(queue) \in Seq(Packages)
         /\ \A m \in InQueue : m # n => \E j \in DOMAIN Tail(queue) : Tail(queue)[j] = m
         /\ turns + 1 \in 0..MaxTurns
  <1>1. queue \in Seq(Packages) /\ queue # <<>> /\ n = Head(queue) /\ turns \in 0..MaxTurns /\ turns < MaxTurns
    BY DEF ResolveTypeOK, Turn
  <1> QED BY <1>1, QueueParts, TurnsAssumption DEF InQueue

\* A package that is settled leaves the queue (resolver.rs:75-90).
LEMMA KeepHolds ==
  ASSUME ResolveInvariant, NEW n \in Packages, Keep(n)
  PROVE  ResolveInvariant'
  <1>1. Turn(n) /\ Settled(n) /\ queue' = Tail(queue) /\ queued' = queued \ {n} /\ turns' = turns + 1
        /\ UNCHANGED <<catalog, source, roots, want, pinned, tried, outcome>>
    BY DEF Keep
  <1>2. queue' \in Seq(Packages) /\ turns' \in 0..MaxTurns /\ \A m \in InQueue : m # n => m \in InQueue'
    BY <1>1, TurnTakes DEF ResolveInvariant, InQueue
  <1>3. ResolveTypeOK' /\ CatalogOK'
    BY <1>1, <1>2 DEF ResolveInvariant, ResolveTypeOK, CatalogOK
  <1>4. Pending'
    BY <1>1, <1>2 DEF ResolveInvariant, Pending, Settled, AllHold
  <1>5. RootsWanted' /\ DepsWanted' /\ Maximal' /\ Accounted' /\ Drained'
    <2>1. UNCHANGED <<Pinned, Asked>> /\ outcome # "ok"
      BY <1>1 DEF Pinned, Asked, Turn
    <2> QED BY <1>1, <2>1 DEF ResolveInvariant, RootsWanted, DepsWanted, Maximal, Accounted, Drained
  <1> QED BY <1>3, <1>4, <1>5 DEF ResolveInvariant

\* A pin is only replaced when its version does not satisfy what is asked for
\* now; whatever else the old pin asked for leaves with it, and what a package
\* loses that way cannot unsettle it.
LEMMA PinHolds ==
  ASSUME ResolveInvariant, NEW n \in Packages, Pin(n)
  PROVE  ResolveInvariant'
  <1>1. PICK v \in Highest(Candidates(n)) :
          /\ \A d \in Deps(n, v) : d.name # n
          /\ pinned' = [pinned EXCEPT ![n] = v] /\ tried' = tried \union {<<n, v>>}
          /\ Read(n)
          /\ want' = Collected(n, v)
          /\ \E more \in Orders(ToQueue(n, v)) : queue' = Tail(queue) \o more
          /\ queued' = (queued \ {n}) \union ToQueue(n, v)
    BY DEF Pin
  <1>2. /\ Turn(n) /\ ~Settled(n) /\ turns' = turns + 1
        /\ UNCHANGED <<catalog, roots, outcome>> /\ outcome = "running"
    BY DEF Pin, Turn
  <1>3. PICK more \in Orders(ToQueue(n, v)) : queue' = Tail(queue) \o more
    BY <1>1
  \* The metadata.
  <1>4. /\ DOMAIN source' = DOMAIN source \union {n} /\ DOMAIN source' \subseteq Packages
        /\ source'[n] = Meta(n) /\ IsMetadata(Meta(n))
        /\ \A m \in DOMAIN source : source'[m] = source[m]
        /\ \A m \in DOMAIN source' : IsMetadata(source'[m])
    BY <1>1, ReadAdds DEF ResolveInvariant
  <1>5. /\ v \in DOMAIN Meta(n) /\ v \in Releases /\ v # None /\ v \in Version
        /\ Meta(n)[v] \in Release /\ Deps(n, v) \subseteq Requirement
        /\ AllHold(v, want[n])
        /\ \A w \in DOMAIN Meta(n) : AllHold(w, want[n]) => ~Below(v, w)
    BY <1>4, ReleasesAssumption, NoneAssumption DEF Highest, Candidates, IsMetadata, Release, Deps
  \* The pins.
  <1>6. /\ pinned \in [Packages -> Releases \union {None}]
        /\ pinned' \in [Packages -> Releases \union {None}]
        /\ pinned'[n] = v /\ \A m \in Packages : m # n => pinned'[m] = pinned[m]
    BY <1>1, <1>5 DEF ResolveInvariant, ResolveTypeOK
  <1>7. /\ Pinned \subseteq DOMAIN source /\ Pinned \subseteq Packages
        /\ Pinned' = Pinned \union {n}
        /\ \A m \in Pinned : m # n => source'[m] = source[m]
        /\ \A m \in Pinned : m # n => pinned'[m] = pinned[m]
    BY <1>4, <1>5, <1>6 DEF ResolveInvariant, ResolveTypeOK, Pinned
  \* What is collected.
  <1>8. want \in [Packages -> SUBSET Entry]
    BY DEF ResolveInvariant, ResolveTypeOK, Entry
  <1>9. ASSUME NEW m \in Packages
        PROVE  Retracted(n)[m] = {e \in want[m] : pinned[n] # None => e.by # By(n, pinned[n])}
    BY DEF Retracted
  <1>10. ASSUME NEW m \in Packages
         PROVE  want'[m] = Retracted(n)[m] \union
                  {[req |-> d.req, by |-> By(n, v)] : d \in {q \in Deps(n, v) : q.name = m}}
    BY <1>1 DEF Collected
  <1>11. \A d \in Deps(n, v) : d.name \in Packages /\ d.req \in Constraint
                               /\ d = [name |-> d.name, req |-> d.req]
    BY <1>5 DEF Requirement
  <1>12. ASSUME NEW m \in Packages, NEW e \in want'[m]
         PROVE  \/ e \in want[m]
                \/ \E d \in Deps(n, v) : d.name = m /\ e = [req |-> d.req, by |-> By(n, v)]
    BY <1>9, <1>10
  <1>13. want' \in [Packages -> SUBSET Entry]
    <2>1. \A d \in Deps(n, v) : [req |-> d.req, by |-> By(n, v)] \in Entry
      BY <1>5, <1>11 DEF Entry, By
    <2>2. \A m \in Packages : want'[m] \subseteq Entry
      BY <1>8, <1>12, <2>1
    <2>3. want' = [m \in Packages |-> want'[m]]
      BY <1>1 DEF Collected
    <2> QED BY <2>2, <2>3
  <1>14. ASSUME NEW m \in Packages, NEW e \in want[m],
                pinned[n] = None \/ e.by # By(n, pinned[n])
         PROVE  e \in want'[m]
    BY <1>9, <1>10, <1>14
  <1>15. \A d \in Deps(n, v) : [req |-> d.req, by |-> By(n, v)] \in want'[d.name]
    BY <1>10, <1>11
  <1>16. want'[n] \subseteq want[n]
    BY <1>1, <1>12
  \* The worklist.
  <1>17. more \in Seq(Packages) /\ \A m \in ToQueue(n, v) : \E i \in DOMAIN more : more[i] = m
    <2>1. ToQueue(n, v) \subseteq Packages /\ IsFiniteSet(ToQueue(n, v))
      BY PackagesAssumption, FS_Subset DEF ToQueue
    <2> QED BY <2>1, OrdersAreLists
  <1>18. /\ queue' \in Seq(Packages) /\ turns' \in 0..MaxTurns
         /\ \A m \in ToQueue(n, v) : m \in InQueue'
         /\ \A m \in InQueue : m # n => m \in InQueue'
    <2>1. /\ Tail(queue) \in Seq(Packages) /\ turns + 1 \in 0..MaxTurns
          /\ \A m \in InQueue : m # n => \E j \in DOMAIN Tail(queue) : Tail(queue)[j] = m
      BY <1>2, TurnTakes DEF ResolveInvariant
    <2>2. queue' = Tail(queue) \o more
      BY <1>3
    <2>3. /\ queue' \in Seq(Packages)
          /\ \A j \in DOMAIN Tail(queue) : \E k \in DOMAIN queue' : queue'[k] = Tail(queue)[j]
          /\ \A i \in DOMAIN more : \E k \in DOMAIN queue' : queue'[k] = more[i]
      <3> DEFINE rest == Tail(queue)
      <3> HIDE DEF rest
      <3>1. rest \in Seq(Packages) /\ more \in Seq(Packages)
        BY <1>17, <2>1 DEF rest
      <3>2. /\ rest \o more \in Seq(Packages)
            /\ \A j \in DOMAIN rest : \E k \in DOMAIN (rest \o more) : (rest \o more)[k] = rest[j]
            /\ \A i \in DOMAIN more : \E k \in DOMAIN (rest \o more) : (rest \o more)[k] = more[i]
        BY <3>1, ConcatParts
      <3>3. queue' = rest \o more
        BY <2>2 DEF rest
      <3>4. /\ queue' \in Seq(Packages)
            /\ \A j \in DOMAIN rest : \E k \in DOMAIN queue' : queue'[k] = rest[j]
            /\ \A i \in DOMAIN more : \E k \in DOMAIN queue' : queue'[k] = more[i]
        BY <3>2, <3>3, Zenon
      <3> QED BY <3>4 DEF rest
    <2>4. \A m \in InQueue : m # n => m \in InQueue'
      <3> SUFFICES ASSUME NEW m \in InQueue, m # n
                   PROVE  m \in InQueue'
        OBVIOUS
      <3>1. PICK j \in DOMAIN Tail(queue) : Tail(queue)[j] = m
        BY <2>1
      <3>2. PICK k \in DOMAIN queue' : queue'[k] = Tail(queue)[j]
        BY <2>3
      <3> QED BY <3>1, <3>2 DEF InQueue
    <2>5. \A m \in ToQueue(n, v) : m \in InQueue'
      BY <1>17, <2>3 DEF InQueue
    <2> QED BY <1>2, <2>1, <2>3, <2>4, <2>5
  <1>19. queued' \subseteq InQueue'
    BY <1>1, <1>18 DEF ResolveInvariant, ResolveTypeOK
  <1>20. CatalogOK' /\ Drained'
    BY <1>2 DEF ResolveInvariant, CatalogOK, Drained
  <1>21. ResolveTypeOK'
    <2>1. \A t \in tried' : t[1] \in DOMAIN source' /\ t[2] \in DOMAIN source'[t[1]]
      BY <1>1, <1>4, <1>5 DEF ResolveInvariant, ResolveTypeOK
    <2>2. \A m \in Packages : pinned'[m] # None => m \in DOMAIN source' /\ pinned'[m] \in DOMAIN source'[m]
      BY <1>4, <1>5, <1>6 DEF ResolveInvariant, ResolveTypeOK
    <2>3. roots' \subseteq Requirement /\ outcome' \in Outcomes
      BY <1>2 DEF ResolveInvariant, ResolveTypeOK
    <2> QED BY <1>4, <1>6, <1>13, <1>18, <1>19, <2>1, <2>2, <2>3 DEF ResolveTypeOK, Entry
  <1>22. RootsWanted'
    <2>1. \A r \in roots : EntryOf(r).by # By(n, pinned[n]) /\ EntryOf(r) \in want[r.name] /\ r.name \in Packages
      BY DEF EntryOf, By, Root, ResolveInvariant, RootsWanted, ResolveTypeOK, Requirement
    <2> QED BY <1>2, <1>14, <2>1 DEF RootsWanted
  <1>23. DepsWanted'
    <2> SUFFICES ASSUME NEW m \in Pinned', NEW d \in source'[m][pinned'[m]].deps
                 PROVE  [req |-> d.req, by |-> By(m, pinned'[m])] \in want'[d.name]
      BY DEF DepsWanted
    <2>1. CASE m = n
      BY <1>4, <1>6, <1>15, <2>1 DEF Deps
    <2>2. CASE m # n
      <3>1. m \in Pinned /\ d \in source[m][pinned[m]].deps /\ pinned'[m] = pinned[m]
        BY <1>7, <2>2
      <3>2. [req |-> d.req, by |-> By(m, pinned[m])] \in want[d.name]
        BY <3>1 DEF ResolveInvariant, DepsWanted
      <3>3. d.name \in Packages
        <4>1. m \in DOMAIN source /\ pinned[m] \in DOMAIN source[m] /\ IsMetadata(source[m])
          BY <3>1 DEF ResolveInvariant, ResolveTypeOK, Pinned
        <4>2. source[m][pinned[m]] \in Release
          BY <4>1 DEF IsMetadata
        <4> QED BY <3>1, <4>2 DEF Release, Requirement
      <3>4. By(m, pinned[m]) # By(n, pinned[n])
        BY <2>2 DEF By
      <3> QED BY <1>14, <3>1, <3>2, <3>3, <3>4
    <2> QED BY <2>1, <2>2
  <1>24. Pending'
    <2> SUFFICES ASSUME NEW m \in Packages, want'[m] # {}
                 PROVE  m \in InQueue' \/ Settled(m)'
      BY DEF Pending
    <2>1. CASE m = n
      BY <1>5, <1>6, <1>16, <2>1 DEF Settled, AllHold
    <2>2. CASE m # n /\ Collected(n, v)[m] # Retracted(n)[m]
      BY <1>18, <2>2 DEF ToQueue, ResolveInvariant, ResolveTypeOK
    <2>3. CASE m # n /\ Collected(n, v)[m] = Retracted(n)[m]
      <3>1. want'[m] \subseteq want[m]
        BY <1>1, <1>9, <2>3
      <3>2. m \in InQueue \/ Settled(m)
        BY <3>1 DEF ResolveInvariant, Pending
      <3> QED BY <1>6, <1>18, <2>3, <3>1, <3>2 DEF Settled, AllHold
    <2> QED BY <2>1, <2>2, <2>3
  \* What was asked for, and the versions above the pins.
  <1>25. Asked \subseteq Asked' /\ Deps(n, v) \subseteq Asked'
    <2>1. \A t \in tried : t \in tried' /\ source'[t[1]] = source[t[1]]
      BY <1>1, <1>4 DEF ResolveInvariant, ResolveTypeOK
    <2>2. Asked \subseteq Asked'
      BY <1>2, <2>1 DEF Asked
    <2>3. <<n, v>> \in tried' /\ source'[n][v].deps = Deps(n, v)
      BY <1>1, <1>4 DEF Deps
    <2> QED BY <2>2, <2>3 DEF Asked
  <1>26. Maximal'
    <2> SUFFICES ASSUME NEW m \in Pinned', NEW w \in DOMAIN source'[m], Below(pinned'[m], w)
                 PROVE  \E r \in Asked' : r.name = m /\ ~Matches(w, r.req)
      BY DEF Maximal
    <2>1. CASE m = n
      <3>1. PICK e \in want[n] : ~Matches(w, e.req)
        BY <1>4, <1>5, <1>6, <2>1 DEF AllHold
      <3>2. [name |-> n, req |-> e.req] \in Asked
        BY <3>1 DEF ResolveInvariant, Accounted
      <3> QED BY <1>25, <2>1, <3>1, <3>2
    <2>2. CASE m # n
      BY <1>7, <1>25, <2>2 DEF ResolveInvariant, Maximal
    <2> QED BY <2>1, <2>2
  <1>27. Accounted'
    <2> SUFFICES ASSUME NEW m \in Packages, NEW e \in want'[m]
                 PROVE  [name |-> m, req |-> e.req] \in Asked'
      BY DEF Accounted
    <2>1. CASE e \in want[m]
      BY <1>25, <2>1 DEF ResolveInvariant, Accounted
    <2>2. CASE \E d \in Deps(n, v) : d.name = m /\ e = [req |-> d.req, by |-> By(n, v)]
      BY <1>11, <1>25, <2>2
    <2> QED BY <1>12, <2>1, <2>2
  <1> QED BY <1>20, <1>21, <1>22, <1>23, <1>24, <1>26, <1>27 DEF ResolveInvariant

\* Every step of a resolution keeps the invariant.
LEMMA ResolvingHolds ==
  ASSUME ResolveInvariant, Resolving
  PROVE  ResolveInvariant'
  <1>1. ASSUME NEW n \in Packages, SelfDependent(n) \/ Conflict(n) \/ Unknown(n)
        PROVE  ResolveInvariant'
    <2>1. \E how \in Outcomes \ {"ok"} : Finish(how)
      BY <1>1 DEF SelfDependent, Conflict, Unknown, Outcomes
    <2> QED BY <2>1, FinishHolds
  <1>2. ASSUME PrefetchFails \/ GiveUp
        PROVE  ResolveInvariant'
    <2>1. \E how \in Outcomes \ {"ok"} : Finish(how)
      BY <1>2 DEF PrefetchFails, GiveUp, Outcomes
    <2> QED BY <2>1, FinishHolds
  <1>3. CASE Converge
    <2>1. Finish("ok") /\ queue = <<>> /\ "ok" \in Outcomes
      BY <1>3 DEF Converge, Outcomes
    <2> QED BY <2>1, FinishHolds
  <1> QED BY <1>1, <1>2, <1>3, PrefetchHolds, KeepHolds, PinHolds DEF Resolving

\* The invariant does not speak of what the registry serves, once it is read.
LEMMA CatalogMayChange ==
  ASSUME ResolveInvariant, CatalogOK', UNCHANGED <<source, roots, pinning, turns, outcome>>
  PROVE  ResolveInvariant'
  <1>1. UNCHANGED <<source, roots, want, pinned, queue, queued, tried, turns, outcome>>
    BY DEF pinning
  <1>2. UNCHANGED <<InQueue, Pinned, Asked>>
    BY <1>1 DEF InQueue, Pinned, Asked
  <1>3. ResolveTypeOK' /\ Drained'
    BY <1>1, <1>2 DEF ResolveInvariant, ResolveTypeOK, Drained
  <1>4. RootsWanted' /\ DepsWanted' /\ Accounted'
    BY <1>1, <1>2 DEF ResolveInvariant, RootsWanted, DepsWanted, Accounted
  <1>5. Pending' /\ Maximal'
    BY <1>1, <1>2 DEF ResolveInvariant, Pending, Settled, AllHold, Maximal
  <1> QED BY <1>3, <1>4, <1>5 DEF ResolveInvariant

-----------------------------------------------------------------------------

\* Where the loop ends, everything that was asked for holds.
LEMMA InvariantMeansSound ==
  ASSUME ResolveInvariant
  PROVE  Sound
  <1> SUFFICES ASSUME outcome = "ok", NEW r \in roots \union DepsOfPins
               PROVE  pinned[r.name] # None /\ Satisfies(pinned[r.name], r.req)
    BY DEF Sound
  <1>1. r \in Requirement /\ \E e \in want[r.name] : e.req = r.req
    <2>1. CASE r \in roots
      BY <2>1 DEF ResolveInvariant, ResolveTypeOK, RootsWanted, EntryOf
    <2>2. CASE r \in DepsOfPins
      <3>1. PICK n \in Pinned : r \in source[n][pinned[n]].deps
        BY <2>2 DEF DepsOfPins
      <3>2. source[n][pinned[n]] \in Release
        BY DEF Pinned, ResolveInvariant, ResolveTypeOK, IsMetadata
      <3> QED BY <3>1, <3>2 DEF ResolveInvariant, DepsWanted, Release
    <2> QED BY <2>1, <2>2
  <1>2. InQueue = {}
    BY DEF ResolveInvariant, Drained, InQueue
  <1>3. Settled(r.name) /\ r.name \in Packages
    BY <1>1, <1>2 DEF ResolveInvariant, Pending, Requirement
  <1>4. pinned[r.name] \in Version
    BY <1>3, ReleasesAssumption DEF Settled, ResolveInvariant, ResolveTypeOK
  <1>5. Matches(pinned[r.name], r.req) /\ r.req \in Constraint
    BY <1>1, <1>3 DEF Settled, AllHold, Requirement
  <1> QED BY <1>3, <1>4, <1>5, MatchesMeansSatisfies DEF Settled

\* A higher version that was passed over fails something that was asked for.
LEMMA InvariantMeansMaximum ==
  ASSUME ResolveInvariant
  PROVE  PicksMaximum
  <1> SUFFICES ASSUME NEW n \in Pinned, NEW w \in DOMAIN source[n], Below(pinned[n], w)
               PROVE  \E r \in Asked : r.name = n /\ ~Satisfies(w, r.req)
    BY DEF PicksMaximum
  <1>1. n \in Packages /\ w \in Version
    BY ReleasesAssumption DEF Pinned, ResolveInvariant, ResolveTypeOK, IsMetadata
  <1>2. PICK r \in Asked : r.name = n /\ ~Matches(w, r.req)
    BY DEF ResolveInvariant, Maximal
  <1>3. r \in Requirement
    <2>1. CASE r \in roots
      BY <2>1 DEF ResolveInvariant, ResolveTypeOK
    <2>2. CASE \E t \in tried : r \in source[t[1]][t[2]].deps
      <3>1. PICK t \in tried : r \in source[t[1]][t[2]].deps
        BY <2>2
      <3>2. source[t[1]][t[2]] \in Release
        BY DEF ResolveInvariant, ResolveTypeOK, IsMetadata
      <3> QED BY <3>1, <3>2 DEF Release
    <2> QED BY <2>1, <2>2 DEF Asked
  <1>4. ~Satisfies(w, r.req)
    BY <1>1, <1>2, <1>3, MatchesMeansSatisfies DEF Requirement
  <1> QED BY <1>2, <1>4

\* The invariant is inductive.
LEMMA ResolveSpecHolds == ResolveSpec => []ResolveInvariant
  <1>1. ResolveInit => ResolveInvariant
    BY RegistriesAssumption, IdleHolds DEF ResolveInit, CatalogOK
  <1>2. ResolveInvariant /\ [ResolveNext]_resolveVars => ResolveInvariant'
    <2> SUFFICES ASSUME ResolveInvariant, [ResolveNext]_resolveVars
                 PROVE  ResolveInvariant'
      OBVIOUS
    <2>1. CASE Resolving
      BY <2>1, ResolvingHolds
    <2>2. CASE UNCHANGED catalog /\ \E rs \in RootSets : Begin(rs)
      <3>1. CatalogOK'
        BY <2>2 DEF ResolveInvariant, CatalogOK
      <3>2. \A rs \in RootSets : rs \subseteq Requirement /\ IsFiniteSet(rs)
        BY RootSetsAssumption
      <3> QED BY <2>2, <3>1, <3>2, BeginHolds
    <2>3. CASE UNCHANGED resolveVars
      <3>1. CatalogOK' /\ UNCHANGED <<source, roots, pinning, turns, outcome>>
        BY <2>3 DEF resolveVars, ResolveInvariant, CatalogOK
      <3> QED BY <3>1, CatalogMayChange
    <2> QED BY <2>1, <2>2, <2>3 DEF ResolveNext
  <1> QED BY <1>1, <1>2, PTL DEF ResolveSpec

\* The worklist (resolver.rs:42-163) keeps its pins, its constraints and its
\* queue in step, whatever the registry holds and whatever is asked for.
THEOREM ResolveTypes == ResolveSpec => []ResolveTypeOK
  <1>1. ResolveInvariant => ResolveTypeOK
    BY DEF ResolveInvariant
  <1> QED BY <1>1, ResolveSpecHolds, PTL

\* resolve (resolver.rs:38-168) returns versions that satisfy every
\* requirement of the roots and every dependency of what it returns.
THEOREM ResolveSound == ResolveSpec => []Sound
  <1> QED BY InvariantMeansSound, ResolveSpecHolds, PTL

\* resolve passes over no version that satisfies all that was asked for, by
\* the roots and by the versions it has pinned (resolver.rs:92-124).
THEOREM ResolvePicksMaximum == ResolveSpec => []PicksMaximum
  <1> QED BY InvariantMeansMaximum, ResolveSpecHolds, PTL

-----------------------------------------------------------------------------
(* The commands. *)

Exact == [name : Packages, version : Releases]

Places ==
    {"idle", "choose", "edit", "fetch", "ensure", "extract", "pin", "restore", "restore lock",
     "restore vendor", "unlist", "unvendor", "unlock"}

Fetching == {"ensure", "extract", "pin"}

Work == [exacts : SUBSET Exact, unpacking : SUBSET [pin : Pins, sha : Contents], resolved : SUBSET Pins,
         todo : SUBSET Pins, locks : SUBSET Pins, fetching : SUBSET Requirement]

GoodManifest(m) ==
    /\ m \in [heads : Seq(Titles), reqs : [Sections -> SUBSET Requirement]]
    /\ \A s \in Sections :
          IsFiniteSet(m.reqs[s]) /\ (m.reqs[s] # {} => \E i \in DOMAIN m.heads : m.heads[i] = s)

GoodLock(pins) ==
    /\ pins \subseteq Pins /\ IsFiniteSet(pins)
    /\ \A k, l \in pins : k.name = l.name /\ k.version = l.version => k = l

Files ==
    /\ GoodManifest(manifest) /\ GoodManifest(before.manifest)
    /\ GoodLock(lock) /\ GoodLock(before.lock)
    /\ vendor \in [Packages \X Releases -> Contents \union {None, Partial}]

Locals ==
    /\ cmd \in Command /\ IsFiniteSet(cmd.specs)
    /\ work \in Work
    /\ IsFiniteSet(work.exacts) /\ IsFiniteSet(work.fetching)
    /\ GoodLock(work.resolved)

Control ==
    /\ pc \in Places /\ (pc = "idle" <=> result # "running")
    /\ outcome # "none" => pc \in {"choose", "fetch"} /\ ~cmd.offline
    /\ outcome = "none" => DOMAIN source = {}
    /\ outcome # "none" /\ pc = "choose" => roots = cmd.specs
    /\ outcome # "none" /\ pc = "fetch" => work.fetching # {}

\* What a multi-add has put back, unless that failed, and what it has not
\* touched yet.
RolledBack ==
    /\ pc \in {"choose", "edit"} => manifest = before.manifest
    /\ pc \in {"choose", "edit", "fetch"} => lock = before.lock
    /\ pc \in {"restore lock", "restore vendor"} => manifest = before.manifest \/ "manifest" \in unwritten
    /\ pc = "restore vendor" => lock = before.lock \/ "lock" \in unwritten
    /\ pc \in {"unlist", "unvendor", "unlock"} => cmd.kind = "remove"
    /\ AddAllOrNothing

\* The lock file grows by versions that it did not have and that are done.
Locked ==
    /\ pc \in Fetching =>
          /\ work.locks = before.lock /\ work.todo \subseteq work.resolved
          /\ \A k \in lock : k \in before.lock \/ PinOf(k.name, k.version, work.resolved \ work.todo) # {}
    /\ pc \in Fetching \union {"restore", "restore lock"} =>
          \A k \in lock : k \in before.lock \/ PinOf(k.name, k.version, before.lock) = {}
    /\ pc \in {"extract", "pin"} =>
          \A x \in work.unpacking :
              /\ x.pin \in work.todo
              /\ ShaOf(PinOf(x.pin.name, x.pin.version, before.lock)) \subseteq {x.sha}

At(n, v, sha) == v \in DOMAIN catalog[n] /\ catalog[n][v].sha = sha

\* As long as the registry replaces no bytes, what was read of it is true.
Fresh ==
    ~moved =>
        /\ \A n \in DOMAIN source : \A v \in DOMAIN source[n] : At(n, v, source[n][v].sha)
        /\ pc \in Fetching =>
              /\ \A l \in work.resolved : At(l.name, l.version, l.sha)
              /\ \A l \in work.resolved \ work.todo :
                    ShaOf(PinOf(l.name, l.version, before.lock)) \subseteq {l.sha}
              /\ \A k \in lock : k \in before.lock \/ At(k.name, k.version, k.sha)
        /\ pc \in {"extract", "pin"} =>
              \A x \in work.unpacking : At(x.pin.name, x.pin.version, x.sha)

ProjectInvariant ==
    /\ ResolveInvariant
    /\ Files /\ Locals /\ Control /\ RolledBack /\ Locked /\ Fresh

-----------------------------------------------------------------------------

LEMMA ResolverRests ==
  ASSUME ResolveInvariant, UNCHANGED resolveVars
  PROVE  ResolveInvariant'
  <1>1. CatalogOK' /\ UNCHANGED <<source, roots, pinning, turns, outcome>>
    BY DEF resolveVars, ResolveInvariant, CatalogOK
  <1> QED BY <1>1, CatalogMayChange

LEMMA IdleNow == CatalogOK /\ Idle => ResolveInvariant
  BY IdleHolds

LEMMA IdleNext == (CatalogOK /\ Idle => ResolveInvariant)'
  BY IdleNow, PTL

\* A resolution that is over and forgotten.
LEMMA ResolverForgets ==
  ASSUME ResolveInvariant, ForgetResolution
  PROVE  ResolveInvariant' /\ outcome' = "none" /\ DOMAIN source' = {} /\ catalog' = catalog
  <1>1. Idle' /\ outcome' = "none" /\ source' = <<>> /\ catalog' = catalog
    BY DEF ForgetResolution, Idle
  <1>2. CatalogOK'
    BY <1>1 DEF ResolveInvariant, CatalogOK
  <1> QED BY <1>1, <1>2, IdleNext

\* A step of the resolver only reads from the registry.
LEMMA ResolverReads ==
  ASSUME ResolveInvariant, Resolving
  PROVE  /\ outcome = "running" /\ outcome' # "none" /\ UNCHANGED <<catalog, roots>>
         /\ \A n \in DOMAIN source' : source'[n] = IF n \in DOMAIN source THEN source[n] ELSE catalog[n]
  <1>1. ASSUME NEW n \in Packages, Read(n)
        PROVE  \A m \in DOMAIN source' : source'[m] = IF m \in DOMAIN source THEN source[m] ELSE catalog[m]
    BY <1>1 DEF Read, Meta
  <1>2. ASSUME NEW n \in Packages, Prefetch(n) \/ Pin(n)
        PROVE  outcome = "running" /\ outcome' # "none" /\ UNCHANGED <<catalog, roots>> /\ Read(n)
    BY <1>2 DEF Prefetch, Pin, Turn
  <1>3. ASSUME NEW n \in Packages, Keep(n) \/ SelfDependent(n) \/ Conflict(n) \/ Unknown(n)
        PROVE  outcome = "running" /\ outcome' # "none" /\ UNCHANGED <<catalog, roots>> /\ source' = source
    BY <1>3 DEF Keep, SelfDependent, Conflict, Unknown, Turn, Finish
  <1>4. ASSUME PrefetchFails \/ GiveUp \/ Converge
        PROVE  outcome = "running" /\ outcome' # "none" /\ UNCHANGED <<catalog, roots>> /\ source' = source
    BY <1>4 DEF PrefetchFails, GiveUp, Converge, Finish
  <1> QED BY <1>1, <1>2, <1>3, <1>4 DEF Resolving

-----------------------------------------------------------------------------

LEMMA RootsOfManifest ==
  ASSUME NEW m, GoodManifest(m)
  PROVE  RootsOf(m) \subseteq Requirement /\ IsFiniteSet(RootsOf(m))
  <1>1. RootsOf(m) = m.reqs["dependencies"] \union m.reqs["dev-dependencies"]
    BY DEF RootsOf, Sections
  <1>2. \A s \in Sections : m.reqs[s] \subseteq Requirement /\ IsFiniteSet(m.reqs[s])
    BY DEF GoodManifest
  <1>3. "dependencies" \in Sections /\ "dev-dependencies" \in Sections
    BY DEF Sections
  <1> QED BY <1>1, <1>2, <1>3, FS_Union

LEMMA NoWorkIsTyped ==
  /\ NoWork \in Work
  /\ IsFiniteSet(NoWork.exacts) /\ IsFiniteSet(NoWork.fetching) /\ GoodLock(NoWork.resolved)
  BY FS_EmptySet DEF NoWork, Work, GoodLock

\* A command that ends, with whatever files it leaves.
LEMMA EndHolds ==
  ASSUME ProjectInvariant, NEW how, how # "running", End(how), UNCHANGED run,
         ResolveInvariant', Files', DOMAIN source' = {}, outcome' = "none", AddAllOrNothing'
  PROVE  ProjectInvariant'
  <1>1. pc' = "idle" /\ result' = how /\ work' = NoWork /\ UNCHANGED <<cmd, before>>
    BY DEF End, run
  <1>2. Locals'
    BY <1>1, NoWorkIsTyped DEF ProjectInvariant, Locals
  <1>3. Control'
    BY <1>1 DEF Control, Places
  <1>4. RolledBack' /\ Locked' /\ Fresh'
    BY <1>1 DEF RolledBack, Locked, Fresh, Fetching
  <1> QED BY <1>2, <1>3, <1>4 DEF ProjectInvariant

\* A command that fails, before it has edited the manifest or after.
LEMMA FailHolds ==
  ASSUME ProjectInvariant, Fail, UNCHANGED <<files, run>>,
         ResolveInvariant', DOMAIN source' = {}, outcome' = "none",
         pc \in {"choose", "fetch"} \union Fetching
  PROVE  ProjectInvariant'
  <1>1. UNCHANGED <<manifest, lock, vendor, cmd, before>>
    BY DEF files, run
  <1>2. Files'
    BY <1>1 DEF ProjectInvariant, Files
  <1>3. CASE cmd.kind = "add many" /\ pc \notin {"choose", "edit"}
    <2>1. pc' = "restore" /\ result' = result /\ work' = work
      BY <1>3 DEF Fail
    <2>2. Locals'
      BY <1>1, <2>1 DEF ProjectInvariant, Locals
    <2>3. Control'
      BY <2>1 DEF ProjectInvariant, Control, Places, Fetching
    <2>4. RolledBack'
      BY <2>1 DEF RolledBack, AddAllOrNothing
    <2>5. Locked'
      <3>1. \A k \in lock : k \in before.lock \/ PinOf(k.name, k.version, before.lock) = {}
        BY <1>3 DEF ProjectInvariant, Locked, RolledBack
      <3> QED BY <1>1, <2>1, <3>1 DEF Locked, Fetching, PinOf
    <2>6. Fresh'
      BY <2>1 DEF Fresh, Fetching
    <2> QED BY <1>2, <2>2, <2>3, <2>4, <2>5, <2>6 DEF ProjectInvariant
  <1>4. CASE ~(cmd.kind = "add many" /\ pc \notin {"choose", "edit"})
    <2>1. End("failed")
      BY <1>4 DEF Fail
    <2>2. AddAllOrNothing'
      BY <1>1, <1>4 DEF ProjectInvariant, RolledBack, AddAllOrNothing
    <2> QED BY <1>2, <2>1, <2>2, EndHolds
  <1> QED BY <1>3, <1>4

\* Most steps leave the resolver alone; where it is idle it stays so.
LEMMA ResolverIdles ==
  ASSUME ProjectInvariant, UNCHANGED resolveVars, pc \notin {"choose", "fetch"} \/ outcome = "none"
  PROVE  ResolveInvariant' /\ DOMAIN source' = {} /\ outcome' = "none" /\ catalog' = catalog
  <1>1. UNCHANGED <<source, outcome, catalog>>
    BY DEF resolveVars
  <1> QED BY <1>1, ResolverRests DEF ProjectInvariant, Control

\* The image of a finite set.
LEMMA FiniteImage ==
  ASSUME NEW S, IsFiniteSet(S), NEW T, NEW f \in [S -> T], \A t \in T : \E r \in S : f[r] = t
  PROVE  IsFiniteSet(T)
  <1>1. f \in Surjection(S, T)
    BY DEF Surjection
  <1> QED BY <1>1, FS_Surjection

\* A step to a place where no resolution runs and nothing is being fetched.
LEMMA QuietHolds ==
  ASSUME ProjectInvariant, ResolveInvariant', DOMAIN source' = {}, outcome' = "none",
         Files', Locals', RolledBack', pc' \in Places \ (Fetching \union {"idle", "restore", "restore lock"}),
         result' = "running"
  PROVE  ProjectInvariant'
  <1>1. Control' /\ Locked' /\ Fresh'
    BY DEF Control, Locked, Fresh, Fetching
  <1> QED BY <1>1 DEF ProjectInvariant

LEMMA StartHolds ==
  ASSUME ProjectInvariant, NEW c \in Commands, Start(c)
  PROVE  ProjectInvariant'
  <1>1. /\ pc = "idle" /\ pc' \in {"fetch", "choose", "unlist"} /\ cmd' = c /\ result' = "running"
        /\ pc' = "unlist" => c.kind = "remove"
        /\ before' = [manifest |-> manifest, lock |-> lock, vendor |-> vendor]
        /\ UNCHANGED <<manifest, lock, vendor>> /\ UNCHANGED resolveVars
    BY DEF Start, files
  <1>2. work' = [NoWork EXCEPT !.fetching = IF c.kind = "install" THEN c.specs ELSE RootsOf(manifest)]
    BY DEF Start
  <1>3. ResolveInvariant' /\ DOMAIN source' = {} /\ outcome' = "none"
    BY <1>1, ResolverIdles
  <1>4. Files'
    BY <1>1 DEF ProjectInvariant, Files
  <1>5. Locals'
    <2>1. c \in Command /\ IsFiniteSet(c.specs) /\ c.specs \subseteq Requirement
      BY CommandsAssumption DEF Command
    <2>2. RootsOf(manifest) \subseteq Requirement /\ IsFiniteSet(RootsOf(manifest))
      BY RootsOfManifest DEF ProjectInvariant, Files
    <2>3. work' \in Work /\ IsFiniteSet(work'.exacts) /\ IsFiniteSet(work'.fetching) /\ work'.resolved = NoWork.resolved
      BY <1>2, <2>1, <2>2, NoWorkIsTyped DEF Work
    <2> QED BY <1>1, <2>1, <2>3, NoWorkIsTyped DEF Locals
  <1>6. RolledBack'
    BY <1>1 DEF RolledBack, AddAllOrNothing
  <1> QED BY <1>1, <1>3, <1>4, <1>5, <1>6, QuietHolds DEF Places, Fetching

LEMMA ChooseOnlineHolds ==
  ASSUME ProjectInvariant, ChooseOnline
  PROVE  ProjectInvariant'
  <1>1. pc = "choose" /\ Begin(cmd.specs) /\ roots' = cmd.specs /\ source' = <<>> /\ outcome' = "running"
        /\ UNCHANGED <<catalog, manifest, lock, vendor, cmd, before, pc, work, result, moved>>
    BY DEF ChooseOnline, files, run, Begin
  <1>2. cmd.specs \subseteq Requirement /\ IsFiniteSet(cmd.specs)
    BY DEF ProjectInvariant, Locals, Command
  <1>3. CatalogOK'
    BY <1>1 DEF ProjectInvariant, ResolveInvariant, CatalogOK
  <1>4. ResolveInvariant'
    BY <1>1, <1>2, <1>3, BeginHolds DEF ProjectInvariant
  <1>5. Files' /\ Locals' /\ Control' /\ RolledBack' /\ Locked'
    <2>1. Files' /\ Locals'
      BY <1>1 DEF ProjectInvariant, Files, Locals
    <2>2. ~cmd.offline
      BY DEF ChooseOnline
    <2>3. Control'
      BY <1>1, <2>2 DEF ProjectInvariant, Control
    <2>4. RolledBack' /\ Locked'
      BY <1>1 DEF ProjectInvariant, RolledBack, AddAllOrNothing, Locked, Fetching, PinOf
    <2> QED BY <2>1, <2>3, <2>4
  <1>6. Fresh'
    <2>1. DOMAIN source' = {}
      BY <1>1
    <2> QED BY <1>1, <2>1 DEF Fresh, Fetching
  <1> QED BY <1>4, <1>5, <1>6 DEF ProjectInvariant

\* What was chosen online is pinned: that is what the resolver promises.
LEMMA ChosenHolds ==
  ASSUME ProjectInvariant, Chosen
  PROVE  ProjectInvariant'
  <1> DEFINE exact(r) == [name |-> r.name, version |-> pinned[r.name]]
             exacts == {exact(r) : r \in cmd.specs}
  <1>1. pc = "choose" /\ outcome = "ok" /\ pc' = "edit" /\ work' = [work EXCEPT !.exacts = exacts]
        /\ ForgetResolution /\ UNCHANGED <<manifest, lock, vendor, cmd, before, result>>
    BY DEF Chosen, GotoWith, files, run
  <1>2. cmd.specs \subseteq Requirement /\ IsFiniteSet(cmd.specs) /\ roots = cmd.specs
    BY <1>1 DEF ProjectInvariant, Locals, Command, Control
  <1>3. \A r \in cmd.specs : r.name \in Packages /\ pinned[r.name] \in Releases
    <2>1. Sound /\ pinned \in [Packages -> Releases \union {None}]
      BY InvariantMeansSound DEF ProjectInvariant, ResolveInvariant, ResolveTypeOK
    <2> QED BY <1>1, <1>2, <2>1 DEF Sound, Requirement
  <1>4. exacts \subseteq Exact
    BY <1>3 DEF Exact
  <1>5. IsFiniteSet(exacts)
    <2> DEFINE f == [r \in cmd.specs |-> exact(r)]
    <2>1. \A r \in cmd.specs : f[r] = exact(r)
      OBVIOUS
    <2>2. f \in [cmd.specs -> exacts]
      OBVIOUS
    <2>3. \A t \in exacts : \E r \in cmd.specs : f[r] = t
      <3> HIDE DEF f
      <3> QED BY <2>1
    <2> HIDE DEF f, exacts
    <2> QED BY <1>2, <2>2, <2>3, FiniteImage
  <1>6. Locals'
    BY <1>1, <1>4, <1>5 DEF ProjectInvariant, Locals, Work
  <1>7. Files' /\ RolledBack' /\ result' = "running"
    BY <1>1 DEF ProjectInvariant, Files, RolledBack, AddAllOrNothing, Control
  <1>8. ResolveInvariant' /\ outcome' = "none" /\ DOMAIN source' = {}
    BY <1>1, ResolverForgets DEF ProjectInvariant
  <1> QED BY <1>1, <1>6, <1>7, <1>8, QuietHolds DEF Places, Fetching

\* The packages of the lock file, without their checksums.
LEMMA LockedIsExact ==
  ASSUME NEW pins, GoodLock(pins), NEW T,
         \A t \in T : \E l \in pins : t = [name |-> l.name, version |-> l.version]
  PROVE  T \subseteq Exact /\ IsFiniteSet(T)
  <1> DEFINE f == [l \in pins |-> [name |-> l.name, version |-> l.version]]
             all == {[name |-> l.name, version |-> l.version] : l \in pins}
  <1>1. f \in [pins -> all] /\ \A t \in all : \E l \in pins : f[l] = t
    OBVIOUS
  <1>2. T \subseteq all /\ all \subseteq Exact
    BY DEF Exact, GoodLock, Pins
  <1>3. IsFiniteSet(pins)
    BY DEF GoodLock
  <1> HIDE DEF f, all
  <1>4. IsFiniteSet(all)
    BY <1>1, <1>3, FiniteImage
  <1> QED BY <1>2, <1>4, FS_Subset

LEMMA ChooseLockedHolds ==
  ASSUME ProjectInvariant, ChooseLocked
  PROVE  ProjectInvariant'
  <1> DEFINE exacts == UNION {{[name |-> r.name, version |-> v] : v \in LockedFor(r.name, r.req)} : r \in cmd.specs}
  <1>1. pc = "choose" /\ cmd.offline /\ UNCHANGED resolveVars /\ UNCHANGED <<files, run>>
    BY DEF ChooseLocked
  <1>2. UNCHANGED <<manifest, lock, vendor, cmd, before>>
    BY <1>1 DEF files, run
  <1>5. ResolveInvariant' /\ DOMAIN source' = {} /\ outcome' = "none"
    BY <1>1, ResolverIdles DEF ProjectInvariant, Control
  <1>3. CASE pc' = "edit" /\ work' = [work EXCEPT !.exacts = exacts] /\ result' = result
    <2>1. \A t \in exacts : \E l \in lock : t = [name |-> l.name, version |-> l.version]
      BY DEF LockedFor, Highest
    <2>2. exacts \subseteq Exact /\ IsFiniteSet(exacts)
      <3> HIDE DEF exacts
      <3> QED BY <2>1, LockedIsExact DEF ProjectInvariant, Files
    <2> HIDE DEF exacts
    <2>3. Locals'
      BY <1>2, <1>3, <2>2 DEF ProjectInvariant, Locals, Work
    <2>4. Files' /\ RolledBack' /\ result' = "running"
      BY <1>1, <1>2, <1>3 DEF ProjectInvariant, Files, RolledBack, AddAllOrNothing, Control
    <2> QED BY <1>3, <1>5, <2>3, <2>4, QuietHolds DEF Places, Fetching
  <1>4. CASE Fail
    BY <1>1, <1>4, <1>5, FailHolds
  <1> QED BY <1>3, <1>4 DEF ChooseLocked, GotoWith

\* What is appended to leaves what was there.
LEMMA AppendKeeps ==
  ASSUME NEW S, NEW h \in Seq(S), NEW x \in S
  PROVE  /\ Append(h, x) \in Seq(S)
         /\ \A i \in DOMAIN h : i \in DOMAIN Append(h, x) /\ Append(h, x)[i] = h[i]
  OBVIOUS

\* The edited manifest keeps what it had, and every line is in a section
\* that it has.
LEMMA EditHolds ==
  ASSUME ProjectInvariant, Edit
  PROVE  ProjectInvariant'
  <1> DEFINE line(e) == [name |-> e.name, req |-> {[op |-> IF cmd.caret THEN "caret" ELSE "exact", base |-> e.version]}]
             lines == {line(e) : e \in work.exacts}
             heads == IF Has(cmd.section) THEN manifest.heads ELSE Append(manifest.heads, cmd.section)
             edited == [heads |-> heads,
                        reqs |-> [s \in Sections |-> IF s = LastHead(heads) THEN manifest.reqs[s] \union lines
                                                     ELSE manifest.reqs[s]]]
  <1>1. /\ pc = "edit" /\ manifest' = edited /\ pc' = "fetch"
        /\ work' = [work EXCEPT !.fetching = RootsOf(edited)]
        /\ UNCHANGED <<lock, vendor, cmd, before, result>> /\ UNCHANGED resolveVars
    BY DEF Edit, GotoWith, run
  <1>2. GoodManifest(manifest) /\ cmd \in Command /\ work.exacts \subseteq Exact /\ IsFiniteSet(work.exacts)
    BY DEF ProjectInvariant, Files, Locals, Work
  <1>3. lines \subseteq Requirement
    <2>1. \A e \in work.exacts : e.name \in Packages /\ e.version \in Version
      BY <1>2, ReleasesAssumption DEF Exact
    <2>2. \A e \in work.exacts : line(e) \in Requirement
      BY <2>1 DEF Requirement, Constraint, Predicate, Operator
    <2> HIDE DEF line
    <2> QED BY <2>2
  <1>4. IsFiniteSet(lines)
    <2> DEFINE f == [e \in work.exacts |-> line(e)]
    <2>1. \A e \in work.exacts : f[e] = line(e)
      OBVIOUS
    <2> HIDE DEF line
    <2>2. f \in [work.exacts -> lines]
      OBVIOUS
    <2>3. \A t \in lines : \E e \in work.exacts : f[e] = t
      <3> HIDE DEF f
      <3> QED BY <2>1
    <2> HIDE DEF f, lines
    <2> QED BY <1>2, <2>2, <2>3, FiniteImage
  <1>5. heads \in Seq(Titles) /\ \A s : (\E i \in DOMAIN manifest.heads : manifest.heads[i] = s) => \E i \in DOMAIN heads : heads[i] = s
    <2>1. manifest.heads \in Seq(Titles) /\ cmd.section \in Titles
      BY <1>2 DEF GoodManifest, Command, Titles
    <2>2. manifest.heads \in Seq(Titles) /\ cmd.section \in Titles =>
             /\ Append(manifest.heads, cmd.section) \in Seq(Titles)
             /\ \A i \in DOMAIN manifest.heads :
                   /\ i \in DOMAIN Append(manifest.heads, cmd.section)
                   /\ Append(manifest.heads, cmd.section)[i] = manifest.heads[i]
      BY AppendKeeps
    <2> QED BY <2>1, <2>2
  <1>6. \A s \in Sections : s = LastHead(heads) => \E i \in DOMAIN heads : heads[i] = s
    BY <1>5 DEF LastHead, Sections
  <1>7. GoodManifest(edited)
    <2> HIDE DEF lines, heads
    <2>1. edited \in [heads : Seq(Titles), reqs : [Sections -> SUBSET Requirement]]
      BY <1>2, <1>3, <1>5 DEF GoodManifest
    <2>2. \A s \in Sections : IsFiniteSet(edited.reqs[s])
      BY <1>2, <1>4, FS_Union DEF GoodManifest
    <2>3. \A s \in Sections : edited.reqs[s] # {} => \E i \in DOMAIN heads : heads[i] = s
      BY <1>2, <1>5, <1>6 DEF GoodManifest
    <2> QED BY <2>1, <2>2, <2>3 DEF GoodManifest
  <1> HIDE DEF edited
  <1>8. Files'
    BY <1>1, <1>7 DEF ProjectInvariant, Files
  <1>9. Locals'
    <2>1. RootsOf(edited) \subseteq Requirement /\ IsFiniteSet(RootsOf(edited))
      BY <1>7, RootsOfManifest
    <2> QED BY <1>1, <2>1 DEF ProjectInvariant, Locals, Work
  <1>10. RolledBack' /\ result' = "running"
    BY <1>1 DEF ProjectInvariant, RolledBack, AddAllOrNothing, Control
  <1>11. ResolveInvariant' /\ DOMAIN source' = {} /\ outcome' = "none"
    BY <1>1, ResolverIdles
  <1> QED BY <1>1, <1>8, <1>9, <1>10, <1>11, QuietHolds DEF Places, Fetching

LEMMA FetchLocalHolds ==
  ASSUME ProjectInvariant, FetchNothing \/ FetchOffline
  PROVE  ProjectInvariant'
  <1>1. /\ pc = "fetch" /\ (work.fetching = {} \/ cmd.offline) /\ (End("ok") \/ Fail)
        /\ UNCHANGED resolveVars /\ UNCHANGED <<files, run>>
    BY DEF FetchNothing, FetchOffline
  <1>2. UNCHANGED <<manifest, lock, vendor, cmd, before>>
    BY <1>1 DEF files, run
  <1>3. ResolveInvariant' /\ DOMAIN source' = {} /\ outcome' = "none"
    BY <1>1, ResolverIdles DEF ProjectInvariant, Control
  <1>4. CASE End("ok")
    <2>1. Files' /\ AddAllOrNothing'
      BY <1>2, <1>4 DEF ProjectInvariant, Files, AddAllOrNothing, End
    <2> QED BY <1>1, <1>3, <1>4, <2>1, EndHolds
  <1>5. CASE Fail
    BY <1>1, <1>3, <1>5, FailHolds
  <1> QED BY <1>1, <1>4, <1>5

LEMMA FetchOnlineHolds ==
  ASSUME ProjectInvariant, FetchOnline
  PROVE  ProjectInvariant'
  <1>1. /\ pc = "fetch" /\ work.fetching # {} /\ ~cmd.offline /\ Begin(work.fetching)
        /\ source' = <<>> /\ outcome' = "running"
        /\ UNCHANGED <<catalog, manifest, lock, vendor, cmd, before, pc, work, result, moved>>
    BY DEF FetchOnline, files, run, Begin
  <1>2. work.fetching \subseteq Requirement /\ IsFiniteSet(work.fetching)
    BY DEF ProjectInvariant, Locals, Work
  <1>3. CatalogOK'
    BY <1>1 DEF ProjectInvariant, ResolveInvariant, CatalogOK
  <1>4. ResolveInvariant'
    BY <1>1, <1>2, <1>3, BeginHolds DEF ProjectInvariant
  <1>5. Files' /\ Locals'
    BY <1>1 DEF ProjectInvariant, Files, Locals
  <1>6. Control'
    BY <1>1 DEF ProjectInvariant, Control
  <1>7. RolledBack' /\ Locked'
    BY <1>1 DEF ProjectInvariant, RolledBack, AddAllOrNothing, Locked, Fetching, PinOf
  <1>8. Fresh'
    <2>1. DOMAIN source' = {}
      BY <1>1
    <2> QED BY <1>1, <2>1 DEF Fresh, Fetching
  <1> QED BY <1>4, <1>5, <1>6, <1>7, <1>8 DEF ProjectInvariant

LEMMA UnresolvedHolds ==
  ASSUME ProjectInvariant, Unresolved
  PROVE  ProjectInvariant'
  <1>1. pc \in {"choose", "fetch"} /\ Fail /\ ForgetResolution /\ UNCHANGED <<files, run>>
    BY DEF Unresolved
  <1>2. ResolveInvariant' /\ DOMAIN source' = {} /\ outcome' = "none"
    BY <1>1, ResolverForgets DEF ProjectInvariant
  <1> QED BY <1>1, <1>2, FailHolds

\* A step of the resolution reads what the registry serves now.
LEMMA ResolveHolds ==
  ASSUME ProjectInvariant, Resolve
  PROVE  ProjectInvariant'
  <1>1. Resolving /\ UNCHANGED <<manifest, lock, vendor, cmd, before, pc, work, result, moved>>
    BY DEF Resolve, files, run
  <1>2. ResolveInvariant'
    BY <1>1, ResolvingHolds DEF ProjectInvariant
  <1>3. /\ outcome = "running" /\ outcome' # "none" /\ UNCHANGED <<catalog, roots>>
        /\ \A n \in DOMAIN source' : source'[n] = IF n \in DOMAIN source THEN source[n] ELSE catalog[n]
    BY <1>1, ResolverReads DEF ProjectInvariant
  <1>4. pc \in {"choose", "fetch"}
    BY <1>3 DEF ProjectInvariant, Control
  <1>5. Files' /\ Locals'
    BY <1>1 DEF ProjectInvariant, Files, Locals
  <1>6. Control'
    BY <1>1, <1>3 DEF ProjectInvariant, Control
  <1>7. RolledBack' /\ Locked'
    BY <1>1, <1>4 DEF ProjectInvariant, RolledBack, AddAllOrNothing, Locked, Fetching, PinOf
  <1>8. Fresh'
    <2>1. ASSUME ~moved', NEW n \in DOMAIN source', NEW v \in DOMAIN source'[n]
          PROVE  At(n, v, source[n][v].sha)'
      BY <1>1, <1>3, <2>1 DEF ProjectInvariant, Fresh, At
    <2> QED BY <1>1, <1>4, <2>1 DEF Fresh, Fetching
  <1> QED BY <1>2, <1>5, <1>6, <1>7, <1>8 DEF ProjectInvariant

\* The pins of a resolution name each package once, and carry checksums that
\* were read from the registry.
LEMMA ResolvedHolds ==
  ASSUME ProjectInvariant, Resolved
  PROVE  ProjectInvariant'
  <1> DEFINE pin(n) == [name |-> n, version |-> pinned[n], sha |-> source[n][pinned[n]].sha]
             pins == {pin(n) : n \in Pinned}
  <1>1. /\ pc = "fetch" /\ outcome = "ok" /\ pc' = "ensure" /\ ForgetResolution
        /\ work' = [work EXCEPT !.resolved = pins, !.todo = pins, !.locks = lock]
        /\ UNCHANGED <<manifest, lock, vendor, cmd, before, result, moved>>
    BY DEF Resolved, GotoWith, files, run
  <1>2. \A n \in Pinned : /\ n \in Packages /\ n \in DOMAIN source /\ pinned[n] \in DOMAIN source[n]
                          /\ pinned[n] \in Releases /\ source[n][pinned[n]] \in Release
    BY DEF ProjectInvariant, ResolveInvariant, ResolveTypeOK, IsMetadata, Pinned
  <1>3. \A n \in Pinned : pin(n) \in Pins
    BY <1>2 DEF Pins, Release
  <1>4. IsFiniteSet(pins)
    <2> DEFINE f == [n \in Pinned |-> pin(n)]
    <2>1. \A n \in Pinned : f[n] = pin(n)
      OBVIOUS
    <2> HIDE DEF pin
    <2>2. f \in [Pinned -> pins]
      OBVIOUS
    <2>3. \A t \in pins : \E n \in Pinned : f[n] = t
      <3> HIDE DEF f
      <3> QED BY <2>1
    <2>4. IsFiniteSet(Pinned)
      BY PackagesAssumption, FS_Subset DEF Pinned
    <2> HIDE DEF f, pins
    <2> QED BY <2>2, <2>3, <2>4, FiniteImage
  <1>5. GoodLock(pins)
    <2>1. pins \subseteq Pins
      <3> HIDE DEF pin
      <3> QED BY <1>3
    <2>2. \A k, l \in pins : k.name = l.name => k = l
      OBVIOUS
    <2> HIDE DEF pins
    <2> QED BY <1>4, <2>1, <2>2 DEF GoodLock
  <1>6. lock = before.lock /\ lock \subseteq Pins
    BY <1>1 DEF ProjectInvariant, RolledBack, Files, GoodLock
  <1>7. ~moved => \A l \in pins : At(l.name, l.version, l.sha)
    BY <1>2 DEF ProjectInvariant, Fresh
  <1> HIDE DEF pins
  <1>8. Locals'
    BY <1>1, <1>5, <1>6 DEF ProjectInvariant, Locals, Work, GoodLock
  <1>9. Files' /\ RolledBack'
    BY <1>1 DEF ProjectInvariant, Files, RolledBack, AddAllOrNothing
  <1>10. ResolveInvariant' /\ outcome' = "none" /\ DOMAIN source' = {} /\ catalog' = catalog
    BY <1>1, ResolverForgets DEF ProjectInvariant
  <1>11. Control'
    BY <1>1, <1>10 DEF ProjectInvariant, Control, Places
  <1>12. work'.resolved = pins /\ work'.todo = pins /\ work'.locks = lock
    BY <1>1 DEF ProjectInvariant, Locals, Work
  <1>13. Locked'
    BY <1>1, <1>6, <1>12 DEF Locked
  <1>14. Fresh'
    BY <1>1, <1>6, <1>7, <1>10, <1>12 DEF Fresh, At
  <1> QED BY <1>8, <1>9, <1>10, <1>11, <1>13, <1>14 DEF ProjectInvariant

\* upsert_package_lock leaves one entry for each version.
LEMMA UpsertedIsLock ==
  ASSUME GoodLock(lock), NEW r \in Pins, NEW sha \in Contents
  PROVE  GoodLock(Upserted(r, sha))
  <1> DEFINE entry == [name |-> r.name, version |-> r.version, sha |-> sha]
             rest == lock \ PinOf(r.name, r.version, lock)
  <1>1. entry \in Pins /\ lock \subseteq Pins /\ IsFiniteSet(lock)
        /\ \A k, l \in lock : k.name = l.name /\ k.version = l.version => k = l
    BY DEF Pins, GoodLock
  <1>2. IsFiniteSet(rest \union {entry})
    <2> HIDE DEF entry
    <2>1. IsFiniteSet(rest)
      BY <1>1, FS_Subset
    <2> HIDE DEF rest
    <2> QED BY <2>1, FS_Union, FS_Singleton
  <1>3. \A k, l \in rest \union {entry} : k.name = l.name /\ k.version = l.version => k = l
    BY <1>1 DEF PinOf
  <1>4. Upserted(r, sha) = rest \union {entry} /\ rest \union {entry} \subseteq Pins
    BY <1>1 DEF Upserted
  <1> HIDE DEF entry, rest
  <1> QED BY <1>2, <1>3, <1>4 DEF GoodLock

\* The two ways a package leaves the list: what is vendored is right, or it
\* was downloaded.  What is locked afterwards is what the registry advertises.
LEMMA PinnedHolds ==
  ASSUME ProjectInvariant, pc \in Fetching,
         NEW r \in work.resolved, NEW sha \in Contents,
         ShaOf(PinOf(r.name, r.version, before.lock)) \subseteq {sha},
         ~moved => At(r.name, r.version, sha),
         lock' = lock \/ lock' = Upserted(r, sha),
         pc' = "ensure", NEW rest \in SUBSET [pin : Pins, sha : Contents],
         work' = [work EXCEPT !.todo = @ \ {r}, !.unpacking = rest],
         UNCHANGED resolveVars, UNCHANGED <<manifest, vendor, cmd, before, result, moved>>
  PROVE  ProjectInvariant'
  <1>1. /\ r \in Pins /\ work \in Work /\ GoodLock(lock) /\ GoodLock(before.lock)
        /\ work.resolved \subseteq Pins /\ lock \subseteq Pins
    BY DEF ProjectInvariant, Locals, Files, Work, GoodLock
  <1>2. GoodLock(lock')
    BY <1>1, UpsertedIsLock
  <1>3. Files'
    BY <1>2 DEF ProjectInvariant, Files
  <1>4. /\ work'.todo = work.todo \ {r} /\ work'.resolved = work.resolved /\ work'.locks = work.locks
        /\ work'.exacts = work.exacts /\ work'.fetching = work.fetching /\ work' \in Work
    BY <1>1 DEF Work
  <1>5. Locals'
    BY <1>4 DEF ProjectInvariant, Locals
  <1>6. ResolveInvariant' /\ DOMAIN source' = {} /\ outcome' = "none" /\ catalog' = catalog
    BY ResolverIdles DEF Fetching
  <1>7. Control'
    BY <1>6 DEF ProjectInvariant, Control, Places, Fetching
  <1>8. RolledBack'
    BY DEF RolledBack, AddAllOrNothing
  <1>9. \A k \in lock' : k \in lock \/ k = [name |-> r.name, version |-> r.version, sha |-> sha]
    BY DEF Upserted
  <1>10. Locked'
    <2>1. ASSUME NEW k \in lock'
          PROVE  k \in before.lock \/ PinOf(k.name, k.version, before.lock) = {}
      <3>1. CASE k \in lock
        BY <3>1 DEF ProjectInvariant, Locked
      <3>2. CASE k = [name |-> r.name, version |-> r.version, sha |-> sha]
        <4>1. ASSUME NEW l \in PinOf(r.name, r.version, before.lock)
              PROVE  l = k
          <5>1. l \in Pins /\ l.name = r.name /\ l.version = r.version /\ l.sha = sha
            BY <4>1, <1>1 DEF PinOf, ShaOf, GoodLock
          <5> QED BY <5>1, <3>2 DEF Pins
        <4> QED BY <4>1, <3>2 DEF PinOf
      <3> QED BY <3>1, <3>2, <1>9
    <2>2. work'.locks = before.lock /\ work'.todo \subseteq work'.resolved
      BY <1>4 DEF ProjectInvariant, Locked
    <2>3. ASSUME NEW k \in lock'
          PROVE  k \in before.lock \/ PinOf(k.name, k.version, work'.resolved \ work'.todo) # {}
      <3>1. CASE k \in lock
        BY <1>4, <3>1 DEF ProjectInvariant, Locked, PinOf
      <3>2. CASE k = [name |-> r.name, version |-> r.version, sha |-> sha]
        BY <1>4, <3>2 DEF PinOf
      <3> QED BY <1>9, <3>1, <3>2
    <2> QED BY <2>1, <2>2, <2>3 DEF Locked, Fetching, PinOf
  <1>11. Fresh'
    <2> SUFFICES ASSUME ~moved
                 PROVE  /\ \A l \in work.resolved : At(l.name, l.version, l.sha)
                        /\ \A l \in work.resolved \ work'.todo :
                              ShaOf(PinOf(l.name, l.version, before.lock)) \subseteq {l.sha}
                        /\ \A k \in lock' : k \in before.lock \/ At(k.name, k.version, k.sha)
      BY <1>4, <1>6 DEF Fresh, Fetching, At, PinOf, ShaOf
    <2>1. \A l \in work.resolved : At(l.name, l.version, l.sha)
      BY DEF ProjectInvariant, Fresh
    <2>2. r.sha = sha
      BY <2>1 DEF At
    <2>3. \A l \in work.resolved \ work'.todo : ShaOf(PinOf(l.name, l.version, before.lock)) \subseteq {l.sha}
      BY <1>4, <2>2 DEF ProjectInvariant, Fresh
    <2>4. \A k \in lock' : k \in before.lock \/ At(k.name, k.version, k.sha)
      BY <1>9 DEF ProjectInvariant, Fresh
    <2> QED BY <2>1, <2>3, <2>4
  <1> QED BY <1>3, <1>5, <1>6, <1>7, <1>8, <1>10, <1>11 DEF ProjectInvariant

LEMMA AlreadyFetchedHolds ==
  ASSUME ProjectInvariant, NEW r \in work.todo, NEW sha \in Contents, AlreadyFetched(r, sha)
  PROVE  ProjectInvariant'
  <1>1. /\ pc = "ensure" /\ pc' = "ensure" /\ work' = [work EXCEPT !.todo = @ \ {r}] /\ Advertises(r, sha)
        /\ lock' = lock \/ lock' = Upserted(r, sha)
        /\ UNCHANGED <<manifest, vendor, cmd, before, result, moved>> /\ UNCHANGED resolveVars
    BY DEF AlreadyFetched, Done, GotoWith, run
  <1>2. r \in work.resolved /\ work.locks = before.lock /\ work \in Work
    BY <1>1 DEF ProjectInvariant, Locals, Locked, Fetching
  <1>3. work.unpacking \in SUBSET [pin : Pins, sha : Contents]
        /\ work' = [work EXCEPT !.todo = @ \ {r}, !.unpacking = work.unpacking]
    BY <1>1, <1>2 DEF Work
  <1>4. ShaOf(PinOf(r.name, r.version, before.lock)) \subseteq {sha} /\ At(r.name, r.version, sha)
    BY <1>1, <1>2 DEF Advertises, At
  <1> QED BY <1>1, <1>2, <1>3, <1>4, PinnedHolds DEF Fetching

LEMMA DownloadHolds ==
  ASSUME ProjectInvariant, NEW r \in work.todo, NEW sha \in Contents, Download(r, sha)
  PROVE  ProjectInvariant'
  <1>1. /\ pc = "ensure" /\ pc' = "extract" /\ work' = [work EXCEPT !.unpacking = {[pin |-> r, sha |-> sha]}]
        /\ vendor' = [vendor EXCEPT ![<<r.name, r.version>>] = Partial] /\ Advertises(r, sha)
        /\ UNCHANGED <<manifest, lock, cmd, before, result, moved>> /\ UNCHANGED resolveVars
    BY DEF Download, GotoWith, run
  <1>2. r \in work.resolved /\ r \in Pins /\ work.locks = before.lock /\ work \in Work
    BY <1>1 DEF ProjectInvariant, Locals, Locked, Fetching, Work
  <1>3. /\ work' \in Work /\ work'.unpacking = {[pin |-> r, sha |-> sha]}
        /\ work'.resolved = work.resolved /\ work'.todo = work.todo /\ work'.locks = work.locks
        /\ work'.exacts = work.exacts /\ work'.fetching = work.fetching
    BY <1>1, <1>2 DEF Work
  <1>4. ShaOf(PinOf(r.name, r.version, before.lock)) \subseteq {sha} /\ At(r.name, r.version, sha)
    BY <1>1, <1>2 DEF Advertises, At
  <1>5. Files' /\ Locals'
    BY <1>1, <1>3 DEF ProjectInvariant, Files, Locals
  <1>6. ResolveInvariant' /\ DOMAIN source' = {} /\ outcome' = "none" /\ catalog' = catalog
    BY <1>1, ResolverIdles
  <1>7. Control' /\ RolledBack'
    BY <1>1, <1>6 DEF ProjectInvariant, Control, Places, RolledBack, AddAllOrNothing
  <1>8. Locked'
    BY <1>1, <1>2, <1>3, <1>4 DEF ProjectInvariant, Locked, Fetching, PinOf, ShaOf
  <1>9. Fresh'
    <2>1. UNCHANGED moved /\ UNCHANGED <<lock, before, catalog>>
      BY <1>1, <1>6
    <2>2. \A n, v, hash : At(n, v, hash)' <=> At(n, v, hash)
      BY <2>1 DEF At
    <2>3. ~moved => (\A l \in work.resolved : At(l.name, l.version, l.sha))'
      BY <1>1, <1>3, <2>2 DEF ProjectInvariant, Fresh, Fetching
    <2>4. ~moved => (\A l \in work.resolved \ work.todo :
                        ShaOf(PinOf(l.name, l.version, before.lock)) \subseteq {l.sha})'
      BY <1>1, <1>3, <2>1 DEF ProjectInvariant, Fresh, Fetching, ShaOf, PinOf
    <2>5. ~moved => (\A k \in lock : k \in before.lock \/ At(k.name, k.version, k.sha))'
      BY <1>1, <2>1, <2>2 DEF ProjectInvariant, Fresh, Fetching
    <2>6. (\A x \in work.unpacking : At(x.pin.name, x.pin.version, x.sha))'
      BY <1>3, <1>4, <2>2
    <2> QED BY <1>6, <2>1, <2>3, <2>4, <2>5, <2>6 DEF Fresh
  <1> QED BY <1>5, <1>6, <1>7, <1>8, <1>9 DEF ProjectInvariant

LEMMA ExtractHolds ==
  ASSUME ProjectInvariant, Extract
  PROVE  ProjectInvariant'
  <1>1. PICK x \in work.unpacking : vendor' = [vendor EXCEPT ![<<x.pin.name, x.pin.version>>] = x.sha]
    BY DEF Extract
  <1>2. /\ pc = "extract" /\ pc' = "pin" /\ UNCHANGED <<manifest, lock, cmd, before, work, result, moved>>
        /\ UNCHANGED resolveVars
    BY DEF Extract, Goto, run
  <1>3. x.sha \in Contents
    BY DEF ProjectInvariant, Locals, Work
  <1>4. Files' /\ Locals'
    BY <1>1, <1>2, <1>3 DEF ProjectInvariant, Files, Locals
  <1>5. ResolveInvariant' /\ DOMAIN source' = {} /\ outcome' = "none" /\ catalog' = catalog
    BY <1>2, ResolverIdles
  <1>6. Control' /\ RolledBack'
    BY <1>2, <1>5 DEF ProjectInvariant, Control, Places, RolledBack, AddAllOrNothing
  <1>7. Locked' /\ Fresh'
    BY <1>2, <1>5 DEF ProjectInvariant, Locked, Fresh, Fetching, At, PinOf, ShaOf
  <1> QED BY <1>4, <1>5, <1>6, <1>7 DEF ProjectInvariant

LEMMA PinLockHolds ==
  ASSUME ProjectInvariant, PinLock
  PROVE  ProjectInvariant'
  <1>1. PICK x \in work.unpacking :
          /\ lock' = Upserted(x.pin, x.sha)
          /\ pc' = "ensure" /\ work' = [work EXCEPT !.todo = @ \ {x.pin}, !.unpacking = {}]
    BY DEF PinLock, GotoWith
  <1>2. pc = "pin" /\ UNCHANGED <<manifest, vendor, cmd, before, result, moved>> /\ UNCHANGED resolveVars
    BY DEF PinLock, run
  <1>3. x.sha \in Contents /\ x.pin \in work.resolved
        /\ ShaOf(PinOf(x.pin.name, x.pin.version, before.lock)) \subseteq {x.sha}
        /\ (~moved => At(x.pin.name, x.pin.version, x.sha))
    BY <1>2 DEF ProjectInvariant, Locals, Work, Locked, Fresh, Fetching
  <1>4. {} \in SUBSET [pin : Pins, sha : Contents]
    OBVIOUS
  <1> QED BY <1>1, <1>2, <1>3, <1>4, PinnedHolds DEF Fetching

LEMMA EnsureFailsHolds ==
  ASSUME ProjectInvariant, EnsureFails
  PROVE  ProjectInvariant'
  <1>1. pc \in Fetching /\ Fail /\ UNCHANGED <<files, run>> /\ UNCHANGED resolveVars
    BY DEF EnsureFails, Fetching
  <1>2. ResolveInvariant' /\ DOMAIN source' = {} /\ outcome' = "none"
    BY <1>1, ResolverIdles DEF Fetching
  <1> QED BY <1>1, <1>2, FailHolds

\* What install keeps of the lock file are packages it has not resolved.
LEMMA PruneHolds ==
  ASSUME ProjectInvariant, Prune
  PROVE  ProjectInvariant'
  <1>1. /\ pc = "ensure" /\ lock' = work.resolved \union Kept /\ End("ok")
        /\ UNCHANGED <<manifest, vendor, cmd, before>> /\ UNCHANGED resolveVars /\ UNCHANGED run
    BY DEF Prune, run
  <1>2. GoodLock(work.resolved) /\ GoodLock(before.lock) /\ work.locks = before.lock
    BY <1>1 DEF ProjectInvariant, Locals, Files, Locked, Fetching
  <1>3. Kept \subseteq before.lock /\ \A l \in Kept : PinOf(l.name, l.version, work.resolved) = {}
    BY <1>2 DEF Kept
  <1>4. GoodLock(lock')
    <2>1. IsFiniteSet(Kept)
      BY <1>2, <1>3, FS_Subset DEF GoodLock
    <2>2. IsFiniteSet(lock')
      BY <1>1, <1>2, <2>1, FS_Union DEF GoodLock
    <2>3. \A k, l \in lock' : k.name = l.name /\ k.version = l.version => k = l
      BY <1>1, <1>2, <1>3 DEF GoodLock, PinOf
    <2> QED BY <1>1, <1>2, <1>3, <2>2, <2>3 DEF GoodLock
  <1>5. Files' /\ AddAllOrNothing'
    BY <1>1, <1>4 DEF ProjectInvariant, Files, AddAllOrNothing, End
  <1>6. ResolveInvariant' /\ DOMAIN source' = {} /\ outcome' = "none"
    BY <1>1, ResolverIdles
  <1> QED BY <1>1, <1>5, <1>6, EndHolds

-----------------------------------------------------------------------------

LEMMA EmptiedIsManifest == GoodManifest(Emptied)
  <1>1. <<>> \in Seq(Titles) /\ IsFiniteSet({})
    BY FS_EmptySet
  <1> QED BY <1>1 DEF GoodManifest, Emptied

\* What is left of the vendored packages is vendored.
LEMMA ClearedIsTyped ==
  ASSUME Files, NEW gone, NEW stuck, NEW torn
  PROVE  Cleared(gone, stuck, torn) \in [Packages \X Releases -> Contents \union {None, Partial}]
  BY DEF Files, Cleared

\* The manifest is put back, or that fails.
LEMMA RestoreManifestHolds ==
  ASSUME ProjectInvariant, RestoreManifest \/ ManifestUnrestored
  PROVE  ProjectInvariant'
  <1>1. /\ pc = "restore" /\ pc' = "restore lock"
        /\ \/ manifest' = before.manifest
           \/ manifest' \in {manifest, Emptied} /\ "manifest" \in unwritten'
        /\ UNCHANGED <<lock, vendor, cmd, before, work, result, moved>> /\ UNCHANGED resolveVars
    BY DEF RestoreManifest, ManifestUnrestored, Goto, run
  <1>2. ResolveInvariant' /\ DOMAIN source' = {} /\ outcome' = "none"
    BY <1>1, ResolverIdles
  <1>3. Files' /\ Locals'
    BY <1>1, EmptiedIsManifest DEF ProjectInvariant, Files, Locals
  <1>4. Control' /\ RolledBack'
    BY <1>1, <1>2 DEF ProjectInvariant, Control, Places, RolledBack, AddAllOrNothing
  <1>5. Locked' /\ Fresh'
    BY <1>1, <1>2 DEF ProjectInvariant, Locked, Fresh, Fetching, PinOf
  <1> QED BY <1>2, <1>3, <1>4, <1>5 DEF ProjectInvariant

\* So is the lock file, whatever became of the manifest.
LEMMA RestoreLockHolds ==
  ASSUME ProjectInvariant, RestoreLock \/ LockUnrestored
  PROVE  ProjectInvariant'
  <1>1. /\ pc = "restore lock" /\ pc' = "restore vendor" /\ unwritten \subseteq unwritten'
        /\ lock' = before.lock \/ (lock' \in {lock, {}} /\ "lock" \in unwritten')
        /\ UNCHANGED <<manifest, vendor, cmd, before, work, result>> /\ UNCHANGED resolveVars
    BY DEF RestoreLock, LockUnrestored, Goto, run
  <1>2. ResolveInvariant' /\ DOMAIN source' = {} /\ outcome' = "none"
    BY <1>1, ResolverIdles
  <1>5. GoodLock({})
    BY FS_EmptySet DEF GoodLock
  <1>3. Files' /\ Locals'
    BY <1>1, <1>5 DEF ProjectInvariant, Files, Locals
  <1>4. RolledBack' /\ result' = "running"
    BY <1>1 DEF ProjectInvariant, Control, RolledBack, AddAllOrNothing
  <1> QED BY <1>1, <1>2, <1>3, <1>4, QuietHolds DEF Places, Fetching

LEMMA RestoreVendorHolds ==
  ASSUME ProjectInvariant, RestoreVendor \/ VendorUnrestored
  PROVE  ProjectInvariant'
  <1>1. /\ pc = "restore vendor" /\ End("failed") /\ UNCHANGED <<manifest, lock, cmd, before>>
        /\ UNCHANGED resolveVars /\ UNCHANGED run /\ unwritten \subseteq unwritten'
        /\ \E gone, stuck, torn : vendor' = Cleared(gone, stuck, torn)
    BY DEF RestoreVendor, VendorUnrestored, run
  <1>2. ResolveInvariant' /\ DOMAIN source' = {} /\ outcome' = "none"
    BY <1>1, ResolverIdles
  <1>6. PICK gone, stuck, torn : vendor' = Cleared(gone, stuck, torn)
    BY <1>1
  <1>3. vendor' \in [Packages \X Releases -> Contents \union {None, Partial}]
    BY <1>6, ClearedIsTyped DEF ProjectInvariant
  <1>4. Files'
    BY <1>1, <1>3 DEF ProjectInvariant, Files
  <1>5. AddAllOrNothing'
    BY <1>1 DEF ProjectInvariant, RolledBack, AddAllOrNothing
  <1> QED BY <1>1, <1>2, <1>4, <1>5, EndHolds

\* The edit of an add or a remove fails, before anything else was written.
LEMMA ManifestUnwrittenHolds ==
  ASSUME ProjectInvariant, ManifestUnwritten
  PROVE  ProjectInvariant'
  <1>1. /\ pc \in {"edit", "unlist"} /\ End("failed") /\ manifest' \in {manifest, Emptied}
        /\ "manifest" \in unwritten' /\ UNCHANGED <<lock, vendor, cmd, before>>
        /\ UNCHANGED resolveVars /\ UNCHANGED run
    BY DEF ManifestUnwritten, run
  <1>2. ResolveInvariant' /\ DOMAIN source' = {} /\ outcome' = "none"
    BY <1>1, ResolverIdles
  <1>3. Files'
    BY <1>1, EmptiedIsManifest DEF ProjectInvariant, Files
  <1>4. AddAllOrNothing'
    BY <1>1 DEF ProjectInvariant, RolledBack, AddAllOrNothing
  <1> QED BY <1>1, <1>2, <1>3, <1>4, EndHolds

\* A manifest with fewer requirements.
LEMMA UnlistHolds ==
  ASSUME ProjectInvariant, Unlist
  PROVE  ProjectInvariant'
  <1>1. /\ pc = "unlist" /\ pc' = "unvendor" /\ UNCHANGED <<lock, vendor, cmd, before, work, result>>
        /\ UNCHANGED resolveVars
        /\ manifest' = [manifest EXCEPT !.reqs = [s \in Sections |-> {r \in @[s] : r.name \notin Removed}]]
    BY DEF Unlist, Goto, run
  <1>2. ResolveInvariant' /\ DOMAIN source' = {} /\ outcome' = "none"
    BY <1>1, ResolverIdles
  <1>3. GoodManifest(manifest)
    BY DEF ProjectInvariant, Files
  <1>4. GoodManifest(manifest')
    <2>1. manifest' \in [heads : Seq(Titles), reqs : [Sections -> SUBSET Requirement]]
          /\ manifest'.heads = manifest.heads /\ \A s \in Sections : manifest'.reqs[s] \subseteq manifest.reqs[s]
      BY <1>1, <1>3 DEF GoodManifest
    <2>2. \A s \in Sections : IsFiniteSet(manifest'.reqs[s])
      BY <1>3, <2>1, FS_Subset DEF GoodManifest
    <2> QED BY <1>3, <2>1, <2>2 DEF GoodManifest
  <1>5. Files' /\ Locals'
    BY <1>1, <1>4 DEF ProjectInvariant, Files, Locals
  <1>6. RolledBack' /\ result' = "running"
    BY <1>1 DEF ProjectInvariant, Control, RolledBack, AddAllOrNothing
  <1> QED BY <1>1, <1>2, <1>5, <1>6, QuietHolds DEF Places, Fetching

LEMMA UnvendorHolds ==
  ASSUME ProjectInvariant, Unvendor
  PROVE  ProjectInvariant'
  <1>1. /\ pc = "unvendor" /\ pc' = "unlock" /\ UNCHANGED <<manifest, lock, cmd, before, work, result>>
        /\ UNCHANGED resolveVars
        /\ vendor' = Cleared(RemovedDirs, {}, {})
    BY DEF Unvendor, Goto, run
  <1>2. ResolveInvariant' /\ DOMAIN source' = {} /\ outcome' = "none"
    BY <1>1, ResolverIdles
  <1>5. vendor' \in [Packages \X Releases -> Contents \union {None, Partial}]
    BY <1>1, ClearedIsTyped DEF ProjectInvariant
  <1>3. Files' /\ Locals'
    BY <1>1, <1>5 DEF ProjectInvariant, Files, Locals
  <1>4. RolledBack' /\ result' = "running"
    BY <1>1 DEF ProjectInvariant, Control, RolledBack, AddAllOrNothing
  <1> QED BY <1>1, <1>2, <1>3, <1>4, QuietHolds DEF Places, Fetching

\* A remove that fails half way keeps the lock file.
LEMMA RemoveFailsHolds ==
  ASSUME ProjectInvariant, UnvendorFails \/ UnlockFails
  PROVE  ProjectInvariant'
  <1>1. /\ pc \in {"unvendor", "unlock"} /\ End("failed") /\ UNCHANGED <<manifest, lock, cmd, before>>
        /\ UNCHANGED resolveVars /\ UNCHANGED run
        /\ vendor' = vendor \/ \E gone, stuck, torn : vendor' = Cleared(gone, stuck, torn)
    BY DEF UnvendorFails, UnlockFails, files, run
  <1>2. ResolveInvariant' /\ DOMAIN source' = {} /\ outcome' = "none"
    BY <1>1, ResolverIdles
  <1>3. Files'
    BY <1>1, ClearedIsTyped DEF ProjectInvariant, Files
  <1>4. AddAllOrNothing'
    BY <1>1 DEF ProjectInvariant, RolledBack, AddAllOrNothing
  <1> QED BY <1>1, <1>2, <1>3, <1>4, EndHolds

LEMMA UnlockHolds ==
  ASSUME ProjectInvariant, Unlock
  PROVE  ProjectInvariant'
  <1>1. /\ pc = "unlock" /\ End("ok") /\ UNCHANGED <<manifest, vendor, cmd, before>>
        /\ UNCHANGED resolveVars /\ UNCHANGED run /\ lock' \subseteq lock
    BY DEF Unlock, run
  <1>2. ResolveInvariant' /\ DOMAIN source' = {} /\ outcome' = "none"
    BY <1>1, ResolverIdles
  <1>3. GoodLock(lock')
    BY <1>1, FS_Subset DEF ProjectInvariant, Files, GoodLock
  <1>4. Files' /\ AddAllOrNothing'
    BY <1>1, <1>3 DEF ProjectInvariant, Files, AddAllOrNothing, End
  <1> QED BY <1>1, <1>2, <1>4, EndHolds

-----------------------------------------------------------------------------

LEMMA CrashHolds ==
  ASSUME ProjectInvariant, Crash
  PROVE  ProjectInvariant'
  <1>1. /\ manifest' \in {manifest, Emptied} /\ End("crashed") /\ ForgetResolution
        /\ UNCHANGED <<lock, vendor, cmd, before>> /\ UNCHANGED run
    BY DEF Crash, run
  <1>2. ResolveInvariant' /\ DOMAIN source' = {} /\ outcome' = "none"
    BY <1>1, ResolverForgets DEF ProjectInvariant
  <1>4. Files' /\ AddAllOrNothing'
    BY <1>1, EmptiedIsManifest DEF ProjectInvariant, Files, AddAllOrNothing, End
  <1> QED BY <1>1, <1>2, <1>4, EndHolds

\* The registry serves something else; the command is where it was.
LEMMA ServeHolds ==
  ASSUME ProjectInvariant, NEW n \in Packages, NEW releases, IsMetadata(releases), Serve(n, releases),
         ~moved' => Fresh'
  PROVE  ProjectInvariant'
  <1>1. /\ catalog' = [catalog EXCEPT ![n] = releases]
        /\ UNCHANGED <<source, roots, pinning, turns, outcome>>
        /\ UNCHANGED <<manifest, lock, vendor, cmd, before, pc, work, result, unwritten>>
    BY DEF Serve, files, run
  <1>2. CatalogOK'
    BY <1>1 DEF ProjectInvariant, ResolveInvariant, CatalogOK
  <1>3. ResolveInvariant'
    BY <1>1, <1>2, CatalogMayChange DEF ProjectInvariant
  <1>4. Files' /\ Locals'
    BY <1>1 DEF ProjectInvariant, Files, Locals
  <1>5. Control' /\ RolledBack'
    BY <1>1 DEF ProjectInvariant, Control, RolledBack, AddAllOrNothing
  <1>6. Locked'
    BY <1>1 DEF ProjectInvariant, Locked, Fetching, PinOf, ShaOf
  <1>7. Fresh'
    BY DEF Fresh
  <1> QED BY <1>3, <1>4, <1>5, <1>6, <1>7 DEF ProjectInvariant

LEMMA PublishHolds ==
  ASSUME ProjectInvariant, Publish
  PROVE  ProjectInvariant'
  <1>1. PICK u \in Upcoming :
          /\ u.version \notin DOMAIN catalog[u.name]
          /\ Serve(u.name, [v \in DOMAIN catalog[u.name] \union {u.version} |->
                IF v = u.version THEN u.release ELSE catalog[u.name][v]])
    BY DEF Publish
  <1> DEFINE releases == [v \in DOMAIN catalog[u.name] \union {u.version} |->
                IF v = u.version THEN u.release ELSE catalog[u.name][v]]
  <1>2. u.name \in Packages /\ u.version \in Releases /\ u.release \in Release
    BY UpcomingAssumption
  <1>3. CatalogOK
    BY DEF ProjectInvariant, ResolveInvariant
  <1>4. IsMetadata(releases)
    BY <1>2, <1>3 DEF CatalogOK, IsMetadata
  <1>5. /\ catalog' = [catalog EXCEPT ![u.name] = releases] /\ UNCHANGED moved
        /\ UNCHANGED <<source, lock, before, pc, work>>
    BY <1>1 DEF Serve, files, run, Publish
  <1>6. \A n \in Packages : \A v, sha : At(n, v, sha) => At(n, v, sha)'
    BY <1>1, <1>2, <1>3, <1>5 DEF At, CatalogOK
  <1>7. Fresh'
    <2>1. DOMAIN source \subseteq Packages /\ lock \subseteq Pins /\ work.resolved \subseteq Pins
          /\ \A x \in work.unpacking : x.pin \in Pins
      BY DEF ProjectInvariant, ResolveInvariant, ResolveTypeOK, Files, Locals, Work, GoodLock
    <2> QED BY <1>5, <1>6, <2>1 DEF ProjectInvariant, Fresh, Fetching, Pins, PinOf, ShaOf
  <1> QED BY <1>1, <1>2, <1>4, <1>7, ServeHolds

\* Other bytes are noticed by no command that starts afterwards.
LEMMA MoveHolds ==
  ASSUME ProjectInvariant, Move
  PROVE  ProjectInvariant'
  <1>1. PICK n \in Packages : \E v \in DOMAIN catalog[n], sha \in Contents :
          Serve(n, [catalog[n] EXCEPT ![v].sha = sha])
    BY DEF Move
  <1>6. PICK v \in DOMAIN catalog[n], sha \in Contents : Serve(n, [catalog[n] EXCEPT ![v].sha = sha])
    BY <1>1
  <1>2. CatalogOK
    BY DEF ProjectInvariant, ResolveInvariant
  <1>3. IsMetadata([catalog[n] EXCEPT ![v].sha = sha])
    BY <1>2 DEF CatalogOK, IsMetadata, Release
  <1>4. ~moved' => pc = "idle"
    BY DEF Move
  <1>5. ~moved' => Fresh'
    <2> SUFFICES ASSUME ~moved'
                 PROVE  Fresh'
      OBVIOUS
    <2>1. pc' = "idle" /\ DOMAIN source' = {}
      BY <1>4, <1>6 DEF ProjectInvariant, Control, Serve
    <2> QED BY <2>1 DEF Fresh, Fetching
  <1> QED BY <1>3, <1>5, <1>6, ServeHolds

\* A checkout is where a command may start.
LEMMA InitHolds ==
  ASSUME ProjectInit
  PROVE  ProjectInvariant
  <1>1. PICK heads \in Layouts, c \in Checkouts :
          /\ manifest = [heads |-> heads, reqs |-> [s \in Sections |-> IF s = "dependencies" THEN c.reqs ELSE {}]]
          /\ lock = c.lock
          /\ vendor = [p \in Packages \X Releases |-> IF c.vendored THEN VendoredAs(p, c.lock) ELSE None]
    BY DEF ProjectInit
  <1>2. /\ cmd = [kind |-> "fetch", specs |-> {}, section |-> "dependencies", caret |-> FALSE, offline |-> FALSE]
        /\ before = [manifest |-> manifest, lock |-> lock, vendor |-> vendor]
        /\ pc = "idle" /\ work = NoWork /\ result = "none" /\ moved = FALSE
        /\ outcome = "none" /\ source = <<>>
    BY DEF ProjectInit, Idle
  <1>3. ResolveInvariant
    BY RegistriesAssumption, IdleHolds DEF ProjectInit, CatalogOK
  <1>4. heads \in Seq(Titles) /\ c.reqs \subseteq Requirement /\ IsFiniteSet(c.reqs) /\ GoodLock(c.lock)
    BY LayoutsAssumption, CheckoutsAssumption DEF GoodLock
  <1>5. Has("dependencies") \/ c.reqs = {}
    BY <1>1 DEF ProjectInit, RootsOf, Sections
  <1>6. GoodManifest(manifest)
    <2>1. manifest \in [heads : Seq(Titles), reqs : [Sections -> SUBSET Requirement]]
      BY <1>1, <1>4
    <2>2. \A s \in Sections : IsFiniteSet(manifest.reqs[s])
      BY <1>1, <1>4, FS_EmptySet
    <2>3. \A s \in Sections : manifest.reqs[s] # {} => \E i \in DOMAIN manifest.heads : manifest.heads[i] = s
      BY <1>1, <1>5 DEF Has
    <2> QED BY <2>1, <2>2, <2>3 DEF GoodManifest
  <1>7. vendor \in [Packages \X Releases -> Contents \union {None, Partial}]
    <2>1. ASSUME NEW p \in Packages \X Releases
          PROVE  VendoredAs(p, c.lock) \in Contents \union {None}
      <3> DEFINE pins == PinOf(p[1], p[2], c.lock)
      <3>1. ShaOf(pins) \subseteq Contents /\ (pins # {} => ShaOf(pins) # {})
        BY <1>4 DEF ShaOf, PinOf, GoodLock, Pins
      <3> HIDE DEF pins
      <3>2. pins # {} => (CHOOSE sha \in ShaOf(pins) : TRUE) \in Contents
        BY <3>1
      <3> QED BY <3>2 DEF VendoredAs, pins
    <2> QED BY <1>1, <2>1
  <1>8. Files
    BY <1>1, <1>2, <1>4, <1>6, <1>7 DEF Files
  <1>9. Locals
    <2>1. cmd \in Command /\ IsFiniteSet(cmd.specs)
      BY <1>2, FS_EmptySet DEF Command, Kinds, Sections
    <2> QED BY <1>2, <2>1, NoWorkIsTyped DEF Locals
  <1>10. Control /\ RolledBack /\ Locked /\ Fresh
    <2>1. DOMAIN source = {}
      BY <1>2
    <2> QED BY <1>2, <2>1 DEF Control, Places, RolledBack, AddAllOrNothing, Locked, Fresh, Fetching
  <1> QED BY <1>3, <1>8, <1>9, <1>10 DEF ProjectInvariant

LEMMA StepHolds == ProjectInvariant /\ [ProjectNext]_projectVars => ProjectInvariant'
  <1> SUFFICES ASSUME ProjectInvariant, [ProjectNext]_projectVars
               PROVE  ProjectInvariant'
    OBVIOUS
  <1>1. CASE \E c \in Commands : Start(c)
    BY <1>1, StartHolds
  <1>2. CASE Add
    BY <1>2, ChooseOnlineHolds, ChosenHolds, ChooseLockedHolds, EditHolds DEF Add
  <1>7. CASE Rollback \/ ManifestUnwritten
    BY <1>7, RestoreManifestHolds, RestoreLockHolds, RestoreVendorHolds, ManifestUnwrittenHolds DEF Rollback
  <1>3. CASE Fetch
    <2>1. ASSUME NEW r \in work.todo, NEW sha \in Contents, AlreadyFetched(r, sha) \/ Download(r, sha)
          PROVE  ProjectInvariant'
      BY <2>1, AlreadyFetchedHolds, DownloadHolds
    <2> QED BY <1>3, <2>1, FetchLocalHolds, FetchOnlineHolds, ResolvedHolds, UnresolvedHolds,
               ResolveHolds, ExtractHolds, PinLockHolds, EnsureFailsHolds, PruneHolds DEF Fetch
  <1>4. CASE Remove
    BY <1>4, UnlistHolds, UnvendorHolds, UnlockHolds, RemoveFailsHolds DEF Remove
  <1>5. CASE Crash \/ Publish \/ Move
    BY <1>5, CrashHolds, PublishHolds, MoveHolds
  <1>6. CASE UNCHANGED projectVars
    <2>1. UNCHANGED resolveVars
          /\ UNCHANGED <<manifest, lock, vendor, cmd, before, pc, work, result, moved, unwritten, catalog, source, outcome, roots>>
      BY <1>6 DEF projectVars, files, run, resolveVars
    <2>2. ResolveInvariant'
      BY <2>1, ResolverRests DEF ProjectInvariant
    <2>3. Files' /\ Locals' /\ Control' /\ RolledBack'
      BY <2>1 DEF ProjectInvariant, Files, Locals, Control, RolledBack, AddAllOrNothing
    <2>4. Locked'
      BY <2>1 DEF ProjectInvariant, Locked, PinOf, ShaOf
    <2>5. Fresh'
      <3>1. UNCHANGED Fresh
        BY <2>1 DEF Fresh, PinOf, ShaOf, At
      <3> QED BY <3>1 DEF ProjectInvariant
    <2> QED BY <2>2, <2>3, <2>4, <2>5 DEF ProjectInvariant
  <1> QED BY <1>1, <1>2, <1>3, <1>4, <1>5, <1>6, <1>7 DEF ProjectNext

LEMMA ProjectHolds == ProjectSpec => []ProjectInvariant
  <1>1. ProjectInit => ProjectInvariant
    BY InitHolds
  <1> QED BY <1>1, StepHolds, PTL DEF ProjectSpec

-----------------------------------------------------------------------------

\* After every step of install, add and remove (registry.rs), of the resolver
\* and of the registry: the lock file names each version once, the manifest
\* has a section for each requirement it lists, and a resolution is under way
\* only where a command waits for one.
THEOREM ProjectTypes == ProjectSpec => []ProjectTypeOK
  <1>1. ProjectInvariant => ProjectTypeOK
    BY DEF ProjectInvariant, ResolveInvariant, Files, GoodManifest, GoodLock, Control, Has, ProjectTypeOK
  <1> QED BY <1>1, ProjectHolds, PTL

\* What install, add and fetch resolve satisfies every requirement of the
\* project and of what is resolved, whatever else happens to the registry
\* meanwhile (resolve_online and resolver.rs:38-168).
THEOREM ProjectSound == ProjectSpec => []Sound
  <1>1. ProjectInvariant => Sound
    BY InvariantMeansSound DEF ProjectInvariant
  <1> QED BY <1>1, ProjectHolds, PTL

\* It passes over no version that satisfies all that was asked for.
THEOREM ProjectPicksMaximum == ProjectSpec => []PicksMaximum
  <1>1. ProjectInvariant => PicksMaximum
    BY InvariantMeansMaximum DEF ProjectInvariant
  <1> QED BY <1>1, ProjectHolds, PTL

\* The rollback of a multi-add (registry.rs:2617-2626) restores the manifest
\* and the lock file from wherever it failed, before the manifest was edited,
\* during the resolution, or with some packages downloaded and pinned, and
\* each of the two when the other cannot be restored.  It says nothing of a
\* file whose own write failed.
THEOREM ProjectAddAllOrNothing == ProjectSpec => []AddAllOrNothing
  <1>1. ProjectInvariant => AddAllOrNothing
    BY DEF ProjectInvariant, RolledBack
  <1> QED BY <1>1, ProjectHolds, PTL

\* No step of any command gives another checksum to a version that is in the
\* lock file, as long as the registry replaces no bytes during the command
\* (ensure_fetched and prune_stale_pins, registry.rs): what a command writes
\* was advertised, and what was locked before must be what is advertised.
THEOREM ProjectNeverRepins == ProjectSpec => NeverRepinned
  <1> DEFINE Steady == \A k \in lock, l \in lock' :
                        k.name = l.name /\ k.version = l.version
                            => k.sha = l.sha \/ (moved /\ pc = "ensure" /\ work.todo = {})
  <1>1. ProjectInvariant /\ [ProjectNext]_projectVars => Steady
    <2> SUFFICES ASSUME ProjectInvariant, [ProjectNext]_projectVars,
                        ~(moved /\ pc = "ensure" /\ work.todo = {}),
                        NEW k \in lock, NEW l \in lock', k.name = l.name, k.version = l.version
                 PROVE  k.sha = l.sha
      OBVIOUS
    <2>1. GoodLock(lock) /\ GoodLock(before.lock)
      BY DEF ProjectInvariant, Files
    <2>2. CASE l \in lock
      BY <2>1, <2>2 DEF GoodLock
    <2>3. CASE l \in before.lock /\ (k \in before.lock \/ PinOf(k.name, k.version, before.lock) = {})
      BY <2>1, <2>3 DEF GoodLock, PinOf
    <2>4. CASE RestoreLock
      BY <2>3, <2>4 DEF ProjectInvariant, Locked, RestoreLock
    <2>5. CASE Prune
      <3>1. pc = "ensure" /\ work.todo = {} /\ ~moved /\ work.locks = before.lock
            /\ (l \in work.resolved \/ l \in before.lock)
        BY <2>5 DEF ProjectInvariant, Locked, Fetching, Prune, Kept
      <3>2. CASE l \in work.resolved
        <4>1. At(l.name, l.version, l.sha) /\ ShaOf(PinOf(l.name, l.version, before.lock)) \subseteq {l.sha}
          BY <3>1, <3>2 DEF ProjectInvariant, Fresh, Fetching
        <4>2. k \in before.lock \/ At(k.name, k.version, k.sha)
          BY <3>1 DEF ProjectInvariant, Fresh, Fetching
        <4> QED BY <4>1, <4>2 DEF At, ShaOf, PinOf
      <3>3. CASE l \in before.lock
        BY <2>3, <3>1, <3>3 DEF ProjectInvariant, Locked, Fetching
      <3> QED BY <3>1, <3>2, <3>3
    <2>6. ASSUME NEW r \in work.todo, NEW sha \in Contents, lock' = Upserted(r, sha), pc \in Fetching,
                 ShaOf(PinOf(r.name, r.version, before.lock)) \subseteq {sha}
          PROVE  k.sha = l.sha
      <3>1. CASE l \in lock
        BY <2>2, <3>1
      <3>2. CASE l = [name |-> r.name, version |-> r.version, sha |-> sha]
        <4>1. GoodLock(work.resolved) /\ r \in work.resolved
          BY <2>6 DEF ProjectInvariant, Locals, Locked
        <4>2. PinOf(r.name, r.version, work.resolved \ work.todo) = {}
          BY <4>1 DEF PinOf, GoodLock
        <4>3. k \in before.lock
          BY <2>6, <3>2, <4>2 DEF ProjectInvariant, Locked
        <4> QED BY <2>6, <3>2, <4>3 DEF ShaOf, PinOf
      <3> QED BY <2>6, <3>1, <3>2 DEF Upserted
    <2>7. ASSUME NEW r \in work.todo, NEW sha \in Contents, AlreadyFetched(r, sha)
          PROVE  k.sha = l.sha
      <3>1. lock' = lock \/ lock' = Upserted(r, sha)
        BY <2>7 DEF AlreadyFetched
      <3>2. pc = "ensure" /\ Advertises(r, sha) /\ work.locks = before.lock
        BY <2>7 DEF AlreadyFetched, ProjectInvariant, Locked, Fetching
      <3> QED BY <2>2, <2>6, <3>1, <3>2 DEF Advertises, Fetching
    <2>8. CASE PinLock
      <3>1. PICK x \in work.unpacking : lock' = Upserted(x.pin, x.sha)
        BY <2>8 DEF PinLock
      <3>2. pc = "pin" /\ x.sha \in Contents
        BY <2>8 DEF PinLock, ProjectInvariant, Locals, Work
      <3>3. x.pin \in work.todo /\ ShaOf(PinOf(x.pin.name, x.pin.version, before.lock)) \subseteq {x.sha}
        BY <3>2 DEF ProjectInvariant, Locked
      <3> QED BY <2>6, <3>1, <3>2, <3>3 DEF Fetching
    <2>9. CASE lock' \subseteq lock
      BY <2>2, <2>9
    <2>10. CASE Add \/ Rollback \/ ManifestUnwritten
      BY <2>4, <2>9, <2>10 DEF Add, ChooseOnline, Chosen, ChooseLocked, Edit, files, ManifestUnwritten,
         Rollback, RestoreManifest, RestoreVendor, ManifestUnrestored, LockUnrestored, VendorUnrestored
    <2>11. CASE Fetch
      <3>1. ASSUME NEW r \in work.todo, NEW sha \in Contents, Download(r, sha)
            PROVE  lock' \subseteq lock
        BY <3>1 DEF Download
      <3>2. CASE FetchNothing \/ FetchOffline \/ FetchOnline \/ Resolved \/ Unresolved \/ Resolve \/ Extract \/ EnsureFails
        BY <2>9, <3>2 DEF FetchNothing, FetchOffline, FetchOnline, Resolved, Unresolved, Resolve, Extract,
           EnsureFails, files
      <3> QED BY <2>5, <2>7, <2>8, <2>9, <2>11, <3>1, <3>2 DEF Fetch
    <2>12. CASE Remove
      BY <2>9, <2>12 DEF Remove, Unlist, Unvendor, UnvendorFails, Unlock, UnlockFails, files
    <2>13. CASE (\E c \in Commands : Start(c)) \/ Crash \/ Publish \/ Move \/ UNCHANGED projectVars
      BY <2>9, <2>13 DEF Start, Crash, Publish, Move, Serve, projectVars, files
    <2> QED BY <2>10, <2>11, <2>12, <2>13 DEF ProjectNext
  <1> QED BY <1>1, ProjectHolds, PTL DEF ProjectSpec, NeverRepinned

-----------------------------------------------------------------------------
(***************************************************************************)
(* What a fetch completes.  Complete is inductive next to ProjectInvariant: *)
(* the pins of a fetch settle all that is required, each is vendored before *)
(* it leaves the list of what is to do, and the lock file ends as the pins. *)
(***************************************************************************)

DepsIn(cat, pins) == UNION {cat[l.name][l.version].deps : l \in pins}

\* One version of each package, and every requirement met, their own too.
Settles(cat, pins, reqs) ==
    /\ \A k, l \in pins : k.name = l.name => k = l
    /\ \A l \in pins : l.version \in DOMAIN cat[l.name]
    /\ \A r \in reqs \union DepsIn(cat, pins) :
          \E l \in pins : l.name = r.name /\ Satisfies(l.version, r.req)

\* A release keeps its dependencies, also when its bytes are replaced.
SameDeps ==
    \A n \in DOMAIN source : \A v \in DOMAIN source[n] :
        v \in DOMAIN catalog[n] /\ catalog[n][v].deps = source[n][v].deps

FetchesRoots ==
    /\ pc \in {"fetch"} \union Fetching /\ cmd.kind # "install" => work.fetching = RootsOf(manifest)
    /\ outcome # "none" /\ pc = "fetch" => roots = work.fetching
    /\ pc \in {"unlist", "unvendor", "unlock"} => cmd.kind = "remove"

VendoredLike(l) == vendor[<<l.name, l.version>>] = l.sha

Vendoring ==
    /\ pc \in Fetching => Settles(catalog, work.resolved, work.fetching)
    /\ pc \in Fetching /\ ~moved => \A l \in work.resolved \ work.todo : VendoredLike(l)
    /\ pc \in {"extract", "pin"} =>
          \A u \in work.unpacking : u.pin \in work.todo /\ work.unpacking = {u}
    /\ pc = "pin" => \A u \in work.unpacking : vendor[<<u.pin.name, u.pin.version>>] = u.sha

Success ==
    pc = "idle" /\ result = "ok" /\ cmd.kind \in {"fetch", "add", "add many"} /\ ~cmd.offline /\ ~moved
    /\ RootsOf(manifest) # {}

Delivered ==
    Success => Settles(catalog, lock, RootsOf(manifest)) /\ \A l \in lock : VendoredLike(l)

Complete == SameDeps /\ FetchesRoots /\ Vendoring /\ Delivered

-----------------------------------------------------------------------------

LEMMA DepsRest ==
  ASSUME SameDeps, UNCHANGED <<source, catalog>>
  PROVE  SameDeps'
  BY DEF SameDeps

LEMMA DepsForgotten ==
  ASSUME DOMAIN source' = {}
  PROVE  SameDeps'
  BY DEF SameDeps

\* A registry that keeps the dependencies of a version keeps what it settles.
LEMMA SettlesStays ==
  ASSUME NEW cat, NEW other, NEW pins, NEW reqs, Settles(cat, pins, reqs),
         \A l \in pins : /\ l.version \in DOMAIN other[l.name]
                         /\ other[l.name][l.version].deps = cat[l.name][l.version].deps
  PROVE  Settles(other, pins, reqs)
  <1>1. DepsIn(other, pins) = DepsIn(cat, pins)
    BY DEF DepsIn
  <1> QED BY <1>1 DEF Settles

\* A step to a place where nothing is fetched, or that reports no success.
LEMMA ElsewhereCompletes ==
  ASSUME SameDeps', pc' \notin {"fetch"} \union Fetching \union {"unlist", "unvendor", "unlock"}, ~Success'
  PROVE  Complete'
  BY DEF Complete, FetchesRoots, Vendoring, Delivered, Fetching

LEMMA FailCompletes ==
  ASSUME Fail, SameDeps'
  PROVE  Complete'
  <1>1. pc' = "restore" \/ (pc' = "idle" /\ result' = "failed")
    BY DEF Fail, End
  <1> QED BY <1>1, ElsewhereCompletes DEF Success, Fetching

LEMMA StartCompletes ==
  ASSUME ProjectInvariant, Complete, NEW c \in Commands, Start(c)
  PROVE  Complete'
  <1>1. /\ pc = "idle" /\ cmd' = c /\ manifest' = manifest /\ UNCHANGED resolveVars
        /\ \/ c.kind \in {"fetch", "install"} /\ pc' = "fetch"
           \/ c.kind \in {"add", "add many"} /\ pc' = "choose"
           \/ c.kind = "remove" /\ pc' = "unlist"
    BY DEF Start, files
  <1>2. work'.fetching = IF c.kind = "install" THEN c.specs ELSE RootsOf(manifest)
    BY DEF Start, NoWork
  <1>3. SameDeps' /\ outcome' = "none"
    BY <1>1, DepsRest DEF resolveVars, Complete, ProjectInvariant, Control
  <1>4. RootsOf(manifest)' = RootsOf(manifest)
    BY <1>1
  <1>5. FetchesRoots' /\ Vendoring' /\ Delivered'
    BY <1>1, <1>2, <1>3, <1>4 DEF FetchesRoots, Vendoring, Delivered, Success, Fetching
  <1> QED BY <1>3, <1>5 DEF Complete

LEMMA EditCompletes ==
  ASSUME ProjectInvariant, Complete, Edit
  PROVE  Complete'
  <1>1. /\ pc = "edit" /\ pc' = "fetch" /\ UNCHANGED resolveVars
        /\ work'.fetching = RootsOf(manifest')
    BY DEF Edit, GotoWith, ProjectInvariant, Locals, Work
  <1>2. SameDeps' /\ outcome' = "none"
    BY <1>1, DepsRest DEF resolveVars, Complete, ProjectInvariant, Control
  <1>3. FetchesRoots' /\ Vendoring' /\ Delivered'
    BY <1>1, <1>2 DEF FetchesRoots, Vendoring, Delivered, Success, Fetching
  <1> QED BY <1>2, <1>3 DEF Complete

LEMMA FetchOnlineCompletes ==
  ASSUME ProjectInvariant, Complete, FetchOnline
  PROVE  Complete'
  <1>1. /\ pc = "fetch" /\ roots' = work.fetching /\ source' = <<>>
        /\ UNCHANGED <<manifest, cmd, pc, work>>
    BY DEF FetchOnline, Begin, files, run
  <1>2. SameDeps'
    BY <1>1, DepsForgotten
  <1>3. FetchesRoots' /\ Vendoring' /\ Delivered'
    BY <1>1 DEF Complete, FetchesRoots, Vendoring, Delivered, Success, Fetching
  <1> QED BY <1>2, <1>3 DEF Complete

\* The pins are what the resolver promises (Sound), of this registry.
LEMMA ResolvedCompletes ==
  ASSUME ProjectInvariant, Complete, Resolved
  PROVE  Complete'
  <1> DEFINE pin(n) == [name |-> n, version |-> pinned[n], sha |-> source[n][pinned[n]].sha]
             pins == {pin(n) : n \in Pinned}
  <1>1. /\ pc = "fetch" /\ outcome = "ok" /\ pc' = "ensure" /\ ForgetResolution
        /\ work' = [work EXCEPT !.resolved = pins, !.todo = pins, !.locks = lock]
        /\ UNCHANGED <<manifest, cmd>>
    BY DEF Resolved, GotoWith, files, run
  <1>2. /\ work'.resolved = pins /\ work'.todo = pins /\ work'.fetching = work.fetching
    BY <1>1 DEF ProjectInvariant, Locals, Work
  <1>3. SameDeps' /\ catalog' = catalog
    BY <1>1, DepsForgotten, ResolverForgets DEF ProjectInvariant
  <1>4. roots = work.fetching
    BY <1>1 DEF Complete, FetchesRoots
  <1>5. \A n \in Pinned :
           /\ n \in DOMAIN source /\ pinned[n] \in DOMAIN source[n] /\ IsMetadata(source[n])
           /\ pinned[n] \in DOMAIN catalog[n] /\ catalog[n][pinned[n]].deps = source[n][pinned[n]].deps
    BY DEF Pinned, ProjectInvariant, ResolveInvariant, ResolveTypeOK, Complete, SameDeps
  <1>6. DepsIn(catalog, pins) \subseteq DepsOfPins
    BY <1>5 DEF DepsIn, DepsOfPins
  <1>7. \A r \in roots \union DepsOfPins : r.name \in Packages
    <2>1. roots \subseteq Requirement
      BY DEF ProjectInvariant, ResolveInvariant, ResolveTypeOK
    <2>2. \A n \in Pinned : source[n][pinned[n]] \in Release
      BY <1>5 DEF IsMetadata
    <2>3. DepsOfPins \subseteq Requirement
      BY <2>2 DEF DepsOfPins, Release
    <2> QED BY <2>1, <2>3 DEF Requirement
  <1>8. \A r \in roots \union DepsOfPins : pinned[r.name] # None /\ Satisfies(pinned[r.name], r.req)
    BY <1>1, InvariantMeansSound DEF ProjectInvariant, Sound
  <1>9. \A r \in roots \union DepsOfPins :
           pin(r.name) \in pins /\ pin(r.name).name = r.name /\ Satisfies(pin(r.name).version, r.req)
    BY <1>7, <1>8 DEF Pinned
  <1>10. Settles(catalog, pins, work.fetching)
    <2>1. \A k, l \in pins : k.name = l.name => k = l
      OBVIOUS
    <2>2. \A l \in pins : l.version \in DOMAIN catalog[l.name]
      BY <1>5
    <2> HIDE DEF pins, pin
    <2>3. \A r \in work.fetching \union DepsIn(catalog, pins) :
            \E l \in pins : l.name = r.name /\ Satisfies(l.version, r.req)
      BY <1>4, <1>6, <1>9
    <2> QED BY <2>1, <2>2, <2>3 DEF Settles
  <1> HIDE DEF pins
  <1>11. Vendoring' /\ Delivered'
    BY <1>1, <1>2, <1>3, <1>10 DEF Vendoring, Delivered, Success, Fetching
  <1>12. RootsOf(manifest') = RootsOf(manifest)
    BY <1>1
  <1>13. FetchesRoots'
    BY <1>1, <1>2, <1>12 DEF Complete, FetchesRoots, Fetching
  <1> QED BY <1>3, <1>11, <1>13 DEF Complete

LEMMA ResolveCompletes ==
  ASSUME ProjectInvariant, Complete, Resolve
  PROVE  Complete'
  <1>1. /\ outcome = "running" /\ UNCHANGED <<catalog, roots>>
        /\ \A n \in DOMAIN source' : source'[n] = IF n \in DOMAIN source THEN source[n] ELSE catalog[n]
    BY ResolverReads DEF Resolve, ProjectInvariant
  <1>2. pc \in {"choose", "fetch"} /\ UNCHANGED <<manifest, cmd, pc, work>>
    BY <1>1 DEF Resolve, files, run, ProjectInvariant, Control
  <1>3. SameDeps'
    BY <1>1 DEF Complete, SameDeps
  <1>4. FetchesRoots' /\ Vendoring' /\ Delivered'
    BY <1>1, <1>2 DEF Complete, FetchesRoots, Vendoring, Delivered, Success, Fetching
  <1> QED BY <1>3, <1>4 DEF Complete

-----------------------------------------------------------------------------

\* The steps that vendor leave alone what the fetch is for.
LEMMA VendoringGoesOn ==
  ASSUME ProjectInvariant, Complete, UNCHANGED <<resolveVars, manifest, cmd>>,
         pc \in Fetching, pc' \in Fetching,
         work'.fetching = work.fetching, work'.resolved = work.resolved
  PROVE  /\ SameDeps' /\ FetchesRoots' /\ Delivered'
         /\ Settles(catalog, work.resolved, work.fetching)'
  <1>1. UNCHANGED <<source, catalog, roots, outcome>>
    BY DEF resolveVars
  <1>2. SameDeps'
    BY <1>1, DepsRest DEF Complete
  <1>3. FetchesRoots' /\ Delivered'
    BY <1>1 DEF Complete, FetchesRoots, Delivered, Success, Fetching
  <1>4. Settles(catalog, work.resolved, work.fetching)
    BY DEF Complete, Vendoring
  <1> QED BY <1>1, <1>2, <1>3, <1>4

\* Two pins of one version are one.
LEMMA OnePin ==
  ASSUME ProjectInvariant, NEW k \in work.resolved, NEW l \in work.resolved,
         <<k.name, k.version>> = <<l.name, l.version>>
  PROVE  k = l
  BY DEF ProjectInvariant, Locals, GoodLock

LEMMA AlreadyFetchedCompletes ==
  ASSUME ProjectInvariant, Complete, NEW r \in work.todo, NEW sha \in Contents, AlreadyFetched(r, sha)
  PROVE  Complete'
  <1>1. /\ pc = "ensure" /\ pc' = "ensure" /\ work' = [work EXCEPT !.todo = @ \ {r}]
        /\ Advertises(r, sha) /\ vendor[<<r.name, r.version>>] = sha
        /\ UNCHANGED <<resolveVars, manifest, vendor, cmd, moved>>
    BY DEF AlreadyFetched, Done, GotoWith, run
  <1>2. work'.todo = work.todo \ {r} /\ work'.fetching = work.fetching /\ work'.resolved = work.resolved
    BY <1>1 DEF ProjectInvariant, Locals, Work
  <1>3. SameDeps' /\ FetchesRoots' /\ Delivered' /\ Settles(catalog, work.resolved, work.fetching)'
    BY <1>1, <1>2, VendoringGoesOn DEF Fetching
  <1>4. ASSUME ~moved
        PROVE  VendoredLike(r)
    <2>1. r \in work.resolved
      BY <1>1 DEF ProjectInvariant, Locked, Fetching
    <2>2. At(r.name, r.version, r.sha)
      BY <1>1, <1>4, <2>1 DEF ProjectInvariant, Fresh, Fetching
    <2> QED BY <1>1, <2>2 DEF Advertises, At, VendoredLike
  <1>5. ~moved => \A l \in work.resolved \ work.todo : VendoredLike(l)
    BY <1>1 DEF Complete, Vendoring, Fetching
  <1>6. Vendoring'
    BY <1>1, <1>2, <1>3, <1>4, <1>5 DEF Vendoring, VendoredLike, Fetching
  <1> QED BY <1>3, <1>6 DEF Complete

LEMMA DownloadCompletes ==
  ASSUME ProjectInvariant, Complete, NEW r \in work.todo, NEW sha \in Contents, Download(r, sha)
  PROVE  Complete'
  <1>1. /\ pc = "ensure" /\ pc' = "extract" /\ work' = [work EXCEPT !.unpacking = {[pin |-> r, sha |-> sha]}]
        /\ vendor' = [vendor EXCEPT ![<<r.name, r.version>>] = Partial]
        /\ UNCHANGED <<resolveVars, manifest, cmd, moved>>
    BY DEF Download, GotoWith, run
  <1>2. /\ work'.unpacking = {[pin |-> r, sha |-> sha]} /\ work'.todo = work.todo
        /\ work'.fetching = work.fetching /\ work'.resolved = work.resolved
    BY <1>1 DEF ProjectInvariant, Locals, Work
  <1>3. SameDeps' /\ FetchesRoots' /\ Delivered' /\ Settles(catalog, work.resolved, work.fetching)'
    BY <1>1, <1>2, VendoringGoesOn DEF Fetching
  <1>4. ~moved => \A l \in work.resolved \ work.todo : vendor[<<l.name, l.version>>] = l.sha
    BY <1>1 DEF Complete, Vendoring, VendoredLike, Fetching
  <1>5. \A l \in work.resolved \ work.todo : vendor'[<<l.name, l.version>>] = vendor[<<l.name, l.version>>]
    <2>1. r \in work.resolved
      BY <1>1 DEF ProjectInvariant, Locked, Fetching
    <2>2. \A l \in work.resolved \ work.todo : <<l.name, l.version>> # <<r.name, r.version>>
      BY <2>1, OnePin
    <2>3. vendor \in [Packages \X Releases -> Contents \union {None, Partial}] /\ work.resolved \subseteq Pins
      BY DEF ProjectInvariant, Files, Locals, Work
    <2> QED BY <1>1, <2>2, <2>3 DEF Pins
  <1>6. Vendoring'
    BY <1>1, <1>2, <1>3, <1>4, <1>5 DEF Vendoring, VendoredLike, Fetching
  <1> QED BY <1>3, <1>6 DEF Complete

LEMMA ExtractCompletes ==
  ASSUME ProjectInvariant, Complete, Extract
  PROVE  Complete'
  <1>1. PICK x \in work.unpacking : vendor' = [vendor EXCEPT ![<<x.pin.name, x.pin.version>>] = x.sha]
    BY DEF Extract
  <1>2. /\ pc = "extract" /\ pc' = "pin" /\ work' = work
        /\ UNCHANGED <<resolveVars, manifest, cmd, moved>>
    BY DEF Extract, Goto, run
  <1>3. SameDeps' /\ FetchesRoots' /\ Delivered' /\ Settles(catalog, work.resolved, work.fetching)'
    BY <1>2, VendoringGoesOn DEF Fetching
  <1>4. x.pin \in work.todo /\ work.unpacking = {x} /\ x.pin \in work.resolved
    BY <1>2 DEF Complete, Vendoring, ProjectInvariant, Locked, Fetching
  <1>5. vendor \in [Packages \X Releases -> Contents \union {None, Partial}] /\ work.resolved \subseteq Pins
    BY DEF ProjectInvariant, Files, Locals, Work
  <1>6. ~moved => \A l \in work.resolved \ work.todo : vendor[<<l.name, l.version>>] = l.sha
    BY <1>2 DEF Complete, Vendoring, VendoredLike, Fetching
  <1>7. \A l \in work.resolved \ work.todo : vendor'[<<l.name, l.version>>] = vendor[<<l.name, l.version>>]
    <2>1. \A l \in work.resolved \ work.todo : <<l.name, l.version>> # <<x.pin.name, x.pin.version>>
      BY <1>4, OnePin
    <2> QED BY <1>1, <1>5, <2>1 DEF Pins
  <1>8. vendor'[<<x.pin.name, x.pin.version>>] = x.sha
    BY <1>1, <1>4, <1>5 DEF Pins
  <1>9. Vendoring'
    BY <1>2, <1>3, <1>4, <1>6, <1>7, <1>8 DEF Vendoring, VendoredLike, Fetching
  <1> QED BY <1>3, <1>9 DEF Complete

LEMMA PinLockCompletes ==
  ASSUME ProjectInvariant, Complete, PinLock
  PROVE  Complete'
  <1>1. PICK x \in work.unpacking : GotoWith("ensure", [work EXCEPT !.todo = @ \ {x.pin}, !.unpacking = {}])
    BY DEF PinLock
  <1>2. /\ pc = "pin" /\ pc' = "ensure" /\ UNCHANGED <<resolveVars, manifest, vendor, cmd, moved>>
        /\ work' = [work EXCEPT !.todo = @ \ {x.pin}, !.unpacking = {}]
    BY <1>1 DEF PinLock, GotoWith, run
  <1>3. work'.todo = work.todo \ {x.pin} /\ work'.fetching = work.fetching /\ work'.resolved = work.resolved
    BY <1>2 DEF ProjectInvariant, Locals, Work
  <1>4. SameDeps' /\ FetchesRoots' /\ Delivered' /\ Settles(catalog, work.resolved, work.fetching)'
    BY <1>2, <1>3, VendoringGoesOn DEF Fetching
  <1>5. ASSUME ~moved
        PROVE  VendoredLike(x.pin)
    <2>1. x.pin \in work.resolved
      BY <1>2 DEF ProjectInvariant, Locked, Fetching
    <2>2. At(x.pin.name, x.pin.version, x.pin.sha) /\ At(x.pin.name, x.pin.version, x.sha)
      BY <1>2, <1>5, <2>1 DEF ProjectInvariant, Fresh, Fetching
    <2>3. vendor[<<x.pin.name, x.pin.version>>] = x.sha
      BY <1>2 DEF Complete, Vendoring
    <2> QED BY <2>2, <2>3 DEF At, VendoredLike
  <1>6. ~moved => \A l \in work.resolved \ work.todo : VendoredLike(l)
    BY <1>2 DEF Complete, Vendoring, Fetching
  <1>7. Vendoring'
    BY <1>2, <1>3, <1>4, <1>5, <1>6 DEF Vendoring, VendoredLike, Fetching
  <1> QED BY <1>4, <1>7 DEF Complete

LEMMA PruneCompletes ==
  ASSUME ProjectInvariant, Complete, Prune
  PROVE  Complete'
  <1>1. /\ pc = "ensure" /\ work.todo = {} /\ pc' = "idle" /\ lock' = work.resolved \union Kept
        /\ UNCHANGED <<resolveVars, manifest, vendor, cmd, moved>>
    BY DEF Prune, End, run
  <1>2. SameDeps' /\ catalog' = catalog
    BY <1>1, DepsRest DEF resolveVars, Complete
  <1>3. FetchesRoots' /\ Vendoring'
    BY <1>1 DEF FetchesRoots, Vendoring, Fetching
  <1>4. Delivered'
    <2> SUFFICES ASSUME Success'
                 PROVE  (Settles(catalog, lock, RootsOf(manifest)) /\ \A l \in lock : VendoredLike(l))'
      BY DEF Delivered
    <2>1. cmd.kind # "install" /\ ~moved
      BY <1>1 DEF Success
    <2>2. lock' = work.resolved
      BY <1>1, <2>1 DEF Kept
    <2>3. Settles(catalog, work.resolved, RootsOf(manifest)) /\ \A l \in work.resolved : VendoredLike(l)
      BY <1>1, <2>1 DEF Complete, FetchesRoots, Vendoring, Fetching
    <2> QED BY <1>1, <1>2, <2>2, <2>3 DEF VendoredLike
  <1> QED BY <1>2, <1>3, <1>4 DEF Complete

\* Without requirements there is nothing that counts as a success here.
LEMMA FetchNothingCompletes ==
  ASSUME ProjectInvariant, Complete, FetchNothing
  PROVE  Complete'
  <1>1. pc = "fetch" /\ work.fetching = {} /\ pc' = "idle" /\ UNCHANGED <<resolveVars, manifest, cmd>>
    BY DEF FetchNothing, End, files, run
  <1>2. SameDeps'
    BY <1>1, DepsRest DEF resolveVars, Complete
  <1>3. ~Success'
    BY <1>1 DEF Success, Complete, FetchesRoots
  <1> QED BY <1>1, <1>2, <1>3, ElsewhereCompletes DEF Fetching

\* The steps that fetch nothing.
LEMMA AsideCompletes ==
  ASSUME ProjectInvariant, Complete,
         \/ ChooseOnline \/ Chosen \/ ChooseLocked \/ Rollback \/ ManifestUnwritten
         \/ FetchOffline \/ Unresolved \/ EnsureFails \/ Remove \/ Crash
  PROVE  Complete'
  <1>1. ASSUME ChooseOnline PROVE Complete'
    <2>1. pc' = "choose" /\ source' = <<>>
      BY <1>1 DEF ChooseOnline, Begin
    <2> QED BY <2>1, DepsForgotten, ElsewhereCompletes DEF Success, Fetching
  <1>2. ASSUME Chosen PROVE Complete'
    <2>1. pc' = "edit" /\ source' = <<>>
      BY <1>2 DEF Chosen, GotoWith, ForgetResolution
    <2> QED BY <2>1, DepsForgotten, ElsewhereCompletes DEF Success, Fetching
  <1>3. ASSUME UNCHANGED resolveVars PROVE SameDeps'
    BY <1>3, DepsRest DEF resolveVars, Complete
  <1>4. ASSUME ChooseLocked PROVE Complete'
    <2>1. UNCHANGED resolveVars /\ (pc' = "edit" \/ Fail)
      BY <1>4 DEF ChooseLocked, GotoWith
    <2> QED BY <1>3, <2>1, FailCompletes, ElsewhereCompletes DEF Success, Fetching
  <1>5. ASSUME Rollback \/ ManifestUnwritten PROVE Complete'
    <2>1. UNCHANGED resolveVars
          /\ \/ pc' \in {"restore lock", "restore vendor"}
             \/ pc' = "idle" /\ result' = "failed"
      BY <1>5 DEF Rollback, RestoreManifest, RestoreLock, RestoreVendor, ManifestUnrestored, LockUnrestored,
         VendorUnrestored, ManifestUnwritten, Goto, End
    <2> QED BY <1>3, <2>1, ElsewhereCompletes DEF Success, Fetching
  <1>6. ASSUME FetchOffline PROVE Complete'
    <2>1. UNCHANGED resolveVars /\ ((pc' = "idle" /\ cmd'.offline) \/ Fail)
      BY <1>6 DEF FetchOffline, End, run
    <2> QED BY <1>3, <2>1, FailCompletes, ElsewhereCompletes DEF Success, Fetching
  <1>7. ASSUME Unresolved PROVE Complete'
    <2>1. Fail /\ source' = <<>>
      BY <1>7 DEF Unresolved, ForgetResolution
    <2> QED BY <2>1, DepsForgotten, FailCompletes
  <1>8. ASSUME EnsureFails PROVE Complete'
    BY <1>3, <1>8, FailCompletes DEF EnsureFails
  <1>9. ASSUME Remove PROVE Complete'
    <2>1. pc \in {"unlist", "unvendor", "unlock"} /\ UNCHANGED resolveVars /\ UNCHANGED cmd
          /\ pc' \in {"unvendor", "unlock", "idle"}
      BY <1>9 DEF Remove, Unlist, Unvendor, UnvendorFails, Unlock, UnlockFails, Goto, End, run
    <2>2. cmd'.kind = "remove"
      BY <2>1 DEF Complete, FetchesRoots
    <2> QED BY <1>3, <2>1, <2>2 DEF Complete, FetchesRoots, Vendoring, Delivered, Success, Fetching
  <1>10. ASSUME Crash PROVE Complete'
    <2>1. pc' = "idle" /\ result' = "crashed" /\ source' = <<>>
      BY <1>10 DEF Crash, End, ForgetResolution
    <2> QED BY <2>1, DepsForgotten, ElsewhereCompletes DEF Success, Fetching
  <1> QED BY <1>1, <1>2, <1>4, <1>5, <1>6, <1>7, <1>8, <1>9, <1>10

\* Whatever the registry does, it keeps the dependencies of its versions.
LEMMA ServeCompletes ==
  ASSUME ProjectInvariant, Complete, UNCHANGED <<source, roots, outcome>>, UNCHANGED files, UNCHANGED run,
         UNCHANGED <<pc, work, result>>, ~moved' => ~moved,
         \A n \in Packages : \A v \in DOMAIN catalog[n] :
            v \in DOMAIN catalog'[n] /\ catalog'[n][v].deps = catalog[n][v].deps
  PROVE  Complete'
  <1>1. UNCHANGED <<manifest, lock, vendor, cmd>>
    BY DEF files, run
  <1>2. DOMAIN source \subseteq Packages /\ lock \subseteq Pins /\ work.resolved \subseteq Pins
    BY DEF ProjectInvariant, ResolveInvariant, ResolveTypeOK, Files, Locals, Work, GoodLock
  <1>3. SameDeps'
    BY <1>2 DEF Complete, SameDeps
  <1>4. ASSUME NEW pins, pins \subseteq Pins, NEW reqs, Settles(catalog, pins, reqs)
        PROVE  Settles(catalog', pins, reqs)
    <2>1. \A l \in pins : l.version \in DOMAIN catalog[l.name] /\ l.name \in Packages
      BY <1>4 DEF Settles, Pins
    <2> QED BY <1>4, <2>1, SettlesStays
  <1>5. FetchesRoots'
    BY <1>1 DEF Complete, FetchesRoots
  <1>6. Vendoring'
    <2>1. pc \in Fetching => Settles(catalog', work.resolved, work.fetching)
      BY <1>2, <1>4 DEF Complete, Vendoring
    <2> QED BY <1>1, <2>1 DEF Complete, Vendoring, VendoredLike
  <1>7. Delivered'
    <2>1. Success' => Success
      BY <1>1 DEF Success
    <2>2. Success => Settles(catalog', lock, RootsOf(manifest))
      BY <1>2, <1>4 DEF Complete, Delivered
    <2>3. Success => \A l \in lock : VendoredLike(l)
      BY DEF Complete, Delivered
    <2> QED BY <1>1, <2>1, <2>2, <2>3 DEF Delivered, VendoredLike
  <1> QED BY <1>3, <1>5, <1>6, <1>7 DEF Complete

LEMMA RegistryCompletes ==
  ASSUME ProjectInvariant, Complete, Publish \/ Move
  PROVE  Complete'
  <1>1. /\ UNCHANGED <<source, roots, outcome>> /\ UNCHANGED files /\ UNCHANGED run
        /\ UNCHANGED <<pc, work, result>>
    BY DEF Publish, Move, Serve
  <1>4. ~moved' => ~moved
    BY Zenon DEF Publish, Move
  <1>2. \A n \in Packages : n \in DOMAIN catalog /\ IsMetadata(catalog[n])
    BY DEF ProjectInvariant, ResolveInvariant, CatalogOK
  <1>3. ASSUME NEW n \in Packages, NEW v \in DOMAIN catalog[n]
        PROVE  v \in DOMAIN catalog'[n] /\ catalog'[n][v].deps = catalog[n][v].deps
    <2>1. ASSUME NEW u \in Upcoming, u.version \notin DOMAIN catalog[u.name],
                 Serve(u.name, [w \in DOMAIN catalog[u.name] \union {u.version} |->
                    IF w = u.version THEN u.release ELSE catalog[u.name][w]])
          PROVE  v \in DOMAIN catalog'[n] /\ catalog'[n][v].deps = catalog[n][v].deps
      <3> DEFINE releases == [w \in DOMAIN catalog[u.name] \union {u.version} |->
                    IF w = u.version THEN u.release ELSE catalog[u.name][w]]
      <3>1. catalog' = [catalog EXCEPT ![u.name] = releases]
        BY <2>1 DEF Serve
      <3>2. CASE n = u.name
        <4>1. catalog'[n] = releases /\ v # u.version /\ v \in DOMAIN releases /\ releases[v] = catalog[n][v]
          BY <1>2, <2>1, <3>1, <3>2
        <4> QED BY <4>1
      <3>3. CASE n # u.name
        BY <1>2, <3>1, <3>3
      <3> QED BY <3>2, <3>3
    <2>2. ASSUME NEW m \in Packages, NEW w \in DOMAIN catalog[m], NEW sha \in Contents,
                 Serve(m, [catalog[m] EXCEPT ![w].sha = sha])
          PROVE  v \in DOMAIN catalog'[n] /\ catalog'[n][v].deps = catalog[n][v].deps
      <3>1. catalog' = [catalog EXCEPT ![m] = [catalog[m] EXCEPT ![w].sha = sha]]
        BY <2>2 DEF Serve
      <3>2. catalog[n] \in [DOMAIN catalog[n] -> Release] /\ catalog[n][v] \in Release
        BY <1>2 DEF IsMetadata
      <3>3. CASE n = m
        <4>1. catalog'[n] = [catalog[n] EXCEPT ![w] = [catalog[n][w] EXCEPT !.sha = sha]]
          BY <1>2, <3>1, <3>3
        <4>2. v \in DOMAIN catalog'[n]
              /\ catalog'[n][v] = IF v = w THEN [catalog[n][v] EXCEPT !.sha = sha] ELSE catalog[n][v]
          BY <3>2, <4>1
        <4> QED BY <3>2, <4>2 DEF Release
      <3>4. CASE n # m
        BY <1>2, <3>1, <3>4
      <3> QED BY <3>3, <3>4
    <2> QED BY <2>1, <2>2 DEF Publish, Move
  <1> QED BY <1>1, <1>3, <1>4, ServeCompletes

LEMMA CompleteStep ==
  ASSUME ProjectInvariant, Complete, [ProjectNext]_projectVars
  PROVE  Complete'
  <1>1. CASE Add
    BY <1>1, EditCompletes, AsideCompletes DEF Add
  <1>2. CASE Fetch
    <2>1. ASSUME NEW r \in work.todo, NEW sha \in Contents, AlreadyFetched(r, sha) \/ Download(r, sha)
          PROVE  Complete'
      BY <2>1, AlreadyFetchedCompletes, DownloadCompletes
    <2> QED BY <1>2, <2>1, FetchNothingCompletes, FetchOnlineCompletes, ResolvedCompletes, ResolveCompletes,
               ExtractCompletes, PinLockCompletes, PruneCompletes, AsideCompletes DEF Fetch
  <1>3. CASE UNCHANGED projectVars
    <2>1. /\ UNCHANGED <<source, roots, outcome>> /\ UNCHANGED files /\ UNCHANGED run
          /\ UNCHANGED <<pc, work, result, moved, catalog>>
      BY <1>3 DEF projectVars, resolveVars
    <2> QED BY <2>1, ServeCompletes
  <1> QED BY <1>1, <1>2, <1>3, StartCompletes, AsideCompletes, RegistryCompletes DEF ProjectNext

LEMMA ProjectCompletes == ProjectSpec => []Complete
  <1>1. ProjectInit => Complete
    <2>1. ASSUME ProjectInit
          PROVE  Complete
      <3>1. source = <<>> /\ pc = "idle" /\ result = "none"
        BY <2>1 DEF ProjectInit, Idle
      <3> QED BY <3>1 DEF Complete, SameDeps, FetchesRoots, Vendoring, Delivered, Success, Fetching
    <2> QED BY <2>1
  <1>2. ProjectInvariant /\ Complete /\ [ProjectNext]_projectVars => Complete'
    BY CompleteStep
  <1> QED BY <1>1, <1>2, ProjectHolds, PTL DEF ProjectSpec

-----------------------------------------------------------------------------

LEMMA HighestOfOne ==
  ASSUME NEW v \in Version
  PROVE  Highest({v}) = {v}
  BY BelowOrder DEF Highest

\* The one version that is locked is what every import reaches.
LEMMA ReachedOnce ==
  ASSUME ProjectInvariant, Settles(catalog, lock, RootsOf(manifest)), NEW l \in lock
  PROVE  Imported(l.name) = {l.version}
  <1>1. l.version \in Version /\ \A k \in lock : k.name = l.name => k = l
    BY ReleasesAssumption DEF ProjectInvariant, Files, GoodLock, Pins, Settles
  <1>2. {k.version : k \in {m \in lock : m.name = l.name}} = {l.version}
    BY <1>1
  <1>3. ASSUME NEW q \in RootsOf(manifest), q.name = l.name
        PROVE  LockedFor(l.name, q.req) = {l.version}
    <2>1. q.req \in Constraint
      BY RootsOfManifest DEF ProjectInvariant, Files, Requirement
    <2>2. Satisfies(l.version, q.req)
      BY <1>1, <1>3 DEF Settles
    <2>3. Matches(l.version, q.req)
      BY <1>1, <2>1, <2>2, MatchesMeansSatisfies
    <2>4. {k.version : k \in {m \in lock : m.name = l.name /\ Matches(m.version, q.req)}} = {l.version}
      BY <1>1, <2>3
    <2> QED BY <1>1, <2>4, HighestOfOne DEF LockedFor
  <1> DEFINE direct == {r \in RootsOf(manifest) : r.name = l.name}
  <1>4. CASE direct = {}
    BY <1>2, <1>4 DEF Imported
  <1>5. CASE direct # {}
    <2>1. \A q \in direct : (IF LockedFor(l.name, q.req) # {} THEN LockedFor(l.name, q.req)
                             ELSE Highest({k.version : k \in {m \in lock : m.name = l.name}})) = {l.version}
      BY <1>3
    <2> QED BY <1>5, <2>1 DEF Imported
  <1> QED BY <1>4, <1>5

\* Once an install without a spec (fetch_project), an add or a multi-add has
\* succeeded with the registry, every import of the project and of what it
\* depends on (resolve_vendor_import, registry.rs) reaches the one version
\* that is locked, it satisfies what asks for it, and its bytes are those of
\* the lock file: after any earlier commands, failures and crashes, and while
\* the registry publishes.
THEOREM ProjectInstalls == ProjectSpec => []Installed
  <1>1. ProjectInvariant /\ Complete => Installed
    <2> SUFFICES ASSUME ProjectInvariant, Complete, Success,
                        NEW r \in RootsOf(manifest) \union DepsOf(lock)
                 PROVE  Served(r)
      BY DEF Installed, Success
    <2>1. Settles(catalog, lock, RootsOf(manifest)) /\ \A l \in lock : VendoredLike(l)
      BY DEF Complete, Delivered
    <2>2. PICK l \in lock : l.name = r.name /\ Satisfies(l.version, r.req)
      BY <2>1 DEF Settles, DepsOf, DepsIn
    <2>3. Imported(r.name) = {l.version}
      BY <2>1, <2>2, ReachedOnce
    <2>4. PinOf(r.name, l.version, lock) = {l}
      BY <2>1, <2>2 DEF Settles, PinOf
    <2>5. ShaOf(PinOf(r.name, l.version, lock)) = {vendor[<<r.name, l.version>>]}
      BY <2>1, <2>2, <2>4 DEF ShaOf, VendoredLike
    <2> QED BY <2>2, <2>3, <2>4, <2>5 DEF Served
  <1> QED BY <1>1, ProjectHolds, ProjectCompletes, PTL

=============================================================================
