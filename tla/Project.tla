------------------------------ MODULE Project ------------------------------
(***************************************************************************)
(* The client side of the package registry, src/src/registry.rs: install,   *)
(* add, remove and update work on the manifest (klang.toml), the lock file  *)
(* (klang.lock) and the vendored packages (.klang_pkgs) of one project.     *)
(* An action is one file operation or request; in between the registry may  *)
(* change, a request may fail and the process may die.  Resolution runs     *)
(* step by step, by the actions of Resolver.  Packages are required under   *)
(* their own names, one command runs at a time, and a checksum stands for   *)
(* the bytes it is of.                                                      *)
(***************************************************************************)
EXTENDS Resolver

CONSTANTS
    Partial,        \* a vendored package that is not completely written
    Upcoming,       \* what may be published: name, version and metadata
    Commands,       \* the commands to explore
    Checkouts,      \* what the project starts from: requirements and lock
    Layouts,        \* the section headers of the manifest, in order
    MaxCommands,    \* bound: commands
    MaxMoves,       \* bound: versions that are served with other bytes
    MaxBreaks       \* bound: crashes, and file operations that fail

ASSUME PartialAssumption == Partial \notin Contents /\ None \notin Contents /\ Partial # None
ASSUME BoundsAssumption == {MaxCommands, MaxMoves, MaxBreaks} \subseteq Nat

VARIABLES
    manifest,   \* klang.toml: its sections and their registry requirements
    lock,       \* the package lines of klang.lock
    vendor,     \* .klang_pkgs/<name>/<version>
    cmd,        \* the command that runs, or that ran last
    pc,         \* where it is
    work,       \* its local variables
    result,     \* how it ended
    before,     \* the manifest, the lock and the vendored packages it found
    moved,      \* history: bytes were replaced during the command
    unwritten,  \* history: what an edit or a rollback failed to write
    used        \* how many commands, moves and breaks there were

files == <<manifest, lock, vendor>>
run == <<cmd, before>>
projectVars == <<resolveVars, files, run, pc, work, result, moved, unwritten, used>>

Sections == {"dependencies", "dev-dependencies"}
Titles == Sections \union UNION {{heads[i] : i \in DOMAIN heads} : heads \in Layouts}
Pins == [name : Packages, version : Releases, sha : Contents]
Kinds == {"fetch", "install", "add", "add many", "remove"}
Command == [kind : Kinds, specs : SUBSET Requirement, section : Sections, caret : BOOLEAN, offline : BOOLEAN]

ASSUME CommandsAssumption == \A c \in Commands : c \in Command /\ IsFiniteSet(c.specs)
ASSUME LayoutsAssumption == Layouts \subseteq Seq(Titles)
ASSUME UpcomingAssumption == Upcoming \subseteq [name : Packages, version : Releases, release : Release]
ASSUME CheckoutsAssumption ==
    \A c \in Checkouts :
        /\ c.reqs \subseteq Requirement /\ IsFiniteSet(c.reqs)
        /\ c.lock \subseteq Pins /\ IsFiniteSet(c.lock)
        /\ \A k, l \in c.lock : k.name = l.name /\ k.version = l.version => k = l

\* A manifest without a section: what a write that breaks off leaves.
Emptied == [heads |-> <<>>, reqs |-> [s \in Sections |-> {}]]

NoWork == [exacts |-> {}, unpacking |-> {}, resolved |-> {}, todo |-> {}, locks |-> {}, fetching |-> {}]

Has(head) == \E i \in DOMAIN manifest.heads : manifest.heads[i] = head

\* The section that a line at the end of the manifest belongs to.
LastHead(heads) == IF heads = <<>> THEN "none" ELSE heads[Len(heads)]

\* Normal and dev dependencies are the roots.
RootsOf(m) == UNION {m.reqs[s] : s \in Sections}

PinOf(n, v, entries) == {l \in entries : l.name = n /\ l.version = v}

ShaOf(entries) == {l.sha : l \in entries}

\* The locked versions of n that satisfy req, and the highest of them.
LockedFor(n, req) == Highest({l.version : l \in {k \in lock : k.name = n /\ Matches(k.version, req)}})

Goto(next) == pc' = next /\ UNCHANGED work

GotoWith(next, w) == pc' = next /\ work' = w

End(how) == pc' = "idle" /\ result' = how /\ work' = NoWork

\* A file operation fails, or the process dies.
Breaks == used.breaks < MaxBreaks /\ used' = [used EXCEPT !.breaks = @ + 1]

ForgetResolution ==
    /\ source' = <<>> /\ pinned' = NoPins /\ roots' = {}
    /\ want' = [n \in Packages |-> {}] /\ queue' = <<>> /\ queued' = {}
    /\ turns' = 0 /\ tried' = {} /\ outcome' = "none"
    /\ UNCHANGED catalog

\* A failure: the multi-add that has edited the manifest rolls back.
Fail ==
    IF cmd.kind = "add many" /\ pc \notin {"choose", "edit"}
    THEN pc' = "restore" /\ result' = result /\ work' = work
    ELSE End("failed")

-----------------------------------------------------------------------------

\* The checks that come before anything is written.
Start(c) ==
    /\ pc = "idle" /\ used.commands < MaxCommands
    /\ LET present == {r.name : r \in RootsOf(manifest)}
           named == {r.name : r \in c.specs}
       IN /\ c.kind \in {"add", "add many"} => named \intersect present = {}
          /\ c.kind = "remove" => named \subseteq present
    /\ cmd' = c /\ result' = "running" /\ moved' = FALSE /\ unwritten' = {}
    /\ before' = [manifest |-> manifest, lock |-> lock, vendor |-> vendor]
    /\ \/ c.kind \in {"fetch", "install"} /\ pc' = "fetch"
       \/ c.kind \in {"add", "add many"} /\ pc' = "choose"
       \/ c.kind = "remove" /\ pc' = "unlist"
    /\ work' = [NoWork EXCEPT !.fetching = IF c.kind = "install" THEN c.specs ELSE RootsOf(manifest)]
    /\ used' = [used EXCEPT !.commands = @ + 1]
    /\ UNCHANGED <<resolveVars, files>>

\* add resolves what it was asked for to exact versions: from the registry ...
ChooseOnline ==
    /\ pc = "choose" /\ ~cmd.offline /\ outcome = "none"
    /\ Begin(cmd.specs)
    /\ UNCHANGED <<catalog, files, run, pc, work, result, moved, unwritten, used>>

Chosen ==
    /\ pc = "choose" /\ ~cmd.offline /\ outcome = "ok"
    /\ GotoWith("edit", [work EXCEPT !.exacts = {[name |-> r.name, version |-> pinned[r.name]] : r \in cmd.specs}])
    /\ ForgetResolution
    /\ UNCHANGED <<files, run, result, moved, unwritten, used>>

\* ... or from the lock file.
ChooseLocked ==
    /\ pc = "choose" /\ cmd.offline
    /\ IF \A r \in cmd.specs : LockedFor(r.name, r.req) # {}
       THEN /\ GotoWith("edit", [work EXCEPT !.exacts =
                  UNION {{[name |-> r.name, version |-> v] : v \in LockedFor(r.name, r.req)} : r \in cmd.specs}])
            /\ UNCHANGED result
       ELSE Fail
    /\ UNCHANGED <<resolveVars, files, run, moved, unwritten, used>>

\* The lines go to the end of the file, after a header if there is none yet.
Edit ==
    /\ pc = "edit"
    /\ LET lines == {[name |-> x.name, req |-> {[op |-> IF cmd.caret THEN "caret" ELSE "exact", base |-> x.version]}] : x \in work.exacts}
           heads == IF Has(cmd.section) THEN manifest.heads ELSE Append(manifest.heads, cmd.section)
           edited == [heads |-> heads,
                      reqs |-> [s \in Sections |-> IF s = LastHead(heads) THEN manifest.reqs[s] \union lines ELSE manifest.reqs[s]]]
       IN /\ manifest' = edited
          /\ GotoWith("fetch", [work EXCEPT !.fetching = RootsOf(edited)])
    /\ UNCHANGED <<resolveVars, lock, vendor, run, result, moved, unwritten, used>>

\* fs::write truncates klang.toml before it writes; the error of an add or a
\* remove goes to the caller, and nothing is rolled back.
ManifestUnwritten ==
    /\ pc \in {"edit", "unlist"} /\ Breaks
    /\ manifest' \in {manifest, Emptied} /\ unwritten' = {"manifest"}
    /\ End("failed")
    /\ UNCHANGED <<resolveVars, lock, vendor, run, moved>>

\* fetch_project has nothing to do without registry requirements.
FetchNothing ==
    /\ pc = "fetch" /\ work.fetching = {}
    /\ End("ok")
    /\ UNCHANGED <<resolveVars, files, run, moved, unwritten, used>>

\* fetch_offline: the roots are locked, and what is locked is vendored.
FetchOffline ==
    /\ pc = "fetch" /\ work.fetching # {} /\ cmd.offline
    /\ IF /\ \A r \in work.fetching : LockedFor(r.name, r.req) # {}
          /\ \A l \in lock : vendor[<<l.name, l.version>>] = l.sha
       THEN End("ok")
       ELSE Fail
    /\ UNCHANGED <<resolveVars, files, run, moved, unwritten, used>>

FetchOnline ==
    /\ pc = "fetch" /\ work.fetching # {} /\ ~cmd.offline /\ outcome = "none"
    /\ Begin(work.fetching)
    /\ UNCHANGED <<catalog, files, run, pc, work, result, moved, unwritten, used>>

\* The pins carry the checksums of the metadata that was resolved.
Resolved ==
    /\ pc = "fetch" /\ outcome = "ok"
    /\ LET pins == {[name |-> n, version |-> pinned[n], sha |-> source[n][pinned[n]].sha] : n \in Pinned}
       IN GotoWith("ensure", [work EXCEPT !.resolved = pins, !.todo = pins, !.locks = lock])
    /\ ForgetResolution
    /\ UNCHANGED <<files, run, result, moved, unwritten, used>>

Unresolved ==
    /\ pc \in {"choose", "fetch"} /\ outcome \in Outcomes \ {"none", "running", "ok"}
    /\ Fail /\ ForgetResolution
    /\ UNCHANGED <<files, run, moved, unwritten, used>>

Resolve ==
    /\ Resolving
    /\ UNCHANGED <<files, run, pc, work, result, moved, unwritten, used>>

\* The lock file is not compared.
AdvertisesUnlocked(r, sha) == r.version \in DOMAIN catalog[r.name] /\ catalog[r.name][r.version].sha = sha

\* ensure_fetched asks the registry again; what it advertises must be what is
\* locked.
Advertises(r, sha) ==
    /\ r.version \in DOMAIN catalog[r.name] /\ catalog[r.name][r.version].sha = sha
    /\ ShaOf(PinOf(r.name, r.version, work.locks)) \subseteq {sha}

\* upsert_package_lock
Upserted(r, sha) ==
    (lock \ PinOf(r.name, r.version, lock)) \union {[name |-> r.name, version |-> r.version, sha |-> sha]}

Done(r) == GotoWith("ensure", [work EXCEPT !.todo = @ \ {r}])

\* Whatever is vendored is taken for the package.
AlreadyFetchedUnhashed(r, sha) ==
    /\ pc = "ensure" /\ r \in work.todo /\ Advertises(r, sha)
    /\ vendor[<<r.name, r.version>>] # None
    /\ lock' = IF PinOf(r.name, r.version, work.locks) = {} THEN Upserted(r, sha) ELSE lock
    /\ Done(r)
    /\ UNCHANGED <<resolveVars, manifest, vendor, run, result, moved, unwritten, used>>

\* The vendored package has the hash.
AlreadyFetched(r, sha) ==
    /\ pc = "ensure" /\ r \in work.todo /\ Advertises(r, sha)
    /\ vendor[<<r.name, r.version>>] = sha
    /\ lock' = IF PinOf(r.name, r.version, work.locks) = {} THEN Upserted(r, sha) ELSE lock
    /\ Done(r)
    /\ UNCHANGED <<resolveVars, manifest, vendor, run, result, moved, unwritten, used>>

\* The archive is downloaded and verified, and the old directory wiped.
Download(r, sha) ==
    /\ pc = "ensure" /\ r \in work.todo /\ Advertises(r, sha)
    /\ vendor[<<r.name, r.version>>] # sha
    /\ vendor' = [vendor EXCEPT ![<<r.name, r.version>>] = Partial]
    /\ GotoWith("extract", [work EXCEPT !.unpacking = {[pin |-> r, sha |-> sha]}])
    /\ UNCHANGED <<resolveVars, manifest, lock, run, result, moved, unwritten, used>>

Extract ==
    /\ pc = "extract"
    /\ \E x \in work.unpacking : vendor' = [vendor EXCEPT ![<<x.pin.name, x.pin.version>>] = x.sha]
    /\ Goto("pin")
    /\ UNCHANGED <<resolveVars, manifest, lock, run, result, moved, unwritten, used>>

PinLock ==
    /\ pc = "pin"
    /\ \E x \in work.unpacking :
          /\ lock' = Upserted(x.pin, x.sha)
          /\ GotoWith("ensure", [work EXCEPT !.todo = @ \ {x.pin}, !.unpacking = {}])
    /\ UNCHANGED <<resolveVars, manifest, vendor, run, result, moved, unwritten, used>>

\* A request or a write fails, or an entry has moved under its pin.
EnsureFails ==
    /\ pc \in {"ensure", "extract", "pin"}
    /\ Fail
    /\ UNCHANGED <<resolveVars, files, run, moved, unwritten, used>>

\* prune_stale_pins: install keeps what it has not resolved itself.
Kept == IF cmd.kind = "install"
        THEN {l \in work.locks : PinOf(l.name, l.version, work.resolved) = {}}
        ELSE {}

Prune ==
    /\ pc = "ensure" /\ work.todo = {}
    /\ lock' = work.resolved \union Kept
    /\ End("ok")
    /\ UNCHANGED <<resolveVars, manifest, vendor, run, moved, unwritten, used>>

-----------------------------------------------------------------------------
(* The rollback of a multi-add: the manifest, the lock file, and the       *)
(* directories of what was asked for that were not there before.  It goes  *)
(* on when one of these cannot be put back.                                *)

RestoreManifest ==
    /\ pc = "restore"
    /\ manifest' = before.manifest
    /\ Goto("restore lock")
    /\ UNCHANGED <<resolveVars, lock, vendor, run, result, moved, unwritten, used>>

ManifestUnrestored ==
    /\ pc = "restore" /\ Breaks
    /\ manifest' \in {manifest, Emptied} /\ unwritten' = unwritten \union {"manifest"}
    /\ Goto("restore lock")
    /\ UNCHANGED <<resolveVars, lock, vendor, run, result, moved>>

\* The lock file is left as it is.
RestoreLockForgotten ==
    /\ pc = "restore lock"
    /\ Goto("restore vendor")
    /\ UNCHANGED <<resolveVars, files, run, result, moved, unwritten, used>>

RestoreLock ==
    /\ pc = "restore lock"
    /\ lock' = before.lock
    /\ Goto("restore vendor")
    /\ UNCHANGED <<resolveVars, manifest, vendor, run, result, moved, unwritten, used>>

\* The lock file stays, or it could not be read for the rollback and is
\* removed.
LockUnrestored ==
    /\ pc = "restore lock" /\ Breaks
    /\ lock' \in {lock, {}} /\ unwritten' = unwritten \union {"lock"}
    /\ Goto("restore vendor")
    /\ UNCHANGED <<resolveVars, manifest, vendor, run, result, moved>>

\* The vendored packages without the directories of gone; stuck and torn
\* cannot be removed, and torn has lost files.
Cleared(gone, stuck, torn) ==
    [p \in DOMAIN vendor |-> IF p \in torn THEN Partial ELSE IF p \in gone \ stuck THEN None ELSE vendor[p]]

Present(dirs) == {p \in dirs : vendor[p] # None}

NewDirs == {p \in DOMAIN vendor : before.vendor[p] = None /\ [name |-> p[1], version |-> p[2]] \in work.exacts}

RestoreVendor ==
    /\ pc = "restore vendor"
    /\ vendor' = Cleared(NewDirs, {}, {})
    /\ End("failed")
    /\ UNCHANGED <<resolveVars, manifest, lock, run, moved, unwritten, used>>

VendorUnrestored ==
    /\ pc = "restore vendor" /\ Breaks
    /\ \E stuck \in SUBSET Present(NewDirs) : \E torn \in SUBSET stuck : vendor' = Cleared(NewDirs, stuck, torn)
    /\ unwritten' = unwritten \union {"vendor"}
    /\ End("failed")
    /\ UNCHANGED <<resolveVars, manifest, lock, run, moved>>

-----------------------------------------------------------------------------
(* remove *)

Removed == {r.name : r \in cmd.specs}

Unlist ==
    /\ pc = "unlist"
    /\ manifest' = [manifest EXCEPT !.reqs = [s \in Sections |-> {r \in @[s] : r.name \notin Removed}]]
    /\ Goto("unvendor")
    /\ UNCHANGED <<resolveVars, lock, vendor, run, result, moved, unwritten, used>>

RemovedDirs == {p \in DOMAIN vendor : p[1] \in Removed}

Unvendor ==
    /\ pc = "unvendor"
    /\ vendor' = Cleared(RemovedDirs, {}, {})
    /\ Goto("unlock")
    /\ UNCHANGED <<resolveVars, manifest, lock, run, result, moved, unwritten, used>>

UnvendorFails ==
    /\ pc = "unvendor" /\ Breaks
    /\ \E stuck \in SUBSET Present(RemovedDirs) : \E torn \in SUBSET stuck : vendor' = Cleared(RemovedDirs, stuck, torn)
    /\ End("failed")
    /\ UNCHANGED <<resolveVars, manifest, lock, run, moved, unwritten>>

\* prune_after_remove computes what is still live, and does not use it.
Unlock ==
    /\ pc = "unlock"
    /\ lock' = {l \in lock : l.name \notin Removed}
    /\ End("ok")
    /\ UNCHANGED <<resolveVars, manifest, vendor, run, moved, unwritten, used>>

UnlockFails ==
    /\ pc = "unlock" /\ Breaks
    /\ End("failed")
    /\ UNCHANGED <<resolveVars, files, run, moved, unwritten>>

-----------------------------------------------------------------------------
(* The world around the command. *)

\* The process dies.  klang.toml is written in place, klang.lock is not.
Crash ==
    /\ pc # "idle" /\ Breaks
    /\ manifest' \in {manifest} \union IF pc \in {"edit", "unlist", "restore"} THEN {Emptied} ELSE {}
    /\ End("crashed") /\ ForgetResolution
    /\ UNCHANGED <<lock, vendor, run, moved, unwritten>>

Serve(n, releases) ==
    /\ catalog' = [catalog EXCEPT ![n] = releases]
    /\ UNCHANGED <<source, roots, pinning, turns, outcome, files, run, pc, work, result, unwritten>>

Publish ==
    /\ \E u \in Upcoming :
          /\ u.version \notin DOMAIN catalog[u.name]
          /\ Serve(u.name, [v \in DOMAIN catalog[u.name] \union {u.version} |->
                IF v = u.version THEN u.release ELSE catalog[u.name][v]])
    /\ UNCHANGED <<moved, used>>

\* A version is served with other bytes (two publishers on the bucket).
Move ==
    /\ used.moves < MaxMoves
    /\ \E n \in Packages : \E v \in DOMAIN catalog[n], sha \in Contents :
          sha # catalog[n][v].sha /\ Serve(n, [catalog[n] EXCEPT ![v].sha = sha])
    /\ moved' = (moved \/ pc # "idle")
    /\ used' = [used EXCEPT !.moves = @ + 1]

-----------------------------------------------------------------------------

\* The packages of a lock file, vendored.
VendoredAs(p, entries) ==
    IF PinOf(p[1], p[2], entries) = {} THEN None ELSE CHOOSE sha \in ShaOf(PinOf(p[1], p[2], entries)) : TRUE

\* A project as it is checked out: with or without a lock file, and with or
\* without the packages that an earlier fetch has vendored.
ProjectInit ==
    /\ catalog \in Registries /\ Idle
    /\ \E heads \in Layouts, c \in Checkouts :
          /\ manifest = [heads |-> heads, reqs |-> [s \in Sections |-> IF s = "dependencies" THEN c.reqs ELSE {}]]
          /\ lock = c.lock
          /\ vendor = [p \in Packages \X Releases |-> IF c.vendored THEN VendoredAs(p, c.lock) ELSE None]
    /\ Has("dependencies") \/ RootsOf(manifest) = {}
    /\ cmd = [kind |-> "fetch", specs |-> {}, section |-> "dependencies", caret |-> FALSE, offline |-> FALSE]
    /\ before = [manifest |-> manifest, lock |-> lock, vendor |-> vendor]
    /\ pc = "idle" /\ work = NoWork /\ result = "none"
    /\ moved = FALSE /\ unwritten = {} /\ used = [commands |-> 0, moves |-> 0, breaks |-> 0]

Add == ChooseOnline \/ Chosen \/ ChooseLocked \/ Edit

Rollback ==
    \/ RestoreManifest \/ RestoreLock \/ RestoreVendor
    \/ ManifestUnrestored \/ LockUnrestored \/ VendorUnrestored

Fetch ==
    \/ FetchNothing \/ FetchOffline \/ FetchOnline \/ Resolved \/ Unresolved \/ Resolve
    \/ \E r \in work.todo, sha \in Contents : AlreadyFetched(r, sha) \/ Download(r, sha)
    \/ Extract \/ PinLock \/ EnsureFails \/ Prune

Remove == Unlist \/ Unvendor \/ UnvendorFails \/ Unlock \/ UnlockFails

ProjectNext ==
    \/ \E c \in Commands : Start(c)
    \/ Add \/ ManifestUnwritten \/ Fetch \/ Rollback \/ Remove
    \/ Crash \/ Publish \/ Move

ProjectSpec == ProjectInit /\ [][ProjectNext]_projectVars

-----------------------------------------------------------------------------

ProjectTypeOK ==
    /\ ResolveTypeOK
    /\ \A s \in Sections : manifest.reqs[s] \subseteq Requirement /\ (manifest.reqs[s] # {} => Has(s))
    /\ lock \subseteq Pins /\ \A k, l \in lock : k.name = l.name /\ k.version = l.version => k = l
    /\ vendor \in [Packages \X Releases -> Contents \union {None, Partial}]
    /\ pc # "idle" <=> result = "running"
    /\ outcome # "none" => pc \in {"choose", "fetch"}

\* resolve_vendor_import: the versions of n that an import of it can reach.
Imported(n) ==
    LET direct == {r \in RootsOf(manifest) : r.name = n}
        locked == {l.version : l \in {k \in lock : k.name = n}}
    IN IF direct = {} THEN locked
       ELSE UNION {IF LockedFor(n, r.req) # {} THEN LockedFor(n, r.req) ELSE Highest(locked) : r \in direct}

\* What an import reaches is what is required, and it is vendored as locked.
Served(r) ==
    /\ Imported(r.name) # {}
    /\ \A v \in Imported(r.name) :
          Satisfies(v, r.req) /\ PinOf(r.name, v, lock) # {} /\ ShaOf(PinOf(r.name, v, lock)) = {vendor[<<r.name, v>>]}

DepsOf(entries) == UNION {catalog[l.name][l.version].deps : l \in entries}

\* After a fetch or an add that succeeded with the registry, whatever broke
\* off before, the imports of the project and of every package it uses reach
\* a version that is allowed, locked, and vendored byte for byte.
Installed ==
    pc = "idle" /\ result = "ok" /\ cmd.kind \in {"fetch", "add", "add many"} /\ ~cmd.offline /\ ~moved
    /\ RootsOf(manifest) # {}
        => \A r \in RootsOf(manifest) \union DepsOf(lock) : Served(r)

\* A multi-add that fails, in whatever step, leaves the manifest and the lock
\* file as it found them (registry.rs:2624-2626), each of them unless its own
\* write failed: the edit's, which nothing rolls back, or the rollback's.
AddAllOrNothing ==
    pc = "idle" /\ result = "failed" /\ cmd.kind = "add many" =>
        /\ manifest = before.manifest \/ "manifest" \in unwritten
        /\ lock = before.lock \/ "lock" \in unwritten

\* A version that is locked keeps its checksum, and a registry that serves
\* other bytes for it, from whichever moment on, is refused (registry.rs:2172).
\* The exception is the last write of a command during which bytes were
\* replaced: it locks what was resolved, not what was compared and vendored.
NeverRepinned ==
    [][\A k \in lock, l \in lock' :
          k.name = l.name /\ k.version = l.version
              => k.sha = l.sha \/ (moved /\ pc = "ensure" /\ work.todo = {})]_projectVars

\* cli.rs:14 says that an install without a spec "reproduces the locked
\* environment": a lock file that has everything the project needs is kept.
Reproducible ==
    pc = "idle" /\ result = "ok" /\ cmd.kind = "fetch"
    /\ (\A r \in RootsOf(manifest) \union DepsOf(before.lock) :
            \E l \in before.lock : l.name = r.name /\ Satisfies(l.version, r.req))
        => before.lock \subseteq lock

\* registry.rs:2771 says that remove keeps packages "still reachable from the
\* remaining manifest (including transitive pins)": what a package that stays
\* in the manifest depends on stays locked.
RemoveKeepsNeeded ==
    pc = "idle" /\ result = "ok" /\ cmd.kind = "remove" =>
        \A l \in lock : \A d \in DepsOf({l}) :
            (\E r \in RootsOf(manifest) : r.name = l.name) /\ (\E k \in before.lock : k.name = d.name)
                => \E k \in lock : k.name = d.name

=============================================================================
