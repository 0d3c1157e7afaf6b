------------------------------- MODULE Imports -------------------------------
(***************************************************************************)
(* The loader of multi-file programs (imports.rs).  A walk reads the entry *)
(* file and everything it imports, and merges their items into one flat    *)
(* program: all of a file for `import "f"`, the named ones for             *)
(* `import { n } from "f"`, none for `import "f" as m`.  Then every alias  *)
(* is resolved: the functions of its file are merged once more, under      *)
(* internal names, and calls `m.n()` are rewritten to calls of those.      *)
(*                                                                         *)
(* The files are any.  An import names the file it is resolved to, or one  *)
(* that is missing, or a path that is not safe to read; imports of whole   *)
(* packages by their bare name are left out.  Structs and enums are types  *)
(* here; `mod` blocks, merged with whole files, are left out.  All         *)
(* functions of one file make the same calls through aliases, and bind the *)
(* same local names.                                                       *)
(***************************************************************************)
EXTENDS Naturals, SequencesExt

CONSTANTS
    File,      \* the files, by their canonical paths
    Entry,     \* the one that is loaded
    FnName,    \* names of functions
    TypeName,  \* names of structs and enums
    Alias,     \* names of aliases, and of parameters and variables
    Missing,   \* no file is there, or one that does not parse
    Unsafe,    \* a path that leaves the directory of its file
    Graphs,    \* what files import: functions from File to records
               \*   [whole, selective, aliased] of sequences
    Contents   \* what files define: functions from File to records
               \*   [fns, types, calls, locals]

ASSUME ImportsAssumption ==
    /\ Entry \in File
    /\ FnName \intersect TypeName = {}
    /\ Missing \notin File /\ Unsafe \notin File

Path == File \union {Missing, Unsafe}
ImportsOfFile ==
    [whole : Seq(Path), selective : Seq([path : Path, names : Seq(FnName \union TypeName)]),
     aliased : Seq([path : Path, alias : Alias])]
ContentOfFile ==
    [fns : Seq(FnName), types : SUBSET TypeName, calls : SUBSET (Alias \X FnName), locals : SUBSET Alias]

ASSUME ProgramsAssumption ==
    /\ Graphs \subseteq [File -> ImportsOfFile]
    /\ Contents \subseteq [File -> ContentOfFile]

VARIABLES
    imports,   \* the import lines of every file
    content,   \* the definitions of every file
    queue,     \* imports that are still to be followed
    parsed,    \* the files read, in the order of their indices
    whole,     \* whole_done: the files of which everything was merged
    expanded,  \* the files whose imports were queued
    fns,       \* the functions of the merged program
    types,     \* how often it has every type of every file
    named,     \* merged_items: the types that an import by name merged
    edges,     \* alias_edges: importer, alias and file, in the order met
    turn,      \* the number of edges that are resolved
    verdict    \* what the load returns

disk == <<imports, content>>
walk == <<queue, parsed, whole, expanded>>
merged == <<fns, types, named>>
aliases == <<edges, turn>>
vars == <<disk, walk, merged, aliases, verdict>>

Codes == {"E-IO-NOT-FOUND", "E-IMPORT", "E-DUPLICATE", "E-UNDEFINED"}
Verdicts == {"walking", "resolving", "loaded"} \union Codes

-----------------------------------------------------------------------------
(* Merging. *)

NamesOf(f) == Range(content[f].fns)

\* The calls `m.n()` of a file where it has imported a file as `m`.
AliasCalls(f) ==
    {c \in content[f].calls :
        \E i \in DOMAIN imports[f].aliased : imports[f].aliased[i].alias = c[1]}

\* The function `n` of `f` as the merged program has it: under its own name
\* or as the copy behind an alias, with the calls through aliases that its
\* body still spells as such.
Function(f, n, copy) ==
    [file |-> f, name |-> n, copy |-> copy, calls |-> AliasCalls(f)]

Flat == {d \in fns : ~d.copy}
HasFlat(f, n) == \E d \in Flat : d.file = f /\ d.name = n

\* Mutant: whichever file comes first has the name.
TakenByNobody(f, n) == FALSE

\* Another file has given the program a function of this name.
Taken(f, n) == \E d \in Flat : d.name = n /\ d.file # f

\* Mutant: an import by name merges the file.
InsertAll(f, names) ==
    fns \union {Function(f, n, FALSE) : n \in {n \in NamesOf(f) : ~HasFlat(f, n)}}

\* insert_fn for each of these functions of `f`: what the program already
\* has of `f` by that name stands for a second one.
Insert(f, names) ==
    fns \union {Function(f, n, FALSE) : n \in {n \in names : ~HasFlat(f, n)}}

Count(t, f, names) ==
    [t EXCEPT ![f] = [n \in TypeName |-> IF n \in names THEN @[n] + 1 ELSE @[n]]]

Fails(code) ==
    /\ verdict' = code
    /\ UNCHANGED <<disk, walk, merged, aliases>>

-----------------------------------------------------------------------------
(* The walk. *)

Line(kind, from, path, names, alias) ==
    [kind |-> kind, from |-> from, path |-> path, names |-> names, alias |-> alias]

\* The import lines of a file, as enqueue_imports goes through them.
Lines(f) ==
    LET all == imports[f] IN
    [i \in DOMAIN all.whole |-> Line("whole", f, all.whole[i], <<>>, "")]
    \o [i \in DOMAIN all.selective |->
            Line("selective", f, all.selective[i].path, all.selective[i].names, "")]
    \o [i \in DOMAIN all.aliased |->
            Line("alias", f, all.aliased[i].path, <<>>, all.aliased[i].alias)]

Init ==
    /\ imports \in Graphs
    /\ content \in Contents
    /\ queue = <<Line("whole", Entry, Entry, <<>>, "")>>
    /\ parsed = <<>>
    /\ whole = {}
    /\ expanded = {}
    /\ fns = {}
    /\ types = [f \in File |-> [n \in TypeName |-> 0]]
    /\ named = {}
    /\ edges = <<>>
    /\ turn = 0
    /\ verdict = "walking"

\* The import at hand, when there is one.
Following == verdict = "walking" /\ queue # <<>>
Work == Head(queue)

\* The file was read, if it was not before; its imports are queued, if they
\* were not before, unless one of them is not safe.
Safe(f) == f \in expanded \/ \A i \in DOMAIN Lines(f) : Lines(f)[i].path # Unsafe

\* Mutant: the imports of a file are queued whenever it is imported.
OpenAgain(f) ==
    /\ parsed' = IF f \in Range(parsed) THEN parsed ELSE Append(parsed, f)
    /\ expanded' = expanded \union {f}
    /\ queue' = Tail(queue) \o Lines(f)
    /\ UNCHANGED disk

Open(f) ==
    /\ parsed' = IF f \in Range(parsed) THEN parsed ELSE Append(parsed, f)
    /\ expanded' = expanded \union {f}
    /\ queue' = Tail(queue) \o (IF f \in expanded THEN <<>> ELSE Lines(f))
    /\ UNCHANGED disk

\* The file of the import cannot be read, or imports by an unsafe path.
Unreadable ==
    /\ Following
    /\ ~(Work.kind = "whole" /\ Work.path \in whole)
    /\ \/ (Work.path = Missing) /\ Fails("E-IO-NOT-FOUND")
       \/ Work.path \in File /\ ~Safe(Work.path) /\ Fails("E-IMPORT")

\* The file was merged before: the import is dropped, so a cycle ends here.
SkipWhole ==
    /\ Following
    /\ Work.kind = "whole" /\ Work.path \in whole
    /\ queue' = Tail(queue)
    /\ UNCHANGED <<disk, parsed, whole, expanded, merged, aliases, verdict>>

\* `import "f"` merges everything of the file.
MergeWhole ==
    /\ Following
    /\ Work.kind = "whole"
    /\ Work.path \in File \ whole
    /\ Safe(Work.path)
    /\ LET f == Work.path IN
       IF \E n \in NamesOf(f) : Taken(f, n)
       THEN Fails("E-DUPLICATE")
       ELSE /\ Open(f)
            /\ whole' = whole \union {f}
            /\ fns' = Insert(f, NamesOf(f))
            /\ types' = Count(types, f, content[f].types)
            /\ UNCHANGED <<named, aliases, verdict>>

\* The first of the names that cannot be imported, and why.
Known(f, n) == n \in NamesOf(f) \union content[f].types
Refused(f, n) == ~Known(f, n) \/ (n \in NamesOf(f) /\ Taken(f, n))

\* `import { n } from "f"` merges the named items.
MergeSelected ==
    /\ Following
    /\ Work.kind = "selective"
    /\ Work.path \in File
    /\ Safe(Work.path)
    /\ LET f == Work.path
           bad == {i \in DOMAIN Work.names : Refused(f, Work.names[i])}
           chosen == Range(Work.names)
           new == {n \in chosen \intersect content[f].types : <<f, n>> \notin named}
       IN
       IF bad # {}
       THEN LET first == CHOOSE i \in bad : \A j \in bad : i <= j IN
            Fails(IF Known(f, Work.names[first]) THEN "E-DUPLICATE" ELSE "E-IMPORT")
       ELSE /\ Open(f)
            /\ fns' = Insert(f, chosen \intersect NamesOf(f))
            /\ types' = Count(types, f, new)
            /\ named' = named \union {<<f, n>> : n \in new}
            /\ UNCHANGED <<whole, aliases, verdict>>

\* `import "f" as m` merges nothing yet.
NoteAlias ==
    /\ Following
    /\ Work.kind = "alias"
    /\ Work.path \in File
    /\ Safe(Work.path)
    /\ LET edge == [from |-> Work.from, alias |-> Work.alias, file |-> Work.path] IN
       edges' = IF edge \in Range(edges) THEN edges ELSE Append(edges, edge)
    /\ Open(Work.path)
    /\ UNCHANGED <<whole, merged, turn, verdict>>

Walked ==
    /\ verdict = "walking"
    /\ queue = <<>>
    /\ verdict' = "resolving"
    /\ UNCHANGED <<disk, walk, merged, aliases>>

-----------------------------------------------------------------------------
(* The aliases, edge by edge. *)

Resolving == verdict = "resolving" /\ turn < Len(edges)
Edge == edges[turn + 1]

Rebound ==
    \E i \in DOMAIN edges :
        /\ edges[i].from = Edge.from /\ edges[i].alias = Edge.alias
        /\ edges[i].file # Edge.file

\* A function of the importing file binds the alias as a local name.
Shadowed ==
    \E d \in fns : d.file = Edge.from /\ Edge.alias \in content[d.file].locals

Through(d) == {c \in d.calls : c[1] = Edge.alias}

\* The first edge to a file merges it: its types, and its functions under
\* their internal names.
First == \A i \in 1..turn : edges[i].file # Edge.file
Copies ==
    IF First THEN {Function(Edge.file, n, TRUE) : n \in NamesOf(Edge.file)} ELSE {}

\* Mutant: only the edge that merges a file rewrites calls.
RewriteFirst(d) ==
    IF First /\ d.file = Edge.from THEN [d EXCEPT !.calls = @ \ Through(d)] ELSE d

\* The calls through this alias, in what the importing file has given the
\* program so far, become calls of the copies.
Rewrite(d) ==
    IF d.file = Edge.from THEN [d EXCEPT !.calls = @ \ Through(d)] ELSE d

\* A call through the alias of what its file does not define.
Unknown(S) ==
    \E d \in S : d.file = Edge.from /\ \E c \in Through(d) : c[2] \notin NamesOf(Edge.file)

WrongAlias ==
    /\ Resolving
    /\ \/ (Rebound \/ Shadowed) /\ Fails("E-DUPLICATE")
       \/ ~(Rebound \/ Shadowed) /\ Unknown(fns \union Copies) /\ Fails("E-UNDEFINED")

ResolveAlias ==
    /\ Resolving
    /\ ~(Rebound \/ Shadowed \/ Unknown(fns \union Copies))
    /\ fns' = {Rewrite(d) : d \in fns \union Copies}
    /\ types' = IF First THEN Count(types, Edge.file, content[Edge.file].types) ELSE types
    /\ turn' = turn + 1
    /\ UNCHANGED <<disk, walk, named, edges, verdict>>

Loaded ==
    /\ verdict = "resolving"
    /\ turn = Len(edges)
    /\ verdict' = "loaded"
    /\ UNCHANGED <<disk, walk, merged, aliases>>

Next ==
    \/ Unreadable
    \/ SkipWhole
    \/ MergeWhole
    \/ MergeSelected
    \/ NoteAlias
    \/ Walked
    \/ WrongAlias
    \/ ResolveAlias
    \/ Loaded

Spec == Init /\ [][Next]_vars /\ WF_vars(Next)

-----------------------------------------------------------------------------
(* What a program is, whatever the order in which its files are met. *)

LinesOf(S) == UNION {Range(Lines(f)) : f \in S}

\* The files that are imported, directly or not, in whatever way.
Closed(S) ==
    /\ Entry \in S
    /\ \A l \in LinesOf(S) : l.path \in File => l.path \in S
Reached == {f \in File : \A S \in SUBSET File : Closed(S) => f \in S}

WholeFiles == {Entry} \union {l.path : l \in {l \in LinesOf(Reached) : l.kind = "whole"}}
Selections == {l \in LinesOf(Reached) : l.kind = "selective" /\ l.path \in File}
Wanted ==
    (UNION {{f} \X NamesOf(f) : f \in WholeFiles \intersect File})
    \union (UNION {{l.path} \X (Range(l.names) \intersect NamesOf(l.path)) : l \in Selections})

Conflict ==
    \/ \E l \in LinesOf(Reached) : l.path \notin File
    \/ \E l \in Selections : \E n \in Range(l.names) : ~Known(l.path, n)
    \/ \E d, e \in Wanted : d[2] = e[2] /\ d[1] # e[1]

Merging == verdict \in {"resolving", "loaded"}

ImportsTypeOK ==
    /\ verdict \in Verdicts
    /\ Range(parsed) \subseteq File /\ IsInjective(parsed)
    /\ whole \subseteq expanded /\ expanded = Range(parsed)
    /\ \A d \in fns : d.file \in expanded /\ d.name \in NamesOf(d.file)
    /\ types \in [File -> [TypeName -> Nat]]
    /\ named \subseteq File \X TypeName
    /\ turn \in 0..Len(edges)

\* "Items merely defined in the target file that were NOT named are
\* invisible", and what is imported transitively is not: when the walk is
\* over the program has exactly the functions that its import lines ask for.
MergesWanted ==
    Merging => /\ {<<d.file, d.name>> : d \in Flat} = Wanted
               /\ Range(parsed) = Reached

\* Whether the walk fails depends on what the files say, and not on the
\* order in which it meets them.
FailsOnConflict ==
    /\ Merging => ~Conflict
    /\ verdict \in Codes /\ queue # <<>> => Conflict

\* Every call `m.n()` of a function that was merged under its own name is
\* rewritten.
FlatCallsResolved == verdict = "loaded" => \A d \in Flat : d.calls = {}

\* "Circular imports terminate."
LoadEnds == <>(verdict \notin {"walking", "resolving"})

\* "Every function originating from the importer file (flat or renamed)" has
\* its calls through an alias rewritten.
CopiesResolved == verdict = "loaded" => \A d \in fns : d.calls = {}

\* "Diamond imports merge once."
TypesOnce ==
    verdict = "loaded" => \A f \in File : \A n \in TypeName : types[f][n] <= 1

\* "Duplicate `fn` names are an error."
DuplicatesAreErrors ==
    verdict = "loaded" => \A f \in WholeFiles : IsInjective(content[f].fns)
=============================================================================
