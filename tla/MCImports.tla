------------------------------ MODULE MCImports ------------------------------
(* Small instances of Imports for TLC: all programs of three files with up  *)
(* to three import lines, the lines of a kind in one order.                 *)
EXTENDS Imports, TLC

CONSTANTS lib, util,  \* the other two files
          g, h, T, m  \* two functions, a type, and an alias

Wholes == [from : File, kind : {"whole"}, path : File \union {Missing}]
ByName == [from : File, kind : {"selective"}, path : File, names : {<<g>>, <<T, h>>}]
ByAlias == [from : File, kind : {"alias"}, path : File \union {Unsafe}, alias : {m}]

Rank == (Entry :> 1) @@ (lib :> 2) @@ (util :> 3) @@ (Missing :> 4) @@ (Unsafe :> 5)
Before(x, y) ==
    \/ Rank[x.path] < Rank[y.path]
    \/ x.path = y.path /\ x.kind = "selective" /\ x.names = <<g>> /\ y.names # <<g>>

Imported(S, f, kind) == SetToSortSeq({e \in S : e.from = f /\ e.kind = kind}, Before)

Graph(S) ==
    [f \in File |->
        LET wholes == Imported(S, f, "whole")
            chosen == Imported(S, f, "selective")
            aliased == Imported(S, f, "alias")
        IN
        [whole |-> [i \in DOMAIN wholes |-> wholes[i].path],
         selective |-> [i \in DOMAIN chosen |-> [path |-> chosen[i].path, names |-> chosen[i].names]],
         aliased |-> [i \in DOMAIN aliased |-> [path |-> aliased[i].path, alias |-> aliased[i].alias]]]]

UpToThree ==
    LET E == Wholes \union ByName \union ByAlias IN
    {Graph({t[1], t[2], t[3]}) : t \in E \X E \X E}

\* Functions call m.g(), and those of the entry may bind m.
Defines(names, ts, bound) ==
    [fns |-> names, types |-> ts, calls |-> {<<m, g>>}, locals |-> bound]

Small ==
    {(Entry :> c1) @@ (lib :> c2) @@ (util :> c3) :
        c1 \in {Defines(<<g>>, {}, {}), Defines(<<h>>, {}, {m})},
        c2 \in {Defines(<<g, h>>, {T}, {}), Defines(<<h>>, {}, {}), Defines(<<g, g>>, {}, {})},
        c3 \in {Defines(<<g, h>>, {T}, {}), Defines(<<h>>, {}, {})}}

=============================================================================
