------------------------------ MODULE Versions ------------------------------
(***************************************************************************)
(* Versions and version constraints, src/src/package/version.rs.  A        *)
(* version is a numeric triple, a constraint is a set of predicates that    *)
(* must all hold.  Parsing is left out: 1-3 parts are a triple here.        *)
(***************************************************************************)
EXTENDS Naturals

Version == [major : Nat, minor : Nat, patch : Nat]

Triple(x, y, z) == [major |-> x, minor |-> y, patch |-> z]

Operator == {"exact", "caret", "tilde", "gt", "gte", "lt", "lte", "any"}

Predicate == [op : Operator, base : Version]

Constraint == SUBSET Predicate

Below(a, b) ==
    \/ a.major < b.major
    \/ a.major = b.major /\ a.minor < b.minor
    \/ a.major = b.major /\ a.minor = b.minor /\ a.patch < b.patch

CaretEndNaive(base) == Triple(base.major + 1, 0, 0)

\* The first version that is not compatible with base: what follows the
\* leftmost part that is not zero counts up (the last part, if all are zero).
CaretEnd(base) ==
    IF base.major > 0 THEN Triple(base.major + 1, 0, 0)
    ELSE IF base.minor > 0 THEN Triple(0, base.minor + 1, 0)
    ELSE Triple(0, 0, base.patch + 1)

TildeEnd(base) == Triple(base.major, base.minor + 1, 0)

Holds(p, v) ==
    \/ p.op = "any"
    \/ p.op = "exact" /\ v = p.base
    \/ p.op = "gt" /\ Below(p.base, v)
    \/ p.op = "gte" /\ ~Below(v, p.base)
    \/ p.op = "lt" /\ Below(v, p.base)
    \/ p.op = "lte" /\ ~Below(p.base, v)
    \/ p.op = "caret" /\ ~Below(v, p.base) /\ Below(v, CaretEnd(p.base))
    \/ p.op = "tilde" /\ ~Below(v, p.base) /\ Below(v, TildeEnd(p.base))

Matches(v, c) == \A p \in c : Holds(p, v)

-----------------------------------------------------------------------------
(***************************************************************************)
(* What the operators promise (version.rs:3-17), without ranges: a caret    *)
(* keeps every part up to the leftmost one that is not zero, a tilde keeps  *)
(* the first two, and neither goes back.                                    *)
(***************************************************************************)

Compatible(base, v) ==
    /\ v.major = base.major
    /\ base.major = 0 /\ base.minor > 0 => v.minor = base.minor
    /\ base.major = 0 /\ base.minor = 0 => v.minor = 0 /\ v.patch = base.patch

Close(base, v) == v.major = base.major /\ v.minor = base.minor

NotBefore(base, v) == v = base \/ Below(base, v)

Accepts(p, v) ==
    \/ p.op = "any"
    \/ p.op = "exact" /\ v = p.base
    \/ p.op = "gt" /\ Below(p.base, v)
    \/ p.op = "gte" /\ NotBefore(p.base, v)
    \/ p.op = "lt" /\ Below(v, p.base)
    \/ p.op = "lte" /\ NotBefore(v, p.base)
    \/ p.op = "caret" /\ NotBefore(p.base, v) /\ Compatible(p.base, v)
    \/ p.op = "tilde" /\ NotBefore(p.base, v) /\ Close(p.base, v)

Satisfies(v, c) == \A p \in c : Accepts(p, v)

=============================================================================
