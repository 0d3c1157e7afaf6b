----------------------------- MODULE MCProject -----------------------------
(* A small instance of Project, with its resolver, for TLC. *)
EXTENDS Project, TLC

CONSTANTS a, b, x, y

V1 == Triple(1, 0, 0)
V11 == Triple(1, 1, 0)
V2 == Triple(2, 0, 0)

AllReleases == {V1, V11, V2}

Only(op, v) == {[op |-> op, base |-> v]}
Anything == Only("any", V1)
On(n, req) == [name |-> n, req |-> req]
With(sha, deps) == [sha |-> sha, deps |-> deps]

\* a needs a compatible b; b has a breaking release.
Served0 == (a :> (V1 :> With(x, {On(b, Only("caret", V1))})))
        @@ (b :> (V1 :> With(x, {}) @@ V2 :> With(x, {})))
\* The highest a leads to a b that forbids it; that b cannot go back.
Looping == (a :> (V1 :> With(x, {}) @@ V2 :> With(x, {On(b, Only("caret", V1))})))
        @@ (b :> (V1 :> With(x, {On(a, Only("lt", V2))}) @@ V2 :> With(x, {})))

\* Each choice of a leads to a choice of b that forbids it.
Circling == (a :> (V1 :> With(x, {On(b, Only("exact", V2))}) @@ V2 :> With(x, {On(b, Only("exact", V1))})))
         @@ (b :> (V1 :> With(x, {On(a, Only("exact", V1))}) @@ V2 :> With(x, {On(a, Only("exact", V2))})))

\* A package that needs itself.
Selfish == (a :> (V1 :> With(x, {On(a, Anything)})))
        @@ (b :> (V1 :> With(x, {On(a, Anything)})))

SomeRegistries == {Served0, Looping, Circling, Selfish}

Later == {[name |-> b, version |-> V11, release |-> With(x, {})]}

Do(kind, specs, section, caret, offline) ==
    [kind |-> kind, specs |-> specs, section |-> section, caret |-> caret, offline |-> offline]

SomeCommands ==
    {Do("fetch", {}, "dependencies", FALSE, FALSE), Do("fetch", {}, "dependencies", FALSE, TRUE),
     Do("install", {On(b, Anything)}, "dependencies", FALSE, FALSE),
     Do("add", {On(b, Only("lt", V2))}, "dev-dependencies", TRUE, FALSE),
     Do("add", {On(b, Anything)}, "dependencies", FALSE, TRUE),
     Do("add many", {On(a, Anything), On(b, Only("caret", V1))}, "dependencies", FALSE, FALSE),
     Do("add many", {On(a, Only("caret", V1))}, "dependencies", TRUE, FALSE),
     Do("remove", {On(b, Anything)}, "dependencies", FALSE, FALSE)}

SomeLayouts == {<<"project", "dependencies">>, <<"dependencies", "build">>}

LockedAt(n, v) == [name |-> n, version |-> v, sha |-> x]
Checkout(reqs, locked, vendored) == [reqs |-> reqs, lock |-> locked, vendored |-> vendored]

SomeCheckouts ==
    {Checkout({}, {}, FALSE), Checkout({On(a, Only("caret", V1))}, {}, FALSE)}
    \union {Checkout({On(a, Anything), On(b, Only("lt", V2))}, {LockedAt(a, V1), LockedAt(b, V1)}, v) : v \in BOOLEAN}

NoRoots == {}

=============================================================================
