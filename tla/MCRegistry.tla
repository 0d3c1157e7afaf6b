----------------------------- MODULE MCRegistry -----------------------------
(* Small instances of Registry for TLC. *)
EXTENDS Registry, TLC

CONSTANTS v1, v2, a, b

ThreeLocalTwoShared == [k \in {"local", "b2"} |-> IF k = "local" THEN 3 ELSE 2]

\* The first version with two archives, the second with one.
ConflictAndOther == {<<v1, a>>, <<v1, b>>, <<v2, a>>}

\* One publish on the bucket.
OnePublish == [k \in {"b2"} |-> 1]

Symmetry == Permutations(Slots) \union Permutations(Instances)

=============================================================================
