---------------------------- MODULE VersionStore ----------------------------
(***************************************************************************)
(* What the package registry promises about the versions of a package      *)
(* (SPEC.md: "no overwrite of published versions"): a version gets its      *)
(* bytes once and keeps them, and only bytes that are stored are            *)
(* acknowledged.  The promise is given up for a version that two publishers *)
(* with different bytes store at the same time, which the bucket cannot     *)
(* prevent.                                                                 *)
(***************************************************************************)
CONSTANTS
    Versions,   \* the versions of the package
    Contents,   \* the archives a version can be published with
    Nothing,    \* the version is not stored
    Disputed    \* two publishers stored different bytes at once

VARIABLES
    stored,         \* what each version holds
    acknowledged    \* the pairs of a version and an archive answered with 200

storeVars == <<stored, acknowledged>>

Init ==
    /\ stored = [v \in Versions |-> Nothing]
    /\ acknowledged = {}

Store(v, c) ==
    /\ stored[v] = Nothing
    /\ stored' = [stored EXCEPT ![v] = c]
    /\ UNCHANGED acknowledged

Acknowledge(v, c) ==
    /\ stored[v] \in {c, Disputed}
    /\ acknowledged' = acknowledged \union {<<v, c>>}
    /\ UNCHANGED stored

\* A second publisher found no object while the first was about to store one
\* with other bytes.
Dispute(v) ==
    /\ stored' = [stored EXCEPT ![v] = Disputed]
    /\ UNCHANGED acknowledged

Next ==
    \E v \in Versions :
        \/ Dispute(v)
        \/ \E c \in Contents : Store(v, c) \/ Acknowledge(v, c)

Spec == Init /\ [][Next]_storeVars

=============================================================================
