---------------------------- MODULE MCWorkers ----------------------------
(* A small instance of Workers for TLC. *)
EXTENDS Workers

MainOrAnyone == {{Main}, Thread}
OneOrTwo == {1, 2}
Either == {TRUE, FALSE}

\* Handles are passed around in the runs where main does all the spawning.
SmallInit == Init /\ (shares => spawners = {Main})
SmallSpec == SmallInit /\ [][Next]_vars /\ Fairness

=============================================================================
