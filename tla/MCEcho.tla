------------------------------- MODULE MCEcho -------------------------------
(* Instances of Echo for TLC: two or three echo threads and one line.       *)
EXTENDS Echo

=============================================================================
