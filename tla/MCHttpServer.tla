---------------------------- MODULE MCHttpServer ----------------------------
(* Small instances of HttpServer for TLC. *)
EXTENDS HttpServer

Symmetry == Permutations(Conn) \union Permutations(Worker)

=============================================================================
