---------------------------- MODULE MCTaskGroup ----------------------------
(***************************************************************************)
(* The classes of programs that the run of TaskGroup explores.  A class    *)
(* names the forms its functions may use together; all forms at once, with *)
(* three activations, are too many states.                                 *)
(***************************************************************************)
EXTENDS TaskGroup

MCClasses ==
  { {"call", "exit", "own"},           \* plain calls, exit, errors of a frame
    {"jump", "exit", "own"},           \* jumps out of groups
    {"nest", "call", "own"},           \* groups in groups
    {"try", "jump", "own", "exit"},    \* caught errors
    {"early", "skip", "call"} }        \* awaits that count and join nothing
=============================================================================
