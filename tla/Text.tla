-------------------------------- MODULE Text --------------------------------
(***************************************************************************)
(* The way of a program from its author to the compiler: written as text,  *)
(* parsed, formatted by fmt (fmt_source in src/src/fmt.rs) and parsed      *)
(* again.                                                                  *)
(***************************************************************************)
EXTENDS Checker

Author  == INSTANCE Syntax WITH Terse <- TRUE
Grammar == INSTANCE Syntax WITH Terse <- FALSE

(* Each declaration is a text of its own, the same for all programs.       *)
File(functions, structs, enums) == [functions |-> functions, structs |-> structs, enums |-> enums]
Declarations == {File(<<>>, x :> Structs[x], <<>>) : x \in DOMAIN Structs}
                \cup {File(<<>>, <<>>, x :> Enums[x]) : x \in DOMAIN Enums}
DeclarationsKept ==
  \A file \in Declarations : LET p == Grammar!Parse(Grammar!Format(file)) IN p.ok /\ p.v = file

(* What the parser reads in the text of a program: functions, or nothing.  *)
Whole(functions) == File(functions, <<>>, <<>>)
Unread == [main |-> [params |-> <<>>, tys |-> <<>>, ret |-> "i64", body |-> <<>>]]
Functions(p) ==
  IF DeclarationsKept /\ p.ok /\ p.v = Whole(p.v.functions) THEN p.v.functions ELSE Unread
Parsed(text) == Functions(Grammar!Parse(text))

(* A line that begins like the rest of an expression: with no semicolon    *)
(* before it, it is read as part of the line above.  A known difference:   *)
(* such a text is left unformatted.                                        *)
RunsOn(text) ==
  \E i \in 1..(Len(text) - 1) : text[i] = Grammar!LineBreak /\ text[i + 1][1] \in {"(", "[", "-"}
Formatted(functions, text) == IF RunsOn(text) THEN functions ELSE Parsed(text)
Saved(functions) ==
  IF functions = Unread THEN Unread ELSE Formatted(functions, Grammar!Format(Whole(functions)))

(* What is lowered: nothing if the checker rejects the program, else what  *)
(* is read again.                                                          *)
Delivered(functions) ==
  IF Accepts(functions) THEN Saved(Parsed(Author!Format(Whole(functions)))) ELSE <<>>
=============================================================================
