------------------------------- MODULE Syntax -------------------------------
(***************************************************************************)
(* The text of a program: the canonical formatter (src/src/fmt.rs) and the *)
(* recursive descent parser (src/src/parser/mod.rs), for the programs of   *)
(* Mir with their struct and enum declarations.                            *)
(*                                                                         *)
(* A text is a sequence of tokens <<kind, value>> and line breaks.  What   *)
(* the tokenizer drops, blanks and comments, is not written, but for the   *)
(* line breaks between statements.  A parser is [toks, pos, ok, v]: where  *)
(* it is, whether it met an error, and the node it read last.  Node        *)
(* identities and spans, which only diagnostics show, are left out, and so *)
(* are imports, modules, visibility, closures, tasks, strings, floats,     *)
(* maps and the generic declarations.                                      *)
(***************************************************************************)
EXTENDS Integers, Sequences, SequencesExt, TLC

CONSTANT Terse    \* how the text is written: FALSE by the formatter, TRUE by an
                  \* author, with a semicolon after each statement and only the
                  \* parentheses that the precedence of the operators asks for

Tok(kind) == <<kind, "">>
Word(x) == <<"name", x>>
Number(n) == <<"number", n>>
LineBreak == Tok("line")

Symbol == [add |-> "+", sub |-> "-", mul |-> "*", div |-> "/", mod |-> "%", eq |-> "==",
           ne |-> "!=", lt |-> "<", le |-> "<=", gt |-> ">", ge |-> ">=", and |-> "&&",
           or |-> "||", neg |-> "-", not |-> "!"]
OpOf(symbol) == CHOOSE op \in DOMAIN Symbol \ {"neg", "not"} : Symbol[op] = symbol

-----------------------------------------------------------------------------
(* The formatter (and the author).                                         *)

(* Declarations come in any order (SetToSeq would try all the sequences).   *)
Listed(S) == FoldSet(LAMBDA x, xs : Append(xs, x), <<>>, S)

Concat(texts) == FlattenSeq(texts \o <<>>)
Commas(texts) ==
  Concat([i \in DOMAIN texts |-> IF i = 1 THEN texts[i] ELSE <<Tok(",")>> \o texts[i]])
Between(open, text, close) == <<Tok(open)>> \o text \o <<Tok(close)>>
Lines(texts) == Concat([i \in DOMAIN texts |-> texts[i] \o <<LineBreak>>])
Semicolon == IF Terse THEN <<Tok(";")>> ELSE <<>>
Braced(texts) == Between("{", <<LineBreak>> \o Lines(texts), "}")

(* A constructor or a pattern without arguments has no parentheses.        *)
VariantText(x, tag, args) ==
  <<Word(x), Tok("::"), Word(tag)>> \o (IF args = <<>> THEN <<>> ELSE Between("(", Commas(args), ")"))

RECURSIVE ExprText(_), PatternText(_), StmtText(_)

(* An operand in a place that takes operators of a rank and tighter ones.  *)
Ranks == << {"or"}, {"and"}, {"eq", "ne"}, {"lt", "le", "gt", "ge"}, {"add", "sub"}, {"mul", "div", "mod"} >>
Rank(e) ==
  CASE e.k \in {"bin", "logic"} -> CHOOSE n \in DOMAIN Ranks : e.op \in Ranks[n]
    [] e.k \in {"neg", "not"} -> Len(Ranks) + 1
    [] OTHER -> Len(Ranks) + 2
Operand(e, rank) ==
  IF Terse /\ Rank(e) < rank THEN Between("(", ExprText(e), ")") ELSE ExprText(e)
OperatorText(e) ==
  LET text == Operand(e.l, Rank(e)) \o <<Tok(Symbol[e.op])>> \o Operand(e.r, Rank(e) + 1)
  IN  IF Terse THEN text ELSE Between("(", text, ")")
BaseText(e) == Operand(e, Len(Ranks) + 2)

PatternText(b) ==
  CASE b.p = "ignore" -> <<Word("_")>>
    [] b.p = "bind"   -> <<Word(b.x)>>
    [] b.p = "nest"   -> VariantText(b.x, b.tag, [i \in DOMAIN b.pats |-> PatternText(b.pats[i])])

ExprTexts(es) == [i \in DOMAIN es |-> ExprText(es[i])]
FieldTexts(e) == [i \in DOMAIN e.args |-> <<Word(e.fields[i]), Tok(":")>> \o ExprText(e.args[i])]
BlockText(stmts) == Braced([i \in DOMAIN stmts |-> StmtText(stmts[i])])

ArmHead(arm) ==
  (IF arm.tag = "_" THEN <<Word("_")>>
   ELSE PatternText([p |-> "nest", x |-> arm.x, tag |-> arm.tag, pats |-> arm.pats]))
  \o (IF arm.guard = <<>> THEN <<>> ELSE <<Tok("if")>> \o ExprText(arm.guard[1]))
  \o <<Tok("=>")>>
(* The value of an arm with a setup is the last line of its block.         *)
ArmText(arm) ==
  ArmHead(arm) \o (IF arm.setup = <<>> THEN ExprText(arm.body)
                   ELSE Braced([i \in DOMAIN arm.setup |-> StmtText(arm.setup[i])]
                               \o <<ExprText(arm.body)>>))

(* Operators of two operands are in parentheses, those of one are not.     *)
ExprText(e) ==
  CASE e.k = "int"    -> <<Number(e.v)>>
    [] e.k = "bool"   -> <<Tok(IF e.v = 1 THEN "true" ELSE "false")>>
    [] e.k = "var"    -> <<Word(e.x)>>
    [] e.k \in {"bin", "logic"} -> OperatorText(e)
    [] e.k \in {"neg", "not"} -> <<Tok(Symbol[e.k])>> \o Operand(e.e, Rank(e))
    [] e.k = "call"   -> <<Word(e.x)>> \o Between("(", Commas(ExprTexts(e.args)), ")")
    [] e.k = "array"  -> Between("[", Commas(ExprTexts(e.args)), "]")
    [] e.k = "struct" -> <<Word(e.x)>> \o Between("{", Commas(FieldTexts(e)), "}")
    [] e.k = "ctor"   -> VariantText(e.x, e.tag, ExprTexts(e.args))
    [] e.k = "index"  -> BaseText(e.l) \o Between("[", ExprText(e.r), "]")
    [] e.k = "field"  -> BaseText(e.e) \o <<Tok("."), Word(e.x)>>
    [] e.k = "match"  -> <<Tok("match")>> \o ExprText(e.e)
         \o Between("{", Commas([i \in DOMAIN e.arms |-> ArmText(e.arms[i])]), "}")

(* An else block that holds one if alone is written else if.               *)
ElseText(else) ==
  CASE else = <<>> -> <<>>
    [] Len(else) = 1 /\ else[1].s = "if" -> <<Tok("else")>> \o StmtText(else[1])
    [] OTHER -> <<Tok("else")>> \o BlockText(else)

SimpleText(st) ==
  CASE st.s = "let"    -> <<Tok("let"), Word(st.x), Tok("=")>> \o ExprText(st.e)
    [] st.s = "assign" -> <<Word(st.x), Tok("=")>> \o ExprText(st.e)
    [] st.s = "store"  -> ExprText([k |-> "index", l |-> st.l, r |-> st.r]) \o <<Tok("=")>> \o ExprText(st.e)
    [] st.s = "set"    -> ExprText([k |-> "field", e |-> st.l, x |-> st.x]) \o <<Tok("=")>> \o ExprText(st.e)
    [] st.s = "return" -> <<Tok("return")>> \o ExprText(st.e)
    [] st.s = "print"  -> <<Tok("print")>> \o Between("(", ExprText(st.e), ")")
    [] st.s = "expr"   -> ExprText(st.e)
    [] st.s \in {"break", "continue"} -> <<Tok(st.s)>>
CompoundText(st) ==
  CASE st.s = "if"     -> <<Tok("if")>> \o ExprText(st.e) \o BlockText(st.then) \o ElseText(st.else)
    [] st.s = "while"  -> <<Tok("while")>> \o ExprText(st.e) \o BlockText(st.body)
    [] st.s = "range"  -> <<Tok("for"), Word(st.x), Tok("in")>> \o ExprText(st.l)
         \o <<Tok("..")>> \o ExprText(st.r) \o BlockText(st.body)
    [] st.s = "in"     -> <<Tok("for"), Word(st.x), Tok("in")>> \o ExprText(st.e) \o BlockText(st.body)
    [] st.s = "try"    -> <<Tok("try")>> \o BlockText(st.body)
         \o <<Tok("catch"), Word(st.x)>> \o BlockText(st.handler)
StmtText(st) ==
  IF st.s \in {"if", "while", "range", "in", "try"} THEN CompoundText(st)
  ELSE SimpleText(st) \o Semicolon

(* Declarations; a payload is written without the names of its fields.     *)
Typed(xs, tys) == Commas([i \in DOMAIN xs |-> <<Word(xs[i]), Tok(":"), Word(tys[i])>>])
StructText(x, struct) ==
  LET xs == Listed(DOMAIN struct)
  IN  <<Tok("struct"), Word(x)>> \o Between("{", Typed(xs, [i \in DOMAIN xs |-> struct[xs[i]]]), "}")
EnumText(x, enum) ==
  LET tags == Listed(DOMAIN enum)
      payload(tys) == IF tys = <<>> THEN <<>>
                      ELSE Between("(", Commas([i \in DOMAIN tys |-> <<Word(tys[i])>>]), ")")
  IN  <<Tok("enum"), Word(x)>>
      \o Between("{", Commas([i \in DOMAIN tags |-> <<Word(tags[i])>> \o payload(enum[tags[i]])]), "}")
FunctionText(x, f) ==
  <<Tok("fn"), Word(x)>> \o Between("(", Typed(f.params, f.tys), ")")
  \o <<Tok("->"), Word(f.ret)>> \o BlockText(f.body)

Each(decls, Op(_, _)) ==
  LET xs == Listed(DOMAIN decls) IN Concat([i \in DOMAIN xs |-> Op(xs[i], decls[xs[i]])])
Format(p) ==
  Each(p.structs, StructText) \o Each(p.enums, EnumText) \o Each(p.functions, FunctionText)

-----------------------------------------------------------------------------
(* The parser.  After an error nothing is read any more.                   *)

(* The tokenizer drops the line breaks and ends with an end of file.       *)
Parser(text) ==
  [toks |-> Append(SelectSeq(text, LAMBDA t : t # LineBreak), Tok("eof")),
   pos |-> 1, ok |-> TRUE, v |-> <<>>]

Kind(p) == IF p.ok THEN p.toks[p.pos][1] ELSE "error"
Value(p) == p.toks[p.pos][2]
Bump(p) == IF p.ok /\ p.pos < Len(p.toks) THEN [p EXCEPT !.pos = @ + 1] ELSE p
NextKind(p) == Kind(Bump(p))
Give(p, v) == [p EXCEPT !.v = v]
Wrong(p) == [p EXCEPT !.ok = FALSE]
(* These leave the value alone.                                            *)
Expect(p, kind) == IF Kind(p) = kind THEN Bump(p) ELSE Wrong(p)
Optional(p, kind) == IF Kind(p) = kind THEN Bump(p) ELSE p
Ident(p) == IF Kind(p) = "name" THEN Give(Bump(p), Value(p)) ELSE Wrong(p)

RECURSIVE TypeName(_), TypePath(_), Binding(_), Segments(_, _),
          Expr(_), Level(_, _), Operators(_, _), Unary(_), Postfix(_), Primary(_),
          Target(_), Stmt(_), If(_), Stmts(_, _), ArmBlock(_, _), Arms(_, _),
          More(_, _, _, _), Declared(_, _, _), Decls(_, _), Decl(_, _, _)

-----------------------------------------------------------------------------
(* Lists: elements with commas between them, up to a closing token.  Those *)
(* with a name are [x, e].                                                 *)
Named(p, e) == Give(e, [x |-> p.v, e |-> e.v])
Names(list) == [i \in DOMAIN list |-> list[i].x] \o <<>>
Values(list) == [i \in DOMAIN list |-> list[i].e] \o <<>>
FieldInit(p) == Named(p, Expr(Expect(p, ":")))
Param(p) == Named(p, TypeName(Expect(p, ":")))
Payload(p) == IF Kind(p) = "name" /\ NextKind(p) = ":" THEN Param(Ident(p))
              ELSE Named(Give(p, ""), TypeName(p))
Element(p, what) ==
  CASE what = "expr"    -> Expr(p)
    [] what = "binding" -> Binding(p)
    [] what = "type"    -> TypeName(p)
    [] what = "init"    -> FieldInit(Ident(p))
    [] what = "param"   -> Param(Ident(p))
    [] what = "payload" -> Payload(p)
More(p, what, close, vs) ==
  IF Kind(p) = "," THEN More(Element(Bump(p), what), what, close, Append(vs, p.v))
  ELSE Give(Expect(p, close), Append(vs, p.v))
List(p, what, close) ==
  IF Kind(p) = close THEN Give(Bump(p), <<>>) ELSE More(Element(p, what), what, close, <<>>)
(* A list in parentheses, or nothing at all.                               *)
ListOpt(p, what) == IF Kind(p) = "(" THEN List(Bump(p), what, ")") ELSE Give(p, <<>>)

(* A type: segments, and arguments of its own (left out of its name).      *)
Qualified(x, p) == Give(p, x \o "::" \o p.v)
TypePath(p) == IF Kind(p) = "::" THEN TypePath(Qualified(p.v, Ident(Bump(p)))) ELSE p
TypeArgs(x, p) == IF p.ok /\ p.v # <<>> THEN Give(p, x) ELSE Wrong(p)
TypeEnd(p) == IF Kind(p) = "<" THEN TypeArgs(p.v, List(Bump(p), "type", ">")) ELSE p
TypeName(p) == TypeEnd(TypePath(Ident(p)))

-----------------------------------------------------------------------------
(* Expressions: the levels of the binary operators, loosest first, all     *)
(* associating to the left.  An operand of a level is one of the next      *)
(* tighter levels: an operator takes the operators after it that are       *)
(* tighter than itself, and its level goes on with those that are not.     *)
Levels == << {"||"}, {"&&"}, {"==", "!="}, {"<", "<=", ">", ">="}, {"+", "-"}, {"*", "/", "%"} >>
LevelOf(symbol) == SelectInSeq(Levels, LAMBDA symbols : symbol \in symbols)

Binary(l, symbol, p) ==
  Give(p, [k |-> IF symbol \in {"&&", "||"} THEN "logic" ELSE "bin",
           op |-> OpOf(symbol), l |-> l, r |-> p.v])
Operators(p, n) ==
  IF LevelOf(Kind(p)) < n THEN p
  ELSE Operators(Binary(p.v, Kind(p), Level(Bump(p), LevelOf(Kind(p)) + 1)), n)
Level(p, n) == Operators(Unary(p), n)
Expr(p) == Level(p, 1)

Prefixed(k, p) == Give(p, [k |-> k, e |-> p.v])
Unary(p) ==
  CASE Kind(p) = "-" -> Prefixed("neg", Unary(Bump(p)))
    [] Kind(p) = "!" -> Prefixed("not", Unary(Bump(p)))
    [] OTHER -> Postfix(Primary(p))

(* What may follow a primary expression: an index, a field, a method call. *)
Indexed(l, p) == Give(Expect(p, "]"), [k |-> "index", l |-> l, r |-> p.v])
Method(e, x, p) == Give(p, [k |-> "method", x |-> x, e |-> e, args |-> p.v])
Field(e, p) == Give(p, [k |-> "field", e |-> e, x |-> p.v])
Member(e, p) ==
  IF Kind(p) = "(" THEN Method(e, p.v, List(Bump(p), "expr", ")")) ELSE Field(e, p)
Postfix(p) ==
  CASE Kind(p) = "[" -> Postfix(Indexed(p.v, Expr(Bump(p))))
    [] Kind(p) = "." -> Postfix(Member(p.v, Ident(Bump(p))))
    [] OTHER -> p

Called(x, p) == Give(p, [k |-> "call", x |-> x, args |-> p.v])
Variant(x, tag, p) == Give(p, [k |-> "ctor", x |-> x, tag |-> tag, args |-> p.v])
InModule(x, y, p) == Variant(x \o "::" \o y, p.v, ListOpt(p, "expr"))
Struct(x, p) == Give(p, [k |-> "struct", x |-> x, fields |-> Names(p.v), args |-> Values(p.v)])

(* < after a name begins type arguments if types, > and ( follow, else it  *)
(* is a comparison and nothing of it has been read.                        *)
TypeArguments(types) == types.ok /\ types.v # <<>> /\ Kind(types) = "("
Instance(x, targs, p) == Give(p, [k |-> "generic", x |-> x, targs |-> targs, args |-> p.v])
Generic(x, p, types) ==
  IF TypeArguments(types) THEN Instance(x, types.v, List(Bump(types), "expr", ")"))
  ELSE Give(p, [k |-> "var", x |-> x])
GenericVariant(x, tag, p, types) ==
  IF TypeArguments(types) THEN Instance(x \o "::" \o tag, types.v, List(Bump(types), "expr", ")"))
  ELSE Variant(x, tag, Give(p, <<>>))

(* After x::y.                                                             *)
Path(x, p) ==
  CASE Kind(p) = "::" -> InModule(x, p.v, Ident(Bump(p)))
    [] Kind(p) = "{"  -> Struct(x \o "::" \o p.v, List(Bump(p), "init", "}"))
    [] Kind(p) = "<"  -> GenericVariant(x, p.v, p, List(Bump(p), "type", ">"))
    [] OTHER -> Variant(x, p.v, ListOpt(p, "expr"))

Capital(x) == \E i \in 1..26 : SubSeq("ABCDEFGHIJKLMNOPQRSTUVWXYZ", i, i) = SubSeq(x, 1, 1)
AfterName(x, p) ==
  CASE Kind(p) = "::" -> Path(x, Ident(Bump(p)))
    [] Kind(p) = "("  -> Called(x, List(Bump(p), "expr", ")"))
    [] Kind(p) = "<"  -> Generic(x, p, List(Bump(p), "type", ">"))
    [] Kind(p) = "{" /\ Capital(x) -> Struct(x, List(Bump(p), "init", "}"))
    [] OTHER -> Give(p, [k |-> "var", x |-> x])

Array(p) == Give(p, [k |-> "array", args |-> p.v])
Literal(p, k, v) == Give(Bump(p), [k |-> k, v |-> v])
Match(on, p) ==
  IF p.ok /\ p.v # <<>> THEN Give(p, [k |-> "match", e |-> on, arms |-> p.v]) ELSE Wrong(p)
MatchOn(p) == Match(p.v, Arms(Expect(p, "{"), <<>>))
Primary(p) ==
  CASE Kind(p) = "number" -> Literal(p, "int", Value(p))
    [] Kind(p) = "true"   -> Literal(p, "bool", 1)
    [] Kind(p) = "false"  -> Literal(p, "bool", 0)
    [] Kind(p) = "["      -> Array(List(Bump(p), "expr", "]"))
    [] Kind(p) = "("      -> Expect(Expr(Bump(p)), ")")
    [] Kind(p) = "match"  -> MatchOn(Expr(Bump(p)))
    [] Kind(p) = "name"   -> AfterName(Value(p), Bump(p))
    [] OTHER -> Wrong(p)

-----------------------------------------------------------------------------
(* Match: the arms, with optional commas after them.                       *)

(* A binding: _ ignores, a name alone binds, a path is a pattern.          *)
Segments(p, path) ==
  IF Kind(p) # "::" THEN Give(p, Append(path, p.v))
  ELSE IF Len(path) = 2 THEN Wrong(p)
  ELSE Segments(Ident(Bump(p)), Append(path, p.v))
EnumOf(path) == IF Len(path) = 2 THEN path[1] ELSE path[1] \o "::" \o path[2]
Nested(path, p) ==
  Give(p, [p |-> "nest", x |-> EnumOf(path), tag |-> Last(path), pats |-> p.v])
Bound(p) ==
  IF p.ok /\ Len(p.v) > 1 THEN Nested(p.v, ListOpt(p, "binding"))
  ELSE Give(p, [p |-> "bind", x |-> p.v[1]])
Binding(p) ==
  IF Kind(p) = "name" /\ Value(p) = "_" THEN Give(Bump(p), [p |-> "ignore"])
  ELSE IF Kind(p) = "name" THEN Bound(Segments(Ident(p), <<>>))
  ELSE Wrong(p)

(* The head of an arm: a pattern of its own needs its enum's name.         *)
AnyValue == [x |-> "", tag |-> "_", pats |-> <<>>]
Pattern(p) ==
  IF ~p.ok \/ p.v.p = "bind" THEN Wrong(p)
  ELSE Give(p, IF p.v.p = "ignore" THEN AnyValue ELSE [x |-> p.v.x, tag |-> p.v.tag, pats |-> p.v.pats])
Guard(head, p) == Give(p, [guard |-> <<p.v>>] @@ head)
GuardOpt(p) == IF Kind(p) = "if" THEN Guard(p.v, Expr(Bump(p))) ELSE Give(p, [guard |-> <<>>] @@ p.v)

(* The body: an expression, or a block that ends with one.                 *)
ArmStmt(p, setup) ==
  IF p.ok /\ p.v.s = "expr" /\ Kind(p) = "}" THEN Give(Bump(p), [setup |-> setup, body |-> p.v.e])
  ELSE ArmBlock(p, Append(setup, p.v))
ArmBlock(p, setup) ==
  IF Kind(p) \in {"}", "eof", "error"} THEN Wrong(p) ELSE ArmStmt(Stmt(p), setup)
OnlyValue(p) == Give(p, [setup |-> <<>>, body |-> p.v])
ArmBody(p) == IF Kind(p) = "{" THEN ArmBlock(Bump(p), <<>>) ELSE OnlyValue(Expr(p))

WithBody(head, p) == Give(p, p.v @@ head)
WithHead(p) == WithBody(p.v, ArmBody(Expect(p, "=>")))
Arm(p) == WithHead(GuardOpt(Pattern(Binding(p))))
NextArm(p, arms) == Arms(Optional(p, ","), Append(arms, p.v))
Arms(p, arms) ==
  CASE Kind(p) = "}" -> Give(Bump(p), arms)
    [] Kind(p) \in {"eof", "error"} -> Wrong(p)
    [] OTHER -> NextArm(Arm(p), arms)

-----------------------------------------------------------------------------
(* Statements, up to a closing brace; a semicolon may follow some.         *)
StmtsFrom(p, stmts) == Stmts(p, Append(stmts, p.v))
Stmts(p, stmts) ==
  IF Kind(p) \in {"}", "eof", "error"} THEN Give(p, stmts) ELSE StmtsFrom(Stmt(p), stmts)
Block(p) == Expect(Stmts(Expect(p, "{"), <<>>), "}")

Ended(p, st) == Give(Optional(p, ";"), st)

Variable(p) == Give(p, [k |-> "var", x |-> p.v])
(* Speculation: a variable with indexes and fields and then = is a target. *)
Target(p) ==
  CASE Kind(p) = "[" -> Target(Indexed(p.v, Expr(Bump(p))))
    [] Kind(p) = "." -> Target(Field(p.v, Ident(Bump(p))))
    [] OTHER -> p
Assigned(t, p) ==
  Ended(p, CASE t.k = "var"   -> [s |-> "assign", x |-> t.x, e |-> p.v]
             [] t.k = "index" -> [s |-> "store", l |-> t.l, r |-> t.r, e |-> p.v]
             [] t.k = "field" -> [s |-> "set", l |-> t.e, x |-> t.x, e |-> p.v])
Done(p) == Ended(p, [s |-> "expr", e |-> p.v])
AssignOrExpr(p, t) ==
  IF Kind(t) = "=" THEN Assigned(t.v, Expr(Bump(t))) ELSE Done(Expr(p))

LetFrom(x, p) == Ended(p, [s |-> "let", x |-> x, e |-> p.v])
Let(p) == LetFrom(p.v, Expr(Expect(p, "=")))
Return(p) == Ended(p, [s |-> "return", e |-> p.v])
(* print takes its operand with parentheses or without.                    *)
Output(p) == Ended(p, [s |-> "print", e |-> p.v])
Printed(p) == IF Kind(p) = "(" THEN Expect(Expr(Bump(p)), ")") ELSE Expr(p)

WhileFrom(e, p) == Give(p, [s |-> "while", e |-> e, body |-> p.v])
While(p) == WhileFrom(p.v, Block(p))

InFrom(x, e, p) == Give(p, [s |-> "in", x |-> x, e |-> e, body |-> p.v])
RangeFrom(x, l, r, p) == Give(p, [s |-> "range", x |-> x, l |-> l, r |-> r, body |-> p.v])
Rounds(x, l, p) == RangeFrom(x, l, p.v, Block(p))
ForFrom(x, p) ==
  IF Kind(p) = ".." THEN Rounds(x, p.v, Expr(Bump(p))) ELSE InFrom(x, p.v, Block(p))
For(p) == ForFrom(p.v, Expr(Expect(p, "in")))

TryFrom(body, x, p) == Give(p, [s |-> "try", x |-> x, body |-> body, handler |-> p.v])
Catch(body, p) == TryFrom(body, p.v, Block(p))
Try(p) == Catch(p.v, Ident(Expect(p, "catch")))

(* else if is an else block with one if.                                   *)
IfFrom(e, then, p) == Give(p, [s |-> "if", e |-> e, then |-> then, else |-> p.v])
ElseIf(p) == Give(p, <<p.v>>)
Else(p) ==
  CASE Kind(p) # "else" -> Give(p, <<>>)
    [] NextKind(p) = "if" -> ElseIf(If(Bump(p)))
    [] OTHER -> Block(Bump(p))
Then(e, p) == IfFrom(e, p.v, Else(p))
Condition(p) == Then(p.v, Block(p))
If(p) == Condition(Expr(Bump(p)))

Stmt(p) ==
  CASE Kind(p) = "let"    -> Let(Ident(Bump(p)))
    [] Kind(p) = "return" -> Return(Expr(Bump(p)))
    [] Kind(p) = "if"     -> If(p)
    [] Kind(p) = "print"  -> Output(Printed(Bump(p)))
    [] Kind(p) = "while"  -> While(Expr(Bump(p)))
    [] Kind(p) = "try"    -> Try(Block(Bump(p)))
    [] Kind(p) = "for"    -> For(Ident(Bump(p)))
    [] Kind(p) \in {"break", "continue"} -> Ended(Bump(p), [s |-> Kind(p)])
    [] OTHER -> AssignOrExpr(p, Target(Variable(Ident(p))))

-----------------------------------------------------------------------------
(* Declarations and the program.                                           *)

(* Fields and variants, with optional commas after them: [x, e] each.      *)
NextDeclared(p, what, all) == Declared(Optional(p, ","), what, Append(all, p.v))
Payloads(x, p) ==
  IF p.ok /\ Cardinality({p.v[i].x = "" : i \in DOMAIN p.v}) = 2 THEN Wrong(p)
  ELSE Give(p, [x |-> x, e |-> Values(p.v)])
VariantDecl(p) == Payloads(p.v, ListOpt(p, "payload"))
Declared(p, what, all) ==
  CASE Kind(p) = "}" -> Give(Bump(p), all)
    [] Kind(p) \in {"eof", "error"} -> Wrong(p)
    [] OTHER -> NextDeclared(IF what = "structs" THEN Param(Ident(p)) ELSE VariantDecl(Ident(p)),
                             what, all)

Map(pairs) == FoldLeft(LAMBDA f, pair : (pair.x :> pair.e) @@ f, <<>>, pairs)
Function(params, ret, p) ==
  Give(p, [params |-> Names(params), tys |-> Values(params), ret |-> ret, body |-> p.v])
Body(params, p) == Function(params, p.v, Block(p))
ReturnType(p) == IF Kind(p) = "->" THEN TypeName(Bump(p)) ELSE Give(p, "void")
Signature(p) == Body(p.v, ReturnType(p))

NamedMap(p) == Give(p, Map(p.v))
Decls(p, all) ==
  CASE Kind(p) = "eof"    -> Give(p, all)
    [] Kind(p) = "error"  -> p
    [] Kind(p) = "struct" -> Decl(Ident(Bump(p)), "structs", all)
    [] Kind(p) = "enum"   -> Decl(Ident(Bump(p)), "enums", all)
    [] OTHER              -> Decl(Ident(Expect(p, "fn")), "functions", all)
DeclsFrom(p, what, x, all) == Decls(p, [all EXCEPT ![what] = (x :> p.v) @@ @])
Decl(p, what, all) ==
  DeclsFrom(IF what = "functions" THEN Signature(List(Expect(p, "("), "param", ")"))
            ELSE NamedMap(Declared(Expect(p, "{"), what, <<>>)),
            what, p.v, all)

(* parse_program: the value, if ok.                                        *)
Parse(text) ==
  Decls(Parser(text), [functions |-> <<>>, structs |-> <<>>, enums |-> <<>>])
=============================================================================
