----------------------------- MODULE MCBackends -----------------------------
(***************************************************************************)
(* Small programs for Backends, in families.  A program is made of choices *)
(* in lists: <<"loop", 1, 2, 4>> is the while loop around InLoops[2] and    *)
(* InLoops[4].  The checker rejects many of them, and Init takes those it   *)
(* accepts.  Ints are -4..3, u8 is 0..2.                                   *)
(***************************************************************************)
EXTENDS Backends, Text

MCEnums == [Opt |-> [None |-> <<>>, Some |-> <<"i64">>, Two |-> <<"Opt", "i64">>]]
MCStructs == [Point |-> [x |-> "i64", n |-> "u8"]]
MCNarrow == [u8 |-> 0..2]

(* Expressions.                                                            *)
I(n) == IF n < 0 THEN [k |-> "neg", e |-> [k |-> "int", v |-> -n]] ELSE [k |-> "int", v |-> n]
B(b) == [k |-> "bool", v |-> IF b THEN 1 ELSE 0]
V(x) == [k |-> "var", x |-> x]
Op(op, l, r) == [k |-> "bin", op |-> op, l |-> l, r |-> r]
Logic(op, l, r) == [k |-> "logic", op |-> op, l |-> l, r |-> r]
Unary(k, e) == [k |-> k, e |-> e]
Apply(f, args) == [k |-> "call", x |-> f, args |-> args]
Arr(args) == [k |-> "array", args |-> args]
Point(x, n) == [k |-> "struct", x |-> "Point", fields |-> <<"x", "n">>, args |-> <<x, n>>]
Value(tag, args) == [k |-> "ctor", x |-> "Opt", tag |-> tag, args |-> args]
At0(e, i) == [k |-> "index", l |-> e, r |-> i]
Field(e, x) == [k |-> "field", e |-> e, x |-> x]
MatchOn(e, arms) == [k |-> "match", e |-> e, arms |-> arms]
Zero == Op("div", I(1), I(0))

(* Statements.                                                             *)
LetS(x, e) == [s |-> "let", x |-> x, e |-> e]
Set(x, e) == [s |-> "assign", x |-> x, e |-> e]
Add(x, e) == Set(x, Op("add", V(x), e))
Say(e) == [s |-> "print", e |-> e]
Ret(e) == [s |-> "return", e |-> e]
Do(e) == [s |-> "expr", e |-> e]
When(e, then, else) == [s |-> "if", e |-> e, then |-> then, else |-> else]
Break == [s |-> "break"]
Continue == [s |-> "continue"]
Loop(e, body) == [s |-> "while", e |-> e, body |-> body]
Range0(x, l, r, body) == [s |-> "range", x |-> x, l |-> I(l), r |-> I(r), body |-> body]
Each(x, e, body) == [s |-> "in", x |-> x, e |-> e, body |-> body]
Attempt(body, handler) == [s |-> "try", x |-> "err", body |-> body, handler |-> handler]
Is(x, n) == Op("eq", V(x), I(n))

Fun(params, tys, ret, body) == [params |-> params, tys |-> tys, ret |-> ret, body |-> body]
Main(body) == "main" :> Fun(<<>>, <<>>, "i64", body)

(* Functions the families call.                                            *)
Library ==
  [ show |-> Fun(<<"n">>, <<"i64">>, "i64", <<Say(V("n")), Ret(V("n"))>>),
    boom |-> Fun(<<>>, <<>>, "i64", <<Say(I(2)), Ret(Zero)>>),
    rec  |-> Fun(<<"n">>, <<"i64">>, "i64",
                 <<When(Is("n", 0), <<Ret(I(0))>>, <<>>),
                   Ret(Op("add", Apply("rec", <<Op("sub", V("n"), I(1))>>), I(1)))>>),
    down |-> Fun(<<"n">>, <<"u8">>, "i64", <<Set("n", Op("sub", V("n"), I(1))), Ret(V("n"))>>),
    wide |-> Fun(<<"n">>, <<"i64">>, "u8", <<Ret(V("n"))>>),
    fall |-> Fun(<<"n">>, <<"i64">>, "u8", <<Add("n", I(1))>>),
    spin |-> Fun(<<"b">>, <<"bool">>, "i64",
                 <<Loop(V("b"), <<Set("b", B(FALSE)), Say(I(3))>>)>>) ]
Using(body, names) == Main(body) @@ [f \in names |-> Library[f]]

-----------------------------------------------------------------------------
(* Arithmetic and the connectives, with the errors of the right operand.   *)
Ints == <<-4, -1, 0, 2, 3>>
Ops == <<"add", "sub", "mul", "div", "mod", "eq", "ne", "lt", "le", "gt", "ge", "and", "or">>
Arith(id) ==
  LET op  == Ops[id[2]]
      a   == IF Ints[id[3]] = -4 THEN Op("sub", I(-3), I(1)) ELSE I(Ints[id[3]])
      use == IF op \in {"and", "or"}
             THEN Logic(op, Op("lt", V("a"), I(1)),
                        Unary("not", Op("eq", Op("mod", I(3), V("b")), Apply("show", <<V("a")>>))))
             ELSE Op(op, V("a"), V("b"))
  IN  Using(<<LetS("a", a), LetS("b", I(Ints[id[4]])), LetS("c", use), Say(V("c")),
              Say(Unary("neg", V("a"))), Ret(I(0))>>,
            {"show"})

(* One operator in an operand of another.                                  *)
Grouped(id) ==
  LET inner(op, l, r) == IF op \in {"and", "or"} THEN Logic(op, l, r) ELSE Op(op, l, r)
      o == Ops[id[3]]
      i == Ops[id[4]]
      used == IF id[2] = 1 THEN inner(o, inner(i, V("a"), V("b")), V("c"))
              ELSE inner(o, V("a"), inner(i, V("b"), V("c")))
      bools == {"eq", "ne", "and", "or"}
      both  == o \in bools /\ i \in bools
      alone == both \/ (o \in bools /\ i \in {"lt", "le", "gt", "ge"}) \/ o \in {"and", "or"}
      start(n, bool) == IF bool THEN B(n = -2) ELSE I(n)
  IN  Main(<<LetS("a", start(3, IF id[2] = 1 THEN both ELSE alone)), LetS("b", start(2, both)),
             LetS("c", start(-2, IF id[2] = 1 THEN alone ELSE both)),
             Say(used), Say(Unary("not", Op("eq", V("b"), V("b")))), Ret(I(0))>>)

(* Two statements in a loop over i.                                        *)
InLoops ==
  << Add("a", I(1)),
     When(Is("i", 1), <<Break>>, <<Add("a", I(1))>>),
     When(Is("i", 1), <<Continue>>, <<>>),
     Attempt(<<Add("a", I(1)), Add("a", I(3))>>, <<Add("a", I(-2))>>),
     Attempt(<<Break>>, <<>>),
     Attempt(<<Say(Zero)>>, <<Continue>>),
     Attempt(<<Loop(B(TRUE), <<Add("a", I(1)), Break>>)>>, <<>>),
     Range0("j", 0, 3, <<When(Is("j", 1), <<Continue>>, <<>>),
       When(Is("j", 2), <<Break>>, <<>>), Add("a", V("j"))>>),
     When(Is("i", 1), <<Ret(V("a"))>>, <<Say(V("i"))>>),
     Say(Op("div", I(2), V("a"))),
     Do(MatchOn(Value("None", <<>>),
       <<[x |-> "", tag |-> "_", pats |-> <<>>, setup |-> <<Break>>,
       guard |-> <<>>, body |-> I(0)]>>)),
     Set("i", I(2)) >>
Loops(id) ==
  LET body == <<InLoops[id[3]], InLoops[id[4]]>>
      loop == CASE id[2] = 1 -> Loop(Op("lt", V("i"), I(2)), <<Add("i", I(1))>> \o body)
                [] id[2] = 2 -> Range0("i", 0, 3, body)
                [] id[2] = 3 -> Each("i", Arr(<<I(0), I(1), I(2)>>), body)
      head == <<LetS("a", I(0))>> \o (IF id[2] = 1 THEN <<LetS("i", I(-1))>> ELSE <<>>)
  IN  Main(head \o <<loop, Say(V("a")), Ret(V("a"))>>)

(* Two statements in a try, one in its handler.                            *)
InTries ==
  << Add("a", I(1)),
     Say(Zero),
     Add("a", Apply("boom", <<>>)),
     Set("a", Apply("wide", <<I(3)>>)),
     When(Is("a", 1), <<Ret(I(2))>>, <<>>),
     Attempt(<<Say(Zero)>>, <<Add("a", I(2))>>),
     Attempt(<<Say(Zero)>>, <<Say(V("a")), Say(Zero)>>),
     When(B(FALSE), <<>>, <<>>),
     When(Is("a", 1), <<Do(Apply("exit", <<V("a")>>))>>, <<Do(Apply("assert", <<V("a")>>))>>) >>
Tries(id) ==
  Using(<<LetS("a", I(0)),
          Attempt(<<InTries[id[2]], InTries[id[3]], Say(V("a"))>>, <<InTries[id[4]], Say(V("a"))>>),
          Say(I(3)), Ret(V("a"))>>,
        {"boom", "wide"})

-----------------------------------------------------------------------------
(* Three arms over one value; y and a are outer variables.                 *)
Arm(tag, pats, setup, guard, body) ==
  [x |-> IF tag = "_" THEN "" ELSE "Opt", tag |-> tag, pats |-> pats, setup |-> setup,
   guard |-> guard, body |-> body]
Bound(x) == [p |-> "bind", x |-> x]
Ignored == [p |-> "ignore"]
Inside(tag, pats) == [p |-> "nest", x |-> "Opt", tag |-> tag, pats |-> pats]
Arms ==
  << Arm("None", <<>>, <<>>, <<>>, V("y")),
     Arm("Some", <<Bound("y")>>, <<>>, <<>>, Op("add", V("y"), I(1))),
     Arm("Some", <<Bound("y")>>, <<Say(V("y"))>>, <<Op("gt", V("y"), I(1))>>, V("y")),
     Arm("Some", <<Bound("x")>>, <<LetS("y", V("x")), Set("a", I(2))>>, <<>>, V("y")),
     Arm("Two", <<Inside("Some", <<Bound("y")>>), Bound("x")>>, <<>>, <<>>,
       Op("sub", V("y"), V("x"))),
     Arm("Two", <<Ignored, Bound("x")>>, <<Set("y", I(3))>>, <<>>, Op("div", I(2), V("x"))),
     Arm("_", <<>>, <<>>, <<>>, V("a")),
     Arm("_", <<>>, <<>>, <<Is("a", 0)>>, I(-1)) >>
Scrutinees ==
  << Value("None", <<>>),
     Value("Some", <<I(0)>>),
     Value("Some", <<I(2)>>),
     Value("Two", <<Value("Some", <<I(1)>>), I(2)>>),
     Value("Two", <<Value("None", <<>>), I(0)>>) >>
Matched(id) ==
  Main(<<LetS("v", Scrutinees[id[2]]), LetS("y", I(1)), LetS("a", I(0)),
         LetS("r", MatchOn(V("v"), <<Arms[id[3]], Arms[id[4]], Arms[id[5]]>>)),
         Say(V("y")), Say(V("a")), Ret(V("r"))>>)

(* Two statements on arrays and structs.                                   *)
Store0(l, i, e) == [s |-> "store", l |-> l, r |-> I(i), e |-> e]
SetField(l, x, e) == [s |-> "set", l |-> l, x |-> x, e |-> e]
OnData ==
  << Store0(V("b"), 0, I(3)),
     Store0(V("b"), 2, I(3)),
     Store0(At0(V("c"), I(0)), 0, I(2)),
     SetField(V("p"), "x", Op("add", Field(V("p"), "x"), I(1))),
     SetField(V("p"), "n", I(3)),
     SetField(V("p"), "x", V("b")),
     LetS("q", V("p")),
     SetField(V("q"), "x", I(0)),
     Each("e", Arr(<<V("b"), I(1)>>), <<Say(V("e"))>>),
     Attempt(<<SetField(V("p"), "n", I(2)), Say(At0(V("b"), I(2)))>>, <<Store0(V("b"), 1, I(0))>>),
     Say(Op("eq", V("p"), Point(I(2), I(1)))),
     LetS("w", Point(I(0), I(-1))),
     Do(Apply("push", <<V("b"), Apply("len", <<V("b")>>)>>)),
     Do(Apply("push", <<V("b"), Apply("pop", <<V("b")>>)>>)),
     Say(Apply("insert", <<V("b"), I(1), Apply("pop", <<V("b")>>)>>)),
     Attempt(<<Say(Apply("insert", <<V("b"), I(3), I(0)>>))>>, <<LetS("b", V("c"))>>),
     Loop(Apply("len", <<V("b")>>), <<Say(Apply("pop", <<V("b")>>))>>),
     Set("b", Apply("slice", <<V("b"), I(0), Apply("max", <<I(-1), I(1)>>)>>)) >>
Data(id) ==
  Main(<<LetS("p", Point(I(1), I(1))), LetS("b", Arr(<<I(1), I(2)>>)), LetS("c", Arr(<<Arr(<<I(0)>>)>>)),
         OnData[id[2]], OnData[id[3]], Say(V("p")), Say(V("b")), Say(V("c")), Ret(I(0))>>)

(* Calls: depth, ranges, falling off, the order of operands.               *)
Calls ==
  << Set("a", Apply("rec", <<I(1)>>)),
     Set("a", Apply("rec", <<I(2)>>)),
     Set("a", Apply("down", <<V("a")>>)),
     Set("a", Apply("wide", <<V("a")>>)),
     Set("a", Apply("fall", <<V("a")>>)),
     Set("a", Apply("spin", <<B(TRUE)>>)),
     Set("a", Apply("spin", <<B(FALSE)>>)),
     Add("a", Op("sub", Apply("show", <<I(1)>>), Apply("show", <<I(0)>>))),
     When(Logic("or", Is("a", 0), Is("a", 2)), <<Add("a", I(2))>>, <<Say(I(1))>>),
     Set("a", I(3)),
     Do(Unary("neg", Apply("show", <<I(1)>>))) >>
Called(id) ==
  Using(<<LetS("a", I(0)), Calls[id[2]], Calls[id[3]], Say(V("a")), Ret(V("a"))>>,
        {"rec", "down", "wide", "fall", "spin", "show"})

(* Calls of builtins: one argument of each type in turn and the others of  *)
(* a type the checker takes, or one argument too many.  There is no        *)
(* closure for sort_by, and http_get_async and http_post_async belong in   *)
(* an async function.                                                      *)
Samples ==
  << <<"Int", I(1)>>, <<"Float", Apply("float", <<I(1)>>)>>, <<"Str", Apply("str", <<I(1)>>)>>,
     <<"Bool", B(TRUE)>>, <<"Array", Arr(<<I(1), I(2)>>)>>, <<"Map", Apply("dt_parts", <<I(1)>>)>>,
     <<"Nominal", Point(I(1), I(1))>>, <<"Unknown", Apply("chan", <<I(1)>>)>> >>
Sampled(ty) == SelectInSeq(Samples, LAMBDA s : s[1] = ty)
Fitting(tys) == CHOOSE ty \in tys \cup {"Unknown"} : Sampled(ty) # 0 /\ (ty = "Unknown" => tys = {})
ParamsOf(f) == IF f = "format" THEN <<{"Str"}>> ELSE Signature(f).params
Fitted(f) == [i \in DOMAIN ParamsOf(f) |-> Fitting(ParamsOf(f)[i])]
CallsOf(f) ==
  LET one(n) == [Fitted(f) EXCEPT ![((n - 1) \div Len(Samples)) + 1] = Samples[((n - 1) % Len(Samples)) + 1][1]]
  IN  <<<<"builtin", f, Fitted(f) \o <<"Int">>>>, <<"builtin", f, Fitted(f)>>>>
      \o [n \in 1..(Len(Fitted(f)) * Len(Samples)) |-> <<"builtin", f, one(n)>>]
Taking(tys) == {f \in Builtin \ {"http_get_async", "http_post_async", "sort_by"} : ParamsOf(f) = tys}
BuiltinChoices ==
  FoldSet(LAMBDA tys, calls : calls \o FoldSet(LAMBDA f, same : same \o CallsOf(f), <<>>, Taking(tys)),
          <<>>, {ParamsOf(f) : f \in Builtin})
BuiltinCall(id) ==
  LET use == SelectSeq(Samples, LAMBDA s : s[1] \in Range(id[3]))
  IN  Main([i \in DOMAIN use |-> LetS(use[i][1], use[i][2])]
           \o <<Attempt(<<Say(Apply(id[2], [i \in DOMAIN id[3] |-> V(id[3][i])]))>>, <<>>),
                Ret(I(0))>>)

(* A family: every list of choices below the sizes.                        *)
Family(name, sizes) ==
  LET place[d \in 1..Len(sizes)] == IF d = Len(sizes) THEN 1 ELSE place[d + 1] * sizes[d + 1]
  IN  [n \in 1..(place[1] * sizes[1]) |->
         <<name>> \o [d \in DOMAIN sizes |-> (((n - 1) \div place[d]) % sizes[d]) + 1]]

MCChoices ==
  Family("arith", <<Len(Ops), Len(Ints), Len(Ints)>>)
  \o Family("group", <<2, Len(Ops), Len(Ops)>>)
  \o Family("loop", <<3, Len(InLoops), Len(InLoops)>>)
  \o Family("try", <<Len(InTries), Len(InTries), Len(InTries)>>)
  \o Family("match", <<Len(Scrutinees), Len(Arms), Len(Arms), Len(Arms)>>)
  \o Family("data", <<Len(OnData), Len(OnData)>>)
  \o Family("call", <<Len(Calls), Len(Calls)>>)
  \o BuiltinChoices

Program(id) ==
  CASE id[1] = "arith" -> Arith(id)
    [] id[1] = "group" -> Grouped(id)
    [] id[1] = "loop"  -> Loops(id)
    [] id[1] = "try"   -> Tries(id)
    [] id[1] = "match" -> Matched(id)
    [] id[1] = "data"  -> Data(id)
    [] id[1] = "call"  -> Called(id)
    [] id[1] = "builtin" -> BuiltinCall(id)

MCPrograms == LET ids == MCChoices IN [n \in DOMAIN ids |-> Program(ids[n])] \o <<>>
MCInputs == LET programs == MCPrograms IN [n \in DOMAIN programs |-> Delivered(programs[n])] \o <<>>
=============================================================================
