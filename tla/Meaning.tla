------------------------------- MODULE Meaning -------------------------------
(***************************************************************************)
(* What a program means (SPEC.md, sections 2 and 2b), said structurally:   *)
(* blocks are scopes, operands are evaluated from left to right to values, *)
(* control leaves a statement by an outcome.  Nothing here knows of        *)
(* instructions, jumps or generated names: it is what the lowering is      *)
(* compared with.                                                          *)
(*                                                                         *)
(* The state of an evaluation: env, the scopes of the function, innermost  *)
(* last; ctl, how the last statement or expression ended ("go", "break",   *)
(* "continue", "return", "error"); v, its value; err, its error; out, what *)
(* was printed; quirks, the places where the flat code is known to differ  *)
(* (see Backends) that the evaluation went through.                        *)
(***************************************************************************)
EXTENDS Values

CONSTANT MaxDepth                  \* the call-depth limit (1024 in the code)
ASSUME MaxDepthAssumption == MaxDepth \in Nat

Go(st, v) == [st EXCEPT !.v = v, !.ctl = "go"]
Fail(st, err) == [st EXCEPT !.err = err, !.ctl = "error"]
Take(st, o) == IF o.err = "" THEN Go(st, o.v) ELSE Fail(st, o.err)
Going(st) == st.ctl = "go"
Quirk(st, q, if) == IF if THEN [st EXCEPT !.quirks = @ \cup {q}] ELSE st

Visible(st, x) == {i \in DOMAIN st.env : x \in DOMAIN st.env[i]}
ScopeOf(st, x) == CHOOSE i \in Visible(st, x) : \A j \in Visible(st, x) : j <= i
Get(st, x) == st.env[ScopeOf(st, x)][x]

PushScope(st) == [st EXCEPT !.env = Append(@, <<>>)]
PopTo(st, n) == [st EXCEPT !.env = SubSeq(@, 1, n)]

(* A name of a function's parameters keeps the range of its annotation.    *)
ParamAnn(p, st, x, scope) ==
  LET params == p[st.fn].params
  IN  IF scope = 1 /\ Contains(params, x) THEN p[st.fn].tys[SelectInSeq(params, LAMBDA y : y = x)]
      ELSE ""
Bind(p, st, scope, x, v) ==
  IF ~Fits(v, ParamAnn(p, st, x, scope)) THEN Fail(st, "range")
  ELSE [st EXCEPT !.env[scope] = (x :> v) @@ @]
(* let binds in the current scope; hiding a name of an outer one is where  *)
(* one flat space of names shows, except in an arm, which restores it.     *)
Let(p, st, x, v) ==
  LET n == Len(st.env)
  IN  Bind(p, Quirk(st, "shadow", n \notin st.arms /\ \E i \in Visible(st, x) : i < n), n, x, v)
Assign(p, st, x, v) == Bind(p, st, ScopeOf(st, x), x, v)

RECURSIVE Eval(_, _, _), Exec(_, _, _), Matches(_, _, _), Store(_, _, _, _),
          While(_, _, _), RangeRounds(_, _, _, _), InRounds(_, _, _, _, _)

(* Operands from left to right: [st, vs].                                  *)
Operated(vs, a) == [st |-> a, vs |-> Append(vs, a.v)]
Moved(all, es) == \E i \in DOMAIN es : es[i].k = "var" /\ Get(all.st, es[i].x) # all.vs[i]
Observed(all, es) ==
  [all EXCEPT !.st = IF Going(@) THEN Quirk(@, "operand", Moved(all, es)) ELSE @]
EvalAll(p, st, es) ==
  Observed(FoldLeft(LAMBDA acc, e : IF Going(acc.st) THEN Operated(acc.vs, Eval(p, acc.st, e)) ELSE acc,
                    [st |-> st, vs |-> <<>>], es),
           es)

(* What an expression, a statement or a place evaluates first.             *)
Operands(e) ==
  CASE e.k \in {"bin", "index"} -> <<e.l, e.r>>
    [] e.k \in {"call", "array", "struct", "ctor"} -> e.args
    [] e.k = "not" \/ e.k = "field" \/ (e.k = "neg" /\ e.e.k # "int") -> <<e.e>>
    [] OTHER -> <<>>
StmtOperands(stmt) ==
  CASE stmt.s \in {"let", "assign", "return", "print", "in"} -> <<stmt.e>>
    [] stmt.s = "range" -> <<stmt.l, stmt.r>>
    [] stmt.s = "store" -> <<stmt.e, stmt.l, stmt.r>>
    [] stmt.s = "set"   -> <<stmt.e, stmt.l>>
    [] OTHER -> <<>>

(* && and ||: the right operand only when the left one does not decide.    *)
EvalRight(l, r, e) ==
  IF ~Going(r) THEN r
  ELSE Go(Quirk(r, "operand", e.l.k = "var" /\ Get(r, e.l.x) # l.v), Bool2V(Truthy(r.v)))
EvalLogic(p, l, e) ==
  CASE ~Going(l) -> l
    [] Truthy(l.v) = (e.op = "or") -> Go(l, Bool2V(e.op = "or"))
    [] OTHER -> EvalRight(l, Eval(p, l, e.r), e)

(* A call: a new function's scopes, the same output.                       *)
CallErr(p, st, f, args) == EnterErr(st.depth + 1, MaxDepth, p[f].tys, args)
Callee(p, st, f, args) ==
  LET scope == [x \in Range(p[f].params) |-> args[SelectInSeq(p[f].params, LAMBDA y : y = x)]]
  IN  [st EXCEPT !.env = <<scope>>, !.arms = {}, !.depth = @ + 1, !.fn = f]
Back(st, ended, ret) ==
  LET back == [ended EXCEPT !.env = st.env, !.arms = st.arms, !.depth = st.depth, !.fn = st.fn]
  IN  CASE ended.ctl = "error" -> back
        [] ended.ctl = "return" -> IF Fits(ended.v, ret) THEN Go(back, ended.v) ELSE Fail(back, "range")
        [] OTHER -> Go(Quirk(back, "falloff", TRUE), Int2V(0))
Call(p, st, f, args) ==
  IF CallErr(p, st, f, args) # "" THEN Fail(st, CallErr(p, st, f, args))
  ELSE Back(st, Exec(p, Callee(p, st, f, args), p[f].body), p[f].ret)

(* A builtin; push, pop and insert assign to the variable they are given.  *)
BuiltinEnd(p, st, o, e, vs) ==
  IF o.err = "" /\ e.x \in Mutators
  THEN Go(Assign(p, st, e.args[1].x, Changed(e.x, vs)), o.v)
  ELSE Take(st, o)

(* Whether a value has the shape of a pattern: [err, fits, names].         *)
Matches(b, v, names) ==
  CASE b.p = "ignore" -> [err |-> "", fits |-> TRUE, names |-> names]
    [] b.p = "bind" -> [err |-> "", fits |-> TRUE, names |-> (b.x :> v) @@ names]
    [] FieldOf(v, VARIANT).err # "" -> [err |-> FieldOf(v, VARIANT).err, fits |-> FALSE, names |-> names]
    [] FieldOf(v, VARIANT).v # TagV(b.tag) -> [err |-> "", fits |-> FALSE, names |-> names]
    [] OTHER ->
         FoldLeft(LAMBDA acc, i :
                    IF ~acc.fits THEN acc
                    ELSE LET f == FieldOf(v, Payload(i))
                         IN  IF f.err # "" THEN [err |-> f.err, fits |-> FALSE, names |-> acc.names]
                             ELSE Matches(b.pats[i], f.v, acc.names),
                  [err |-> "", fits |-> TRUE, names |-> names], Indexes(b.pats))

(* One arm: its names are its own, what its setup does to outer variables  *)
(* stays, and a false guard goes on to the next arm: [st, taken].  hidden  *)
(* are the outer variables whose names some arm of the match binds: the    *)
(* flat code saves and restores them, so they lose what an arm assigns,    *)
(* and keep an arm's binding when an error leaves the arm.                 *)
Shape(arm, v) ==
  IF Wildcard(arm) THEN [err |-> "", fits |-> TRUE, names |-> <<>>]
  ELSE Matches([p |-> "nest", x |-> arm.x, tag |-> arm.tag, pats |-> arm.pats], v, <<>>)
LeaveArm(st, end, hidden, taken) ==
  LET lost == \E x \in hidden : end.ctl = "error" \/ end.env[ScopeOf(st, x)][x] # Get(st, x)
  IN  [st |-> [PopTo(Quirk(end, "arm", lost), Len(st.env)) EXCEPT !.arms = st.arms], taken |-> taken]
ArmGuarded(p, st, arm, guard, hidden) ==
  CASE ~Going(guard.st) -> LeaveArm(st, guard.st, hidden, TRUE)
    [] Guarded(arm) /\ ~Truthy(guard.vs[1]) -> LeaveArm(st, guard.st, hidden, FALSE)
    [] OTHER -> LeaveArm(st, Eval(p, guard.st, arm.body), hidden, TRUE)
ArmSetUp(p, st, arm, setup, hidden) ==
  IF Going(setup) THEN ArmGuarded(p, st, arm, EvalAll(p, setup, arm.guard), hidden)
  ELSE LeaveArm(st, setup, hidden, TRUE)
TryArm(p, st, arm, m, hidden) ==
  CASE m.err # "" -> [st |-> Fail(st, m.err), taken |-> TRUE]
    [] ~m.fits -> [st |-> st, taken |-> FALSE]
    [] OTHER ->
         ArmSetUp(p, st, arm,
                  Exec(p, [st EXCEPT !.env = Append(@, m.names), !.arms = @ \cup {Len(st.env) + 1}], arm.setup),
                  hidden)

TryArms(p, on, e) ==
  FoldLeft(LAMBDA acc, arm :
             IF acc.taken THEN acc
             ELSE TryArm(p, Quirk(acc.st, "operand", e.e.k = "var" /\ Get(acc.st, e.e.x) # on.v),
                         arm, Shape(arm, on.v),
                         {x \in Range(ArmNames(e.arms)) : Visible(acc.st, x) # {}}),
           [st |-> on, taken |-> FALSE], e.arms)
MatchEnd(arms) == IF arms.taken THEN arms.st ELSE Fail(arms.st, "field")
EvalMatch(p, on, e) ==
  CASE ~Going(on) -> on
    [] FieldOf(on.v, VARIANT).err # "" -> Fail(on, FieldOf(on.v, VARIANT).err)
    [] OTHER -> MatchEnd(TryArms(p, on, e))

EvalFrom(p, a, vs, e) ==
  CASE ~Going(a) -> a
    [] e.k \in {"int", "bool"} -> Go(a, Int2V(e.v))
    [] e.k = "var"   -> Go(a, Get(a, e.x))
    [] e.k = "bin"   -> Take(a, Binary(e.op, vs[1], vs[2]))
    [] e.k = "neg"   -> IF e.e.k # "int" THEN Take(a, Negate(vs[1]))
                        ELSE Go(a, Int2V(IF e.e.v = MinInt THEN MinInt ELSE -e.e.v))
    [] e.k = "not"   -> Go(a, Bool2V(~Truthy(vs[1])))
    [] e.k = "call"  -> IF e.x \in Builtin THEN BuiltinEnd(p, a, Perform(e.x, vs), e, vs)
                        ELSE Call(p, a, e.x, vs)
    [] e.k = "array" -> Go(a, ArrayV(vs))
    [] e.k = "struct" -> Take(a, Construct(e.x, e.fields, vs))
    [] e.k = "ctor"  -> Go(a, StructV(e.x, <<VARIANT>> \o [i \in DOMAIN vs |-> Payload(i)],
                                      <<TagV(e.tag)>> \o vs))
    [] e.k = "index" -> Take(a, ElementOf(vs[1], vs[2]))
    [] e.k = "field" -> Take(a, FieldOf(vs[1], e.x))
Evaluated(p, all, e) == EvalFrom(p, all.st, all.vs, e)
Eval(p, st, e) ==
  CASE e.k = "logic" -> EvalLogic(p, Eval(p, st, e.l), e)
    [] e.k = "match" -> EvalMatch(p, Eval(p, st, e.e), e)
    [] OTHER -> Evaluated(p, EvalAll(p, st, Operands(e)), e)

(* What a place holds after the new value is put into part of it: the      *)
(* place is a variable, or an element or a field of another place.         *)
Stored(p, in, place, o) ==
  CASE ~Going(in.st) -> in.st
    [] place.k = "index" -> Store(p, in.st, place.l, WithElement(in.vs[1], in.vs[2], o.v))
    [] place.k = "field" -> Store(p, in.st, place.e, WithField(in.vs[1], place.x, o.v))
Store(p, st, place, o) ==
  CASE o.err # "" -> Fail(st, o.err)
    [] place.k = "var" -> Assign(p, st, place.x, o.v)
    [] place.k \in {"index", "field"} ->
         Stored(p, EvalAll(p, Quirk(st, "element", TRUE), Operands(place)), place, o)
    [] OTHER -> st                                 \* a temporary: nothing keeps it

(* What a round of a loop leaves: whether there may be another one.        *)
Again(st) == st.ctl \in {"go", "continue"}
Left(st) == IF st.ctl = "break" THEN Go(st, Int2V(0)) ELSE st

(* A block: its own scope, one statement after another while nothing ends  *)
(* it.                                                                     *)
Block(p, st, stmts) == PopTo(Exec(p, PushScope(st), stmts), Len(st.env))

WhileRound(p, body, stmt) == IF Again(body) THEN While(p, Go(body, Int2V(0)), stmt) ELSE Left(body)
WhileHolds(p, cond, stmt) ==
  IF ~Going(cond) \/ ~Truthy(cond.v) THEN cond ELSE WhileRound(p, Block(p, cond, stmt.body), stmt)
While(p, st, stmt) == WhileHolds(p, Eval(p, st, stmt.e), stmt)

(* The counter is the loop's variable: what the body assigns to it counts. *)
RangeStep(p, body, stmt, end, step) ==
  IF step.err # "" THEN Fail(body, step.err)
  ELSE RangeRounds(p, Go(Assign(p, body, stmt.x, step.v), Int2V(0)), stmt, end)
RangeRound(p, body, stmt, end) ==
  IF Again(body) THEN RangeStep(p, body, stmt, end, Binary("add", Get(body, stmt.x), Int2V(1)))
  ELSE Left(body)
RangeRounds(p, st, stmt, end) ==
  IF AsInt(Get(st, stmt.x)) >= AsInt(end) THEN st
  ELSE RangeRound(p, Block(p, st, stmt.body), stmt, end)

(* One round for each element the array had when the loop began.           *)
InRound(p, next, stmt, array, i) ==
  IF Again(next) THEN InRounds(p, Go(next, Int2V(0)), stmt, array, i + 1) ELSE Left(next)
InRounds(p, st, stmt, array, i) ==
  LET here == Quirk(st, "operand", stmt.e.k = "var" /\ Get(st, stmt.e.x) # array)
  IN  IF i > Len(array.xs) THEN here
      ELSE InRound(p, PopTo(Exec(p, Let(p, PushScope(here), stmt.x, array.xs[i]), stmt.body),
                            Len(st.env)),
                   stmt, array, i)

ExecIf(p, cond, stmt) ==
  IF ~Going(cond) THEN cond ELSE Block(p, cond, IF Truthy(cond.v) THEN stmt.then ELSE stmt.else)

(* An error of the body is caught with what the body assigned kept.        *)
Handle(p, body, stmt) ==
  IF body.ctl # "error" \/ body.err = "exit" THEN body
  ELSE PopTo(Exec(p, Let(p, PushScope(Go(body, Int2V(0))), stmt.x, CaughtV(body.err)), stmt.handler),
             Len(body.env))
ExecTry(p, st, stmt) == Handle(p, Block(p, st, stmt.body), stmt)

ExecFrom(p, a, vs, stmt) ==
  CASE ~Going(a) -> a
    [] stmt.s = "let"    -> Let(p, a, stmt.x, vs[1])
    [] stmt.s = "assign" -> Assign(p, a, stmt.x, vs[1])
    [] stmt.s = "store"  -> Store(p, a, stmt.l, WithElement(vs[2], vs[3], vs[1]))
    [] stmt.s = "set"    -> Store(p, a, stmt.l, WithField(vs[2], stmt.x, vs[1]))
    [] stmt.s = "return" -> [a EXCEPT !.v = vs[1], !.ctl = "return"]
    [] stmt.s = "print"  -> [a EXCEPT !.out = Append(@, vs[1])]
    [] stmt.s \in {"break", "continue"} -> [a EXCEPT !.ctl = stmt.s]
    [] stmt.s = "range"  -> PopTo(RangeRounds(p, Let(p, PushScope(a), stmt.x, vs[1]), stmt, vs[2]),
                                  Len(a.env))
    [] stmt.s = "in"     -> IF vs[1].t # "array" THEN Fail(a, "shape") ELSE InRounds(p, a, stmt, vs[1], 1)
Executed(p, all, stmt) == ExecFrom(p, all.st, all.vs, stmt)
ExecStmt(p, st, stmt) ==
  CASE stmt.s = "expr"  -> Eval(p, st, stmt.e)
    [] stmt.s = "if"    -> ExecIf(p, Eval(p, st, stmt.e), stmt)
    [] stmt.s = "while" -> While(p, st, stmt)
    [] stmt.s = "try"   -> ExecTry(p, st, stmt)
    [] OTHER -> Executed(p, EvalAll(p, st, StmtOperands(stmt)), stmt)
Exec(p, st, stmts) ==
  FoldLeft(LAMBDA s, stmt : IF Going(s) THEN ExecStmt(p, s, stmt) ELSE s, Go(st, Int2V(0)), stmts)

(* A run of main: what was printed, how it ended and with which value, and *)
(* the quirks it went through.                                             *)
Start == [env |-> <<<<>>>>, arms |-> {}, ctl |-> "go", v |-> Int2V(0), err |-> "", out |-> <<>>,
          depth |-> 0, fn |-> "main", quirks |-> {}]
Ended(p, ended) ==
  LET ok == ended.ctl = "return" /\ Fits(ended.v, p["main"].ret)
  IN  [out |-> ended.out,
       err |-> CASE ended.ctl = "error" -> ended.err
                 [] ended.ctl = "return" /\ ~ok -> "range"
                 [] OTHER -> "",
       v |-> IF ok THEN ended.v ELSE Int2V(0),
       quirks |-> ended.quirks \cup IF ended.ctl = "go" THEN {"falloff"} ELSE {}]
Meant(p) == Ended(p, Exec(p, Start, p["main"].body))
=============================================================================
