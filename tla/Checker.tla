------------------------------ MODULE Checker ------------------------------
(***************************************************************************)
(* The static checker (src/src/hir.rs) for the language of Mir: which      *)
(* programs are accepted.  A type is a string: "Int", "Bool", "Array",     *)
(* "Map" (the binding of a catch), "Void", the name of an enum or a        *)
(* struct, or "Unknown", the wildcard of dynamic values.  Only whether a   *)
(* diagnostic is reported is kept, not which one.  A call of a builtin has *)
(* the type Builtins gives it, also Str, Float and Closure; no operator    *)
(* here takes those.  Left out with what they check: the forms Mir leaves  *)
(* out, generics, effects.                                                 *)
(***************************************************************************)
EXTENDS Mir, Builtins

CONSTANTS
    Enums,      \* enum name -> variant name -> sequence of payload annotations
    Structs,    \* struct name -> field name -> annotation
    Narrow,     \* narrow integer annotation ("i32", "u8") -> its values
    Strict      \* the mode in which an Int is no condition (--strict)

Typed(ty) == [ty |-> ty, ok |-> TRUE]
Wrong(ty) == [ty |-> ty, ok |-> FALSE]
Typing(ty, ok) == [ty |-> ty, ok |-> ok]

(* resolve_body_ty and parse_ty: the type an annotation names.             *)
TypeOf(ann) ==
  CASE ann \in DOMAIN Enums \cup DOMAIN Structs -> ann
    [] ann \in {"i64"} \cup DOMAIN Narrow -> "Int"
    [] ann = "bool" -> "Bool"
    [] ann = "void" -> "Void"
    [] OTHER -> "Unknown"

Assignable(got, want) == "Unknown" \in {got, want} \/ got = want
EqualityOk(l, r) == Assignable(l, r)
Condition(ty) == ty \in {"Bool", "Unknown"} \/ (ty = "Int" /\ ~Strict)

(* unify_match_arms: the type of two branches, if they have one.           *)
Unifies(a, b) == Assignable(a, b)
Unify(a, b) == IF a = "Unknown" THEN b ELSE a

(* What surrounds a statement: the function, how many loops, and how many  *)
(* of them were open at the innermost try and at the innermost arm (-1:    *)
(* there is none).                                                         *)
Outermost(f) == [fn |-> f, loop |-> 0, try |-> -1, arm |-> -1]

Guarded(arm) == arm.guard # <<>>
Nested(arm) == \E i \in DOMAIN arm.pats : arm.pats[i].p = "nest"
Wildcard(arm) == arm.tag = "_"
Covers(arm) == ~Guarded(arm) /\ ~Nested(arm)

(* Arms that can never run: after an unguarded wildcard, or after a plain  *)
(* arm of the same variant.                                                *)
HasDeadArm(arms) ==
  \E i, j \in DOMAIN arms :
     /\ i < j
     /\ \/ Wildcard(arms[i]) /\ ~Guarded(arms[i])
        \/ /\ ~Wildcard(arms[i]) /\ ~Wildcard(arms[j])
           /\ Covers(arms[i]) /\ arms[i].tag = arms[j].tag

Exhaustive(arms, enum) ==
  \/ \E i \in DOMAIN arms : Wildcard(arms[i]) /\ ~Guarded(arms[i])
  \/ \A variant \in DOMAIN Enums[enum] :
        \E i \in DOMAIN arms : arms[i].tag = variant /\ Covers(arms[i])

BindAll(defined, names, ty) == [x \in Range(names) |-> ty] @@ defined

RECURSIVE BindPattern(_, _, _), CheckExpr(_, _, _, _), CheckBlock(_, _, _, _)

(* bind_pattern, over a list: acc is [defined, ok].                        *)
BindPatterns(acc, pats, types) ==
  FoldLeft(LAMBDA a, i : BindPattern(a, pats[i], types[i]), acc,
           [i \in 1..(IF Len(pats) < Len(types) THEN Len(pats) ELSE Len(types)) |-> i])

BindPattern(acc, b, ty) ==
  CASE b.p = "ignore" -> acc
    [] b.p = "bind" -> [acc EXCEPT !.defined = (b.x :> ty) @@ @]
    [] OTHER ->
         IF b.x \notin DOMAIN Enums \/ b.tag \notin DOMAIN Enums[b.x] \/ ty \notin {b.x, "Unknown"}
         THEN [defined |-> BindAll(acc.defined, BoundNames(<<b>>), "Unknown"), ok |-> FALSE]
         ELSE LET wants == [i \in DOMAIN Enums[b.x][b.tag] |-> TypeOf(Enums[b.x][b.tag][i])]
                  extra == SubSeq(b.pats, Len(wants) + 1, Len(b.pats))
                  bound == BindPatterns([acc EXCEPT !.ok = @ /\ Len(b.pats) = Len(wants)],
                                        b.pats, wants)
              IN  [bound EXCEPT !.defined = BindAll(@, BoundNames(extra), "Unknown")]

(* The bindings of one arm against a scrutinee type: [defined, ok].        *)
BindArm(defined, arm, ty) ==
  CASE Wildcard(arm) -> [defined |-> defined, ok |-> TRUE]
    [] ty \in DOMAIN Enums ->
         IF arm.x # ty THEN [defined |-> BindAll(defined, BoundNames(arm.pats), "Unknown"), ok |-> FALSE]
         ELSE BindPattern([defined |-> defined, ok |-> TRUE],
                          [p |-> "nest", x |-> arm.x, tag |-> arm.tag, pats |-> arm.pats], ty)
    [] OTHER -> [defined |-> BindAll(defined, BoundNames(arm.pats), "Unknown"),
                 ok |-> /\ ty = "Unknown"
                        /\ arm.x \in DOMAIN Enums /\ arm.tag \in DOMAIN Enums[arm.x]]

(* Expressions from left to right: [tys, ok].                              *)
Also(acc, t) == [tys |-> Append(acc.tys, t.ty), ok |-> acc.ok /\ t.ok]
CheckAll(p, cx, defined, es) ==
  FoldLeft(LAMBDA acc, e : Also(acc, CheckExpr(p, cx, defined, e)), [tys |-> <<>>, ok |-> TRUE], es)

(* check_arm_body: setup, then guard, then the value; a break in the setup *)
(* may not leave the arm.                                                  *)
GuardOk(g) == g.ok /\ Range(g.tys) \subseteq {"Bool", "Int", "Unknown"}
ArmType(p, cx, arm, ok, setup) ==
  LET body == CheckExpr(p, cx, setup.defined, arm.body)
  IN  Typing(body.ty, /\ ok /\ setup.ok /\ body.ok
                      /\ GuardOk(CheckAll(p, cx, setup.defined, arm.guard)))
CheckArm(p, cx, arm, bound) ==
  ArmType(p, cx, arm, bound.ok, CheckBlock(p, [cx EXCEPT !.arm = cx.loop], bound.defined, arm.setup))

(* check_match: with a known enum the arms must agree on a type, none may  *)
(* be dead and every variant must be covered.                              *)
Joined(typed) ==
  FoldLeft(LAMBDA acc, t : Typing(Unify(acc.ty, t.ty), acc.ok /\ t.ok /\ Unifies(acc.ty, t.ty)),
           typed[1], Tail(typed))
MatchType(on, arms, typed) ==
  CASE on.tys[1] \in DOMAIN Enums ->
         LET join == Joined(typed)
         IN  Typing(join.ty, on.ok /\ join.ok /\ ~HasDeadArm(arms) /\ Exhaustive(arms, on.tys[1]))
    [] on.tys[1] = "Unknown" -> Typing(typed[1].ty, on.ok /\ \A i \in DOMAIN typed : typed[i].ok)
    [] OTHER -> Wrong("Unknown")
CheckMatch(p, cx, defined, on, arms) ==
  MatchType(on, arms, [i \in DOMAIN arms |-> CheckArm(p, cx, arms[i], BindArm(defined, arms[i], on.tys[1]))])

AllAssignable(gots, wants) ==
  Len(gots) = Len(wants) /\ \A i \in DOMAIN wants : Assignable(gots[i], TypeOf(wants[i]))

(* A builtin, also where a function of the program has its name.  push,    *)
(* pop and insert change a variable, never a temporary.                    *)
Mutators == {"push", "pop", "insert"}
Nominal(ty) == IF ty \in DOMAIN Enums \cup DOMAIN Structs THEN "Nominal" ELSE ty
CheckBuiltin(args, f, es) ==
  LET tys == [i \in DOMAIN args.tys |-> Nominal(args.tys[i])]
  IN  IF ~ArityOk(f, Len(tys)) THEN Wrong("Unknown")
      ELSE Typing(TypeOfCall(f, tys), /\ args.ok /\ CallOk(f, tys)
                                      /\ f \in Mutators => es[1].k = "var")

CheckCall(p, args, f) ==
  IF f \notin DOMAIN p \/ Len(args.tys) # Len(p[f].tys) THEN Wrong("Unknown")
  ELSE Typing(TypeOf(p[f].ret), args.ok /\ AllAssignable(args.tys, p[f].tys))

(* A struct literal names exactly the fields of its struct.                *)
CheckStruct(args, e) ==
  LET known == Structs[e.x]
  IN  IF e.x \notin DOMAIN Structs THEN Wrong("Unknown")
      ELSE Typing(e.x, /\ args.ok
                       /\ Range(e.fields) = DOMAIN known
                       /\ \A i \in DOMAIN e.fields : Assignable(args.tys[i], TypeOf(known[e.fields[i]])))

CheckCtor(args, e) ==
  IF e.x \notin DOMAIN Enums \/ e.tag \notin DOMAIN Enums[e.x] THEN Wrong("Unknown")
  ELSE Typing(e.x, args.ok /\ AllAssignable(args.tys, Enums[e.x][e.tag]))

(* An element of an array is dynamic; the index of one is an Int.          *)
CheckIndex(base, index, ok) ==
  Typing("Unknown", /\ ok
                    /\ \/ base \in {"Map", "Unknown"}
                       \/ base = "Array" /\ Assignable(index, "Int"))

CheckField(base, ok, field) ==
  CASE base = "Unknown" -> Typing(base, ok)
    [] base \in DOMAIN Structs ->
         IF field \in DOMAIN Structs[base] THEN Typing(TypeOf(Structs[base][field]), ok)
         ELSE Wrong("Unknown")
    [] OTHER -> Wrong("Unknown")

(* Arithmetic and comparisons of Ints, equality of values of one type.     *)
CheckBin(op, l, r, ok) ==
  LET ints == "Unknown" \in {l, r} \/ (l = "Int" /\ r = "Int")
  IN  CASE op \in {"eq", "ne"} -> Typing("Bool", ok /\ EqualityOk(l, r))
        [] op \in {"lt", "le", "gt", "ge"} -> Typing("Bool", ok /\ ints)
        [] op = "mod" -> Typing("Int", ok /\ ints)
        [] OTHER -> Typing(IF l = "Int" /\ r = "Int" THEN "Int" ELSE "Unknown", ok /\ ints)

(* The literal MinInt exists only under a negation.                        *)
CheckNeg(a, e) ==
  CASE Folded(e) -> Typed("Int")
    [] a.tys[1] \in {"Int", "Unknown"} -> Typing(a.tys[1], a.ok)
    [] OTHER -> Wrong("Unknown")

(* The operands of an expression have been checked: a is [tys, ok].        *)
CheckFrom(p, cx, defined, a, e) ==
  CASE e.k = "int"    -> IF e.v = MinInt THEN Wrong("Unknown") ELSE Typed("Int")
    [] e.k = "bool"   -> Typed("Bool")
    [] e.k = "var"    -> IF e.x \in DOMAIN defined THEN Typed(defined[e.x]) ELSE Wrong("Unknown")
    [] e.k = "bin"    -> CheckBin(e.op, a.tys[1], a.tys[2], a.ok)
    [] e.k \in {"logic", "not"} -> Typing("Bool", a.ok /\ \A i \in DOMAIN a.tys : Condition(a.tys[i]))
    [] e.k = "neg"    -> CheckNeg(a, e)
    [] e.k = "call"   -> IF e.x \in Builtin THEN CheckBuiltin(a, e.x, e.args) ELSE CheckCall(p, a, e.x)
    [] e.k = "array"  -> Typing("Array", a.ok)
    [] e.k = "struct" -> CheckStruct(a, e)
    [] e.k = "ctor"   -> CheckCtor(a, e)
    [] e.k = "index"  -> CheckIndex(a.tys[1], a.tys[2], a.ok)
    [] e.k = "field"  -> CheckField(a.tys[1], a.ok, e.x)
    [] e.k = "match"  -> CheckMatch(p, cx, defined, a, e.arms)

CheckExpr(p, cx, defined, e) ==
  CheckFrom(p, cx, defined,
            CheckAll(p, cx, defined, IF e.k = "logic" THEN <<e.l, e.r>> ELSE Parts(e)), e)

(* E-LOOP: a break or continue is in a loop, and that loop started inside  *)
(* the innermost try and the innermost arm around it.                      *)
LoopOk(cx) == cx.loop > 0 /\ cx.loop > cx.try /\ cx.loop > cx.arm

(* A body of its own scope: what it defines does not leave it.             *)
BodyOk(p, cx, defined, stmts) == CheckBlock(p, cx, defined, stmts).ok
InLoop(cx) == [cx EXCEPT !.loop = @ + 1]

\* Mutant: a loop around the try counts for its body.
InTryOpen(cx) == cx

InTry(cx) == [cx EXCEPT !.try = cx.loop]

(* Loops.  The variable of a for has a scope of its own around the body;   *)
(* what an array holds is not known.  a is what the operands are.          *)
WhileOk(p, cx, defined, a, st) ==
  Condition(a.tys[1]) /\ BodyOk(p, InLoop(cx), defined, st.body)
RangeOk(p, cx, defined, a, st) ==
  /\ Assignable(a.tys[1], "Int") /\ Assignable(a.tys[2], "Int")
  /\ BodyOk(p, InLoop(cx), (st.x :> "Int") @@ defined, st.body)
InOk(p, cx, defined, a, st) ==
  /\ a.tys[1] \in {"Array", "Map", "Unknown"}
  /\ BodyOk(p, InLoop(cx), (st.x :> "Unknown") @@ defined, st.body)

IfOk(p, cx, defined, a, st) ==
  /\ Condition(a.tys[1])
  /\ BodyOk(p, cx, defined, st.then)
  /\ BodyOk(p, cx, defined, st.else)
TryOk(p, cx, defined, st) ==
  /\ BodyOk(p, InTry(cx), defined, st.body)
  /\ BodyOk(p, InTry(cx), (st.x :> "Map") @@ defined, st.handler)

(* The place an assignment writes to; the value is the first operand.      *)
Target(defined, a, st) ==
  CASE st.s = "assign" -> IF st.x \in DOMAIN defined THEN Typed(defined[st.x]) ELSE Wrong("Unknown")
    [] st.s = "store"  -> CheckIndex(a.tys[2], a.tys[3], TRUE)
    [] st.s = "set"    -> CheckField(a.tys[2], TRUE, st.x)
AssignOk(a, target) == target.ok /\ Assignable(a.tys[1], target.ty)
ReturnOk(p, cx, a) == Assignable(a.tys[1], TypeOf(p[cx.fn].ret))

(* One statement whose operands are a: acc is [defined, ok].               *)
StmtOk(p, cx, defined, a, st) ==
  CASE st.s \in {"let", "print", "expr"} -> TRUE
    [] st.s \in {"assign", "store", "set"} -> AssignOk(a, Target(defined, a, st))
    [] st.s = "return" -> ReturnOk(p, cx, a)
    [] st.s \in {"break", "continue"} -> LoopOk(cx)
    [] st.s = "if"     -> IfOk(p, cx, defined, a, st)
    [] st.s = "while"  -> WhileOk(p, cx, defined, a, st)
    [] st.s = "range"  -> RangeOk(p, cx, defined, a, st)
    [] st.s = "in"     -> InOk(p, cx, defined, a, st)
    [] st.s = "try"    -> TryOk(p, cx, defined, st)
CheckFromStmt(p, cx, acc, a, st) ==
  [defined |-> IF st.s = "let" THEN (st.x :> a.tys[1]) @@ acc.defined ELSE acc.defined,
   ok |-> acc.ok /\ a.ok /\ StmtOk(p, cx, acc.defined, a, st)]
CheckStmt(p, cx, acc, st) ==
  CheckFromStmt(p, cx, acc, CheckAll(p, cx, acc.defined, StmtParts(st)), st)

CheckBlock(p, cx, defined, stmts) ==
  FoldLeft(LAMBDA acc, st : CheckStmt(p, cx, acc, st), [defined |-> defined, ok |-> TRUE], stmts)

(* check_function: parameters are distinct names with their types.         *)
FunctionOk(p, f) ==
  LET params == p[f].params
      types  == [x \in Range(params) |-> TypeOf(p[f].tys[CHOOSE i \in DOMAIN params : params[i] = x])]
  IN  IsInjective(params) /\ BodyOk(p, Outermost(f), types, p[f].body)

(* Whether the checker accepts a program.                                  *)
Accepts(p) == \A f \in DOMAIN p : FunctionOk(p, f)
=============================================================================
