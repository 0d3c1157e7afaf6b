-------------------------------- MODULE Mir --------------------------------
(***************************************************************************)
(* Lowering of a checked program to MIR (src/src/mir/mod.rs): statements   *)
(* and expressions become one flat list of instructions over one flat      *)
(* space of names, with jumps to positions in that list.                   *)
(*                                                                         *)
(* A program maps each function name to                                    *)
(*   [params, tys, ret, body]: names, annotations, annotation, statements. *)
(* Expressions carry their form in k, statements in s, patterns in p.      *)
(* Positions count from 1 (the code's count from 0); a jump that nothing   *)
(* has patched yet goes to Unpatched (usize::MAX).  An instruction is a    *)
(* record with its opcode in op.  Left out with what they lower to:        *)
(* strings, floats, maps, closures, methods, tasks and task groups.        *)
(***************************************************************************)
EXTENDS Integers, Sequences, SequencesExt, TLC

CONSTANT MaxInt                    \* the largest Int (i64::MAX, scaled down)
ASSUME MaxIntAssumption == MaxInt \in Nat \ {0}
MinInt == -MaxInt - 1

Unpatched == 1000000

BinOps  == {"add", "sub", "mul", "div", "mod", "eq", "ne", "lt", "le", "gt", "ge"}

VARIANT == "__variant"             \* the hidden tag of an enum value
FALLTHROUGH == "__match_fallthrough"
Payload(i) == "f" \o ToString(i - 1)

(* The state of the lowering of one function: the instructions so far, the *)
(* counter of generated names, and the loops being lowered, innermost      *)
(* last, each with the jumps that break and continue have left to patch.   *)
Fresh == [code |-> <<>>, tmp |-> 0, loops |-> <<>>]
TmpName(s) == "t" \o ToString(s.tmp)
Here(s) == Len(s.code) + 1

Push(s, ins) == [s EXCEPT !.code = Append(@, ins)]
Bump(s) == [s EXCEPT !.tmp = @ + 1]

(* Push an instruction that defines a new generated name: [s, v].          *)
Put(s, ins) == [s |-> Bump(Push(s, [ins EXCEPT !.into = TmpName(s)])),
                v |-> TmpName(s)]
Copy(into, from) == [op |-> "copy", into |-> into, from |-> from]
Const(into, n) == [op |-> "const", into |-> into, n |-> n]
Jump(target) == [op |-> "jump", target |-> target]
JumpIfFalse(cond) == [op |-> "jumpIfFalse", left |-> cond, target |-> Unpatched]

(* patch_target, for each jump of a set.                                   *)
Patch(s, jumps, target) ==
  [s EXCEPT !.code = [i \in DOMAIN @ |->
      IF i \in jumps THEN [@[i] EXCEPT !.target = target] ELSE @[i]]]
PatchHere(s, jumps) == Patch(s, jumps, Here(s))

EnterLoop(s) == [s EXCEPT !.loops = Append(@, [breaks |-> {}, continues |-> {}])]
(* Leave the innermost loop: its condition's jump and its breaks go past   *)
(* the loop, its continues to next.                                        *)
LeaveLoop(s, exit, next) ==
  LET loop == Last(s.loops)
  IN  [Patch(PatchHere(s, loop.breaks \cup {exit}), loop.continues, next)
         EXCEPT !.loops = Front(@)]

(* break and continue leave a jump with the innermost loop, if any.        *)
LeaveJump(s, which) ==
  LET t == Push(s, Jump(Unpatched))
      n == Len(t.loops)
  IN  IF n = 0 THEN t
      ELSE [t EXCEPT !.loops[n][which] = @ \cup {Len(t.code)}]

(* Op(x), where TLC computes x first and not where Op comes to need it.    *)
Eagerly(Op(_), x) == CHOOSE y \in {Op(z) : z \in {x}} : TRUE

RECURSIVE BoundNames(_), LowerPatterns(_, _, _), LowerExpr(_, _), LowerBlock(_, _)

Indexes(seq) == [i \in 1..Len(seq) |-> i]

(* MatchBinding::bound_names: the names a pattern binds at every level.    *)
BoundNames(pats) ==
  FoldLeft(LAMBDA acc, b :
             CASE b.p = "bind" -> Append(acc, b.x)
               [] b.p = "nest" -> acc \o BoundNames(b.pats)
               [] OTHER -> acc,
           <<>>, pats)

(* Lower expressions from left to right: [s, vs], vs the operand names.    *)
Operand(vs, a) == [s |-> a.s, vs |-> Append(vs, a.v)]
LowerAll(s, es) ==
  FoldLeft(LAMBDA acc, e : Eagerly(LAMBDA a : Operand(a.vs, LowerExpr(a.s, e)), acc),
           [s |-> s, vs |-> <<>>], es)

(* && and ||: the right operand is lowered inside the branch that needs it;*)
(* l holds the left one.                                                   *)
ShortCircuit(s, l, e) ==
  LET dst   == TmpName(s)
      test  == Push(Bump(s), JumpIfFalse(l))
      both(r) == Push(r.s, [op |-> e.op, into |-> dst, left |-> l, right |-> r.v])
      right(t) == both(LowerExpr(t, e.r))
      then  == Push(IF e.op = "and" THEN right(test) ELSE Push(test, Const(dst, 1)),
                    Jump(Unpatched))
      else  == PatchHere(then, {Len(test.code)})
      done  == IF e.op = "and" THEN Push(else, Const(dst, 0)) ELSE right(else)
  IN  [s |-> PatchHere(done, {Len(then.code)}), v |-> dst]

(* Jump away unless a tag is the wanted one.                               *)
LowerTagEq(s, tag, want) ==
  LET lit == Put(s, [op |-> "tag", into |-> "", tag |-> want])
      cmp == Put(lit.s, [op |-> "eq", into |-> "", left |-> tag, right |-> lit.v])
  IN  Push(cmp.s, JumpIfFalse(cmp.v))

(* Read the tag of a value and jump away unless it is the wanted one.      *)
LowerTagTest(s, base, want) ==
  LET tag == Put(s, [op |-> "get", into |-> "", left |-> base, field |-> VARIANT])
  IN  LowerTagEq(tag.s, tag.v, want)

(* The jump just pushed waits for the next arm.                            *)
Waiting(acc, s) == [acc EXCEPT !.s = s, !.pending = @ \cup {Len(s.code)}]

(* One element of a pattern against field i of base; what does not match   *)
(* jumps to the next arm: acc is [s, pending].                             *)
LowerPattern(acc, b, base, i) ==
  CASE b.p = "ignore" -> acc
    [] b.p = "bind" ->
         [acc EXCEPT !.s = Push(@, [op |-> "get", into |-> b.x, left |-> base,
                                    field |-> Payload(i)])]
    [] OTHER ->
         LET field == Put(acc.s, [op |-> "get", into |-> "", left |-> base, field |-> Payload(i)])
         IN  LowerPatterns(Waiting(acc, LowerTagTest(field.s, field.v, b.tag)), b.pats, field.v)

LowerPatterns(acc, pats, base) ==
  FoldLeft(LAMBDA a, i : LowerPattern(a, pats[i], base, i), acc, Indexes(pats))

(* The names arms bind, in patterns or as top-level lets of their setup:   *)
(* match saves them before its arms and restores them around each.         *)
ArmNames(arms) ==
  LET lets(arm) == FoldLeft(LAMBDA acc, st : IF st.s = "let" THEN Append(acc, st.x) ELSE acc,
                            <<>>, arm.setup)
      all == FlattenSeq([a \in DOMAIN arms |-> BoundNames(arms[a].pats) \o lets(arms[a])])
  IN  FoldLeft(LAMBDA acc, x : IF Contains(acc, x) THEN acc ELSE Append(acc, x), <<>>, all)

\* Mutant: the outer names are not given back.
RestoreNothing(s, saved) == s

Restore(s, saved) == FoldLeft(LAMBDA t, pair : Push(t, Copy(pair[1], pair[2])), s, saved)

(* One arm: acc is [s, pending, ends].  It starts where the arms before it *)
(* gave up, with the outer names as they were, and tests the tag.          *)
EnterArm(acc, arm, m) ==
  LET entry == Restore(PatchHere(acc.s, acc.pending), m.saved)
      fresh == [acc EXCEPT !.s = entry, !.pending = {}]
  IN  IF arm.tag = "_" THEN fresh ELSE Waiting(fresh, LowerTagEq(entry, m.tag, arm.tag))
(* The setup, in a fresh loop stack; then the guard: false goes on to the  *)
(* next arm like a wrong tag.                                              *)
SetUp(acc, arm) ==
  [acc EXCEPT !.s = [LowerBlock([@ EXCEPT !.loops = <<>>], arm.setup) EXCEPT !.loops = acc.s.loops]]
Guard(acc, g) == IF g.vs = <<>> THEN acc ELSE Waiting(acc, Push(g.s, JumpIfFalse(g.vs[1])))
GuardArm(acc, arm) == Guard(acc, LowerAll(acc.s, arm.guard))
(* The value goes to the name of the match, and the outer names come back. *)
EndArm(acc, s) == [acc EXCEPT !.s = s, !.ends = @ \cup {Len(s.code)}]
Yield(acc, a, m) ==
  LET moved == IF a.v = m.dst THEN a.s ELSE Push(a.s, Copy(m.dst, a.v))
  IN  EndArm(acc, Push(Restore(moved, m.saved), Jump(Unpatched)))
ArmValue(acc, arm, m) == Yield(acc, LowerExpr(acc.s, arm.body), m)

LowerArm(acc, arm, m) ==
  ArmValue(GuardArm(SetUp(LowerPatterns(EnterArm(acc, arm, m), arm.pats, m.base), arm), arm), arm, m)

(* Save the names that arms bind: [s, saved].                              *)
SaveName(x, saved, t) == [s |-> t.s, saved |-> Append(saved, <<x, t.v>>)]
SaveNames(s, names) ==
  FoldLeft(LAMBDA acc, x : SaveName(x, acc.saved, Put(acc.s, Copy("", x))),
           [s |-> s, saved |-> <<>>], names)

(* No arm left is a loud error, the read of a field no value has.          *)
EndMatch(acc, m) ==
  LET none == Push(PatchHere(acc.s, acc.pending),
                   [op |-> "get", into |-> m.dst, left |-> m.base, field |-> FALLTHROUGH])
  IN  [s |-> PatchHere(none, acc.ends), v |-> m.dst]
LowerArms(save, arms, m) ==
  LET with == [m EXCEPT !.saved = save.saved]
  IN  EndMatch(FoldLeft(LAMBDA acc, arm : Eagerly(LAMBDA a : LowerArm(a, arm, with), acc),
                        [s |-> save.s, pending |-> {}, ends |-> {}], arms),
               m)

(* match on the value that base holds.                                     *)
LowerMatch(s, base, arms) ==
  LET tag == Put(s, [op |-> "get", into |-> "", left |-> base, field |-> VARIANT])
  IN  LowerArms(SaveNames(Bump(tag.s), ArmNames(arms)), arms,
                [base |-> base, tag |-> tag.v, dst |-> TmpName(tag.s), saved |-> <<>>])

LowerCtor(a, tag, e) ==
  Put(a.s, [op |-> "struct", into |-> "", name |-> e.x,
            fields |-> <<VARIANT>> \o [i \in DOMAIN e.args |-> Payload(i)],
            args |-> <<tag>> \o a.vs])

(* What an expression lowers first.  A negated literal is folded, anything *)
(* else is negated at run time.                                            *)
Folded(e) == e.k = "neg" /\ e.e.k = "int"
Parts(e) ==
  CASE e.k \in {"bin", "index"} -> <<e.l, e.r>>
    [] e.k \in {"call", "array", "struct", "ctor"} -> e.args
    [] e.k \in {"not", "field", "match"} \/ (e.k = "neg" /\ ~Folded(e)) -> <<e.e>>
    [] e.k = "logic" -> <<e.l>>
    [] OTHER -> <<>>

(* The instruction for an expression whose parts are in the names vs.      *)
Instruction(e, vs) ==
  CASE e.k \in {"int", "bool"} -> Const("", e.v)
    [] Folded(e)     -> Const("", IF e.e.v = MinInt THEN MinInt ELSE -e.e.v)
    [] e.k = "bin"   -> [op |-> e.op, into |-> "", left |-> vs[1], right |-> vs[2]]
    [] e.k \in {"neg", "not"} -> [op |-> e.k, into |-> "", left |-> vs[1]]
    [] e.k = "call"  -> [op |-> "call", into |-> "", name |-> e.x, args |-> vs]
    [] e.k = "array" -> [op |-> "array", into |-> "", args |-> vs]
    [] e.k = "struct" -> [op |-> "struct", into |-> "", name |-> e.x, fields |-> e.fields, args |-> vs]
    [] e.k = "index" -> [op |-> "index", into |-> "", left |-> vs[1], right |-> vs[2]]
    [] e.k = "field" -> [op |-> "get", into |-> "", left |-> vs[1], field |-> e.x]

LowerFrom(a, e) ==
  CASE e.k = "logic" -> ShortCircuit(a.s, a.vs[1], e)
    [] e.k = "match" -> LowerMatch(a.s, a.vs[1], e.arms)
    [] OTHER -> Put(a.s, Instruction(e, a.vs))

(* lower_expr_to_value: [s, v], v the name that holds the value.  A        *)
(* variable is its own name: nothing is copied before it is used.          *)
LowerExpr(s, e) ==
  CASE e.k = "var"  -> [s |-> s, v |-> e.x]
    [] e.k = "ctor" -> LowerCtor(LowerAll(Put(s, [op |-> "tag", into |-> "", tag |-> e.tag]).s, e.args),
                                 TmpName(s), e)
    [] OTHER -> LowerFrom(LowerAll(s, Parts(e)), e)

LowerLet(a, st) == IF a.vs[1] = st.x THEN a.s ELSE Push(a.s, Copy(st.x, a.vs[1]))

(* An if: past the then branch, which test jumped over, comes the else.    *)
EndIf(s, jump) == PatchHere(s, {jump})
LowerElse(then, st, test) ==
  IF st.else = <<>> THEN EndIf(then, test)
  ELSE EndIf(LowerBlock(PatchHere(Push(then, Jump(Unpatched)), {test}), st.else), Here(then))
LowerIf(a, st) ==
  LowerElse(LowerBlock(Push(a.s, JumpIfFalse(a.vs[1])), st.then), st, Here(a.s))

LowerWhile(a, st, start) ==
  LeaveLoop(Push(LowerBlock(EnterLoop(Push(a.s, JumpIfFalse(a.vs[1]))), st.body), Jump(start)),
            Here(a.s), start)

\* Mutant: continue goes to the test of the loop and skips its step.
LowerStepSkipped(s, counter, start, exit) ==
  LET one  == Put(s, Const("", 1))
      add  == Push(one.s, [op |-> "add", into |-> counter, left |-> counter, right |-> one.v])
  IN  LeaveLoop(Push(add, Jump(start)), exit, start)

(* The step of both for loops: add 1 to the counter and go round again.    *)
LowerStep(s, counter, start, exit) ==
  LET one  == Put(s, Const("", 1))
      add  == Push(one.s, [op |-> "add", into |-> counter, left |-> counter, right |-> one.v])
  IN  LeaveLoop(Push(add, Jump(start)), exit, Here(s))

(* for x in l..r: the end is evaluated once, into a generated name.        *)
LowerRange(a, st) ==
  LET end  == Put(Push(a.s, Copy(st.x, a.vs[1])), Copy("", a.vs[2]))
      less == Put(end.s, [op |-> "lt", into |-> "", left |-> st.x, right |-> end.v])
  IN  LowerStep(LowerBlock(EnterLoop(Push(less.s, JumpIfFalse(less.v))), st.body),
                st.x, Here(end.s), Here(less.s))

(* for x in e: a hidden index over an array whose length every round reads.*)
LowerIn(a, st) ==
  LET idx  == TmpName(a.s)
      len  == TmpName(Bump(a.s))
      init == Push(Bump(Bump(a.s)), Const(idx, 0))
      less == Put(Push(init, [op |-> "len", into |-> len, left |-> a.vs[1]]),
                  [op |-> "lt", into |-> "", left |-> idx, right |-> len])
      elem == Put(Push(less.s, JumpIfFalse(less.v)),
                  [op |-> "index", into |-> "", left |-> a.vs[1], right |-> idx])
  IN  LowerStep(LowerBlock(EnterLoop(Push(elem.s, Copy(st.x, elem.v))), st.body),
                idx, Here(init), Here(less.s))

(* try: body and handler are slices of their own with their own positions  *)
(* and loops; generated names go on counting.                              *)
LowerSlice(tmp, stmts) == LowerBlock([Fresh EXCEPT !.tmp = tmp], stmts)
EndTry(s, x, body, handler) ==
  [Push(s, [op |-> "try", into |-> x, body |-> body.code, handler |-> handler.code])
     EXCEPT !.tmp = handler.tmp]
LowerHandler(s, body, st) == EndTry(s, st.x, body, LowerSlice(body.tmp, st.handler))
LowerTry(s, st) == LowerHandler(s, LowerSlice(s.tmp, st.body), st)

(* What a statement lowers first: its operands, from left to right.  An    *)
(* assignment to an element or a field lowers the value, then the base and *)
(* the index.                                                              *)
StmtParts(st) ==
  CASE st.s \in {"let", "assign", "return", "print", "expr", "if", "while", "in"} -> <<st.e>>
    [] st.s = "range" -> <<st.l, st.r>>
    [] st.s = "store" -> <<st.e, st.l, st.r>>
    [] st.s = "set"   -> <<st.e, st.l>>
    [] OTHER -> <<>>

(* The rest of a statement that started at a position.                     *)
StmtFrom(a, st, start) ==
  CASE st.s = "let"      -> LowerLet(a, st)
    [] st.s = "assign"   -> Push(a.s, Copy(st.x, a.vs[1]))
    [] st.s = "store"    -> Push(a.s, [op |-> "store", left |-> a.vs[2], right |-> a.vs[3], from |-> a.vs[1]])
    [] st.s = "set"      -> Push(a.s, [op |-> "set", left |-> a.vs[2], field |-> st.x, from |-> a.vs[1]])
    [] st.s \in {"return", "print"} -> Push(a.s, [op |-> st.s, from |-> a.vs[1]])
    [] st.s = "break"    -> LeaveJump(a.s, "breaks")
    [] st.s = "continue" -> LeaveJump(a.s, "continues")
    [] st.s = "if"       -> LowerIf(a, st)
    [] st.s = "while"    -> LowerWhile(a, st, start)
    [] st.s = "range"    -> LowerRange(a, st)
    [] st.s = "in"       -> LowerIn(a, st)
    [] st.s = "try"      -> LowerTry(a.s, st)
    [] st.s = "expr"     -> a.s

LowerStmt(s, st) == StmtFrom(LowerAll(s, StmtParts(st)), st, Here(s))

LowerBlock(s, stmts) ==
  FoldLeft(LAMBDA t, st : Eagerly(LAMBDA u : LowerStmt(u, st), t), s, stmts)

(* lower: every function on its own, with its own names and counter.       *)
Lower(program) ==
  [f \in DOMAIN program |-> LowerBlock(Fresh, program[f].body).code]
=============================================================================
