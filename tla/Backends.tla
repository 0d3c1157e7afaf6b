------------------------------ MODULE Backends ------------------------------
(***************************************************************************)
(* Running a program twice: the MIR interpreter (run_instrs and            *)
(* exec_function in src/src/runtime/mod.rs), one instruction a step, and   *)
(* then the JIT (src/src/jit.rs) on the same code, where it compiles it.   *)
(* Both are compared with each other and with what the program means.      *)
(*                                                                         *)
(* A frame of the interpreter is a function with its flat name space and   *)
(* the slices it is in: its own code and, inside it, the bodies and        *)
(* handlers of try, each named by a path of <<position, "body" or          *)
(* "handler">>.  A slice has its position and the value it computed last.  *)
(* A frame of the JIT has one position, since it compiles no try.          *)
(*                                                                         *)
(* Known differences, kept out of the properties by name: what Meaning     *)
(* collects as quirks, and Reseeds below.                                  *)
(***************************************************************************)
EXTENDS Meaning

CONSTANTS
    Programs,    \* a sequence of programs (see Mir), as their authors mean them
    Inputs       \* what comes out of each before it is lowered (see Text)

(* Both as tables (\o builds one), and the programs the checker accepts.   *)
Written  == Programs \o <<>>
Source   == Inputs \o <<>>
Accepted == {q \in DOMAIN Source : Source[q] # <<>>}

(* Their code, and the meaning of what was written.                        *)
Lowered  == [q \in DOMAIN Source |-> IF q \in Accepted THEN Lower(Source[q]) ELSE <<>>] \o <<>>
Meanings == [q \in DOMAIN Source |-> IF q \in Accepted THEN Meant(Written[q]) ELSE <<>>] \o <<>>

VARIABLES
    prog,     \* the program
    phase,    \* "start", "interp", "jit", "done"
    stack,    \* the frames, innermost last
    out,      \* what was printed
    result,   \* the outcome of the run that ended last, or an error on its way
    raised,   \* every error the interpreter raised, caught ones too
    ran       \* what the interpreter left: [err, v, out]

vars == <<prog, phase, stack, out, result, raised, ran>>

Outcomes(o, printed) == [err |-> o.err, v |-> o.v, out |-> printed]

-----------------------------------------------------------------------------
(* Frames and slices of the interpreter.                                   *)

CodeOf(fn, path) == FoldLeft(LAMBDA code, step : code[step[1]][step[2]], Lowered[prog][fn], path)
Slice(path) == [path |-> path, pc |-> 1, last |-> Int2V(0)]
Function(fn) == Source[prog][fn]
Param(fn, x) == SelectInSeq(Function(fn).params, LAMBDA y : y = x)
Args(fn, args) == [x \in Range(Function(fn).params) |-> args[Param(fn, x)]]
Frame(fn, args) == [fn |-> fn, vals |-> Args(fn, args), slices |-> <<Slice(<<>>)>>]

Top   == Last(stack)
Inner == Last(Top.slices)
Code  == CodeOf(Top.fn, Inner.path)
Read(x) == IF x \in DOMAIN Top.vals THEN Top.vals[x] ELSE Int2V(0)
ReadAll(xs) == [i \in DOMAIN xs |-> Read(xs[i])]

(* validate_jumps: past the end is where a slice ends, further is nowhere. *)
ValidJumps(code) ==
  \A i \in DOMAIN code : code[i].op \in {"jump", "jumpIfFalse"} => code[i].target <= Len(code) + 1

(* var_ann: a parameter of a narrow type keeps its range when assigned.    *)
VarAnn(fn, x) == IF Param(fn, x) = 0 THEN "" ELSE Function(fn).tys[Param(fn, x)]

Stepped(slices, v) == [slices EXCEPT ![Len(slices)].pc = @ + 1, ![Len(slices)].last = v]
Defined(stk, x, v) ==
  [stk EXCEPT ![Len(stk)].vals = (x :> v) @@ @, ![Len(stk)].slices = Stepped(@, v)]

(* An error leaves the instruction: it is the result on its way out.       *)
Throw(stk, err) == stack' = stk /\ result' = Err(err) /\ raised' = raised \cup {err}

(* The instruction ins computed an outcome.                                *)
Compute(ins, o) ==
  IF o.err # "" THEN Throw(stack, o.err)
  ELSE stack' = Defined(stack, ins.into, o.v) /\ UNCHANGED <<raised, result>>

(* exec_function: the depth, the ranges of the parameters, the jumps.      *)
Enter(fn, args) ==
  LET entry == EnterErr(Len(stack), MaxDepth, Function(fn).tys, args)
      err   == IF entry = "" /\ ~ValidJumps(Lowered[prog][fn]) THEN "jump" ELSE entry
  IN  IF err # "" THEN Throw(stack, err)
      ELSE stack' = Append(stack, Frame(fn, args)) /\ UNCHANGED <<raised, result>>

(* A function ends with a value, in the range of its annotation.           *)
Leave(v) ==
  LET rest == Front(stack)
      call == Last(Last(rest).slices)
  IN  CASE ~Fits(v, Function(Top.fn).ret) -> Throw(rest, "range")
        [] rest = <<>> -> stack' = rest /\ result' = Ok(v) /\ UNCHANGED raised
        [] OTHER -> /\ stack' = Defined(rest, CodeOf(Last(rest).fn, call.path)[call.pc].into, v)
                    /\ UNCHANGED <<raised, result>>

-----------------------------------------------------------------------------
(* The interpreter, one instruction a step.                                *)

Running == phase = "interp" /\ stack # <<>> /\ result.err = ""
Failing == phase = "interp" /\ stack # <<>> /\ result.err # ""
InBody  == Len(Top.slices) > 1 /\ Last(Inner.path)[2] = "body"
AtEnd == Inner.pc > Len(Code)
Silent == UNCHANGED <<prog, phase, out, ran>>

Begin ==
  /\ phase = "start"
  /\ phase' = "interp"
  /\ Enter("main", <<>>)
  /\ UNCHANGED <<prog, out, ran>>

Constant(ins) ==
  /\ ins.op \in {"const", "tag"}
  /\ Compute(ins, Ok(IF ins.op = "tag" THEN TagV(ins.tag) ELSE Int2V(ins.n)))
  /\ Silent

CopyName(ins) ==
  /\ ins.op = "copy"
  /\ LET v == Read(ins.from)
     IN  Compute(ins, IF Fits(v, VarAnn(Top.fn, ins.into)) THEN Ok(v) ELSE Err("range"))
  /\ Silent

Operate(ins) ==
  /\ ins.op \in BinOps
  /\ Compute(ins, Binary(ins.op, Read(ins.left), Read(ins.right)))
  /\ Silent

Combine(ins) ==
  /\ ins.op \in {"and", "or"}
  /\ LET l == Truthy(Read(ins.left))
         r == Truthy(Read(ins.right))
     IN  Compute(ins, Ok(Bool2V(IF ins.op = "and" THEN l /\ r ELSE l \/ r)))
  /\ Silent

Invert(ins) ==
  /\ ins.op \in {"neg", "not"}
  /\ LET v == Read(ins.left)
     IN  Compute(ins, IF ins.op = "neg" THEN Negate(v) ELSE Ok(Bool2V(~Truthy(v))))
  /\ Silent

Build(ins) ==
  /\ ins.op \in {"array", "struct"}
  /\ LET vs == ReadAll(ins.args)
     IN  Compute(ins, IF ins.op = "array" THEN Ok(ArrayV(vs)) ELSE Construct(ins.name, ins.fields, vs))
  /\ Silent

Access(ins) ==
  /\ ins.op \in {"index", "get"}
  /\ Compute(ins, IF ins.op = "get" THEN FieldOf(Read(ins.left), ins.field)
             ELSE ElementOf(Read(ins.left), Read(ins.right)))
  /\ Silent

Length(ins) ==
  /\ ins.op = "len"
  /\ LET v == Read(ins.left)
     IN  Compute(ins, IF v.t \in {"array", "map"} THEN Ok(Int2V(AsInt(v))) ELSE Err("shape"))
  /\ Silent

(* A store changes the value its base names, and computes nothing.         *)
StoreInto(ins) ==
  /\ ins.op \in {"store", "set"}
  /\ LET b == Read(ins.left)
         o == IF ins.op = "store" THEN WithElement(b, Read(ins.right), Read(ins.from))
              ELSE WithField(b, ins.field, Read(ins.from))
     IN  IF o.err # "" THEN Throw(stack, o.err)
         ELSE /\ stack' = [stack EXCEPT ![Len(stack)].vals[ins.left] = o.v,
                                        ![Len(stack)].slices = Stepped(@, Inner.last)]
              /\ UNCHANGED <<raised, result>>
  /\ Silent

Output(ins) ==
  /\ ins.op = "print"
  /\ LET v == Read(ins.from)
     IN  /\ out' = Append(out, v)
         /\ stack' = [stack EXCEPT ![Len(stack)].slices = Stepped(@, v)]
  /\ UNCHANGED <<prog, phase, result, raised, ran>>

Leap(ins) ==
  /\ ins.op \in {"jump", "jumpIfFalse"}
  /\ LET next == IF ins.op = "jumpIfFalse" /\ Truthy(Read(ins.left)) THEN Inner.pc + 1
                 ELSE ins.target
         n    == Len(Top.slices)
     IN  stack' = [stack EXCEPT ![Len(stack)].slices[n].pc = next]
  /\ UNCHANGED <<raised, result>>
  /\ Silent

(* A builtin runs in the frame of its caller: push, pop and insert change  *)
(* the value their first name holds.                                       *)
CallBuiltin(ins) ==
  /\ ins.op = "call" /\ ins.name \in Builtin
  /\ LET args == ReadAll(ins.args)
         o    == Perform(ins.name, args)
         now  == IF ins.name \in Mutators /\ o.err = ""
                 THEN [stack EXCEPT ![Len(stack)].vals[ins.args[1]] = Changed(ins.name, args)]
                 ELSE stack
     IN  IF o.err # "" THEN Throw(stack, o.err)
         ELSE stack' = Defined(now, ins.into, o.v) /\ UNCHANGED <<raised, result>>
  /\ Silent

CallFunction(ins) ==
  /\ ins.op = "call" /\ ins.name \notin Builtin
  /\ Enter(ins.name, ReadAll(ins.args))
  /\ Silent

(* return, from however many slices, and the end of a function's own one.  *)
Return(ins) ==
  /\ ins.op = "return"
  /\ Leave(IF ins.from \in DOMAIN Top.vals THEN Read(ins.from) ELSE Inner.last)
  /\ Silent

FallOff ==
  /\ Running /\ AtEnd /\ Len(Top.slices) = 1
  /\ Leave(Inner.last)
  /\ Silent

EnterTry(ins) ==
  /\ ins.op = "try"
  /\ LET body == Append(Inner.path, <<Inner.pc, "body">>)
         now  == [stack EXCEPT ![Len(stack)].slices = Append(@, Slice(body))]
     IN  IF ValidJumps(ins.body) THEN stack' = now /\ UNCHANGED <<raised, result>>
         ELSE Throw(now, "jump")
  /\ Silent

LeaveTry ==
  /\ Running /\ AtEnd /\ Len(Top.slices) > 1
  /\ stack' = [stack EXCEPT ![Len(stack)].slices = Stepped(Front(@), Inner.last)]
  /\ UNCHANGED <<raised, result>>
  /\ Silent

(* An error ends the body of a try and its handler begins, with the error  *)
(* bound; what the body assigned stays.                                    *)
Catch ==
  /\ Failing /\ InBody /\ result.err # "exit"
  /\ LET outer   == Front(Inner.path)
         at      == Last(Inner.path)[1]
         handler == Append(outer, <<at, "handler">>)
         name    == CodeOf(Top.fn, outer)[at].into
         now     == [stack EXCEPT ![Len(stack)].vals = (name :> CaughtV(result.err)) @@ @,
                                  ![Len(stack)].slices = Append(Front(@), Slice(handler))]
     IN  IF ValidJumps(CodeOf(Top.fn, handler))
         THEN stack' = now /\ result' = Ok(Int2V(0)) /\ UNCHANGED raised
         ELSE Throw(now, "jump")
  /\ Silent

(* It ends a handler, and a function without a try body around the call;   *)
(* exit ends them all.                                                     *)
PassOn ==
  /\ Failing /\ (InBody => result.err = "exit")
  /\ stack' = IF Len(Top.slices) = 1 THEN Front(stack)
              ELSE [stack EXCEPT ![Len(stack)].slices = Front(@)]
  /\ UNCHANGED <<raised, result>>
  /\ Silent

Execute(ins) ==
  \/ Constant(ins) \/ CopyName(ins) \/ Operate(ins) \/ Combine(ins) \/ Invert(ins) \/ Build(ins)
  \/ Access(ins) \/ Length(ins) \/ StoreInto(ins) \/ Output(ins) \/ Leap(ins)
  \/ CallBuiltin(ins) \/ CallFunction(ins) \/ Return(ins) \/ EnterTry(ins)

Interpret ==
  \/ Begin
  \/ Running /\ ~AtEnd /\ \E ins \in {Code[Inner.pc]} : Execute(ins)
  \/ FallOff
  \/ LeaveTry
  \/ Catch
  \/ PassOn

-----------------------------------------------------------------------------
(* The JIT: machine integers only, the functions main may call.            *)

Compared   == {"eq", "ne", "lt", "le", "gt", "ge"}
CheckedOps == {"add", "sub", "mul", "div", "mod"}
JitOps == Compared \cup CheckedOps \cup
          {"const", "copy", "and", "or", "neg", "not", "call", "print", "jump", "jumpIfFalse", "return"}

Callees(q, fs) ==
  UNION {{ins.name : ins \in {i \in Range(Lowered[q][f]) : i.op = "call"}} : f \in fs} \ Builtin
Reachable(q) ==
  LET calls[n \in Nat] == IF n = 0 THEN {"main"}
                          ELSE LET fs == calls[n - 1] IN fs \cup Callees(q, fs)
  IN  calls[Cardinality(DOMAIN Source[q])]
Compiled == {q \in Accepted :
               \A f \in Reachable(q) : \A ins \in Range(Lowered[q][f]) :
                  ins.op \in JitOps /\ (ins.op = "call" => ins.name \notin Builtin)}

JitFrame(fn, args) == [fn |-> fn, vals |-> Args(fn, args), pc |-> 1, last |-> 0]
JitCode == Lowered[prog][Top.fn]

(* use_v: a name that the text reads before it mentions it is set to 0     *)
(* where it is read.                                                       *)
Reads(ins) == {ins[f] : f \in DOMAIN ins \cap {"left", "right", "from"}}
              \cup (IF "args" \in DOMAIN ins THEN Range(ins.args) ELSE {})
Mentions(ins) == Reads(ins) \cup (IF "into" \in DOMAIN ins THEN {ins.into} ELSE {})
JitVals(ins) ==
  LET planted == {x \in Reads(ins) : /\ Param(Top.fn, x) = 0
                                     /\ \A i \in 1..(Top.pc - 1) : x \notin Mentions(JitCode[i])}
  IN  [x \in planted |-> 0] @@ Top.vals
Held(vals, x) == IF x \in DOMAIN vals THEN vals[x] ELSE 0

(* last_var starts again at 0 whenever the first instruction runs.         *)
JitLast == IF Top.pc = 1 THEN 0 ELSE Top.last

JitMove(pc, vals, last) ==
  stack' = [stack EXCEPT ![Len(stack)] = [@ EXCEPT !.pc = pc, !.vals = vals, !.last = last]]

(* The flag a helper sets: every block that follows a call of one leaves.  *)
JitFail(err) == stack' = <<>> /\ result' = Err(err) /\ phase' = "done"

JitDefine(ins, vals, o) ==
  IF o.err # "" THEN JitFail(o.err)
  ELSE /\ JitMove(Top.pc + 1, (ins.into :> o.v.n) @@ vals, o.v.n)
       /\ UNCHANGED <<phase, result>>

JitSilent == UNCHANGED <<prog, out, raised, ran>>

(* klang_jit_add and the other helpers.                                    *)
JitChecked(op, a, b) ==
  CASE op = "add" -> Checked(a + b)
    [] op = "sub" -> Checked(a - b)
    [] op = "mul" -> Checked(a * b)
    [] b = 0 -> Err("zero")
    [] op = "div" -> Checked(Quotient(a, b))
    [] op = "mod" -> IF Checked(Quotient(a, b)).err # "" THEN Err("overflow")
                     ELSE Ok(Int2V(Remainder(a, b)))

JitHolds(op, a, b) ==
  CASE op = "eq" -> a = b
    [] op = "ne" -> a # b
    [] op = "lt" -> a < b
    [] op = "le" -> a <= b
    [] op = "gt" -> a > b
    [] op = "ge" -> a >= b
    [] op = "and" -> a # 0 /\ b # 0
    [] op = "or"  -> a # 0 \/ b # 0

(* The interpreter has ended: the same program on the JIT, or refused.     *)
StartJit ==
  /\ phase = "interp" /\ stack = <<>>
  /\ ran' = Outcomes(result, out)
  /\ IF prog \in Compiled
     THEN /\ phase' = "jit" /\ stack' = <<JitFrame("main", <<>>)>> /\ out' = <<>>
          /\ result' = Ok(Int2V(0))
     ELSE phase' = "done" /\ UNCHANGED <<stack, out, result>>
  /\ UNCHANGED <<prog, raised>>

JitConst(ins, vals) ==
  /\ ins.op = "const"
  /\ JitDefine(ins, vals, Ok(Int2V(ins.n)))
  /\ JitSilent

\* Mutant: an assignment to a parameter of a narrow type is not checked.
JitCopyAny(ins, vals) ==
  /\ ins.op = "copy"
  /\ JitDefine(ins, vals, Ok(Int2V(Held(vals, ins.from))))
  /\ JitSilent

JitCopy(ins, vals) ==
  /\ ins.op = "copy"
  /\ LET v == Int2V(Held(vals, ins.from))
     IN  JitDefine(ins, vals, IF Fits(v, VarAnn(Top.fn, ins.into)) THEN Ok(v) ELSE Err("range"))
  /\ JitSilent

JitArithmetic(ins, vals) ==
  /\ ins.op \in CheckedOps
  /\ JitDefine(ins, vals, JitChecked(ins.op, Held(vals, ins.left), Held(vals, ins.right)))
  /\ JitSilent

JitCompare(ins, vals) ==
  /\ ins.op \in Compared \cup {"and", "or"}
  /\ JitDefine(ins, vals, Ok(Bool2V(JitHolds(ins.op, Held(vals, ins.left), Held(vals, ins.right)))))
  /\ JitSilent

JitInvert(ins, vals) ==
  /\ ins.op \in {"neg", "not"}
  /\ LET x == Held(vals, ins.left)
     IN  JitDefine(ins, vals, IF ins.op = "neg" THEN Checked(-x) ELSE Ok(Bool2V(x = 0)))
  /\ JitSilent

JitPrint(ins, vals) ==
  /\ ins.op = "print"
  /\ out' = Append(out, Int2V(Held(vals, ins.from)))
  /\ JitMove(Top.pc + 1, vals, Held(vals, ins.from))
  /\ UNCHANGED <<prog, phase, result, raised, ran>>

JitJump(ins, vals) ==
  /\ ins.op \in {"jump", "jumpIfFalse"}
  /\ JitMove(IF ins.op = "jumpIfFalse" /\ Held(vals, ins.left) # 0 THEN Top.pc + 1
             ELSE ins.target, vals, JitLast)
  /\ UNCHANGED <<phase, result>>
  /\ JitSilent

(* A call: the callee's depth guard and then its parameters' ranges.       *)
JitCall(ins, vals) ==
  /\ ins.op = "call"
  /\ LET f    == ins.name
         args == [i \in DOMAIN ins.args |-> Held(vals, ins.args[i])]
         tys  == Function(f).tys
     IN  IF Len(stack) > MaxDepth THEN JitFail("depth")
         ELSE IF \E i \in DOMAIN tys : ~Fits(Int2V(args[i]), tys[i]) THEN JitFail("range")
         ELSE /\ stack' = Append([stack EXCEPT ![Len(stack)].vals = vals], JitFrame(f, args))
              /\ UNCHANGED <<phase, result>>
  /\ JitSilent

(* return and the end block: the range, then the caller goes on.           *)
JitLeave(v) ==
  LET rest == Front(stack)
      call == Last(rest)
  IN  CASE ~Fits(Int2V(v), Function(Top.fn).ret) -> JitFail("range")
        [] rest = <<>> -> stack' = rest /\ result' = Ok(Int2V(v)) /\ phase' = "done"
        [] OTHER ->
             /\ stack' = [rest EXCEPT ![Len(rest)] =
                  [call EXCEPT !.vals = (Lowered[prog][call.fn][call.pc].into :> v) @@ @,
                               !.pc = @ + 1, !.last = v]]
             /\ UNCHANGED <<phase, result>>

JitReturn(ins, vals) ==
  /\ ins.op = "return"
  /\ JitLeave(Held(vals, ins.from))
  /\ JitSilent

JitEnd ==
  /\ phase = "jit" /\ Top.pc > Len(JitCode)
  /\ JitLeave(Top.last)
  /\ JitSilent

JitExecute(ins, vals) ==
  \/ JitConst(ins, vals) \/ JitCopy(ins, vals) \/ JitArithmetic(ins, vals) \/ JitCompare(ins, vals)
  \/ JitInvert(ins, vals) \/ JitPrint(ins, vals) \/ JitJump(ins, vals) \/ JitCall(ins, vals)
  \/ JitReturn(ins, vals)

Machine ==
  \/ StartJit
  \/ /\ phase = "jit" /\ Top.pc <= Len(JitCode)
     /\ \E ins \in {JitCode[Top.pc]} : \E vals \in {JitVals(ins)} : JitExecute(ins, vals)
  \/ JitEnd

-----------------------------------------------------------------------------
Init ==
  /\ prog \in Accepted
  /\ phase = "start"
  /\ stack = <<>>
  /\ out = <<>>
  /\ result = Ok(Int2V(0))
  /\ raised = {}
  /\ ran = Outcomes(Ok(Int2V(0)), <<>>)

Next == Interpret \/ Machine
Spec == Init /\ [][Next]_vars
FairSpec == Spec /\ WF_vars(Next)

-----------------------------------------------------------------------------
(* Exceptions.  A function that jumps back to its first instruction: the   *)
(* JIT forgets there what was computed last, the interpreter does not.     *)
Reseeds(q) ==
  \E f \in Reachable(q) : \E ins \in Range(Lowered[q][f]) : ins.op = "jump" /\ ins.target = 1

(* Values the checker knows nothing of: the elements of arrays and maps,   *)
(* what some builtins return; and the arguments that it lets pass, though  *)
(* the builtin does not take every kind.                                   *)
Opaque(f) == f \in Lenient \/ (f # "format" /\ Signature(f).ret = "Unknown")
RECURSIVE Dynamic(_)
Dynamic(code) ==
  \E ins \in Range(code) : \/ ins.op = "index"
                           \/ ins.op = "call" /\ ins.name \in Builtin /\ Opaque(ins.name)
                           \/ ins.op = "try" /\ (Dynamic(ins.body) \/ Dynamic(ins.handler))
Known(q) == ~\E f \in DOMAIN Lowered[q] : Dynamic(Lowered[q][f])

Plain(q) == Meanings[q].quirks = {}

(* The lowered code does what the program means: the flat instructions,    *)
(* with their patched jumps, saved and restored names, generated names and *)
(* slices of try, print, end and fail as the structured program does       *)
(* (lower_block and lower_expr_to_value of mir/mod.rs with run_instrs of   *)
(* runtime/mod.rs).                                                        *)
MeansSource ==
  phase \in {"jit", "done"} /\ Plain(prog) => ran = Outcomes(Meanings[prog], Meanings[prog].out)

(* The JIT agrees with the interpreter: the same value or the same error,  *)
(* and the same lines printed before it (jit.rs:181-184, "Each mirrors its *)
(* interpreter arm").                                                      *)
JitAgrees ==
  phase = "done" /\ prog \in Compiled /\ ~Reseeds(prog) => Outcomes(result, out) = ran

(* What the checker accepts never gets stuck: no operation meets a value   *)
(* of another kind, no field is missing (so no match runs out of arms) and *)
(* no break or continue is left without a loop, not even where a catch     *)
(* would hide it (hir.rs: check_match, check_assign_target, E-LOOP).       *)
NeverStuck ==
  Known(prog) /\ Plain(prog) => raised \cap {"shape", "field", "jump", "kind"} = {}

(* Every run ends where the program itself does: no jump of the lowered    *)
(* code, and none of the JIT's blocks, goes round for ever.                *)
RunsDone == <>(phase = "done")
=============================================================================
