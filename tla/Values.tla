------------------------------- MODULE Values -------------------------------
(***************************************************************************)
(* Runtime values and what one operation does with them (src/src/runtime/  *)
(* mod.rs): checked integer arithmetic, comparison, truth, elements and    *)
(* fields, and the ranges that annotations enforce.  An operation yields   *)
(* an outcome: a value, or one of the errors                               *)
(*   overflow  E-OVERFLOW                       zero   division by zero    *)
(*   index     an index out of bounds           depth  call depth exceeded *)
(*   range     a value outside its annotation   field  no such field       *)
(*   shape     an operation on a value of another kind                     *)
(*   jump      a jump that nothing has patched                             *)
(*   kind      an argument of a builtin of a kind it does not take         *)
(*   refused   a builtin refuses what an argument holds (E-RUNTIME)        *)
(*   exit      exit() ends the program: no catch sees it                   *)
(* all of which a catch sees as a map with their code and message.         *)
(***************************************************************************)
EXTENDS Checker

Int2V(n) == [t |-> "int", n |-> n]
Bool2V(b) == Int2V(IF b THEN 1 ELSE 0)
ArrayV(xs) == [t |-> "array", xs |-> xs]
StructV(name, fields, xs) == [t |-> "struct", name |-> name, fields |-> fields, xs |-> xs]
TagV(tag) == [t |-> "str", tag |-> tag]
CaughtV(err) == [t |-> "map", code |-> err]

Ok(v) == [err |-> "", v |-> v]
Err(err) == [err |-> err, v |-> Int2V(0)]

(* Value::as_int: what is no Int counts as its size, a tag as 0.           *)
AsInt(v) ==
  CASE v.t = "int" -> v.n
    [] v.t \in {"array", "struct"} -> Len(v.xs)
    [] v.t = "map" -> 2
    [] OTHER -> 0

Truthy(v) ==
  CASE v.t = "int" -> v.n # 0
    [] v.t = "array" -> v.xs # <<>>
    [] OTHER -> TRUE

Abs(n) == IF n < 0 THEN -n ELSE n
Quotient(a, b) == LET q == Abs(a) \div Abs(b) IN IF (a < 0) # (b < 0) THEN -q ELSE q
Remainder(a, b) == a - b * Quotient(a, b)

(* The checked_* operations of i64.                                        *)
Checked(n) == IF n \in MinInt..MaxInt THEN Ok(Int2V(n)) ELSE Err("overflow")
Divide(a, b) == IF b = 0 THEN Err("zero") ELSE Checked(Quotient(a, b))
Modulo(a, b) ==
  CASE b = 0 -> Err("zero")
    [] a = MinInt /\ b = -1 -> Err("overflow")
    [] OTHER -> Ok(Int2V(Remainder(a, b)))

(* The binary operations of the interpreter.                               *)
Binary(op, l, r) ==
  LET a == AsInt(l)
      b == AsInt(r)
  IN  CASE op = "add" -> Checked(a + b)
        [] op = "sub" -> Checked(a - b)
        [] op = "mul" -> Checked(a * b)
        [] op = "div" -> Divide(a, b)
        [] op = "mod" -> Modulo(a, b)
        [] op = "eq"  -> Ok(Bool2V(l = r))
        [] op = "ne"  -> Ok(Bool2V(l # r))
        [] op = "lt"  -> Ok(Bool2V(a < b))
        [] op = "le"  -> Ok(Bool2V(a <= b))
        [] op = "gt"  -> Ok(Bool2V(a > b))
        [] op = "ge"  -> Ok(Bool2V(a >= b))

Negate(v) == Checked(-AsInt(v))

(* check_int_boundary: an Int outside the range of a narrow annotation.    *)
Fits(v, ann) == ann \notin DOMAIN Narrow \/ v.t # "int" \/ v.n \in Narrow[ann]

(* index_value and store_index on an array.                                *)
ElementOf(v, i) ==
  CASE v.t # "array" -> Err("shape")
    [] AsInt(i) + 1 \notin DOMAIN v.xs -> Err("index")
    [] OTHER -> Ok(v.xs[AsInt(i) + 1])
WithElement(v, i, new) ==
  CASE v.t # "array" -> Err("shape")
    [] AsInt(i) + 1 \notin DOMAIN v.xs -> Err("index")
    [] OTHER -> Ok([v EXCEPT !.xs[AsInt(i) + 1] = new])

(* FieldGet and FieldSet; a field keeps the range its struct declares.     *)
FieldAnn(name, field) ==
  IF name \in DOMAIN Structs /\ field \in DOMAIN Structs[name] THEN Structs[name][field] ELSE ""
FieldOf(v, field) ==
  CASE v.t # "struct" -> Err("shape")
    [] ~Contains(v.fields, field) -> Err("field")
    [] OTHER -> Ok(v.xs[SelectInSeq(v.fields, LAMBDA x : x = field)])
WithField(v, field, new) ==
  CASE v.t # "struct" -> Err("shape")
    [] ~Fits(new, FieldAnn(v.name, field)) -> Err("range")
    [] ~Contains(v.fields, field) -> Err("field")
    [] OTHER -> Ok([v EXCEPT !.xs[SelectInSeq(v.fields, LAMBDA x : x = field)] = new])

(* StructNew: a literal of a struct or a value of an enum.                 *)
Construct(name, fields, xs) ==
  IF \E i \in DOMAIN fields : ~Fits(xs[i], FieldAnn(name, fields[i])) THEN Err("range")
  ELSE Ok(StructV(name, fields, xs))

(* A builtin on values.  What it returns is exact for arrays, elements and *)
(* numbers and otherwise one value of the kind: texts, handles and what    *)
(* the system answers are not told apart.                                  *)
ValueOf(kind) ==
  CASE kind = "int" -> Int2V(0)
    [] kind = "array" -> ArrayV(<<>>)
    [] kind = "str" -> TagV("text")
    [] kind = "map" -> CaughtV("entry")
    [] OTHER -> [t |-> kind]
KindsOfValues(args) == [i \in DOMAIN args |-> args[i].t]
Among(kinds) == IF "int" \in kinds THEN "int" ELSE CHOOSE k \in kinds : TRUE

Interval(a, b) == [i \in 1..(IF a < b THEN b - a ELSE 0) |-> Int2V(a + i - 1)]
SliceOf(xs, a, b) ==
  IF a < 0 \/ b < a \/ b > Len(xs) THEN Err("refused") ELSE Ok(ArrayV(SubSeq(xs, a + 1, b)))
Lesser(f, v, w) == IF (f = "min") = (v.n < w.n) THEN v ELSE w
Extreme(f, v, w) == IF v.t = "int" /\ w.t = "int" THEN Lesser(f, v, w) ELSE ValueOf("float")
Other(f, args) == ValueOf(Among(KindsOfResult(f, KindsOfValues(args))))

Answer(f, args) ==
  CASE f = "len" /\ args[1].t \in {"array", "map"} -> Ok(Int2V(AsInt(args[1])))
    [] f = "push" -> Ok(Int2V(Len(args[1].xs) + 1))
    [] f = "pop" -> IF args[1].xs = <<>> THEN Err("refused") ELSE Ok(Last(args[1].xs))
    [] f = "insert" -> IF AsInt(args[2]) \in 0..Len(args[1].xs) THEN Ok(Int2V(Len(args[1].xs) + 1))
                       ELSE Err("refused")
    [] f = "range" -> Ok(ArrayV(Interval(AsInt(args[1]), AsInt(args[2]))))
    [] f = "slice" /\ args[1].t = "array" -> SliceOf(args[1].xs, AsInt(args[2]), AsInt(args[3]))
    [] f \in {"int", "parse_int"} /\ args[1].t = "int" -> Ok(args[1])
    [] f = "abs" /\ args[1].t = "int" -> Checked(Abs(args[1].n))
    [] f \in {"min", "max"} -> Ok(Extreme(f, args[1], args[2]))
    [] f = "assert" -> IF Truthy(args[1]) THEN Ok(Int2V(1)) ELSE Err("refused")
    [] f = "is_null" -> Ok(Bool2V(args[1].t = "null"))
    [] f = "exit" -> Err("exit")
    [] OTHER -> Ok(Other(f, args))
Perform(f, args) == IF Runs(f, KindsOfValues(args)) THEN Answer(f, args) ELSE Err("kind")

(* What push, pop and insert leave in the variable they are given.         *)
Changed(f, args) ==
  CASE f = "push" -> ArrayV(Append(args[1].xs, args[2]))
    [] f = "pop" -> ArrayV(Front(args[1].xs))
    [] f = "insert" -> ArrayV(InsertAt(args[1].xs, AsInt(args[2]) + 1, args[3]))

(* A call: the depth of the new frame and the ranges of its parameters.    *)
EnterErr(depth, maxDepth, tys, args) ==
  CASE depth > maxDepth -> "depth"
    [] \E i \in DOMAIN tys : ~Fits(args[i], tys[i]) -> "range"
    [] OTHER -> ""
=============================================================================
