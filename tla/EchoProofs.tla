----------------------------- MODULE EchoProofs -----------------------------
(***************************************************************************)
(* Proofs about the echo threads, for any finite number of them: no circle *)
(* of listeners, and what the end of a run says of its threads.            *)
(*                                                                         *)
(* A handle only travels down an order of the threads: a thread is above   *)
(* those it has handles of, waits for, or returned handles of, and a new   *)
(* thread can be put below its parent and above all that it is handed.     *)
(* With that order a thread that nobody waits for is found from any thread *)
(* that still runs, and Owned says that the table has it.                  *)
(***************************************************************************)
EXTENDS Echo, FiniteSetTheorems, WellFoundedInduction, TLAPS

Before(R, x, y) == <<x, y>> \in R

\* R is a strict partial order of the threads that were started, with the
\* entry function above all of them, and handles lead down.
Orders(R) ==
    /\ R \subseteq Thread \X Thread
    /\ \A x \in Thread : ~Before(R, x, x)
    /\ \A x, y, z \in Thread : Before(R, x, y) /\ Before(R, y, z) => Before(R, x, z)
    /\ \A x, y \in Thread : Before(R, x, y) => pc[x] # "unborn" /\ pc[y] # "unborn"
    /\ \A e \in Echo : pc[e] # "unborn" => Before(R, Main, e)
    /\ \A t \in Thread, e \in Echo : e \in handles[t] => Before(R, t, e)
    /\ \A t \in Thread : target[t] # None => Before(R, t, target[t])
    /\ \A e, f \in Echo : f \in value[e] => Before(R, e, f)

Ordered == \E R \in SUBSET (Thread \X Thread) : Orders(R)

\* Who has a target, and who holds the table.
Stages ==
    /\ \A t \in Thread : target[t] # None => pc[t] \in {"started", "listen", "join", "failed"}
    /\ \A t \in Thread : pc[t] \in {"started", "listen", "join"} => target[t] \in Echo
    /\ \A t \in Thread : target[t] # None => pc[target[t]] # "unborn"
    /\ \A t \in Thread : target[t] # None /\ pc[t] = "failed" => pc[target[t]] = "failed"
    /\ pc[Main] \in {"clear", "join"} <=> owner = Main
    /\ pc[Main] \in {"clear", "join"} => table \subseteq keys
    /\ outcome = "running" <=> pc[Main] \notin {"over", "failed"}
    /\ outcome \in {"ok", "overflow", "unlistened"} <=> pc[Main] = "over"
    /\ \A e \in table \union leaked : pc[e] # "unborn"
    /\ \A e \in leaked : ~Alive(e)

\* A thread whose end somebody has yet to learn of.
Unsettled(e) == Alive(e) \/ pc[e] = "failed"

\* Such a thread is in the table, was joined at the end, or is waited for.
Owned ==
    \A e \in Echo : Unsettled(e) =>
        e \in table \union leaked \/ \E t \in Thread : target[t] = e

\* What is printed after the copy is printed by a thread that makes the end
\* of the run a leak.
LateLinesLeak ==
    pc[Main] \in Ending /\ out # printed =>
        table # {} \/ leaked # {} \/ target[Main] # None

-----------------------------------------------------------------------------
(* A strict order of finitely many things has an extreme one. *)

LEMMA Extreme ==
    ASSUME NEW S, IsFiniteSet(S), S # {}, NEW R,
           \A x \in S : ~Before(R, x, x),
           \A x, y, z \in S : Before(R, x, y) /\ Before(R, y, z) => Before(R, x, z)
    PROVE  \E m \in S : \A y \in S : ~Before(R, m, y)
  <1> DEFINE below(x) == {y \in S : Before(R, x, y)}
             sizes == {Cardinality(below(x)) : x \in S}
  <1>1. \A x \in S : IsFiniteSet(below(x)) /\ Cardinality(below(x)) \in Nat
    <2> TAKE x \in S
    <2>1. below(x) \in SUBSET S
      OBVIOUS
    <2>2. IsFiniteSet(below(x))
      BY <2>1, FS_Subset
    <2> HIDE DEF below
    <2> QED
      BY <2>2, FS_CardinalityType
  <1> HIDE DEF below
  <1>2. sizes \subseteq Nat /\ sizes # {}
    BY <1>1
  <1> HIDE DEF sizes
  <1>3. PICK n \in sizes : \A k \in sizes : ~(<<k, n>> \in OpToRel(<, Nat))
    BY <1>2, NatLessThanWellFounded, WFMin
  <1>4. \A k \in sizes : ~(k < n)
    BY <1>2, <1>3 DEF OpToRel
  <1>5. PICK m \in S : n = Cardinality(below(m))
    BY DEF sizes
  <1>6. ASSUME NEW y \in S, Before(R, m, y) PROVE FALSE
    <2>1. below(y) \in SUBSET below(m)
      BY <1>6 DEF below
    <2>2. y \in below(m) /\ y \notin below(y)
      BY <1>6 DEF below
    <2>3. /\ Cardinality(below(y)) <= Cardinality(below(m))
          /\ Cardinality(below(y)) # Cardinality(below(m))
      BY <1>1, <2>1, <2>2, FS_Subset
    <2>4. Cardinality(below(y)) \in sizes
      BY DEF sizes
    <2> QED
      BY <1>1, <1>4, <1>5, <2>3, <2>4
  <1> QED
    BY <1>6

LEMMA Parts ==
    /\ Main \in Thread /\ Main \notin Echo /\ None \notin Echo /\ None # Main
    /\ Echo \subseteq Thread /\ \A t \in Thread : t = Main \/ t \in Echo
    /\ IsFiniteSet(Echo)
  BY EchoAssumption DEF Thread

-----------------------------------------------------------------------------
(* Types. *)

LEMMA TypesInit == Init => EchoTypeOK
  BY Parts, EchoAssumption DEF Init, EchoTypeOK, States, Ending

LEMMA TypesFail ==
    ASSUME EchoTypeOK, NEW t \in Thread, Fail(t) PROVE EchoTypeOK'
  BY Parts DEF EchoTypeOK, Fail, States, Ending

Core == EchoTypeOK /\ Stages

LEMMA TypesKept == Core /\ [Next]_vars => EchoTypeOK'
  <1> SUFFICES ASSUME Core, [Next]_vars PROVE EchoTypeOK'
    OBVIOUS
  <1> USE Parts
  <1>1. ASSUME NEW t \in Thread, PrintLine(t) PROVE EchoTypeOK'
    BY <1>1, EchoAssumption DEF Core, Stages, EchoTypeOK, PrintLine, Running, program, end,
       States, Ending
  <1>2. ASSUME NEW t \in Thread, NEW e \in Echo, Start(t, e) PROVE EchoTypeOK'
    BY <1>2, EchoAssumption DEF Core, Stages, EchoTypeOK, Start, Running, end, States, Ending
  <1>3. ASSUME NEW t \in Thread, Insert(t) PROVE EchoTypeOK'
    BY <1>3, EchoAssumption DEF Core, Stages, EchoTypeOK, Insert, end, Free, States, Ending
  <1>4. ASSUME NEW t \in Thread, NEW e \in Echo, Listen(t, e) PROVE EchoTypeOK'
    BY <1>4, EchoAssumption DEF Core, Stages, EchoTypeOK, Listen, Running, Free, end, States,
       Ending
  <1>5. ASSUME NEW t \in Thread, Hear(t) PROVE EchoTypeOK'
    BY <1>5, EchoAssumption DEF Core, Stages, EchoTypeOK, Hear, end, States, Ending
  <1>6. ASSUME NEW t \in Thread,
              Err(t) \/ (\E e \in Echo : ListenTwice(t, e)) \/ HearFailure(t)
       PROVE EchoTypeOK'
    BY <1>6, TypesFail DEF Core, Err, ListenTwice, HearFailure
  <1>7. ASSUME NEW t \in Thread, Return(t) PROVE EchoTypeOK'
    BY <1>7, EchoAssumption DEF Core, Stages, EchoTypeOK, Return, Running, end, States, Ending
  <1>8. ASSUME Copy PROVE EchoTypeOK'
    BY <1>8, EchoAssumption DEF Core, Stages, EchoTypeOK, Copy, Running, States, Ending
  <1>9. ASSUME Lock PROVE EchoTypeOK'
    BY <1>9, EchoAssumption DEF Core, Stages, EchoTypeOK, Lock, Free, States, Ending
  <1>10. ASSUME NEW e \in Echo, Remove(e) PROVE EchoTypeOK'
    BY <1>10, EchoAssumption DEF Core, Stages, EchoTypeOK, Remove, States, Ending
  <1>11. ASSUME Joined PROVE EchoTypeOK'
    BY <1>11, EchoAssumption DEF Core, Stages, EchoTypeOK, Joined, States, Ending
  <1>12. ASSUME Exit PROVE EchoTypeOK'
    BY <1>12, EchoAssumption DEF Core, Stages, EchoTypeOK, Exit, States, Ending
  <1>13. ASSUME UNCHANGED vars PROVE EchoTypeOK'
    BY <1>13 DEF Core, EchoTypeOK, vars
  <1> QED
    BY <1>1, <1>2, <1>3, <1>4, <1>5, <1>6, <1>7, <1>8, <1>9, <1>10, <1>11, <1>12,
       <1>13 DEF Next, End, Body, Call, Listens

-----------------------------------------------------------------------------
(* Who waits for whom. *)

LEMMA StagesInit == Init => Stages
  BY Parts DEF Init, Stages, Alive

LEMMA StagesKept == Core /\ [Next]_vars => Stages'
  <1> SUFFICES ASSUME Core, [Next]_vars PROVE Stages'
    OBVIOUS
  <1> USE Parts
  <1>1. ASSUME NEW t \in Thread, PrintLine(t) PROVE Stages'
    BY <1>1 DEF Core, EchoTypeOK, Stages, PrintLine, Running, program, end, Alive, States,
       Ending
  <1>2. ASSUME NEW t \in Thread, NEW e \in Echo, Start(t, e) PROVE Stages'
    BY <1>2 DEF Core, EchoTypeOK, Stages, Start, Running, end, Alive, States, Ending
  <1>3. ASSUME NEW t \in Thread, Insert(t) PROVE Stages'
    BY <1>3 DEF Core, EchoTypeOK, Stages, Insert, end, Free, Alive, States, Ending
  <1>4. ASSUME NEW t \in Thread, NEW e \in Echo, Listen(t, e) PROVE Stages'
    BY <1>4 DEF Core, EchoTypeOK, Stages, Listen, Running, Free, end, Alive, States, Ending
  <1>5. ASSUME NEW t \in Thread, Hear(t) PROVE Stages'
    BY <1>5 DEF Core, EchoTypeOK, Stages, Hear, end, Alive, States, Ending
  <1>6. ASSUME NEW t \in Thread,
              Err(t) \/ (\E e \in Echo : ListenTwice(t, e)) \/ HearFailure(t)
       PROVE Stages'
    BY <1>6 DEF Core, EchoTypeOK, Stages, Err, Fail, ListenTwice, HearFailure, Running, Alive,
       States, Ending
  <1>7. ASSUME NEW t \in Thread, Return(t) PROVE Stages'
    BY <1>7 DEF Core, EchoTypeOK, Stages, Return, Running, end, Alive, States, Ending
  <1>8. ASSUME Copy PROVE Stages'
    BY <1>8 DEF Core, EchoTypeOK, Stages, Copy, Running, Alive, States, Ending
  <1>9. ASSUME Lock PROVE Stages'
    BY <1>9 DEF Core, EchoTypeOK, Stages, Lock, Free, Alive, States, Ending
  <1>10. ASSUME NEW e \in Echo, Remove(e) PROVE Stages'
    BY <1>10 DEF Core, EchoTypeOK, Stages, Remove, Alive, States, Ending
  <1>11. ASSUME Joined PROVE Stages'
    BY <1>11 DEF Core, EchoTypeOK, Stages, Joined, Alive, States, Ending
  <1>12. ASSUME Exit PROVE Stages'
    BY <1>12 DEF Core, EchoTypeOK, Stages, Exit, Alive, States, Ending
  <1>13. ASSUME UNCHANGED vars PROVE Stages'
    BY <1>13 DEF Core, Stages, Alive, vars
  <1> QED
    BY <1>1, <1>2, <1>3, <1>4, <1>5, <1>6, <1>7, <1>8, <1>9, <1>10, <1>11, <1>12,
       <1>13 DEF Next, End, Body, Call, Listens

-----------------------------------------------------------------------------
(* The order. *)

LEMMA OrderedInit == Init => Ordered
  <1> SUFFICES ASSUME Init PROVE Orders({})
    BY DEF Ordered
  <1> QED
    BY Parts DEF Init, Orders, Before

\* The order stays when no thread starts and the handles lead down it.
LEMMA OrderSame ==
    ASSUME NEW R \in SUBSET (Thread \X Thread), Orders(R),
           \A x \in Thread : pc'[x] = "unborn" <=> pc[x] = "unborn",
           \A x \in Thread, e \in Echo : e \in handles'[x] => Before(R, x, e),
           \A x \in Thread : target'[x] # None => Before(R, x, target'[x]),
           \A e, f \in Echo : f \in value'[e] => Before(R, e, f)
    PROVE  Ordered'
  <1>1. Orders(R)'
    BY Parts DEF Orders
  <1> QED
    BY <1>1 DEF Ordered

\* The order with a new element c below t and all that is above t.
Up(R, x, t) == x = t \/ Before(R, x, t)
Extended(R, t, c) ==
    {p \in Thread \X Thread :
        \/ p \in R
        \/ p[2] = c /\ Up(R, p[1], t)
        \/ p[1] = c /\ Before(R, t, p[2])}

LEMMA ExtendedBefore ==
    ASSUME NEW R \in SUBSET (Thread \X Thread), NEW t, NEW c,
           NEW x \in Thread, NEW y \in Thread
    PROVE  Before(Extended(R, t, c), x, y) <=>
               \/ Before(R, x, y)
               \/ y = c /\ Up(R, x, t)
               \/ x = c /\ Before(R, t, y)
  <1> DEFINE p == <<x, y>>
  <1>1. p \in Thread \X Thread /\ p[1] = x /\ p[2] = y
    OBVIOUS
  <1>2. p \in Extended(R, t, c) <=>
            \/ p \in R
            \/ p[2] = c /\ Up(R, p[1], t)
            \/ p[1] = c /\ Before(R, t, p[2])
    BY <1>1 DEF Extended
  <1> QED
    BY <1>1, <1>2 DEF Before

\* A new thread is put below its parent and above all that is below it.
LEMMA OrderStart ==
    ASSUME Core, Ordered, NEW t \in Thread, NEW c \in Echo, Start(t, c)
    PROVE  Ordered'
  <1> USE Parts
  <1>1. PICK R \in SUBSET (Thread \X Thread) : Orders(R)
    BY DEF Ordered
  <1> DEFINE Q == Extended(R, t, c)
  <1>2. \A x, y \in Thread : Before(Q, x, y) <=>
            \/ Before(R, x, y)
            \/ y = c /\ Up(R, x, t)
            \/ x = c /\ Before(R, t, y)
    BY <1>1, ExtendedBefore
  <1>3. Q \in SUBSET (Thread \X Thread)
    BY <1>1 DEF Extended
  <1> HIDE DEF Q
  <1>4. /\ t # c /\ pc[t] = "run" /\ pc[c] = "unborn" /\ c # Main
        /\ pc' = [pc EXCEPT ![t] = "started", ![c] = "run"]
        /\ target' = [target EXCEPT ![t] = c] /\ value' = value
        /\ \E args \in SUBSET handles[t] : handles' = [handles EXCEPT ![c] = args]
    BY DEF Core, EchoTypeOK, Start, Running
  <1>5. /\ pc'[t] = "started" /\ pc'[c] = "run" /\ \A x \in Thread \ {t, c} : pc'[x] = pc[x]
        /\ target'[t] = c /\ \A x \in Thread \ {t} : target'[x] = target[x]
        /\ handles'[c] \subseteq handles[t] /\ \A x \in Thread \ {c} : handles'[x] = handles[x]
    BY <1>4 DEF Core, EchoTypeOK
  <1>6. \A x \in Thread : ~Before(R, x, c) /\ ~Before(R, c, x)
    BY <1>1, <1>4 DEF Orders
  <1>7. target[t] = None /\ target[c] = None
    BY <1>4 DEF Core, Stages
  <1>8. \A x \in Thread : ~Before(Q, x, x)
    BY <1>1, <1>2, <1>4, <1>6 DEF Orders, Up
  <1>9. ASSUME NEW x \in Thread, NEW y \in Thread, NEW z \in Thread,
               Before(Q, x, y), Before(Q, y, z)
        PROVE  Before(Q, x, z)
    BY <1>1, <1>2, <1>4, <1>6, <1>9 DEF Orders, Up
  <1>10. \A x, y \in Thread : Before(Q, x, y) => pc'[x] # "unborn" /\ pc'[y] # "unborn"
    <2>1. \A x \in Thread : pc[x] # "unborn" \/ x = c => pc'[x] # "unborn"
      BY <1>4, <1>5
    <2>2. \A x, y \in Thread : Before(R, x, y) => pc[x] # "unborn" /\ pc[y] # "unborn"
      BY <1>1 DEF Orders
    <2> QED
      BY <1>2, <1>4, <2>1, <2>2 DEF Up
  <1>11. \A e \in Echo : pc'[e] # "unborn" => Before(Q, Main, e)
    <2>1. Up(R, Main, t)
      BY <1>1, <1>4 DEF Orders, Up
    <2> QED
      BY <1>1, <1>2, <1>4, <1>5, <2>1 DEF Orders
  <1>12. \A x \in Thread, e \in Echo : e \in handles'[x] => Before(Q, x, e)
    BY <1>1, <1>2, <1>5 DEF Orders, Up
  <1>13. \A x \in Thread : target'[x] # None => Before(Q, x, target'[x])
    BY <1>1, <1>2, <1>5, <1>7 DEF Orders, Up, Core, EchoTypeOK
  <1>14. \A e, f \in Echo : f \in value'[e] => Before(Q, e, f)
    BY <1>1, <1>2, <1>4 DEF Orders
  <1>15. Orders(Q)'
    BY <1>3, <1>8, <1>9, <1>10, <1>11, <1>12, <1>13, <1>14 DEF Orders
  <1> QED
    BY <1>3, <1>15 DEF Ordered

\* What is heard was handed down: value of the target, below the target.
LEMMA OrderHear ==
    ASSUME Core, Ordered, NEW t \in Thread, Hear(t)
    PROVE  Ordered'
  <1> USE Parts
  <1>1. PICK R \in SUBSET (Thread \X Thread) : Orders(R)
    BY DEF Ordered
  <1>2. target[t] \in Echo /\ Before(R, t, target[t])
    BY <1>1 DEF Hear, Core, Stages, Orders
  <1>3. \A f \in value[target[t]] : Before(R, t, f)
    BY <1>1, <1>2 DEF Orders, Core, EchoTypeOK
  <1>4. /\ \A x \in Thread : pc'[x] = "unborn" <=> pc[x] = "unborn"
        /\ \A x \in Thread \ {t} : handles'[x] = handles[x] /\ target'[x] = target[x]
        /\ handles'[t] = handles[t] \union value[target[t]] /\ target'[t] = None /\ value' = value
    BY DEF Hear, Core, EchoTypeOK
  <1>5. \A x \in Thread, e \in Echo : e \in handles'[x] => Before(R, x, e)
    BY <1>1, <1>3, <1>4 DEF Orders
  <1> QED
    BY <1>1, <1>4, <1>5, OrderSame DEF Orders

LEMMA OrderedKept == Core /\ Ordered /\ [Next]_vars => Ordered'
  <1> SUFFICES ASSUME Core, Ordered, [Next]_vars PROVE Ordered'
    OBVIOUS
  <1> USE Parts
  <1>0. PICK R \in SUBSET (Thread \X Thread) : Orders(R)
    BY DEF Ordered
  <1> DEFINE same == /\ \A x \in Thread : pc'[x] = "unborn" <=> pc[x] = "unborn"
                     /\ UNCHANGED <<handles, target, value>>
  <1>a. ASSUME same PROVE Ordered'
    BY <1>0, <1>a, OrderSame DEF Orders
  <1>1. ASSUME NEW t \in Thread, PrintLine(t) PROVE Ordered'
    BY <1>1, <1>a DEF PrintLine, program
  <1>2. ASSUME NEW t \in Thread, NEW e \in Echo, Start(t, e) PROVE Ordered'
    BY <1>2, OrderStart
  <1>3. ASSUME NEW t \in Thread, Insert(t) PROVE Ordered'
    <2>1. target[t] \in Echo /\ Before(R, t, target[t])
      BY <1>0, <1>3 DEF Insert, Core, Stages, Orders
    <2>2. /\ \A x \in Thread : pc'[x] = "unborn" <=> pc[x] = "unborn"
          /\ \A x \in Thread \ {t} : handles'[x] = handles[x] /\ target'[x] = target[x]
          /\ handles'[t] = handles[t] \union {target[t]} /\ target'[t] = None /\ value' = value
      BY <1>3 DEF Insert, Core, EchoTypeOK
    <2>3. \A x \in Thread, e \in Echo : e \in handles'[x] => Before(R, x, e)
      BY <1>0, <2>1, <2>2 DEF Orders
    <2> QED
      BY <1>0, <2>2, <2>3, OrderSame DEF Orders
  <1>4. ASSUME NEW t \in Thread, NEW e \in Echo, Listen(t, e) PROVE Ordered'
    <2>1. /\ \A x \in Thread : pc'[x] = "unborn" <=> pc[x] = "unborn"
          /\ \A x \in Thread \ {t} : target'[x] = target[x]
          /\ target'[t] = e /\ e \in handles[t] /\ UNCHANGED <<handles, value>>
      BY <1>4 DEF Listen, Running, Core, EchoTypeOK
    <2> QED
      BY <1>0, <2>1, OrderSame DEF Orders
  <1>5. ASSUME NEW t \in Thread, Hear(t) PROVE Ordered'
    BY <1>5, OrderHear
  <1>6. ASSUME NEW t \in Thread,
              Err(t) \/ (\E e \in Echo : ListenTwice(t, e)) \/ HearFailure(t)
       PROVE Ordered'
    BY <1>6, <1>a DEF Err, Fail, ListenTwice, HearFailure, Running, Core, EchoTypeOK
  <1>7. ASSUME NEW t \in Thread, Return(t) PROVE Ordered'
    <2>1. /\ \A x \in Thread : pc'[x] = "unborn" <=> pc[x] = "unborn"
          /\ \A e \in Echo \ {t} : value'[e] = value[e]
          /\ value'[t] \subseteq handles[t] /\ UNCHANGED <<handles, target>>
      BY <1>7 DEF Return, Running, Core, EchoTypeOK
    <2>2. \A e, f \in Echo : f \in value'[e] => Before(R, e, f)
      BY <1>0, <2>1 DEF Orders
    <2> QED
      BY <1>0, <2>1, <2>2, OrderSame DEF Orders
  <1>8. ASSUME Copy PROVE Ordered'
    BY <1>8, <1>a DEF Copy, Running, Core, EchoTypeOK
  <1>9. ASSUME Lock PROVE Ordered'
    BY <1>9, <1>a DEF Lock, Core, EchoTypeOK
  <1>10. ASSUME NEW e \in Echo, Remove(e) PROVE Ordered'
    <2>1. CASE e \notin table
      BY <1>10, <1>a, <2>1 DEF Remove
    <2>2. CASE e \in table
      <3>1. /\ \A x \in Thread : pc'[x] = "unborn" <=> pc[x] = "unborn"
            /\ \A x \in Thread \ {Main} : target'[x] = target[x]
            /\ target'[Main] = e /\ UNCHANGED <<handles, value>>
        BY <1>10, <2>2 DEF Remove, Core, EchoTypeOK
      <3>2. Before(R, Main, e)
        BY <1>0, <2>2 DEF Orders, Core, Stages
      <3> QED
        BY <1>0, <3>1, <3>2, OrderSame DEF Orders
    <2> QED
      BY <2>1, <2>2
  <1>11. ASSUME Joined PROVE Ordered'
    <2>1. /\ \A x \in Thread : pc'[x] = "unborn" <=> pc[x] = "unborn"
          /\ \A x \in Thread \ {Main} : target'[x] = target[x]
          /\ target'[Main] = None /\ UNCHANGED <<handles, value>>
      BY <1>11 DEF Joined, Core, EchoTypeOK
    <2> QED
      BY <1>0, <2>1, OrderSame DEF Orders
  <1>12. ASSUME Exit PROVE Ordered'
    BY <1>12, <1>a DEF Exit, Core, EchoTypeOK
  <1>13. ASSUME UNCHANGED vars PROVE Ordered'
    BY <1>13, <1>a DEF vars
  <1> QED
    BY <1>1, <1>2, <1>3, <1>4, <1>5, <1>6, <1>7, <1>8, <1>9, <1>10, <1>11, <1>12,
       <1>13 DEF Next, End, Body, Call, Listens

-----------------------------------------------------------------------------
(* Every thread that somebody has yet to learn of is found. *)

LEMMA OwnedInit == Init => Owned
  BY Parts DEF Init, Owned, Unsettled, Alive

LEMMA OwnedKept == Core /\ Owned /\ [Next]_vars => Owned'
  <1> SUFFICES ASSUME Core, Owned, [Next]_vars PROVE Owned'
    OBVIOUS
  <1> USE Parts
  <1>1. ASSUME NEW t \in Thread, PrintLine(t) PROVE Owned'
    BY <1>1 DEF PrintLine, program, end, Owned, Unsettled, Alive, Core, Stages, EchoTypeOK
  <1>2. ASSUME NEW t \in Thread, NEW e \in Echo, Start(t, e) PROVE Owned'
    BY <1>2 DEF Start, Running, end, Owned, Unsettled, Alive, Core, Stages, EchoTypeOK
  <1>3. ASSUME NEW t \in Thread, Insert(t) PROVE Owned'
    BY <1>3 DEF Insert, Free, end, Owned, Unsettled, Alive, Core, Stages, EchoTypeOK
  <1>4. ASSUME NEW t \in Thread, NEW e \in Echo, Listen(t, e) PROVE Owned'
    BY <1>4 DEF Listen, Running, Free, end, Owned, Unsettled, Alive, Core, Stages, EchoTypeOK
  <1>5. ASSUME NEW t \in Thread, Hear(t) PROVE Owned'
    BY <1>5 DEF Hear, end, Owned, Unsettled, Alive, Core, Stages, EchoTypeOK
  <1>6. ASSUME NEW t \in Thread,
              Err(t) \/ (\E e \in Echo : ListenTwice(t, e)) \/ HearFailure(t)
       PROVE Owned'
    BY <1>6 DEF Err, Fail, ListenTwice, HearFailure, Running, Owned, Unsettled, Alive, Core,
       Stages, EchoTypeOK
  <1>7. ASSUME NEW t \in Thread, Return(t) PROVE Owned'
    BY <1>7 DEF Return, Running, end, Owned, Unsettled, Alive, Core, Stages, EchoTypeOK
  <1>8. ASSUME Copy PROVE Owned'
    BY <1>8 DEF Copy, Running, Owned, Unsettled, Alive, Core, Stages, EchoTypeOK
  <1>9. ASSUME Lock PROVE Owned'
    BY <1>9 DEF Lock, Owned, Unsettled, Alive, Core, Stages, EchoTypeOK
  <1>10. ASSUME NEW e \in Echo, Remove(e) PROVE Owned'
    BY <1>10 DEF Remove, Owned, Unsettled, Alive, Core, Stages, EchoTypeOK
  <1>11. ASSUME Joined PROVE Owned'
    BY <1>11 DEF Joined, Owned, Unsettled, Alive, Core, Stages, EchoTypeOK
  <1>12. ASSUME Exit PROVE Owned'
    BY <1>12 DEF Exit, Owned, Unsettled, Alive, Core, Stages, EchoTypeOK
  <1>13. ASSUME UNCHANGED vars PROVE Owned'
    BY <1>13 DEF vars, Owned, Unsettled, Alive, Core, Stages, EchoTypeOK
  <1> QED
    BY <1>1, <1>2, <1>3, <1>4, <1>5, <1>6, <1>7, <1>8, <1>9, <1>10, <1>11, <1>12,
       <1>13 DEF Next, End, Body, Call, Listens

\* No set of threads in which each is the target of another.
LEMMA NotAllTargets ==
    ASSUME Ordered, NEW S \in SUBSET Echo, S # {},
           \A x \in S : \E t \in S : target[t] = x
    PROVE  FALSE
  <1> USE Parts
  <1>1. PICK R \in SUBSET (Thread \X Thread) : Orders(R)
    BY DEF Ordered
  <1> DEFINE up == {p \in Thread \X Thread : Before(R, p[2], p[1])}
  <1>2. \A x, y \in Thread : Before(up, x, y) <=> Before(R, y, x)
    BY DEF Before
  <1>3. IsFiniteSet(S) /\ S \subseteq Thread
    BY FS_Subset
  <1> HIDE DEF up
  <1>4. ASSUME NEW x \in S PROVE \E t \in S : Before(up, x, t)
    <2>1. PICK t \in S : target[t] = x
      OBVIOUS
    <2>2. Before(R, t, x)
      BY <1>1, <1>3, <2>1 DEF Orders
    <2> QED
      BY <1>2, <1>3, <2>2
  <1>5. /\ \A x \in S : ~Before(up, x, x)
        /\ \A x, y, z \in S : Before(up, x, y) /\ Before(up, y, z) => Before(up, x, z)
    BY <1>1, <1>2, <1>3 DEF Orders
  <1>6. PICK m \in S : \A y \in S : ~Before(up, m, y)
    BY <1>3, <1>5, Extreme
  <1> QED
    BY <1>4, <1>6

\* At the end of the run, a thread that runs makes some entry of the table.
LEMMA AliveFound ==
    ASSUME Core, Ordered, Owned, pc[Main] \in Ending, NEW e \in Echo, Alive(e)
    PROVE  table # {} \/ target[Main] # None
  <1> USE Parts
  <1> SUFFICES ASSUME table = {}, target[Main] = None PROVE FALSE
    OBVIOUS
  <1> DEFINE S == {x \in Echo : Alive(x)}
  <1>1. \A x \in S : \E t \in S : target[t] = x
    <2> TAKE x \in S
    <2>1. PICK t \in Thread : target[t] = x
      BY DEF Owned, Unsettled, Core, Stages
    <2>2. x \in Echo /\ Alive(x) /\ target[t] # None
      BY <2>1
    <2>3. t \in Echo /\ pc[t] \in {"started", "listen", "join", "failed"} /\ pc[t] \in States
      BY <2>2 DEF Core, Stages, EchoTypeOK
    <2>4. t \in Echo /\ Alive(t)
      BY <2>1, <2>2, <2>3 DEF Core, Stages, States, Ending, Alive
    <2> QED
      BY <2>1, <2>4
  <1>2. S # {} /\ S \in SUBSET Echo
    OBVIOUS
  <1> HIDE DEF S
  <1> QED
    BY <1>1, <1>2, NotAllTargets

\* When nothing was leaked and nothing is left, no thread has failed either.
LEMMA NobodyUnsettled ==
    ASSUME Core, Ordered, Owned, pc[Main] = "clear", table = {}, leaked = {},
           NEW e \in Echo
    PROVE  ~Unsettled(e)
  <1> USE Parts
  <1> SUFFICES ASSUME Unsettled(e) PROVE FALSE
    OBVIOUS
  <1> DEFINE S == {x \in Echo : Unsettled(x)}
  <1>1. \A x \in S : \E t \in S : target[t] = x
    <2> TAKE x \in S
    <2>1. PICK t \in Thread : target[t] = x
      BY DEF Owned
    <2>2. target[t] # None
      BY <2>1
    <2>3. t \in Echo /\ pc[t] \in {"started", "listen", "join", "failed"} /\ pc[t] \in States
      BY <2>2 DEF Core, Stages, EchoTypeOK
    <2>4. t \in Echo /\ Unsettled(t)
      BY <2>3 DEF States, Ending, Unsettled, Alive
    <2> QED
      BY <2>1, <2>4
  <1>2. S # {} /\ S \in SUBSET Echo
    OBVIOUS
  <1> HIDE DEF S
  <1> QED
    BY <1>1, <1>2, NotAllTargets

-----------------------------------------------------------------------------
(* What the end of the run reports. *)

Found == Core /\ Ordered /\ Owned

LEMMA LateInit == Init => LateLinesLeak /\ NoneDetached /\ OutputKept /\ FailureNotLost
  BY Parts DEF Init, LateLinesLeak, Ending, NoneDetached, OutputKept, FailureNotLost

LEMMA FoundKept == Found /\ [Next]_vars => Found'
  BY TypesKept, StagesKept, OrderedKept, OwnedKept DEF Found, Core

LEMMA SomebodyFound ==
    Found /\ pc[Main] \in Ending /\ (\E e \in Echo : Alive(e)) => table # {} \/ target[Main] # None
  BY AliveFound DEF Found

LEMMA SomebodyFoundNext ==
    (Found /\ pc[Main] \in Ending /\ (\E e \in Echo : Alive(e)) => table # {} \/ target[Main] # None)'
  BY SomebodyFound, PTL

LEMMA LateKept ==
    ASSUME Found, pc[Main] # "over" => LateLinesLeak, [Next]_vars,
           pc'[Main] # "over"
    PROVE  LateLinesLeak'
  <1> USE Parts
  <1>0. Found'
    BY FoundKept
  <1> SUFFICES ASSUME pc'[Main] \in Ending, out' # printed' PROVE LateLinesLeak'
    BY DEF LateLinesLeak
  \* A thread that still runs is found after the step.
  <1>a. ASSUME NEW e \in Echo, Alive(e)' PROVE LateLinesLeak'
    <2>1. table' # {} \/ target'[Main] # None
      BY <1>0, <1>a, SomebodyFoundNext
    <2> QED
      BY <2>1 DEF LateLinesLeak
  <1>1. ASSUME NEW t \in Thread, PrintLine(t) PROVE LateLinesLeak'
    BY <1>1, <1>a DEF PrintLine, Running, program, end, LateLinesLeak, Ending, Found, Core,
       EchoTypeOK, Stages, Alive
  <1>2. ASSUME NEW t \in Thread, NEW e \in Echo, Start(t, e) PROVE LateLinesLeak'
    BY <1>2, <1>a DEF Start, Running, end, LateLinesLeak, Ending, Found, Core, EchoTypeOK,
       Stages, Alive
  <1>3. ASSUME NEW t \in Thread, Insert(t) PROVE LateLinesLeak'
    BY <1>3, <1>a DEF Insert, Free, end, LateLinesLeak, Ending, Found, Core, EchoTypeOK,
       Stages, Alive
  <1>4. ASSUME NEW t \in Thread, NEW e \in Echo, Listen(t, e) PROVE LateLinesLeak'
    BY <1>4, <1>a DEF Listen, Running, Free, end, LateLinesLeak, Ending, Found, Core,
       EchoTypeOK, Stages, Alive
  <1>5. ASSUME NEW t \in Thread, Hear(t) PROVE LateLinesLeak'
    BY <1>5, <1>a DEF Hear, end, LateLinesLeak, Ending, Found, Core, EchoTypeOK, Stages, Alive
  <1>6. ASSUME NEW t \in Thread,
              Err(t) \/ (\E e \in Echo : ListenTwice(t, e)) \/ HearFailure(t)
       PROVE LateLinesLeak'
    BY <1>6, <1>a DEF Err, Fail, ListenTwice, HearFailure, Running, LateLinesLeak, Ending,
       Found, Core, EchoTypeOK, Stages, Alive
  <1>7. ASSUME NEW t \in Thread, Return(t) PROVE LateLinesLeak'
    BY <1>7, <1>a DEF Return, Running, end, LateLinesLeak, Ending, Found, Core, EchoTypeOK,
       Stages, Alive
  <1>8. ASSUME Copy PROVE LateLinesLeak'
    BY <1>8, <1>a DEF Copy, Running, LateLinesLeak, Ending, Found, Core, EchoTypeOK, Stages,
       Alive
  <1>9. ASSUME Lock PROVE LateLinesLeak'
    BY <1>9, <1>a DEF Lock, LateLinesLeak, Ending, Found, Core, EchoTypeOK, Stages, Alive
  <1>10. ASSUME NEW e \in Echo, Remove(e) PROVE LateLinesLeak'
    BY <1>10, <1>a DEF Remove, LateLinesLeak, Ending, Found, Core, EchoTypeOK, Stages, Alive
  <1>11. ASSUME Joined PROVE LateLinesLeak'
    BY <1>11, <1>a DEF Joined, LateLinesLeak, Ending, Found, Core, EchoTypeOK, Stages, Alive
  <1>12. ASSUME Exit PROVE LateLinesLeak'
    BY <1>12, <1>a DEF Exit, LateLinesLeak, Ending, Found, Core, EchoTypeOK, Stages, Alive
  <1>13. ASSUME UNCHANGED vars PROVE LateLinesLeak'
    BY <1>13, <1>a DEF vars, LateLinesLeak, Ending, Found, Core, EchoTypeOK, Stages, Alive
  <1> QED
    BY <1>1, <1>2, <1>3, <1>4, <1>5, <1>6, <1>7, <1>8, <1>9, <1>10, <1>11, <1>12,
       <1>13 DEF Next, End, Body, Call, Listens

\* What holds of a run that has returned.
Reports ==
    /\ pc[Main] # "over" => LateLinesLeak
    /\ NoneDetached /\ OutputKept /\ FailureNotLost

\* The run returns: the table is empty, so nobody is left but those leaked.
LEMMA ExitReports ==
    ASSUME Found, Reports, Exit PROVE NoneDetached' /\ OutputKept' /\ FailureNotLost'
  <1> USE Parts
  <1>1. /\ pc[Main] = "clear" /\ keys = {} /\ table = {}
        /\ outcome' \in IF leaked = {} THEN {"ok", "overflow"} ELSE {"unlistened"}
        /\ pc' = [pc EXCEPT ![Main] = "over"] /\ UNCHANGED <<printed, out>>
    BY DEF Exit, Found, Core, Stages
  <1>2. target[Main] = None
    BY <1>1 DEF Found, Core, Stages
  <1>3. \A e \in Echo : pc'[e] = pc[e]
    BY <1>1 DEF Found, Core, EchoTypeOK
  <1>4. pc[Main] \in Ending /\ \A e \in Echo : ~Alive(e)
    BY <1>1, <1>2, AliveFound DEF Found, Ending
  <1>5. NoneDetached'
    BY <1>3, <1>4 DEF NoneDetached, Alive
  <1>6. CASE leaked = {}
    <2>1. \A e \in Echo : pc[e] # "failed"
      BY <1>1, <1>6, NobodyUnsettled DEF Found, Unsettled
    <2>2. out = printed
      BY <1>1, <1>2, <1>4, <1>6 DEF Reports, LateLinesLeak
    <2> QED
      BY <1>1, <1>3, <1>5, <2>1, <2>2 DEF OutputKept, FailureNotLost
  <1>7. CASE leaked # {}
    BY <1>1, <1>5, <1>7 DEF OutputKept, FailureNotLost
  <1> QED
    BY <1>6, <1>7

LEMMA ReportsKept == Found /\ Reports /\ [Next]_vars => Reports'
  <1> SUFFICES ASSUME Found, Reports, [Next]_vars PROVE Reports'
    OBVIOUS
  <1> USE Parts
  <1>1. pc'[Main] # "over" => LateLinesLeak'
    <2>1. ASSUME pc[Main] = "over" PROVE pc'[Main] = "over"
      <3>1. outcome # "running"
        BY <2>1 DEF Found, Core, Stages
      <3>2. ~End
        BY <2>1 DEF End, Copy, Running, Lock, Remove, Joined, Exit
      <3> QED
        BY <2>1, <3>1, <3>2 DEF Next, Body, vars
    <2> QED
      BY <2>1, LateKept DEF Reports
  <1>2. NoneDetached' /\ OutputKept' /\ FailureNotLost'
    <2>1. CASE Exit
      BY <2>1, ExitReports
    <2>2. CASE outcome' \in {"running", "failed"}
      BY <2>2 DEF NoneDetached, OutputKept, FailureNotLost
    <2>3. CASE UNCHANGED vars
      BY <2>3 DEF NoneDetached, OutputKept, FailureNotLost, Alive, vars, Reports
    <2>4. ASSUME NEW t \in Thread, Body(t) PROVE outcome' \in {"running", "failed"}
      BY <2>4 DEF Body, Call, Listens, PrintLine, Start, Insert, Listen, Hear, Err, Fail,
                  ListenTwice, HearFailure, Return, program, end
    <2>5. ASSUME End, ~Exit PROVE outcome' \in {"running", "failed"}
      BY <2>5 DEF End, Copy, Lock, Remove, Joined, Running, Found, Core, Stages
    <2>6. outcome' \in {"running", "failed"} \/ UNCHANGED vars \/ Exit
      BY <2>4, <2>5 DEF Next
    <2> QED
      BY <2>1, <2>2, <2>3, <2>6
  <1> QED
    BY <1>1, <1>2 DEF Reports

-----------------------------------------------------------------------------
(* The theorems. *)

LEMMA EchoInvariantHolds == Spec => [](Found /\ Reports)
  <1>1. Init => Found /\ Reports
    BY TypesInit, StagesInit, OrderedInit, OwnedInit, LateInit DEF Found, Core, Reports
  <1>2. Found /\ Reports /\ [Next]_vars => (Found /\ Reports)'
    BY FoundKept, ReportsKept
  <1> QED
    BY <1>1, <1>2, PTL DEF Spec

LEMMA OrderedNoCircle == Core /\ Ordered => NoCircularWait
  <1> SUFFICES ASSUME Core, Ordered, NEW S \in SUBSET Echo, S # {}
               PROVE  \E t \in S : ~(pc[t] = "listen" /\ target[t] \in S)
    BY DEF NoCircularWait
  <1> USE Parts
  <1>1. PICK R \in SUBSET (Thread \X Thread) : Orders(R)
    BY DEF Ordered
  <1>2. IsFiniteSet(S) /\ S \subseteq Thread
    BY FS_Subset
  <1>3. PICK m \in S : \A y \in S : ~Before(R, m, y)
    <2>1. \A x \in S : ~Before(R, x, x)
      BY <1>1, <1>2 DEF Orders
    <2>2. \A x, y, z \in S : Before(R, x, y) /\ Before(R, y, z) => Before(R, x, z)
      BY <1>1, <1>2 DEF Orders
    <2> QED
      BY <1>2, <2>1, <2>2, Extreme
  <1> QED
    BY <1>1, <1>2, <1>3 DEF Orders

\* The state of the echo threads is well-typed (runtime/v2.rs:280-448).
THEOREM EchoTypes == Spec => []EchoTypeOK
  <1>1. Found /\ Reports => EchoTypeOK
    BY DEF Found, Core
  <1> QED
    BY <1>1, EchoInvariantHolds, PTL

\* However a program passes its handles on, no threads listen to each other
\* in a circle: eval_listen never deadlocks (v2.rs:899-951).
THEOREM EchoNoCircularWait == Spec => []NoCircularWait
  <1>1. Found /\ Reports => NoCircularWait
    BY OrderedNoCircle DEF Found
  <1> QED
    BY <1>1, EchoInvariantHolds, PTL

\* No echo thread outlives a run that returned a value or reported leaked
\* threads, though a thread that is being joined may start others (v2.rs:411-435).
THEOREM EchoNoneDetached == Spec => []NoneDetached
  <1>1. Found /\ Reports => NoneDetached
    BY DEF Reports
  <1> QED
    BY <1>1, EchoInvariantHolds, PTL

\* A run that returns a value returns every line, though the copy is taken
\* before the joins (v2.rs:410).
THEOREM EchoOutputKept == Spec => []OutputKept
  <1>1. Found /\ Reports => OutputKept
    BY DEF Reports
  <1> QED
    BY <1>1, EchoInvariantHolds, PTL

\* A run that returns a value has no thread whose failure nobody heard.
THEOREM EchoFailureNotLost == Spec => []FailureNotLost
  <1>1. Found /\ Reports => FailureNotLost
    BY DEF Reports
  <1> QED
    BY <1>1, EchoInvariantHolds, PTL

=============================================================================
