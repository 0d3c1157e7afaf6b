--------------------------- MODULE ImportsProofs ---------------------------
(***************************************************************************)
(* Theorems about Imports, for every set of files, whatever they import and *)
(* define.  LoadInvariant is inductive: every import that was met is in the *)
(* queue or done, what was read and merged is what imports ask for, and a   *)
(* call through an alias is spelled as such only until its edge is resolved.*)
(***************************************************************************)
EXTENDS Imports, SequenceTheorems, TLAPS

\* A function of the merged program.
Merge == [file : File, name : FnName, copy : BOOLEAN, calls : SUBSET (Alias \X FnName)]
ImportLine ==
    [kind : {"whole", "selective", "alias"}, from : File, path : Path,
     names : Seq(FnName \union TypeName), alias : Alias \union {""}]
AliasEdge == [from : File, alias : Alias \union {""}, file : File]

Types ==
    /\ imports \in [File -> ImportsOfFile] /\ content \in [File -> ContentOfFile]
    /\ queue \in Seq(ImportLine) /\ parsed \in Seq(File) /\ edges \in Seq(AliasEdge)
    /\ fns \subseteq Merge
    /\ \A i \in DOMAIN edges : edges[i].file \in expanded
    /\ ImportsTypeOK

\* The import that loads the entry file, and those of the files that were opened.
Started == Line("whole", Entry, Entry, <<>>, "")
Met == {Started} \union LinesOf(expanded)

\* What an import asks for is done.
Done(l) ==
    /\ l.path \in expanded
    /\ l.kind = "whole" => l.path \in whole
    /\ l.kind = "selective" =>
          \A n \in Range(l.names) : Known(l.path, n) /\ (n \in NamesOf(l.path) => HasFlat(l.path, n))
    /\ l.kind = "alias" => [from |-> l.from, alias |-> l.alias, file |-> l.path] \in Range(edges)

\* An import that was met is in the queue or done, and nothing else is queued.
Followed ==
    /\ Range(queue) \subseteq Met
    /\ \A l \in Met : l.path # Unsafe /\ (l \in Range(queue) \/ Done(l))

\* What was read and merged is what the import lines ask for.
Justified ==
    /\ expanded \subseteq Reached
    /\ whole \subseteq WholeFiles
    /\ \A f \in whole : \A n \in NamesOf(f) : HasFlat(f, n)
    /\ \A d \in Flat : <<d.file, d.name>> \in Wanted
    /\ \A d, e \in Flat : d.name = e.name => d.file = e.file

\* A call through an alias is spelled as such until its edge is resolved.
Spelled ==
    \A d \in Flat :
        /\ d.calls \subseteq AliasCalls(d.file)
        /\ \A c \in d.calls : \A i \in 1..turn : ~(edges[i].from = d.file /\ edges[i].alias = c[1])

Phases ==
    /\ verdict = "walking" => turn = 0
    /\ Merging => queue = <<>>
    /\ verdict \in Codes /\ queue # <<>> => Conflict
    /\ verdict = "loaded" => turn = Len(edges)

LoadInvariant == Types /\ Followed /\ Justified /\ Spelled /\ Phases

-----------------------------------------------------------------------------
(* Sequences. *)

LEMMA RangeOfTail ==
  ASSUME NEW S, NEW q \in Seq(S), q # <<>>
  PROVE  /\ Head(q) \in S /\ Tail(q) \in Seq(S)
         /\ Range(q) = {Head(q)} \union Range(Tail(q))
  <1>1. /\ Len(q) \in Nat /\ Len(q) > 0 /\ DOMAIN q = 1..Len(q) /\ Head(q) = q[1] /\ q[1] \in S
        /\ Tail(q) \in Seq(S) /\ DOMAIN Tail(q) = 1..(Len(q) - 1)
        /\ \A i \in 1..(Len(q) - 1) : Tail(q)[i] = q[i + 1]
    OBVIOUS
  <1>2. ASSUME NEW i \in DOMAIN q
        PROVE  q[i] \in {Head(q)} \union Range(Tail(q))
    <2>1. CASE i = 1
      BY <1>1, <2>1
    <2>2. CASE i # 1
      <3>1. i - 1 \in DOMAIN Tail(q) /\ Tail(q)[i - 1] = q[i]
        BY <1>1, <2>2
      <3> QED BY <3>1 DEF Range
    <2> QED BY <2>1, <2>2
  <1>3. ASSUME NEW j \in DOMAIN Tail(q)
        PROVE  Tail(q)[j] \in Range(q)
    <2>1. j + 1 \in DOMAIN q /\ Tail(q)[j] = q[j + 1]
      BY <1>1
    <2> QED BY <2>1 DEF Range
  <1>4. Range(q) \subseteq {Head(q)} \union Range(Tail(q))
    BY <1>2 DEF Range
  <1>5. Head(q) \in Range(q)
    <2>1. 1 \in DOMAIN q /\ Head(q) = q[1]
      BY <1>1
    <2> QED BY <2>1 DEF Range
  <1>6. Range(Tail(q)) \subseteq Range(q)
    BY <1>3 DEF Range
  <1> QED BY <1>1, <1>4, <1>5, <1>6

LEMMA RangeOfConcat ==
  ASSUME NEW S, NEW p \in Seq(S), NEW q \in Seq(S)
  PROVE  p \o q \in Seq(S) /\ Range(p \o q) = Range(p) \union Range(q)
  <1> DEFINE pq == p \o q
  <1>1. /\ pq \in Seq(S)
        /\ DOMAIN p = 1..Len(p) /\ DOMAIN q = 1..Len(q) /\ Len(p) \in Nat /\ Len(q) \in Nat
        /\ DOMAIN pq = 1..(Len(p) + Len(q))
        /\ \A i \in 1..(Len(p) + Len(q)) : pq[i] = IF i <= Len(p) THEN p[i] ELSE q[i - Len(p)]
    OBVIOUS
  <1> HIDE DEF pq
  <1>2. ASSUME NEW i \in DOMAIN p
        PROVE  p[i] \in Range(pq)
    <2>1. i \in DOMAIN pq /\ pq[i] = p[i]
      BY <1>1
    <2> QED BY <2>1 DEF Range
  <1>3. ASSUME NEW j \in DOMAIN q
        PROVE  q[j] \in Range(pq)
    <2>1. j + Len(p) \in DOMAIN pq /\ ~(j + Len(p) <= Len(p)) /\ (j + Len(p)) - Len(p) = j
      BY <1>1
    <2>2. pq[j + Len(p)] = q[j]
      BY <1>1, <2>1
    <2> QED BY <2>1, <2>2 DEF Range
  <1>4. ASSUME NEW k \in DOMAIN pq
        PROVE  pq[k] \in Range(p) \union Range(q)
    <2>1. CASE k <= Len(p)
      <3>1. k \in DOMAIN p /\ pq[k] = p[k]
        BY <1>1, <2>1
      <3> QED BY <3>1 DEF Range
    <2>2. CASE ~(k <= Len(p))
      <3>1. k - Len(p) \in DOMAIN q /\ pq[k] = q[k - Len(p)]
        BY <1>1, <2>2
      <3> QED BY <3>1 DEF Range
    <2> QED BY <2>1, <2>2
  <1>5. Range(pq) = Range(p) \union Range(q)
    BY <1>2, <1>3, <1>4 DEF Range
  <1> QED BY <1>1, <1>5 DEF pq

LEMMA RangeOfAppend ==
  ASSUME NEW S, NEW q \in Seq(S), NEW e \in S
  PROVE  /\ Append(q, e) \in Seq(S) /\ Range(Append(q, e)) = Range(q) \union {e}
         /\ Len(Append(q, e)) = Len(q) + 1 /\ Append(q, e)[Len(q) + 1] = e
         /\ \A i \in 1..Len(q) : Append(q, e)[i] = q[i]
         /\ IsInjective(q) /\ e \notin Range(q) => IsInjective(Append(q, e))
  <1> DEFINE a == Append(q, e)
  <1>1. /\ a \in Seq(S) /\ DOMAIN q = 1..Len(q) /\ Len(q) \in Nat /\ Len(a) = Len(q) + 1
        /\ DOMAIN a = 1..(Len(q) + 1) /\ a[Len(q) + 1] = e
        /\ \A i \in 1..Len(q) : a[i] = q[i]
    OBVIOUS
  <1> HIDE DEF a
  <1>2. \A i \in DOMAIN a : (i \in DOMAIN q /\ a[i] = q[i]) \/ (i = Len(q) + 1 /\ a[i] = e)
    BY <1>1
  <1>3. \A i \in DOMAIN q : i \in DOMAIN a /\ a[i] = q[i]
    BY <1>1
  <1>4. Len(q) + 1 \in DOMAIN a
    BY <1>1
  <1>5. Range(a) = Range(q) \union {e}
    BY <1>1, <1>2, <1>3, <1>4 DEF Range
  <1>6. ASSUME IsInjective(q), e \notin Range(q)
        PROVE  IsInjective(a)
    BY <1>2, <1>6 DEF IsInjective, Range
  <1> QED BY <1>1, <1>5, <1>6 DEF a

LEMMA ElementsOfSeq ==
  ASSUME NEW S, NEW q \in Seq(S)
  PROVE  \A i \in DOMAIN q : q[i] \in S
  OBVIOUS

\* A sequence of what a sequence is mapped to.
LEMMA MapOfSeq ==
  ASSUME NEW S, NEW T, NEW q \in Seq(S), NEW m \in [DOMAIN q -> T]
  PROVE  m \in Seq(T) /\ \A i \in DOMAIN q : m[i] \in Range(m)
  <1>1. Len(q) \in Nat /\ DOMAIN q = 1..Len(q)
    OBVIOUS
  <1>2. m \in Seq(T)
    BY <1>1, SeqDef
  <1> QED BY <1>2 DEF Range

-----------------------------------------------------------------------------
(* Import lines. *)

LEMMA LinesOfFile ==
  ASSUME NEW f \in File, imports[f] \in ImportsOfFile
  PROVE  /\ Lines(f) \in Seq(ImportLine)
         /\ \A l \in Range(Lines(f)) : l.from = f
         /\ \A i \in DOMAIN imports[f].aliased :
               Line("alias", f, imports[f].aliased[i].path, <<>>, imports[f].aliased[i].alias) \in Range(Lines(f))
  <1> DEFINE all == imports[f]
             Mine == {l \in ImportLine : l.from = f}
             wholes == [i \in DOMAIN all.whole |-> Line("whole", f, all.whole[i], <<>>, "")]
             names == [i \in DOMAIN all.selective |->
                         Line("selective", f, all.selective[i].path, all.selective[i].names, "")]
             others == [i \in DOMAIN all.aliased |->
                         Line("alias", f, all.aliased[i].path, <<>>, all.aliased[i].alias)]
  <1>1. /\ all.whole \in Seq(Path)
        /\ all.selective \in Seq([path : Path, names : Seq(FnName \union TypeName)])
        /\ all.aliased \in Seq([path : Path, alias : Alias])
    BY DEF ImportsOfFile
  <1>2. ASSUME NEW k \in {"whole", "selective", "alias"}, NEW p \in Path,
               NEW n \in Seq(FnName \union TypeName), NEW a \in Alias \union {""}
        PROVE  Line(k, f, p, n, a) \in Mine
    BY DEF Line, ImportLine
  <1>3. <<>> \in Seq(FnName \union TypeName)
    OBVIOUS
  <1>4. \A i \in DOMAIN all.whole : all.whole[i] \in Path
    BY <1>1
  <1>5. \A i \in DOMAIN all.selective :
           all.selective[i].path \in Path /\ all.selective[i].names \in Seq(FnName \union TypeName)
    <2>1. \A i \in DOMAIN all.selective : all.selective[i] \in [path : Path, names : Seq(FnName \union TypeName)]
      BY <1>1, ElementsOfSeq
    <2> QED BY <2>1
  <1>6. \A i \in DOMAIN all.aliased : all.aliased[i].path \in Path /\ all.aliased[i].alias \in Alias
    <2>1. \A i \in DOMAIN all.aliased : all.aliased[i] \in [path : Path, alias : Alias]
      BY <1>1, ElementsOfSeq
    <2> QED BY <2>1
  <1>7. wholes \in Seq(Mine)
    <2>1. wholes \in [DOMAIN all.whole -> Mine]
      BY <1>2, <1>3, <1>4
    <2> HIDE DEF wholes, Mine
    <2> QED BY <1>1, <2>1, MapOfSeq
  <1>8. names \in Seq(Mine)
    <2>1. names \in [DOMAIN all.selective -> Mine]
      BY <1>2, <1>5
    <2> HIDE DEF names, Mine
    <2> QED BY <1>1, <2>1, MapOfSeq
  <1>9. others \in Seq(Mine) /\ \A i \in DOMAIN all.aliased : others[i] \in Range(others)
    <2>1. others \in [DOMAIN all.aliased -> Mine]
      BY <1>2, <1>3, <1>6
    <2> HIDE DEF others, Mine
    <2> QED BY <1>1, <2>1, MapOfSeq
  <1>10. Lines(f) = (wholes \o names) \o others
    BY DEF Lines
  <1>11. \A i \in DOMAIN all.aliased : others[i] = Line("alias", f, all.aliased[i].path, <<>>, all.aliased[i].alias)
    OBVIOUS
  <1> HIDE DEF wholes, names, others, Mine
  <1>12. Lines(f) \in Seq(Mine) /\ Range(others) \subseteq Range(Lines(f))
    <2> DEFINE both == wholes \o names
    <2>1. both \in Seq(Mine)
      BY <1>7, <1>8, RangeOfConcat
    <2>2. Lines(f) = both \o others
      BY <1>10
    <2> HIDE DEF both
    <2>3. both \o others \in Seq(Mine) /\ Range(both \o others) = Range(both) \union Range(others)
      BY <1>9, <2>1, RangeOfConcat
    <2> QED BY <2>2, <2>3
  <1>13. Lines(f) \in Seq(ImportLine) /\ \A l \in Range(Lines(f)) : l.from = f
    <2>1. \A i \in DOMAIN Lines(f) : Lines(f)[i] \in Mine
      BY <1>12, ElementsOfSeq
    <2>2. Mine \subseteq ImportLine
      BY DEF Mine
    <2>3. Lines(f) \in Seq(ImportLine)
      BY <1>12, <2>2
    <2> QED BY <2>1, <2>3 DEF Mine, Range
  <1> QED BY <1>9, <1>11, <1>12, <1>13

\* What a reached file imports is reached.
LEMMA ReachedGrows ==
  /\ Entry \in Reached
  /\ \A f \in Reached : \A l \in Range(Lines(f)) : l.path \in File => l.path \in Reached
  BY ImportsAssumption DEF Reached, Closed, LinesOf

\* What the files say does not change, nor what it means.
LEMMA DiskStays ==
  ASSUME UNCHANGED disk
  PROVE  /\ UNCHANGED <<imports, content, Reached, WholeFiles, Wanted, Conflict>>
         /\ \A f : NamesOf(f)' = NamesOf(f) /\ Lines(f)' = Lines(f) /\ AliasCalls(f)' = AliasCalls(f)
         /\ \A f, n : Known(f, n)' = Known(f, n)
  <1>1. UNCHANGED <<imports, content>>
    BY DEF disk
  <1>2. /\ \A f : NamesOf(f)' = NamesOf(f) /\ Lines(f)' = Lines(f) /\ AliasCalls(f)' = AliasCalls(f)
        /\ \A f, n : Known(f, n)' = Known(f, n)
    BY <1>1 DEF NamesOf, Lines, AliasCalls, Known
  <1>3. UNCHANGED Reached
    BY <1>1 DEF Reached, Closed, LinesOf, Lines
  <1>4. UNCHANGED <<WholeFiles, Selections>>
    BY <1>1, <1>3 DEF WholeFiles, Selections, LinesOf, Lines
  <1>5. UNCHANGED Wanted
    BY <1>1, <1>4 DEF Wanted, NamesOf
  <1>6. UNCHANGED Conflict
    BY <1>1, <1>3, <1>4, <1>5 DEF Conflict, LinesOf, Lines, Known, NamesOf
  <1> QED BY <1>1, <1>2, <1>3, <1>4, <1>5, <1>6

-----------------------------------------------------------------------------
(* The walk. *)

\* What is done stays so when the program grows.
LEMMA DoneStays ==
  ASSUME UNCHANGED disk, expanded \subseteq expanded', whole \subseteq whole',
         \A f, n : HasFlat(f, n) => HasFlat(f, n)', Range(edges) \subseteq Range(edges'), NEW l, Done(l)
  PROVE  Done(l)'
  BY DiskStays DEF Done

LEMMA StartedLine == Started.path = Entry /\ Started.kind = "whole"
  BY DEF Started, Line

\* The import at hand.
LEMMA WorkAtHand ==
  ASSUME LoadInvariant, Following
  PROVE  /\ Work \in ImportLine /\ Work \in Met /\ Work.path # Unsafe
         /\ Tail(queue) \in Seq(ImportLine) /\ Range(queue) = {Work} \union Range(Tail(queue))
         /\ Work.path \in File => Work.path \in Reached
         /\ Work \in LinesOf(Reached) \/ Work = Started
  <1>1. queue \in Seq(ImportLine) /\ queue # <<>>
    BY DEF LoadInvariant, Types, Following
  <1>2. /\ Work \in ImportLine /\ Tail(queue) \in Seq(ImportLine)
        /\ Range(queue) = {Work} \union Range(Tail(queue))
    BY <1>1, RangeOfTail DEF Work
  <1>3. Work \in Met /\ Work.path # Unsafe
    BY <1>2 DEF LoadInvariant, Followed
  <1>4. Work \in LinesOf(Reached) \/ Work = Started
    BY <1>3 DEF Met, LinesOf, LoadInvariant, Justified
  <1>5. ASSUME NEW l, l \in LinesOf(Reached) \/ l = Started, l.path \in File
        PROVE  l.path \in Reached
    <2>1. CASE l = Started
      BY <2>1, ReachedGrows, StartedLine
    <2>2. CASE l \in LinesOf(Reached)
      BY <1>5, <2>2, ReachedGrows DEF LinesOf
    <2> QED BY <1>5, <2>1, <2>2
  <1> QED BY <1>2, <1>3, <1>4, <1>5

\* A file that is opened: its imports are met, and follow.
LEMMA OpenFollows ==
  ASSUME LoadInvariant, Following, Work.path \in File, Safe(Work.path), Open(Work.path),
         whole \subseteq whole', \A f, n : HasFlat(f, n) => HasFlat(f, n)',
         Range(edges) \subseteq Range(edges'), NEW w, w = Work, Done(w)'
  PROVE  /\ Followed' /\ expanded' \subseteq Reached /\ expanded \subseteq expanded'
         /\ queue' \in Seq(ImportLine) /\ parsed' \in Seq(File)
         /\ expanded' = Range(parsed') /\ IsInjective(parsed')
  <1> DEFINE f == Work.path
  <1>1. /\ parsed' = (IF f \in Range(parsed) THEN parsed ELSE Append(parsed, f))
        /\ expanded' = expanded \union {f} /\ UNCHANGED disk
        /\ queue' = Tail(queue) \o (IF f \in expanded THEN <<>> ELSE Lines(f))
    BY DEF Open
  <1>2. /\ Work \in Met /\ Tail(queue) \in Seq(ImportLine) /\ Range(queue) = {Work} \union Range(Tail(queue))
        /\ f \in Reached
    BY WorkAtHand
  <1>3. Lines(f) \in Seq(ImportLine)
    BY LinesOfFile DEF LoadInvariant, Types
  <1>4. queue' \in Seq(ImportLine)
        /\ Range(queue') = Range(Tail(queue)) \union (IF f \in expanded THEN {} ELSE Range(Lines(f)))
    <2> DEFINE more == IF f \in expanded THEN <<>> ELSE Lines(f)
               rest == Tail(queue)
    <2>1. more \in Seq(ImportLine) /\ Range(more) = (IF f \in expanded THEN {} ELSE Range(Lines(f)))
      BY <1>3 DEF Range
    <2>2. rest \in Seq(ImportLine) /\ queue' = rest \o more
      BY <1>1, <1>2
    <2> HIDE DEF more, rest
    <2>3. rest \o more \in Seq(ImportLine) /\ Range(rest \o more) = Range(rest) \union Range(more)
      BY <2>1, <2>2, RangeOfConcat
    <2>4. queue' \in Seq(ImportLine) /\ Range(queue') = Range(rest) \union Range(more)
      BY <2>2, <2>3
    <2> QED BY <2>1, <2>4 DEF rest
  <1>5. Met' = Met \union (IF f \in expanded THEN {} ELSE Range(Lines(f)))
    <2>1. LinesOf(expanded)' = UNION {Range(Lines(g)) : g \in expanded'}
      BY <1>1, DiskStays DEF LinesOf
    <2> QED BY <1>1, <2>1 DEF Met, LinesOf, Started
  <1>6. f \notin expanded => \A l \in Range(Lines(f)) : l.path # Unsafe
    BY DEF Safe, Range
  <1>7. Followed'
    <2>1. Range(queue') \subseteq Met'
      BY <1>2, <1>4, <1>5 DEF LoadInvariant, Followed
    <2>2. \A l \in Met' : l.path # Unsafe
      BY <1>5, <1>6 DEF LoadInvariant, Followed
    <2>3. ASSUME NEW l \in Met'
          PROVE  l \in Range(queue') \/ Done(l)'
      <3>1. CASE l = Work
        BY <3>1
      <3>2. CASE l \in Met /\ l # Work
        <4>1. l \in Range(Tail(queue)) \/ Done(l)
          BY <1>2, <3>2 DEF LoadInvariant, Followed
        <4>2. CASE l \in Range(Tail(queue))
          BY <1>4, <4>2
        <4>3. CASE Done(l)
          <5>1. expanded \subseteq expanded' /\ UNCHANGED disk
            BY <1>1
          <5> QED BY <4>3, <5>1, DoneStays
        <4> QED BY <4>1, <4>2, <4>3
      <3>3. CASE f \notin expanded /\ l \in Range(Lines(f))
        BY <1>4, <3>3
      <3> QED BY <1>5, <3>1, <3>2, <3>3
    <2> QED BY <2>1, <2>2, <2>3 DEF Followed
  <1>8. parsed' \in Seq(File) /\ expanded' = Range(parsed') /\ IsInjective(parsed')
    <2>1. parsed \in Seq(File) /\ expanded = Range(parsed) /\ IsInjective(parsed) /\ f \in File
      BY DEF LoadInvariant, Types, ImportsTypeOK
    <2> QED BY <1>1, <2>1, RangeOfAppend
  <1> QED BY <1>1, <1>2, <1>4, <1>7, <1>8 DEF LoadInvariant, Justified

\* An import of a file that cannot be merged: the files are in conflict.
LEMMA FailsWithCause ==
  ASSUME LoadInvariant, NEW code \in Codes, Fails(code), verdict \in {"walking", "resolving"},
         queue # <<>> => Conflict
  PROVE  LoadInvariant'
  <1>1. /\ verdict' = code /\ UNCHANGED disk
        /\ UNCHANGED <<imports, content, queue, parsed, whole, expanded, fns, types, named, edges, turn>>
    BY DEF Fails, disk, walk, merged, aliases
  <1>2. code \notin {"walking", "resolving", "loaded"} /\ code \in Verdicts
    BY DEF Codes, Verdicts
  <1>3. Types'
    <2>1. ImportsTypeOK'
      BY <1>1, <1>2 DEF LoadInvariant, Types, ImportsTypeOK, NamesOf
    <2> QED BY <1>1, <2>1 DEF LoadInvariant, Types
  <1>4. Followed'
    <2>1. Met' = Met
      BY <1>1 DEF Met, LinesOf, Lines, Started
    <2>2. ASSUME NEW l, Done(l)
          PROVE  Done(l)'
      BY <1>1, <2>2 DEF Done, Known, NamesOf, HasFlat, Flat
    <2> QED BY <1>1, <2>1, <2>2 DEF LoadInvariant, Followed
  <1>5. Justified'
    BY <1>1, DiskStays DEF LoadInvariant, Justified, HasFlat, Flat
  <1>6. Spelled'
    BY <1>1, DiskStays DEF LoadInvariant, Spelled, Flat
  <1>7. Phases'
    BY <1>1, <1>2, DiskStays DEF Phases, Merging
  <1> QED BY <1>3, <1>4, <1>5, <1>6, <1>7 DEF LoadInvariant

LEMMA UnreadableHolds ==
  ASSUME LoadInvariant, Unreadable
  PROVE  LoadInvariant'
  <1>1. Following /\ Work.path \in File => Work.path \in Reached
    BY WorkAtHand DEF Unreadable
  <1>2. CASE Work.path = Missing /\ Fails("E-IO-NOT-FOUND")
    <2>1. Work \in LinesOf(Reached) /\ Work.path \notin File
      BY <1>2, WorkAtHand, ImportsAssumption, StartedLine DEF Unreadable
    <2>2. Conflict
      BY <2>1 DEF Conflict
    <2> QED BY <1>2, <2>2, FailsWithCause DEF Codes, Unreadable, Following
  <1>3. CASE Work.path \in File /\ ~Safe(Work.path) /\ Fails("E-IMPORT")
    <2>1. Work.path \in Reached
      BY <1>3, WorkAtHand DEF Unreadable
    <2>2. \E l \in Range(Lines(Work.path)) : l.path = Unsafe
      BY <1>3 DEF Safe, Range
    <2>3. Conflict
      BY <2>1, <2>2, ImportsAssumption DEF Conflict, LinesOf
    <2> QED BY <1>3, <2>3, FailsWithCause DEF Codes, Unreadable, Following
  <1> QED BY <1>2, <1>3 DEF Unreadable

LEMMA SkipWholeHolds ==
  ASSUME LoadInvariant, SkipWhole
  PROVE  LoadInvariant'
  <1>1. /\ Following /\ Work.kind = "whole" /\ Work.path \in whole /\ queue' = Tail(queue)
        /\ UNCHANGED <<imports, content, parsed, whole, expanded, fns, types, named, edges, turn, verdict>>
    BY DEF SkipWhole, disk, merged, aliases
  <1>2. Tail(queue) \in Seq(ImportLine) /\ Range(queue) = {Work} \union Range(Tail(queue))
    BY <1>1, WorkAtHand
  <1>3. Types'
    <2>1. ImportsTypeOK'
      BY <1>1 DEF LoadInvariant, Types, ImportsTypeOK, NamesOf
    <2> QED BY <1>1, <1>2, <2>1 DEF LoadInvariant, Types
  <1>4. Followed'
    <2>1. Met' = Met
      BY <1>1 DEF Met, LinesOf, Lines, Started
    <2>2. ASSUME NEW l, Done(l)
          PROVE  Done(l)'
      BY <1>1, <2>2 DEF Done, Known, NamesOf, HasFlat, Flat
    <2>3. Done(Work)
      BY <1>1 DEF Done, LoadInvariant, Types, ImportsTypeOK
    <2>4. ASSUME NEW l \in Met, l \notin Range(queue')
          PROVE  Done(l)'
      BY <1>1, <1>2, <2>2, <2>3, <2>4 DEF LoadInvariant, Followed
    <2> QED BY <1>1, <1>2, <2>1, <2>4 DEF LoadInvariant, Followed
  <1>5. Justified' /\ Spelled'
    <2>1. UNCHANGED disk
      BY <1>1 DEF disk
    <2> QED BY <1>1, <2>1, DiskStays DEF LoadInvariant, Justified, HasFlat, Flat, Spelled
  <1>6. Phases'
    BY <1>1 DEF LoadInvariant, Phases, Merging, Following, Codes
  <1> QED BY <1>3, <1>4, <1>5, <1>6 DEF LoadInvariant

-----------------------------------------------------------------------------
(* Merging. *)

LEMMA CountIsTyped ==
  ASSUME NEW t \in [File -> [TypeName -> Nat]], NEW f \in File, NEW names
  PROVE  Count(t, f, names) \in [File -> [TypeName -> Nat]]
  <1>1. [n \in TypeName |-> IF n \in names THEN t[f][n] + 1 ELSE t[f][n]] \in [TypeName -> Nat]
    OBVIOUS
  <1>2. Count(t, f, names) = [t EXCEPT ![f] = [n \in TypeName |-> IF n \in names THEN t[f][n] + 1 ELSE t[f][n]]]
    BY DEF Count
  <1> QED BY <1>1, <1>2

\* The functions of a file, as the program gets them.
LEMMA FunctionIsTyped ==
  ASSUME LoadInvariant, NEW f \in File, NEW n \in NamesOf(f), NEW copy \in BOOLEAN
  PROVE  /\ Function(f, n, copy) \in Merge
         /\ Function(f, n, copy).file = f /\ Function(f, n, copy).name = n
         /\ Function(f, n, copy).copy = copy /\ Function(f, n, copy).calls = AliasCalls(f)
  <1>1. content[f] \in ContentOfFile
    BY DEF LoadInvariant, Types
  <1>2. n \in FnName
    <2>1. content[f].fns \in Seq(FnName)
      BY <1>1 DEF ContentOfFile
    <2> QED BY <2>1, ElementsOfSeq DEF NamesOf, Range
  <1>3. AliasCalls(f) \subseteq Alias \X FnName
    BY <1>1 DEF AliasCalls, ContentOfFile
  <1> QED BY <1>2, <1>3 DEF Function, Merge

\* Why a function is asked for.
LEMMA WantedPairs ==
  /\ \A f \in WholeFiles \intersect File : \A n \in NamesOf(f) : <<f, n>> \in Wanted
  /\ \A l \in Selections : \A n \in Range(l.names) : n \in NamesOf(l.path) => <<l.path, n>> \in Wanted
  /\ \A d \in Wanted :
        \/ \E f \in WholeFiles \intersect File : \E n \in NamesOf(f) : d = <<f, n>>
        \/ \E l \in Selections : \E n \in Range(l.names) : n \in NamesOf(l.path) /\ d = <<l.path, n>>
  <1> DEFINE all == UNION {{f} \X NamesOf(f) : f \in WholeFiles \intersect File}
             some == UNION {{l.path} \X (Range(l.names) \intersect NamesOf(l.path)) : l \in Selections}
  <1>1. Wanted = all \union some
    BY DEF Wanted
  <1>2. ASSUME NEW f \in WholeFiles \intersect File, NEW n \in NamesOf(f)
        PROVE  <<f, n>> \in all
    <2>1. <<f, n>> \in {f} \X NamesOf(f)
      OBVIOUS
    <2> QED BY <2>1
  <1>3. ASSUME NEW l \in Selections, NEW n \in Range(l.names), n \in NamesOf(l.path)
        PROVE  <<l.path, n>> \in some
    <2>1. <<l.path, n>> \in {l.path} \X (Range(l.names) \intersect NamesOf(l.path))
      BY <1>3
    <2> QED BY <2>1
  <1>4. ASSUME NEW d \in all
        PROVE  \E f \in WholeFiles \intersect File : \E n \in NamesOf(f) : d = <<f, n>>
    <2>1. PICK f \in WholeFiles \intersect File : d \in {f} \X NamesOf(f)
      OBVIOUS
    <2> QED BY <2>1
  <1>5. ASSUME NEW d \in some
        PROVE  \E l \in Selections : \E n \in Range(l.names) : n \in NamesOf(l.path) /\ d = <<l.path, n>>
    <2>1. PICK l \in Selections : d \in {l.path} \X (Range(l.names) \intersect NamesOf(l.path))
      OBVIOUS
    <2> QED BY <2>1
  <1> HIDE DEF all, some
  <1> QED BY <1>1, <1>2, <1>3, <1>4, <1>5

\* Functions that no other file has, and that are asked for, are merged.
LEMMA InsertMerges ==
  ASSUME LoadInvariant, UNCHANGED disk, NEW f \in File, NEW names, names \subseteq NamesOf(f),
         fns' = Insert(f, names), \A n \in names : ~Taken(f, n) /\ <<f, n>> \in Wanted
  PROVE  /\ fns' \subseteq Merge
         /\ \A d \in fns' : d \in fns \/ (d.file = f /\ d.name \in NamesOf(f))
         /\ \A g, n : HasFlat(g, n) => HasFlat(g, n)'
         /\ \A n \in names : HasFlat(f, n)'
         /\ \A d \in Flat' : <<d.file, d.name>> \in Wanted /\ (d \in Flat \/ (d.calls \subseteq AliasCalls(f) /\ d.file = f))
         /\ \A d, e \in Flat' : d.name = e.name => d.file = e.file
  <1> DEFINE new == {Function(f, n, FALSE) : n \in {n \in names : ~HasFlat(f, n)}}
  <1>1. fns' = fns \union new
    BY DEF Insert
  <1>2. \A d \in new : /\ d \in Merge /\ d.file = f /\ d.name \in names /\ ~d.copy /\ d.calls = AliasCalls(f)
    <2> SUFFICES ASSUME NEW n \in names, ~HasFlat(f, n), NEW d, d = Function(f, n, FALSE)
                 PROVE  d \in Merge /\ d.file = f /\ d.name \in names /\ ~d.copy /\ d.calls = AliasCalls(f)
      OBVIOUS
    <2> QED BY FunctionIsTyped
  <1>3. \A n \in names : HasFlat(f, n) \/ \E d \in new : d.file = f /\ d.name = n /\ ~d.copy
    BY FunctionIsTyped
  <1> HIDE DEF new
  <1>4. Flat' = Flat \union new
    BY <1>1, <1>2 DEF Flat
  <1>5. \A g, n : HasFlat(g, n) => HasFlat(g, n)'
    BY <1>4 DEF HasFlat
  <1>6. \A n \in names : HasFlat(f, n)'
    BY <1>3, <1>4 DEF HasFlat
  <1>7. fns \subseteq Merge /\ \A d \in Flat : <<d.file, d.name>> \in Wanted
    BY DEF LoadInvariant, Types, Justified
  <1>8. \A d \in Flat' : <<d.file, d.name>> \in Wanted /\ (d \in Flat \/ (d.calls \subseteq AliasCalls(f) /\ d.file = f))
    BY <1>2, <1>4, <1>7
  <1>9. \A d, e \in Flat' : d.name = e.name => d.file = e.file
    BY <1>2, <1>4 DEF LoadInvariant, Justified, Taken
  <1> QED BY <1>1, <1>2, <1>5, <1>6, <1>7, <1>8, <1>9

\* Two files that both have to give the program a function of one name.
LEMMA TakenMeansConflict ==
  ASSUME LoadInvariant, NEW f, NEW n, Taken(f, n), <<f, n>> \in Wanted
  PROVE  Conflict
  <1>1. PICK d \in Flat : d.name = n /\ d.file # f
    BY DEF Taken
  <1>2. <<d.file, n>> \in Wanted
    BY <1>1 DEF LoadInvariant, Justified
  <1> QED BY <1>1, <1>2 DEF Conflict

\* A file that is opened, with what is merged of it.
LEMMA MergeHolds ==
  ASSUME LoadInvariant, Following, NEW w, w = Work, NEW f \in File, f = w.path, Safe(f), Open(f),
         NEW names, names \subseteq NamesOf(f), fns' = Insert(f, names),
         \A n \in names : ~Taken(f, n) /\ <<f, n>> \in Wanted,
         whole' = whole \/ (whole' = whole \union {f} /\ f \in WholeFiles /\ names = NamesOf(f)),
         types' \in [File -> [TypeName -> Nat]], named' \subseteq File \X TypeName,
         UNCHANGED <<edges, turn, verdict>>,
         (\A n \in names : HasFlat(f, n)') /\ f \in expanded' => Done(w)'
  PROVE  LoadInvariant'
  <1>1. UNCHANGED disk /\ expanded' = expanded \union {f}
    BY DEF Open
  <1>2. /\ fns' \subseteq Merge
        /\ \A d \in fns' : d \in fns \/ (d.file = f /\ d.name \in NamesOf(f))
        /\ \A g, n : HasFlat(g, n) => HasFlat(g, n)'
        /\ \A n \in names : HasFlat(f, n)'
        /\ \A d \in Flat' : <<d.file, d.name>> \in Wanted /\ (d \in Flat \/ (d.calls \subseteq AliasCalls(f) /\ d.file = f))
        /\ \A d, e \in Flat' : d.name = e.name => d.file = e.file
    BY <1>1, InsertMerges
  <1>3. /\ Followed' /\ expanded' \subseteq Reached
        /\ queue' \in Seq(ImportLine) /\ parsed' \in Seq(File)
        /\ expanded' = Range(parsed') /\ IsInjective(parsed')
    <2>1. Done(w)'
      BY <1>1, <1>2
    <2>2. whole \subseteq whole' /\ Range(edges) \subseteq Range(edges')
      OBVIOUS
    <2> QED BY <1>2, <2>1, <2>2, OpenFollows
  <1>4. /\ UNCHANGED <<imports, content, Reached, WholeFiles, Wanted, Conflict>>
        /\ \A g : NamesOf(g)' = NamesOf(g) /\ AliasCalls(g)' = AliasCalls(g)
    BY <1>1, DiskStays
  <1>5. Types'
    <2>1. whole' \subseteq expanded'
      BY <1>1 DEF LoadInvariant, Types, ImportsTypeOK
    <2>2. \A d \in fns' : d.file \in expanded' /\ d.name \in NamesOf(d.file)'
      BY <1>1, <1>2, <1>4 DEF LoadInvariant, Types, ImportsTypeOK
    <2>3. Range(parsed') \subseteq File
      BY <1>1, <1>3 DEF LoadInvariant, Types, ImportsTypeOK
    <2>4. ImportsTypeOK'
      BY <1>3, <2>1, <2>2, <2>3 DEF LoadInvariant, Types, ImportsTypeOK
    <2>5. \A i \in DOMAIN edges' : edges'[i].file \in expanded'
      BY <1>1 DEF LoadInvariant, Types
    <2> QED BY <1>2, <1>3, <1>4, <2>4, <2>5 DEF LoadInvariant, Types
  <1>6. Justified'
    <2>1. whole' \subseteq WholeFiles
      BY DEF LoadInvariant, Justified
    <2>2. \A g \in whole' : \A n \in NamesOf(g) : HasFlat(g, n)'
      BY <1>2 DEF LoadInvariant, Justified
    <2> QED BY <1>2, <1>3, <1>4, <2>1, <2>2 DEF Justified
  <1>7. turn = 0
    BY DEF LoadInvariant, Phases, Following
  <1>8. Spelled'
    <2>1. turn' = 0
      BY <1>7
    <2>2. \A d \in Flat' : d.calls \subseteq AliasCalls(d.file)'
      BY <1>2, <1>4 DEF LoadInvariant, Spelled
    <2> QED BY <2>1, <2>2 DEF Spelled
  <1>9. Phases'
    BY <1>7 DEF Phases, Following, Merging, Codes
  <1> QED BY <1>3, <1>5, <1>6, <1>8, <1>9 DEF LoadInvariant

LEMMA MergeWholeHolds ==
  ASSUME LoadInvariant, MergeWhole
  PROVE  LoadInvariant'
  <1>0. PICK f : f = Work.path
    OBVIOUS
  <1>1. Following /\ Work.kind = "whole" /\ f \in File /\ Safe(f)
    BY <1>0 DEF MergeWhole
  <1>2. f \in WholeFiles
    BY <1>0, <1>1, WorkAtHand, StartedLine DEF WholeFiles
  <1>3. \A n \in NamesOf(f) : <<f, n>> \in Wanted
    BY <1>1, <1>2, WantedPairs
  <1>4. CASE \E n \in NamesOf(f) : Taken(f, n)
    <2>1. Conflict
      BY <1>3, <1>4, TakenMeansConflict
    <2>2. Fails("E-DUPLICATE")
      BY <1>0, <1>4 DEF MergeWhole
    <2> QED BY <1>1, <2>1, <2>2, FailsWithCause DEF Codes, Following
  <1>5. CASE ~\E n \in NamesOf(f) : Taken(f, n)
    <2>1. /\ Open(f) /\ whole' = whole \union {f} /\ fns' = Insert(f, NamesOf(f))
          /\ types' = Count(types, f, content[f].types) /\ UNCHANGED <<named, edges, turn, verdict>>
      BY <1>0, <1>5 DEF MergeWhole, aliases
    <2>2. types' \in [File -> [TypeName -> Nat]] /\ named' \subseteq File \X TypeName
      BY <1>1, <2>1, CountIsTyped DEF LoadInvariant, Types, ImportsTypeOK
    <2>3. PICK w : w = Work
      OBVIOUS
    <2>4. f \in expanded' => Done(w)'
      BY <1>0, <1>1, <2>1, <2>3 DEF Done
    <2> QED BY <1>0, <1>1, <1>2, <1>3, <1>5, <2>1, <2>2, <2>3, <2>4, MergeHolds
  <1> QED BY <1>4, <1>5

LEMMA MergeSelectedHolds ==
  ASSUME LoadInvariant, MergeSelected
  PROVE  LoadInvariant'
  <1>0. PICK f, asked : f = Work.path /\ asked = Work.names
    OBVIOUS
  <1> DEFINE bad == {i \in DOMAIN asked : Refused(f, asked[i])}
             chosen == Range(asked)
             names == chosen \intersect NamesOf(f)
  <1>1. Following /\ Work.kind = "selective" /\ f \in File /\ Safe(f)
    BY <1>0 DEF MergeSelected
  <1>2. Work \in Selections
    BY <1>0, <1>1, WorkAtHand, StartedLine DEF Selections
  <1>3. \A n \in names : <<f, n>> \in Wanted
    BY <1>0, <1>2, WantedPairs
  <1>4. CASE bad # {}
    <2>1. \E code \in Codes : Fails(code)
      BY <1>0, <1>4, Zenon DEF MergeSelected, Codes
    <2>2. PICK i \in DOMAIN asked : Refused(f, asked[i])
      BY <1>4
    <2>3. asked[i] \in chosen
      BY DEF Range
    <2>4. Conflict
      <3>1. CASE ~Known(f, asked[i])
        BY <1>0, <1>2, <2>3, <3>1 DEF Conflict
      <3>2. CASE asked[i] \in NamesOf(f) /\ Taken(f, asked[i])
        BY <1>3, <2>3, <3>2, TakenMeansConflict
      <3> QED BY <2>2, <3>1, <3>2 DEF Refused
    <2> QED BY <1>1, <2>1, <2>4, FailsWithCause DEF Following
  <1>5. CASE bad = {}
    <2> DEFINE new == {n \in chosen \intersect content[f].types : <<f, n>> \notin named}
    <2>1. /\ new \subseteq content[f].types /\ types' = Count(types, f, new)
          /\ named' = named \union {<<f, n>> : n \in new}
      BY <1>0, <1>5 DEF MergeSelected
    <2> HIDE DEF new
    <2>2. Open(f) /\ fns' = Insert(f, names) /\ UNCHANGED <<whole, edges, turn, verdict>>
      BY <1>0, <1>5 DEF MergeSelected, aliases
    <2>3. types' \in [File -> [TypeName -> Nat]]
      BY <1>1, <2>1, CountIsTyped DEF LoadInvariant, Types, ImportsTypeOK
    <2>4. named' \subseteq File \X TypeName
      <3>1. content[f] \in ContentOfFile
        BY <1>1 DEF LoadInvariant, Types
      <3>2. new \subseteq TypeName
        BY <2>1, <3>1 DEF ContentOfFile
      <3> QED BY <1>1, <2>1, <3>2 DEF LoadInvariant, Types, ImportsTypeOK
    <2>5. \A n \in chosen : ~Refused(f, n)
      BY <1>5 DEF Range
    <2>6. \A n \in names : ~Taken(f, n)
      BY <2>5 DEF Refused
    <2>7. PICK w : w = Work
      OBVIOUS
    <2>8. (\A n \in names : HasFlat(f, n)') /\ f \in expanded' => Done(w)'
      <3>1. UNCHANGED disk
        BY <2>2 DEF Open
      <3>2. \A n \in chosen : Known(f, n)' /\ (n \in NamesOf(f)' => n \in names)
        BY <2>5, <3>1, DiskStays DEF Refused
      <3> QED BY <1>0, <1>1, <2>7, <3>2 DEF Done
    <2> QED BY <1>0, <1>1, <1>3, <2>2, <2>3, <2>4, <2>6, <2>7, <2>8, MergeHolds
  <1> QED BY <1>4, <1>5

LEMMA NoteAliasHolds ==
  ASSUME LoadInvariant, NoteAlias
  PROVE  LoadInvariant'
  <1>1. PICK w : w = Work
    OBVIOUS
  <1>2. PICK edge : edge = [from |-> w.from, alias |-> w.alias, file |-> w.path]
    OBVIOUS
  <1>3. /\ Following /\ w.kind = "alias" /\ w.path \in File /\ Safe(Work.path) /\ Open(Work.path)
        /\ edges' = (IF edge \in Range(edges) THEN edges ELSE Append(edges, edge))
        /\ UNCHANGED <<whole, fns, types, named, turn, verdict>>
    BY <1>1, <1>2 DEF NoteAlias, merged
  <1>4. w \in ImportLine /\ edge \in AliasEdge
    BY <1>1, <1>2, <1>3, WorkAtHand DEF ImportLine, AliasEdge
  <1>5. edges \in Seq(AliasEdge)
    BY DEF LoadInvariant, Types
  <1>6. /\ edges' \in Seq(AliasEdge) /\ Range(edges') = Range(edges) \union {edge}
        /\ Len(edges') >= Len(edges)
    BY <1>3, <1>4, <1>5, RangeOfAppend
  <1>7. UNCHANGED disk /\ expanded' = expanded \union {w.path}
    BY <1>1, <1>3 DEF Open
  <1>8. \A f, n : HasFlat(f, n)' = HasFlat(f, n)
    BY <1>3 DEF HasFlat, Flat
  <1>9. Done(w)'
    BY <1>2, <1>3, <1>6, <1>7 DEF Done
  <1>10. /\ Followed' /\ expanded' \subseteq Reached
         /\ queue' \in Seq(ImportLine) /\ parsed' \in Seq(File)
         /\ expanded' = Range(parsed') /\ IsInjective(parsed')
    BY <1>1, <1>3, <1>6, <1>8, <1>9, OpenFollows
  <1>11. /\ UNCHANGED <<imports, content, Reached, WholeFiles, Wanted, Conflict>>
         /\ \A g : NamesOf(g)' = NamesOf(g) /\ AliasCalls(g)' = AliasCalls(g)
    BY <1>7, DiskStays
  <1>12. turn = 0
    BY <1>3 DEF LoadInvariant, Phases, Following
  <1>13. Types'
    <2>1. whole \subseteq expanded /\ Range(parsed') \subseteq File
      BY <1>3, <1>7, <1>10 DEF LoadInvariant, Types, ImportsTypeOK
    <2>2. turn' \in 0..Len(edges')
      BY <1>3, <1>6, <1>12
    <2>3. ImportsTypeOK'
      BY <1>3, <1>7, <1>10, <1>11, <2>1, <2>2 DEF LoadInvariant, Types, ImportsTypeOK
    <2>4. \A e \in Range(edges') : e.file \in expanded'
      BY <1>2, <1>6, <1>7 DEF LoadInvariant, Types, Range
    <2>5. \A i \in DOMAIN edges' : edges'[i].file \in expanded'
      BY <2>4 DEF Range
    <2> QED BY <1>3, <1>6, <1>10, <1>11, <2>3, <2>5 DEF LoadInvariant, Types
  <1>14. Flat' = Flat
    BY <1>3 DEF Flat
  <1>15. Justified'
    BY <1>3, <1>8, <1>10, <1>11, <1>14 DEF LoadInvariant, Justified
  <1>16. Spelled'
    BY <1>3, <1>11, <1>12, <1>14 DEF LoadInvariant, Spelled
  <1>17. Phases'
    BY <1>3, <1>12 DEF Phases, Following, Merging, Codes
  <1> QED BY <1>10, <1>13, <1>15, <1>16, <1>17 DEF LoadInvariant

\* The walk is over: the program has what is asked for, and nothing conflicts.
LEMMA WalkIsOver ==
  ASSUME LoadInvariant, queue = <<>>
  PROVE  /\ expanded = Reached /\ ~Conflict
         /\ {<<d.file, d.name>> : d \in Flat} = Wanted
  <1>1. \A l \in Met : Done(l)
    BY DEF LoadInvariant, Followed, Range
  <1>2. expanded \subseteq File /\ expanded \subseteq Reached /\ whole \subseteq expanded
    BY DEF LoadInvariant, Types, ImportsTypeOK, Justified
  <1>3. Entry \in whole /\ Entry \in expanded
    BY <1>1, StartedLine DEF Met, Done
  <1>4. Closed(expanded)
    BY <1>1, <1>3 DEF Closed, Met, Done
  <1>5. expanded = Reached
    BY <1>2, <1>4 DEF Reached
  <1>6. \A l \in LinesOf(Reached) : Done(l)
    BY <1>1, <1>5 DEF Met
  <1>7. \A f \in WholeFiles : f \in whole
    BY <1>3, <1>6 DEF WholeFiles, Done
  <1>8. ASSUME NEW f, NEW n, <<f, n>> \in Wanted
        PROVE  HasFlat(f, n)
    <2>1. CASE f \in WholeFiles /\ n \in NamesOf(f)
      BY <1>7, <2>1 DEF LoadInvariant, Justified
    <2>2. CASE \E l \in Selections : n \in Range(l.names) /\ n \in NamesOf(l.path) /\ f = l.path
      BY <1>6, <2>2 DEF Selections, Done
    <2> QED BY <1>8, <2>1, <2>2, WantedPairs
  <1>9. {<<d.file, d.name>> : d \in Flat} \subseteq Wanted
    BY DEF LoadInvariant, Justified
  <1>10. \A d \in Wanted : \E f, n : d = <<f, n>>
    BY WantedPairs
  <1>11. Wanted \subseteq {<<d.file, d.name>> : d \in Flat}
    <2> SUFFICES ASSUME NEW w \in Wanted
                 PROVE  \E d \in Flat : w = <<d.file, d.name>>
      OBVIOUS
    <2>1. PICK f, n : w = <<f, n>>
      BY <1>10
    <2> QED BY <1>8, <2>1 DEF HasFlat
  <1>12. ~Conflict
    <2>1. \A l \in LinesOf(Reached) : l.path \in File
      BY <1>2, <1>6 DEF Done
    <2>2. \A l \in Selections : \A n \in Range(l.names) : Known(l.path, n)
      BY <1>6 DEF Selections, Done
    <2>3. ASSUME NEW d \in Wanted, NEW e \in Wanted, d[2] = e[2]
          PROVE  d[1] = e[1]
      <3>1. PICK f, n : d = <<f, n>>
        BY <1>10
      <3>2. PICK g, m : e = <<g, m>>
        BY <1>10
      <3>3. n = m /\ HasFlat(f, n) /\ HasFlat(g, m)
        BY <1>8, <2>3, <3>1, <3>2
      <3>4. f = g
        BY <3>3 DEF HasFlat, LoadInvariant, Justified
      <3> QED BY <3>1, <3>2, <3>4
    <2> QED BY <2>1, <2>2, <2>3 DEF Conflict
  <1> QED BY <1>5, <1>9, <1>11, <1>12

\* A step that only turns from one phase to the next.
LEMMA TurnsPage ==
  ASSUME LoadInvariant, UNCHANGED <<disk, walk, merged, aliases>>, verdict' \in Verdicts, Phases'
  PROVE  LoadInvariant'
  <1>1. /\ UNCHANGED disk
        /\ UNCHANGED <<imports, content, queue, parsed, whole, expanded, fns, types, named, edges, turn>>
    BY DEF disk, walk, merged, aliases
  <1>2. Types'
    <2>1. ImportsTypeOK'
      BY <1>1 DEF LoadInvariant, Types, ImportsTypeOK, NamesOf
    <2> QED BY <1>1, <2>1 DEF LoadInvariant, Types
  <1>3. Followed'
    <2>1. Met' = Met
      BY <1>1 DEF Met, LinesOf, Lines, Started
    <2>2. ASSUME NEW l, Done(l)
          PROVE  Done(l)'
      BY <1>1, <2>2 DEF Done, Known, NamesOf, HasFlat, Flat
    <2> QED BY <1>1, <2>1, <2>2 DEF LoadInvariant, Followed
  <1>4. Justified'
    BY <1>1, DiskStays DEF LoadInvariant, Justified, HasFlat, Flat
  <1>5. Spelled'
    BY <1>1, DiskStays DEF LoadInvariant, Spelled, Flat
  <1> QED BY <1>2, <1>3, <1>4, <1>5 DEF LoadInvariant

LEMMA WalkedHolds ==
  ASSUME LoadInvariant, Walked
  PROVE  LoadInvariant'
  <1>1. verdict' = "resolving" /\ queue' = <<>> /\ UNCHANGED <<disk, walk, merged, aliases>>
    BY DEF Walked, walk
  <1>2. Phases'
    BY <1>1 DEF Phases, Merging, Codes
  <1> QED BY <1>1, <1>2, TurnsPage DEF Verdicts

LEMMA LoadedHolds ==
  ASSUME LoadInvariant, Loaded
  PROVE  LoadInvariant'
  <1>1. /\ verdict = "resolving" /\ verdict' = "loaded" /\ turn = Len(edges)
        /\ UNCHANGED <<disk, walk, merged, aliases>>
    BY DEF Loaded
  <1>2. queue' = <<>> /\ turn' = Len(edges')
    BY <1>1 DEF LoadInvariant, Phases, Merging, walk, aliases
  <1>3. Phases'
    BY <1>1, <1>2 DEF Phases, Merging, Codes
  <1> QED BY <1>1, <1>3, TurnsPage DEF Verdicts

-----------------------------------------------------------------------------
(* The aliases. *)

LEMMA WrongAliasHolds ==
  ASSUME LoadInvariant, WrongAlias
  PROVE  LoadInvariant'
  <1>1. verdict = "resolving" /\ queue = <<>>
    BY DEF WrongAlias, Resolving, LoadInvariant, Phases, Merging
  <1>2. \E code \in Codes : Fails(code)
    BY DEF WrongAlias, Codes
  <1> QED BY <1>1, <1>2, FailsWithCause

\* A function keeps all but its calls through the alias at hand.
LEMMA RewriteKeeps ==
  ASSUME NEW d \in Merge
  PROVE  /\ Rewrite(d) \in Merge /\ Rewrite(d).file = d.file /\ Rewrite(d).name = d.name
         /\ Rewrite(d).copy = d.copy /\ Rewrite(d).calls \subseteq d.calls
         /\ d.file = Edge.from => \A c \in Rewrite(d).calls : c[1] # Edge.alias
  <1>1. CASE d.file = Edge.from
    <2> DEFINE rest == d.calls \ Through(d)
    <2>1. rest \subseteq d.calls /\ \A c \in rest : c[1] # Edge.alias
      BY DEF Through
    <2>2. Rewrite(d) = [d EXCEPT !.calls = rest]
      BY <1>1 DEF Rewrite
    <2> HIDE DEF rest
    <2> QED BY <2>1, <2>2 DEF Merge
  <1>2. CASE d.file # Edge.from
    BY <1>2 DEF Rewrite
  <1> QED BY <1>1, <1>2

LEMMA ResolveAliasHolds ==
  ASSUME LoadInvariant, ResolveAlias
  PROVE  LoadInvariant'
  <1>1. PICK copies, edge : copies = Copies /\ edge = Edge
    OBVIOUS
  <1>2. /\ verdict = "resolving" /\ turn < Len(edges) /\ turn' = turn + 1 /\ edge = edges[turn + 1]
        /\ fns' = {Rewrite(d) : d \in fns \union copies}
        /\ types' = IF First THEN Count(types, edge.file, content[edge.file].types) ELSE types
        /\ UNCHANGED disk
        /\ UNCHANGED <<imports, content, queue, parsed, whole, expanded, named, edges, verdict>>
    BY <1>1 DEF ResolveAlias, Resolving, Edge, disk, walk
  <1>3. edges \in Seq(AliasEdge) /\ turn \in Nat /\ turn <= Len(edges) /\ fns \subseteq Merge
    BY DEF LoadInvariant, Types, ImportsTypeOK
  <1>4. turn + 1 \in DOMAIN edges /\ edge \in AliasEdge /\ edge.file \in expanded /\ edge.file \in File
    <2>1. turn + 1 \in DOMAIN edges
      BY <1>2, <1>3
    <2>2. edge \in AliasEdge
      BY <1>2, <1>3, <2>1, ElementsOfSeq
    <2>3. edge.file \in expanded
      BY <1>2, <2>1 DEF LoadInvariant, Types
    <2> QED BY <2>1, <2>2, <2>3 DEF AliasEdge
  <1>5. \A d \in copies : d \in Merge /\ d.copy /\ d.file = edge.file /\ d.name \in NamesOf(edge.file)
    <2> SUFFICES ASSUME NEW n \in NamesOf(edge.file), NEW d, d = Function(edge.file, n, TRUE)
                 PROVE  d \in Merge /\ d.copy /\ d.file = edge.file /\ d.name \in NamesOf(edge.file)
      BY <1>1, Zenon DEF Copies
    <2> QED BY <1>4, FunctionIsTyped
  <1>6. \A d \in fns \union copies :
           /\ d \in Merge /\ Rewrite(d) \in Merge /\ Rewrite(d).file = d.file /\ Rewrite(d).name = d.name
           /\ Rewrite(d).copy = d.copy /\ Rewrite(d).calls \subseteq d.calls
           /\ d.file = edge.from => \A c \in Rewrite(d).calls : c[1] # edge.alias
    BY <1>1, <1>3, <1>5, RewriteKeeps
  <1>7. \A d \in fns' : d \in Merge /\ d.file \in expanded /\ d.name \in NamesOf(d.file)
    <2> SUFFICES ASSUME NEW d \in fns \union copies
                 PROVE  Rewrite(d) \in Merge /\ Rewrite(d).file \in expanded
                        /\ Rewrite(d).name \in NamesOf(Rewrite(d).file)
      BY <1>2
    <2> QED BY <1>4, <1>5, <1>6 DEF LoadInvariant, Types, ImportsTypeOK
  <1>8. \A e \in Flat' : \E d \in Flat :
           /\ e.file = d.file /\ e.name = d.name /\ e.calls \subseteq d.calls
           /\ d.file = edge.from => \A c \in e.calls : c[1] # edge.alias
    <2> SUFFICES ASSUME NEW d \in fns \union copies, ~Rewrite(d).copy
                 PROVE  d \in Flat
      BY <1>2, <1>6 DEF Flat
    <2> QED BY <1>5, <1>6 DEF Flat
  <1>9. \A d \in Flat : \E e \in Flat' : e.file = d.file /\ e.name = d.name
    <2> SUFFICES ASSUME NEW d \in Flat
                 PROVE  \E e \in Flat' : e.file = d.file /\ e.name = d.name
      OBVIOUS
    <2>1. d \in fns \union copies /\ ~d.copy
      BY DEF Flat
    <2>2. Rewrite(d) \in fns' /\ ~Rewrite(d).copy /\ Rewrite(d).file = d.file /\ Rewrite(d).name = d.name
      BY <1>2, <1>6, <2>1
    <2> QED BY <2>2 DEF Flat
  <1>10. \A f, n : HasFlat(f, n) => HasFlat(f, n)'
    BY <1>9 DEF HasFlat
  <1>11. /\ UNCHANGED <<Reached, WholeFiles, Wanted, Conflict>>
         /\ \A g : NamesOf(g)' = NamesOf(g) /\ AliasCalls(g)' = AliasCalls(g)
    BY <1>2, DiskStays
  <1>12. Types'
    <2>1. types' \in [File -> [TypeName -> Nat]]
      BY <1>2, <1>4, CountIsTyped DEF LoadInvariant, Types, ImportsTypeOK
    <2>2. turn' \in 0..Len(edges')
      BY <1>2, <1>3
    <2>3. ImportsTypeOK'
      BY <1>2, <1>7, <1>11, <2>1, <2>2 DEF LoadInvariant, Types, ImportsTypeOK
    <2> QED BY <1>2, <1>7, <2>3 DEF LoadInvariant, Types
  <1>13. Followed'
    <2>1. Met' = Met
      BY <1>2 DEF Met, LinesOf, Lines, Started
    <2>2. \A l : Done(l) => Done(l)'
      BY <1>2, <1>10, DoneStays
    <2> QED BY <1>2, <2>1, <2>2 DEF LoadInvariant, Followed
  <1>14. Justified'
    <2>1. \A e \in Flat' : <<e.file, e.name>> \in Wanted
      BY <1>8 DEF LoadInvariant, Justified
    <2>2. \A d, e \in Flat' : d.name = e.name => d.file = e.file
      BY <1>8 DEF LoadInvariant, Justified
    <2> QED BY <1>2, <1>10, <1>11, <2>1, <2>2 DEF LoadInvariant, Justified
  <1>15. Spelled'
    <2> SUFFICES ASSUME NEW e \in Flat'
                 PROVE  /\ e.calls \subseteq AliasCalls(e.file)'
                        /\ \A c \in e.calls : \A i \in 1..turn' : ~(edges'[i].from = e.file /\ edges'[i].alias = c[1])
      BY DEF Spelled
    <2>1. PICK d \in Flat : /\ e.file = d.file /\ e.calls \subseteq d.calls
                            /\ d.file = edge.from => \A c \in e.calls : c[1] # edge.alias
      BY <1>8
    <2>2. ASSUME NEW c \in e.calls, NEW i \in 1..turn', edges'[i].from = e.file, edges'[i].alias = c[1]
          PROVE  FALSE
      <3>1. i \in 1..turn \/ i = turn + 1
        BY <1>2, <1>3
      <3>2. CASE i \in 1..turn
        BY <1>2, <2>1, <2>2, <3>2 DEF LoadInvariant, Spelled
      <3>3. CASE i = turn + 1
        BY <1>2, <2>1, <2>2, <3>3
      <3> QED BY <3>1, <3>2, <3>3
    <2> QED BY <1>11, <2>1, <2>2 DEF LoadInvariant, Spelled
  <1>16. Phases'
    BY <1>2 DEF LoadInvariant, Phases, Merging, Codes
  <1> QED BY <1>12, <1>13, <1>14, <1>15, <1>16 DEF LoadInvariant

-----------------------------------------------------------------------------

LEMMA LoadStarts ==
  ASSUME Init
  PROVE  LoadInvariant
  <1>1. /\ imports \in [File -> ImportsOfFile] /\ content \in [File -> ContentOfFile]
        /\ queue = <<Started>> /\ parsed = <<>> /\ edges = <<>> /\ whole = {} /\ expanded = {} /\ fns = {}
        /\ types = [f \in File |-> [n \in TypeName |-> 0]] /\ named = {} /\ turn = 0 /\ verdict = "walking"
    BY ProgramsAssumption DEF Init, Started
  <1>2. Started \in ImportLine /\ Started.path = Entry /\ Entry \in File
    <2>1. <<>> \in Seq(FnName \union TypeName)
      OBVIOUS
    <2> QED BY <2>1, ImportsAssumption DEF Started, Line, ImportLine, Path
  <1>3. queue \in Seq(ImportLine) /\ Range(queue) = {Started}
    <2> HIDE DEF Started
    <2> QED BY <1>1, <1>2 DEF Range
  <1>4. Range(parsed) = {} /\ IsInjective(parsed) /\ Range(edges) = {} /\ DOMAIN edges = {} /\ Len(edges) = 0
    BY <1>1 DEF Range, IsInjective
  <1>5. Types
    <2>1. ImportsTypeOK
      BY <1>1, <1>4 DEF ImportsTypeOK, Verdicts
    <2> QED BY <1>1, <1>3, <1>4, <2>1 DEF Types
  <1>6. Followed
    <2>1. Met = {Started}
      BY <1>1 DEF Met, LinesOf
    <2> QED BY <1>2, <1>3, <2>1, ImportsAssumption DEF Followed
  <1>7. Justified /\ Spelled /\ Phases
    BY <1>1 DEF Justified, Spelled, Phases, Flat, Merging, Codes
  <1> QED BY <1>5, <1>6, <1>7 DEF LoadInvariant

LEMMA LoadHolds == Spec => []LoadInvariant
  <1>1. Init => LoadInvariant
    BY LoadStarts
  <1>2. LoadInvariant /\ [Next]_vars => LoadInvariant'
    <2> SUFFICES ASSUME LoadInvariant, [Next]_vars
                 PROVE  LoadInvariant'
      OBVIOUS
    <2>1. CASE UNCHANGED vars
      <3>1. UNCHANGED <<disk, walk, merged, aliases, verdict>> /\ UNCHANGED <<queue, turn, edges>>
            /\ UNCHANGED disk
        BY <2>1 DEF vars, walk, aliases
      <3>2. Phases' /\ verdict' \in Verdicts
        BY <3>1, DiskStays DEF LoadInvariant, Phases, Merging, Types, ImportsTypeOK
      <3> QED BY <3>1, <3>2, TurnsPage
    <2> QED BY <2>1, UnreadableHolds, SkipWholeHolds, MergeWholeHolds, MergeSelectedHolds, NoteAliasHolds,
               WalkedHolds, WrongAliasHolds, ResolveAliasHolds, LoadedHolds DEF Next
  <1> QED BY <1>1, <1>2, PTL DEF Spec

\* Whatever the files import and define, the walk and the resolution of
\* aliases (imports.rs:265-485, 1180-1330) read a file once, merge only
\* functions of files that were opened, and resolve an edge at a time.
THEOREM LoadTypes == Spec => []ImportsTypeOK
  <1>1. LoadInvariant => ImportsTypeOK
    BY DEF LoadInvariant, Types
  <1> QED BY <1>1, LoadHolds, PTL

\* Every program: when the walk (imports.rs:335-463) is over, the files that
\* were read are those that the entry file imports, directly or not, and the
\* functions merged under their own names are those that the import lines of
\* these files ask for, whatever the order in which they were met.
THEOREM LoadMergesWanted == Spec => []MergesWanted
  <1>1. LoadInvariant => MergesWanted
    <2> SUFFICES ASSUME LoadInvariant, Merging
                 PROVE  {<<d.file, d.name>> : d \in Flat} = Wanted /\ Range(parsed) = Reached
      BY DEF MergesWanted
    <2>1. queue = <<>> /\ expanded = Range(parsed)
      BY DEF LoadInvariant, Phases, Types, ImportsTypeOK
    <2> QED BY <2>1, WalkIsOver
  <1> QED BY <1>1, LoadHolds, PTL

\* Every program: the walk fails if and only if an import that is reached is
\* missing, unsafe or asks for a name its file does not define, or two files
\* have to give the program a function of one name (ensure_parsed,
\* import_named and insert_fn of imports.rs): the order does not matter.
THEOREM LoadFailsOnConflict == Spec => []FailsOnConflict
  <1>1. LoadInvariant => FailsOnConflict
    <2>1. ASSUME LoadInvariant, Merging
          PROVE  ~Conflict
      BY <2>1, WalkIsOver DEF LoadInvariant, Phases
    <2> QED BY <2>1 DEF FailsOnConflict, LoadInvariant, Phases
  <1> QED BY <1>1, LoadHolds, PTL

\* Every program: resolve_aliases (imports.rs:1180-1330) takes one edge after
\* the other, while the functions of the files behind aliases are added; once
\* it is through, no function merged under its own name calls by an alias.
THEOREM LoadResolvesFlatCalls == Spec => []FlatCallsResolved
  <1>1. LoadInvariant => FlatCallsResolved
    <2> SUFFICES ASSUME LoadInvariant, verdict = "loaded", NEW d \in Flat, NEW c \in d.calls
                 PROVE  FALSE
      BY DEF FlatCallsResolved
    <2>1. queue = <<>> /\ turn = Len(edges)
      BY DEF LoadInvariant, Phases, Merging
    <2>2. /\ c \in AliasCalls(d.file)
          /\ \A i \in 1..turn : ~(edges[i].from = d.file /\ edges[i].alias = c[1])
      BY DEF LoadInvariant, Spelled
    <2>3. d.file \in expanded /\ d.file \in File /\ imports[d.file] \in ImportsOfFile
      BY DEF LoadInvariant, Types, ImportsTypeOK, Flat
    <2>4. PICK i \in DOMAIN imports[d.file].aliased : imports[d.file].aliased[i].alias = c[1]
      BY <2>2 DEF AliasCalls
    <2>5. PICK l : l = Line("alias", d.file, imports[d.file].aliased[i].path, <<>>, imports[d.file].aliased[i].alias)
      OBVIOUS
    <2>6. l \in Met /\ l.kind = "alias" /\ l.from = d.file /\ l.alias = c[1]
      <3>1. l \in Range(Lines(d.file))
        BY <2>3, <2>5, LinesOfFile
      <3> QED BY <2>3, <2>4, <2>5, <3>1 DEF Met, LinesOf, Line
    <2>7. Done(l)
      BY <2>1, <2>6 DEF LoadInvariant, Followed, Range
    <2>8. PICK k \in DOMAIN edges : edges[k].from = d.file /\ edges[k].alias = c[1]
      BY <2>6, <2>7 DEF Done, Range
    <2>9. k \in 1..turn
      BY <2>1 DEF LoadInvariant, Types
    <2> QED BY <2>2, <2>8, <2>9
  <1> QED BY <1>1, LoadHolds, PTL

=============================================================================
