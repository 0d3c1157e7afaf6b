--------------------------- MODULE BuiltinsProofs ---------------------------
(***************************************************************************)
(* The two tables of Builtins agree: a call the checker accepts meets no   *)
(* argument of a kind the interpreter refuses, except where the checker    *)
(* knew nothing of the argument, and what it returns is of the type the    *)
(* checker gave the call.  The proof goes through the groups of rows, one  *)
(* lemma each, and then from rows to calls.                                *)
(***************************************************************************)
EXTENDS Builtins, TLAPS

(* A row of the checker against the row of the interpreter: as many        *)
(* arguments, each type taken has only kinds that run, and the result has  *)
(* the type promised.                                                      *)
Rows(sig, run) ==
  /\ DOMAIN sig.params = 1..Len(sig.params)
  /\ DOMAIN run.args = DOMAIN sig.params
Covers(sig, run) ==
  \A i \in DOMAIN sig.params : \A ty \in sig.params[i] : KindsOf(ty) \subseteq run.args[i]
Typed(sig, run) == run.gives \subseteq KindsOf(sig.ret)
Agree(f, sig, run) ==
  /\ Rows(sig, run)
  /\ f \notin Lenient => Covers(sig, run)
  /\ Typed(sig, run)

(* The kinds of each type, as equations (KindsOf, Value of runtime).       *)
LEMMA KindsOfTypes ==
  /\ KindsOf("Int") = {"int"} /\ KindsOf("Bool") = {"int"} /\ KindsOf("Void") = {"int"}
  /\ KindsOf("Float") = {"float", "int"} /\ KindsOf("Str") = {"str"}
  /\ KindsOf("Array") = {"array"} /\ KindsOf("Map") = {"map"} /\ KindsOf("Nominal") = {"struct"}
  /\ KindsOf("Closure") = {"closure"} /\ KindsOf("Key") = {"closure"}
  /\ KindsOf("Unknown") = Kinds
  /\ \A ty : KindsOf(ty) \subseteq Kinds
BY DEF KindsOf, Kinds, Handles

(* A function on 1..n is its own list, and so are the sequences that rows  *)
(* are written with.                                                       *)
Listed(s) == s = [i \in 1..Len(s) |-> s[i]]
LEMMA ListedSequences ==
  /\ \A x : \A n \in Nat : Listed(Alike(n, x))
  /\ Listed(<<>>)
  /\ \A x : Listed(<<x>>)
  /\ \A x, y : Listed(<<x, y>>)
  /\ \A x, y, z : Listed(<<x, y, z>>)
  /\ \A x, y, z, u : Listed(<<x, y, z, u>>)
  /\ \A x, y, z, u, v, w : Listed(<<x, y, z, u, v, w>>)
<1>1. ASSUME NEW n \in Nat, NEW x
      PROVE  Listed(Alike(n, x))
  <2>1. Alike(n, x) \in Seq({x})
    BY DEF Alike
  <2>2. Len(Alike(n, x)) = n
    BY <2>1 DEF Alike
  <2> QED  BY <2>2 DEF Alike, Listed
<1>2. /\ Listed(<<>>)
      /\ \A x : Listed(<<x>>)
      /\ \A x, y : Listed(<<x, y>>)
      /\ \A x, y, z : Listed(<<x, y, z>>)
  BY DEF Listed
<1>3. \A x, y, z, u : Listed(<<x, y, z, u>>)
  BY DEF Listed
<1>4. \A x, y, z, u, v, w : Listed(<<x, y, z, u, v, w>>)
  BY DEF Listed
<1> QED  BY <1>1, <1>2, <1>3, <1>4

(* The rows of len to float.                                               *)
LEMMA CollectionsAgree == \A f \in Collections \ {"format"} : Agree(f, CollectionSig(f), CollectionRun(f))
<1> DEFINE params(f) == CollectionSig(f).params
<1>1. \A f \in Collections \ {"format"} : Listed(params(f))
  BY ListedSequences DEF Collections, CollectionSig, Takes, Opened
<1>2. \A f \in Collections \ {"format"} : DOMAIN CollectionRun(f).args = DOMAIN params(f)
  BY DEF Collections, CollectionSig, CollectionRun, Takes, Needs, Alike
<1>3. \A f \in Collections \ {"format"} : f \notin Lenient => Covers(CollectionSig(f), CollectionRun(f))
  BY KindsOfTypes, SMTT(60)
     DEF Collections, CollectionSig, CollectionRun, Covers, Takes, Needs, Alike, Anything, KnownTypes, Number,
         number, Opened, Kinds, Handles, Lenient
<1>4. \A f \in Collections \ {"format"} : Typed(CollectionSig(f), CollectionRun(f))
  BY KindsOfTypes DEF Collections, CollectionSig, CollectionRun, Typed, Takes, Needs, number, Kinds, Handles
<1>5. \A f \in Collections \ {"format"} : DOMAIN params(f) = 1..Len(params(f))
  BY <1>1 DEF Listed
<1> QED  BY <1>2, <1>3, <1>4, <1>5 DEF Agree, Rows

(* The rows of the float math, the hashes and the random numbers.          *)
LEMMA NumbersAgree == \A f \in Numbers : Agree(f, NumberSig(f), NumberRun(f))
<1> DEFINE params(f) == NumberSig(f).params
<1>1. \A f \in Numbers : Listed(params(f))
  BY ListedSequences DEF Numbers, NumberSig, Takes, Opened
<1>2. \A f \in Numbers : DOMAIN NumberRun(f).args = DOMAIN params(f)
  BY DEF Numbers, NumberSig, NumberRun, Takes, Needs, Alike
<1>3. \A f \in Numbers : f \notin Lenient => Covers(NumberSig(f), NumberRun(f))
  BY KindsOfTypes, SMTT(60)
     DEF Numbers, NumberSig, NumberRun, Covers, Takes, Needs, Alike, Anything, KnownTypes, Number,
         number, Opened, Kinds, Handles, Lenient
<1>4. \A f \in Numbers : Typed(NumberSig(f), NumberRun(f))
  BY KindsOfTypes DEF Numbers, NumberSig, NumberRun, Typed, Takes, Needs, number, Kinds, Handles
<1>5. \A f \in Numbers : DOMAIN params(f) = 1..Len(params(f))
  BY <1>1 DEF Listed
<1> QED  BY <1>2, <1>3, <1>4, <1>5 DEF Agree, Rows

(* The rows of read_line to assert.                                        *)
LEMMA ConsolesAgree == \A f \in Consoles : Agree(f, ConsoleSig(f), ConsoleRun(f))
<1> DEFINE params(f) == ConsoleSig(f).params
<1>1. \A f \in Consoles : Listed(params(f))
  BY ListedSequences DEF Consoles, ConsoleSig, Takes, Opened
<1>2. \A f \in Consoles : DOMAIN ConsoleRun(f).args = DOMAIN params(f)
  BY DEF Consoles, ConsoleSig, ConsoleRun, Takes, Needs, Alike
<1>3. \A f \in Consoles : f \notin Lenient => Covers(ConsoleSig(f), ConsoleRun(f))
  BY KindsOfTypes, SMTT(60)
     DEF Consoles, ConsoleSig, ConsoleRun, Covers, Takes, Needs, Alike, Anything, KnownTypes, Number,
         number, Opened, Kinds, Handles, Lenient
<1>4. \A f \in Consoles : Typed(ConsoleSig(f), ConsoleRun(f))
  BY KindsOfTypes DEF Consoles, ConsoleSig, ConsoleRun, Typed, Takes, Needs, number, Kinds, Handles
<1>5. \A f \in Consoles : DOMAIN params(f) = 1..Len(params(f))
  BY <1>1 DEF Listed
<1> QED  BY <1>2, <1>3, <1>4, <1>5 DEF Agree, Rows

(* The rows of read_file to get_env.                                       *)
LEMMA FilesAgree == \A f \in Files : Agree(f, FileSig(f), FileRun(f))
<1> DEFINE params(f) == FileSig(f).params
<1>1. \A f \in Files : Listed(params(f))
  BY ListedSequences DEF Files, FileSig, Takes, Opened
<1>2. \A f \in Files : DOMAIN FileRun(f).args = DOMAIN params(f)
  BY DEF Files, FileSig, FileRun, Takes, Needs, Alike
<1>3. \A f \in Files : f \notin Lenient => Covers(FileSig(f), FileRun(f))
  BY KindsOfTypes, SMTT(60)
     DEF Files, FileSig, FileRun, Covers, Takes, Needs, Alike, Anything, KnownTypes, Number,
         number, Opened, Kinds, Handles, Lenient
<1>4. \A f \in Files : Typed(FileSig(f), FileRun(f))
  BY KindsOfTypes DEF Files, FileSig, FileRun, Typed, Takes, Needs, number, Kinds, Handles
<1>5. \A f \in Files : DOMAIN params(f) = 1..Len(params(f))
  BY <1>1 DEF Listed
<1> QED  BY <1>2, <1>3, <1>4, <1>5 DEF Agree, Rows

(* The rows of run_process to regex_find.                                  *)
LEMMA ProcessesAgree == \A f \in Processes : Agree(f, ProcessSig(f), ProcessRun(f))
<1> DEFINE params(f) == ProcessSig(f).params
<1>1. \A f \in Processes : Listed(params(f))
  BY ListedSequences DEF Processes, ProcessSig, Takes, Opened
<1>2. \A f \in Processes : DOMAIN ProcessRun(f).args = DOMAIN params(f)
  BY DEF Processes, ProcessSig, ProcessRun, Takes, Needs, Alike
<1>3. \A f \in Processes : f \notin Lenient => Covers(ProcessSig(f), ProcessRun(f))
  BY KindsOfTypes, SMTT(60)
     DEF Processes, ProcessSig, ProcessRun, Covers, Takes, Needs, Alike, Anything, KnownTypes, Number,
         number, Opened, Kinds, Handles, Lenient
<1>4. \A f \in Processes : Typed(ProcessSig(f), ProcessRun(f))
  BY KindsOfTypes DEF Processes, ProcessSig, ProcessRun, Typed, Takes, Needs, number, Kinds, Handles
<1>5. \A f \in Processes : DOMAIN params(f) = 1..Len(params(f))
  BY <1>1 DEF Listed
<1> QED  BY <1>2, <1>3, <1>4, <1>5 DEF Agree, Rows

(* The rows of the clocks and the HTTP client.                             *)
LEMMA ClocksAgree == \A f \in Clocks : Agree(f, ClockSig(f), ClockRun(f))
<1> DEFINE params(f) == ClockSig(f).params
<1>1. \A f \in Clocks : Listed(params(f))
  BY ListedSequences DEF Clocks, ClockSig, Takes, Opened
<1>2. \A f \in Clocks : DOMAIN ClockRun(f).args = DOMAIN params(f)
  BY DEF Clocks, ClockSig, ClockRun, Takes, Needs, Alike
<1>3. \A f \in Clocks : f \notin Lenient => Covers(ClockSig(f), ClockRun(f))
  BY KindsOfTypes, SMTT(60)
     DEF Clocks, ClockSig, ClockRun, Covers, Takes, Needs, Alike, Anything, KnownTypes, Number,
         number, Opened, Kinds, Handles, Lenient
<1>4. \A f \in Clocks : Typed(ClockSig(f), ClockRun(f))
  BY KindsOfTypes DEF Clocks, ClockSig, ClockRun, Typed, Takes, Needs, number, Kinds, Handles
<1>5. \A f \in Clocks : DOMAIN params(f) = 1..Len(params(f))
  BY <1>1 DEF Listed
<1> QED  BY <1>2, <1>3, <1>4, <1>5 DEF Agree, Rows

(* The rows of args to sort.                                               *)
LEMMA SystemsAgree == \A f \in Systems : Agree(f, SystemSig(f), SystemRun(f))
<1> DEFINE params(f) == SystemSig(f).params
<1>1. \A f \in Systems : Listed(params(f))
  BY ListedSequences DEF Systems, SystemSig, Takes, Opened
<1>2. \A f \in Systems : DOMAIN SystemRun(f).args = DOMAIN params(f)
  BY DEF Systems, SystemSig, SystemRun, Takes, Needs, Alike
<1>3. \A f \in Systems : f \notin Lenient => Covers(SystemSig(f), SystemRun(f))
  BY KindsOfTypes, SMTT(60)
     DEF Systems, SystemSig, SystemRun, Covers, Takes, Needs, Alike, Anything, KnownTypes, Number,
         number, Opened, Kinds, Handles, Lenient
<1>4. \A f \in Systems : Typed(SystemSig(f), SystemRun(f))
  BY KindsOfTypes DEF Systems, SystemSig, SystemRun, Typed, Takes, Needs, number, Kinds, Handles
<1>5. \A f \in Systems : DOMAIN params(f) = 1..Len(params(f))
  BY <1>1 DEF Listed
<1> QED  BY <1>2, <1>3, <1>4, <1>5 DEF Agree, Rows

(* The rows of regex_find_all to random_seeded_float.                      *)
LEMMA ExtrasAgree == \A f \in Extras : Agree(f, ExtraSig(f), ExtraRun(f))
<1> DEFINE params(f) == ExtraSig(f).params
<1>1. \A f \in Extras : Listed(params(f))
  BY ListedSequences DEF Extras, ExtraSig, Takes, Opened
<1>2. \A f \in Extras : DOMAIN ExtraRun(f).args = DOMAIN params(f)
  BY DEF Extras, ExtraSig, ExtraRun, Takes, Needs, Alike
<1>3. \A f \in Extras : f \notin Lenient => Covers(ExtraSig(f), ExtraRun(f))
  BY KindsOfTypes, SMTT(60)
     DEF Extras, ExtraSig, ExtraRun, Covers, Takes, Needs, Alike, Anything, KnownTypes, Number,
         number, Opened, Kinds, Handles, Lenient
<1>4. \A f \in Extras : Typed(ExtraSig(f), ExtraRun(f))
  BY KindsOfTypes DEF Extras, ExtraSig, ExtraRun, Typed, Takes, Needs, number, Kinds, Handles
<1>5. \A f \in Extras : DOMAIN params(f) = 1..Len(params(f))
  BY <1>1 DEF Listed
<1> QED  BY <1>2, <1>3, <1>4, <1>5 DEF Agree, Rows

(* The rows of the TCP sockets.                                            *)
LEMMA SocketsAgree == \A f \in Sockets : Agree(f, SocketSig(f), SocketRun(f))
<1> DEFINE params(f) == SocketSig(f).params
<1>1. \A f \in Sockets : Listed(params(f))
  BY ListedSequences DEF Sockets, SocketSig, Takes, Opened
<1>2. \A f \in Sockets : DOMAIN SocketRun(f).args = DOMAIN params(f)
  BY DEF Sockets, SocketSig, SocketRun, Takes, Needs, Alike
<1>3. \A f \in Sockets : f \notin Lenient => Covers(SocketSig(f), SocketRun(f))
  BY KindsOfTypes, SMTT(60)
     DEF Sockets, SocketSig, SocketRun, Covers, Takes, Needs, Alike, Anything, KnownTypes, Number,
         number, Opened, Kinds, Handles, Lenient
<1>4. \A f \in Sockets : Typed(SocketSig(f), SocketRun(f))
  BY KindsOfTypes DEF Sockets, SocketSig, SocketRun, Typed, Takes, Needs, number, Kinds, Handles
<1>5. \A f \in Sockets : DOMAIN params(f) = 1..Len(params(f))
  BY <1>1 DEF Listed
<1> QED  BY <1>2, <1>3, <1>4, <1>5 DEF Agree, Rows

(* The rows of datagrams, threads, channels, signals.                      *)
LEMMA ThreadingsAgree == \A f \in Threadings : Agree(f, ThreadingSig(f), ThreadingRun(f))
<1> DEFINE params(f) == ThreadingSig(f).params
<1>1. \A f \in Threadings : Listed(params(f))
  BY ListedSequences DEF Threadings, ThreadingSig, Takes, Opened
<1>2. \A f \in Threadings : DOMAIN ThreadingRun(f).args = DOMAIN params(f)
  BY DEF Threadings, ThreadingSig, ThreadingRun, Takes, Needs, Alike
<1>3. \A f \in Threadings : f \notin Lenient => Covers(ThreadingSig(f), ThreadingRun(f))
  BY KindsOfTypes, SMTT(60)
     DEF Threadings, ThreadingSig, ThreadingRun, Covers, Takes, Needs, Alike, Anything, KnownTypes, Number,
         number, Opened, Kinds, Handles, Lenient
<1>4. \A f \in Threadings : Typed(ThreadingSig(f), ThreadingRun(f))
  BY KindsOfTypes DEF Threadings, ThreadingSig, ThreadingRun, Typed, Takes, Needs, number, Kinds, Handles
<1>5. \A f \in Threadings : DOMAIN params(f) = 1..Len(params(f))
  BY <1>1 DEF Listed
<1> QED  BY <1>2, <1>3, <1>4, <1>5 DEF Agree, Rows

(* The rows of http_serve to json_stringify.                               *)
LEMMA ServersAgree == \A f \in Servers : Agree(f, ServerSig(f), ServerRun(f))
<1> DEFINE params(f) == ServerSig(f).params
<1>1. \A f \in Servers : Listed(params(f))
  BY ListedSequences DEF Servers, ServerSig, Takes, Opened
<1>2. \A f \in Servers : DOMAIN ServerRun(f).args = DOMAIN params(f)
  BY DEF Servers, ServerSig, ServerRun, Takes, Needs, Alike
<1>3. \A f \in Servers : f \notin Lenient => Covers(ServerSig(f), ServerRun(f))
  BY KindsOfTypes, SMTT(60)
     DEF Servers, ServerSig, ServerRun, Covers, Takes, Needs, Alike, Anything, KnownTypes, Number,
         number, Opened, Kinds, Handles, Lenient, Jsonable
<1>4. \A f \in Servers : Typed(ServerSig(f), ServerRun(f))
  BY KindsOfTypes DEF Servers, ServerSig, ServerRun, Typed, Takes, Needs, number, Kinds, Handles
<1>5. \A f \in Servers : DOMAIN params(f) = 1..Len(params(f))
  BY <1>1 DEF Listed
<1> QED  BY <1>2, <1>3, <1>4, <1>5 DEF Agree, Rows

(* The rows of the dates.                                                  *)
LEMMA DatesAgree == \A f \in Dates : Agree(f, DateSig(f), DateRun(f))
<1> DEFINE params(f) == DateSig(f).params
<1>1. \A f \in Dates : Listed(params(f))
  BY ListedSequences DEF Dates, DateSig, Takes, Opened
<1>2. \A f \in Dates : DOMAIN DateRun(f).args = DOMAIN params(f)
  BY DEF Dates, DateSig, DateRun, Takes, Needs, Alike
<1>3. \A f \in Dates : f \notin Lenient => Covers(DateSig(f), DateRun(f))
  BY KindsOfTypes, SMTT(60)
     DEF Dates, DateSig, DateRun, Covers, Takes, Needs, Alike, Anything, KnownTypes, Number,
         number, Opened, Kinds, Handles, Lenient
<1>4. \A f \in Dates : Typed(DateSig(f), DateRun(f))
  BY KindsOfTypes DEF Dates, DateSig, DateRun, Typed, Takes, Needs, number, Kinds, Handles
<1>5. \A f \in Dates : DOMAIN params(f) = 1..Len(params(f))
  BY <1>1 DEF Listed
<1> QED  BY <1>2, <1>3, <1>4, <1>5 DEF Agree, Rows

(* The rows of gzip, zlib and tar.                                         *)
LEMMA ArchivesAgree == \A f \in Archives : Agree(f, ArchiveSig(f), ArchiveRun(f))
<1> DEFINE params(f) == ArchiveSig(f).params
<1>1. \A f \in Archives : Listed(params(f))
  BY ListedSequences DEF Archives, ArchiveSig, Takes, Opened
<1>2. \A f \in Archives : DOMAIN ArchiveRun(f).args = DOMAIN params(f)
  BY DEF Archives, ArchiveSig, ArchiveRun, Takes, Needs, Alike
<1>3. \A f \in Archives : f \notin Lenient => Covers(ArchiveSig(f), ArchiveRun(f))
  BY KindsOfTypes, SMTT(60)
     DEF Archives, ArchiveSig, ArchiveRun, Covers, Takes, Needs, Alike, Anything, KnownTypes, Number,
         number, Opened, Kinds, Handles, Lenient
<1>4. \A f \in Archives : Typed(ArchiveSig(f), ArchiveRun(f))
  BY KindsOfTypes DEF Archives, ArchiveSig, ArchiveRun, Typed, Takes, Needs, number, Kinds, Handles
<1>5. \A f \in Archives : DOMAIN params(f) = 1..Len(params(f))
  BY <1>1 DEF Listed
<1> QED  BY <1>2, <1>3, <1>4, <1>5 DEF Agree, Rows

(* The rows of the PostgreSQL client.                                      *)
LEMMA DatabasesAgree == \A f \in Databases : Agree(f, DatabaseSig(f), DatabaseRun(f))
<1> DEFINE params(f) == DatabaseSig(f).params
<1>1. \A f \in Databases : Listed(params(f))
  BY ListedSequences DEF Databases, DatabaseSig, Takes, Opened
<1>2. \A f \in Databases : DOMAIN DatabaseRun(f).args = DOMAIN params(f)
  BY DEF Databases, DatabaseSig, DatabaseRun, Takes, Needs, Alike
<1>3. \A f \in Databases : f \notin Lenient => Covers(DatabaseSig(f), DatabaseRun(f))
  BY KindsOfTypes, SMTT(60)
     DEF Databases, DatabaseSig, DatabaseRun, Covers, Takes, Needs, Alike, Anything, KnownTypes, Number,
         number, Opened, Kinds, Handles, Lenient
<1>4. \A f \in Databases : Typed(DatabaseSig(f), DatabaseRun(f))
  BY KindsOfTypes DEF Databases, DatabaseSig, DatabaseRun, Typed, Takes, Needs, number, Kinds, Handles
<1>5. \A f \in Databases : DOMAIN params(f) = 1..Len(params(f))
  BY <1>1 DEF Listed
<1> QED  BY <1>2, <1>3, <1>4, <1>5 DEF Agree, Rows

---------------------------------------------------------------------------
(* From rows to calls.                                                     *)

(* No name is in two groups, so that CASE has one choice.                  *)
LEMMA OneGroup ==
  /\ Collections \cap (Numbers \cup Consoles \cup Files \cup Processes \cup Clocks \cup Systems \cup
     Extras \cup Sockets \cup Threadings \cup Servers \cup Dates \cup Archives \cup Databases) = {}
  /\ Numbers \cap (Consoles \cup Files \cup Processes \cup Clocks \cup Systems \cup Extras \cup
     Sockets \cup Threadings \cup Servers \cup Dates \cup Archives \cup Databases) = {}
  /\ Consoles \cap (Files \cup Processes \cup Clocks \cup Systems \cup Extras \cup Sockets \cup
     Threadings \cup Servers \cup Dates \cup Archives \cup Databases) = {}
  /\ Files \cap (Processes \cup Clocks \cup Systems \cup Extras \cup Sockets \cup Threadings \cup
     Servers \cup Dates \cup Archives \cup Databases) = {}
  /\ Processes \cap (Clocks \cup Systems \cup Extras \cup Sockets \cup Threadings \cup Servers \cup
     Dates \cup Archives \cup Databases) = {}
  /\ Clocks \cap (Systems \cup Extras \cup Sockets \cup Threadings \cup Servers \cup Dates \cup
     Archives \cup Databases) = {}
  /\ Systems \cap (Extras \cup Sockets \cup Threadings \cup Servers \cup Dates \cup Archives \cup
     Databases) = {}
  /\ Extras \cap (Sockets \cup Threadings \cup Servers \cup Dates \cup Archives \cup Databases) = {}
  /\ Sockets \cap (Threadings \cup Servers \cup Dates \cup Archives \cup Databases) = {}
  /\ Threadings \cap (Servers \cup Dates \cup Archives \cup Databases) = {}
  /\ Servers \cap (Dates \cup Archives \cup Databases) = {}
  /\ Dates \cap (Archives \cup Databases) = {}
  /\ Archives \cap (Databases) = {}
<1>1. Collections \cap (Numbers \cup Consoles \cup Files \cup Processes \cup Clocks \cup Systems
   \cup Extras \cup Sockets \cup Threadings \cup Servers \cup Dates \cup Archives \cup Databases) =
   {}
  BY DEF Collections, Numbers, Consoles, Files, Processes, Clocks, Systems, Extras, Sockets,
     Threadings, Servers, Dates, Archives, Databases
<1>2. Numbers \cap (Consoles \cup Files \cup Processes \cup Clocks \cup Systems \cup Extras \cup
   Sockets \cup Threadings \cup Servers \cup Dates \cup Archives \cup Databases) = {}
  BY DEF Numbers, Consoles, Files, Processes, Clocks, Systems, Extras, Sockets, Threadings, Servers,
     Dates, Archives, Databases
<1>3. Consoles \cap (Files \cup Processes \cup Clocks \cup Systems \cup Extras \cup Sockets \cup
   Threadings \cup Servers \cup Dates \cup Archives \cup Databases) = {}
  BY DEF Consoles, Files, Processes, Clocks, Systems, Extras, Sockets, Threadings, Servers, Dates,
     Archives, Databases
<1>4. Files \cap (Processes \cup Clocks \cup Systems \cup Extras \cup Sockets \cup Threadings \cup
   Servers \cup Dates \cup Archives \cup Databases) = {}
  BY DEF Files, Processes, Clocks, Systems, Extras, Sockets, Threadings, Servers, Dates, Archives,
     Databases
<1>5. Processes \cap (Clocks \cup Systems \cup Extras \cup Sockets \cup Threadings \cup Servers \cup
   Dates \cup Archives \cup Databases) = {}
  BY DEF Processes, Clocks, Systems, Extras, Sockets, Threadings, Servers, Dates, Archives,
     Databases
<1>6. Clocks \cap (Systems \cup Extras \cup Sockets \cup Threadings \cup Servers \cup Dates \cup
   Archives \cup Databases) = {}
  BY DEF Clocks, Systems, Extras, Sockets, Threadings, Servers, Dates, Archives, Databases
<1>7. Systems \cap (Extras \cup Sockets \cup Threadings \cup Servers \cup Dates \cup Archives \cup
   Databases) = {}
  BY DEF Systems, Extras, Sockets, Threadings, Servers, Dates, Archives, Databases
<1>8. Extras \cap (Sockets \cup Threadings \cup Servers \cup Dates \cup Archives \cup Databases) =
   {}
  BY DEF Extras, Sockets, Threadings, Servers, Dates, Archives, Databases
<1>9. Sockets \cap (Threadings \cup Servers \cup Dates \cup Archives \cup Databases) = {}
  BY DEF Sockets, Threadings, Servers, Dates, Archives, Databases
<1>10. Threadings \cap (Servers \cup Dates \cup Archives \cup Databases) = {}
  BY DEF Threadings, Servers, Dates, Archives, Databases
<1>11. Servers \cap (Dates \cup Archives \cup Databases) = {}
  BY DEF Servers, Dates, Archives, Databases
<1>12. Dates \cap (Archives \cup Databases) = {}
  BY DEF Dates, Archives, Databases
<1>13. Archives \cap (Databases) = {}
  BY DEF Archives, Databases
<1> QED  BY <1>1, <1>2, <1>3, <1>4, <1>5, <1>6, <1>7, <1>8, <1>9, <1>10, <1>11, <1>12, <1>13

(* The row of a builtin in each table is that of its group.                *)
LEMMA RowOf ==
  /\ \A f \in Collections : Signature(f) = CollectionSig(f) /\ Behaviour(f) = CollectionRun(f)
  /\ \A f \in Numbers : Signature(f) = NumberSig(f) /\ Behaviour(f) = NumberRun(f)
  /\ \A f \in Consoles : Signature(f) = ConsoleSig(f) /\ Behaviour(f) = ConsoleRun(f)
  /\ \A f \in Files : Signature(f) = FileSig(f) /\ Behaviour(f) = FileRun(f)
  /\ \A f \in Processes : Signature(f) = ProcessSig(f) /\ Behaviour(f) = ProcessRun(f)
  /\ \A f \in Clocks : Signature(f) = ClockSig(f) /\ Behaviour(f) = ClockRun(f)
  /\ \A f \in Systems : Signature(f) = SystemSig(f) /\ Behaviour(f) = SystemRun(f)
  /\ \A f \in Extras : Signature(f) = ExtraSig(f) /\ Behaviour(f) = ExtraRun(f)
  /\ \A f \in Sockets : Signature(f) = SocketSig(f) /\ Behaviour(f) = SocketRun(f)
  /\ \A f \in Threadings : Signature(f) = ThreadingSig(f) /\ Behaviour(f) = ThreadingRun(f)
  /\ \A f \in Servers : Signature(f) = ServerSig(f) /\ Behaviour(f) = ServerRun(f)
  /\ \A f \in Dates : Signature(f) = DateSig(f) /\ Behaviour(f) = DateRun(f)
  /\ \A f \in Archives : Signature(f) = ArchiveSig(f) /\ Behaviour(f) = ArchiveRun(f)
  /\ \A f \in Databases : Signature(f) = DatabaseSig(f) /\ Behaviour(f) = DatabaseRun(f)
<1>1. \A f \in Collections : Signature(f) = CollectionSig(f) /\ Behaviour(f) = CollectionRun(f)
  BY OneGroup DEF Signature, Behaviour
<1>2. \A f \in Numbers : Signature(f) = NumberSig(f) /\ Behaviour(f) = NumberRun(f)
  BY OneGroup DEF Signature, Behaviour
<1>3. \A f \in Consoles : Signature(f) = ConsoleSig(f) /\ Behaviour(f) = ConsoleRun(f)
  BY OneGroup DEF Signature, Behaviour
<1>4. \A f \in Files : Signature(f) = FileSig(f) /\ Behaviour(f) = FileRun(f)
  BY OneGroup DEF Signature, Behaviour
<1>5. \A f \in Processes : Signature(f) = ProcessSig(f) /\ Behaviour(f) = ProcessRun(f)
  BY OneGroup DEF Signature, Behaviour
<1>6. \A f \in Clocks : Signature(f) = ClockSig(f) /\ Behaviour(f) = ClockRun(f)
  BY OneGroup DEF Signature, Behaviour
<1>7. \A f \in Systems : Signature(f) = SystemSig(f) /\ Behaviour(f) = SystemRun(f)
  BY OneGroup DEF Signature, Behaviour
<1>8. \A f \in Extras : Signature(f) = ExtraSig(f) /\ Behaviour(f) = ExtraRun(f)
  BY OneGroup DEF Signature, Behaviour
<1>9. \A f \in Sockets : Signature(f) = SocketSig(f) /\ Behaviour(f) = SocketRun(f)
  BY OneGroup DEF Signature, Behaviour
<1>10. \A f \in Threadings : Signature(f) = ThreadingSig(f) /\ Behaviour(f) = ThreadingRun(f)
  BY OneGroup DEF Signature, Behaviour
<1>11. \A f \in Servers : Signature(f) = ServerSig(f) /\ Behaviour(f) = ServerRun(f)
  BY OneGroup DEF Signature, Behaviour
<1>12. \A f \in Dates : Signature(f) = DateSig(f) /\ Behaviour(f) = DateRun(f)
  BY OneGroup DEF Signature, Behaviour
<1>13. \A f \in Archives : Signature(f) = ArchiveSig(f) /\ Behaviour(f) = ArchiveRun(f)
  BY OneGroup DEF Signature, Behaviour
<1>14. \A f \in Databases : Signature(f) = DatabaseSig(f) /\ Behaviour(f) = DatabaseRun(f)
  BY OneGroup DEF Signature, Behaviour
<1> QED  BY <1>1, <1>2, <1>3, <1>4, <1>5, <1>6, <1>7, <1>8, <1>9, <1>10, <1>11, <1>12, <1>13, <1>14

(* Every row but that of format, which has none.                           *)
LEMMA RowsAgree == \A f \in Builtin \ {"format"} : Agree(f, Signature(f), Behaviour(f))
BY CollectionsAgree, NumbersAgree, ConsolesAgree, FilesAgree, ProcessesAgree, ClocksAgree,
   SystemsAgree, ExtrasAgree, SocketsAgree, ThreadingsAgree, ServersAgree, DatesAgree,
   ArchivesAgree, DatabasesAgree, RowOf
   DEF Builtin

(* The rows that TypeOfCall and ArityOk do not use as they stand.          *)
LEMMA SpecialRows ==
  /\ Len(Signature("http_request").params) = 6
  /\ \A f \in {"abs", "slice"} : 1 \in DOMAIN Signature(f).params
  /\ \A f \in {"min", "max"} : {1, 2} \subseteq DOMAIN Signature(f).params
  /\ \A f \in {"abs", "min", "max"} : \A i \in DOMAIN Signature(f).params :
       Behaviour(f).args[i] = number
  /\ Behaviour("slice").args[1] = {"str", "array"}
<1>1. /\ "http_request" \in Servers /\ "slice" \in Systems
      /\ {"abs", "min", "max"} \subseteq Numbers
  BY DEF Servers, Systems, Numbers
<1>2. Len(ServerSig("http_request").params) = 6
  BY DEF ServerSig, Takes
<1>3. /\ DOMAIN NumberSig("abs").params = 1..1
      /\ \A i \in 1..1 : NumberRun("abs").args[i] = number
  BY DEF NumberSig, NumberRun, Takes, Needs
<1>4. \A f \in {"min", "max"} : /\ DOMAIN NumberSig(f).params = 1..2
                               /\ \A i \in 1..2 : NumberRun(f).args[i] = number
  BY DEF NumberSig, NumberRun, Takes, Needs, Alike
<1>5. 1 \in DOMAIN SystemSig("slice").params /\ SystemRun("slice").args[1] = {"str", "array"}
  BY DEF SystemSig, SystemRun, Takes, Needs
<1> QED  BY <1>1, <1>2, <1>3, <1>4, <1>5, RowOf

(* A call: its argument types, and the kinds of the values that arrive.    *)
Conforms(tys, kinds) ==
  /\ tys \in Seq(AllTypes)
  /\ kinds \in Seq(Kinds)
  /\ Len(kinds) = Len(tys)
  /\ \A i \in DOMAIN tys : kinds[i] \in KindsOf(tys[i])

(* The arguments of an accepted call are those of the rows.                *)
LEMMA ArgumentsInRow ==
  ASSUME NEW f \in Builtin \ {"format"}, NEW tys, NEW kinds,
         Conforms(tys, kinds), CallOk(f, tys)
  PROVE  /\ DOMAIN kinds = DOMAIN tys
         /\ DOMAIN kinds \subseteq DOMAIN Signature(f).params
         /\ DOMAIN kinds \subseteq DOMAIN Behaviour(f).args
         /\ f # "http_request" => DOMAIN kinds = DOMAIN Signature(f).params
<1>1. DOMAIN tys = 1..Len(tys) /\ DOMAIN kinds = 1..Len(tys)
  BY DEF Conforms
<1>2. /\ DOMAIN Signature(f).params = 1..Len(Signature(f).params)
      /\ DOMAIN Behaviour(f).args = DOMAIN Signature(f).params
  BY RowsAgree DEF Agree, Rows
<1>3. CASE f = "http_request"
  <2>1. Len(tys) \in {5, 6}
    BY <1>3 DEF CallOk, ArityOk
  <2>2. DOMAIN Signature(f).params = 1..6
    BY <1>2, <1>3, SpecialRows
  <2>3. \A n \in {5, 6} : 1..n \subseteq 1..6
    OBVIOUS
  <2> QED  BY <1>1, <1>2, <1>3, <2>1, <2>2, <2>3
<1>4. CASE f # "http_request"
  <2>1. Len(tys) = Len(Signature(f).params)
    BY <1>4 DEF CallOk, ArityOk
  <2> QED  BY <1>1, <1>2, <2>1
<1> QED  BY <1>3, <1>4

(* Only an argument whose type the checker does not know can be of a kind  *)
(* that a builtin refuses (check_builtin_call against exec_builtin); int,  *)
(* float, http_json and json_stringify let known types through as well.    *)
THEOREM OnlyUnknownBlamed ==
  ASSUME NEW f \in Builtin \ Lenient, NEW tys, NEW kinds,
         Conforms(tys, kinds), CallOk(f, tys)
  PROVE  \A i \in Blamed(f, kinds) : i \in DOMAIN tys /\ tys[i] = "Unknown"
<1> SUFFICES ASSUME f # "format", NEW i \in Blamed(f, kinds), tys[i] # "Unknown"
             PROVE  FALSE
  BY DEF Blamed, Conforms
<1>1. i \in DOMAIN tys /\ i \in DOMAIN Signature(f).params
  BY ArgumentsInRow DEF Blamed
<1>2. tys[i] \in Signature(f).params[i]
  BY <1>1 DEF CallOk, ArgumentOk
<1>3. KindsOf(tys[i]) \subseteq Behaviour(f).args[i]
  BY <1>1, <1>2, RowsAgree DEF Agree, Covers
<1> QED  BY <1>1, <1>3 DEF Blamed, Conforms

(* A call the checker accepts, with every type known, runs.                *)
THEOREM CheckedCallsRun ==
  ASSUME NEW f \in Builtin \ Lenient, NEW tys, NEW kinds,
         Conforms(tys, kinds), CallOk(f, tys), tys \in Seq(KnownTypes)
  PROVE  Runs(f, kinds)
<1>1. "Unknown" \notin KnownTypes
  BY DEF KnownTypes
<1>2. \A i \in DOMAIN tys : tys[i] \in KnownTypes
  OBVIOUS
<1> QED  BY <1>1, <1>2, OnlyUnknownBlamed DEF Runs

(* The exceptions are real: each takes a type with a kind that fails.      *)
THEOREM LenientRefuse == \A f \in Lenient : ~Covers(Signature(f), Behaviour(f))
<1>1. {"int", "float"} \subseteq Collections /\ {"http_json", "json_stringify"} \subseteq Servers
  BY DEF Collections, Servers
<1>2. \A f \in {"int", "float"} : ~Covers(CollectionSig(f), CollectionRun(f))
  <2> SUFFICES ASSUME NEW f \in {"int", "float"}
               PROVE  ~Covers(CollectionSig(f), CollectionRun(f))
    OBVIOUS
  <2>1. 1 \in DOMAIN CollectionSig(f).params /\ "Map" \in CollectionSig(f).params[1]
    BY DEF CollectionSig, Takes, Anything, KnownTypes
  <2>2. ~(KindsOf("Map") \subseteq CollectionRun(f).args[1])
    BY KindsOfTypes DEF CollectionRun, Needs, number
  <2> QED  BY <2>1, <2>2 DEF Covers
<1>3. \A f \in {"http_json", "json_stringify"} : ~Covers(ServerSig(f), ServerRun(f))
  <2> SUFFICES ASSUME NEW f \in {"http_json", "json_stringify"}
               PROVE  ~Covers(ServerSig(f), ServerRun(f))
    OBVIOUS
  <2> DEFINE i == IF f = "http_json" THEN 2 ELSE 1
  <2>1. i \in DOMAIN ServerSig(f).params /\ "Closure" \in ServerSig(f).params[i]
    BY DEF ServerSig, Takes, Anything, KnownTypes
  <2>2. ~(KindsOf("Closure") \subseteq ServerRun(f).args[i])
    BY KindsOfTypes DEF ServerRun, Needs, Jsonable, Handles
  <2> QED  BY <2>1, <2>2 DEF Covers
<1> QED  BY <1>1, <1>2, <1>3, RowOf DEF Lenient

(* What a call returns is of the type the checker gave it, and of any kind *)
(* where that is Unknown (the last expressions of check_builtin_call).     *)
THEOREM CallsConform ==
  ASSUME NEW f \in Builtin, NEW tys, NEW kinds,
         Conforms(tys, kinds), CallOk(f, tys), Runs(f, kinds)
  PROVE  KindsOfResult(f, kinds) \subseteq KindsOf(TypeOfCall(f, tys))
<1>1. CASE f = "format"
  BY <1>1, KindsOfTypes DEF KindsOfResult, TypeOfCall
<1>2. CASE f \in {"abs", "min", "max", "slice"}
  <2>1. DOMAIN kinds = DOMAIN Signature(f).params /\ DOMAIN kinds = DOMAIN tys
    BY <1>2, ArgumentsInRow
  <2>2. \A i \in DOMAIN kinds : kinds[i] \in Behaviour(f).args[i] /\ kinds[i] \in KindsOf(tys[i])
    BY <1>2, <2>1 DEF Runs, Blamed, Conforms
  <2>3. CASE f = "abs"
    <3>1. 1 \in DOMAIN kinds /\ Behaviour(f).args[1] = number
      BY <2>1, <2>3, SpecialRows
    <3>2. kinds[1] \in number /\ kinds[1] \in KindsOf(tys[1])
      BY <2>2, <3>1
    <3>3. KindsOfResult(f, kinds) = {kinds[1]}
      BY <2>3 DEF KindsOfResult
    <3>4. TypeOfCall(f, tys) = IF tys[1] = "Int" THEN "Int" ELSE "Float"
      BY <2>3 DEF TypeOfCall
    <3> QED  BY <3>2, <3>3, <3>4, KindsOfTypes DEF number
  <2>4. CASE f \in {"min", "max"}
    <3>1. /\ kinds[1] \in KindsOf(tys[1])
          /\ kinds[2] \in KindsOf(tys[2])
      BY <2>1, <2>2, <2>4, SpecialRows
    <3>2. KindsOfResult(f, kinds)
            = IF kinds[1] = "int" /\ kinds[2] = "int" THEN {"int"} ELSE {"float"}
      BY <2>4 DEF KindsOfResult
    <3>3. TypeOfCall(f, tys) = IF tys[1] = "Int" /\ tys[2] = "Int" THEN "Int" ELSE "Float"
      BY <2>4 DEF TypeOfCall
    <3> QED  BY <3>1, <3>2, <3>3, KindsOfTypes
  <2>5. CASE f = "slice"
    <3>1. kinds[1] \in KindsOf(tys[1]) /\ kinds[1] \in Kinds
      BY <2>1, <2>2, <2>5, SpecialRows, KindsOfTypes
    <3>2. KindsOfResult(f, kinds) = {kinds[1]}
      BY <2>5 DEF KindsOfResult
    <3>3. TypeOfCall(f, tys) = IF tys[1] \in {"Str", "Array"} THEN tys[1] ELSE "Unknown"
      BY <2>5 DEF TypeOfCall
    <3> QED  BY <3>1, <3>2, <3>3, KindsOfTypes
  <2> QED  BY <1>2, <2>3, <2>4, <2>5
<1>3. CASE f \notin {"format", "abs", "min", "max", "slice"}
  <2>1. /\ KindsOfResult(f, kinds) = Behaviour(f).gives
        /\ TypeOfCall(f, tys) = Signature(f).ret
    BY <1>3 DEF KindsOfResult, TypeOfCall
  <2> QED  BY <1>3, <2>1, RowsAgree DEF Agree, Typed
<1> QED  BY <1>1, <1>2, <1>3

---------------------------------------------------------------------------
(* Methods.                                                                *)

(* The method tables: as many arguments, and results of the type promised. *)
LEMMA MethodRows ==
  \A ty \in {"Str", "Array", "Map"}, kind \in Kinds : kind \in KindsOf(ty) =>
    /\ MethodsOfKind(kind) = MethodsOf(ty)
    /\ \A m \in MethodsOf(ty) :
         /\ Len(MethodBehaviour(kind, m).args) = Method(ty, m).arity
         /\ MethodBehaviour(kind, m).gives \subseteq KindsOf(Method(ty, m).ret)
         /\ m \notin LenientMethods =>
              \A i \in 1..Method(ty, m).arity : MethodBehaviour(kind, m).args[i] = Kinds
<1>1. ASSUME NEW m \in MethodsOf("Str")
      PROVE  /\ Len(StrRun(m).args) = StrMethod(m).arity
             /\ StrRun(m).gives \subseteq KindsOf(StrMethod(m).ret)
             /\ m \notin LenientMethods => \A i \in 1..StrMethod(m).arity : StrRun(m).args[i] = Kinds
  BY KindsOfTypes DEF MethodsOf, StrRun, StrMethod, Needs, Alike, Arity, LenientMethods
<1>2. ASSUME NEW m \in MethodsOf("Array")
      PROVE  /\ Len(ArrayRun(m).args) = ArrayMethod(m).arity
             /\ ArrayRun(m).gives \subseteq KindsOf(ArrayMethod(m).ret)
             /\ \A i \in 1..ArrayMethod(m).arity : ArrayRun(m).args[i] = Kinds
  BY KindsOfTypes DEF MethodsOf, ArrayRun, ArrayMethod, Needs, Alike, Arity
<1>3. ASSUME NEW m \in MethodsOf("Map")
      PROVE  /\ Len(MapRun(m).args) = MapMethod(m).arity
             /\ MapRun(m).gives \subseteq KindsOf(MapMethod(m).ret)
             /\ \A i \in 1..MapMethod(m).arity : MapRun(m).args[i] = Kinds
  BY KindsOfTypes DEF MethodsOf, MapRun, MapMethod, Needs, Alike, Arity
<1> QED  BY <1>1, <1>2, <1>3, KindsOfTypes DEF MethodBehaviour, Method, MethodsOfKind, MethodsOf

(* A method call the checker accepts on a string, an array or a map finds  *)
(* its method and its arguments in the interpreter, and returns what the   *)
(* checker says (check_method_call against exec_method).  repeat and the   *)
(* two pads refuse kinds the checker does not look at.                     *)
THEOREM CheckedMethodsRun ==
  ASSUME NEW ty \in {"Str", "Array", "Map"}, NEW m, NEW kind \in KindsOf(ty),
         NEW kinds \in Seq(Kinds), MethodOk(ty, m, Len(kinds))
  PROVE  /\ m \notin LenientMethods => MethodAccepts(kind, m, kinds)
         /\ MethodBehaviour(kind, m).gives \subseteq KindsOf(TypeOfMethod(ty, m))
<1>1. m \in MethodsOf(ty) /\ Len(kinds) = Method(ty, m).arity /\ ty # "Unknown"
  BY DEF MethodOk
<1>2. kind \in Kinds
  BY KindsOfTypes
<1> QED  BY <1>1, <1>2, MethodRows DEF MethodAccepts, TypeOfMethod
=============================================================================
