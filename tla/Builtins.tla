------------------------------ MODULE Builtins ------------------------------
(***************************************************************************)
(* The builtin functions and the methods of strings, arrays and maps, seen *)
(* twice: by the static checker (check_builtin_call and check_method_call  *)
(* of src/src/hir.rs), which types a call, and by the interpreter          *)
(* (exec_builtin and exec_method of src/src/runtime/mod.rs), which looks   *)
(* at the values that arrive.  The two tables are written by hand in the   *)
(* code, a thousand lines apart; BuiltinsProofs shows that they agree.     *)
(*                                                                         *)
(* A type is a name; a value counts only by its kind, the variant of       *)
(* runtime Value it is.  What depends on the content of a value (an index, *)
(* a path, the text of a number), the errors of the operating system and   *)
(* the refusals of the sandbox are left out.                               *)
(***************************************************************************)
EXTENDS Integers, Sequences

(* Types.  A Closure has any number of parameters but one, a Key has one;  *)
(* Nominal stands for the structs and the enums.                           *)
KnownTypes == {"Int", "Float", "Str", "Bool", "Array", "Map", "Nominal", "Closure", "Key", "Void"}
AllTypes == KnownTypes \cup {"Unknown"}

Handles == {"listener", "conn", "udpsock", "thread", "chan", "server", "pg"}
Kinds == {"int", "float", "str", "array", "map", "struct", "closure", "null"} \cup Handles

(* The kinds of the values that a type stands for.  A Bool is an Int at    *)
(* run time, and a Float may be one (abs, min and max keep an Int).        *)
KindsOf(ty) ==
  CASE ty \in {"Int", "Bool", "Void"} -> {"int"}
    [] ty = "Float" -> {"float", "int"}
    [] ty = "Str" -> {"str"}
    [] ty = "Array" -> {"array"}
    [] ty = "Map" -> {"map"}
    [] ty = "Nominal" -> {"struct"}
    [] ty \in {"Closure", "Key"} -> {"closure"}
    [] OTHER -> Kinds

(* A row of the checker: for each argument the types it takes besides      *)
(* Unknown, and the type of the call.  A row of the interpreter: for each  *)
(* argument the kinds that raise no error, and the kinds of the result.    *)
Takes(params, ret) == [params |-> params, ret |-> ret]
Needs(args, gives) == [args |-> args, gives |-> gives]

Number == {"Int", "Float"}
Opened == {}                       \* a handle has no type of its own
Anything == KnownTypes
number == {"int", "float"}
Alike(n, x) == [i \in 1..n |-> x]  \* the same for n arguments

---------------------------------------------------------------------------
(* Collections and conversions.                                            *)
Collections == {"len", "push", "insert", "pop", "range", "str", "int", "float", "format"}
CollectionSig(f) ==
  CASE f = "len"    -> Takes(<<{"Array", "Str", "Map"}>>, "Int")
    [] f = "push"   -> Takes(<<{"Array"}, Anything>>, "Int")
    [] f = "insert" -> Takes(<<{"Array"}, {"Int"}, Anything>>, "Int")
    [] f = "pop"    -> Takes(<<{"Array"}>>, "Unknown")
    [] f = "range"  -> Takes(Alike(2, {"Int"}), "Array")
    [] f = "str"    -> Takes(<<Anything>>, "Str")
    [] f = "int"    -> Takes(<<Anything>>, "Int")
    [] f = "float"  -> Takes(<<Anything>>, "Float")
CollectionRun(f) ==
  CASE f = "len"    -> Needs(<<{"array", "str", "map"}>>, {"int"})
    [] f = "push"   -> Needs(<<{"array"}, Kinds>>, {"int"})
    [] f = "insert" -> Needs(<<{"array"}, Kinds, Kinds>>, {"int"})
    [] f = "pop"    -> Needs(<<{"array"}>>, Kinds)
    [] f = "range"  -> Needs(Alike(2, Kinds), {"array"})
    [] f = "str"    -> Needs(<<Kinds>>, {"str"})
    [] f = "int"    -> Needs(<<number \cup {"str"}>>, {"int"})
    [] f = "float"  -> Needs(<<number \cup {"str"}>>, {"float"})

(* Float math, hashes and the seeds of the operating system.  The result   *)
(* of abs, min and max also depends on the arguments (TypeOfCall, KindsOf- *)
(* Result).                                                                *)
Numbers == {"sqrt", "sin", "cos", "tan", "log", "exp", "floor", "ceil", "pow", "atan2", "abs",
            "min", "max", "random_int", "random_float", "sha256", "hmac_sha256"}
NumberSig(f) ==
  CASE f \in {"sqrt", "sin", "cos", "tan", "log", "exp", "floor", "ceil", "abs"} ->
              Takes(<<Number>>, "Float")
    [] f \in {"pow", "atan2", "min", "max"} -> Takes(Alike(2, Number), "Float")
    [] f = "random_int"   -> Takes(Alike(2, {"Int"}), "Int")
    [] f = "random_float" -> Takes(<<>>, "Float")
    [] f = "sha256"       -> Takes(<<{"Str"}>>, "Str")
    [] f = "hmac_sha256"  -> Takes(Alike(2, {"Str"}), "Str")
NumberRun(f) ==
  CASE f \in {"sqrt", "sin", "cos", "tan", "log", "exp", "floor", "ceil"} ->
              Needs(<<number>>, {"float"})
    [] f = "abs"          -> Needs(<<number>>, number)
    [] f \in {"pow", "atan2"} -> Needs(Alike(2, number), {"float"})
    [] f \in {"min", "max"}   -> Needs(Alike(2, number), number)
    [] f = "random_int"   -> Needs(Alike(2, {"int"}), {"int"})
    [] f = "random_float" -> Needs(<<>>, {"float"})
    [] f = "sha256"       -> Needs(<<{"str"}>>, {"str"})
    [] f = "hmac_sha256"  -> Needs(Alike(2, {"str"}), {"str"})

(* Console, parsing and checks.                                            *)
Consoles == {"read_line", "is_eof", "print_raw", "chdir", "sort_by", "parse_int", "parse_float",
             "keys", "assert"}
ConsoleSig(f) ==
  CASE f = "read_line"   -> Takes(<<>>, "Str")
    [] f = "is_eof"      -> Takes(<<>>, "Bool")
    [] f = "print_raw"   -> Takes(<<Anything>>, "Int")
    [] f = "chdir"       -> Takes(<<{"Str"}>>, "Int")
    [] f = "sort_by"     -> Takes(<<{"Array"}, {"Key"}>>, "Array")
    [] f = "parse_int"   -> Takes(<<{"Str"}>>, "Int")
    [] f = "parse_float" -> Takes(<<{"Str"}>>, "Float")
    [] f = "keys"        -> Takes(<<{"Map"}>>, "Array")
    [] f = "assert"      -> Takes(<<{"Bool", "Int"}>>, "Int")
ConsoleRun(f) ==
  CASE f = "read_line"   -> Needs(<<>>, {"str"})
    [] f = "is_eof"      -> Needs(<<>>, {"int"})
    [] f = "print_raw"   -> Needs(<<Kinds>>, {"int"})
    [] f = "chdir"       -> Needs(<<Kinds>>, {"int"})
    [] f = "sort_by"     -> Needs(<<{"array"}, {"closure"}>>, {"array"})
    [] f = "parse_int"   -> Needs(<<number \cup {"str"}>>, {"int"})
    [] f = "parse_float" -> Needs(<<number \cup {"str"}>>, {"float"})
    [] f = "keys"        -> Needs(<<{"map"}>>, {"array"})
    [] f = "assert"      -> Needs(<<Kinds>>, {"int"})

(* Files and the environment.  The interpreter renders any value into a    *)
(* path or a name.                                                         *)
Files == {"read_file", "write_file", "append_file", "exists", "remove_file", "env", "get_env"}
FileSig(f) ==
  CASE f \in {"read_file", "env", "get_env"} -> Takes(<<{"Str"}>>, "Str")
    [] f \in {"write_file", "append_file"} -> Takes(Alike(2, {"Str"}), "Int")
    [] f = "exists"      -> Takes(<<{"Str"}>>, "Bool")
    [] f = "remove_file" -> Takes(<<{"Str"}>>, "Int")
FileRun(f) ==
  CASE f \in {"read_file", "env", "get_env"} -> Needs(<<Kinds>>, {"str"})
    [] f \in {"write_file", "append_file"} -> Needs(Alike(2, Kinds), {"int"})
    [] f \in {"exists", "remove_file"} -> Needs(<<Kinds>>, {"int"})

(* Processes and regular expressions.                                      *)
Processes == {"run_process", "spawn", "run", "regex_is_match", "regex_find"}
ProcessSig(f) ==
  CASE f \in {"run_process", "spawn"} -> Takes(<<{"Str"}, {"Array"}>>, "Map")
    [] f = "run"            -> Takes(<<{"Str"}, {"Array"}>>, "Int")
    [] f = "regex_is_match" -> Takes(Alike(2, {"Str"}), "Bool")
    [] f = "regex_find"     -> Takes(Alike(2, {"Str"}), "Map")
ProcessRun(f) ==
  CASE f \in {"run_process", "spawn"} -> Needs(<<Kinds, {"array"}>>, {"map"})
    [] f = "run"            -> Needs(<<Kinds, {"array"}>>, {"int"})
    [] f = "regex_is_match" -> Needs(Alike(2, Kinds), {"int"})
    [] f = "regex_find"     -> Needs(Alike(2, Kinds), {"map"})

(* Clocks and the HTTP client.                                             *)
Clocks == {"time_sleep", "sleep_ms", "time_now", "now_ms", "now_iso", "time_elapsed", "http_get",
           "http_get_async", "http_post", "http_post_async"}
ClockSig(f) ==
  CASE f \in {"time_sleep", "sleep_ms"} -> Takes(<<Number>>, "Int")
    [] f = "time_now"     -> Takes(<<>>, "Float")
    [] f = "now_ms"       -> Takes(<<>>, "Int")
    [] f = "now_iso"      -> Takes(<<>>, "Str")
    [] f = "time_elapsed" -> Takes(<<Number>>, "Float")
    [] f \in {"http_get", "http_get_async"}   -> Takes(<<{"Str"}>>, "Map")
    [] f \in {"http_post", "http_post_async"} -> Takes(<<{"Str"}, {"Str"}, {"Array"}>>, "Map")
ClockRun(f) ==
  CASE f \in {"time_sleep", "sleep_ms"} -> Needs(<<number>>, {"int"})
    [] f = "time_now"     -> Needs(<<>>, {"float"})
    [] f = "now_ms"       -> Needs(<<>>, {"int"})
    [] f = "now_iso"      -> Needs(<<>>, {"str"})
    [] f = "time_elapsed" -> Needs(<<number>>, {"float"})
    [] f \in {"http_get", "http_get_async"}   -> Needs(<<Kinds>>, {"map"})
    [] f \in {"http_post", "http_post_async"} -> Needs(<<Kinds, Kinds, {"array"}>>, {"map"})

(* The program, directories, sequences of characters and sorting.          *)
Systems == {"args", "exit", "cwd", "set_env", "list_dir", "make_dir", "make_dirs", "is_dir",
            "is_file", "rename_file", "copy_file", "file_size", "ord", "chr", "slice", "sort"}
SystemSig(f) ==
  CASE f = "args"      -> Takes(<<>>, "Array")
    [] f = "exit"      -> Takes(<<{"Int"}>>, "Int")
    [] f = "cwd"       -> Takes(<<>>, "Str")
    [] f \in {"set_env", "rename_file", "copy_file"} -> Takes(Alike(2, {"Str"}), "Int")
    [] f = "list_dir"  -> Takes(<<{"Str"}>>, "Array")
    [] f \in {"make_dir", "make_dirs", "file_size", "ord"} -> Takes(<<{"Str"}>>, "Int")
    [] f \in {"is_dir", "is_file"} -> Takes(<<{"Str"}>>, "Bool")
    [] f = "chr"       -> Takes(<<{"Int"}>>, "Str")
    [] f = "slice"     -> Takes(<<{"Str", "Array"}, {"Int"}, {"Int"}>>, "Unknown")
    [] f = "sort"      -> Takes(<<{"Array"}>>, "Array")
SystemRun(f) ==                    \* exit gives nothing: it ends the program
  CASE f = "args"      -> Needs(<<>>, {"array"})
    [] f = "exit"      -> Needs(<<Kinds>>, {})
    [] f = "cwd"       -> Needs(<<>>, {"str"})
    [] f \in {"set_env", "rename_file", "copy_file"} -> Needs(Alike(2, Kinds), {"int"})
    [] f = "list_dir"  -> Needs(<<Kinds>>, {"array"})
    [] f \in {"make_dir", "make_dirs", "file_size", "is_dir", "is_file"} -> Needs(<<Kinds>>, {"int"})
    [] f = "ord"       -> Needs(<<{"str"}>>, {"int"})
    [] f = "chr"       -> Needs(<<Kinds>>, {"str"})
    [] f = "slice"     -> Needs(<<{"str", "array"}, Kinds, Kinds>>, {"str", "array"})
    [] f = "sort"      -> Needs(<<{"array"}>>, {"array"})

(* More of regular expressions, files and formats; seeded random numbers.  *)
Extras == {"regex_find_all", "regex_replace", "uuid_v4", "path_absolute", "file_mtime", "sprintf",
           "random_seed", "random_seeded_int", "random_seeded_float"}
ExtraSig(f) ==
  CASE f = "regex_find_all"      -> Takes(Alike(2, {"Str"}), "Array")
    [] f = "regex_replace"       -> Takes(Alike(3, {"Str"}), "Str")
    [] f = "uuid_v4"             -> Takes(<<>>, "Str")
    [] f = "path_absolute"       -> Takes(<<{"Str"}>>, "Str")
    [] f = "file_mtime"          -> Takes(<<{"Str"}>>, "Float")
    [] f = "sprintf"             -> Takes(<<{"Str"}, {"Array"}>>, "Str")
    [] f = "random_seed"         -> Takes(<<{"Int"}>>, "Int")
    [] f = "random_seeded_int"   -> Takes(Alike(2, {"Int"}), "Int")
    [] f = "random_seeded_float" -> Takes(<<>>, "Float")
ExtraRun(f) ==
  CASE f = "regex_find_all"      -> Needs(Alike(2, Kinds), {"array"})
    [] f = "regex_replace"       -> Needs(Alike(3, Kinds), {"str"})
    [] f = "uuid_v4"             -> Needs(<<>>, {"str"})
    [] f = "path_absolute"       -> Needs(<<Kinds>>, {"str"})
    [] f = "file_mtime"          -> Needs(<<Kinds>>, {"float"})
    [] f = "sprintf"             -> Needs(<<Kinds, {"array"}>>, {"str"})
    [] f = "random_seed"         -> Needs(<<{"int"}>>, {"int"})
    [] f = "random_seeded_int"   -> Needs(Alike(2, {"int"}), {"int"})
    [] f = "random_seeded_float" -> Needs(<<>>, {"float"})

(* Sockets.                                                                *)
Sockets == {"tcp_listen", "listener_port", "tcp_accept", "tcp_accept_timeout", "tcp_connect",
            "conn_read", "conn_read_hex", "conn_read_line", "conn_write", "conn_write_hex",
            "conn_close", "conn_set_timeout", "conn_peer"}
SocketSig(f) ==
  CASE f = "tcp_listen"         -> Takes(<<{"Str"}, {"Int"}>>, "Unknown")
    [] f = "listener_port"      -> Takes(<<Opened>>, "Int")
    [] f = "tcp_accept"         -> Takes(<<Opened>>, "Unknown")
    [] f = "tcp_accept_timeout" -> Takes(<<Opened, {"Int"}>>, "Unknown")
    [] f = "tcp_connect"        -> Takes(<<{"Str"}, {"Int"}, {"Int"}>>, "Unknown")
    [] f \in {"conn_read", "conn_read_hex"}   -> Takes(<<Opened, {"Int"}>>, "Str")
    [] f = "conn_read_line"     -> Takes(<<Opened>>, "Unknown")
    [] f \in {"conn_write", "conn_write_hex"} -> Takes(<<Opened, {"Str"}>>, "Int")
    [] f = "conn_close"         -> Takes(<<Opened>>, "Int")
    [] f = "conn_set_timeout"   -> Takes(<<Opened, {"Int"}>>, "Int")
    [] f = "conn_peer"          -> Takes(<<Opened>>, "Str")
SocketRun(f) ==
  CASE f = "tcp_listen"         -> Needs(<<Kinds, {"int"}>>, {"listener"})
    [] f = "listener_port"      -> Needs(<<{"listener"}>>, {"int"})
    [] f = "tcp_accept"         -> Needs(<<{"listener"}>>, {"conn"})
    [] f = "tcp_accept_timeout" -> Needs(<<{"listener"}, {"int"}>>, {"conn", "null"})
    [] f = "tcp_connect"        -> Needs(<<Kinds, {"int"}, {"int"}>>, {"conn"})
    [] f \in {"conn_read", "conn_read_hex"}   -> Needs(<<{"conn"}, {"int"}>>, {"str"})
    [] f = "conn_read_line"     -> Needs(<<{"conn"}>>, {"str", "null"})
    [] f \in {"conn_write", "conn_write_hex"} -> Needs(<<{"conn"}, Kinds>>, {"int"})
    [] f = "conn_close"         -> Needs(<<{"conn", "listener", "udpsock", "chan"}>>, {"int"})
    [] f = "conn_set_timeout"   -> Needs(<<{"conn"}, {"int"}>>, {"int"})
    [] f = "conn_peer"          -> Needs(<<{"conn"}>>, {"str"})

(* Datagrams, threads, channels and signals.  What a thread returns and    *)
(* what a channel carries is any value.                                    *)
Threadings == {"udp_bind", "udp_send_to", "udp_recv_from", "dns_lookup", "is_null", "thread_spawn",
               "thread_join", "thread_id", "chan", "send", "recv", "recv_timeout", "try_recv",
               "close", "signal_watch", "signal_pending"}
ThreadingSig(f) ==
  CASE f = "udp_bind"       -> Takes(<<{"Str"}, {"Int"}>>, "Unknown")
    [] f = "udp_send_to"    -> Takes(<<Opened, {"Str"}, {"Int"}, {"Str"}>>, "Int")
    [] f = "udp_recv_from"  -> Takes(<<Opened, {"Int"}, {"Int"}>>, "Map")
    [] f = "dns_lookup"     -> Takes(<<{"Str"}>>, "Array")
    [] f = "is_null"        -> Takes(<<Anything>>, "Bool")
    [] f = "thread_spawn"   -> Takes(<<{"Str"}, {"Array"}>>, "Unknown")
    [] f \in {"thread_join", "recv", "try_recv"} -> Takes(<<Opened>>, "Unknown")
    [] f = "thread_id"      -> Takes(<<>>, "Int")
    [] f = "chan"           -> Takes(<<{"Int"}>>, "Unknown")
    [] f = "send"           -> Takes(<<Opened, Anything>>, "Int")
    [] f = "recv_timeout"   -> Takes(<<Opened, {"Int"}>>, "Unknown")
    [] f = "close"          -> Takes(<<Opened>>, "Int")
    [] f = "signal_watch"   -> Takes(<<{"Str"}>>, "Int")
    [] f = "signal_pending" -> Takes(<<{"Str"}>>, "Bool")
ThreadingRun(f) ==
  CASE f = "udp_bind"       -> Needs(<<Kinds, {"int"}>>, {"udpsock"})
    [] f = "udp_send_to"    -> Needs(<<{"udpsock"}, Kinds, {"int"}, Kinds>>, {"int"})
    [] f = "udp_recv_from"  -> Needs(<<{"udpsock"}, {"int"}, {"int"}>>, {"map"})
    [] f = "dns_lookup"     -> Needs(<<Kinds>>, {"array"})
    [] f = "is_null"        -> Needs(<<Kinds>>, {"int"})
    [] f = "thread_spawn"   -> Needs(<<{"str"}, {"array"}>>, {"thread"})
    [] f = "thread_join"    -> Needs(<<{"thread"}>>, Kinds)
    [] f \in {"recv", "try_recv"} -> Needs(<<{"chan"}>>, Kinds)
    [] f = "thread_id"      -> Needs(<<>>, {"int"})
    [] f = "chan"           -> Needs(<<{"int"}>>, {"chan"})
    [] f = "send"           -> Needs(<<{"chan"}, Kinds>>, {"int"})
    [] f = "recv_timeout"   -> Needs(<<{"chan"}, {"int"}>>, Kinds)
    [] f = "close"          -> Needs(<<{"chan"}>>, {"int"})
    [] f \in {"signal_watch", "signal_pending"} -> Needs(<<Kinds>>, {"int"})

(* The HTTP server, its responses and JSON.  A closure and a handle have   *)
(* no JSON.                                                                *)
Servers == {"http_serve", "server_port", "http_stop", "http_request", "http_json", "http_text",
            "http_redirect", "route_match", "json_decode", "json_stringify"}
Jsonable == Kinds \ ({"closure"} \cup Handles)
ServerSig(f) ==
  CASE f = "http_serve"     -> Takes(<<{"Str"}, {"Int"}, {"Str"}, {"Map"}>>, "Unknown")
    [] f \in {"server_port", "http_stop"} -> Takes(<<Opened>>, "Int")
    [] f = "http_request"   -> Takes(<<{"Str"}, {"Str"}, {"Map"}, {"Str"}, {"Int"}, {"Map"}>>, "Map")
    [] f = "http_json"      -> Takes(<<{"Int"}, Anything>>, "Map")
    [] f = "http_text"      -> Takes(<<{"Int"}, {"Str"}>>, "Map")
    [] f = "http_redirect"  -> Takes(<<{"Str"}>>, "Map")
    [] f = "route_match"    -> Takes(Alike(2, {"Str"}), "Unknown")
    [] f = "json_decode"    -> Takes(<<{"Str"}>>, "Unknown")
    [] f = "json_stringify" -> Takes(<<Anything, {"Int"}>>, "Str")
ServerRun(f) ==
  CASE f = "http_serve"     -> Needs(<<{"str"}, {"int"}, {"str"}, {"map"}>>, {"server"})
    [] f \in {"server_port", "http_stop"} -> Needs(<<{"server"}>>, {"int"})
    [] f = "http_request"   -> Needs(<<{"str"}, {"str"}, {"map"}, {"str"}, {"int"}, {"map"}>>, {"map"})
    [] f = "http_json"      -> Needs(<<{"int"}, Jsonable>>, {"map"})
    [] f = "http_text"      -> Needs(<<{"int"}, {"str"}>>, {"map"})
    [] f = "http_redirect"  -> Needs(<<{"str"}>>, {"map"})
    [] f = "route_match"    -> Needs(Alike(2, {"str"}), {"map", "null"})
    [] f = "json_decode"    -> Needs(<<{"str"}>>, {"null", "int", "float", "str", "array", "map"})
    [] f = "json_stringify" -> Needs(<<Jsonable, {"int"}>>, {"str"})

(* Dates: an instant is an Int, its parts are a Map.                       *)
Dates == {"dt_now", "dt_parse_iso", "dt_format", "dt_add", "dt_diff_ms", "dt_parts",
          "dt_parts_offset", "dt_from_parts", "dt_local_offset_minutes", "dt_is_leap",
          "dt_days_in_month"}
DateSig(f) ==
  CASE f \in {"dt_now", "dt_local_offset_minutes"} -> Takes(<<>>, "Int")
    [] f = "dt_parse_iso"    -> Takes(<<{"Str"}>>, "Int")
    [] f = "dt_format"       -> Takes(<<{"Int"}, {"Str"}>>, "Str")
    [] f = "dt_add"          -> Takes(<<{"Int"}, {"Map"}>>, "Int")
    [] f \in {"dt_diff_ms", "dt_days_in_month"} -> Takes(Alike(2, {"Int"}), "Int")
    [] f = "dt_parts"        -> Takes(<<{"Int"}>>, "Map")
    [] f = "dt_parts_offset" -> Takes(Alike(2, {"Int"}), "Map")
    [] f = "dt_from_parts"   -> Takes(Alike(6, {"Int"}), "Int")
    [] f = "dt_is_leap"      -> Takes(<<{"Int"}>>, "Bool")
DateRun(f) ==
  CASE f \in {"dt_now", "dt_local_offset_minutes"} -> Needs(<<>>, {"int"})
    [] f = "dt_parse_iso"    -> Needs(<<{"str"}>>, {"int"})
    [] f = "dt_format"       -> Needs(<<{"int"}, {"str"}>>, {"str"})
    [] f = "dt_add"          -> Needs(<<{"int"}, {"map"}>>, {"int"})
    [] f \in {"dt_diff_ms", "dt_days_in_month"} -> Needs(Alike(2, {"int"}), {"int"})
    [] f = "dt_parts"        -> Needs(<<{"int"}>>, {"map"})
    [] f = "dt_parts_offset" -> Needs(Alike(2, {"int"}), {"map"})
    [] f = "dt_from_parts"   -> Needs(Alike(6, {"int"}), {"int"})
    [] f = "dt_is_leap"      -> Needs(<<{"int"}>>, {"int"})

(* Compression: strings hold hexadecimal digits, files go by their paths.  *)
Archives == {"gzip_compress", "gzip_decompress", "zlib_compress", "zlib_decompress", "gzip_file",
             "gunzip_file", "zlib_file", "unzlib_file", "tar_create", "tar_extract",
             "tar_extract_limit"}
ArchiveSig(f) ==
  CASE f \in {"gzip_compress", "gzip_decompress", "zlib_compress", "zlib_decompress"} ->
              Takes(<<{"Str"}>>, "Str")
    [] f \in {"gzip_file", "gunzip_file", "zlib_file", "unzlib_file", "tar_create", "tar_extract"} ->
              Takes(Alike(2, {"Str"}), "Int")
    [] f = "tar_extract_limit" -> Takes(<<{"Str"}, {"Str"}, {"Int"}>>, "Int")
ArchiveRun(f) ==
  CASE f \in {"gzip_compress", "gzip_decompress", "zlib_compress", "zlib_decompress"} ->
              Needs(<<{"str"}>>, {"str"})
    [] f \in {"gzip_file", "gunzip_file", "zlib_file", "unzlib_file", "tar_create", "tar_extract"} ->
              Needs(Alike(2, Kinds), {"int"})
    [] f = "tar_extract_limit" -> Needs(<<Kinds, Kinds, {"int"}>>, {"int"})

(* PostgreSQL.                                                             *)
Databases == {"pg_connect", "pg_exec", "pg_query", "pg_begin", "pg_commit", "pg_rollback", "pg_close"}
DatabaseSig(f) ==
  CASE f = "pg_connect" -> Takes(<<{"Str"}>>, "Unknown")
    [] f = "pg_exec"    -> Takes(<<Opened, {"Str"}, {"Array"}>>, "Map")
    [] f = "pg_query"   -> Takes(<<Opened, {"Str"}, {"Array"}>>, "Array")
    [] f \in {"pg_begin", "pg_commit", "pg_rollback", "pg_close"} -> Takes(<<Opened>>, "Int")
DatabaseRun(f) ==
  CASE f = "pg_connect" -> Needs(<<{"str"}>>, {"pg"})
    [] f = "pg_exec"    -> Needs(<<{"pg"}, {"str"}, {"array"}>>, {"map"})
    [] f = "pg_query"   -> Needs(<<{"pg"}, {"str"}, {"array"}>>, {"array"})
    [] f \in {"pg_begin", "pg_commit", "pg_rollback", "pg_close"} -> Needs(<<{"pg"}>>, {"int"})

---------------------------------------------------------------------------
Builtin == Collections \cup Numbers \cup Consoles \cup Files \cup Processes \cup Clocks \cup Systems
           \cup Extras \cup Sockets \cup Threadings \cup Servers \cup Dates \cup Archives
           \cup Databases

(* The row of a builtin of fixed arity in each table.                      *)
Signature(f) ==
  CASE f \in Collections -> CollectionSig(f)
    [] f \in Numbers     -> NumberSig(f)
    [] f \in Consoles    -> ConsoleSig(f)
    [] f \in Files       -> FileSig(f)
    [] f \in Processes   -> ProcessSig(f)
    [] f \in Clocks      -> ClockSig(f)
    [] f \in Systems     -> SystemSig(f)
    [] f \in Extras      -> ExtraSig(f)
    [] f \in Sockets     -> SocketSig(f)
    [] f \in Threadings  -> ThreadingSig(f)
    [] f \in Servers     -> ServerSig(f)
    [] f \in Dates       -> DateSig(f)
    [] f \in Archives    -> ArchiveSig(f)
    [] f \in Databases   -> DatabaseSig(f)
Behaviour(f) ==
  CASE f \in Collections -> CollectionRun(f)
    [] f \in Numbers     -> NumberRun(f)
    [] f \in Consoles    -> ConsoleRun(f)
    [] f \in Files       -> FileRun(f)
    [] f \in Processes   -> ProcessRun(f)
    [] f \in Clocks      -> ClockRun(f)
    [] f \in Systems     -> SystemRun(f)
    [] f \in Extras      -> ExtraRun(f)
    [] f \in Sockets     -> SocketRun(f)
    [] f \in Threadings  -> ThreadingRun(f)
    [] f \in Servers     -> ServerRun(f)
    [] f \in Dates       -> DateRun(f)
    [] f \in Archives    -> ArchiveRun(f)
    [] f \in Databases   -> DatabaseRun(f)

(* The checker: the number of arguments, their types, the type of a call.  *)
(* format takes any number, the options of http_request may be left out.   *)
ArityOk(f, n) ==
  CASE f = "format" -> TRUE
    [] f = "http_request" -> n \in {5, 6}
    [] OTHER -> n = Len(Signature(f).params)
ArgumentOk(f, i, ty) == f = "format" \/ ty \in Signature(f).params[i] \cup {"Unknown"}
CallOk(f, tys) == ArityOk(f, Len(tys)) /\ \A i \in DOMAIN tys : ArgumentOk(f, i, tys[i])
TypeOfCall(f, tys) ==
  CASE f = "format" -> "Str"
    [] f = "abs" -> IF tys[1] = "Int" THEN "Int" ELSE "Float"
    [] f \in {"min", "max"} -> IF tys[1] = "Int" /\ tys[2] = "Int" THEN "Int" ELSE "Float"
    [] f = "slice" -> IF tys[1] \in {"Str", "Array"} THEN tys[1] ELSE "Unknown"
    [] OTHER -> Signature(f).ret

(* The interpreter: the arguments it raises an error for, and the kinds of *)
(* the result when nothing else does.                                      *)
Blamed(f, kinds) == {i \in DOMAIN kinds : f # "format" /\ kinds[i] \notin Behaviour(f).args[i]}
Runs(f, kinds) == Blamed(f, kinds) = {}
KindsOfResult(f, kinds) ==
  CASE f = "format" -> {"str"}
    [] f \in {"abs", "slice"} -> {kinds[1]}
    [] f \in {"min", "max"} -> IF kinds[1] = "int" /\ kinds[2] = "int" THEN {"int"} ELSE {"float"}
    [] OTHER -> Behaviour(f).gives

(* The checker lets any type pass here, and the interpreter does not.      *)
Lenient == {"int", "float", "http_json", "json_stringify"}
LenientMethods == {"repeat", "pad_start", "pad_end"}

---------------------------------------------------------------------------
(* Methods.  The checker knows the methods of strings, arrays and maps and *)
(* counts their arguments; only the interpreter looks at what they are.    *)
Arity(n, ret) == [arity |-> n, ret |-> ret]
StrMethod(m) ==
  CASE m = "len" -> Arity(0, "Int")
    [] m \in {"upper", "lower", "trim"} -> Arity(0, "Str")
    [] m \in {"chars", "lines"} -> Arity(0, "Array")
    [] m = "split" -> Arity(1, "Array")
    [] m \in {"contains", "starts_with", "ends_with"} -> Arity(1, "Bool")
    [] m = "repeat" -> Arity(1, "Str")
    [] m \in {"replace", "pad_start", "pad_end"} -> Arity(2, "Str")
ArrayMethod(m) ==
  CASE m = "len" -> Arity(0, "Int")
    [] m = "pop" -> Arity(0, "Unknown")
    [] m = "push" -> Arity(1, "Int")
    [] m = "contains" -> Arity(1, "Bool")
    [] m = "join" -> Arity(1, "Str")
    [] m = "insert" -> Arity(2, "Int")
MapMethod(m) ==
  CASE m = "len" -> Arity(0, "Int")
    [] m = "keys" -> Arity(0, "Array")
    [] m = "contains" -> Arity(1, "Bool")

MethodsOf(ty) ==
  CASE ty = "Str" -> {"len", "upper", "lower", "trim", "chars", "lines", "split", "contains",
                      "starts_with", "ends_with", "repeat", "replace", "pad_start", "pad_end"}
    [] ty = "Array" -> {"len", "pop", "push", "contains", "join", "insert"}
    [] ty = "Map" -> {"len", "keys", "contains"}
    [] OTHER -> {}
Method(ty, m) ==
  CASE ty = "Str" -> StrMethod(m)
    [] ty = "Array" -> ArrayMethod(m)
    [] ty = "Map" -> MapMethod(m)

MethodOk(ty, m, n) == ty = "Unknown" \/ (m \in MethodsOf(ty) /\ n = Method(ty, m).arity)
TypeOfMethod(ty, m) == IF ty = "Unknown" THEN ty ELSE Method(ty, m).ret

(* exec_method, by the kind of the receiver.                               *)
StrRun(m) ==
  CASE m = "len" -> Needs(<<>>, {"int"})
    [] m \in {"upper", "lower", "trim"} -> Needs(<<>>, {"str"})
    [] m \in {"chars", "lines"} -> Needs(<<>>, {"array"})
    [] m = "split" -> Needs(<<Kinds>>, {"array"})
    [] m \in {"contains", "starts_with", "ends_with"} -> Needs(<<Kinds>>, {"int"})
    [] m = "repeat" -> Needs(<<{"int"}>>, {"str"})
    [] m = "replace" -> Needs(Alike(2, Kinds), {"str"})
    [] m \in {"pad_start", "pad_end"} -> Needs(<<{"int"}, {"str"}>>, {"str"})
ArrayRun(m) ==
  CASE m = "len" -> Needs(<<>>, {"int"})
    [] m = "pop" -> Needs(<<>>, Kinds)
    [] m \in {"push", "contains"} -> Needs(<<Kinds>>, {"int"})
    [] m = "join" -> Needs(<<Kinds>>, {"str"})
    [] m = "insert" -> Needs(Alike(2, Kinds), {"int"})
MapRun(m) ==
  CASE m = "len" -> Needs(<<>>, {"int"})
    [] m = "keys" -> Needs(<<>>, {"array"})
    [] m = "contains" -> Needs(<<Kinds>>, {"int"})

MethodBehaviour(kind, m) ==
  CASE kind = "str" -> StrRun(m)
    [] kind = "array" -> ArrayRun(m)
    [] kind = "map" -> MapRun(m)
MethodsOfKind(kind) ==
  CASE kind = "str" -> MethodsOf("Str")
    [] kind = "array" -> MethodsOf("Array")
    [] kind = "map" -> MethodsOf("Map")
    [] OTHER -> {}
MethodAccepts(kind, m, kinds) ==
  /\ m \in MethodsOfKind(kind)
  /\ Len(kinds) = Len(MethodBehaviour(kind, m).args)
  /\ \A i \in DOMAIN kinds : kinds[i] \in MethodBehaviour(kind, m).args[i]
=============================================================================
