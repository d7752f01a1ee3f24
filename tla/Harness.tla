------------------------------ MODULE Harness ------------------------------
(***************************************************************************)
(* The fuzz harnesses (LLVMFuzzerTestOneInput of each target) and their    *)
(* two callers: a fuzzer, which calls the harness again and again in one   *)
(* process, and measure_coverage with the replay program of cov_replay_*,  *)
(* which takes a corpus through one process per file.                      *)
(*                                                                         *)
(* The libraries are external: a call may fail for want of memory, and an  *)
(* input with an injected bug may end the process in it.  An input is      *)
(* abstracted to what its caller can tell of it, a pointer or handle that  *)
(* has to be given back to its name.                                       *)
(***************************************************************************)
EXTENDS Integers, FiniteSets

CONSTANTS
    Files,       \* inputs, and the files of a corpus
    Targets,     \* the targets considered
    MaxCalls     \* bound: calls by a fuzzer

ASSUME ConstantsAssumption ==
    /\ Targets \subseteq { "sqlite", "rhash", "cjson", "re2" }
    /\ MaxCalls \in Nat /\ IsFiniteSet(Files)

Kinds == { "unit", "bug", "empty", "unreadable" }
None == "none"

VARIABLES
    target, driver,   \* whose harness, and "fuzzer" or "replay"
    kind,             \* the kind of each file
    queue,            \* corpus_files of measure_coverage still to come
    args,             \* argv of the replay program, what is left of it
    seen,             \* the files this process is through with
    profiles,         \* the .profraw files, each with the files it is of
    profdata,         \* what they are merged into
    cur,              \* the current input
    pc,               \* the next step
    held,             \* what the process has to give back
    calls             \* harness calls of the process

shell == << target, driver, kind, queue, profiles, profdata >>
main  == << args, seen, cur >>
vars  == << shell, main, pc, held, calls >>

Init ==
    /\ target \in Targets /\ driver \in { "fuzzer", "replay" }
    /\ kind \in [ Files -> Kinds ] /\ queue = Files
    /\ args = {} /\ seen = {} /\ profiles = {} /\ profdata = None
    /\ cur = None /\ pc = "idle" /\ held = {} /\ calls = 0

Goto(l) == pc' = l
Gain(s) == held' = held \union s
Lose(s) == held' = held \ s
Quiet   == UNCHANGED << shell, main, calls >>
-----------------------------------------------------------------------------
FuzzerCalls ==
    /\ driver = "fuzzer" /\ pc = "idle" /\ calls < MaxCalls
    /\ \E f \in Files : kind[f] # "unreadable" /\ cur' = f
    /\ calls' = calls + 1 /\ Goto(target)
    /\ UNCHANGED << shell, args, seen, held >>

\* Mutant: one process for the whole corpus.
ReplayAll(f) == queue

\* Run each file individually.
ReplayArgs(f) == { f }

measure_coverage ==
    /\ driver = "replay" /\ pc = "idle"
    /\ \E f \in queue : args' = ReplayArgs(f) /\ queue' = queue \ ReplayArgs(f)
    /\ seen' = {} /\ calls' = 0 /\ Goto("main")
    /\ UNCHANGED << target, driver, kind, profiles, profdata, cur, held >>

\* Without a profile, or when llvm-profdata fails, there is no coverage ("N/A").
Merge ==
    /\ driver = "replay" /\ pc = "idle" /\ queue = {} /\ profdata = None
    /\ profdata' \in { "N/A" } \union { m \in { "merged" } : profiles # {} }
    /\ UNCHANGED << target, driver, kind, queue, profiles, main, pc, held, calls >>

\* fopen.  A file that cannot be opened is passed over.
NextArg ==
    /\ pc = "main"
    /\ \E f \in args :
          /\ args' = args \ {f} /\ cur' = f
          /\ IF kind[f] = "unreadable"
             THEN seen' = seen \union {f} /\ UNCHANGED << pc, held >>
             ELSE Gain({ "file" }) /\ Goto("read") /\ UNCHANGED seen
    /\ UNCHANGED << shell, calls >>

\* A process that ends in the regular way writes its profile.
ReturnFromMain ==
    /\ pc = "main" /\ args = {}
    /\ profiles' = profiles \union { seen } /\ Goto("idle")
    /\ UNCHANGED << target, driver, kind, queue, profdata, main, held, calls >>

ReadFile ==
    /\ pc = "read"
    /\ \/ kind[cur] # "empty" /\ Gain({ "data" }) /\ calls' = calls + 1 /\ Goto(target)
       \/ UNCHANGED << held, calls >> /\ Goto("fclose")      \* size 0, or no memory
    /\ UNCHANGED << shell, main >>

FreeData == pc = "return" /\ Lose({ "data" }) /\ Goto("fclose") /\ Quiet

CloseFile ==
    /\ pc = "fclose" /\ Lose({ "file" }) /\ Goto("main")
    /\ seen' = seen \union { cur }
    /\ UNCHANGED << shell, args, cur, calls >>

\* Back to the caller.
Return == Goto(IF driver = "fuzzer" THEN "idle" ELSE "return")

\* The bug of the input strikes in a call of the library.
Crash ==
    /\ pc \in { "sqlite3_exec", "cJSON_Parse", "cJSON_Print", "rhash", "re2" } /\ kind[cur] = "bug"
    /\ held' = {} /\ args' = {} /\ Goto(IF driver = "fuzzer" THEN "dead" ELSE "idle")
    /\ UNCHANGED << shell, seen, cur, calls >>
-----------------------------------------------------------------------------
\* sqlite_harness.c.  A failed open would leave a handle to close, but that
\* of ":memory:" fails only for want of memory, and then sqlite3_open has
\* closed it (opendb_out in sqlite3.c): the early return loses nothing.
sqlite3_open ==
    /\ pc = "sqlite" /\ Quiet
    /\ \/ Gain({ "db" }) /\ Goto("sqlite3_exec")
       \/ UNCHANGED held /\ Return

sqlite3_exec ==
    /\ pc = "sqlite3_exec" /\ Quiet
    /\ \E s \in SUBSET { "sql", "zErrMsg" } : Gain(s)
    /\ Goto("sqlite3_close")

sqlite3_close ==
    /\ pc = "sqlite3_close" /\ Lose({ "sql", "zErrMsg", "db" }) /\ Return /\ Quiet

\* cjson_harness.c
cJSON_malloc ==
    /\ pc = "cjson" /\ Quiet
    /\ \/ Gain({ "buf" }) /\ Goto("cJSON_Parse")
       \/ UNCHANGED held /\ Return

\* Mutant: an input that does not parse returns at once.
cJSON_ParseEarly ==
    /\ pc = "cJSON_Parse" /\ Quiet
    /\ \/ Gain({ "json" }) /\ Goto("cJSON_Print")
       \/ UNCHANGED held /\ Return

cJSON_Parse ==
    /\ pc = "cJSON_Parse" /\ Quiet
    /\ \/ Gain({ "json" }) /\ Goto("cJSON_Print")
       \/ UNCHANGED held /\ Goto("free_buf")

cJSON_Print ==
    /\ pc = "cJSON_Print" /\ Quiet
    /\ \E s \in SUBSET { "printed" } : Gain(s)
    /\ Goto("cJSON_Delete")

cJSON_Delete == pc = "cJSON_Delete" /\ Lose({ "printed", "json" }) /\ Goto("free_buf") /\ Quiet

cJSON_free == pc = "free_buf" /\ Lose({ "buf" }) /\ Return /\ Quiet

\* rhash_harness.c: the library is initialised in the first call of a process,
\* and rhash_msg takes nothing that has to be given back.
rhash_msg == pc = "rhash" /\ Return /\ UNCHANGED held /\ Quiet

\* re2_harness.cc: everything it makes is local.
re2 == pc = "re2" /\ Return /\ UNCHANGED held /\ Quiet

Next ==
    \/ FuzzerCalls \/ measure_coverage \/ Merge
    \/ NextArg \/ ReturnFromMain \/ ReadFile \/ FreeData \/ CloseFile \/ Crash
    \/ sqlite3_open \/ sqlite3_exec \/ sqlite3_close
    \/ cJSON_malloc \/ cJSON_Parse \/ cJSON_Print \/ cJSON_Delete \/ cJSON_free
    \/ rhash_msg \/ re2

Spec == Init /\ [][Next]_vars
-----------------------------------------------------------------------------
(* A process that is between two inputs holds nothing: however a call of   *)
(* the library failed, the harness and the replay program have given back  *)
(* the file, the buffers and the handles of the last one.                  *)
NothingLeaks == pc \in { "idle", "main" } => held = {}

(* Coverage accounts for every input the libraries survive: a file whose   *)
(* replay crashes takes no other file's profile with it (measure_coverage  *)
(* starts the replay program once per file).                               *)
ProfilesComplete ==
    profdata # None => { f \in Files : kind[f] # "bug" } \subseteq UNION profiles
=============================================================================
