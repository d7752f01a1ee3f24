--------------------------- MODULE HarnessProofs ---------------------------
(***************************************************************************)
(* The harnesses and the replay program give back what they take, and a    *)
(* crash costs one profile at most, for any corpus and any number of       *)
(* calls.                                                                  *)
(***************************************************************************)
EXTENDS Harness, TLAPS

\* Steps inside a harness.
Inside == { "sqlite", "sqlite3_exec", "sqlite3_close", "cjson", "cJSON_Parse", "cJSON_Print",
            "cJSON_Delete", "free_buf", "rhash", "re2" }

\* What the replay program holds when it calls a harness.
Base == IF driver = "replay" THEN { "file", "data" } ELSE {}

\* What a harness may hold in addition.
Own ==
    IF pc = "sqlite3_exec" THEN { "db" }
    ELSE IF pc = "sqlite3_close" THEN { "db", "sql", "zErrMsg" }
    ELSE IF pc \in { "cJSON_Parse", "free_buf" } THEN { "buf" }
    ELSE IF pc = "cJSON_Print" THEN { "buf", "json" }
    ELSE IF pc = "cJSON_Delete" THEN { "buf", "json", "printed" }
    ELSE {}

HeldInv ==
    /\ target \in { "sqlite", "rhash", "cjson", "re2" } /\ driver \in { "fuzzer", "replay" }
    /\ pc \in Inside \union { "idle", "main", "read", "return", "fclose", "dead" }
    /\ pc \in { "idle", "main", "dead" } => held = {}
    /\ pc \in { "read", "fclose" } => held = { "file" }
    /\ pc = "return" => held = { "file", "data" }
    /\ pc \in Inside => held \subseteq Base \union Own /\ Base \subseteq held
    /\ pc \in { "main", "read", "return", "fclose" } => driver = "replay"

LEMMA InitHeld == Init => HeldInv
BY ConstantsAssumption DEF Init, HeldInv, Inside

LEMMA NextHeld == HeldInv /\ [Next]_vars => HeldInv'
<1> SUFFICES ASSUME HeldInv, [Next]_vars PROVE HeldInv'  OBVIOUS
<1> USE DEF HeldInv, Inside, Base, Own, Goto, Gain, Lose, Return, Quiet, shell
<1>1. CASE FuzzerCalls  BY <1>1 DEF FuzzerCalls
<1>2. CASE measure_coverage  BY <1>2 DEF measure_coverage
<1>3. CASE Merge  BY <1>3 DEF Merge
<1>4. CASE NextArg  BY <1>4 DEF NextArg
<1>5. CASE ReturnFromMain  BY <1>5 DEF ReturnFromMain
<1>6. CASE ReadFile  BY <1>6 DEF ReadFile
<1>7. CASE FreeData  BY <1>7 DEF FreeData
<1>8. CASE CloseFile  BY <1>8 DEF CloseFile
<1>9. CASE Crash  BY <1>9 DEF Crash
<1>10. CASE sqlite3_open  BY <1>10 DEF sqlite3_open
<1>11. CASE sqlite3_exec  BY <1>11 DEF sqlite3_exec
<1>12. CASE sqlite3_close  BY <1>12 DEF sqlite3_close
<1>13. CASE cJSON_malloc  BY <1>13 DEF cJSON_malloc
<1>14. CASE cJSON_Parse  BY <1>14 DEF cJSON_Parse
<1>15. CASE cJSON_Print  BY <1>15 DEF cJSON_Print
<1>16. CASE cJSON_Delete  BY <1>16 DEF cJSON_Delete
<1>17. CASE cJSON_free  BY <1>17 DEF cJSON_free
<1>18. CASE rhash_msg \/ re2  BY <1>18 DEF rhash_msg, re2
<1>19. CASE UNCHANGED vars  BY <1>19 DEF vars
<1> QED
  BY <1>1, <1>2, <1>3, <1>4, <1>5, <1>6, <1>7, <1>8, <1>9, <1>10, <1>11, <1>12, <1>13,
     <1>14, <1>15, <1>16, <1>17, <1>18, <1>19 DEF Next

(* Between two inputs a fuzzer or a replay holds no file, buffer or handle *)
(* of the last one, whichever calls of the libraries failed.               *)
THEOREM LeakFree == Spec => []NothingLeaks
<1>1. HeldInv => NothingLeaks  BY DEF HeldInv, NothingLeaks
<1> QED  BY <1>1, InitHeld, NextHeld, PTL DEF Spec

-----------------------------------------------------------------------------
\* Where a file without a bug is: still to come, in the running process, or in
\* a profile.  The process has one file only.
Good == { f \in Files : kind[f] # "bug" }

Kept == queue \union UNION profiles

ProfileInv ==
    /\ pc = "idle" /\ driver = "replay" => Good \subseteq Kept
    /\ pc = "main" => /\ Good \subseteq Kept \union args \union seen
                      /\ args # {} => seen = {} /\ \E f \in args : args = { f }
    /\ driver = "replay" /\ pc \notin { "idle", "main" } =>
          args = {} /\ seen = {} /\ Good \subseteq Kept \union { cur }
    /\ profdata # None => driver = "replay" /\ pc = "idle" /\ queue = {}

LEMMA InitProfile == Init => ProfileInv
BY DEF Init, ProfileInv, Good, Kept

LEMMA NextProfile == HeldInv /\ ProfileInv /\ [Next]_vars => ProfileInv'
<1> SUFFICES ASSUME HeldInv, ProfileInv, [Next]_vars PROVE ProfileInv'  OBVIOUS
<1> USE DEF ProfileInv, Good, Kept, Goto, shell
<1>1. CASE FuzzerCalls  BY <1>1 DEF FuzzerCalls, HeldInv
<1>2. CASE measure_coverage
  BY <1>2 DEF measure_coverage, ReplayArgs
<1>3. CASE Merge  BY <1>3 DEF Merge
<1>4. CASE NextArg  BY <1>4 DEF NextArg
<1>5. CASE ReturnFromMain
  <2>1. /\ pc' = "idle" /\ queue' = queue /\ kind' = kind
        /\ UNION profiles' = (UNION profiles) \union seen
    BY <1>5 DEF ReturnFromMain
  <2> QED  BY <1>5, <2>1 DEF ReturnFromMain
<1>6. CASE CloseFile  BY <1>6 DEF CloseFile, HeldInv
<1>7. CASE Crash  BY <1>7 DEF Crash
<1>8. ASSUME UNCHANGED << shell, main >>, pc \notin { "idle", "main" }, pc' # "main",
             driver = "replay" => pc' # "idle"
      PROVE  ProfileInv'
  BY <1>8 DEF main
<1>9. CASE ReadFile \/ FreeData
  BY <1>8, <1>9 DEF ReadFile, FreeData, Quiet, HeldInv
<1>10. CASE \/ sqlite3_open \/ sqlite3_exec \/ sqlite3_close \/ cJSON_malloc \/ cJSON_Parse
            \/ cJSON_Print \/ cJSON_Delete \/ cJSON_free \/ rhash_msg \/ re2
  <2>1. UNCHANGED << shell, main >>
    BY <1>10 DEF sqlite3_open, sqlite3_exec, sqlite3_close, cJSON_malloc, cJSON_Parse,
                 cJSON_Print, cJSON_Delete, cJSON_free, rhash_msg, re2, Quiet
  <2>2. pc \notin { "idle", "main" } /\ pc' # "main" /\ (driver = "replay" => pc' # "idle")
    BY <1>10 DEF sqlite3_open, sqlite3_exec, sqlite3_close, cJSON_malloc, cJSON_Parse,
                 cJSON_Print, cJSON_Delete, cJSON_free, rhash_msg, re2, Return
  <2> QED  BY <1>8, <2>1, <2>2
<1>11. CASE UNCHANGED vars  BY <1>11 DEF vars, main
<1> QED
  BY <1>1, <1>2, <1>3, <1>4, <1>5, <1>6, <1>7, <1>9, <1>10, <1>11 DEF Next

(* The merged coverage has a profile of every file whose replay cannot     *)
(* crash, whatever happens to the others: measure_coverage gives each file *)
(* a process of its own.                                                   *)
THEOREM ProfilesKept == Spec => []ProfilesComplete
<1>1. ProfileInv => ProfilesComplete
  BY DEF ProfileInv, ProfilesComplete, Good, Kept
<1>2. Init => HeldInv /\ ProfileInv  BY InitHeld, InitProfile
<1>3. HeldInv /\ ProfileInv /\ [Next]_vars => HeldInv' /\ ProfileInv'
  BY NextHeld, NextProfile
<1> QED  BY <1>1, <1>2, <1>3, PTL DEF Spec

=============================================================================
