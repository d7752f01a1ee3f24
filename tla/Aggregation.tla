---------------------------- MODULE Aggregation ----------------------------
(***************************************************************************)
(* How measurements get from the benchmark scripts into RESULTS.md: the    *)
(* env file a script writes last, the sourcing of the four files into the  *)
(* same shell variables, the extraction of bug times, the score.           *)
(*                                                                         *)
(* A file is written with `cat > file << EOF': it is empty from the moment *)
(* it is opened until cat writes its text at once.  Sourcing an empty file *)
(* leaves every variable as the previous file set it.  A user may run one  *)
(* benchmark script by hand, before run_all.sh or beside it.               *)
(***************************************************************************)
EXTENDS Integers, FiniteSets

CONSTANTS
    Bugs,       \* which of the implanted bugs the reports are about
    Times,      \* seconds to the first crash
    Durations,  \* values of the duration argument
    MaxByHand   \* bound: benchmarks run by hand

TargetOf == [ BUG_C1 |-> "cjson", BUG_C2 |-> "cjson", BUG_R1 |-> "rhash", BUG_R2 |-> "rhash",
              BUG_RE1 |-> "re2", BUG_S1 |-> "sqlite", BUG_S2 |-> "sqlite" ]

ASSUME ConstantsAssumption ==
    /\ Bugs \subseteq DOMAIN TargetOf /\ Times \subseteq Nat /\ Durations \subseteq Nat
    /\ MaxByHand \in Nat

Targets == { "sqlite", "rhash", "cjson", "re2" }
Columns == { "lf", "ddf" }      \* the WingFuzz columns are commented out

BenchmarkNext == [ sqlite |-> "rhash", rhash |-> "cjson", cjson |-> "re2", re2 |-> "end" ]
SourceNext    == [ sqlite |-> "rhash", rhash |-> "cjson", cjson |-> "re2", re2 |-> "end" ]

not_found == -1
Unlisted  == -2     \* the bug's name does not occur in the string

\* A bug string: what scan_crashes.sh prints for a target, or "none".
BugString(t) ==
    { r \in [ Bugs -> Times \union { not_found, Unlisted } ] :
        \A b \in Bugs : r[b] = Unlisted <=> TargetOf[b] # t }
    \union { [ b \in Bugs |-> Unlisted ] }

\* What one benchmark measured.  Its numbers are told apart by where they come
\* from: `by' names the invocation.
RowOf(t) == [ of : { t }, by : { "run_all", "hand" }, secs : Durations, bugs : [ Columns -> BugString(t) ] ]
Row      == UNION { RowOf(t) : t \in Targets }

Absent == [ of |-> "absent" ]   \* no such file
Empty  == [ of |-> "empty" ]    \* opened, nothing written yet
Unset  == [ of |-> "unset" ]    \* variables no file has set

VARIABLES
    at,         \* the next step of run_all.sh
    tgt,        \* the target it works on
    secs,       \* SECONDS_ARG
    env,        \* results/latest_<target>.env
    shell,      \* LF_BRANCH_COV, LF_EXECS, ... LF_BUGS, DDF_BUGS
    row,        \* SQ_*, RH_*, CJ_*, RE_*
    score,      \* LF_SCORE and DDF_SCORE
    best,       \* BEST_FUZZER
    results,    \* RESULTS.md: "old", "empty" or "new"
    hand,       \* the benchmark run by hand
    byHand,     \* how many were
    own,        \* history: what run_all.sh's benchmarks measured
    found,      \* history: the times all benchmarks reported
    overlapped  \* history: has a benchmark run by hand since run_all.sh started?

aggregate == << shell, row, score, best, results >>
driver    == << at, tgt, secs >>
byhand    == << hand, byHand >>
vars == << driver, env, aggregate, byhand, own, found, overlapped >>

Idle == [ at |-> "idle", of |-> "sqlite", secs |-> 0 ]

\* The bugs a row reports found: << fuzzer, bug, seconds >>.
Reported(r) == { c \in Columns \X Bugs \X Times : TargetOf[c[2]] = r.of /\ r.bugs[c[1]][c[2]] = c[3] }

Init ==
    /\ at = "idle" /\ tgt = "sqlite" /\ secs \in Durations
    /\ env = [ t \in Targets |-> Absent ]
    /\ shell = Unset
    /\ row = [ t \in Targets |-> Unset ]
    /\ score = [ f \in Columns |-> 0 ] /\ best = "none"
    /\ results = "old"
    /\ hand = Idle /\ byHand = 0
    /\ own = [ t \in Targets |-> Unset ] /\ found = {} /\ overlapped = FALSE
-----------------------------------------------------------------------------
(* A benchmark script, as run_all.sh calls it and as a user does.          *)

Start ==
    /\ at = "idle"
    /\ at' = "measure"
    /\ overlapped' = (overlapped \/ hand # Idle)
    /\ UNCHANGED << tgt, secs, env, aggregate, byhand, own, found >>

OpenEnv ==
    /\ at = "measure"
    /\ env' = [ env EXCEPT ![tgt] = Empty ]
    /\ at' = "fill"
    /\ UNCHANGED << tgt, secs, aggregate, byhand, own, found, overlapped >>

FillEnv ==
    /\ at = "fill"
    /\ \E r \in RowOf(tgt) :
          /\ r.by = "run_all" /\ r.secs = secs
          /\ env' = [ env EXCEPT ![tgt] = r ]
          /\ own' = [ own EXCEPT ![tgt] = r ]
          /\ found' = found \union Reported(r)
    /\ IF BenchmarkNext[tgt] # "end"
       THEN at' = "measure" /\ tgt' = BenchmarkNext[tgt]
       ELSE at' = "source" /\ tgt' = "sqlite"
    /\ UNCHANGED << secs, aggregate, byhand, overlapped >>

\* Mutant: a benchmark that fails does not end run_all.sh.
FailGoesOn ==
    /\ at = "measure"
    /\ IF BenchmarkNext[tgt] # "end"
       THEN at' = "measure" /\ tgt' = BenchmarkNext[tgt]
       ELSE at' = "source" /\ tgt' = "sqlite"
    /\ UNCHANGED << secs, env, aggregate, byhand, own, found, overlapped >>

\* Mutant: a run_all.sh that fails empties RESULTS.md.
FailClearsResults ==
    /\ at \notin { "idle", "done", "failed" }
    /\ at' = "failed"
    /\ results' = "empty"
    /\ UNCHANGED << tgt, secs, env, shell, row, score, best, byhand, own, found, overlapped >>

\* A benchmark fails, or run_all.sh is killed anywhere: set -e, all is over.
Fail ==
    /\ at \notin { "idle", "done", "failed" }
    /\ at' = "failed"
    /\ UNCHANGED << tgt, secs, env, aggregate, byhand, own, found, overlapped >>

HandStart ==
    /\ hand = Idle /\ byHand < MaxByHand
    /\ \E t \in Targets, d \in Durations : hand' = [ at |-> "measure", of |-> t, secs |-> d ]
    /\ byHand' = byHand + 1
    /\ overlapped' = (overlapped \/ at # "idle")
    /\ UNCHANGED << driver, env, aggregate, own, found >>

HandOpenEnv ==
    /\ hand.at = "measure"
    /\ env' = [ env EXCEPT ![hand.of] = Empty ]
    /\ hand' = [ hand EXCEPT !.at = "fill" ]
    /\ UNCHANGED << driver, aggregate, byHand, own, found, overlapped >>

HandFillEnv ==
    /\ hand.at = "fill"
    /\ \E r \in RowOf(hand.of) :
          /\ r.by = "hand" /\ r.secs = hand.secs
          /\ env' = [ env EXCEPT ![hand.of] = r ]
          /\ found' = found \union Reported(r)
    /\ hand' = Idle
    /\ UNCHANGED << driver, aggregate, byHand, own, overlapped >>

HandFail ==
    /\ hand # Idle
    /\ hand' = Idle
    /\ UNCHANGED << driver, env, aggregate, byHand, own, found, overlapped >>
-----------------------------------------------------------------------------
(* The aggregation.                                                        *)

\* source: a missing file ends the script, and so does (set -u) an unset
\* variable; an empty file sets nothing.
Source ==
    /\ at = "source"
    /\ shell' = IF env[tgt] \in { Absent, Empty } THEN shell ELSE env[tgt]
    /\ IF env[tgt] = Absent \/ shell' = Unset
       THEN at' = "failed" /\ UNCHANGED << tgt, row >>
       ELSE /\ row' = [ row EXCEPT ![tgt] = shell' ]
            /\ IF SourceNext[tgt] # "end"
               THEN at' = at /\ tgt' = SourceNext[tgt]
               ELSE at' = "score" /\ tgt' = "sqlite"
    /\ UNCHANGED << secs, env, score, best, results, byhand, own, found, overlapped >>

\* Mutant: the target is not consulted; the first time in a string will do.
extract_first_time(b, f) ==
    LET listed == { c \in Bugs : row[TargetOf[b]].bugs[f][c] # Unlisted }
    IN  IF listed = {} THEN not_found ELSE row[TargetOf[b]].bugs[f][CHOOSE c \in listed : TRUE]

\* Look the bug's name up in the string of its target.
extract_bug_time(b, f) ==
    LET val == row[TargetOf[b]].bugs[f][b] IN IF val = Unlisted THEN not_found ELSE val

\* Mutant: a bug found within the first second does not count.
is_positive(val) == val > 0

is_found(val) == val # not_found

count_found(f) == Cardinality({ b \in Bugs : is_found(extract_bug_time(b, f)) })

Score ==
    /\ at = "score"
    /\ score' = [ f \in Columns |-> count_found(f) ]
    /\ best' = IF score'["lf"] >= score'["ddf"] THEN "LibFuzzer" ELSE "DDFuzz"
    /\ at' = "open"
    /\ UNCHANGED << tgt, secs, env, shell, row, results, byhand, own, found, overlapped >>

OpenResults ==
    /\ at = "open"
    /\ results' = "empty"
    /\ at' = "write"
    /\ UNCHANGED << tgt, secs, env, shell, row, score, best, byhand, own, found, overlapped >>

WriteResults ==
    /\ at = "write"
    /\ results' = "new"
    /\ at' = "done"
    /\ UNCHANGED << tgt, secs, env, shell, row, score, best, byhand, own, found, overlapped >>

Next == \/ Start \/ OpenEnv \/ FillEnv \/ Fail
        \/ HandStart \/ HandOpenEnv \/ HandFillEnv \/ HandFail
        \/ Source \/ Score \/ OpenResults \/ WriteResults

Spec == Init /\ [][Next]_vars
-----------------------------------------------------------------------------
\* Without overlap, every number RESULTS.md shows for a target was measured for
\* that target by the benchmark this run_all.sh ran, for the duration in the
\* header, though the four files are sourced into the same variables and an
\* earlier benchmark may have left any of them empty or out of date.
RowsAreOwn == results = "new" /\ ~overlapped => \A t \in Targets : row[t] = own[t] /\ row[t].of = t

\* The bugs that the benchmarks of this run_all.sh found with f.
Earned(f) == { b \in Bugs : own[TargetOf[b]].bugs[f][b] \in Times }

\* Without overlap, a fuzzer's score is the number of bugs that the benchmarks
\* of this run_all.sh found with it, and the fuzzer named best has no lower
\* score than the other.
ScoresAreEarned ==
    results = "new" /\ ~overlapped =>
        /\ \A f \in Columns : score[f] = Cardinality(Earned(f))
        /\ best = "LibFuzzer" <=> Cardinality(Earned("lf")) >= Cardinality(Earned("ddf"))

\* Even when a benchmark run by hand empties or replaces an env file while
\* run_all.sh is reading it, so that a target may show another target's row, a
\* bug is shown as found only with a time that a benchmark of the bug's own
\* target reported for that fuzzer.
CreditIsReal ==
    at \in { "score", "open", "write", "done" } =>
        \A b \in Bugs, f \in Columns :
            LET val == extract_bug_time(b, f) IN is_found(val) => << f, b, val >> \in found
-----------------------------------------------------------------------------
(* Aggregation implements ResultsTable while no benchmark overlaps.        *)

NoFile    == [ file |-> "none" ]
TornFile  == [ file |-> "torn" ]
Entry(r)  == IF r = Unset THEN NoFile ELSE [ file |-> "whole", row |-> r ]
TableOf(rows) == [ file |-> "whole", secs |-> secs, row |-> [ t \in Targets |-> Entry(rows[t]) ] ]

\* The run of ResultsTable: what the benchmarks of this run_all.sh measured.
Session == IF at \in { "idle", "done", "failed" } THEN NoFile ELSE TableOf(own)

\* Its table: the rows that were read back from the env files.  An empty
\* RESULTS.md is about to be written, or was cut off.
Published == CASE results = "new"                      -> TableOf(row)
               [] results = "empty" /\ at = "failed"   -> TornFile
               [] OTHER                                -> NoFile

Publication == INSTANCE ResultsTable WITH run <- Session, table <- Published

\* As long as no benchmark has been run beside it, run_all.sh keeps the promise
\* of ResultsTable although every number makes a detour over files and shell
\* variables that all targets and all earlier commands share: each step measures
\* one target, publishes exactly what was measured, gives up, or changes nothing.
OwnRowsReachTheTable ==
    /\ Publication!Init
    /\ [][ ~overlapped' => UNCHANGED Publication!vars \/ Publication!Next ]_vars
=============================================================================
