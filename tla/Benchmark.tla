----------------------------- MODULE Benchmark -----------------------------
(***************************************************************************)
(* benchmark_<target>.sh for one target: the coverage binary, the three    *)
(* fuzzing phases and what they leave under results/benchmark_<RUN_ID>,    *)
(* the triage, the coverage replay and the env file.  Several invocations  *)
(* may work on the same repository, one after the other or side by side;   *)
(* each may end anywhere: it is killed, or a command fails (a full disk)   *)
(* and set -e ends the script.                                             *)
(*                                                                         *)
(* A file a fuzzer saves is abstracted to who saved it and whether it is a *)
(* corpus unit, a copy of a seed or an input that crashed; coverage to the *)
(* binary it was measured with, or the reason why it is N/A.               *)
(***************************************************************************)
EXTENDS Integers

CONSTANTS
    Runs,          \* invocations of the script
    SafeSeeds,     \* do some seeds survive a replay by the WingFuzz binary?
    Saved,         \* what a fuzzer may save: pairs of a fuzzer and a kind of file
    MaxClock,      \* bound: seconds that pass
    MaxVersion,    \* bound: versions of the sources
    MaxErrors      \* bound: measurements that a tool spoils

Absent == 0     \* no such file
Torn   == -1    \* a file cut off while it was written
NA     == -2    \* "N/A": not measured
NoFiles   == -3     \* "N/A": no file to replay
NoProfile == -4     \* "N/A": no replay got as far as writing its profile
ToolError == -5     \* "N/A": no profile directory, llvm-profdata or llvm-cov failed
Versions == 1..MaxVersion

Fuzzers == { "lf", "wf", "ddf" }
Places  == { "lf_corpus", "wf_corpus", "wf_crashes", "queue", "crashes" }
Kinds   == { "unit", "seed", "crash" }

ASSUME ConstantsAssumption ==
    /\ SafeSeeds \in BOOLEAN /\ Saved \subseteq Fuzzers \X { "unit", "crash" }
    /\ MaxClock \in Nat /\ MaxVersion \in Nat \ {0} /\ MaxErrors \in Nat

VARIABLES
    clock,      \* `date', in seconds
    source,     \* version of the sources
    covBin,     \* COV_BIN: the version it was built from
    bins,       \* which fuzzer binaries are there
    image,      \* does ddfuzz:local exist?
    dir,        \* files under the output directory of a RUN_ID
    safe,       \* what wf_safe_seeds of a RUN_ID holds
    env,        \* results/latest_<target>.env: whose it is, or Absent, or Torn
    pc,         \* the next step of an invocation
    started,    \* the second it started in
    has_ddfuzz, \* its HAS_DDFUZZ
    built,      \* the version of the sources it compiles a coverage binary from
    bugs,       \* whose crashes its LF_BUGS, WF_BUGS and DDF_BUGS come from
    cov,        \* its LF_BRANCH_COV, WF_BRANCH_COV and DDF_BRANCH_COV
    errors,     \* how many measurements were spoilt by a tool
    overlapped  \* history: has an invocation started while another was under way?

world == << clock, source, bins, image >>
local == << started, has_ddfuzz, built, bugs, cov >>
vars  == << world, covBin, dir, safe, env, pc, local, errors, overlapped >>

\* Mutant: the run id has minutes only.
RunIdMinutes(r) == started[r] \div 60

\* RUN_ID has a resolution of one second.
RunId(r) == started[r]

Goto(r, l) == pc' = [ pc EXCEPT ![r] = l ]

Over == { "none", "done", "stopped" }

\* The script ends: what is on disk stays, the variables of the shell are gone.
End(r, how) ==
    /\ Goto(r, how)
    /\ has_ddfuzz' = [ has_ddfuzz EXCEPT ![r] = TRUE ]
    /\ built' = [ built EXCEPT ![r] = Absent ]
    /\ bugs' = [ bugs EXCEPT ![r] = {} ]
    /\ cov' = [ cov EXCEPT ![r] = [ f \in Fuzzers |-> NA ] ]
    /\ UNCHANGED started

Init ==
    /\ clock = 0 /\ source = 1 /\ covBin = Absent
    /\ bins \in { Fuzzers, { "lf" } } /\ image \in BOOLEAN
    /\ dir = [ k \in 0..MaxClock |-> [ p \in Places |-> {} ] ]
    /\ safe = [ k \in 0..MaxClock |-> "none" ]
    /\ env = Absent
    /\ pc = [ r \in Runs |-> "none" ]
    /\ started = [ r \in Runs |-> 0 ]
    /\ has_ddfuzz = [ r \in Runs |-> TRUE ]
    /\ built = [ r \in Runs |-> Absent ]
    /\ bugs = [ r \in Runs |-> {} ]
    /\ cov = [ r \in Runs |-> [ f \in Fuzzers |-> NA ] ]
    /\ errors = 0 /\ overlapped = FALSE
-----------------------------------------------------------------------------
Start(r) ==
    /\ pc[r] = "none"
    /\ overlapped' = (overlapped \/ \E q \in Runs : pc[q] \notin Over)
    /\ started' = [ started EXCEPT ![r] = clock ]
    /\ Goto(r, "check_bins")
    /\ UNCHANGED << world, covBin, dir, safe, env, has_ddfuzz, built, bugs, cov, errors >>

check_bins(r) ==
    /\ pc[r] = "check_bins"
    /\ IF { "lf", "wf" } \subseteq bins
       THEN /\ has_ddfuzz' = [ has_ddfuzz EXCEPT ![r] = "ddf" \in bins /\ image ]
            /\ Goto(r, "coverage_binary")
            /\ UNCHANGED << started, built, bugs, cov >>
       ELSE End(r, "stopped")
    /\ UNCHANGED << world, covBin, dir, safe, env, errors, overlapped >>

\* Built once and for all: a file that is there is not looked at again.
build_coverage_binary(r) ==
    /\ pc[r] = "coverage_binary"
    /\ IF covBin # Absent THEN Goto(r, "lf") /\ UNCHANGED built
       ELSE built' = [ built EXCEPT ![r] = source ] /\ Goto(r, "link")
    /\ UNCHANGED << world, covBin, dir, safe, env, started, has_ddfuzz, bugs, cov, errors, overlapped >>

\* The linker opens its output and completes it.
OpenLink(r) ==
    /\ pc[r] = "link"
    /\ covBin' = Torn
    /\ Goto(r, "finish_link")
    /\ UNCHANGED << world, dir, safe, env, local, errors, overlapped >>

FinishLink(r) ==
    /\ pc[r] = "finish_link"
    /\ covBin' = built[r] /\ built' = [ built EXCEPT ![r] = Absent ]
    /\ Goto(r, "lf")
    /\ UNCHANGED << world, dir, safe, env, started, has_ddfuzz, bugs, cov, errors, overlapped >>

\* The files invocation r adds to a directory.
Add(r, p, kinds) == [ dir EXCEPT ![RunId(r)][p] = @ \union ({ r } \X kinds) ]

\* The kinds of files fuzzer f may save.
May(f) == { k \in Kinds : << f, k >> \in Saved }

\* LibFuzzer saves crashes (-artifact_prefix) beside the units of its corpus.
\* However it exits, the script goes on (|| true).
LibFuzzer(r) ==
    /\ pc[r] = "lf"
    /\ \E kinds \in SUBSET May("lf") : dir' = Add(r, "lf_corpus", kinds)
    /\ Goto(r, "wf_seeds")
    /\ UNCHANGED << world, covBin, safe, env, local, errors, overlapped >>

\* Mutant: no placeholder is written if no seed survives.
SurvivorsOnly(r) ==
    /\ pc[r] = "wf_seeds"
    /\ safe' = [ safe EXCEPT ![RunId(r)] = IF SafeSeeds THEN "seeds" ELSE @ ]
    /\ Goto(r, "wf")
    /\ UNCHANGED << world, covBin, dir, env, local, errors, overlapped >>

\* Seeds that crash the WingFuzz binary are left out; if that leaves none,
\* seed0, a single NUL byte, takes their place.
PrefilterSeeds(r) ==
    /\ pc[r] = "wf_seeds"
    /\ safe' = [ safe EXCEPT ![RunId(r)] = IF SafeSeeds THEN "seeds"
                                           ELSE IF @ = "none" THEN "seed0" ELSE @ ]
    /\ Goto(r, "wf")
    /\ UNCHANGED << world, covBin, dir, env, local, errors, overlapped >>

\* WingFuzz saves crashes to a directory of their own.
WingFuzz(r) ==
    /\ pc[r] = "wf"
    /\ \E u \in SUBSET (May("wf") \ { "crash" }), c \in SUBSET (May("wf") \ { "unit" }) :
          dir' = [ dir EXCEPT ![RunId(r)]["wf_corpus"] = @ \union ({ r } \X u),
                              ![RunId(r)]["wf_crashes"] = @ \union ({ r } \X c) ]
    /\ Goto(r, "ddf")
    /\ UNCHANGED << world, covBin, safe, env, local, errors, overlapped >>

\* afl-fuzz copies the seeds into its queue when it starts.  Without the image,
\* or if the container fails, there is no queue.
DDFuzz(r) ==
    /\ pc[r] = "ddf"
    /\ \/ /\ has_ddfuzz[r] /\ image
          /\ \E u \in SUBSET (May("ddf") \ { "crash" }), c \in SUBSET (May("ddf") \ { "unit" }) :
                dir' = [ dir EXCEPT ![RunId(r)]["queue"] = @ \union ({ r } \X (u \union { "seed" })),
                                    ![RunId(r)]["crashes"] = @ \union ({ r } \X c) ]
       \/ UNCHANGED dir
    /\ Goto(r, "triage")
    /\ UNCHANGED << world, covBin, safe, env, local, errors, overlapped >>

\* scan_crashes.sh takes every crash file of the three directories for one of
\* this invocation.
CrashDirs(r) == { "lf_corpus", "wf_crashes" } \union (IF has_ddfuzz[r] THEN { "crashes" } ELSE {})

Triage(r) ==
    /\ pc[r] = "triage"
    /\ bugs' = [ bugs EXCEPT ![r] = { q \in Runs : \E p \in CrashDirs(r) :
                                          << q, "crash" >> \in dir[RunId(r)][p] } ]
    /\ Goto(r, "cov_lf")
    /\ UNCHANGED << world, covBin, dir, safe, env, started, has_ddfuzz, built, cov, errors, overlapped >>
-----------------------------------------------------------------------------
(* Coverage.                                                               *)

\* measure_coverage and get_branch_cov for some files, or none, of which one is
\* known to survive, or none: every file has a process and a profile of its own.
Figures(some, survives) ==
    IF ~some THEN { NoFiles }
    ELSE { e \in { ToolError } : errors < MaxErrors } \union
         (IF covBin \notin Versions THEN { NoProfile }
          ELSE IF survives THEN { covBin } ELSE { covBin, NoProfile })

\* Mutant: what there is of the binary is taken for one.
ReplayUnguarded(files) == IF files = {} THEN { NoFiles } ELSE { covBin }

\* Mutant: all files are replayed by one process, which writes its profile at exit.
ReplayAtOnce(files) == Figures(files # {}, \A x \in files : x[2] = "unit")

\* Units survive their replay; seeds, and inputs that crashed, may or may not.
Replay(files) == Figures(files # {}, \E q \in Runs : << q, "unit" >> \in files)

ReplaySeeds == Figures(TRUE, FALSE)

\* Safe seeds survived the WingFuzz binary, seed0 was not tried with any.
ReplaySafe(s) == Figures(s # "none", FALSE)

SetCov(r, f, values) ==
    \E v \in values :
        /\ cov' = [ cov EXCEPT ![r][f] = v ]
        /\ errors' = IF v = ToolError THEN errors + 1 ELSE errors

\* lf_cov_src is the seed corpus if lf_corpus holds no file at all.
MeasureLibFuzzer(r) ==
    LET files == dir[RunId(r)]["lf_corpus"] IN
    /\ pc[r] = "cov_lf"
    /\ SetCov(r, "lf", IF files = {} THEN ReplaySeeds ELSE Replay(files))
    /\ Goto(r, "cov_wf")
    /\ UNCHANGED << world, covBin, dir, safe, env, started, has_ddfuzz, built, bugs, overlapped >>

\* Mutant: the coverage binary is brought up to date for every corpus.
MeasureWingFuzzRebuilt(r) ==
    /\ pc[r] = "cov_wf"
    /\ covBin' = source
    /\ cov' = [ cov EXCEPT ![r]["wf"] = source ]
    /\ Goto(r, "cov_ddf")
    /\ UNCHANGED << world, dir, safe, env, started, has_ddfuzz, built, bugs, errors, overlapped >>

\* wf_cov_src is the directory of safe seeds if wf_corpus holds no file.
MeasureWingFuzz(r) ==
    LET files == dir[RunId(r)]["wf_corpus"] IN
    /\ pc[r] = "cov_wf"
    /\ SetCov(r, "wf", IF files = {} THEN ReplaySafe(safe[RunId(r)]) ELSE Replay(files))
    /\ Goto(r, "cov_ddf")
    /\ UNCHANGED << world, covBin, dir, safe, env, started, has_ddfuzz, built, bugs, overlapped >>

MeasureDDFuzz(r) ==
    /\ pc[r] = "cov_ddf"
    /\ IF has_ddfuzz[r] /\ dir[RunId(r)]["queue"] # {}
       THEN SetCov(r, "ddf", Replay(dir[RunId(r)]["queue"]))
       ELSE UNCHANGED << cov, errors >>
    /\ Goto(r, "open_env")
    /\ UNCHANGED << world, covBin, dir, safe, env, started, has_ddfuzz, built, bugs, overlapped >>

\* Mutant: without DDFuzz there is nothing to report.
OpenEnvOfThree(r) ==
    /\ pc[r] = "open_env"
    /\ IF has_ddfuzz[r] THEN env' = Torn /\ Goto(r, "write_env") /\ UNCHANGED local
       ELSE End(r, "done") /\ UNCHANGED env
    /\ UNCHANGED << world, covBin, dir, safe, errors, overlapped >>

OpenEnv(r) ==
    /\ pc[r] = "open_env"
    /\ env' = Torn
    /\ Goto(r, "write_env")
    /\ UNCHANGED << world, covBin, dir, safe, local, errors, overlapped >>

WriteEnv(r) ==
    /\ pc[r] = "write_env"
    /\ env' = r
    /\ End(r, "done")
    /\ UNCHANGED << world, covBin, dir, safe, errors, overlapped >>
-----------------------------------------------------------------------------
(* The environment.                                                        *)

\* The process is killed, or a command that is not in a condition and has no
\* `|| true' fails: mkdir, cp, printf, touch, awk, the compiler, cat.
Stop(r) ==
    /\ pc[r] \notin Over
    /\ End(r, "stopped")
    /\ UNCHANGED << world, covBin, dir, safe, env, errors, overlapped >>

Tick ==
    /\ clock < MaxClock
    /\ clock' = clock + 1
    /\ UNCHANGED << source, bins, image, covBin, dir, safe, env, pc, local, errors, overlapped >>

EditSource ==
    /\ source < MaxVersion
    /\ source' = source + 1
    /\ UNCHANGED << clock, bins, image, covBin, dir, safe, env, pc, local, errors, overlapped >>

LoseImage ==
    /\ image
    /\ image' = FALSE
    /\ UNCHANGED << clock, source, bins, covBin, dir, safe, env, pc, local, errors, overlapped >>

Continue(r) ==
    \/ check_bins(r) \/ build_coverage_binary(r) \/ OpenLink(r) \/ FinishLink(r)
    \/ LibFuzzer(r) \/ PrefilterSeeds(r) \/ WingFuzz(r) \/ DDFuzz(r) \/ Triage(r)
    \/ MeasureLibFuzzer(r) \/ MeasureWingFuzz(r) \/ MeasureDDFuzz(r)
    \/ OpenEnv(r) \/ WriteEnv(r)

Next ==
    \/ \E r \in Runs : Start(r) \/ Continue(r) \/ Stop(r)
    \/ Tick \/ EditSource \/ LoseImage

Spec == Init /\ [][Next]_vars
-----------------------------------------------------------------------------
\* The values the script's variables and files can have; in particular coverage
\* is that of a whole binary or N/A, also if the binary was cut off.
TypeOK ==
    /\ clock \in 0..MaxClock /\ source \in Versions
    /\ covBin \in Versions \union { Absent, Torn }
    /\ bins \subseteq Fuzzers /\ image \in BOOLEAN
    /\ dir \in [ 0..MaxClock -> [ Places -> SUBSET (Runs \X Kinds) ] ]
    /\ safe \in [ 0..MaxClock -> { "none", "seed0", "seeds" } ]
    /\ started \in [ Runs -> 0..MaxClock ] /\ has_ddfuzz \in [ Runs -> BOOLEAN ]
    /\ built \in [ Runs -> Versions \union { Absent } ]
    /\ bugs \in [ Runs -> SUBSET Runs ]
    /\ cov \in [ Runs -> [ Fuzzers -> Versions \union { NA, NoFiles, NoProfile, ToolError } ] ]
    /\ errors \in 0..MaxErrors /\ overlapped \in BOOLEAN

\* If invocations do not overlap, the coverage figures an invocation reports were
\* measured with one binary ("fair comparison --- same binary for all three fuzzers on
\* each target", run_all.sh:360), though the sources may change meanwhile and
\* the binary is on disk for every invocation to build.
OneBinaryPerRow ==
    ~overlapped => \A r \in Runs : \A f, g \in Fuzzers :
        pc[r] = "write_env" /\ { cov[r][f], cov[r][g] } \subseteq Versions => cov[r][f] = cov[r][g]

\* No replay is ever started on a directory without files, whoever works in it at
\* the same time: a LibFuzzer phase that saved nothing falls back on the seeds, a
\* WingFuzz phase on the seeds that survived or on seed0 (210-218, 315-316), and
\* DDFuzz is measured only if its queue holds a file (324-325).
AlwaysSomethingToReplay ==
    \A r \in Runs : \A f \in Fuzzers : cov[r][f] # NoFiles

\* Where a fuzzer saves its units, and what its coverage is measured on.
Corpus == [ lf |-> "lf_corpus", wf |-> "wf_corpus", ddf |-> "queue" ]

\* If invocations do not overlap, a fuzzer that saved a corpus unit has a coverage
\* figure, unless the LLVM tools fail or an invocation that was cut off left a
\* coverage binary that is not one: also LibFuzzer, whose crashes lie among the
\* units, and DDFuzz, whose queue a container filled with seeds that may crash.
UnitsAreMeasured ==
    ~overlapped => \A r \in Runs : \A f \in Fuzzers :
        /\ pc[r] = "write_env" /\ << r, "unit" >> \in dir[RunId(r)][Corpus[f]]
        /\ cov[r][f] \notin Versions
        => cov[r][f] = ToolError \/ covBin = Torn

\* If invocations do not overlap, the env file that run_all.sh sources is never
\* older than the last invocation that ended well: it is that one's, or a later
\* one has written it or was cut off while it did (a kill, a full disk).
LatestIsNewest ==
    ~overlapped => \A r \in Runs : pc[r] = "done" /\ env # r =>
        \E q \in Runs \ { r } :
            /\ started[q] >= started[r]
            /\ \/ env = q /\ pc[q] = "done"
               \/ env = Torn /\ pc[q] \in { "write_env", "stopped" }

\* An invocation reports the crashes of no other, also of one that runs beside
\* it, unless that one started in the same second.
OwnCrashes ==
    \A r, q \in Runs : q \in bugs[r] /\ q # r => started[q] = started[r]
=============================================================================
