------------------------------- MODULE RunAll -------------------------------
(***************************************************************************)
(* The pipeline of run_all.sh over what it keeps on disk: the ddfuzz:local *)
(* image, the seed corpora, the RHash checkout, build/, the twelve fuzzer  *)
(* binaries, results/latest_<target>.env and RESULTS.md.  The other entry  *)
(* points a user has, build_all.sh, build_<target>.sh and                  *)
(* benchmark_<target>.sh, work on the same files.                          *)
(*                                                                         *)
(* One command runs at a time.  Every script is under set -e, so a command *)
(* that fails ends the whole invocation; a kill ends it too and may catch  *)
(* a write half done.  The user then starts a command again.               *)
(***************************************************************************)
EXTENDS Integers

CONSTANTS
    Commands,     \* the commands the user issues
    Durations,    \* values of the duration argument
    HostAfl,      \* is afl-clang-fast installed on the host?
    TornWrites,   \* the writes a kill may catch half done
    MaxVersion,   \* bound: versions of the sources
    MaxFaults     \* bound: failures, kills and losses of the image

AllCommands == { "run_all", "build_all", "build", "benchmark" }

ASSUME CommandsAssumption   == Commands \subseteq AllCommands
ASSUME DurationsAssumption  == Durations \subseteq Nat
ASSUME TornWritesAssumption ==
    TornWrites \subseteq { "seed", "binary", "clone", "harness", "env", "results" }
ASSUME BoundsAssumption     == HostAfl \in BOOLEAN /\ MaxVersion \in Nat \ {0} /\ MaxFaults \in Nat

Targets == { "sqlite", "rhash", "cjson", "re2" }
Fuzzers == { "lf", "wf", "ddf" }

VARIABLES
    cmd,        \* the running command, or "idle"
    at,         \* its next step
    tgt,        \* the target that step works on
    secs,       \* its duration argument
    has_ddfuzz, \* HAS_DDFUZZ of the running benchmark
    image,      \* does `docker image inspect ddfuzz:local' succeed?
    seeds,      \* the seed corpus of a target: "none", an "empty" file, "some" or "all" seeds
    rhash,      \* the RHash checkout
    harness,    \* rhash_harness.c
    rootOwned,  \* source trees in which the container's root owns files
    buildDir,   \* does build/ exist?
    source,     \* version of the sources
    bin,        \* the fuzzer binaries: what version of the source they were built from
    env,        \* results/latest_<target>.env
    results,    \* RESULTS.md as this machine wrote it (a clone comes with another's)
    faults      \* failures, kills and losses of the image so far

control == << cmd, at, tgt, secs, has_ddfuzz >>
setup   == << image, seeds, rhash, harness >>
output  == << env, results >>
trees   == << rootOwned, buildDir, source >>
vars    == << control, setup, trees, bin, output, faults >>

Absent == 0      \* no such file; "N/A" in a row of the results
Torn   == -1     \* a file that exists but was cut off while being written
Versions == 1..MaxVersion
Binary   == Versions \union { Absent, Torn }

\* What RESULTS.md shows of a target: the sources LibFuzzer and DDFuzz were built
\* from (the WingFuzz rows are commented out in run_all.sh), and for how long
\* each of them ran.
Row    == [ secs : Durations, lf : Binary, ddf : Binary ]
NoFile == [ file |-> "none" ]
TornFile == [ file |-> "torn" ]
Env     == [ file : { "whole" }, row : Row ] \union { NoFile, TornFile }
Results == [ file : { "whole" }, secs : Durations, row : [ Targets -> Env ] ]
             \union { NoFile, TornFile }

Present(t, f) == bin[t][f] # Absent
-----------------------------------------------------------------------------
(* Control: which step comes next, and which target.                       *)

\* Mutant: one corpus is forgotten.
SeedNextShort    == [ sqlite |-> "rhash", rhash |-> "cjson", cjson |-> "end", re2 |-> "end" ]

SeedNext         == [ sqlite |-> "rhash", rhash |-> "cjson", cjson |-> "re2", re2 |-> "end" ]
RunAllBuildFirst == "sqlite"
RunAllBuildNext  == [ sqlite |-> "cjson", cjson |-> "re2", re2 |-> "rhash", rhash |-> "end" ]
BuildAllNext     == [ sqlite |-> "rhash", rhash |-> "cjson", cjson |-> "re2", re2 |-> "end" ]
BenchmarkFirst   == "sqlite"
\* Mutant: one benchmark is left out.
BenchmarkNextShort == [ sqlite |-> "rhash", rhash |-> "cjson", cjson |-> "end", re2 |-> "end" ]

BenchmarkNext    == [ sqlite |-> "rhash", rhash |-> "cjson", cjson |-> "re2", re2 |-> "end" ]

Goto(c, a, t) == cmd' = c /\ at' = a /\ tgt' = t

\* The end of an invocation, successful or not; shell variables are gone.
Exit == Goto("idle", "idle", "sqlite") /\ UNCHANGED << secs, has_ddfuzz >>

Step(a, t) == Goto(cmd, a, t) /\ UNCHANGED << secs, has_ddfuzz >>

\* The build of tgt is over (or was skipped): the next target, or what follows.
AfterBuild ==
    CASE cmd = "run_all" /\ RunAllBuildNext[tgt] # "end"  -> Step("decide", RunAllBuildNext[tgt])
      [] cmd = "run_all" /\ RunAllBuildNext[tgt] = "end"  -> Step("check", BenchmarkFirst)
      [] cmd = "build_all" /\ BuildAllNext[tgt] # "end"   -> Step("prepare", BuildAllNext[tgt])
      [] OTHER                                            -> Exit

AfterBenchmark ==
    CASE cmd = "run_all" /\ BenchmarkNext[tgt] # "end" -> Step("check", BenchmarkNext[tgt])
      [] cmd = "run_all" /\ BenchmarkNext[tgt] = "end" -> Step("publish", "sqlite")
      [] OTHER                                         -> Exit

Succeed == UNCHANGED faults

CountFault == faults < MaxFaults /\ faults' = faults + 1

\* An external command fails, or the process is killed, in the middle of a step
\* that writes: the invocation is over.
Fault == CountFault /\ Exit

Tear(window, torn, S) == IF window \in TornWrites THEN S \union { torn } ELSE S
-----------------------------------------------------------------------------
Init ==
    /\ cmd = "idle" /\ at = "idle" /\ tgt = "sqlite"
    /\ secs \in Durations
    /\ has_ddfuzz = FALSE
    /\ image = FALSE
    /\ seeds = [ t \in Targets |-> "none" ]
    /\ rhash = "missing"
    /\ harness = "missing"
    /\ rootOwned = {}
    /\ buildDir = FALSE
    /\ source = 1
    /\ bin = [ t \in Targets |-> [ f \in Fuzzers |-> Absent ] ]
    /\ env = [ t \in Targets |-> NoFile ]
    /\ results = NoFile
    /\ faults = 0

(* The user starts a command.                                              *)

Start(c, a, t) ==
    /\ cmd = "idle"
    /\ c \in Commands
    /\ Goto(c, a, t)
    /\ secs' \in Durations
    /\ has_ddfuzz' = FALSE
    /\ UNCHANGED << setup, trees, bin, output, faults >>

StartRunAll    == Start("run_all", "image", "sqlite")
StartBuildAll  == Start("build_all", "prepare", "sqlite")
StartBuild     == \E t \in Targets : Start("build", "prepare", t)
StartBenchmark == \E t \in Targets : Start("benchmark", "check", t)

(* Bootstrap.                                                              *)

build_ddfuzz_image ==
    /\ at = "image"
    /\ image' = TRUE
    /\ Step("seeds", "sqlite")
    /\ Succeed
    /\ UNCHANGED << seeds, rhash, harness, trees, bin, output >>

\* Seeds are written only into an empty directory, one file after the other.  The
\* first one cut off before its text is in is a zero-length file.
create_seed_corpora ==
    /\ at = "seeds"
    /\ \/ /\ seeds' = [ seeds EXCEPT ![tgt] = IF @ = "none" THEN "all" ELSE @ ]
          /\ IF SeedNext[tgt] # "end" THEN Step("seeds", SeedNext[tgt]) ELSE Step("clone", "sqlite")
          /\ Succeed
       \/ /\ seeds[tgt] = "none"
          /\ \E s \in Tear("seed", "empty", { "some" }) : seeds' = [ seeds EXCEPT ![tgt] = s ]
          /\ Fault
    /\ UNCHANGED << image, rhash, harness, trees, bin, output >>

\* rm -rf and git clone, unless librhash/rhash.h is there.  A clone cut off
\* leaves a directory without that header ("debris"), or, later in the
\* checkout, one that has it but not every file ("partial").
HeaderThere == rhash \in { "partial", "whole" }

\* Mutant: git clone without rm -rf refuses a directory that is not empty.
clone_rhash_over ==
    /\ at = "clone"
    /\ \/ /\ rhash # "debris"
          /\ rhash' = "whole"
          /\ harness' = IF HeaderThere THEN harness ELSE "missing"
          /\ Step("harness", "sqlite")
          /\ Succeed
       \/ rhash = "debris" /\ Exit /\ UNCHANGED << rhash, harness, faults >>
       \/ /\ ~HeaderThere
          /\ rhash' \in { "missing", "debris" }
          /\ harness' = "missing"
          /\ Fault
    /\ UNCHANGED << image, seeds, trees, bin, output >>

clone_rhash ==
    /\ at = "clone"
    /\ \/ /\ rhash' = IF HeaderThere THEN rhash ELSE "whole"
          /\ harness' = IF HeaderThere THEN harness ELSE "missing"
          /\ Step("harness", "sqlite")
          /\ Succeed
       \/ /\ ~HeaderThere
          /\ rhash' \in Tear("clone", "partial", { "missing", "debris" })
          /\ harness' = "missing"
          /\ Fault
    /\ UNCHANGED << image, seeds, trees, bin, output >>

write_rhash_harness ==
    /\ at = "harness"
    /\ \/ /\ harness' = IF harness = "missing" THEN "whole" ELSE harness
          /\ Step("decide", RunAllBuildFirst)
          /\ Succeed
       \/ /\ harness = "missing"
          /\ harness' \in Tear("harness", "torn", { "missing" })
          /\ Fault
    /\ UNCHANGED << image, seeds, rhash, trees, bin, output >>

(* Building one target: run_all.sh decides, the build script does it.      *)

\* Mutant: only the LibFuzzer binary is looked for.
NeedsLibFuzzer(t) == ~Present(t, "lf")

NeedsBuild(t) == ~Present(t, "lf") \/ ~Present(t, "ddf")

build_all_fuzzers ==
    /\ at = "decide"
    /\ IF NeedsBuild(tgt) THEN Step("prepare", tgt) ELSE AfterBuild
    /\ UNCHANGED << setup, trees, bin, output, faults >>

\* What the script checks and does before it compiles: tools, the RHash
\* checkout, mkdir -p build (sqlite and rhash only), removing what the container's
\* root left in the tree (which takes the image): re2's objects, all of them, but
\* of sqlite's only what `make clean' and the list of docker_clean name.
Compilable(t) == /\ t = "rhash" => HeaderThere /\ harness # "missing"
                 /\ t \in rootOwned => image

\* Mutant: build_sqlite.sh does not create build/.
RhashMakesBuildDir(t) == t = "rhash"

MakesBuildDir(t) == t \in { "sqlite", "rhash" }

Prepare ==
    /\ at = "prepare"
    /\ \/ /\ Compilable(tgt)
          /\ buildDir' = (buildDir \/ MakesBuildDir(tgt))
          /\ rootOwned' \in { rootOwned \ { tgt } } \union { R \in { rootOwned } : tgt = "sqlite" }
          /\ Step("lf", tgt)
          /\ Succeed
       \/ /\ ~Compilable(tgt)
          /\ buildDir' = (buildDir \/ tgt = "sqlite")
          /\ Exit
          /\ UNCHANGED << rootOwned, faults >>
       \/ /\ Compilable(tgt)
          /\ buildDir' \in { buildDir, buildDir \/ MakesBuildDir(tgt) }
          /\ rootOwned' \in { rootOwned, rootOwned \ { tgt } }
          /\ Fault
    /\ UNCHANGED << setup, source, bin, output >>

\* A linker that fails removes its output, a compiler that fails before leaves
\* the old one; a kill may leave it cut off.
SetBin(f, v) == bin' = [ bin EXCEPT ![tgt][f] = v ]

Lost(f) == { bin[tgt][f], Absent }

\* The RHash checkout or its harness is incomplete: nothing built from it links.
Sound(t) == t = "rhash" => rhash = "whole" /\ harness = "whole"

\* Mutant: a LibFuzzer binary that is there is not built again.
KeepLibFuzzer ==
    /\ at = "lf"
    /\ \/ Present(tgt, "lf") /\ Step("wf", tgt) /\ UNCHANGED << bin, faults >>
       \/ ~Present(tgt, "lf") /\ Sound(tgt) /\ SetBin("lf", source) /\ Step("wf", tgt) /\ Succeed
       \/ (\E v \in Tear("binary", Torn, Lost("lf")) : SetBin("lf", v)) /\ Fault
    /\ UNCHANGED << setup, trees, output >>

\* Mutant: a build that fails is tried again.
BuildLibFuzzerRetry ==
    /\ at = "lf"
    /\ \/ Sound(tgt) /\ SetBin("lf", source) /\ Step("wf", tgt) /\ Succeed
       \/ ~Sound(tgt) /\ (\E v \in Lost("lf") : SetBin("lf", v)) /\ Step("prepare", tgt) /\ UNCHANGED faults
       \/ (\E v \in Tear("binary", Torn, Lost("lf")) : SetBin("lf", v)) /\ Fault
    /\ UNCHANGED << setup, trees, output >>

BuildLibFuzzer ==
    /\ at = "lf"
    /\ \/ Sound(tgt) /\ SetBin("lf", source) /\ Step("wf", tgt) /\ Succeed
       \/ ~Sound(tgt) /\ (\E v \in Lost("lf") : SetBin("lf", v)) /\ Exit /\ UNCHANGED faults
       \/ (\E v \in Tear("binary", Torn, Lost("lf")) : SetBin("lf", v)) /\ Fault
    /\ UNCHANGED << setup, trees, output >>

\* The WingFuzz objects go to build/, which cjson and re2 do not create.
BuildWingFuzz ==
    /\ at = "wf"
    /\ \/ buildDir /\ SetBin("wf", source) /\ Step("ddf", tgt) /\ Succeed
       \/ ~buildDir /\ Exit /\ UNCHANGED << bin, faults >>
       \/ buildDir /\ (\E v \in Tear("binary", Torn, Lost("wf")) : SetBin("wf", v)) /\ Fault
    /\ UNCHANGED << setup, trees, output >>

\* On the host, or as root in a container, or skipped: then the old binary, if
\* any, stays.  What the container leaves behind in the sqlite and re2 trees is
\* removed at its end (of re2 all of it); that too may fail, after the link.
\* Mutant: every container build leaves files in the source tree.
AnyInContainer(t) == ~HostAfl

InContainer(t) == ~HostAfl /\ t \in { "sqlite", "re2" }

LeavesFiles(ts) == { rootOwned } \union { rootOwned \union { t } : t \in ts }

BuildDDFuzz ==
    /\ at = "ddf"
    /\ \/ /\ HostAfl \/ image
          /\ SetBin("ddf", source)
          /\ rootOwned' \in LeavesFiles({ t \in { tgt } : InContainer(t) /\ t # "re2" })
          /\ AfterBuild
          /\ Succeed
       \/ ~(HostAfl \/ image) /\ AfterBuild /\ UNCHANGED << bin, rootOwned, faults >>
       \/ /\ HostAfl \/ image
          /\ \E v \in Tear("binary", Torn, Lost("ddf") \union { source }) : SetBin("ddf", v)
          /\ rootOwned' \in LeavesFiles({ t \in { tgt } : InContainer(t) })
          /\ Fault
    /\ UNCHANGED << setup, buildDir, source, output >>

(* Benchmarking one target.                                                *)

\* check_bins: no LibFuzzer or WingFuzz binary, no benchmark; no DDFuzz binary
\* or no image, no DDFuzz phase.
\* Mutant: a missing binary skips the target instead of ending the run.
check_bins_warning ==
    /\ at = "check"
    /\ \/ /\ Present(tgt, "lf") /\ Present(tgt, "wf")
          /\ has_ddfuzz' = (Present(tgt, "ddf") /\ image)
          /\ Goto(cmd, "measure", tgt) /\ UNCHANGED << secs, faults >>
       \/ ~(Present(tgt, "lf") /\ Present(tgt, "wf")) /\ AfterBenchmark /\ UNCHANGED faults
    /\ UNCHANGED << setup, trees, bin, output >>

check_bins ==
    /\ at = "check"
    /\ \/ /\ Present(tgt, "lf") /\ Present(tgt, "wf")
          /\ has_ddfuzz' = (Present(tgt, "ddf") /\ image)
          /\ Goto(cmd, "measure", tgt) /\ UNCHANGED << secs, faults >>
       \/ ~(Present(tgt, "lf") /\ Present(tgt, "wf")) /\ Exit /\ UNCHANGED faults
    /\ UNCHANGED << setup, trees, bin, output >>

\* The three phases and, last of all, the env file.  A fuzzer that fails does
\* not end the script (|| true): a DDFuzz container that does not start, that
\* fails, or whose afl-fuzz finds no seed with a byte in it, just leaves N/A.
Measured(d) == [ file |-> "whole",
                 row  |-> [ secs |-> secs, lf |-> bin[tgt]["lf"], ddf |-> d ] ]

DDFuzzRuns == has_ddfuzz /\ image /\ seeds[tgt] \in { "some", "all" }

\* Mutant: a container that does not start ends the script.
WriteEnvStrict ==
    /\ at = "measure"
    /\ \/ /\ has_ddfuzz => image
          /\ env' = [ env EXCEPT ![tgt] = Measured(IF DDFuzzRuns THEN bin[tgt]["ddf"] ELSE Absent) ]
          /\ AfterBenchmark
          /\ Succeed
       \/ has_ddfuzz /\ ~image /\ Exit /\ UNCHANGED << env, faults >>
    /\ UNCHANGED << setup, trees, bin, results >>

WriteEnv ==
    /\ at = "measure"
    /\ \/ /\ env' = [ env EXCEPT ![tgt] = Measured(IF DDFuzzRuns THEN bin[tgt]["ddf"] ELSE Absent) ]
          /\ AfterBenchmark
          /\ Succeed
       \/ /\ DDFuzzRuns /\ CountFault
          /\ env' = [ env EXCEPT ![tgt] = Measured(Absent) ]
          /\ AfterBenchmark
       \/ /\ \E e \in Tear("env", TornFile, { env[tgt] }) : env' = [ env EXCEPT ![tgt] = e ]
          /\ Fault
    /\ UNCHANGED << setup, trees, bin, results >>

\* The four env files are sourced and RESULTS.md is rewritten.
Publish ==
    /\ at = "publish"
    /\ \/ results' = [ file |-> "whole", secs |-> secs, row |-> env ] /\ Exit /\ Succeed
       \/ results' \in Tear("results", TornFile, { results }) /\ Fault
    /\ UNCHANGED << setup, trees, bin, env >>

(* The environment.                                                        *)

\* A command fails (docker build, git clone, apt-get, clang...) or the process is
\* killed before the step at hand has changed anything.
Stop ==
    /\ cmd # "idle"
    /\ Fault
    /\ UNCHANGED << setup, trees, bin, output >>

\* The sources are edited, or pulled, between two commands (not during one).
EditSource ==
    /\ cmd = "idle"
    /\ source < MaxVersion
    /\ source' = source + 1
    /\ UNCHANGED << control, setup, rootOwned, buildDir, bin, output, faults >>

\* The image is pruned, or the Docker daemon stops answering.
LoseImage ==
    /\ image /\ CountFault
    /\ image' = FALSE
    /\ UNCHANGED << control, seeds, rhash, harness, trees, bin, output >>
-----------------------------------------------------------------------------
StartCommand == StartRunAll \/ StartBuildAll \/ StartBuild \/ StartBenchmark

RunCommand ==
    \/ build_ddfuzz_image \/ create_seed_corpora \/ clone_rhash \/ write_rhash_harness
    \/ build_all_fuzzers \/ Prepare \/ BuildLibFuzzer \/ BuildWingFuzz \/ BuildDDFuzz
    \/ check_bins \/ WriteEnv \/ Publish

Next == StartCommand \/ RunCommand \/ Stop \/ EditSource \/ LoseImage

Spec == Init /\ [][Next]_vars

\* A running script goes on; a user whose run_all.sh ended starts it again.
FairSpec == Spec /\ WF_vars(RunCommand) /\ WF_vars(StartRunAll)
-----------------------------------------------------------------------------
\* Every variable stays within the states the scripts and the faults produce.
TypeOK ==
    /\ cmd \in AllCommands \union { "idle" }
    /\ at \in { "idle", "image", "seeds", "clone", "harness", "decide", "prepare",
                "lf", "wf", "ddf", "check", "measure", "publish" }
    /\ tgt \in Targets
    /\ secs \in Durations
    /\ has_ddfuzz \in BOOLEAN
    /\ image \in BOOLEAN
    /\ seeds \in [ Targets -> { "none", "empty", "some", "all" } ]
    /\ rhash \in { "missing", "debris", "partial", "whole" }
    /\ harness \in { "missing", "torn", "whole" }
    /\ rootOwned \subseteq { "sqlite", "re2" }
    /\ buildDir \in BOOLEAN
    /\ source \in Versions
    /\ bin \in [ Targets -> [ Fuzzers -> Binary ] ]
    /\ env \in [ Targets -> Env ]
    /\ results \in Results
    /\ faults \in 0..MaxFaults

\* The steps of run_all.sh after build_all_fuzzers.
Benchmarking == cmd = "run_all" /\ at \in { "check", "measure", "publish" }

\* Once run_all.sh says the binaries are ready, no benchmark it starts dies in
\* check_bins for a missing binary, although it looked for LibFuzzer and DDFuzz
\* only and earlier invocations may have been cut off anywhere.
BenchmarksFindTheirBinaries ==
    Benchmarking => \A t \in Targets : Present(t, "lf") /\ Present(t, "wf")

\* cjson and re2 compile into build/ without creating it: when run_all.sh builds
\* them it is there, also when the sqlite build that creates it was skipped.
BuildDirIsThere == cmd = "run_all" /\ at = "wf" => buildDir

\* No benchmark of run_all.sh starts on an empty seed directory, which afl-fuzz
\* refuses, however the writing of the seeds was interrupted before.  (A directory
\* whose one file is empty, which afl-fuzz refuses too, is not excluded.)
CorporaAreNotEmpty == Benchmarking => \A t \in Targets : seeds[t] # "none"

\* Every row of a complete RESULTS.md was measured for as long as its header
\* says: no row is left over from an env file of an earlier command.
RowsMatchHeader ==
    results.file = "whole" =>
        \A t \in Targets : /\ results.row[t].file = "whole"
                           /\ results.row[t].row.secs = results.secs

\* Fuzzers compared in one row were built from the same version of the source
\* ("All three fuzzers use the same SQLite source so results are comparable",
\* build_sqlite.sh:4), unless a binary is not whole.
Comparable(row) == row.lf \in Versions /\ row.ddf \in Versions => row.lf = row.ddf

RowsAreComparable ==
    results.file = "whole" =>
        \A t \in Targets : results.row[t].file = "whole" => Comparable(results.row[t].row)

\* RESULTS.md is only ever replaced as a whole by a run_all.sh that has just
\* benchmarked every target: no other step, and no failed run, touches it
\* otherwise than by cutting it off.
ResultsOnlyFromFullRuns ==
    [][ results' # results =>
          /\ cmd = "run_all" /\ at = "publish"
          /\ results' # TornFile => \A t \in Targets : /\ env[t].file = "whole"
                                                       /\ env[t].row.secs = secs ]_vars

\* "SQLite binaries already present (libfuzzer + wingfuzzer + DDFuzzer)."
\* (run_all.sh:212, and the same for the other targets): when a build is
\* skipped, all three binaries are there.
SkippedMeansPresent ==
    at = "decide" /\ ~NeedsBuild(tgt) => \A f \in Fuzzers : Present(tgt, f)

\* No later run_all.sh repairs a partial checkout or a truncated harness.
Repairable == rhash # "partial" /\ harness # "torn"

\* A user who repeats run_all.sh gets a RESULTS.md in the end, whatever earlier
\* invocations were cut off at, provided the interruption did not leave a
\* partial RHash checkout or a truncated harness, which nothing repairs.
EventuallyPublished == []Repairable => <>(results.file = "whole")

\* An invocation of run_all.sh ends in one of four ways only: with a fault of
\* its own, on a tree that is beyond repair, without the image it needs to clean
\* a tree, or with a RESULTS.md written for the duration it was given.  So what
\* earlier commands left behind never makes a later run_all.sh fail by itself,
\* nor does an image that goes away after the build.
RunsEndPublished ==
    [][ /\ cmd = "run_all" /\ cmd' = "idle" /\ faults' = faults /\ Repairable
        /\ (at = "prepare" /\ tgt \in rootOwned => image)
        => results'.file = "whole" /\ results'.secs = secs ]_vars

\* How many steps a running command can still take: the benchmarks and the
\* report, the builds before them, the bootstrap before those.
StepsLeft ==
    LET seeding  == [ sqlite |-> 3, rhash |-> 2, cjson |-> 1, re2 |-> 0 ]
        building == IF cmd = "run_all"
                    THEN [ sqlite |-> 3, cjson |-> 2, re2 |-> 1, rhash |-> 0 ]
                    ELSE seeding
    IN  CASE at = "idle"    -> 0
          [] at = "publish" -> 1
          [] at = "measure" -> 2 + 2 * seeding[tgt]
          [] at = "check"   -> 3 + 2 * seeding[tgt]
          [] at = "ddf"     -> 10 + 5 * building[tgt]
          [] at = "wf"      -> 11 + 5 * building[tgt]
          [] at = "lf"      -> 12 + 5 * building[tgt]
          [] at = "prepare" -> 13 + 5 * building[tgt]
          [] at = "decide"  -> 14 + 5 * building[tgt]
          [] at = "harness" -> 30
          [] at = "clone"   -> 31
          [] at = "seeds"   -> 32 + seeding[tgt]
          [] at = "image"   -> 36

\* Every command ends: whatever it finds on disk, each of its steps leaves fewer
\* steps to take, of at most 36, and nothing that happens around it adds any.
StepsRunOut ==
    [][ /\ StepsLeft' \in 0..36
        /\ cmd # "idle" => StepsLeft' < StepsLeft \/ (LoseImage /\ StepsLeft' = StepsLeft) ]_vars
-----------------------------------------------------------------------------
(* RunAll implements ResultsTable.                                         *)

\* The targets benchmarked before a given one, and by the current run_all.sh.
Before == [ sqlite |-> {}, rhash |-> { "sqlite" }, cjson |-> { "sqlite", "rhash" },
            re2 |-> { "sqlite", "rhash", "cjson" } ]

Done == IF at = "publish" THEN Targets ELSE Before[tgt]

\* The run of ResultsTable: the env files written so far, while it benchmarks.
Session ==
    IF Benchmarking
    THEN [ file |-> "whole", secs |-> secs,
           row  |-> [ t \in Targets |-> IF t \in Done THEN env[t] ELSE NoFile ] ]
    ELSE NoFile

Publication == INSTANCE ResultsTable WITH run <- Session, table <- results

\* Whatever commands are mixed and wherever they are cut off, run_all.sh keeps
\* the promise of ResultsTable: the env files on disk, which any benchmark may
\* have left there, make it into RESULTS.md only when this very invocation has
\* written them, one per target, for the duration it prints in the header.
ImplementsResultsTable == Publication!Spec
=============================================================================
