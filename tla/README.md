# A TLA+ model of the fuzzer benchmark

The repository compares three fuzzers (LibFuzzer, WingFuzz, DDFuzz) on four
libraries with injected bugs (SQLite, RHash, cJSON, re2). Its own code is a set
of shell scripts with a few small C and C++ programs; the libraries and the
fuzzers, and with them nearly all lines of C in the repository, are third-party
code. The models here are about the repository's own code: what the scripts
leave on disk, what they take for granted when they find it there again, and
whether the numbers in `RESULTS.md` mean what the file says.

## The system

| Part | Files | What it does |
|---|---|---|
| Pipeline driver | `run_all.sh` | bootstraps (packages, Docker image, seeds, RHash checkout), builds what is missing, runs the four benchmarks, sources their env files, writes `RESULTS.md` |
| Build scripts | `build_{sqlite,rhash,cjson,re2}.sh`, `build_all.sh` | per target: LibFuzzer, WingFuzz, then DDFuzz binary, the last one on the host or as root in the container |
| Benchmark scripts | `benchmark_{sqlite,rhash,cjson,re2}.sh` | per target: check the binaries, build the coverage binary once, three fuzzing phases, crash triage, coverage replay, `results/latest_<target>.env` |
| Crash triage | `bugs/scan_crashes.sh`, `bugs/identify_bug.sh` | replay the crash files of a phase, name the injected bug, report the first time of each |
| Score table | `run_all.sh` 268-420 | source the env files, count the bugs found per fuzzer, name the best |
| Harnesses | `*_harness.c`, `re2_harness.cc`, and that of RHash in `run_all.sh` | hand one input to the library |
| Replay programs | `cov_replay_*` | call the harness for the files on the command line |
| CMake files | `CMakeLists.txt` | used by none of the scripts |
| Third-party | `test_targets/*`, `prebuilt/wingfuzz`, the `ddfuzz:local` image | what is fuzzed, and with what |

The parts talk through files only. `run_all.sh` and the build scripts meet at
the binaries, `build/` and the source trees; `run_all.sh` and the benchmarks at
the env files; a benchmark and the triage at a directory of crash files and a
log; a benchmark and the replay programs at profiles. Every script but the two
in `bugs/` runs under `set -e`: the first command that fails ends the whole
invocation and leaves the files as they are. The interesting behaviour is
therefore what the *next* invocation makes of them, or one that runs beside it.

## Modules

| Module | Role |
|---|---|
| `RunAll`, `MCRunAll`, `RunAllProofs` | the pipeline: `run_all.sh`, the build scripts and the outline of the benchmarks |
| `ResultsTable` | abstract specification of `RESULTS.md`, which `RunAll` and `Aggregation` implement |
| `BuildTree`, `BuildTreeProofs` | what a build script does inside a source tree |
| `Benchmark`, `MCBenchmark`, `BenchmarkProofs` | several invocations of a benchmark script, step by step |
| `ScanCrashes`, `MCScanCrashes`, `ScanCrashesProofs` | the crash triage |
| `Aggregation`, `AggregationProofs` | the env files, their sourcing, the score |
| `Harness`, `HarnessProofs` | the harnesses, called by a fuzzer and by the coverage replay |
| `BenchmarkStats`, `BenchmarkStatsProofs` | exec/s and the winner of a benchmark |
| `Measurement`, `MCMeasurement`, `MeasurementProofs` | the last two composed |

An `MC` module is the instance for TLC, a `Proofs` module has the theorems.
`RunAll` treats a benchmark as two steps and a source tree as a version;
`Benchmark`, `Aggregation` and `BuildTree` each open up one of these.

Definitions whose comment says *Mutant* are deliberate mistakes. No
specification uses them; put in the place of the definition that follows them,
each makes one property fail, which shows that the property depends on that
piece of the code.

### RunAll

State: the control of the running command (`cmd`, `at`, `tgt`, and the shell
variables `secs` and `has_ddfuzz`), and the disk: `image`, `seeds`, `rhash`,
`harness`, `rootOwned` (trees with files of the container's root), `buildDir`,
`source` (a version number), `bin` (for each binary the version it was built
from, absent, or torn), `env` and `results`.

| Action | Code |
|---|---|
| `StartRunAll`, `StartBuildAll`, `StartBuild`, `StartBenchmark` | the user calls a script |
| `build_ddfuzz_image`, `create_seed_corpora`, `clone_rhash`, `write_rhash_harness` | `run_all.sh` 109-200 |
| `build_all_fuzzers` | the skip test of one target, `run_all.sh` 205-240 |
| `Prepare`, `BuildLibFuzzer`, `BuildWingFuzz`, `BuildDDFuzz` | the sections of a build script |
| `check_bins`, `WriteEnv` | the first and the last act of a benchmark script, with the phases between them taken together |
| `Publish` | `run_all.sh` 281-420 |
| `Stop`, and the `Fault` branch of a writing step | a command fails or the process is killed: before the step has changed anything, or in the middle of it |
| `EditSource`, `LoseImage` | the user edits the sources between commands; the image is pruned |

What differs between the targets is kept where it matters: `build_cjson.sh` and
`build_re2.sh` do not create `build/`; the sqlite and re2 containers may leave
root-owned files, which only a container can remove, and of which the clean-up of
sqlite may leave some (the tools it builds, which are only executed); RHash needs
its checkout and its harness; the order of builds differs between `run_all.sh` and
`build_all.sh`, and from the order of benchmarks.

A linker that fails removes its output and an earlier failure leaves the old
one; a kill may leave a file cut off. `TornWrites` names the writes for which
that is considered. A clone cut off leaves no directory, one without
`librhash/rhash.h`, or one that has the header but not every file. From such a
partial checkout, or with a truncated harness, nothing links. A corpus cut off in
its first file has one seed without bytes, which afl-fuzz does not accept:
`DDFuzzRuns` has the conditions under which the DDFuzz phase yields a figure.

Abstractions: a measurement is the version of the binary it was taken with;
seeds are none, one empty file, some or all; `results` is the `RESULTS.md` this machine wrote (a
clone brings one written elsewhere, which counts as none). The WingFuzz values
are in the env files but commented out of `RESULTS.md`, so a row has LibFuzzer
and DDFuzz. One command runs at a time and the sources are not edited during it.

### ScanCrashes

State: `disk` (the files a phase left, their times and traces, whether there is
a log), the files still to come (`pending`), the output of each replay
(`replay`), the answer of `identify_bug.sh` (`verdict`), the associative array
`first_seen` and the printed `result`. A trace is the set of bug functions that
occur in it, which is all the greps see. `find` lists files in no given order,
so `ScanFile` takes any pending one.

Two things make a replay's answer uncertain. The replay may time out or not
reproduce the crash (`ASAN_OUT`). And `identify_bug.sh` tests with
`echo "$ASAN_OUT" | grep -qE ...` under `pipefail`: when grep leaves at its first
match while echo is still writing, echo dies of SIGPIPE and the test fails
although it matched. `identify_bug` therefore answers for any subset of the
functions in the output. With GNU bash 5.2 a text of 215 kB whose second line
matches fails this way every time and one of 71 kB now and then; shorter
outputs fit into the pipe and were always matched. The greps over the log read
the file itself and have no such race.

### ResultsTable

Two variables: the `run` under way, as the table it may become, and the `table`.
A run is opened with a duration, measures one target after the other for that
duration, and is published as a whole or abandoned; abandoning a run that has
measured everything may leave the table torn. The refinement mapping (`Session`
in `RunAll`) reads the run off the env files: the entry of a target is what its
env file holds, provided this invocation is past that target's benchmark. That a
stale file never becomes an entry is what the refinement has to show.

`Aggregation` maps to it in another way: the run is what the benchmarks of this
`run_all.sh` measured (the history `own`), and the table is what was read back
from the files and the shell variables (`row`). That the two agree when the table
is published is what that refinement has to show (`OwnRowsReachTheTable`). It
holds as long as nothing has overlapped.

### BuildTree

State: the `tree`, the `script` in it with the sections `todo` and the step
`at`; the `makefile`, the objects with the instrumentation each was compiled
with, which of them are `stale` for make, the archive, the binaries, and the
kinds of files of root that are there (`rooted`: what `make clean` removes, what
configure writes, and tools that are only executed). A section is pre-clean,
clean, configure (sqlite only), compile object by object in any order, archive,
link, and in the container a final wipe. `Stop` may come anywhere, also between
the `make clean` and the `rm` of a pre-clean or a wipe. The trees differ as the
scripts do: the Makefile of sqlite is generated, so without it `make clean` does
nothing and re-running configure makes every object stale. It includes `main.mk`
by an absolute path, so a Makefile of the container cleans only in the container
and one of the host only on the host, unless the repository is at the same path
in both (`SamePath`); `CleanRule` says when `make clean` works. `rm -f *.o` in
librhash works on files of root as well; re2 has one library for two fuzzers.
`benchmark_rhash.sh` compiles librhash once more for coverage.
One command works in a tree at a time.

### Benchmark

State, shared: `clock` in seconds, `source` version, the coverage binary
`covBin` (absent, torn, or a version), `bins`, `image`, the files under the
output directory of each `RUN_ID`, the safe seeds, `env`. Per invocation: `pc`,
`started`, and the shell variables `has_ddfuzz`, `built`, `bugs`, `cov`. One
action per step of the script, from `check_bins` to `WriteEnv`, with the link of
the coverage binary and the env file in two steps each, since another invocation
can see them half done. `Stop` is a kill, or the failure of a command that is
neither in a condition nor followed by `|| true` (mkdir, cp, printf, awk, the
compiler, cat on a full disk), and may come before any step; only what is on disk
is left then. `Tick`, `EditSource` and `LoseImage` are the rest of the environment.

A file is the invocation that saved it and its kind; what directory it is in
decides who reads it. LibFuzzer's crashes are in `lf_corpus` beside the units,
those of WingFuzz in a directory of their own. `Saved` says which fuzzers save
what. A DDFuzz container that fails leaves no queue; one that runs leaves the
seeds in it, which may crash the replay like any seed. A coverage figure is the
version of the binary it was measured with, and where the script says N/A the
model keeps the cause: there was nothing to replay (`NoFiles`), no replay left a
profile (`NoProfile`), or llvm-profdata or llvm-cov failed (`ToolError`, counted
in `errors`). `Figures` has the figures a replay can end with. Only units are
known to survive their replay.
`overlapped` is a history variable: properties that need benchmarks one after
the other are stated under `~overlapped`, the others hold for any interleaving.

### Aggregation

State: the step `at` of `run_all.sh`, the four env files, the one set of shell
variables (`shell`) into which all four are sourced, the rows, scores, best
fuzzer and `RESULTS.md`; a benchmark run by hand (`hand`); what was measured
(`own`, `found`) and `overlapped` as history. An env file is empty from its
opening to its writing, and sourcing an empty file leaves the variables of the
previous target in place. A missing file ends the script, as does an unset
variable (`set -u`).

### Harness, BenchmarkStats, Measurement

`Harness`: one process at a time. `held` is what it has to give back (file, data
buffer, handles, strings), `seen` the files it is through with, `profiles` what
the processes before it wrote. Every library call may fail where the harness
tests for failure, and an input with a bug ends the process inside the library:
the fuzzer's for good, the replay's without a profile. llvm-profdata may fail.

`BenchmarkStats`: a log is the last unit count and the last positive exec/s, if
any; the clock answers anything; percentages are hundredths. `Execs` is the
quotient, the fallback and the N/A rule, `Compare` one round of the winner loop.

`Measurement` puts them in the order of the script. `PhaseEnds` leads from a
fuzzing process to its exec/s, `ReplayEnds` from the merged profile to the
comparison: without a profile there is no figure. A behaviour is about one phase
or one replay; the log and the coverage of the other corpora are arbitrary.

## Runs

| Run | Configuration | Shows |
|---|---|---|
| `triage` | 2 files, 3 times, 4 traces, log or no log; 244,296 states | `first_seen` always holds the earliest evidence in every order; no identified crash is lost from the report; nothing is credited without a trace |
| `repeated_run_all` | `run_all.sh` only, 3 faults, 2 versions, 2 durations; 6.7 million states | no benchmark dies for a missing binary; rows compare binaries of the same sources; a run without a fault of its own publishes, whatever the runs before left |
| `all_entry_points` | all four commands, 1 fault, 2 durations; 5.7 million states | `build/` is there when `run_all.sh` compiles into it; no corpus without a file; rows have the header's duration; `RESULTS.md` changes only after four fresh benchmarks; `RunAll` implements `ResultsTable` |
| `publication` | `run_all.sh` only, 2 faults, host compiler, with fairness; 62,328 states | repeating `run_all.sh` ends in a complete `RESULTS.md`; every command ends |
| `benchmark` | 2 invocations, 2 seconds, 2 versions, no safe seed, 1 tool error; 5.5 million states | without overlap one binary per row, a figure for every corpus with a unit unless a tool failed or the coverage binary was cut off, and an env file never older than the last benchmark that ended well; with or without, no replay starts on an empty directory, and crashes of others are reported only within the same second |
| `aggregation` | 3 bugs of 2 targets, 2 durations, 1 benchmark by hand; 1.6 million states | without overlap rows and scores are this run's own and `Aggregation` implements `ResultsTable`; with overlap a row may be another's, but no bug is credited that nobody found |
| `build_tree` | 3 objects, DDFuzz in the container, at another path; 4,367 states | a binary has only objects of its own instrumentation; the host never works among files of root that it would have to replace |
| `measurement` | 3 files, 4 targets, 3 calls, 3 clock readings; 570,424 states | nothing leaks on any failure path; a crash loses no other file's profile; exec/s and winner are earned |
| `skipped_build` | violation | `run_all.sh` 212 announces a WingFuzz binary that is not there |
| `mixed_versions` | violation | `build_sqlite.sh` 4 says results are comparable; a failed `build_all.sh` makes them not so |
| `log_with_two_bugs` | violation | `scan_crashes.sh` 2 promises each bug; the log yields one |
| `replay_not_named` | violation | `identify_bug.sh` 2 promises a name; the pipe race yields UNKNOWN |

Bounds. Two crash files are the least for which the order matters, and three
times include one before the start of the phase (clamped) and one equal to it.
Two versions and two durations are what it takes to tell old from new. Three
faults allow a cut-off run, a cut-off repetition and a loss of the image. One
fault is enough in `all_entry_points`, where the commands themselves, used in an
unexpected order, produce most of the odd states.

Two invocations are the least that overlap, and two seconds let them share a
`RUN_ID` or not. `SafeSeeds = FALSE` is the harder case: with it the placeholder
is needed. `Saved` has LibFuzzer save units and crashes, so that its corpus may be
empty, hold crashes only, or a unit among crashes, and the others nothing: their
corpora are empty and their fall-backs are used. One tool error (`MaxErrors`) can
hit any of the figures. `SamePath = FALSE` is the harder case, since a Makefile
then cleans on one side only. Of the
three bugs two share a target and its string, and one is of another target, so
that looking in the wrong string shows. The time 0 is the one that may be
mistaken for "not found". Three objects can be of three instrumentations. Three
clock readings give an interval of zero, one set back and two lengths. More
invocations, faults, bugs, files and objects are covered by the proofs, which
bound nothing.

`triage`, `benchmark`, `aggregation` and `measurement` allow deadlock, since the
scripts end; in the runs of `RunAll` and `BuildTree` a user can always start
another command, and deadlock is checked. Invocations in `benchmark` and files in
`measurement` are interchangeable and declared symmetric.

Fairness. Only `publication` is about liveness. `FairSpec` assumes that a
running script takes its next step (`WF_vars(RunCommand)`: the operating system
schedules it and its commands return) and that a user whose run ended starts
`run_all.sh` again (`WF_vars(StartRunAll)`). Faults are bounded, so they stop.
`EventuallyPublished` is conditional on `Repairable`: a partial RHash checkout or
a truncated harness passes the `-f` tests of every later run, and only removing
it by hand helps.

## Findings

1. *Skip test* (`run_all.sh` 208, 216, 224, 232). The test for the WingFuzz
   binary is commented out. As long as only `run_all.sh` builds, this is harmless
   (`SkipTestSuffices`, below). After a `build_all.sh` that failed at a WingFuzz
   link, it is not: every later `run_all.sh` skips the build and dies in
   `check_bins`.
2. *Mixed sources*. The same test never looks at the age of a binary. After an
   edit and a rebuild by `build_all.sh` that fails half way, new and old binaries
   are compared in one row.
3. *One bug per log* (`scan_crashes.sh` 60-68). The chain stops at its first
   match, so of two bugs in a log the second is reported as `not_found`.
4. *Lost match* (`identify_bug.sh` 6 and 21-33). The race between echo and
   grep described above.

Four more observations have no run of their own:

* *Overlap*. The header of `RESULTS.md` (`run_all.sh` 359) gives the duration of
  this run, but a benchmark run by hand beside it may replace an env file with one
  of another duration, or empty it and so let the previous target's row stand.
  `RowsAreOwn` therefore needs `~overlapped`.
* *Zero or N/A*. Only WingFuzz has a rule that turns "no evidence" into N/A
  (`benchmark_sqlite.sh` 242); for LibFuzzer the same log yields 0
  (`benchmark_sqlite.sh` 187), while `run_all.sh` 395 explains N/A.
* *Crashes beside the corpus*. A `lf_corpus` that holds crash files and no unit is
  not empty, so the fall-back to the seeds (`benchmark_rhash.sh` 313-315) does not
  happen and LibFuzzer's coverage may be N/A. What holds for every fuzzer is
  `UnitsAreMeasured`: one unit in the corpus is enough for a figure.
* *Empty seed*. A `create_seed_corpora` killed inside its first `printf`
  (`run_all.sh` 128) leaves a corpus of one empty file, which passes the test at
  line 127 ever after. `CorporaAreNotEmpty` is about directories without a file
  and does not exclude it; the benchmarks go on, with N/A for DDFuzz.

## Proofs

All theorems hold for arbitrary constants: any set of files, times, traces,
invocations, bugs, objects; any commands, durations, torn writes and bounds. The
only assumptions are the named `ASSUME`s on the constants' types, and
`OnlyRunAllBuilds` where it is mentioned.

`ScanCrashesProofs`. The inductive invariant is `TypeOK /\ FirstSeenIsEarliest /\
ScanInv`. `ScanInv` says that a named file was listed, is no longer pending and
has the bug in its trace; without "no longer pending" a file could be scanned
twice and its old verdict would drop out of the evidence. `FirstMatchFacts` shows
what the grep chain returns, `RecordFacts` that the update of the array is a
minimum. From them `TypesCorrect`, `FirstSeenCorrect` (the array holds the
earliest evidence), `CrashesCount` (no identified crash is lost) and
`CreditEarned` (no bug is credited without a trace that shows it).

`RunAllProofs`. `PipelineInv` strengthens the types with: which steps a command
can be at (`ControlInv`); a DDFuzz binary of sqlite implies that `build/` exists,
because the script that links the one creates the other first (`BuildDirInv`,
which is why skipping the sqlite build is safe for cjson and re2); the corpora
seen to so far (`SeedsInv`); the env files rewritten so far (`EnvInv`). From it:

* `TypeCorrect`, `BuildDirSafe`, `CorporaSafe`, `RowsSafe`;
* `PublicationIsFresh`: the action property `ResultsOnlyFromFullRuns`;
* `ImplementsTable`: `RunAll` implements `ResultsTable`. The initial states map
  to the initial state, and `StepRefines` shows for each action that it maps to a
  step or a stutter; `EnvInv` is what makes a benchmark's `WriteEnv` a `Measure`
  and `Publish` find a complete run.

* `CommandsEnd`: `StepsLeft` is a measure that every step of a command lowers
  (`StepsDecrease`, one case per action), whatever is on disk, so no command runs
  for ever.

`SkipTestSuffices` and `SkipTestKeepsRowsComparable` assume that no build script
is called directly (`OnlyRunAllBuilds`). `BinariesInv` says that a DDFuzz binary
*certifies* the other two: it is linked last, and under the assumption a target
that has one is never built again, so the other two are whole, of one version,
and the DDFuzz binary is of the same version or torn. `RowsInv` carries this to
the rows. From them follow `BenchmarksFindTheirBinaries` and `RowsAreComparable`.
The assumption is needed: findings 1 and 2 are its counterexamples.

`RerunsPublish` (`RunsEndPublished`) has the same assumption: `OnlyPublishEnds`
goes through the actions and shows that each way for a `run_all.sh` to give up
needs a fault, RHash sources beyond repair, a missing binary (excluded by
`BinariesInv`), or files of root in the tree to be built and no image. `SourcesInv`
says that `run_all.sh` has the header and the harness before it builds.

`BenchmarkProofs`. For any overlap: `TypesCorrect`; `CrashesOwn`, since a file is
only ever in the directory of the second its owner started in (`OwnInv`); and
`SomethingToReplay`, since after the pre-filter there are safe seeds or the
placeholder (`SeedInv`) and another invocation in the same directory only adds.
Without overlap the invariant `SeqInv` adds that one invocation at most is under
way (`Exclusive`), that who links the coverage binary found none and nobody is
past it before it is there (`LinkInv`), and that every figure is of the present
coverage binary (`CovInv`). From it `OneBinary`.
Two more invariants build on `SeqInv`. `OrderInv` and `NewestInv` relate the owner
of the env file to the start times of those that are through: `LatestSafe`.
`EarlyInv` (who has not come to the first phase has saved nothing),
`QueueInv` (a DDFuzz queue with a unit shows that `HAS_DDFUZZ` was set) and
`UnitInv` (from the step that measures a corpus on, a unit in it means a figure, a
tool error or a binary cut off)
give `UnitsMeasured`.

`AggregationProofs`. `CreditCorrect` rests on `CreditInv`: every row in an env
file, in the shell variables or in the table, whosever it is, reports only times
in `found`, and a string lists only bugs of its own target. A row in the wrong
place therefore credits nothing. `RowsOwn` and `ScoresEarned` rest on `OwnInv`,
which follows the env files through writing and sourcing while nothing overlaps.
`OwnTable` is the refinement of `ResultsTable`. Beside `OwnInv` it needs `TableInv`:
what has not been measured yet in this run, and what `RESULTS.md` is like
meanwhile. One lemma per abstract action shows that `Start` opens a run, `FillEnv`
measures a target that had no entry, a failure abandons the run (torn only when
all was measured), and `WriteResults` publishes what `own` holds; the other steps,
those of the benchmark by hand included, change nothing in `ResultsTable`.

`BuildTreeProofs`. The invariant relates the tree to the step (`TreeInv`): while
make runs, an object it would keep is of the current section's instrumentation.
`RootInv` is why the pre-clean works: objects of root are in sqlite's tree only
together with the Makefile of the container, which is written before them and
removed after them, so `make clean` in the container always finds its rule.
`Control` has the steps a section can be at. From it `BinariesOwn` and `HostOwns`,
for both values of `HostAfl` and `SamePath`.

`HarnessProofs`. `HeldInv` says for every step what may be held there,
`ProfileInv` that every file is still queued, in hand, in a profile or a crash:
`LeakFree`, `ProfilesKept`. `BenchmarkStatsProofs` shows `ExecsCorrect` from facts
about integer division, and `WinnerCorrect` with the loop invariant `BestSoFar`.
`MeasurementProofs` carries both over to the composition (`ProcessesSafe`,
`ArithmeticCorrect`).

Only model-checked: `EventuallyPublished`, since liveness under fairness is out
of the prover's reach. The steps of its argument are proved as safety and action
properties: every command ends (`CommandsEnd`), a `run_all.sh` that ends without a
fault has published (`RerunsPublish`). What remains for TLC is that fairness makes
the commands move and that faults, being bounded, stop.

## Not modelled

* The libraries under test, the fuzzers and the container. They are third-party
  code and make up nearly all of the repository's lines: the SQLite sources and
  amalgamation, re2 and cJSON. To the scripts they are versions of sources,
  binaries that save files, and calls that fail or crash; whether the injected
  bugs in them can be reached is for the fuzzers to say.
* Package installation (`run_all.sh` 32-93): outside the repository's files.
* CMake files: not used by the scripts.
* What is printed, and the layout of `RESULTS.md`.
* That sources differ: `benchmark_sqlite.sh` measures coverage with the
  amalgamation in `test_targets/sqlite` while the fuzzers are built from
  `sqlite3_full`; the coverage binary of re2 uses the system's re2; RHash is
  whatever upstream has. A version in the models is one version of all of them.
* A replay that does not return. The replays of `measure_coverage` have no time
  limit; the models assume that they end.
* Two commands in one source tree at the same time, and sources edited while a
  build reads them.
