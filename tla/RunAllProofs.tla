---------------------------- MODULE RunAllProofs ----------------------------
(***************************************************************************)
(* Proofs about RunAll, for every set of commands, every bound on faults   *)
(* and versions, every set of durations and every set of torn writes.      *)
(*                                                                         *)
(* A step that is first-order logic names Zenon; the others need sets of   *)
(* records, functions or numbers and are left to SMT.                      *)
(***************************************************************************)
EXTENDS RunAll, TLAPS

\* The targets run_all.sh builds before a given one (those it seeds and
\* benchmarks before it are in Before).
BuiltBefore == [ sqlite |-> {}, cjson |-> { "sqlite" }, re2 |-> { "sqlite", "cjson" },
                 rhash |-> { "sqlite", "cjson", "re2" } ]

\* Which steps a command goes through.
ControlInv ==
    /\ cmd = "idle" <=> at = "idle"
    /\ cmd = "benchmark" => at \in { "check", "measure" }
    /\ cmd \in { "build", "build_all" } => at \in { "prepare", "lf", "wf", "ddf" }

Compiling == at \in { "lf", "wf", "ddf" }

\* Where build/ is known to exist.
BuildDirInv ==
    /\ Present("sqlite", "ddf") => buildDir
    /\ Compiling /\ MakesBuildDir(tgt) => buildDir
    /\ cmd = "run_all" /\ at \in { "decide", "prepare" } /\ tgt # "sqlite" => buildDir
    /\ cmd = "run_all" /\ Compiling => buildDir

\* Which corpora run_all.sh has seen to.
SeedsInv ==
    /\ at = "seeds" => \A t \in Before[tgt] : seeds[t] # "none"
    /\ cmd = "run_all" /\ at \notin { "image", "seeds" } => \A t \in Targets : seeds[t] # "none"

\* The env files run_all.sh has already written anew, and RESULTS.md.
Fresh(t) == env[t].file = "whole" /\ env[t].row.secs = secs

EnvInv ==
    /\ cmd = "run_all" /\ at \in { "check", "measure" } => \A t \in Before[tgt] : Fresh(t)
    /\ at = "publish" => \A t \in Targets : Fresh(t)
    /\ RowsMatchHeader

\* The binaries, when run_all.sh is the only command that builds.  A DDFuzz
\* binary is written last and never rewritten: it certifies the other two.
Building == at \in { "prepare", "lf", "wf", "ddf" }

Certified(t) ==
    Present(t, "ddf") => /\ bin[t]["lf"] \in Versions
                         /\ bin[t]["wf"] = bin[t]["lf"]
                         /\ bin[t]["ddf"] \in { Torn, bin[t]["lf"] }

Usable(t) == Present(t, "lf") /\ Present(t, "wf")

BinariesInv ==
    /\ cmd \in { "idle", "run_all", "benchmark" }
    /\ \A t \in Targets : Certified(t)
    /\ Building => ~Present(tgt, "ddf")
    /\ at \in { "wf", "ddf" } => bin[tgt]["lf"] = source
    /\ at = "ddf" => bin[tgt]["wf"] = source
    /\ at = "decide" \/ Building => \A t \in BuiltBefore[tgt] : Usable(t)
    /\ Benchmarking => \A t \in Targets : Usable(t)

RowsInv ==
    /\ \A t \in Targets : env[t].file = "whole" => Comparable(env[t].row)
    /\ RowsAreComparable
-----------------------------------------------------------------------------
\* The definitions every step needs to see.
USE DEF Targets, Fuzzers, AllCommands

\* The initial state, a fresh clone of the repository, has the right types.
LEMMA InitType == Init => TypeOK
<1> SUFFICES ASSUME Init PROVE TypeOK
  OBVIOUS
<1>1. bin \in [ Targets -> [ Fuzzers -> Binary ] ]
  BY Zenon DEF Init, Binary
<1>2. env \in [ Targets -> Env ] /\ results \in Results
  BY Zenon DEF Init, Env, Results
<1>3. source \in Versions /\ faults \in 0..MaxFaults
  BY BoundsAssumption DEF Init, Versions
<1>4. QED
  BY <1>1, <1>2, <1>3, Zenon DEF Init, TypeOK

\* A binary of the current target set to a legal value leaves a legal table.
LEMMA SetBinType ==
    ASSUME TypeOK, NEW f \in Fuzzers, NEW v \in Binary, SetBin(f, v)
    PROVE  bin' \in [ Targets -> [ Fuzzers -> Binary ] ]
BY Zenon DEF TypeOK, SetBin

\* The values a failing or killed link may leave are legal.
LEMMA LostType ==
    ASSUME TypeOK, NEW f \in Fuzzers
    PROVE  /\ Lost(f) \subseteq Binary
           /\ Tear("binary", Torn, Lost(f)) \subseteq Binary
           /\ Tear("binary", Torn, Lost(f) \union { source }) \subseteq Binary
           /\ source \in Binary
BY DEF TypeOK, Lost, Tear, Binary

\* The control variables stay legal wherever a step leads.
LEMMA ControlTypes ==
    ASSUME TypeOK
    PROVE  /\ Exit => (cmd' \in AllCommands \union { "idle" } /\ tgt' \in Targets
                        /\ secs' \in Durations /\ has_ddfuzz' \in BOOLEAN /\ at' = "idle")
           /\ AfterBuild => (cmd' \in AllCommands \union { "idle" } /\ tgt' \in Targets
                        /\ secs' \in Durations /\ has_ddfuzz' \in BOOLEAN
                        /\ at' \in { "decide", "check", "prepare", "idle" })
           /\ AfterBenchmark => (cmd' \in AllCommands \union { "idle" } /\ tgt' \in Targets
                        /\ secs' \in Durations /\ has_ddfuzz' \in BOOLEAN
                        /\ at' \in { "check", "publish", "idle" })
           /\ Fault => Exit /\ faults' \in 0..MaxFaults
           /\ CountFault => faults' \in 0..MaxFaults
<1>1. Exit => (cmd' \in AllCommands \union { "idle" } /\ tgt' \in Targets
                 /\ secs' \in Durations /\ has_ddfuzz' \in BOOLEAN /\ at' = "idle")
  BY Zenon DEF TypeOK, Exit, Goto
<1>2. AfterBuild => (cmd' \in AllCommands \union { "idle" } /\ tgt' \in Targets
                       /\ secs' \in Durations /\ has_ddfuzz' \in BOOLEAN
                       /\ at' \in { "decide", "check", "prepare", "idle" })
  BY DEF TypeOK, AfterBuild, Exit, Goto, Step, RunAllBuildNext, BuildAllNext, BenchmarkFirst
<1>3. AfterBenchmark => (cmd' \in AllCommands \union { "idle" } /\ tgt' \in Targets
                           /\ secs' \in Durations /\ has_ddfuzz' \in BOOLEAN
                           /\ at' \in { "check", "publish", "idle" })
  BY DEF TypeOK, AfterBenchmark, Exit, Goto, Step, BenchmarkNext
<1>4. CountFault => faults' \in 0..MaxFaults
  BY BoundsAssumption DEF TypeOK, CountFault
<1>5. QED
  BY <1>1, <1>2, <1>3, <1>4, Zenon DEF Fault

\* A step that stays in the same command keeps the control variables legal.
LEMMA StepTypes ==
    ASSUME TypeOK, NEW a, NEW t \in Targets, Step(a, t)
    PROVE  cmd' \in AllCommands \union { "idle" } /\ at' = a /\ tgt' \in Targets
             /\ secs' \in Durations /\ has_ddfuzz' \in BOOLEAN
BY Zenon DEF TypeOK, Step, Goto

\* Every step of the bootstrap keeps the types.
LEMMA BootstrapType ==
    TypeOK /\ (build_ddfuzz_image \/ create_seed_corpora \/ clone_rhash \/ write_rhash_harness)
      => TypeOK'
<1> SUFFICES ASSUME TypeOK, build_ddfuzz_image \/ create_seed_corpora \/ clone_rhash
                              \/ write_rhash_harness
             PROVE  TypeOK'
  OBVIOUS
<1> USE DEF setup, trees, output, Succeed
<1>1. CASE build_ddfuzz_image
  BY <1>1, StepTypes, ControlTypes, Zenon DEF build_ddfuzz_image, TypeOK
<1>2. CASE create_seed_corpora
  <2>1. \A s \in { "none", "empty", "some", "all" } :
           [ seeds EXCEPT ![tgt] = s ] \in [ Targets -> { "none", "empty", "some", "all" } ]
    BY Zenon DEF TypeOK
  <2>2. seeds' \in [ Targets -> { "none", "empty", "some", "all" } ]
    BY <1>2, <2>1 DEF create_seed_corpora, TypeOK, Tear
  <2>3. QED
    BY <1>2, <2>2, StepTypes, ControlTypes DEF create_seed_corpora, TypeOK, SeedNext
<1>3. CASE clone_rhash
  BY <1>3, StepTypes, ControlTypes, ZenonT(60) DEF clone_rhash, TypeOK, Tear
<1>4. CASE write_rhash_harness
  BY <1>4, StepTypes, ControlTypes, ZenonT(60) DEF write_rhash_harness, TypeOK, Tear, RunAllBuildFirst
<1>5. QED
  BY <1>1, <1>2, <1>3, <1>4, Zenon

\* Every step of a build keeps the types.
LEMMA BuildType ==
    TypeOK /\ (build_all_fuzzers \/ Prepare \/ BuildLibFuzzer \/ BuildWingFuzz \/ BuildDDFuzz)
      => TypeOK'
<1> SUFFICES ASSUME TypeOK, build_all_fuzzers \/ Prepare \/ BuildLibFuzzer \/ BuildWingFuzz
                              \/ BuildDDFuzz
             PROVE  TypeOK'
  OBVIOUS
<1> USE DEF setup, trees, output, Succeed
<1>0. tgt \in Targets /\ source \in Binary
  BY LostType, Zenon DEF TypeOK
<1>1. CASE build_all_fuzzers
  BY <1>1, StepTypes, ControlTypes DEF build_all_fuzzers, TypeOK
<1>2. CASE Prepare
  <2>1. buildDir' \in BOOLEAN
    BY <1>2, Zenon DEF Prepare, TypeOK
  <2>2. rootOwned' \subseteq { "sqlite", "re2" }
    BY <1>2, Zenon DEF Prepare, TypeOK
  <2>3. faults' \in 0..MaxFaults
    BY <1>2, ControlTypes, Zenon DEF Prepare, TypeOK
  <2>4. /\ cmd' \in AllCommands \union { "idle" } /\ tgt' \in Targets
        /\ secs' \in Durations /\ has_ddfuzz' \in BOOLEAN /\ at' \in { "lf", "idle" }
    BY <1>0, <1>2, StepTypes, ControlTypes, Zenon DEF Prepare
  <2>5. QED
    BY <1>2, <2>1, <2>2, <2>3, <2>4, Zenon DEF Prepare, TypeOK
<1>3. CASE BuildLibFuzzer
  <2>1. bin' \in [ Targets -> [ Fuzzers -> Binary ] ]
    BY <1>0, <1>3, SetBinType, LostType, Zenon DEF BuildLibFuzzer
  <2>2. QED
    BY <1>3, <2>1, StepTypes, ControlTypes DEF BuildLibFuzzer, TypeOK
<1>4. CASE BuildWingFuzz
  <2>1. bin' \in [ Targets -> [ Fuzzers -> Binary ] ]
    BY <1>0, <1>4, SetBinType, LostType, Zenon DEF BuildWingFuzz, TypeOK
  <2>2. QED
    BY <1>4, <2>1, StepTypes, ControlTypes DEF BuildWingFuzz, TypeOK
<1>5. CASE BuildDDFuzz
  <2>1. bin' \in [ Targets -> [ Fuzzers -> Binary ] ]
    BY <1>0, <1>5, SetBinType, LostType, Zenon DEF BuildDDFuzz, TypeOK
  <2>2. rootOwned' \subseteq { "sqlite", "re2" }
    <3>1. rootOwned \subseteq { "sqlite", "re2" }
      BY Zenon DEF TypeOK
    <3>2. \/ rootOwned' \in LeavesFiles({ t \in { tgt } : InContainer(t) /\ t # "re2" })
          \/ rootOwned' \in LeavesFiles({ t \in { tgt } : InContainer(t) })
          \/ rootOwned' = rootOwned
      BY <1>5, Zenon DEF BuildDDFuzz
    <3>3. QED
      BY ONLY <3>1, <3>2, Zenon DEF LeavesFiles, InContainer
  <2>3. QED
    BY <1>5, <2>1, <2>2, StepTypes, ControlTypes, ZenonT(60) DEF BuildDDFuzz, TypeOK
<1>6. QED
  BY <1>1, <1>2, <1>3, <1>4, <1>5, Zenon

\* Every step of a benchmark, and the publication, keeps the types.
LEMMA BenchmarkType == TypeOK /\ (check_bins \/ WriteEnv \/ Publish) => TypeOK'
<1> SUFFICES ASSUME TypeOK, check_bins \/ WriteEnv \/ Publish PROVE TypeOK'
  OBVIOUS
<1> USE DEF setup, trees, output, Succeed
<1>1. CASE check_bins
  <2>1. has_ddfuzz' \in BOOLEAN
    BY <1>1, ControlTypes, Zenon DEF check_bins, TypeOK
  <2>2. /\ cmd' \in AllCommands \union { "idle" } /\ tgt' \in Targets
        /\ secs' \in Durations /\ at' \in { "measure", "idle" }
    BY <1>1, ControlTypes, Zenon DEF check_bins, TypeOK, Goto
  <2>3. faults' \in 0..MaxFaults
    BY <1>1, ControlTypes, Zenon DEF check_bins, TypeOK
  <2>4. QED
    BY <1>1, <2>1, <2>2, <2>3, Zenon DEF check_bins, TypeOK
<1>2. CASE WriteEnv
  <2>1. \A d \in Binary : Measured(d) \in Env
    BY ZenonT(60) DEF TypeOK, Measured, Env, Row
  <2>2. bin[tgt]["ddf"] \in Binary /\ Absent \in Binary /\ TornFile \in Env /\ env[tgt] \in Env
    BY ZenonT(60) DEF TypeOK, Binary, Env
  <2>3. \A e \in Env : [ env EXCEPT ![tgt] = e ] \in [ Targets -> Env ]
    BY Zenon DEF TypeOK
  <2>4. env' \in [ Targets -> Env ]
    BY <1>2, <2>1, <2>2, <2>3, ZenonT(60) DEF WriteEnv, Tear
  <2>5. QED
    BY <1>2, <2>4, ControlTypes, ZenonT(60) DEF WriteEnv, TypeOK
<1>3. CASE Publish
  <2>1. results' \in Results
    BY <1>3 DEF Publish, TypeOK, Results, Tear
  <2>2. QED
    BY <1>3, <2>1, ControlTypes, ZenonT(60) DEF Publish, TypeOK
<1>4. QED
  BY <1>1, <1>2, <1>3, Zenon

\* Every step of the system keeps the types.
LEMMA NextType == TypeOK /\ [Next]_vars => TypeOK'
<1> SUFFICES ASSUME TypeOK, [Next]_vars PROVE TypeOK'
  OBVIOUS
<1> USE DEF control, setup, trees, output
<1>1. CASE StartCommand
  <2>1. PICK c \in AllCommands, a \in { "image", "prepare", "check" }, t \in Targets :
           Start(c, a, t)
    BY <1>1, Zenon DEF StartCommand, StartRunAll, StartBuildAll, StartBuild, StartBenchmark
  <2>2. /\ cmd' \in AllCommands /\ at' \in { "image", "prepare", "check" } /\ tgt' \in Targets
        /\ secs' \in Durations /\ has_ddfuzz' = FALSE
    BY <2>1, Zenon DEF Start, Goto
  <2>3. UNCHANGED << setup, trees, bin, output, faults >>
    BY <2>1, Zenon DEF Start
  <2>4. QED
    BY <2>2, <2>3, Zenon DEF TypeOK
<1>2. CASE RunCommand
  BY <1>2, BootstrapType, BuildType, BenchmarkType, Zenon DEF RunCommand
<1>3. CASE EditSource
  BY <1>3, BoundsAssumption DEF EditSource, TypeOK, Versions
<1>4. CASE LoseImage
  <2>1. image' \in BOOLEAN /\ faults' \in 0..MaxFaults
    BY <1>4, ControlTypes, Zenon DEF LoseImage
  <2>2. UNCHANGED << control, seeds, rhash, harness, trees, bin, output >>
    BY <1>4, Zenon DEF LoseImage
  <2>3. QED
    BY <2>1, <2>2 DEF TypeOK
<1>5. CASE Stop
  BY <1>5, ControlTypes, Zenon DEF Stop, TypeOK
<1>6. CASE UNCHANGED vars
  BY <1>6 DEF vars, TypeOK
<1>7. QED
  BY <1>1, <1>2, <1>3, <1>4, <1>5, <1>6, Zenon DEF Next

\* Type correctness: no sequence of commands, failures, kills and edits leaves
\* the files of the pipeline in a state the model does not describe.
THEOREM TypeCorrect == Spec => []TypeOK
BY InitType, NextType, PTL DEF Spec
-----------------------------------------------------------------------------
\* Every step goes where the command's script goes next.
LEMMA NextControl == TypeOK /\ ControlInv /\ [Next]_vars => ControlInv'
<1> SUFFICES ASSUME TypeOK /\ ControlInv, [Next]_vars PROVE ControlInv'
  OBVIOUS
<1> tgt \in Targets
  BY Zenon DEF TypeOK
<1> USE DEF ControlInv, Goto, Step, Exit, Fault
<1>1. CASE StartCommand
  BY <1>1, Zenon DEF StartCommand, StartRunAll, StartBuildAll, StartBuild, StartBenchmark, Start
<1>2. CASE build_ddfuzz_image
  BY <1>2, Zenon DEF build_ddfuzz_image
<1>3. CASE create_seed_corpora
  BY <1>3, Zenon DEF create_seed_corpora, SeedNext
<1>4. CASE clone_rhash
  BY <1>4, Zenon DEF clone_rhash
<1>5. CASE write_rhash_harness
  BY <1>5, Zenon DEF write_rhash_harness, RunAllBuildFirst
<1>6. CASE build_all_fuzzers
  BY <1>6, Zenon DEF build_all_fuzzers, AfterBuild, RunAllBuildNext, BuildAllNext, BenchmarkFirst
<1>7. CASE Prepare
  BY <1>7, Zenon DEF Prepare
<1>8. CASE BuildLibFuzzer
  BY <1>8, Zenon DEF BuildLibFuzzer
<1>9. CASE BuildWingFuzz
  BY <1>9, Zenon DEF BuildWingFuzz
<1>10. CASE BuildDDFuzz
  BY <1>10, Zenon DEF BuildDDFuzz, AfterBuild, RunAllBuildNext, BuildAllNext, BenchmarkFirst
<1>11. CASE check_bins
  BY <1>11, Zenon DEF check_bins
<1>12. CASE WriteEnv
  BY <1>12, Zenon DEF WriteEnv, AfterBenchmark, BenchmarkNext
<1>13. CASE Publish
  BY <1>13, Zenon DEF Publish
<1>14. CASE Stop
  BY <1>14, Zenon DEF Stop
<1>15. CASE EditSource \/ LoseImage \/ UNCHANGED vars
  BY <1>15, Zenon DEF EditSource, LoseImage, vars, control
<1>16. QED
  BY <1>1, <1>2, <1>3, <1>4, <1>5, <1>6, <1>7, <1>8, <1>9, <1>10, <1>11, <1>12, <1>13,
     <1>14, <1>15, Zenon DEF Next, RunCommand

\* build/ is there whenever run_all.sh compiles into it, also after a skipped
\* sqlite build: its DDFuzz binary proves that an earlier build made it.
LEMMA NextBuildDir == TypeOK /\ ControlInv /\ BuildDirInv /\ [Next]_vars => BuildDirInv'
<1> SUFFICES ASSUME TypeOK /\ ControlInv /\ BuildDirInv, [Next]_vars PROVE BuildDirInv'
  OBVIOUS
<1> tgt \in Targets /\ buildDir \in BOOLEAN /\ bin \in [ Targets -> [ Fuzzers -> Binary ] ]
  BY Zenon DEF TypeOK
<1> USE DEF ControlInv, BuildDirInv, Compiling, MakesBuildDir, Present, Goto, Step, Exit,
            Fault, trees, setup, output
<1>1. CASE StartCommand
  BY <1>1, Zenon DEF StartCommand, StartRunAll, StartBuildAll, StartBuild, StartBenchmark, Start
<1>2. CASE build_ddfuzz_image
  BY <1>2, Zenon DEF build_ddfuzz_image
<1>3. CASE create_seed_corpora
  BY <1>3, Zenon DEF create_seed_corpora, SeedNext
<1>4. CASE clone_rhash
  BY <1>4, Zenon DEF clone_rhash
<1>5. CASE write_rhash_harness
  BY <1>5, Zenon DEF write_rhash_harness, RunAllBuildFirst
<1>6. CASE build_all_fuzzers
  BY <1>6, Zenon DEF build_all_fuzzers, AfterBuild, RunAllBuildNext, BuildAllNext, BenchmarkFirst,
              NeedsBuild
<1>7. CASE Prepare
  BY <1>7, Zenon DEF Prepare
<1>8. CASE BuildLibFuzzer
  BY <1>8, Zenon DEF BuildLibFuzzer, SetBin
<1>9. CASE BuildWingFuzz
  BY <1>9, Zenon DEF BuildWingFuzz, SetBin
<1>10. CASE BuildDDFuzz
  BY <1>10, Zenon DEF BuildDDFuzz, AfterBuild, RunAllBuildNext, BuildAllNext, BenchmarkFirst, SetBin
<1>11. CASE check_bins
  BY <1>11, Zenon DEF check_bins
<1>12. CASE WriteEnv
  BY <1>12, Zenon DEF WriteEnv, AfterBenchmark, BenchmarkNext
<1>13. CASE Publish
  BY <1>13, Zenon DEF Publish
<1>14. CASE Stop
  BY <1>14, Zenon DEF Stop
<1>15. CASE EditSource \/ LoseImage \/ UNCHANGED vars
  BY <1>15, Zenon DEF EditSource, LoseImage, vars, control
<1>16. QED
  BY <1>1, <1>2, <1>3, <1>4, <1>5, <1>6, <1>7, <1>8, <1>9, <1>10, <1>11, <1>12, <1>13,
     <1>14, <1>15, Zenon DEF Next, RunCommand

\* run_all.sh leaves no corpus empty behind it.
LEMMA NextSeeds == TypeOK /\ ControlInv /\ SeedsInv /\ [Next]_vars => SeedsInv'
<1> SUFFICES ASSUME TypeOK /\ ControlInv /\ SeedsInv, [Next]_vars PROVE SeedsInv'
  OBVIOUS
<1> tgt \in Targets /\ seeds \in [ Targets -> { "none", "empty", "some", "all" } ]
  BY Zenon DEF TypeOK
<1> USE DEF ControlInv, SeedsInv, Before, Goto, Step, Exit, Fault, trees, setup, output
<1>1. CASE StartCommand
  BY <1>1, Zenon DEF StartCommand, StartRunAll, StartBuildAll, StartBuild, StartBenchmark, Start
<1>2. CASE build_ddfuzz_image
  BY <1>2, Zenon DEF build_ddfuzz_image
<1>3. CASE create_seed_corpora
  BY <1>3 DEF create_seed_corpora, SeedNext, Tear
<1>4. CASE clone_rhash
  BY <1>4, Zenon DEF clone_rhash
<1>5. CASE write_rhash_harness
  BY <1>5, Zenon DEF write_rhash_harness, RunAllBuildFirst
<1>6. CASE build_all_fuzzers
  BY <1>6, Zenon DEF build_all_fuzzers, AfterBuild, RunAllBuildNext, BuildAllNext, BenchmarkFirst
<1>7. CASE Prepare
  BY <1>7, Zenon DEF Prepare
<1>8. CASE BuildLibFuzzer
  BY <1>8, Zenon DEF BuildLibFuzzer
<1>9. CASE BuildWingFuzz
  BY <1>9, Zenon DEF BuildWingFuzz
<1>10. CASE BuildDDFuzz
  BY <1>10, Zenon DEF BuildDDFuzz, AfterBuild, RunAllBuildNext, BuildAllNext, BenchmarkFirst
<1>11. CASE check_bins
  BY <1>11, Zenon DEF check_bins
<1>12. CASE WriteEnv
  BY <1>12, Zenon DEF WriteEnv, AfterBenchmark, BenchmarkNext
<1>13. CASE Publish
  BY <1>13, Zenon DEF Publish
<1>14. CASE Stop
  BY <1>14, Zenon DEF Stop
<1>15. CASE EditSource \/ LoseImage \/ UNCHANGED vars
  BY <1>15, Zenon DEF EditSource, LoseImage, vars, control
<1>16. QED
  BY <1>1, <1>2, <1>3, <1>4, <1>5, <1>6, <1>7, <1>8, <1>9, <1>10, <1>11, <1>12, <1>13,
     <1>14, <1>15, Zenon DEF Next, RunCommand

\* run_all.sh publishes only what its own benchmarks have written.
LEMMA NextEnv == TypeOK /\ ControlInv /\ EnvInv /\ [Next]_vars => EnvInv'
<1> SUFFICES ASSUME TypeOK /\ ControlInv /\ EnvInv, [Next]_vars PROVE EnvInv'
  OBVIOUS
<1> tgt \in Targets /\ env \in [ Targets -> Env ]
  BY Zenon DEF TypeOK
<1> USE DEF ControlInv, EnvInv, Fresh, RowsMatchHeader, Before, Goto, Step, Exit, Fault,
            trees, setup, output
<1>1. CASE StartCommand
  BY <1>1, ZenonT(60) DEF StartCommand, StartRunAll, StartBuildAll, StartBuild, StartBenchmark, Start
<1>2. CASE build_ddfuzz_image
  BY <1>2, Zenon DEF build_ddfuzz_image
<1>3. CASE create_seed_corpora
  BY <1>3, Zenon DEF create_seed_corpora, SeedNext
<1>4. CASE clone_rhash
  BY <1>4, Zenon DEF clone_rhash
<1>5. CASE write_rhash_harness
  BY <1>5, Zenon DEF write_rhash_harness, RunAllBuildFirst
<1>6. CASE build_all_fuzzers
  BY <1>6 DEF build_all_fuzzers, AfterBuild, RunAllBuildNext, BuildAllNext, BenchmarkFirst
<1>7. CASE Prepare
  BY <1>7, Zenon DEF Prepare
<1>8. CASE BuildLibFuzzer
  BY <1>8, Zenon DEF BuildLibFuzzer
<1>9. CASE BuildWingFuzz
  BY <1>9, Zenon DEF BuildWingFuzz
<1>10. CASE BuildDDFuzz
  BY <1>10 DEF BuildDDFuzz, AfterBuild, RunAllBuildNext, BuildAllNext, BenchmarkFirst
<1>11. CASE check_bins
  BY <1>11, Zenon DEF check_bins
<1>12. CASE WriteEnv
  BY <1>12 DEF WriteEnv, AfterBenchmark, BenchmarkNext, Measured, Tear, TornFile
<1>13. CASE Publish
  BY <1>13 DEF Publish, Tear, TornFile
<1>14. CASE Stop
  BY <1>14, Zenon DEF Stop
<1>15. CASE EditSource \/ LoseImage \/ UNCHANGED vars
  BY <1>15, ZenonT(60) DEF EditSource, LoseImage, vars, control
<1>16. QED
  BY <1>1, <1>2, <1>3, <1>4, <1>5, <1>6, <1>7, <1>8, <1>9, <1>10, <1>11, <1>12, <1>13,
     <1>14, <1>15, Zenon DEF Next, RunCommand

-----------------------------------------------------------------------------
\* The invariant for any set of commands.
PipelineInv == TypeOK /\ ControlInv /\ BuildDirInv /\ SeedsInv /\ EnvInv

\* It holds at the start and every step keeps it.
LEMMA PipelineInvariant == Spec => []PipelineInv
<1>1. Init => PipelineInv
  <2> SUFFICES ASSUME Init PROVE PipelineInv
    OBVIOUS
  <2>1. ControlInv /\ SeedsInv
    BY Zenon DEF Init, ControlInv, SeedsInv
  <2>2. BuildDirInv
    BY Zenon DEF Init, BuildDirInv, Present, Compiling
  <2>3. EnvInv
    BY Zenon DEF Init, EnvInv, RowsMatchHeader, NoFile
  <2>4. QED
    BY <2>1, <2>2, <2>3, InitType, Zenon DEF PipelineInv
<1>2. PipelineInv /\ [Next]_vars => PipelineInv'
  BY NextType, NextControl, NextBuildDir, NextSeeds, NextEnv, Zenon DEF PipelineInv
<1>3. QED
  BY <1>1, <1>2, PTL DEF Spec

\* When run_all.sh compiles into build/ it is there, whatever commands the user
\* mixes and wherever they were cut off.
THEOREM BuildDirSafe == Spec => []BuildDirIsThere
<1>1. PipelineInv => BuildDirIsThere
  BY Zenon DEF PipelineInv, BuildDirInv, BuildDirIsThere, Compiling
<1>2. QED
  BY <1>1, PipelineInvariant, PTL

\* run_all.sh benchmarks no empty corpus, wherever the writing of the seeds was
\* cut off before.
THEOREM CorporaSafe == Spec => []CorporaAreNotEmpty
<1>1. PipelineInv => CorporaAreNotEmpty
  BY Zenon DEF PipelineInv, SeedsInv, CorporaAreNotEmpty, Benchmarking
<1>2. QED
  BY <1>1, PipelineInvariant, PTL

\* Every row of a complete RESULTS.md was measured as its header says, although
\* any benchmark script may have left its env file behind.
THEOREM RowsSafe == Spec => []RowsMatchHeader
<1>1. PipelineInv => RowsMatchHeader
  BY Zenon DEF PipelineInv, EnvInv
<1>2. QED
  BY <1>1, PipelineInvariant, PTL

\* No step but the last one of a run_all.sh that has benchmarked every target
\* anew changes RESULTS.md, except by being killed in the middle of it.
THEOREM PublicationIsFresh == Spec => ResultsOnlyFromFullRuns
<1> DEFINE A == results' # results =>
                  /\ cmd = "run_all" /\ at = "publish"
                  /\ results' # TornFile => \A t \in Targets : /\ env[t].file = "whole"
                                                               /\ env[t].row.secs = secs
<1>1. PipelineInv /\ [Next]_vars => [A]_vars
  <2> SUFFICES ASSUME PipelineInv, Next, results' # results
               PROVE  /\ cmd = "run_all" /\ at = "publish"
                      /\ \A t \in Targets : env[t].file = "whole" /\ env[t].row.secs = secs
    OBVIOUS
  <2>1. Publish
    BY Zenon DEF Next, StartCommand, StartRunAll, StartBuildAll, StartBuild, StartBenchmark, Start,
           RunCommand, build_ddfuzz_image, create_seed_corpora, clone_rhash,
           write_rhash_harness, build_all_fuzzers, Prepare, BuildLibFuzzer, BuildWingFuzz,
           BuildDDFuzz, check_bins, WriteEnv, Stop, EditSource, LoseImage, output
  <2>2. QED
    BY <2>1, Zenon DEF Publish, PipelineInv, TypeOK, ControlInv, EnvInv, Fresh
<1>2. QED
  BY <1>1, PipelineInvariant, PTL DEF Spec, ResultsOnlyFromFullRuns

-----------------------------------------------------------------------------
\* Every step of every command counts down.
LEMMA StepsDecrease ==
    PipelineInv /\ PipelineInv' /\ Next =>
        /\ StepsLeft' \in 0..36
        /\ cmd # "idle" => StepsLeft' < StepsLeft \/ (LoseImage /\ StepsLeft' = StepsLeft)
<1> SUFFICES ASSUME PipelineInv, PipelineInv', Next
             PROVE  /\ StepsLeft' \in 0..36
                    /\ cmd # "idle" => StepsLeft' < StepsLeft \/ (LoseImage /\ StepsLeft' = StepsLeft)
  OBVIOUS
<1>0. TypeOK /\ TypeOK' /\ ControlInv /\ ControlInv'
  BY Zenon DEF PipelineInv
<1>1. StepsLeft' \in 0..36
  BY <1>0 DEF TypeOK, StepsLeft
<1> tgt \in Targets
  BY <1>0, Zenon DEF TypeOK
<1> USE DEF Goto, Step, Exit, Fault
<1>2. ASSUME Exit, cmd # "idle" PROVE StepsLeft' < StepsLeft
  <2>1. at # "idle"
    BY <1>0, <1>2, Zenon DEF ControlInv
  <2>2. StepsLeft' = 0
    BY <1>2, Zenon DEF StepsLeft
  <2>3. StepsLeft > 0
    BY <1>0, <2>1 DEF TypeOK, StepsLeft
  <2>4. QED
    BY <2>2, <2>3, Zenon
<1>3. ASSUME AfterBuild, at \in { "decide", "ddf" } PROVE StepsLeft' < StepsLeft
  <2>1. cmd # "idle"
    BY <1>0, <1>3, Zenon DEF ControlInv
  <2>2. CASE Exit
    BY <1>2, <2>1, <2>2, Zenon
  <2>3. CASE cmd = "run_all" /\ RunAllBuildNext[tgt] # "end" /\ Step("decide", RunAllBuildNext[tgt])
    BY <1>3, <2>3 DEF StepsLeft, RunAllBuildNext
  <2>4. CASE cmd = "run_all" /\ Step("check", BenchmarkFirst)
    BY <1>3, <2>4 DEF StepsLeft, BenchmarkFirst
  <2>5. CASE cmd = "build_all" /\ BuildAllNext[tgt] # "end" /\ Step("prepare", BuildAllNext[tgt])
    BY <1>3, <2>5 DEF StepsLeft, BuildAllNext
  <2>6. QED
    BY <1>3, <2>2, <2>3, <2>4, <2>5, Zenon DEF AfterBuild
<1>4. ASSUME AfterBenchmark, at = "measure" PROVE StepsLeft' < StepsLeft
  <2>1. cmd # "idle"
    BY <1>0, <1>4, Zenon DEF ControlInv
  <2>2. CASE Exit
    BY <1>2, <2>1, <2>2, Zenon
  <2>3. CASE BenchmarkNext[tgt] # "end" /\ Step("check", BenchmarkNext[tgt])
    BY <1>4, <2>3 DEF StepsLeft, BenchmarkNext
  <2>4. CASE Step("publish", "sqlite")
    BY <1>4, <2>4 DEF StepsLeft
  <2>5. QED
    BY <1>4, <2>2, <2>3, <2>4, Zenon DEF AfterBenchmark
<1>5. ASSUME RunCommand, ~Exit PROVE StepsLeft' < StepsLeft
  <2>1. CASE build_ddfuzz_image
    BY <2>1 DEF build_ddfuzz_image, StepsLeft
  <2>2. CASE create_seed_corpora
    BY <1>5, <2>2 DEF create_seed_corpora, SeedNext, StepsLeft
  <2>3. CASE clone_rhash \/ write_rhash_harness
    BY <1>5, <2>3 DEF clone_rhash, write_rhash_harness, RunAllBuildFirst, StepsLeft
  <2>4. CASE build_all_fuzzers
    <3>1. CASE Step("prepare", tgt)
      BY <2>4, <3>1 DEF build_all_fuzzers, StepsLeft
    <3>2. QED
      BY <1>3, <2>4, <3>1, Zenon DEF build_all_fuzzers
  <2>5. CASE Prepare \/ BuildLibFuzzer \/ BuildWingFuzz
    <3>1. \/ at = "prepare" /\ Step("lf", tgt)
          \/ at = "lf" /\ Step("wf", tgt)
          \/ at = "wf" /\ Step("ddf", tgt)
      BY <1>5, <2>5, Zenon DEF Prepare, BuildLibFuzzer, BuildWingFuzz
    <3>2. QED
      BY <3>1 DEF StepsLeft
  <2>6. CASE BuildDDFuzz
    BY <1>3, <1>5, <2>6, Zenon DEF BuildDDFuzz
  <2>7. CASE check_bins
    BY <1>5, <2>7 DEF check_bins, StepsLeft
  <2>8. CASE WriteEnv
    BY <1>4, <1>5, <2>8, Zenon DEF WriteEnv
  <2>9. CASE Publish
    BY <1>5, <2>9, Zenon DEF Publish
  <2>10. QED
    BY <1>5, <2>1, <2>2, <2>3, <2>4, <2>5, <2>6, <2>7, <2>8, <2>9, Zenon DEF RunCommand
<1>6. ASSUME cmd # "idle" PROVE StepsLeft' < StepsLeft \/ (LoseImage /\ StepsLeft' = StepsLeft)
  <2>1. RunCommand \/ Exit \/ LoseImage
    BY <1>6, Zenon DEF Next, StartCommand, StartRunAll, StartBuildAll, StartBuild, StartBenchmark,
                Start, Stop, EditSource
  <2>2. CASE LoseImage
    BY <2>2, Zenon DEF LoseImage, control, StepsLeft
  <2>3. QED
    BY <1>2, <1>5, <1>6, <2>1, <2>2, Zenon
<1>7. QED
  BY <1>1, <1>6, Zenon

\* Every command of the pipeline ends after at most 36 steps, whatever it finds
\* on disk and whatever happens around it.
THEOREM CommandsEnd == Spec => StepsRunOut
<1>1. PipelineInv /\ PipelineInv' /\ [Next]_vars =>
        [ /\ StepsLeft' \in 0..36
          /\ cmd # "idle" => StepsLeft' < StepsLeft
                               \/ (LoseImage /\ StepsLeft' = StepsLeft) ]_vars
  BY StepsDecrease, Zenon
<1>2. QED
  BY <1>1, PipelineInvariant, PTL DEF Spec, StepsRunOut

-----------------------------------------------------------------------------
\* What is known of the RHash sources: a harness lies in a checkout that has the
\* header, and run_all.sh has both before it builds.
SourcesInv ==
    /\ harness # "missing" \/ at = "harness" => HeaderThere
    /\ cmd = "run_all" /\ at \in { "decide", "prepare", "lf", "wf", "ddf" }
         => HeaderThere /\ harness # "missing"

\* Nothing repairs or removes the RHash sources once the header is there.
LEMMA NextSources == TypeOK /\ ControlInv /\ SourcesInv /\ [Next]_vars => SourcesInv'
<1> SUFFICES ASSUME TypeOK /\ ControlInv /\ SourcesInv, [Next]_vars PROVE SourcesInv'
  OBVIOUS
<1>0. tgt \in Targets
  BY Zenon DEF TypeOK
<1> USE DEF ControlInv, SourcesInv, HeaderThere, Goto, Step, Exit, Fault, Succeed, trees, setup, output
<1>1. CASE StartCommand
  BY <1>0, <1>1, Zenon DEF StartCommand, StartRunAll, StartBuildAll, StartBuild, StartBenchmark, Start
<1>2. CASE build_ddfuzz_image
  BY <1>0, <1>2, Zenon DEF build_ddfuzz_image
<1>3. CASE create_seed_corpora
  BY <1>0, <1>3, Zenon DEF create_seed_corpora, SeedNext
<1>4. CASE clone_rhash
  BY <1>0, <1>4, Zenon DEF clone_rhash, Tear
<1>5. CASE write_rhash_harness
  BY <1>0, <1>5, Zenon DEF write_rhash_harness, RunAllBuildFirst, Tear
<1>6. CASE build_all_fuzzers
  BY <1>0, <1>6 DEF build_all_fuzzers, AfterBuild, RunAllBuildNext, BuildAllNext, BenchmarkFirst
<1>7. CASE Prepare
  BY <1>0, <1>7, Zenon DEF Prepare
<1>8. CASE BuildLibFuzzer
  BY <1>0, <1>8, Zenon DEF BuildLibFuzzer
<1>9. CASE BuildWingFuzz
  BY <1>0, <1>9, Zenon DEF BuildWingFuzz, SetBin
<1>10. CASE BuildDDFuzz
  BY <1>0, <1>10 DEF BuildDDFuzz, AfterBuild, RunAllBuildNext, BuildAllNext, BenchmarkFirst
<1>11. CASE check_bins
  BY <1>0, <1>11, Zenon DEF check_bins
<1>12. CASE WriteEnv
  BY <1>0, <1>12 DEF WriteEnv, AfterBenchmark, BenchmarkNext
<1>13. CASE Publish
  BY <1>0, <1>13, Zenon DEF Publish
<1>14. CASE Stop
  BY <1>0, <1>14, Zenon DEF Stop
<1>15. CASE EditSource \/ LoseImage \/ UNCHANGED vars
  BY <1>0, <1>15, Zenon DEF EditSource, LoseImage, vars, control
<1>16. QED
  BY <1>1, <1>2, <1>3, <1>4, <1>5, <1>6, <1>7, <1>8, <1>9, <1>10, <1>11, <1>12, <1>13,
     <1>14, <1>15, Zenon DEF Next, RunCommand

\* It holds of a fresh clone and every step keeps it.
LEMMA SourcesInvariant == Spec => []SourcesInv
<1>1. Init => SourcesInv
  BY Zenon DEF Init, SourcesInv
<1>2. PipelineInv /\ SourcesInv /\ [Next]_vars => SourcesInv'
  BY NextSources, Zenon DEF PipelineInv
<1>3. QED
  BY <1>1, <1>2, PipelineInvariant, PTL DEF Spec

-----------------------------------------------------------------------------
\* The user never calls a build script directly.
OnlyRunAllBuilds == Commands \subseteq { "run_all", "benchmark" }

\* Setting one binary of the current target changes no other binary.
LEMMA SetBinFacts ==
    ASSUME tgt \in Targets, bin \in [ Targets -> [ Fuzzers -> Binary ] ],
           NEW f \in Fuzzers, NEW v, SetBin(f, v)
    PROVE  /\ bin'[tgt][f] = v
           /\ \A g \in Fuzzers : g # f => bin'[tgt][g] = bin[tgt][g]
           /\ \A t \in Targets : t # tgt => bin'[t] = bin[t]
BY Zenon DEF SetBin

\* The DDFuzz binary goes on certifying the other two, whatever is cut off.
LEMMA NextBinaries ==
    OnlyRunAllBuilds /\ TypeOK /\ ControlInv /\ BinariesInv /\ [Next]_vars => BinariesInv'
<1> SUFFICES ASSUME OnlyRunAllBuilds /\ TypeOK /\ ControlInv /\ BinariesInv, [Next]_vars
             PROVE  BinariesInv'
  OBVIOUS
<1>0. /\ tgt \in Targets /\ source \in Versions
      /\ bin \in [ Targets -> [ Fuzzers -> Binary ] ]
  BY Zenon DEF TypeOK
<1>a. \A t \in Targets : BuiltBefore[t] \subseteq Targets /\ t \notin BuiltBefore[t]
  BY DEF BuiltBefore
<1> Absent \notin Versions /\ Torn \notin Versions /\ Torn # Absent
  BY DEF Versions, Absent, Torn
<1> USE DEF OnlyRunAllBuilds, ControlInv, BinariesInv, Certified, Usable, Building,
            Benchmarking, Present, Goto, Step, Exit, Fault, Succeed, trees, setup,
            output
<1>1. CASE StartCommand
  BY <1>0, <1>1, Zenon DEF StartCommand, StartRunAll, StartBuildAll, StartBuild, StartBenchmark, Start
<1>2. CASE build_ddfuzz_image
  BY <1>0, <1>2, Zenon DEF build_ddfuzz_image
<1>3. CASE create_seed_corpora
  BY <1>0, <1>3, Zenon DEF create_seed_corpora, SeedNext
<1>4. CASE clone_rhash
  BY <1>0, <1>4, Zenon DEF clone_rhash
<1>5. CASE write_rhash_harness
  BY <1>0, <1>5 DEF write_rhash_harness, BuiltBefore, RunAllBuildFirst
<1>6. CASE build_all_fuzzers
  BY <1>0, <1>6 DEF build_all_fuzzers, AfterBuild, RunAllBuildNext, BuildAllNext, BenchmarkFirst,
              NeedsBuild, BuiltBefore
<1>7. CASE Prepare
  BY <1>0, <1>7, Zenon DEF Prepare
<1>8. CASE BuildLibFuzzer
  <2>1. at = "lf" /\ source' = source
    BY <1>8, Zenon DEF BuildLibFuzzer
  <2>2. CASE SetBin("lf", source) /\ Step("wf", tgt)
    <3>1. /\ bin'[tgt]["lf"] = source
          /\ bin'[tgt]["wf"] = bin[tgt]["wf"] /\ bin'[tgt]["ddf"] = bin[tgt]["ddf"]
          /\ \A t \in Targets : t # tgt => bin'[t] = bin[t]
      BY ONLY <1>0, <2>2, SetBinFacts, Zenon DEF Fuzzers
    <3>2. \A t \in Targets : Certified(t)'
      BY <1>0, <2>1, <3>1, ZenonT(60)
    <3>3. \A t \in BuiltBefore[tgt] : Usable(t)'
      BY <1>0, <1>a, <2>1, <3>1
    <3>4. QED
      BY <2>1, <2>2, <3>1, <3>2, <3>3, Zenon
  <2>3. CASE (\E v : SetBin("lf", v)) /\ Exit
    <3>1. PICK v : SetBin("lf", v)
      BY <2>3, Zenon
    <3>2. /\ bin'[tgt]["lf"] = v
          /\ bin'[tgt]["wf"] = bin[tgt]["wf"] /\ bin'[tgt]["ddf"] = bin[tgt]["ddf"]
          /\ \A t \in Targets : t # tgt => bin'[t] = bin[t]
      BY ONLY <1>0, <3>1, SetBinFacts, Zenon DEF Fuzzers
    <3>3. \A t \in Targets : Certified(t)'
      BY <1>0, <2>1, <3>2, ZenonT(60)
    <3>4. QED
      BY <2>1, <2>3, <3>3, Zenon
  <2>4. QED
    BY <1>8, <2>2, <2>3, Zenon DEF BuildLibFuzzer
<1>9. CASE BuildWingFuzz
  <2>1. at = "wf" /\ source' = source
    BY <1>9, Zenon DEF BuildWingFuzz
  <2>2. CASE SetBin("wf", source) /\ Step("ddf", tgt)
    <3>1. /\ bin'[tgt]["wf"] = source
          /\ bin'[tgt]["lf"] = bin[tgt]["lf"] /\ bin'[tgt]["ddf"] = bin[tgt]["ddf"]
          /\ \A t \in Targets : t # tgt => bin'[t] = bin[t]
      BY ONLY <1>0, <2>2, SetBinFacts, Zenon DEF Fuzzers
    <3>2. \A t \in Targets : Certified(t)'
      BY <1>0, <2>1, <3>1, ZenonT(60)
    <3>3. \A t \in BuiltBefore[tgt] : Usable(t)'
      BY <1>0, <1>a, <2>1, <3>1
    <3>4. QED
      BY <2>1, <2>2, <3>1, <3>2, <3>3, Zenon
  <2>3. CASE UNCHANGED bin /\ Exit
    BY <1>0, <2>1, <2>3, Zenon
  <2>4. CASE (\E v : SetBin("wf", v)) /\ Exit
    <3>1. PICK v : SetBin("wf", v)
      BY <2>4, Zenon
    <3>2. /\ bin'[tgt]["wf"] = v
          /\ bin'[tgt]["lf"] = bin[tgt]["lf"] /\ bin'[tgt]["ddf"] = bin[tgt]["ddf"]
          /\ \A t \in Targets : t # tgt => bin'[t] = bin[t]
      BY ONLY <1>0, <3>1, SetBinFacts, Zenon DEF Fuzzers
    <3>3. \A t \in Targets : Certified(t)'
      BY <1>0, <2>1, <3>2, ZenonT(60)
    <3>4. QED
      BY <2>1, <2>4, <3>3, Zenon
  <2>5. QED
    BY <1>9, <2>2, <2>3, <2>4, Zenon DEF BuildWingFuzz
<1>10. CASE BuildDDFuzz
  <2>1. /\ cmd = "run_all" /\ at = "ddf" /\ source' = source
        /\ bin[tgt]["lf"] = source /\ bin[tgt]["wf"] = source
    BY <1>10, Zenon DEF BuildDDFuzz
  <2>2. CASE SetBin("ddf", source) /\ AfterBuild
    <3>1. /\ bin'[tgt]["ddf"] = source
          /\ bin'[tgt]["lf"] = bin[tgt]["lf"] /\ bin'[tgt]["wf"] = bin[tgt]["wf"]
          /\ \A t \in Targets : t # tgt => bin'[t] = bin[t]
      BY ONLY <1>0, <2>2, SetBinFacts, Zenon DEF Fuzzers
    <3>2. \A t \in Targets : Certified(t)'
      BY <1>0, <2>1, <3>1, ZenonT(60)
    <3>3. \A t \in BuiltBefore[tgt] \union { tgt } : Usable(t)'
      BY <1>0, <1>a, <2>1, <3>1
    <3>4. QED
      BY <1>0, <2>1, <2>2, <3>2, <3>3 DEF BuiltBefore, AfterBuild, RunAllBuildNext,
                                          BuildAllNext, BenchmarkFirst
  <2>3. CASE UNCHANGED bin /\ AfterBuild
    BY <1>0, <2>1, <2>3 DEF BuiltBefore, AfterBuild, RunAllBuildNext, BuildAllNext, BenchmarkFirst
  <2>4. CASE (\E v \in { Absent, Torn, source } : SetBin("ddf", v)) /\ Exit
    <3>1. PICK v \in { Absent, Torn, source } : SetBin("ddf", v)
      BY <2>4, Zenon
    <3>2. /\ bin'[tgt]["ddf"] = v
          /\ bin'[tgt]["lf"] = bin[tgt]["lf"] /\ bin'[tgt]["wf"] = bin[tgt]["wf"]
          /\ \A t \in Targets : t # tgt => bin'[t] = bin[t]
      BY ONLY <1>0, <3>1, SetBinFacts, Zenon DEF Fuzzers
    <3>3. \A t \in Targets : Certified(t)'
      BY <1>0, <2>1, <3>1, <3>2, ZenonT(60)
    <3>4. QED
      BY <2>1, <2>4, <3>3, Zenon
  <2>5. QED
    BY <1>10, <2>1, <2>2, <2>3, <2>4, ZenonT(60) DEF BuildDDFuzz, Lost, Tear
<1>11. CASE check_bins
  BY <1>0, <1>11, Zenon DEF check_bins
<1>12. CASE WriteEnv
  BY <1>0, <1>12, Zenon DEF WriteEnv, AfterBenchmark, BenchmarkNext
<1>13. CASE Publish
  BY <1>0, <1>13, Zenon DEF Publish
<1>14. CASE Stop
  BY <1>0, <1>14, Zenon DEF Stop
<1>15. CASE EditSource \/ LoseImage \/ UNCHANGED vars
  BY <1>0, <1>15, ZenonT(60) DEF EditSource, LoseImage, vars, control
<1>16. QED
  BY <1>1, <1>2, <1>3, <1>4, <1>5, <1>6, <1>7, <1>8, <1>9, <1>10, <1>11, <1>12, <1>13,
     <1>14, <1>15, Zenon DEF Next, RunCommand

\* Rows are measured on certified binaries, so they stay comparable.
LEMMA NextRows == TypeOK /\ BinariesInv /\ RowsInv /\ [Next]_vars => RowsInv'
<1> SUFFICES ASSUME TypeOK /\ BinariesInv /\ RowsInv, [Next]_vars PROVE RowsInv'
  OBVIOUS
<1> tgt \in Targets /\ env \in [ Targets -> Env ]
  BY Zenon DEF TypeOK
<1>1. CASE UNCHANGED output
  BY <1>1, Zenon DEF RowsInv, RowsAreComparable, Comparable, output
<1>2. CASE WriteEnv
  <2>1. UNCHANGED results /\ tgt \in Targets
    BY <1>2, Zenon DEF WriteEnv
  <2>2. PICK e : env' = [ env EXCEPT ![tgt] = e ] /\ (e.file = "whole" => Comparable(e.row))
    <3>1. ASSUME NEW d \in { Absent, bin[tgt]["ddf"] } PROVE Comparable(Measured(d).row)
      <4>1. Certified(tgt)
        BY Zenon DEF BinariesInv
      <4>2. Measured(d).row.lf = bin[tgt]["lf"] /\ Measured(d).row.ddf = d
        BY Zenon DEF Measured
      <4>3. Absent \notin Versions /\ Torn \notin Versions
        BY DEF Versions, Absent, Torn
      <4>4. QED
        BY <4>1, <4>2, <4>3, Zenon DEF Comparable, Certified, Present
    <3>2. env[tgt].file = "whole" => Comparable(env[tgt].row)
      BY <2>1, Zenon DEF RowsInv
    <3>3. TornFile.file # "whole"
      BY Zenon DEF TornFile
    <3>4. \/ \E d \in { Absent, bin[tgt]["ddf"] } : env' = [ env EXCEPT ![tgt] = Measured(d) ]
          \/ \E e \in { env[tgt], TornFile } : env' = [ env EXCEPT ![tgt] = e ]
      BY <1>2, Zenon DEF WriteEnv, Tear
    <3>5. QED
      BY <3>1, <3>2, <3>3, <3>4, Zenon
  <2>3. \A t \in Targets : env'[t].file = "whole" => Comparable(env'[t].row)
    BY <2>1, <2>2, Zenon DEF RowsInv
  <2>4. QED
    BY <2>1, <2>3, Zenon DEF RowsInv, RowsAreComparable, Comparable
<1>3. CASE Publish
  <2>1. UNCHANGED env /\ \A t \in Targets : env[t].file = "whole" => Comparable(env[t].row)
    BY <1>3, Zenon DEF Publish, RowsInv
  <2>2. RowsAreComparable'
    <3>1. CASE results' = [ file |-> "whole", secs |-> secs, row |-> env ]
      <4>1. results'.row = env
        BY <3>1, Zenon
      <4>2. QED
        BY <2>1, <4>1, Zenon DEF RowsAreComparable, Comparable
    <3>2. CASE results' = results
      BY <3>2, Zenon DEF RowsInv, RowsAreComparable, Comparable
    <3>3. CASE results' = TornFile
      BY <3>3, Zenon DEF TornFile, RowsAreComparable
    <3>4. QED
      BY <1>3, <3>1, <3>2, <3>3, Zenon DEF Publish, Tear
  <2>3. QED
    BY <2>1, <2>2, Zenon DEF RowsInv, Comparable
<1>4. UNCHANGED output \/ WriteEnv \/ Publish
  BY Zenon DEF Next, StartCommand, StartRunAll, StartBuildAll, StartBuild, StartBenchmark, Start,
         RunCommand, build_ddfuzz_image, create_seed_corpora, clone_rhash,
         write_rhash_harness, build_all_fuzzers, Prepare, BuildLibFuzzer, BuildWingFuzz,
         BuildDDFuzz, check_bins, Stop, EditSource, LoseImage, vars, output
<1>5. QED
  BY <1>1, <1>2, <1>3, <1>4, Zenon

\* The invariant about binaries and rows, when only run_all.sh builds.
LEMMA BinariesInvariant ==
    ASSUME OnlyRunAllBuilds
    PROVE  Spec => [](BinariesInv /\ RowsInv)
<1>1. Init => BinariesInv /\ RowsInv
  <2> SUFFICES ASSUME Init PROVE BinariesInv /\ RowsInv
    OBVIOUS
  <2>1. BinariesInv
    BY Zenon DEF Init, BinariesInv, Certified, Building, Benchmarking, Present
  <2>2. RowsInv
    BY Zenon DEF Init, RowsInv, RowsAreComparable, NoFile
  <2>3. QED
    BY <2>1, <2>2, Zenon
<1>2. PipelineInv /\ BinariesInv /\ RowsInv /\ [Next]_vars => (BinariesInv /\ RowsInv)'
  BY OnlyRunAllBuilds, NextBinaries, NextRows, Zenon DEF PipelineInv
<1>3. QED
  BY <1>1, <1>2, PipelineInvariant, PTL DEF Spec

\* When run_all.sh is the only command that builds, its benchmarks never die
\* for a missing binary, although it tests for two of the three only and may
\* have been cut off anywhere any number of times.
THEOREM SkipTestSuffices ==
    ASSUME OnlyRunAllBuilds
    PROVE  Spec => []BenchmarksFindTheirBinaries
<1>1. BinariesInv /\ RowsInv => BenchmarksFindTheirBinaries
  BY Zenon DEF BinariesInv, BenchmarksFindTheirBinaries, Usable
<1>2. QED
  BY <1>1, OnlyRunAllBuilds, BinariesInvariant, PTL

\* Under the same assumption the fuzzers of one row were built from the same
\* sources, although no script looks at the age of a binary.
THEOREM SkipTestKeepsRowsComparable ==
    ASSUME OnlyRunAllBuilds
    PROVE  Spec => []RowsAreComparable
<1>1. BinariesInv /\ RowsInv => RowsAreComparable
  BY Zenon DEF RowsInv
<1>2. QED
  BY <1>1, OnlyRunAllBuilds, BinariesInvariant, PTL

\* A run_all.sh that ends without a fault of its own, with sound sources and the
\* tools it needs, ends in Publish: none of its early exits can be taken.
LEMMA OnlyPublishEnds ==
    ASSUME PipelineInv, SourcesInv, BinariesInv, Next,
           cmd = "run_all", cmd' = "idle", faults' = faults, Repairable,
           at = "prepare" /\ tgt \in rootOwned => image
    PROVE  Publish
<1>0. /\ tgt \in Targets /\ faults \in Int
      /\ at \in { "idle", "image", "seeds", "clone", "harness", "decide", "prepare",
                  "lf", "wf", "ddf", "check", "measure", "publish" }
      /\ rhash \in { "missing", "debris", "partial", "whole" }
      /\ harness \in { "missing", "torn", "whole" }
  BY BoundsAssumption DEF PipelineInv, TypeOK
<1>1. ~CountFault /\ ~Fault
  BY <1>0 DEF CountFault, Fault
<1>2. \A a, t : ~Step(a, t)
  BY Zenon DEF Step, Goto
<1>3. (at = "prepare" => Compilable(tgt)) /\ (at = "lf" => Sound(tgt))
  BY <1>0, Zenon DEF SourcesInv, HeaderThere, Repairable, Compilable, Sound
<1>4. at = "wf" => buildDir
  BY Zenon DEF PipelineInv, BuildDirInv, Compiling
<1>5. at = "check" => Present(tgt, "lf") /\ Present(tgt, "wf")
  BY <1>0, Zenon DEF BinariesInv, Benchmarking, Usable
<1>6. ~AfterBuild /\ (at = "measure" => ~AfterBenchmark)
  BY <1>0, <1>2, Zenon DEF AfterBuild, AfterBenchmark, RunAllBuildNext, BenchmarkNext
<1>7. ~Prepare
  BY <1>1, <1>2, <1>3, Zenon DEF Prepare
<1>8. ~BuildLibFuzzer
  BY <1>1, <1>2, <1>3, Zenon DEF BuildLibFuzzer
<1>9. ~BuildWingFuzz
  BY <1>1, <1>2, <1>4, Zenon DEF BuildWingFuzz
<1>10. ~BuildDDFuzz /\ ~build_all_fuzzers
  BY <1>1, <1>2, <1>6, Zenon DEF BuildDDFuzz, build_all_fuzzers
<1>11. ~check_bins
  BY <1>1, <1>5, Zenon DEF check_bins, Goto
<1>12. ~WriteEnv
  BY <1>1, <1>6, Zenon DEF WriteEnv
<1>13. ~build_ddfuzz_image /\ ~create_seed_corpora /\ ~clone_rhash /\ ~write_rhash_harness
  BY <1>1, <1>2, Zenon DEF build_ddfuzz_image, create_seed_corpora, clone_rhash, write_rhash_harness
<1>14. ~StartCommand /\ ~EditSource /\ ~LoseImage /\ ~Stop
  BY <1>1, Zenon DEF StartCommand, StartRunAll, StartBuildAll, StartBuild, StartBenchmark, Start,
              EditSource, LoseImage, Stop
<1>15. QED
  BY <1>7, <1>8, <1>9, <1>10, <1>11, <1>12, <1>13, <1>14, Zenon DEF Next, RunCommand

\* When run_all.sh is the only command that builds, nothing that earlier
\* invocations left behind makes it fail, except RHash sources beyond repair and
\* files of root in a tree without the image that could remove them.
THEOREM RerunsPublish ==
    ASSUME OnlyRunAllBuilds
    PROVE  Spec => RunsEndPublished
<1>1. PipelineInv /\ SourcesInv /\ (BinariesInv /\ RowsInv) /\ [Next]_vars =>
        [ /\ cmd = "run_all" /\ cmd' = "idle" /\ faults' = faults /\ Repairable
          /\ (at = "prepare" /\ tgt \in rootOwned => image)
          => results'.file = "whole" /\ results'.secs = secs ]_vars
  <2> SUFFICES ASSUME PipelineInv, SourcesInv, BinariesInv, Next,
                      cmd = "run_all", cmd' = "idle", faults' = faults, Repairable,
                      at = "prepare" /\ tgt \in rootOwned => image
               PROVE  results'.file = "whole" /\ results'.secs = secs
    OBVIOUS
  <2>1. Publish
    BY OnlyPublishEnds, Zenon
  <2>2. faults \in Int
    BY BoundsAssumption DEF PipelineInv, TypeOK
  <2>3. QED
    BY <2>1, <2>2 DEF Publish, Fault, CountFault
<1>2. QED
  BY <1>1, OnlyRunAllBuilds, PipelineInvariant, SourcesInvariant, BinariesInvariant,
     PTL DEF Spec, RunsEndPublished

-----------------------------------------------------------------------------
(* The refinement.                                                         *)

\* A step that leaves a benchmarking run_all.sh at the same place with the same
\* env files, or that neither starts nor ends where run_all.sh benchmarks.
LEMMA SessionUnchanged ==
    ASSUME UNCHANGED results,
           \/ ~Benchmarking /\ ~Benchmarking'
           \/ /\ Benchmarking /\ Benchmarking' /\ at # "publish" /\ at' # "publish"
              /\ UNCHANGED << tgt, secs, env >>
           \/ UNCHANGED << cmd, at, tgt, secs, env >>
    PROVE  UNCHANGED Publication!vars
BY Zenon DEF Publication!vars, Session, Done, Benchmarking

\* An invocation that ends without having touched RESULTS.md abandons its run.
LEMMA ExitAbandons ==
    ASSUME ControlInv, UNCHANGED results, Exit
    PROVE  [Publication!Next]_(Publication!vars)
<1>1. Session' = NoFile
  BY Zenon DEF Exit, Goto, Session, Benchmarking
<1>2. CASE Benchmarking
  <2>1. Session # NoFile
    BY <1>2, Zenon DEF Session, NoFile
  <2>2. QED
    BY <1>1, <2>1, Zenon DEF Publication!Next, Publication!Abandon, Publication!UnderWay,
                      Publication!NoFile, NoFile
<1>3. CASE ~Benchmarking
  BY <1>1, <1>3, Zenon DEF Session, Publication!vars
<1>4. QED
  BY <1>2, <1>3, Zenon

\* The last build, done or skipped, opens the run.
LEMMA AfterBuildOpens ==
    ASSUME TypeOK, ControlInv, AfterBuild, UNCHANGED output,
           at \in { "decide", "ddf" }
    PROVE  [Publication!Next]_(Publication!vars)
<1>1. CASE Exit
  BY <1>1, ExitAbandons, Zenon DEF output
<1>2. CASE Step("check", BenchmarkFirst) /\ cmd = "run_all"
  <2>1. Session = NoFile
    BY Zenon DEF Session, Benchmarking
  <2>2. Session' = [ file |-> "whole", secs |-> secs, row |-> [ t \in Targets |-> NoFile ] ]
    BY <1>2, Zenon DEF Session, Benchmarking, Step, Goto, Done, Before, BenchmarkFirst
  <2>3. secs \in Durations
    BY Zenon DEF TypeOK
  <2>4. QED
    BY <2>1, <2>2, <2>3, Zenon DEF Publication!Next, Publication!Open, Publication!UnderWay,
                            Publication!NoFile, NoFile, output
<1>3. CASE \E a \in { "decide", "prepare" }, t \in Targets : Step(a, t)
  BY <1>3, SessionUnchanged, Zenon DEF Step, Goto, Benchmarking, output
<1>4. QED
  BY <1>1, <1>2, <1>3 DEF AfterBuild, RunAllBuildNext, BuildAllNext, TypeOK, Targets

\* A benchmark that run_all.sh completes is a measurement of the run.
LEMMA WriteEnvMeasures ==
    ASSUME TypeOK, TypeOK', ControlInv, EnvInv, EnvInv', WriteEnv
    PROVE  [Publication!Next]_(Publication!vars)
<1>0. /\ UNCHANGED results /\ at = "measure" /\ tgt \in Targets
      /\ env \in [ Targets -> Env ] /\ env' \in [ Targets -> Env ]
  BY Zenon DEF WriteEnv, TypeOK
<1>1. CASE Exit
  BY <1>0, <1>1, ExitAbandons, Zenon
<1>2. CASE cmd # "run_all"
  BY <1>0, <1>2, <1>1, Zenon DEF WriteEnv, AfterBenchmark, Fault
<1>3. CASE cmd = "run_all" /\ AfterBenchmark /\ \E d : env' = [ env EXCEPT ![tgt] = Measured(d) ]
  <2>1. Benchmarking /\ Benchmarking' /\ secs' = secs
    BY <1>0, <1>3, Zenon DEF Benchmarking, AfterBenchmark, Step, Goto
  <2>2. Done = Before[tgt] /\ tgt \notin Done /\ Done' = Done \union { tgt }
    BY <1>0, <1>3 DEF Done, Before, AfterBenchmark, BenchmarkNext, Step, Goto, Targets
  <2>3. env'[tgt] \in Env /\ env'[tgt].file = "whole" /\ env'[tgt].row.secs = secs
    BY <1>0, <1>3 DEF Measured
  <2>4. env'[tgt] \in Publication!Entry
    BY <2>3 DEF Env, NoFile, TornFile, Publication!Entry
  <2>5. \A t \in Targets : t # tgt => env'[t] = env[t]
    BY <1>0, <1>3, Zenon
  <2>6. /\ Session # NoFile /\ Session.secs = secs
        /\ Session.row[tgt] = NoFile
    BY <1>0, <2>1, <2>2, Zenon DEF Session, NoFile
  <2>7. Session' = [ Session EXCEPT !.row[tgt] = env'[tgt] ]
    <3> DEFINE now  == [ t \in Targets |-> IF t \in Done THEN env[t] ELSE NoFile ]
               then == [ t \in Targets |-> IF t \in Done' THEN env'[t] ELSE NoFile ]
    <3>1. then = [ now EXCEPT ![tgt] = env'[tgt] ]
      BY <1>0, <2>2, <2>5, Zenon
    <3>2. Session = [ file |-> "whole", secs |-> secs, row |-> now ]
      BY <2>1, Zenon DEF Session
    <3>3. Session' = [ file |-> "whole", secs |-> secs, row |-> then ]
      BY <2>1, Zenon DEF Session, NoFile
    <3> HIDE DEF now, then
    <3>4. QED
      BY <3>1, <3>2, <3>3
  <2>8. QED
    BY <1>0, <2>3, <2>4, <2>6, <2>7, Zenon DEF Publication!Next, Publication!Measure,
                                        Publication!UnderWay, Publication!NoFile, NoFile
<1>4. QED
  BY <1>1, <1>2, <1>3, Zenon DEF WriteEnv, Fault

\* Writing RESULTS.md publishes the run, or abandons it half written.
LEMMA PublishPublishes ==
    ASSUME TypeOK, ControlInv, EnvInv, Publish
    PROVE  [Publication!Next]_(Publication!vars)
<1>0. cmd = "run_all" /\ at = "publish" /\ env \in [ Targets -> Env ]
  BY Zenon DEF Publish, TypeOK, ControlInv
<1>1. Session = [ file |-> "whole", secs |-> secs, row |-> env ]
  BY <1>0, Zenon DEF Session, Benchmarking, Done
<1>2. Session' = NoFile
  BY Zenon DEF Publish, Fault, Exit, Goto, Session, Benchmarking
<1>3. Publication!Complete
  <2>1. Session # NoFile
    BY <1>1, Zenon DEF NoFile
  <2>2. \A t \in Targets : Session.row[t] # NoFile
    BY <1>0, <1>1 DEF EnvInv, Fresh, NoFile
  <2>3. QED
    BY <2>1, <2>2, Zenon DEF Publication!Complete, Publication!UnderWay, Publication!NoFile, NoFile
<1>4. CASE results' = [ file |-> "whole", secs |-> secs, row |-> env ]
  BY <1>1, <1>2, <1>3, <1>4, Zenon DEF Publication!Next, Publication!Publish, Publication!NoFile, NoFile
<1>5. CASE results' \in { results, TornFile }
  BY <1>2, <1>3, <1>5, Zenon DEF Publication!Next, Publication!Abandon, Publication!Complete,
                          Publication!NoFile, NoFile, Publication!TornFile, TornFile
<1>6. QED
  BY <1>4, <1>5, Zenon DEF Publish, Tear

\* Every step of the pipeline is a step of ResultsTable or changes nothing there.
LEMMA StepRefines ==
    PipelineInv /\ PipelineInv' /\ [Next]_vars => [Publication!Next]_(Publication!vars)
<1> SUFFICES ASSUME PipelineInv, PipelineInv', [Next]_vars
             PROVE  [Publication!Next]_(Publication!vars)
  OBVIOUS
<1>0. TypeOK /\ TypeOK' /\ ControlInv /\ EnvInv /\ EnvInv'
  BY Zenon DEF PipelineInv
<1>1. CASE WriteEnv
  BY <1>0, <1>1, WriteEnvMeasures, Zenon
<1>2. CASE Publish
  BY <1>0, <1>2, PublishPublishes, Zenon
<1>3. CASE build_all_fuzzers
  <2>1. UNCHANGED output /\ at = "decide"
    BY <1>3, Zenon DEF build_all_fuzzers
  <2>2. CASE AfterBuild
    BY <1>0, <2>1, <2>2, AfterBuildOpens, Zenon
  <2>3. CASE Step("prepare", tgt)
    BY <2>1, <2>3, SessionUnchanged, Zenon DEF Step, Goto, Benchmarking, output
  <2>4. QED
    BY <1>3, <2>2, <2>3, Zenon DEF build_all_fuzzers
<1>4. CASE BuildDDFuzz
  <2>1. UNCHANGED output /\ at = "ddf"
    BY <1>4, Zenon DEF BuildDDFuzz
  <2>2. CASE AfterBuild
    BY <1>0, <2>1, <2>2, AfterBuildOpens, Zenon
  <2>3. CASE Exit
    BY <1>0, <2>1, <2>3, ExitAbandons, Zenon DEF output
  <2>4. QED
    BY <1>4, <2>2, <2>3, Zenon DEF BuildDDFuzz, Fault
<1>5. CASE check_bins
  <2>1. UNCHANGED output /\ at = "check"
    BY <1>5, Zenon DEF check_bins
  <2>2. CASE Exit
    BY <1>0, <2>1, <2>2, ExitAbandons, Zenon DEF output
  <2>3. CASE Goto(cmd, "measure", tgt) /\ UNCHANGED secs
    BY <2>1, <2>3, SessionUnchanged, Zenon DEF Goto, Benchmarking, output
  <2>4. QED
    BY <1>5, <2>2, <2>3, Zenon DEF check_bins
<1>6. CASE Stop
  BY <1>0, <1>6, ExitAbandons, Zenon DEF Stop, Fault, output
<1>7. CASE UNCHANGED control /\ UNCHANGED output
  BY <1>7, SessionUnchanged, Zenon DEF control, output
<1>8. CASE StartCommand
  <2>1. UNCHANGED output /\ ~Benchmarking /\ ~Benchmarking'
    BY <1>8, Zenon DEF StartCommand, StartRunAll, StartBuildAll, StartBuild, StartBenchmark, Start,
                Goto, Benchmarking
  <2>2. QED
    BY <2>1, SessionUnchanged, Zenon DEF output
<1>9. CASE \/ build_ddfuzz_image \/ create_seed_corpora \/ clone_rhash \/ write_rhash_harness
           \/ Prepare \/ BuildLibFuzzer \/ BuildWingFuzz
  <2>1. UNCHANGED output /\ ~Benchmarking
    BY <1>9, Zenon DEF build_ddfuzz_image, create_seed_corpora, clone_rhash, write_rhash_harness,
                Prepare, BuildLibFuzzer, BuildWingFuzz, Benchmarking
  <2>2. Exit \/ \E a \in { "seeds", "clone", "harness", "decide", "lf", "wf", "ddf" } : \E t : Step(a, t)
    BY <1>9, Zenon DEF build_ddfuzz_image, create_seed_corpora, clone_rhash, write_rhash_harness,
                Prepare, BuildLibFuzzer, BuildWingFuzz, Fault
  <2>3. ~Benchmarking'
    BY <2>2, Zenon DEF Exit, Step, Goto, Benchmarking
  <2>4. QED
    BY <2>1, <2>3, SessionUnchanged, Zenon DEF output
<1>10. QED
  BY <1>1, <1>2, <1>3, <1>4, <1>5, <1>6, <1>7, <1>8, <1>9, Zenon
     DEF Next, RunCommand, EditSource, LoseImage, vars, control, output

\* run_all.sh, with all the entry points and faults around it, implements
\* ResultsTable: RESULTS.md is only ever replaced by one run's own measurements.
THEOREM ImplementsTable == Spec => ImplementsResultsTable
<1>1. Init => Publication!Init
  BY Zenon DEF Init, Publication!Init, Session, Benchmarking, Publication!NoFile, NoFile
<1>2. PipelineInv /\ PipelineInv' /\ [Next]_vars => [Publication!Next]_(Publication!vars)
  BY StepRefines, Zenon
<1>3. QED
  BY <1>1, <1>2, PipelineInvariant, PTL DEF Spec, ImplementsResultsTable, Publication!Spec
=============================================================================
