---------------------------- MODULE MCBenchmark ----------------------------
(***************************************************************************)
(* Instances of Benchmark.  Invocations are interchangeable.               *)
(***************************************************************************)
EXTENDS Benchmark, TLC

\* What is saved: units and crashes, in one directory, by LibFuzzer.  The other
\* two may save nothing, and DDFuzz's queue holds copies of the seeds.
Files == { << "lf", "unit" >>, << "lf", "crash" >> }

Symmetry == Permutations(Runs)
=============================================================================
