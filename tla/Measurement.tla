---------------------------- MODULE Measurement ----------------------------
(***************************************************************************)
(* The processes of Harness composed with the arithmetic of BenchmarkStats *)
(* in the order of a benchmark script.  When a fuzzing phase is over, its  *)
(* exec/s are computed from its log; when a corpus has been replayed and   *)
(* its profiles merged, its coverage takes part in the comparison of the   *)
(* three fuzzers.  A behaviour is about one phase or about one replay.     *)
(*                                                                         *)
(* A phase is run with -fork=1, so that its log is about more processes    *)
(* than the one followed here: any log can be the outcome.                 *)
(***************************************************************************)
EXTENDS Harness, BenchmarkStats

Names == { Order[k] : k \in 1..3 }

MeasurementInit ==
    /\ Init
    /\ at = "waiting" /\ fuzzer = "LibFuzzer"
    /\ log = [ units |-> NA, rate |-> NA ] /\ start = 0 /\ end = 0 /\ execs = 0
    /\ cov = [ f \in Names |-> NA ]
    /\ i = 1 /\ best_pct = 0 /\ winner = "(unknown)"

Process == at = "waiting" /\ Next /\ UNCHANGED stats

\* The fuzzer has stopped, or died of a bug; `|| true' in both cases.
PhaseEnds ==
    /\ at = "waiting" /\ driver = "fuzzer" /\ pc \in { "idle", "dead" }
    /\ at' = "execs"
    /\ fuzzer' \in { "LibFuzzer", "WingFuzz" }
    /\ log' \in [ units : Units \union { NA }, rate : Rates \union { NA } ]
    /\ start' \in Epochs /\ end' \in Epochs
    /\ UNCHANGED << vars, execs, cov, i, best_pct, winner >>

ComputeExecs == Execs /\ UNCHANGED vars

\* get_branch_cov: a percentage if there is a merged profile, or nothing if
\* llvm-cov fails.  The coverage of the other two corpora may be anything.
ReplayEnds ==
    /\ at = "waiting" /\ profdata # None
    /\ at' = "winner"
    /\ fuzzer' \in Names
    /\ cov' \in [ Names -> Percents \union { NA } ]
    /\ profdata = "N/A" => cov'[fuzzer'] = NA
    /\ UNCHANGED << vars, log, start, end, execs, i, best_pct, winner >>

CompareCoverage == driver = "replay" /\ Compare /\ UNCHANGED vars

MeasurementNext == Process \/ PhaseEnds \/ ComputeExecs \/ ReplayEnds \/ CompareCoverage

MeasurementSpec == MeasurementInit /\ [][MeasurementNext]_<< vars, stats >>
=============================================================================
