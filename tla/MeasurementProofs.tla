------------------------- MODULE MeasurementProofs -------------------------
(***************************************************************************)
(* What is proved of the processes and of the arithmetic holds when they   *)
(* are put together.                                                       *)
(***************************************************************************)
EXTENDS Measurement, HarnessProofs, BenchmarkStatsProofs

Next_ == [MeasurementNext]_<< vars, stats >>

\* A step of the whole is a step of the processes or leaves them alone.
LEMMA ProcessStep == Next_ => [Next]_vars
BY DEF Next_, MeasurementNext, Process, PhaseEnds, ComputeExecs, ReplayEnds, CompareCoverage

\* The invariants of the processes carry over.
LEMMA HarnessHolds == MeasurementSpec => [](HeldInv /\ ProfileInv)
<1>1. MeasurementInit => HeldInv /\ ProfileInv
  BY InitHeld, InitProfile DEF MeasurementInit
<1>2. HeldInv /\ ProfileInv /\ Next_ => (HeldInv /\ ProfileInv)'
  BY ProcessStep, NextHeld, NextProfile
<1> QED  BY <1>1, <1>2, PTL DEF MeasurementSpec, Next_

(* A process of a phase or of a replay gives back what it took before the  *)
(* next input, and a crash costs one profile only, in the course of a      *)
(* whole benchmark script.                                                 *)
THEOREM ProcessesSafe ==
    MeasurementSpec => [](NothingLeaks /\ ProfilesComplete)
<1>1. HeldInv /\ ProfileInv => NothingLeaks /\ ProfilesComplete
  <2>1. HeldInv => NothingLeaks  BY DEF HeldInv, NothingLeaks
  <2>2. ProfileInv => ProfilesComplete  BY DEF ProfileInv, ProfilesComplete, Good, Kept
  <2> QED  BY <2>1, <2>2
<1> QED  BY <1>1, HarnessHolds, PTL

-----------------------------------------------------------------------------
\* As long as the script waits nothing has been computed.
Fresh ==
    at = "waiting" =>
        /\ log = [ units |-> NA, rate |-> NA ] /\ start = 0 /\ end = 0 /\ execs = 0
        /\ i = 1 /\ best_pct = 0 /\ winner = "(unknown)"

LEMMA InitStats == MeasurementInit => Inv /\ Fresh
<1> SUFFICES ASSUME MeasurementInit PROVE Inv /\ Fresh  OBVIOUS
<1> USE DEF MeasurementInit
<1>1. cov \in [ Names -> Percents \union { NA } ]  OBVIOUS
<1>2. "LibFuzzer" \in Names  BY DEF Names, Order
<1>3. StatsTypeOK  BY <1>1, <1>2 DEF StatsTypeOK, Names
<1>4. BestSoFar  BY DEF BestSoFar
<1> QED  BY <1>3, <1>4 DEF Inv, Fresh, ExecsAreEarned

LEMMA NextStats == Inv /\ Fresh /\ Next_ => Inv' /\ Fresh'
<1> SUFFICES ASSUME Inv, Fresh, Next_ PROVE Inv' /\ Fresh'  OBVIOUS
<1>1. CASE UNCHANGED stats
  <2>1. Inv'  BY <1>1, NextInv
  <2> QED  BY <1>1, <2>1 DEF stats, inputs, Fresh
<1>2. CASE PhaseEnds
  <2>1. /\ at = "waiting" /\ at' = "execs" /\ fuzzer' \in { "LibFuzzer", "WingFuzz" }
        /\ log' \in [ units : Units \union { NA }, rate : Rates \union { NA } ]
        /\ start' \in Epochs /\ end' \in Epochs
        /\ UNCHANGED << execs, cov, i, best_pct, winner >>
    BY <1>2 DEF PhaseEnds
  <2>2. fuzzer' \in Names  BY <2>1 DEF Names, Order
  <2>3. StatsTypeOK'
    BY <2>1, <2>2, NumbersAssumption DEF Inv, StatsTypeOK, Names
  <2>4. BestSoFar'  BY <2>1 DEF Fresh, BestSoFar
  <2> QED  BY <2>1, <2>3, <2>4 DEF Inv, Fresh, ExecsAreEarned
<1>3. CASE ReplayEnds
  <2>1. /\ at = "waiting" /\ at' = "winner" /\ fuzzer' \in Names
        /\ cov' \in [ Names -> Percents \union { NA } ]
        /\ UNCHANGED << log, start, end, execs, i, best_pct, winner >>
    BY <1>3 DEF ReplayEnds
  <2>2. StatsTypeOK'  BY <2>1 DEF Inv, StatsTypeOK, Names
  <2>3. BestSoFar'  BY <2>1 DEF Fresh, BestSoFar
  <2>4. ExecsAreEarned'
    <3>1. log' = [ units |-> NA, rate |-> NA ] /\ start' = 0 /\ end' = 0 /\ execs' = 0
      BY <2>1 DEF Fresh
    <3> QED  BY <3>1 DEF ExecsAreEarned, Worked, OncePerSecond, UNITS, ELAPSED, NA
  <2> QED  BY <2>1, <2>2, <2>3, <2>4 DEF Inv, Fresh
<1>4. CASE Execs \/ Compare
  <2>1. Inv'  BY <1>4, NextInv DEF StatsNext
  <2>2. at' # "waiting"  BY <1>4 DEF Execs, Compare
  <2> QED  BY <2>1, <2>2 DEF Fresh
<1> QED
  BY <1>1, <1>2, <1>3, <1>4 DEF Next_, MeasurementNext, Process, ComputeExecs, CompareCoverage

(* Exec/s are what the log shows and the winner is the first fuzzer with   *)
(* the greatest coverage, whatever the processes before did.               *)
THEOREM ArithmeticCorrect == MeasurementSpec => [](ExecsAreEarned /\ WinnerIsBest)
<1>1. Inv => ExecsAreEarned /\ WinnerIsBest
  BY DEF Inv, StatsTypeOK, BestSoFar, WinnerIsBest
<1> QED  BY <1>1, InitStats, NextStats, PTL DEF MeasurementSpec, Next_

=============================================================================
