------------------------ MODULE BenchmarkStatsProofs ------------------------
(***************************************************************************)
(* Proofs about BenchmarkStats, for all logs, clock readings and coverage  *)
(* percentages.                                                            *)
(***************************************************************************)
EXTENDS BenchmarkStats, TLAPS

\* Dividing by a positive number of seconds rounds to zero exactly when there
\* was less than one unit per second, and never exceeds the units.
LEMMA Quotient ==
    ASSUME NEW u \in Nat, NEW e \in Nat \ {0}
    PROVE  /\ u \div e \in Nat
           /\ u < e => u \div e = 0
           /\ u >= e => u \div e > 0
           /\ u \div e <= u
<1>1. u \div e \in Nat
  OBVIOUS
<1>2. u < e => u \div e = 0
  OBVIOUS
<1>3. u >= e => u \div e > 0
  OBVIOUS
<1>4. u \div e <= u
  OBVIOUS
<1>5. QED
  BY <1>1, <1>2, <1>3, <1>4

\* What the number computed by Execs is.
LEMMA ExecsValue ==
    ASSUME NumbersAssumption, StatsTypeOK, NEW n, n = NARule(Fallback(UNITS \div ELAPSED))
    PROVE  /\ n \in Nat \union { NA }
           /\ n = NA => ~Worked
           /\ n > 0 <=> OncePerSecond
           /\ n > 0 => n <= UNITS \/ n = log.rate
<1>1. /\ UNITS \in Nat /\ ELAPSED \in Nat \ {0}
      /\ log.rate \in Nat \union { NA } /\ log.rate # 0
  <2>1. /\ log.units \in Nat \union { NA } /\ log.rate \in (Nat \ {0}) \union { NA }
        /\ start \in Int /\ end \in Int
    BY DEF NumbersAssumption, StatsTypeOK
  <2>2. UNITS \in Nat
    BY <2>1 DEF UNITS, NA
  <2>3. ELAPSED \in Nat \ {0}
    BY <2>1 DEF ELAPSED
  <2>4. QED
    BY <2>1, <2>2, <2>3 DEF NA
<1> DEFINE q == UNITS \div ELAPSED
<1>2. /\ q \in Nat /\ q <= UNITS
      /\ UNITS < ELAPSED => q = 0
      /\ UNITS >= ELAPSED => q > 0
  BY <1>1, Quotient
<1> HIDE DEF q
<1>3. n = NARule(Fallback(q))
  BY DEF q
<1>4. CASE q > 0
  <2>1. n = q
    BY <1>2, <1>3, <1>4 DEF NARule, Fallback
  <2>2. UNITS > 0
    BY <1>1, <1>2, <1>4
  <2>3. QED
    BY <1>1, <1>2, <1>4, <2>1, <2>2 DEF Worked, OncePerSecond, NA
<1>5. CASE q = 0 /\ log.rate # NA
  <2>1. n = log.rate
    BY <1>1, <1>2, <1>3, <1>5 DEF NARule, Fallback
  <2>2. QED
    BY <1>1, <1>5, <2>1 DEF Worked, OncePerSecond, NA
<1>6. CASE q = 0 /\ log.rate = NA
  <2>1. n = IF UNITS = 0 /\ fuzzer = "WingFuzz" THEN NA ELSE 0
    BY <1>1, <1>3, <1>6 DEF NARule, Fallback
  <2>2. UNITS < ELAPSED
    BY <1>1, <1>2, <1>6
  <2>3. QED
    BY <1>1, <1>2, <1>6, <2>1, <2>2 DEF Worked, OncePerSecond, NA
<1>7. QED
  BY <1>2, <1>4, <1>5, <1>6

\* The loop invariant: what is known of the first i - 1 fuzzers.
BestSoFar ==
    IF winner = "(unknown)"
    THEN best_pct = 0 /\ \A k \in 1..(i - 1) : ~Numeric(Order[k])
    ELSE \E k \in 1..(i - 1) : /\ winner = Order[k]
                               /\ best_pct = cov[Order[k]] /\ Numeric(Order[k])
                               /\ \A m \in 1..(i - 1) : cov[Order[m]] <= best_pct
                               /\ \A m \in 1..(k - 1) : cov[Order[m]] < best_pct

Inv == StatsTypeOK /\ ExecsAreEarned /\ BestSoFar /\ (at = "done" => i = 4)

\* It holds at the start.
LEMMA InitInv == StatsInit => Inv
<1> SUFFICES ASSUME StatsInit PROVE Inv
  OBVIOUS
<1>1. StatsTypeOK
  <2>1. fuzzer \in { Order[k] : k \in 1..3 }
    BY DEF StatsInit, Order
  <2>2. QED
    BY <2>1, NumbersAssumption DEF StatsInit, StatsTypeOK
<1>2. ExecsAreEarned /\ (at = "done" => i = 4)
  BY DEF StatsInit, ExecsAreEarned
<1>3. BestSoFar
  BY DEF StatsInit, BestSoFar
<1>4. QED
  BY <1>1, <1>2, <1>3 DEF Inv

\* Every step keeps it.
LEMMA NextInv == Inv /\ [StatsNext]_stats => Inv'
<1> SUFFICES ASSUME Inv, [StatsNext]_stats PROVE Inv'
  OBVIOUS
<1> USE DEF inputs
<1>0. /\ \A k \in 1..3 : cov[Order[k]] \in Nat \union { NA }
      /\ \A k \in 1..3 : Order[k] # "(unknown)"
      /\ \A k, m \in 1..3 : Order[k] = Order[m] => k = m
      /\ i \in 1..4 /\ best_pct \in Nat
  <2>1. Order[1] = "LibFuzzer" /\ Order[2] = "WingFuzz" /\ Order[3] = "DDFuzz"
    BY DEF Order
  <2>2. \A k \in 1..3 : Order[k] \in { Order[m] : m \in 1..3 }
    OBVIOUS
  <2>3. \A k \in 1..3 : cov[Order[k]] \in Nat \union { NA }
    BY <2>2, NumbersAssumption DEF Inv, StatsTypeOK
  <2>4. QED
    BY <2>1, <2>3 DEF Inv, StatsTypeOK
<1>1. CASE Execs
  <2>1. /\ execs' = NARule(Fallback(UNITS \div ELAPSED)) /\ at' = "winner"
        /\ UNCHANGED << fuzzer, log, start, end, cov, i, best_pct, winner >>
    BY <1>1 DEF Execs
  <2>2. /\ execs' \in Nat \union { NA }
        /\ execs' = NA => ~Worked
        /\ execs' > 0 <=> OncePerSecond
        /\ execs' > 0 => execs' <= UNITS \/ execs' = log.rate
    BY ONLY <2>1, ExecsValue, NumbersAssumption, Inv DEF Inv
  <2>3. StatsTypeOK'
    BY <2>1, <2>2 DEF Inv, StatsTypeOK
  <2>4. ExecsAreEarned'
    BY <2>1, <2>2 DEF ExecsAreEarned, Worked, OncePerSecond, UNITS, ELAPSED
  <2>5. BestSoFar'
    BY <2>1 DEF Inv, BestSoFar, Numeric
  <2>6. QED
    BY <2>1, <2>3, <2>4, <2>5 DEF Inv
<1>2. CASE Compare
  <2>1. /\ i \in 1..3 /\ at = "winner" /\ i' = i + 1 /\ at' = IF i = 3 THEN "done" ELSE "winner"
        /\ UNCHANGED << fuzzer, log, start, end, cov, execs >>
    BY <1>0, <1>2 DEF Compare
  <2>2. CASE Beats(cov[Order[i]]) /\ best_pct' = cov[Order[i]] /\ winner' = Order[i]
    <3>1. cov[Order[i]] \in Nat /\ cov[Order[i]] > best_pct
      BY <1>0, <2>1, <2>2 DEF Beats, NA
    <3>2. StatsTypeOK'
      BY <2>1, <2>2, <3>1 DEF Inv, StatsTypeOK
    <3>3. \A m \in 1..(i - 1) : cov[Order[m]] <= best_pct
      <4>1. CASE winner = "(unknown)"
        BY <1>0, <2>1, <4>1 DEF Inv, BestSoFar, Numeric, NA
      <4>2. CASE winner # "(unknown)"
        BY <1>0, <2>1, <4>2 DEF Inv, BestSoFar
      <4>3. QED
        BY <4>1, <4>2
    <3>4. \A m \in 1..(i - 1) : cov[Order[m]] < best_pct'
      BY <1>0, <2>1, <2>2, <3>1, <3>3 DEF NA
    <3>5. BestSoFar'
      BY <1>0, <2>1, <2>2, <3>1, <3>4 DEF BestSoFar, Numeric, NA
    <3>6. QED
      BY <2>1, <3>2, <3>5 DEF Inv, ExecsAreEarned, Worked, OncePerSecond, UNITS, ELAPSED
  <2>3. CASE ~Beats(cov[Order[i]]) /\ UNCHANGED << best_pct, winner >>
    <3>1. cov[Order[i]] <= best_pct
      BY <1>0, <2>1, <2>3 DEF Beats, NA
    <3>2. StatsTypeOK'
      BY <2>1, <2>3 DEF Inv, StatsTypeOK
    <3>3. ASSUME winner = "(unknown)" PROVE BestSoFar'
      <4>1. best_pct = 0 /\ \A k \in 1..(i - 1) : ~Numeric(Order[k])
        BY <3>3 DEF Inv, BestSoFar
      <4>2. ~Numeric(Order[i])
        BY <1>0, <2>1, <3>1, <4>1 DEF Numeric, NA
      <4>3. \A k \in 1..(i' - 1) : ~Numeric(Order[k])
        BY <2>1, <4>1, <4>2
      <4>4. QED
        BY <2>1, <2>3, <3>3, <4>1, <4>3 DEF BestSoFar, Numeric
    <3>4. ASSUME winner # "(unknown)" PROVE BestSoFar'
      <4>1. PICK k \in 1..(i - 1) : /\ winner = Order[k]
                                    /\ best_pct = cov[Order[k]] /\ Numeric(Order[k])
                                    /\ \A m \in 1..(i - 1) : cov[Order[m]] <= best_pct
                                    /\ \A m \in 1..(k - 1) : cov[Order[m]] < best_pct
        BY <3>4 DEF Inv, BestSoFar
      <4>2. k \in 1..(i' - 1) /\ \A m \in 1..(i' - 1) : cov[Order[m]] <= best_pct
        BY <2>1, <3>1, <4>1
      <4>3. QED
        BY <2>1, <2>3, <3>4, <4>1, <4>2 DEF BestSoFar, Numeric
    <3>5. BestSoFar'
      BY <3>3, <3>4
    <3>6. QED
      BY <2>1, <3>2, <3>5 DEF Inv, ExecsAreEarned, Worked, OncePerSecond, UNITS, ELAPSED
  <2>4. QED
    BY <1>2, <2>2, <2>3 DEF Compare
<1>3. CASE UNCHANGED stats
  BY <1>3 DEF stats, Inv, StatsTypeOK, ExecsAreEarned, Worked, OncePerSecond, UNITS, ELAPSED,
              BestSoFar, Numeric
<1>4. QED
  BY <1>1, <1>2, <1>3 DEF StatsNext

\* Exec/s are earned for every log and every pair of clock readings.
THEOREM ExecsCorrect == StatsSpec => []ExecsAreEarned
<1>1. Inv => ExecsAreEarned
  BY DEF Inv
<1>2. QED
  BY InitInv, NextInv, <1>1, PTL DEF StatsSpec

\* The winner has the best coverage, and is the first to have it.
THEOREM WinnerCorrect == StatsSpec => []WinnerIsBest
<1>1. Inv => WinnerIsBest
  BY DEF Inv, StatsTypeOK, BestSoFar, WinnerIsBest
<1>2. QED
  BY InitInv, NextInv, <1>1, PTL DEF StatsSpec
=============================================================================
