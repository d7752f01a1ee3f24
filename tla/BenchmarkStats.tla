--------------------------- MODULE BenchmarkStats ---------------------------
(***************************************************************************)
(* The arithmetic of a benchmark script: executions per second of a        *)
(* LibFuzzer or WingFuzz phase, from its log and the wall clock, and the   *)
(* fuzzer with the best branch coverage.  The four scripts share the code. *)
(*                                                                         *)
(* A log is abstracted to the two numbers the greps look for: the last     *)
(* number_of_executed_units, and the last positive exec/s of a progress    *)
(* line.  A percentage is a natural number of hundredths.                  *)
(***************************************************************************)
EXTENDS Integers

CONSTANTS
    Units,      \* values of number_of_executed_units
    Rates,      \* positive values of exec/s in progress lines
    Epochs,     \* what `date +%s' may answer, in any order: the clock can be set
    Percents    \* branch coverage

ASSUME NumbersAssumption ==
    Units \subseteq Nat /\ Rates \subseteq Nat \ {0} /\ Epochs \subseteq Int /\ Percents \subseteq Nat

NA == -1        \* "N/A", or nothing at all: no number

Order == << "LibFuzzer", "WingFuzz", "DDFuzz" >>

VARIABLES
    at,         \* "waiting", "execs", "winner" or "done"
    fuzzer,     \* whose phase it is
    log,        \* what its log shows
    start,      \* LF_START or WF_START
    end,        \* LF_END or WF_END
    execs,      \* LF_EXECS or WF_EXECS
    cov,        \* LF_BRANCH_COV, WF_BRANCH_COV, DDF_BRANCH_COV
    i,          \* the pair the winner loop is at
    best_pct,
    winner

inputs == << fuzzer, log, start, end, cov >>
stats  == << at, inputs, execs, i, best_pct, winner >>

\* `... | tail -1 || echo 0'.
UNITS == IF log.units = NA THEN 0 ELSE log.units

ELAPSED == IF end - start <= 0 THEN 1 ELSE end - start

\* The quotient; if that rounds to zero, the progress line, if there is one.
Fallback(q) == IF q = 0 /\ log.rate # NA THEN log.rate ELSE q

\* Mutant: the unit count is not looked at.
NARuleHasty(n) == IF n = 0 /\ fuzzer = "WingFuzz" THEN NA ELSE n

\* WingFuzz only: neither a unit count nor a progress line.
NARule(n) == IF n = 0 /\ UNITS = 0 /\ fuzzer = "WingFuzz" THEN NA ELSE n

StatsInit ==
    /\ at = "execs"
    /\ fuzzer \in { "LibFuzzer", "WingFuzz" }
    /\ log \in [ units : Units \union { NA }, rate : Rates \union { NA } ]
    /\ start \in Epochs /\ end \in Epochs
    /\ execs = 0
    /\ cov \in [ { Order[k] : k \in 1..3 } -> Percents \union { NA } ]
    /\ i = 1 /\ best_pct = 0 /\ winner = "(unknown)"

Execs ==
    /\ at = "execs"
    /\ execs' = NARule(Fallback(UNITS \div ELAPSED))
    /\ at' = "winner"
    /\ UNCHANGED << inputs, i, best_pct, winner >>

\* Mutant: a later fuzzer wins a tie.
BeatsOrTies(pct) == pct # NA /\ pct >= best_pct

\* The text is a number, and a greater one than the best so far.
Beats(pct) == pct # NA /\ pct > best_pct

Compare ==
    /\ at = "winner"
    /\ i <= 3
    /\ IF Beats(cov[Order[i]])
       THEN best_pct' = cov[Order[i]] /\ winner' = Order[i]
       ELSE UNCHANGED << best_pct, winner >>
    /\ i' = i + 1
    /\ at' = IF i = 3 THEN "done" ELSE at
    /\ UNCHANGED << inputs, execs >>

StatsNext == Execs \/ Compare

StatsSpec == StatsInit /\ [][StatsNext]_stats
-----------------------------------------------------------------------------
\* The values of the script's variables; exec/s are never negative.
StatsTypeOK ==
    /\ at \in { "waiting", "execs", "winner", "done" }
    /\ fuzzer \in { Order[k] : k \in 1..3 }
    /\ log \in [ units : Units \union { NA }, rate : Rates \union { NA } ]
    /\ start \in Int /\ end \in Int
    /\ execs \in Nat \union { NA }
    /\ cov \in [ { Order[k] : k \in 1..3 } -> Percents \union { NA } ]
    /\ i \in 1..4 /\ best_pct \in Nat
    /\ winner \in { Order[k] : k \in 1..3 } \union { "(unknown)" }

\* Did the phase, by its log, execute anything, and at least once per second?
Worked  == UNITS > 0 \/ log.rate # NA
OncePerSecond == UNITS >= ELAPSED \/ log.rate # NA

\* Whatever the clock did during the phase (it may have been set back, or the
\* phase may have ended within the second it began in), the exec/s reported are
\* N/A only for a phase that shows no work, positive if and only if there was
\* an execution per second, and never more than the units executed or the rate
\* of the progress line.
ExecsAreEarned ==
    at \in { "winner", "done" } =>
        /\ execs = NA => ~Worked
        /\ execs > 0 <=> OncePerSecond
        /\ execs > 0 => execs <= UNITS \/ execs = log.rate

\* Coverage that can win: a number above zero.
Numeric(f) == cov[f] # NA /\ cov[f] > 0

\* The fuzzer announced as best has the greatest coverage of the three, no
\* earlier one has as much, and none is announced only if no coverage is a
\* number above zero.
WinnerIsBest ==
    at = "done" =>
        IF winner = "(unknown)"
        THEN \A k \in 1..3 : ~Numeric(Order[k])
        ELSE \E k \in 1..3 : /\ winner = Order[k]
                             /\ best_pct = cov[Order[k]] /\ Numeric(Order[k])
                             /\ \A m \in 1..3 : cov[Order[m]] <= best_pct
                             /\ \A m \in 1..(k - 1) : cov[Order[m]] < best_pct
=============================================================================
