---------------------------- MODULE ResultsTable ----------------------------
(***************************************************************************)
(* What run_all.sh promises about RESULTS.md, without saying how: the      *)
(* table is replaced as a whole by a run that has measured every target    *)
(* itself, each for the duration in the header.  A run that is abandoned   *)
(* leaves the table alone, unless it was already writing it.               *)
(*                                                                         *)
(* run_all.sh removes nothing of an earlier invocation, and every          *)
(* benchmark leaves its measurement in a file that any later command could *)
(* pick up: that the table is made of one run's measurements is for RunAll *)
(* to show.                                                                *)
(***************************************************************************)
CONSTANTS
    Targets,    \* the programs under test
    Durations,  \* the seconds a fuzzer may be given
    Row         \* measurements of one target, with the seconds they took

NoFile   == [ file |-> "none" ]
TornFile == [ file |-> "torn" ]
Entry    == [ file : { "whole" }, row : Row ]
Table    == [ file : { "whole" }, secs : Durations, row : [ Targets -> Entry \union { NoFile } ] ]

VARIABLES
    run,        \* what the run under way has measured, as the table it may become
    table       \* RESULTS.md

vars == << run, table >>

UnderWay == run # NoFile
Complete == UnderWay /\ \A t \in Targets : run.row[t] # NoFile

Init == run = NoFile /\ table = NoFile

Open ==
    /\ ~UnderWay
    /\ \E d \in Durations :
          run' = [ file |-> "whole", secs |-> d, row |-> [ t \in Targets |-> NoFile ] ]
    /\ UNCHANGED table

Measure ==
    /\ UnderWay
    /\ \E t \in Targets, e \in Entry :
          /\ run.row[t] = NoFile
          /\ e.row.secs = run.secs
          /\ run' = [ run EXCEPT !.row[t] = e ]
    /\ UNCHANGED table

Publish ==
    /\ Complete
    /\ table' = run
    /\ run' = NoFile

Abandon ==
    /\ UnderWay
    /\ run' = NoFile
    /\ table' = table \/ (Complete /\ table' = TornFile)

Next == Open \/ Measure \/ Publish \/ Abandon

Spec == Init /\ [][Next]_vars
=============================================================================
