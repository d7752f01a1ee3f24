---------------------------- MODULE ScanCrashes ----------------------------
(***************************************************************************)
(* bugs/scan_crashes.sh and bugs/identify_bug.sh: replay every crash file  *)
(* of one fuzzing phase, name the injected bug each one triggers, keep the *)
(* earliest time per bug, add what the fuzzer log says, and report one     *)
(* entry per bug of the target.                                            *)
(*                                                                         *)
(* A stack trace is abstracted to the set of injected bugs whose function  *)
(* name occurs in it: that is all the greps look at.  `find' yields the    *)
(* files in no particular order, so the loop takes any pending file.       *)
(***************************************************************************)
EXTENDS Integers

CONSTANTS
    Files,         \* crash files a phase may leave behind
    Traces,        \* sets of bug functions that occur together in one trace
    Times,         \* modification times, in epoch seconds
    START_EPOCH,   \* second argument of the script
    TARGET         \* fourth argument of the script

Chain == << "BUG_C1", "BUG_C2", "BUG_R1", "BUG_R2", "BUG_RE1", "BUG_S1", "BUG_S2" >>

Bugs == { Chain[i] : i \in 1..7 }

KNOWN_BUGS ==
    CASE TARGET = "cjson"  -> { "BUG_C1", "BUG_C2" }
      [] TARGET = "rhash"  -> { "BUG_R1", "BUG_R2" }
      [] TARGET = "re2"    -> { "BUG_RE1" }
      [] TARGET = "sqlite" -> { "BUG_S1", "BUG_S2" }
      [] OTHER             -> {}

ASSUME TracesAssumption == Traces \subseteq SUBSET Bugs
ASSUME TimesAssumption  == Times \subseteq Int /\ START_EPOCH \in Int

VARIABLES
    disk,        \* what the phase left: files, their times and traces, the log
    stage,       \* where the script is
    pending,     \* files `find' has still to deliver
    replay,      \* the bug functions in the output of a file's replay
    verdict,     \* what identify_bug.sh answered for a file
    first_seen,  \* the associative array of the script
    result       \* the string it prints, as a function of the bug

vars == << disk, stage, pending, replay, verdict, first_seen, result >>

NotSet == -1     \* no entry in first_seen; "not_found" in the result

Disks == [ ready : BOOLEAN, listed : SUBSET Files,
           mtime : [ Files -> Times ], trace : [ Files -> Traces ],
           log : BOOLEAN, logMtime : Times, logTrace : Traces ]

\* Mutant: the elapsed time is not clamped.
Max0Dropped(n) == n

Max0(n) == IF n < 0 THEN 0 ELSE n

Elapsed(mtime) == Max0(mtime - START_EPOCH)

\* The if/elif chain of greps: the first bug function of the chain that occurs.
FirstMatch(trace) ==
    IF \E i \in 1..7 : Chain[i] \in trace
    THEN Chain[ CHOOSE i \in 1..7 : /\ Chain[i] \in trace
                                    /\ \A j \in 1..(i - 1) : Chain[j] \notin trace ]
    ELSE "UNKNOWN"

\* The replay's output lacks the trace when the replay is cut off after 15 s or
\* does not reproduce the crash.
ASAN_OUT(f) == { disk.trace[f], {} }

\* identify_bug.sh pipes that output through `grep -q' under pipefail.  grep leaves
\* at its first match; if echo is still writing then (the output is longer than
\* the pipe holds), it dies of SIGPIPE, the pipeline counts as failed, and the
\* chain goes on as if the function did not occur.
identify_bug(out) == { FirstMatch(seen) : seen \in SUBSET out }

log_bug == FirstMatch(disk.logTrace)

\* Mutants: the first file listed wins; the last one wins.
RecordFirst(bug_id, elapsed) ==
    IF bug_id # "UNKNOWN" /\ first_seen[bug_id] = NotSet
    THEN [ first_seen EXCEPT ![bug_id] = elapsed ]
    ELSE first_seen

RecordLast(bug_id, elapsed) ==
    IF bug_id # "UNKNOWN" THEN [ first_seen EXCEPT ![bug_id] = elapsed ] ELSE first_seen

\* The update of the associative array, shared by the file loop and the log.
Record(bug_id, elapsed) ==
    IF bug_id # "UNKNOWN" /\ (first_seen[bug_id] = NotSet \/ elapsed < first_seen[bug_id])
    THEN [ first_seen EXCEPT ![bug_id] = elapsed ]
    ELSE first_seen

Init ==
    /\ disk \in Disks
    /\ stage = "start"
    /\ pending = {}
    /\ replay = [ f \in Files |-> {} ]
    /\ verdict = [ f \in Files |-> "UNKNOWN" ]
    /\ first_seen = [ b \in Bugs |-> NotSet ]
    /\ result = [ b \in KNOWN_BUGS |-> NotSet ]

\* The directory, the identify script and the replay binary must exist, or the
\* file loop is not entered.
Begin ==
    /\ stage = "start"
    /\ stage' = "files"
    /\ pending' = IF disk.ready THEN disk.listed ELSE {}
    /\ UNCHANGED << disk, replay, verdict, first_seen, result >>

ScanFile(f) ==
    /\ stage = "files"
    /\ f \in pending
    /\ \E out \in ASAN_OUT(f) : \E bug_id \in identify_bug(out) :
          /\ replay' = [ replay EXCEPT ![f] = out ]
          /\ verdict' = [ verdict EXCEPT ![f] = bug_id ]
          /\ first_seen' = Record(bug_id, Elapsed(disk.mtime[f]))
    /\ pending' = pending \ { f }
    /\ UNCHANGED << disk, stage, result >>

\* Mutant: the log is scanned without asking whether there is one.
ScanLogAnyway ==
    /\ stage = "files"
    /\ pending = {}
    /\ stage' = "output"
    /\ first_seen' = Record(log_bug, Elapsed(disk.logMtime))
    /\ UNCHANGED << disk, pending, replay, verdict, result >>

ScanLog ==
    /\ stage = "files"
    /\ pending = {}
    /\ stage' = "output"
    /\ first_seen' = IF disk.log THEN Record(log_bug, Elapsed(disk.logMtime)) ELSE first_seen
    /\ UNCHANGED << disk, pending, replay, verdict, result >>

Output ==
    /\ stage = "output"
    /\ stage' = "done"
    /\ result' = [ b \in KNOWN_BUGS |-> first_seen[b] ]
    /\ UNCHANGED << disk, pending, replay, verdict, first_seen >>

Next == Begin \/ (\E f \in Files : ScanFile(f)) \/ ScanLog \/ Output

Spec == Init /\ [][Next]_vars
-----------------------------------------------------------------------------
\* The variables keep their types; times are never negative once recorded.
TypeOK ==
    /\ disk \in Disks
    /\ stage \in { "start", "files", "output", "done" }
    /\ pending \in SUBSET Files
    /\ replay \in [ Files -> SUBSET Bugs ]
    /\ verdict \in [ Files -> Bugs \union { "UNKNOWN" } ]
    /\ first_seen \in [ Bugs -> Nat \union { NotSet } ]
    /\ result \in [ KNOWN_BUGS -> Nat \union { NotSet } ]

\* The times at which bug b is evidenced by what has been scanned so far.
LogScanned == stage \in { "output", "done" } /\ disk.log

Evidence(b) ==
    { Elapsed(disk.mtime[f]) : f \in { g \in Files : verdict[g] = b } }
      \union IF LogScanned /\ log_bug = b THEN { Elapsed(disk.logMtime) } ELSE {}

Earliest(t, S) == IF S = {} THEN t = NotSet ELSE t \in S /\ \A e \in S : t <= e

\* At every moment the array holds, for each bug, the least elapsed time over
\* all the evidence scanned so far, in whatever order `find' listed the files.
FirstSeenIsEarliest == \A b \in Bugs : Earliest(first_seen[b], Evidence(b))

\* A crash of this phase that the replay names is never lost: once the report is
\* out, its bug has a time no later than that crash's own.
EveryIdentifiedCrashCounts ==
    stage = "done" =>
        \A f \in Files : verdict[f] \in KNOWN_BUGS =>
            /\ result[verdict[f]] # NotSet
            /\ result[verdict[f]] <= Elapsed(disk.mtime[f])

\* The report never credits a bug without a crash file (or the log) of this
\* phase whose trace really contains the bug's function, at exactly that time.
NoUnearnedCredit ==
    stage = "done" =>
        \A b \in KNOWN_BUGS : result[b] # NotSet =>
            \/ \E f \in disk.listed : /\ disk.ready
                                      /\ b \in disk.trace[f]
                                      /\ result[b] = Elapsed(disk.mtime[f])
            \/ /\ disk.log
               /\ b \in disk.logTrace
               /\ result[b] = Elapsed(disk.logMtime)

\* "report the first time each injected bug was triggered" (scan_crashes.sh:2):
\* a bug of the target whose trace is in the fuzzer log is reported.
EachLoggedBugReported ==
    stage = "done" /\ disk.log => \A b \in KNOWN_BUGS \intersect disk.logTrace : result[b] # NotSet

\* "identify which injected bug triggered" (identify_bug.sh:2): a replay whose
\* output shows the function of a bug is given to a bug.
EveryReplayIsNamed == \A f \in Files : replay[f] # {} => verdict[f] # "UNKNOWN"
=============================================================================
