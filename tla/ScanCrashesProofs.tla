------------------------- MODULE ScanCrashesProofs -------------------------
(***************************************************************************)
(* Proofs about ScanCrashes, for any set of crash files, any traces, any   *)
(* times, any start and any target.                                        *)
(***************************************************************************)
EXTENDS ScanCrashes, TLAPS

\* What a file or a result owes its contents to.  With TypeOK and
\* FirstSeenIsEarliest this is inductive.
ScanInv ==
    /\ \A f \in Files : verdict[f] # "UNKNOWN" =>
          /\ disk.ready
          /\ f \in disk.listed
          /\ f \notin pending
          /\ verdict[f] \in disk.trace[f]
          /\ stage # "start"
    /\ stage # "start" => pending \subseteq disk.listed
    /\ stage \in { "output", "done" } => pending = {}
    /\ pending # {} => disk.ready
    /\ stage = "done" => result = [ b \in KNOWN_BUGS |-> first_seen[b] ]

Inv == TypeOK /\ FirstSeenIsEarliest /\ ScanInv
-----------------------------------------------------------------------------
\* The seven identifiers of the grep chain; none of them is "UNKNOWN".
LEMMA BugsFacts ==
    /\ Bugs = { "BUG_C1", "BUG_C2", "BUG_R1", "BUG_R2", "BUG_RE1", "BUG_S1", "BUG_S2" }
    /\ "UNKNOWN" \notin Bugs
    /\ KNOWN_BUGS \subseteq Bugs
<1>1. Bugs = { "BUG_C1", "BUG_C2", "BUG_R1", "BUG_R2", "BUG_RE1", "BUG_S1", "BUG_S2" }
  <2>1. 1..7 = { 1, 2, 3, 4, 5, 6, 7 }
    OBVIOUS
  <2>2. QED
    BY <2>1 DEF Bugs, Chain
<1>2. KNOWN_BUGS \subseteq Bugs
  BY <1>1 DEF KNOWN_BUGS
<1>3. QED
  BY <1>1, <1>2

\* What the grep chain of identify_bug.sh (and its copy for the log) answers: a
\* bug of the chain whose function occurs in the trace, or "UNKNOWN".
LEMMA FirstMatchFacts ==
    ASSUME NEW trace
    PROVE  /\ FirstMatch(trace) \in Bugs \union { "UNKNOWN" }
           /\ FirstMatch(trace) # "UNKNOWN" => FirstMatch(trace) \in trace
<1>1. CASE ~ \E i \in 1..7 : Chain[i] \in trace
  BY <1>1 DEF FirstMatch
<1>2. CASE \E i \in 1..7 : Chain[i] \in trace
  <2> DEFINE P(i) == Chain[i] \in trace /\ \A j \in 1..(i - 1) : Chain[j] \notin trace
  <2>1. \E i \in 1..7 : P(i)
    <3>1. CASE Chain[1] \in trace
      BY <3>1
    <3>2. CASE Chain[1] \notin trace /\ Chain[2] \in trace
      BY <3>2
    <3>3. CASE /\ Chain[1] \notin trace /\ Chain[2] \notin trace
               /\ Chain[3] \in trace
      BY <3>3
    <3>4. CASE /\ Chain[1] \notin trace /\ Chain[2] \notin trace
               /\ Chain[3] \notin trace /\ Chain[4] \in trace
      BY <3>4
    <3>5. CASE /\ Chain[1] \notin trace /\ Chain[2] \notin trace
               /\ Chain[3] \notin trace /\ Chain[4] \notin trace
               /\ Chain[5] \in trace
      BY <3>5
    <3>6. CASE /\ Chain[1] \notin trace /\ Chain[2] \notin trace
               /\ Chain[3] \notin trace /\ Chain[4] \notin trace
               /\ Chain[5] \notin trace /\ Chain[6] \in trace
      BY <3>6
    <3>7. CASE /\ Chain[1] \notin trace /\ Chain[2] \notin trace
               /\ Chain[3] \notin trace /\ Chain[4] \notin trace
               /\ Chain[5] \notin trace /\ Chain[6] \notin trace
               /\ Chain[7] \in trace
      BY <3>7
    <3>8. QED
      BY <1>2, <3>1, <3>2, <3>3, <3>4, <3>5, <3>6, <3>7
  <2> DEFINE k == CHOOSE i \in 1..7 : P(i)
  <2>2. k \in 1..7 /\ Chain[k] \in trace
    BY <2>1
  <2>3. FirstMatch(trace) = Chain[k]
    BY <1>2 DEF FirstMatch
  <2>4. Chain[k] \in Bugs
    BY <2>2 DEF Bugs
  <2>5. QED
    BY <2>2, <2>3, <2>4
<1>3. QED
  BY <1>1, <1>2

\* identify_bug.sh answers a bug that the file's own trace contains, or nothing.
LEMMA IdentifyFacts ==
    ASSUME NEW f \in Files, NEW out \in ASAN_OUT(f), NEW bug_id \in identify_bug(out)
    PROVE  /\ bug_id \in Bugs \union { "UNKNOWN" }
           /\ bug_id # "UNKNOWN" => bug_id \in disk.trace[f]
<1>1. PICK seen \in SUBSET out : bug_id = FirstMatch(seen)
  BY DEF identify_bug
<1>2. out \subseteq disk.trace[f]
  BY DEF ASAN_OUT
<1>3. bug_id \in Bugs \union { "UNKNOWN" } /\ (bug_id # "UNKNOWN" => bug_id \in seen)
  BY <1>1, FirstMatchFacts
<1>4. QED
  BY <1>1, <1>2, <1>3

\* Elapsed times are natural numbers: the clamp removes the negative ones.
LEMMA ElapsedNat == \A m \in Times : Elapsed(m) \in Nat
BY TimesAssumption DEF Elapsed, Max0

\* The update of the array takes the minimum of the old entry and the new time
\* for the bug at hand and leaves every other entry alone.
LEMMA RecordFacts ==
    ASSUME first_seen \in [ Bugs -> Nat \union { NotSet } ],
           NEW bug_id \in Bugs \union { "UNKNOWN" }, NEW elapsed \in Nat
    PROVE  /\ Record(bug_id, elapsed) \in [ Bugs -> Nat \union { NotSet } ]
           /\ \A b \in Bugs : b # bug_id => Record(bug_id, elapsed)[b] = first_seen[b]
           /\ \A b \in Bugs, S \in SUBSET Nat :
                 b = bug_id /\ Earliest(first_seen[b], S)
                   => Earliest(Record(bug_id, elapsed)[b], S \union { elapsed })
<1>1. Record(bug_id, elapsed) \in [ Bugs -> Nat \union { NotSet } ]
  BY DEF Record
<1>2. \A b \in Bugs : b # bug_id => Record(bug_id, elapsed)[b] = first_seen[b]
  BY DEF Record
<1>3. ASSUME NEW b \in Bugs, NEW S \in SUBSET Nat,
             b = bug_id, Earliest(first_seen[b], S)
      PROVE  Earliest(Record(bug_id, elapsed)[b], S \union { elapsed })
  <2>0. bug_id # "UNKNOWN"
    BY <1>3, BugsFacts
  <2>1. CASE S = {}
    BY <1>3, <2>0, <2>1 DEF Record, Earliest, NotSet
  <2>2. CASE S # {}
    <3>1. first_seen[b] \in S /\ \A e \in S : first_seen[b] <= e
      BY <1>3, <2>2 DEF Earliest
    <3>2. first_seen[b] \in Nat /\ first_seen[b] # NotSet
      BY <3>1 DEF NotSet
    <3>3. CASE elapsed < first_seen[b]
      <4>1. Record(bug_id, elapsed)[b] = elapsed
        BY <1>3, <2>0, <3>3 DEF Record
      <4>2. \A e \in S : elapsed <= e
        BY <3>1, <3>2, <3>3
      <4>3. QED
        BY <4>1, <4>2 DEF Earliest
    <3>4. CASE ~(elapsed < first_seen[b])
      <4>1. Record(bug_id, elapsed)[b] = first_seen[b]
        BY <1>3, <3>2, <3>4 DEF Record
      <4>2. first_seen[b] <= elapsed
        BY <3>2, <3>4
      <4>3. QED
        BY <4>1, <4>2, <3>1 DEF Earliest
    <3>5. QED
      BY <3>3, <3>4
  <2>3. QED
    BY <2>1, <2>2
<1>4. QED
  BY <1>1, <1>2, <1>3
-----------------------------------------------------------------------------
\* The script starts with nothing scanned, nothing recorded and nothing printed.
LEMMA InitInv == Init => Inv
<1> SUFFICES ASSUME Init PROVE Inv
  OBVIOUS
<1>1. TypeOK
  BY DEF Init, TypeOK, NotSet
<1>2. FirstSeenIsEarliest
  BY BugsFacts DEF Init, FirstSeenIsEarliest, Evidence, LogScanned, Earliest
<1>3. ScanInv
  BY DEF Init, ScanInv
<1>4. QED
  BY <1>1, <1>2, <1>3 DEF Inv

\* One iteration of the file loop keeps the invariant.
LEMMA ScanFileInv ==
    ASSUME Inv, NEW f \in Files, ScanFile(f)
    PROVE  Inv'
<1>0. PICK out \in ASAN_OUT(f) : \E bug_id \in identify_bug(out) :
         /\ replay' = [ replay EXCEPT ![f] = out ]
         /\ verdict' = [ verdict EXCEPT ![f] = bug_id ]
         /\ first_seen' = Record(bug_id, Elapsed(disk.mtime[f]))
  BY DEF ScanFile
<1>1. PICK bug_id \in identify_bug(out) :
         /\ replay' = [ replay EXCEPT ![f] = out ]
         /\ verdict' = [ verdict EXCEPT ![f] = bug_id ]
         /\ first_seen' = Record(bug_id, Elapsed(disk.mtime[f]))
  BY <1>0
<1>2. /\ stage = "files" /\ f \in pending
      /\ pending' = pending \ { f }
      /\ UNCHANGED << disk, stage, result >>
  BY DEF ScanFile
<1>3. bug_id \in Bugs \union { "UNKNOWN" } /\ (bug_id # "UNKNOWN" => bug_id \in disk.trace[f])
  BY IdentifyFacts
<1>4. disk.mtime[f] \in Times /\ Elapsed(disk.mtime[f]) \in Nat
  BY ElapsedNat DEF Inv, TypeOK, Disks
<1>5. TypeOK'
  <2>1. out \in SUBSET Bugs
    BY TracesAssumption DEF ASAN_OUT, Inv, TypeOK, Disks
  <2>2. QED
    BY <1>1, <1>2, <1>3, <1>4, <2>1, RecordFacts DEF Inv, TypeOK
<1>6. ScanInv'
  BY <1>1, <1>2, <1>3 DEF Inv, TypeOK, ScanInv
<1>7. FirstSeenIsEarliest'
  <2>1. verdict[f] = "UNKNOWN"
    BY <1>2 DEF Inv, ScanInv
  <2>2. SUFFICES ASSUME NEW b \in Bugs
                 PROVE  Earliest(first_seen'[b], Evidence(b)')
    BY DEF FirstSeenIsEarliest, Earliest
  <2>3. b # "UNKNOWN" /\ Earliest(first_seen[b], Evidence(b))
    BY BugsFacts DEF Inv, FirstSeenIsEarliest
  <2>4. ~LogScanned /\ ~LogScanned'
    BY <1>2 DEF LogScanned
  <2>5. CASE b # bug_id
    <3>1. { g \in Files : verdict'[g] = b } = { g \in Files : verdict[g] = b }
      BY <1>1, <2>1, <2>3, <2>5 DEF Inv, TypeOK
    <3>2. Evidence(b)' = Evidence(b)
      BY <1>2, <2>4, <3>1 DEF Evidence
    <3>3. first_seen'[b] = first_seen[b]
      BY <1>1, <1>3, <1>4, <2>5, RecordFacts DEF Inv, TypeOK
    <3>4. QED
      BY <2>3, <3>2, <3>3
  <2>6. CASE b = bug_id
    <3>1. { g \in Files : verdict'[g] = b } = { g \in Files : verdict[g] = b } \union { f }
      BY <1>1, <2>6 DEF Inv, TypeOK
    <3>2. Evidence(b)' = Evidence(b) \union { Elapsed(disk.mtime[f]) }
      BY <1>2, <2>4, <3>1 DEF Evidence
    <3>3. Evidence(b) \in SUBSET Nat
      BY <2>4, ElapsedNat DEF Evidence, Inv, TypeOK, Disks
    <3>4. first_seen \in [ Bugs -> Nat \union { NotSet } ]
      BY DEF Inv, TypeOK
    <3>5. Earliest(Record(bug_id, Elapsed(disk.mtime[f]))[b],
                   Evidence(b) \union { Elapsed(disk.mtime[f]) })
      BY ONLY <1>3, <1>4, <2>3, <2>6, <3>3, <3>4, b \in Bugs, RecordFacts
    <3>6. QED
      BY <1>1, <3>2, <3>5
  <2>7. QED
    BY <2>5, <2>6
<1>8. QED
  BY <1>5, <1>6, <1>7 DEF Inv

\* Scanning the log keeps the invariant: it adds one piece of evidence for at
\* most one bug.
LEMMA ScanLogInv == Inv /\ ScanLog => Inv'
<1> SUFFICES ASSUME Inv, ScanLog PROVE Inv'
  OBVIOUS
<1> DEFINE e == Elapsed(disk.logMtime)
<1>1. /\ stage = "files" /\ pending = {} /\ stage' = "output"
      /\ UNCHANGED << disk, pending, replay, verdict, result >>
      /\ first_seen' = IF disk.log THEN Record(log_bug, e) ELSE first_seen
  BY DEF ScanLog
<1>2. log_bug \in Bugs \union { "UNKNOWN" }
  BY FirstMatchFacts DEF log_bug
<1>3. e \in Nat
  BY ElapsedNat DEF Inv, TypeOK, Disks
<1> HIDE DEF e
<1>4. TypeOK'
  BY <1>1, <1>2, <1>3, RecordFacts DEF Inv, TypeOK
<1>5. ScanInv'
  BY <1>1 DEF Inv, ScanInv
<1>6. FirstSeenIsEarliest'
  <2>1. SUFFICES ASSUME NEW b \in Bugs
                 PROVE  Earliest(first_seen'[b], Evidence(b)')
    BY DEF FirstSeenIsEarliest, Earliest
  <2>2. Earliest(first_seen[b], Evidence(b))
    BY DEF Inv, FirstSeenIsEarliest
  <2>3. ~LogScanned /\ (LogScanned' <=> disk.log) /\ log_bug' = log_bug
    BY <1>1 DEF LogScanned, log_bug
  <2>4. CASE disk.log /\ log_bug = b
    <3>1. Evidence(b)' = Evidence(b) \union { e }
      BY <1>1, <2>3, <2>4 DEF Evidence, e
    <3>2. Evidence(b) \in SUBSET Nat
      BY <2>3, ElapsedNat DEF Evidence, Inv, TypeOK, Disks
    <3>3. first_seen' = Record(log_bug, e)
      BY <1>1, <2>4
    <3>4. first_seen \in [ Bugs -> Nat \union { NotSet } ]
      BY DEF Inv, TypeOK
    <3>5. Earliest(Record(log_bug, e)[b], Evidence(b) \union { e })
      BY ONLY <1>2, <1>3, <2>2, <2>4, <3>2, <3>4, b \in Bugs, RecordFacts
    <3>6. QED
      BY <3>1, <3>3, <3>5
  <2>5. CASE ~(disk.log /\ log_bug = b)
    <3>1. Evidence(b)' = Evidence(b)
      BY <1>1, <2>3, <2>5 DEF Evidence
    <3>2. first_seen'[b] = first_seen[b]
      BY <1>1, <1>2, <1>3, <2>5, RecordFacts DEF Inv, TypeOK
    <3>3. QED
      BY <2>2, <3>1, <3>2
  <2>6. QED
    BY <2>4, <2>5
<1>7. QED
  BY <1>4, <1>5, <1>6 DEF Inv

\* Every step of the script keeps the invariant.
LEMMA NextInv == Inv /\ [Next]_vars => Inv'
<1> SUFFICES ASSUME Inv, [Next]_vars PROVE Inv'
  OBVIOUS
<1>1. CASE Begin
  <2>1. TypeOK'
    BY <1>1 DEF Begin, Inv, TypeOK, Disks
  <2>2. ScanInv'
    BY <1>1 DEF Begin, Inv, TypeOK, ScanInv
  <2>3. FirstSeenIsEarliest'
    BY <1>1 DEF Begin, Inv, FirstSeenIsEarliest, Evidence, LogScanned, log_bug, Earliest
  <2>4. QED
    BY <2>1, <2>2, <2>3 DEF Inv
<1>2. CASE \E f \in Files : ScanFile(f)
  BY <1>2, ScanFileInv
<1>3. CASE ScanLog
  BY <1>3, ScanLogInv
<1>4. CASE Output
  <2>1. TypeOK'
    BY <1>4, BugsFacts DEF Output, Inv, TypeOK
  <2>2. ScanInv'
    BY <1>4 DEF Output, Inv, TypeOK, ScanInv
  <2>3. FirstSeenIsEarliest'
    BY <1>4 DEF Output, Inv, FirstSeenIsEarliest, Evidence, LogScanned, log_bug, Earliest
  <2>4. QED
    BY <2>1, <2>2, <2>3 DEF Inv
<1>5. CASE UNCHANGED vars
  <2>1. TypeOK'
    BY <1>5 DEF vars, Inv, TypeOK
  <2>2. ScanInv'
    BY <1>5 DEF vars, Inv, ScanInv
  <2>3. FirstSeenIsEarliest'
    BY <1>5 DEF vars, Inv, FirstSeenIsEarliest, Evidence, LogScanned, log_bug, Earliest
  <2>4. QED
    BY <2>1, <2>2, <2>3 DEF Inv
<1>6. QED
  BY <1>1, <1>2, <1>3, <1>4, <1>5 DEF Next

\* Every variable of scan_crashes.sh keeps its type: in particular the times in
\* first_seen are never negative, though a file may be older than the phase.
THEOREM TypesCorrect == Spec => []TypeOK
<1>1. Inv => TypeOK
  BY DEF Inv
<1>2. QED
  BY InitInv, NextInv, <1>1, PTL DEF Spec

\* The array always holds the earliest evidence, whatever order the files were
\* listed in.
THEOREM FirstSeenCorrect == Spec => []FirstSeenIsEarliest
<1>1. Inv => FirstSeenIsEarliest
  BY DEF Inv
<1>2. QED
  BY InitInv, NextInv, <1>1, PTL DEF Spec

\* The printed report loses no crash that identify_bug.sh names.
THEOREM CrashesCount == Spec => []EveryIdentifiedCrashCounts
<1>1. Inv => EveryIdentifiedCrashCounts
  <2> SUFFICES ASSUME Inv, stage = "done", NEW f \in Files, verdict[f] \in KNOWN_BUGS
               PROVE  /\ result[verdict[f]] # NotSet
                      /\ result[verdict[f]] <= Elapsed(disk.mtime[f])
    BY DEF EveryIdentifiedCrashCounts
  <2>0. verdict[f] \in Bugs
    BY BugsFacts
  <2>1. verdict[f] \in Bugs /\ result[verdict[f]] = first_seen[verdict[f]]
    <3>1. result = [ b \in KNOWN_BUGS |-> first_seen[b] ]
      BY DEF Inv, ScanInv
    <3>2. QED
      BY <2>0, <3>1
  <2>2. Earliest(first_seen[verdict[f]], Evidence(verdict[f]))
    BY <2>1 DEF Inv, FirstSeenIsEarliest
  <2>3. Elapsed(disk.mtime[f]) \in Evidence(verdict[f])
    BY DEF Evidence
  <2>4. first_seen[verdict[f]] <= Elapsed(disk.mtime[f]) /\ Elapsed(disk.mtime[f]) \in Nat
    BY <2>2, <2>3, ElapsedNat DEF Earliest, Inv, TypeOK, Disks
  <2>5. Evidence(verdict[f]) \subseteq Nat
    BY ElapsedNat DEF Evidence, Inv, TypeOK, Disks
  <2>6. QED
    BY <2>1, <2>2, <2>3, <2>4, <2>5 DEF Earliest, NotSet
<1>2. QED
  BY InitInv, NextInv, <1>1, PTL DEF Spec

\* The printed report credits no bug without a trace of this phase that shows it.
THEOREM CreditEarned == Spec => []NoUnearnedCredit
<1>1. Inv => NoUnearnedCredit
  <2> SUFFICES ASSUME Inv, stage = "done", NEW b \in KNOWN_BUGS, result[b] # NotSet
               PROVE  \/ \E f \in disk.listed : /\ disk.ready
                                                /\ b \in disk.trace[f]
                                                /\ result[b] = Elapsed(disk.mtime[f])
                      \/ /\ disk.log
                         /\ b \in disk.logTrace
                         /\ result[b] = Elapsed(disk.logMtime)
    BY DEF NoUnearnedCredit
  <2>1. b \in Bugs /\ b # "UNKNOWN" /\ result[b] = first_seen[b]
    <3>1. result = [ c \in KNOWN_BUGS |-> first_seen[c] ]
      BY DEF Inv, ScanInv
    <3>2. QED
      BY <3>1, BugsFacts
  <2>2. result[b] \in Evidence(b)
    BY <2>1 DEF Inv, FirstSeenIsEarliest, Earliest
  <2>3. CASE \E f \in Files : verdict[f] = b /\ result[b] = Elapsed(disk.mtime[f])
    BY <2>1, <2>3 DEF Inv, ScanInv
  <2>4. CASE LogScanned /\ log_bug = b /\ result[b] = Elapsed(disk.logMtime)
    BY <2>1, <2>4, FirstMatchFacts DEF LogScanned, log_bug
  <2>5. QED
    BY <2>2, <2>3, <2>4 DEF Evidence
<1>2. QED
  BY InitInv, NextInv, <1>1, PTL DEF Spec
=============================================================================
