------------------------- MODULE AggregationProofs -------------------------
(***************************************************************************)
(* Proofs about Aggregation, for every set of bugs, times and durations    *)
(* and any number of benchmarks run by hand.                               *)
(*                                                                         *)
(* A step that is first-order logic names Zenon; the others need sets of   *)
(* records, functions or numbers and are left to SMT.                      *)
(***************************************************************************)
EXTENDS Aggregation, TLAPS

\* Where run_all.sh is: the targets it has been through in this pass.
Before == [ sqlite |-> {}, rhash |-> { "sqlite" }, cjson |-> { "sqlite", "rhash" },
            re2 |-> { "sqlite", "rhash", "cjson" } ]

Scoring == at \in { "score", "open", "write", "done" }

Types ==
    /\ tgt \in Targets /\ secs \in Durations
    /\ env \in [ Targets -> Row \union { Absent, Empty } ]
    /\ shell \in Row \union { Unset }
    /\ row \in [ Targets -> Row \union { Unset } ]
    /\ own \in [ Targets -> Row \union { Unset } ]
    /\ hand.at # "idle" => hand.of \in Targets

\* The rows the aggregation has assigned.
RowsSet ==
    /\ at = "source" => \A t \in Before[tgt] : row[t] # Unset
    /\ Scoring => \A t \in Targets : row[t] # Unset

\* Whatever a row that is anywhere in the system reports has been reported.
Backed(r) == r \in Row => Reported(r) \subseteq found

AllBacked ==
    /\ \A t \in Targets : Backed(env[t]) /\ Backed(row[t])
    /\ Backed(shell)

CreditInv == Types /\ RowsSet /\ AllBacked

\* A row of one target is a row, and has the fields of one.
LEMMA RowFacts ==
    /\ \A t \in Targets : RowOf(t) \subseteq Row
    /\ Absent \notin Row /\ Empty \notin Row /\ Unset \notin Row
    /\ \A r \in Row : /\ r.of \in Targets
                      /\ \A f \in Columns, b \in Bugs :
                            r.bugs[f][b] # Unlisted => TargetOf[b] = r.of
                      /\ \A f \in Columns, b \in Bugs :
                            r.bugs[f][b] \in Times \union { not_found, Unlisted }
<1>1. \A t \in Targets : RowOf(t) \subseteq Row
  BY Zenon DEF Row
<1>2. ASSUME NEW r \in Row
      PROVE  /\ r.of \in Targets
             /\ \A f \in Columns, b \in Bugs :
                   /\ r.bugs[f][b] # Unlisted => TargetOf[b] = r.of
                   /\ r.bugs[f][b] \in Times \union { not_found, Unlisted }
  <2>1. PICK t \in Targets : r \in RowOf(t)
    BY Zenon DEF Row
  <2>2. r.of = t /\ r.bugs \in [ Columns -> BugString(t) ]
    BY <2>1, Zenon DEF RowOf
  <2>3. ASSUME NEW f \in Columns, NEW b \in Bugs
        PROVE  /\ r.bugs[f][b] # Unlisted => TargetOf[b] = t
               /\ r.bugs[f][b] \in Times \union { not_found, Unlisted }
    <3>1. r.bugs[f] \in BugString(t)
      BY <2>2, Zenon
    <3>2. QED
      BY <3>1, Zenon DEF BugString
  <2>4. QED
    BY <2>1, <2>2, <2>3, Zenon
<1>3. Absent \notin Row /\ Empty \notin Row /\ Unset \notin Row
  BY <1>2, Zenon DEF Absent, Empty, Unset, Targets
<1>4. QED
  BY <1>1, <1>2, <1>3, Zenon

\* Either kind of benchmark puts a row into the env file of its target, and
\* into the history.
LEMMA WriteBacked ==
    ASSUME Types, AllBacked, NEW t \in Targets, NEW r \in Row \union { Absent, Empty },
           env' = [ env EXCEPT ![t] = r ],
           found \subseteq found', r \in Row => Reported(r) \subseteq found',
           UNCHANGED << shell, row >>
    PROVE  AllBacked' /\ env' \in [ Targets -> Row \union { Absent, Empty } ]
<1>1. \A u \in Targets : env'[u] = IF u = t THEN r ELSE env[u]
  BY Zenon DEF Types
<1>2. \A u \in Targets : (env'[u] \in Row => Reported(env'[u]) \subseteq found')
                        /\ (row[u] \in Row => Reported(row[u]) \subseteq found')
  BY <1>1, Zenon DEF AllBacked, Backed
<1>3. shell \in Row => Reported(shell) \subseteq found'
  BY Zenon DEF AllBacked, Backed
<1>4. QED
  BY <1>2, <1>3, Zenon DEF AllBacked, Backed, Types, Reported

\* No file has been written yet.
LEMMA InitCredit == Init => CreditInv
<1> SUFFICES ASSUME Init PROVE CreditInv
  OBVIOUS
<1>1. Types
  BY Zenon DEF Init, Types, Targets, Idle
<1>2. RowsSet
  BY Zenon DEF Init, RowsSet, Scoring
<1>3. AllBacked
  BY RowFacts, Zenon DEF Init, AllBacked, Backed
<1>4. QED
  BY <1>1, <1>2, <1>3, Zenon DEF CreditInv

\* Every step keeps all rows backed, those of hand-run benchmarks included.
LEMMA NextCredit == CreditInv /\ [Next]_vars => CreditInv'
<1> SUFFICES ASSUME CreditInv, [Next]_vars PROVE CreditInv'
  OBVIOUS
<1>0. Types /\ RowsSet /\ AllBacked /\ tgt \in Targets
  BY Zenon DEF CreditInv, Types
<1> USE DEF aggregate, driver, byhand
<1>1. CASE Start \/ Fail
  BY <1>0, <1>1, ZenonT(60) DEF Start, Fail, CreditInv, Types, RowsSet, Scoring, AllBacked, Backed, Reported
<1>2. CASE OpenEnv
  <2>1. UNCHANGED << tgt, secs, shell, row, own, found, hand >> /\ at' = "fill"
    BY <1>2, Zenon DEF OpenEnv
  <2>2. AllBacked' /\ env' \in [ Targets -> Row \union { Absent, Empty } ]
    BY <1>0, <1>2, <2>1, RowFacts, WriteBacked, Zenon DEF OpenEnv
  <2>3. QED
    BY <1>0, <2>1, <2>2, Zenon DEF CreditInv, Types, RowsSet, Scoring
<1>3. CASE FillEnv
  <2>1. PICK r \in RowOf(tgt) : /\ env' = [ env EXCEPT ![tgt] = r ]
                                /\ own' = [ own EXCEPT ![tgt] = r ]
                                /\ found' = found \union Reported(r)
    BY <1>3, Zenon DEF FillEnv
  <2>2. r \in Row
    BY <1>0, RowFacts, Zenon
  <2>3. UNCHANGED << secs, shell, row, hand >> /\ at = "fill"
    BY <1>3, Zenon DEF FillEnv
  <2>4. AllBacked' /\ env' \in [ Targets -> Row \union { Absent, Empty } ]
    BY <1>0, <2>1, <2>2, <2>3, WriteBacked, Zenon
  <2>5. \/ at' = "measure" /\ tgt' \in Targets
        \/ at' = "source" /\ tgt' = "sqlite"
    BY <1>0, <1>3 DEF FillEnv, BenchmarkNext, Targets
  <2>6. RowsSet'
    BY <2>5 DEF RowsSet, Scoring, Before
  <2>7. Types'
    BY <1>0, <2>1, <2>2, <2>3, <2>4, <2>5, Zenon DEF Types, Targets
  <2>8. QED
    BY <2>4, <2>6, <2>7, Zenon DEF CreditInv
<1>4. CASE HandStart \/ HandFail
  <2>1. UNCHANGED << at, tgt, secs, env, shell, row, own, found >>
    BY <1>4, Zenon DEF HandStart, HandFail
  <2>2. (hand.at # "idle" => hand.of \in Targets)'
    BY <1>4 DEF HandStart, HandFail, Idle
  <2>3. QED
    BY <1>0, <2>1, <2>2, Zenon DEF CreditInv, Types, RowsSet, Scoring, AllBacked, Backed, Reported
<1>5. CASE HandOpenEnv
  <2>1. UNCHANGED << at, tgt, secs, shell, row, own, found >> /\ hand.of \in Targets
    BY <1>0, <1>5, Zenon DEF HandOpenEnv, Types
  <2>2. hand'.of = hand.of
    BY <1>5 DEF HandOpenEnv
  <2>3. AllBacked' /\ env' \in [ Targets -> Row \union { Absent, Empty } ]
    BY <1>0, <1>5, <2>1, RowFacts, WriteBacked, Zenon DEF HandOpenEnv
  <2>4. QED
    BY <1>0, <2>1, <2>2, <2>3, Zenon DEF CreditInv, Types, RowsSet, Scoring
<1>6. CASE HandFillEnv
  <2>1. UNCHANGED << at, tgt, secs, shell, row, own >> /\ hand.of \in Targets /\ hand' = Idle
    BY <1>0, <1>6, Zenon DEF HandFillEnv, Types
  <2>2. PICK r \in RowOf(hand.of) : /\ env' = [ env EXCEPT ![hand.of] = r ]
                                    /\ found' = found \union Reported(r)
    BY <1>6, Zenon DEF HandFillEnv
  <2>3. r \in Row
    BY <2>1, RowFacts, Zenon
  <2>4. AllBacked' /\ env' \in [ Targets -> Row \union { Absent, Empty } ]
    BY <1>0, <2>1, <2>2, <2>3, WriteBacked, Zenon
  <2>5. QED
    BY <1>0, <2>1, <2>4, Zenon DEF CreditInv, Types, RowsSet, Scoring, Idle
<1>7. CASE Source
  <2>1. UNCHANGED << secs, env, hand, own, found >> /\ at = "source"
    BY <1>7, Zenon DEF Source
  <2>2. shell' \in { shell, env[tgt] } /\ shell' \in Row \union { Unset }
    BY <1>0, <1>7, Zenon DEF Source, Types
  <2>3. Backed(shell')
    BY <1>0, <2>2, Zenon DEF AllBacked
  <2>4. CASE at' = "failed" /\ UNCHANGED << tgt, row >>
    BY <1>0, <2>1, <2>2, <2>3, <2>4, Zenon DEF CreditInv, Types, RowsSet, Scoring, AllBacked, Backed,
                                        Reported
  <2>5. CASE /\ shell' # Unset /\ row' = [ row EXCEPT ![tgt] = shell' ]
             /\ IF SourceNext[tgt] # "end"
                THEN at' = at /\ tgt' = SourceNext[tgt]
                ELSE at' = "score" /\ tgt' = "sqlite"
    <3>1. \A t \in Targets : row'[t] = IF t = tgt THEN shell' ELSE row[t]
      BY <1>0, <2>5, Zenon DEF Types
    <3>2. AllBacked'
      BY <1>0, <2>1, <2>3, <3>1, ZenonT(60) DEF AllBacked, Backed, Reported
    <3>3. Types'
      BY <1>0, <2>1, <2>2, <2>5 DEF Types, SourceNext, Targets
    <3>4. RowsSet'
      BY <1>0, <2>1, <2>5, <3>1 DEF RowsSet, Scoring, Before, SourceNext, Targets
    <3>5. QED
      BY <3>2, <3>3, <3>4, Zenon DEF CreditInv
  <2>6. QED
    BY <1>7, <2>4, <2>5, Zenon DEF Source
<1>8. CASE Score \/ OpenResults \/ WriteResults
  <2>1. UNCHANGED << tgt, secs, env, shell, row, hand, own, found >> /\ Scoring /\ at' # "source"
    BY <1>8, Zenon DEF Score, OpenResults, WriteResults, Scoring
  <2>2. QED
    BY <1>0, <2>1, Zenon DEF CreditInv, Types, RowsSet, AllBacked, Backed, Reported
<1>9. CASE UNCHANGED vars
  BY <1>0, <1>9, Zenon DEF vars, CreditInv, Types, RowsSet, Scoring, AllBacked, Backed, Reported
<1>10. QED
  BY <1>1, <1>2, <1>3, <1>4, <1>5, <1>6, <1>7, <1>8, <1>9, Zenon DEF Next

\* Credit is real however benchmarks run by hand interleave with run_all.sh.
THEOREM CreditCorrect == Spec => []CreditIsReal
<1>1. CreditInv => CreditIsReal
  <2> SUFFICES ASSUME CreditInv, Scoring, NEW b \in Bugs, NEW f \in Columns,
                      is_found(extract_bug_time(b, f))
               PROVE  << f, b, extract_bug_time(b, f) >> \in found
    BY Zenon DEF CreditIsReal, Scoring
  <2> DEFINE r == row[TargetOf[b]]
  <2>1. TargetOf[b] \in Targets
    BY ConstantsAssumption DEF TargetOf, Targets
  <2>2. r \in Row /\ Reported(r) \subseteq found
    BY <2>1, Zenon DEF CreditInv, Types, RowsSet, AllBacked, Backed
  <2>3. extract_bug_time(b, f) = r.bugs[f][b] /\ r.bugs[f][b] \notin { not_found, Unlisted }
    BY Zenon DEF extract_bug_time, is_found
  <2>4. r.bugs[f][b] \in Times /\ TargetOf[b] = r.of
    BY <2>2, <2>3, RowFacts
  <2>5. << f, b, r.bugs[f][b] >> \in Reported(r)
    BY <2>4, Zenon DEF Reported
  <2>6. QED
    BY <2>2, <2>3, <2>5, Zenon
<1>2. QED
  BY InitCredit, NextCredit, <1>1, PTL DEF Spec
-----------------------------------------------------------------------------
(* Without overlap.                                                        *)

\* While run_all.sh runs no other benchmark does; the files it has written, and
\* later the rows it has read, are what its own benchmarks measured.
Kept(t) == env[t] = own[t] /\ own[t] \in RowOf(t)

OwnInv ==
    /\ at # "idle" => hand = Idle
    /\ at \in { "measure", "fill" } => \A t \in Before[tgt] : Kept(t)
    /\ at = "source" \/ Scoring => \A t \in Targets : Kept(t)
    /\ at = "source" => \A t \in Before[tgt] : row[t] = own[t]
    /\ Scoring => \A t \in Targets : row[t] = own[t]
    /\ at \in { "open", "write", "done" } =>
          /\ score = [ f \in Columns |-> Cardinality(Earned(f)) ]
          /\ best = IF score["lf"] >= score["ddf"] THEN "LibFuzzer" ELSE "DDFuzz"
    /\ results = "new" => at = "done"
    /\ at = "idle" => tgt = "sqlite"

\* What is counted is what the run's own benchmarks found.
LEMMA CountIsEarned ==
    ASSUME \A t \in Targets : row[t] = own[t] /\ own[t] \in RowOf(t), NEW f \in Columns
    PROVE  count_found(f) = Cardinality(Earned(f))
<1>1. ASSUME NEW b \in Bugs
      PROVE  is_found(extract_bug_time(b, f)) <=> own[TargetOf[b]].bugs[f][b] \in Times
  <2>1. TargetOf[b] \in Targets
    BY ConstantsAssumption DEF TargetOf, Targets
  <2>2. own[TargetOf[b]] \in Row /\ row[TargetOf[b]] = own[TargetOf[b]]
    BY <2>1, RowFacts, Zenon
  <2>3. own[TargetOf[b]].bugs[f][b] \in Times \union { not_found, Unlisted }
    BY <2>2, RowFacts, Zenon
  <2>4. not_found \notin Times /\ Unlisted \notin Times
    BY ConstantsAssumption DEF not_found, Unlisted
  <2>5. QED
    BY <2>2, <2>3, <2>4, Zenon DEF is_found, extract_bug_time
<1>2. { b \in Bugs : is_found(extract_bug_time(b, f)) } = Earned(f)
  BY <1>1, Zenon DEF Earned
<1>3. QED
  BY <1>2, Zenon DEF count_found

\* Nothing has happened yet.
LEMMA InitOwn == Init => OwnInv
BY Zenon DEF Init, OwnInv, Scoring

\* An overlap is not forgotten.
LEMMA OverlapStays == [Next]_vars /\ ~overlapped' => ~overlapped
BY Zenon DEF Next, Start, OpenEnv, FillEnv, Fail, HandStart, HandOpenEnv, HandFillEnv, HandFail, Source,
       Score, OpenResults, WriteResults, vars

\* Every step keeps the rows the run's own, if no benchmark overlaps it.
LEMMA NextOwn ==
    CreditInv /\ (~overlapped => OwnInv) /\ [Next]_vars => (~overlapped => OwnInv)'
<1> SUFFICES ASSUME CreditInv, OwnInv, [Next]_vars, ~overlapped' PROVE OwnInv'
  BY OverlapStays, Zenon
<1>0. /\ Types /\ tgt \in Targets
      /\ env \in [ Targets -> Row \union { Absent, Empty } ]
      /\ row \in [ Targets -> Row \union { Unset } ]
      /\ own \in [ Targets -> Row \union { Unset } ]
  BY Zenon DEF CreditInv, Types
<1>a. \A t \in Targets : Before[t] \subseteq Targets /\ t \notin Before[t]
  BY DEF Before, Targets
<1> USE DEF aggregate, driver, byhand
<1>1. CASE Start \/ Fail
  <2>1. UNCHANGED << tgt, secs, env, shell, row, score, best, results, hand, own >>
    BY <1>1, Zenon DEF Start, Fail
  <2>2. CASE Start
    <3>1. hand = Idle
      BY <2>2, Zenon DEF Start
    <3>2. QED
      BY <2>1, <2>2, <3>1 DEF Start, OwnInv, Scoring, Before
  <2>3. CASE Fail
    BY <2>1, <2>3, Zenon DEF Fail, OwnInv, Scoring
  <2>4. QED
    BY <1>1, <2>2, <2>3, Zenon
<1>2. CASE OpenEnv
  <2>1. /\ at = "measure" /\ at' = "fill"
        /\ UNCHANGED << tgt, row, score, best, results, hand, own >>
        /\ env' = [ env EXCEPT ![tgt] = Empty ]
    BY <1>2, Zenon DEF OpenEnv
  <2>2. \A t \in Before[tgt] : env'[t] = env[t]
    BY <1>0, <1>a, <2>1, Zenon
  <2>3. QED
    BY <1>0, <2>1, <2>2, Zenon DEF OwnInv, Kept, Scoring
<1>3. CASE FillEnv
  <2>1. PICK r \in RowOf(tgt) : /\ env' = [ env EXCEPT ![tgt] = r ]
                                /\ own' = [ own EXCEPT ![tgt] = r ]
    BY <1>3, Zenon DEF FillEnv
  <2>2. at = "fill" /\ UNCHANGED << row, score, best, results, hand >>
    BY <1>3, Zenon DEF FillEnv
  <2>3. \A t \in Before[tgt] \union { tgt } : Kept(t)'
    <3>1. env'[tgt] = r /\ own'[tgt] = r
      BY <1>0, <2>1, Zenon
    <3>2. \A t \in Before[tgt] : env'[t] = env[t] /\ own'[t] = own[t]
      BY <1>0, <1>a, <2>1, Zenon
    <3>3. QED
      BY <2>2, <3>1, <3>2, ZenonT(60) DEF OwnInv, Kept, RowOf
  <2>4. CASE BenchmarkNext[tgt] # "end"
    <3>1. at' = "measure" /\ Before[tgt'] = Before[tgt] \union { tgt }
      BY <1>0, <1>3, <2>4 DEF FillEnv, Before, BenchmarkNext, Targets
    <3>2. QED
      BY <2>2, <2>3, <3>1, Zenon DEF OwnInv, Scoring
  <2>5. CASE BenchmarkNext[tgt] = "end"
    <3>1. at' = "source" /\ tgt' = "sqlite" /\ Targets = Before[tgt] \union { tgt }
      BY <1>0, <1>3, <2>5 DEF FillEnv, Before, BenchmarkNext, Targets
    <3>2. QED
      BY <2>2, <2>3, <3>1, Zenon DEF OwnInv, Scoring, Before
  <2>6. QED
    BY <2>4, <2>5, Zenon
<1>4. CASE HandStart \/ HandOpenEnv \/ HandFillEnv \/ HandFail
  <2>1. UNCHANGED << at, tgt, row, score, best, results, own >>
    BY <1>4, Zenon DEF HandStart, HandOpenEnv, HandFillEnv, HandFail
  <2>2. at = "idle"
    <3>1. HandStart => at = "idle"
      BY Zenon DEF HandStart
    <3>2. QED
      BY <1>4, <3>1 DEF HandOpenEnv, HandFillEnv, HandFail, OwnInv, Idle
  <2>3. QED
    BY <2>1, <2>2, Zenon DEF OwnInv, Scoring
<1>5. CASE Source
  <2>1. /\ at = "source" /\ hand = Idle
        /\ UNCHANGED << env, score, best, results, hand, own >>
        /\ \A t \in Targets : Kept(t)
    BY <1>5, Zenon DEF Source, OwnInv
  <2>2. shell' = own[tgt] /\ env[tgt] # Absent /\ shell' # Unset
    <3>1. env[tgt] = own[tgt] /\ own[tgt] \in Row
      BY <1>0, <2>1, RowFacts, Zenon DEF Kept
    <3>2. QED
      BY <1>5, <3>1, RowFacts, Zenon DEF Source
  <2>3. /\ row' = [ row EXCEPT ![tgt] = own[tgt] ]
        /\ IF SourceNext[tgt] # "end"
           THEN at' = "source" /\ tgt' = SourceNext[tgt]
           ELSE at' = "score" /\ tgt' = "sqlite"
    BY <1>5, <2>1, <2>2, Zenon DEF Source
  <2>4. \A t \in Before[tgt] \union { tgt } : row'[t] = own[t]
    BY <1>0, <1>a, <2>1, <2>3, Zenon DEF OwnInv
  <2>5. CASE SourceNext[tgt] # "end"
    <3>1. at' = "source" /\ Before[tgt'] = Before[tgt] \union { tgt }
      BY <1>0, <2>3, <2>5 DEF Before, SourceNext, Targets
    <3>2. QED
      BY <2>1, <2>4, <3>1, Zenon DEF OwnInv, Kept, Scoring
  <2>6. CASE SourceNext[tgt] = "end"
    <3>1. at' = "score" /\ Targets = Before[tgt] \union { tgt }
      BY <1>0, <2>3, <2>6 DEF Before, SourceNext, Targets
    <3>2. QED
      BY <2>1, <2>4, <3>1, Zenon DEF OwnInv, Kept, Scoring
  <2>7. QED
    BY <2>5, <2>6, Zenon
<1>6. CASE Score
  <2>1. /\ at = "score" /\ at' = "open"
        /\ UNCHANGED << env, row, results, hand, own >>
        /\ score' = [ f \in Columns |-> count_found(f) ]
        /\ best' = IF score'["lf"] >= score'["ddf"] THEN "LibFuzzer" ELSE "DDFuzz"
    BY <1>6, Zenon DEF Score
  <2>2. \A t \in Targets : row[t] = own[t] /\ own[t] \in RowOf(t)
    BY <2>1, Zenon DEF OwnInv, Scoring, Kept
  <2>3. \A f \in Columns : count_found(f) = Cardinality(Earned(f))
    BY <2>2, CountIsEarned, Zenon
  <2>4. score' = [ f \in Columns |-> Cardinality(Earned(f)) ]
    BY <2>1, <2>3, Zenon
  <2>5. \A f \in Columns : Earned(f)' = Earned(f)
    BY <2>1, Zenon DEF Earned
  <2>6. score' = [ f \in Columns |-> Cardinality(Earned(f)') ]
    BY <2>4, <2>5, Zenon
  <2>7. QED
    BY <2>1, <2>2, <2>6, Zenon DEF OwnInv, Scoring, Kept
<1>7. CASE OpenResults \/ WriteResults
  <2>1. /\ UNCHANGED << env, row, score, best, hand, own >>
        /\ at \in { "open", "write" } /\ at' \in { "write", "done" }
        /\ results' = "new" => at' = "done"
    BY <1>7, Zenon DEF OpenResults, WriteResults
  <2>2. \A f \in Columns : Earned(f)' = Earned(f)
    BY <2>1, Zenon DEF Earned
  <2>3. score' = [ f \in Columns |-> Cardinality(Earned(f)') ]
    BY <2>1, <2>2, Zenon DEF OwnInv
  <2>4. QED
    BY <2>1, <2>3, Zenon DEF OwnInv, Scoring, Kept
<1>8. CASE UNCHANGED vars
  BY <1>8, Zenon DEF vars, OwnInv, Scoring, Kept, Earned
<1>9. QED
  BY <1>1, <1>2, <1>3, <1>4, <1>5, <1>6, <1>7, <1>8, Zenon DEF Next

\* If no benchmark overlaps run_all.sh, RESULTS.md shows its own measurements.
THEOREM RowsOwn == Spec => []RowsAreOwn
<1>1. (~overlapped => OwnInv) => RowsAreOwn
  BY Zenon DEF OwnInv, RowsAreOwn, Scoring, Kept, RowOf
<1>2. QED
  BY InitCredit, NextCredit, InitOwn, NextOwn, <1>1, PTL DEF Spec

\* If no benchmark overlaps run_all.sh, the scores count its own findings.
THEOREM ScoresEarned == Spec => []ScoresAreEarned
<1>1. (~overlapped => OwnInv) => ScoresAreEarned
  BY Zenon DEF OwnInv, ScoresAreEarned, Columns
<1>2. QED
  BY InitCredit, NextCredit, InitOwn, NextOwn, <1>1, PTL DEF Spec
-----------------------------------------------------------------------------
(* The refinement.                                                         *)

\* run_all.sh is under way.
Running == at \notin { "idle", "done", "failed" }

\* What is not measured yet, and what RESULTS.md is like meanwhile.
TableInv ==
    /\ at = "idle" => \A t \in Targets : own[t] = Unset
    /\ at \in { "measure", "fill" } => \A t \in Targets \ Before[tgt] : own[t] = Unset
    /\ at \notin { "write", "done", "failed" } => results = "old"
    /\ at = "write" => results = "empty"
    /\ at = "failed" => results # "new"

\* Only a benchmark of run_all.sh measures a target, each one once, and RESULTS.md
\* is opened after the last.
LEMMA NextTable == Types /\ TableInv /\ [Next]_vars => TableInv'
<1> SUFFICES ASSUME Types, TableInv, [Next]_vars PROVE TableInv'
  OBVIOUS
<1>0. tgt \in Targets /\ own \in [ Targets -> Row \union { Unset } ]
  BY Zenon DEF Types
<1> USE DEF TableInv, aggregate, driver, byhand
<1>1. CASE Start \/ Fail \/ OpenEnv
  BY <1>1, Zenon DEF Start, Fail, OpenEnv
<1>2. CASE FillEnv
  <2>1. PICK r : own' = [ own EXCEPT ![tgt] = r ]
    BY <1>2, Zenon DEF FillEnv
  <2>2. \A t \in Targets : t # tgt => own'[t] = own[t]
    BY <1>0, <2>1, Zenon
  <2>3. /\ at = "fill" /\ results' = results /\ at' \in { "measure", "source" }
        /\ at' = "measure" => tgt' = BenchmarkNext[tgt] /\ BenchmarkNext[tgt] # "end"
    BY <1>2, Zenon DEF FillEnv
  <2>4. at' = "measure" => Targets \ Before[tgt'] = (Targets \ Before[tgt]) \ { tgt }
    BY <1>0, <2>3 DEF BenchmarkNext, Before, Targets
  <2>5. QED
    BY <2>2, <2>3, <2>4, Zenon
<1>3. CASE HandStart \/ HandOpenEnv \/ HandFillEnv \/ HandFail
  BY <1>3, Zenon DEF HandStart, HandOpenEnv, HandFillEnv, HandFail
<1>4. CASE Source
  BY <1>4, Zenon DEF Source
<1>5. CASE Score \/ OpenResults \/ WriteResults
  BY <1>5, Zenon DEF Score, OpenResults, WriteResults
<1>6. CASE UNCHANGED vars
  BY <1>6, Zenon DEF vars
<1>7. QED
  BY <1>1, <1>2, <1>3, <1>4, <1>5, <1>6, Zenon DEF Next

\* A run under way is a table that has a file; it is complete once every target
\* has been measured.
LEMMA SessionFacts ==
    ASSUME CreditInv, Running
    PROVE  /\ Session # NoFile /\ Session.secs = secs
           /\ \A t \in Targets : Session.row[t] = Entry(own[t])
           /\ (\A t \in Targets : own[t] # Unset) => Publication!Complete
<1>1. Session = TableOf(own)
  BY Zenon DEF Session, Running
<1>2. Session # NoFile /\ Session.secs = secs /\ \A t \in Targets : Session.row[t] = Entry(own[t])
  BY <1>1, Zenon DEF TableOf, NoFile
<1>3. ASSUME \A t \in Targets : own[t] # Unset PROVE Publication!Complete
  <2>1. \A t \in Targets : Entry(own[t]).file = "whole" /\ NoFile.file = "none"
    BY <1>3, Zenon DEF Entry, NoFile
  <2>2. QED
    BY <1>2, <2>1, Zenon DEF Publication!Complete, Publication!UnderWay, Publication!NoFile, NoFile
<1>4. QED
  BY <1>2, <1>3, Zenon

\* run_all.sh starts: the run is open.
LEMMA StartOpens ==
    ASSUME CreditInv, TableInv, Start
    PROVE  Publication!Next
<1>1. /\ at = "idle" /\ at' = "measure" /\ secs' = secs /\ own' = own
      /\ results = "old" /\ results' = "old"
  BY Zenon DEF Start, TableInv, aggregate
<1>2. Session = NoFile /\ Session' = TableOf(own)
  BY <1>1, Zenon DEF Session, TableOf
<1>3. TableOf(own) = [ file |-> "whole", secs |-> secs, row |-> [ t \in Targets |-> NoFile ] ]
  BY <1>1, Zenon DEF TableOf, Entry, TableInv
<1>4. Published' = Published
  BY <1>1, Zenon DEF Published
<1>5. secs \in Durations
  BY Zenon DEF CreditInv, Types
<1>6. QED
  BY <1>2, <1>3, <1>4, <1>5, Zenon DEF Publication!Next, Publication!Open, Publication!UnderWay,
                                Publication!NoFile, NoFile

\* The benchmark of a target that completes its env file measures the target.
LEMMA FillMeasures ==
    ASSUME CreditInv, TableInv, FillEnv
    PROVE  Publication!Next
<1>0. /\ tgt \in Targets /\ own \in [ Targets -> Row \union { Unset } ]
      /\ at = "fill" /\ Running /\ Running' /\ UNCHANGED << secs, row, results >>
  BY Zenon DEF CreditInv, Types, FillEnv, Running, aggregate
<1>1. PICK r \in RowOf(tgt) : r.secs = secs /\ own' = [ own EXCEPT ![tgt] = r ]
  BY Zenon DEF FillEnv
<1>2. r \in Row /\ r # Unset
  BY <1>0, <1>1, RowFacts, Zenon
<1>3. Entry(r) \in Publication!Entry /\ Entry(r).row.secs = secs
  BY <1>1, <1>2, Zenon DEF Entry, Publication!Entry
<1>4. Session.row[tgt] = NoFile /\ Session # NoFile /\ Session.secs = secs
  <2>1. own[tgt] = Unset
    BY <1>0 DEF TableInv, Before, Targets
  <2>2. QED
    BY <1>0, <2>1, SessionFacts, Zenon DEF Entry
<1>5. Session' = [ Session EXCEPT !.row[tgt] = Entry(r) ]
  <2> DEFINE now  == [ t \in Targets |-> Entry(own[t]) ]
             then == [ t \in Targets |-> Entry(own'[t]) ]
  <2>1. then = [ now EXCEPT ![tgt] = Entry(r) ]
    BY <1>0, <1>1, Zenon
  <2>2. Session = [ file |-> "whole", secs |-> secs, row |-> now ]
    BY <1>0, Zenon DEF Session, Running, TableOf
  <2>3. Session' = [ file |-> "whole", secs |-> secs, row |-> then ]
    BY <1>0, Zenon DEF Session, Running, TableOf, Entry, NoFile
  <2> HIDE DEF now, then
  <2>4. QED
    BY <2>1, <2>2, <2>3
<1>6. Published' = Published
  BY <1>0, Zenon DEF Published, TableOf, Running, TableInv
<1>7. QED
  BY <1>0, <1>3, <1>4, <1>5, <1>6, Zenon DEF Publication!Next, Publication!Measure,
     Publication!UnderWay, Publication!NoFile, NoFile

\* A run_all.sh that fails abandons its run; the table is torn only if all had
\* been measured and RESULTS.md was open.
LEMMA FailAbandons ==
    ASSUME CreditInv, OwnInv, TableInv, Running, at' = "failed", UNCHANGED results
    PROVE  Publication!Next
<1>1. Session' = NoFile /\ Session # NoFile
  BY SessionFacts, Zenon DEF Session
<1>2. CASE at # "write"
  BY <1>1, <1>2, Zenon DEF Running, TableInv, Published, Publication!Next, Publication!Abandon,
                    Publication!UnderWay, Publication!NoFile, NoFile
<1>3. CASE at = "write"
  <2>1. Publication!Complete
    BY <1>3, SessionFacts, RowFacts, Zenon DEF OwnInv, Scoring, Kept
  <2>2. Published' = TornFile
    BY <1>3, Zenon DEF TableInv, Published
  <2>3. QED
    BY <1>1, <2>1, <2>2, Zenon DEF Publication!Next, Publication!Abandon, Publication!Complete,
                            Publication!NoFile, NoFile, Publication!TornFile, TornFile
<1>4. QED
  BY <1>2, <1>3, Zenon

\* What is written to RESULTS.md is what the run has measured.
LEMMA WritePublishes ==
    ASSUME CreditInv, OwnInv, WriteResults
    PROVE  Publication!Next
<1>1. /\ at = "write" /\ Running /\ at' = "done" /\ results' = "new"
      /\ UNCHANGED << secs, row, own >>
  BY Zenon DEF WriteResults, Running
<1>2. \A t \in Targets : row[t] = own[t] /\ own[t] # Unset
  BY <1>1, RowFacts, Zenon DEF OwnInv, Scoring, Kept
<1>3. Publication!Complete
  BY <1>1, <1>2, SessionFacts, Zenon
<1>4. Session' = NoFile /\ Published' = TableOf(row)
  BY <1>1, Zenon DEF Session, Published, TableOf, Entry, NoFile
<1>5. Session = TableOf(row)
  BY <1>1, <1>2, Zenon DEF Session, Running, TableOf
<1>6. QED
  BY <1>3, <1>4, <1>5, Zenon DEF Publication!Next, Publication!Publish, Publication!NoFile, NoFile

\* Every step without overlap is a step of ResultsTable, or changes nothing there.
LEMMA StepRefines ==
    CreditInv /\ OwnInv /\ TableInv /\ TableInv' /\ Next =>
        UNCHANGED Publication!vars \/ Publication!Next
<1> SUFFICES ASSUME CreditInv, OwnInv, TableInv, TableInv', Next
             PROVE  UNCHANGED Publication!vars \/ Publication!Next
  OBVIOUS
<1> USE DEF aggregate, driver
<1>1. CASE Start
  BY <1>1, StartOpens, Zenon
<1>2. CASE FillEnv
  BY <1>2, FillMeasures, Zenon
<1>3. CASE Fail
  BY <1>3, FailAbandons, Zenon DEF Fail, Running
<1>4. CASE WriteResults
  BY <1>4, WritePublishes, Zenon
<1>5. CASE HandStart \/ HandOpenEnv \/ HandFillEnv \/ HandFail
  <2>1. UNCHANGED << at, secs, row, results, own >>
    BY <1>5, Zenon DEF HandStart, HandOpenEnv, HandFillEnv, HandFail
  <2>2. QED
    BY <2>1, Zenon DEF Publication!vars, Session, Published, TableOf
<1>6. CASE OpenEnv \/ Score \/ OpenResults
  <2>1. /\ UNCHANGED << secs, row, own >> /\ Running /\ Running'
        /\ at # "failed" /\ at' # "failed" /\ results # "new" /\ results' # "new"
    BY <1>6, Zenon DEF OpenEnv, Score, OpenResults, Running, TableInv
  <2>2. QED
    BY <2>1, Zenon DEF Publication!vars, Session, Published, TableOf, Running
<1>7. CASE Source
  <2>1. /\ at = "source" /\ Running /\ UNCHANGED << secs, own, results >> /\ results = "old"
        /\ at' \in { "failed", "source", "score" }
    BY <1>7, Zenon DEF Source, Running, TableInv
  <2>2. CASE at' = "failed"
    BY <2>1, <2>2, FailAbandons, Zenon
  <2>3. CASE at' # "failed"
    BY <2>1, <2>3, Zenon DEF Publication!vars, Session, Published, TableOf
  <2>4. QED
    BY <2>2, <2>3, Zenon
<1>8. QED
  BY <1>1, <1>2, <1>3, <1>4, <1>5, <1>6, <1>7, Zenon DEF Next

\* As long as no benchmark is run beside it, run_all.sh implements ResultsTable
\* down to the env files and the shell variables, for every set of bugs, times
\* and durations and any number of benchmarks run by hand before it.
THEOREM OwnTable == Spec => OwnRowsReachTheTable
<1>1. Init => Publication!Init /\ TableInv
  BY Zenon DEF Init, Publication!Init, Session, Published, Publication!NoFile, NoFile, TableInv
<1>2. CreditInv /\ TableInv /\ [Next]_vars => TableInv'
  BY NextTable, Zenon DEF CreditInv
<1>3. CreditInv /\ (~overlapped => OwnInv) /\ TableInv /\ TableInv' /\ [Next]_vars
        => [ ~overlapped' => UNCHANGED Publication!vars \/ Publication!Next ]_vars
  BY OverlapStays, StepRefines, Zenon
<1>4. QED
  BY <1>1, <1>2, <1>3, InitCredit, NextCredit, InitOwn, NextOwn, PTL
     DEF Spec, OwnRowsReachTheTable
=============================================================================
