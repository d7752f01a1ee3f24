-------------------------- MODULE BenchmarkProofs --------------------------
(***************************************************************************)
(* The invariants of the benchmark scripts, for any number of invocations, *)
(* seconds and versions of the sources.                                    *)
(*                                                                         *)
(* A step that is first-order logic names Zenon; the others need sets of   *)
(* records, functions or numbers and are left to SMT.                      *)
(***************************************************************************)
EXTENDS Benchmark, TLAPS

\* The steps of an invocation that has its coverage binary.
Past == { "lf", "wf_seeds", "wf", "ddf", "triage", "cov_lf", "cov_wf", "cov_ddf",
          "open_env", "write_env" }

Ended == { "done", "stopped" }

Labels == Past \union Over \union { "check_bins", "coverage_binary", "link", "finish_link" }

Types == TypeOK /\ pc \in [ Runs -> Labels ]

LEMMA InitTypes == Init => Types
<1> SUFFICES ASSUME Init PROVE Types  OBVIOUS
<1> USE ConstantsAssumption DEF Init
<1>1. clock \in 0..MaxClock /\ source \in Versions  BY DEF Versions
<1>2. bins \subseteq Fuzzers  BY Zenon DEF Fuzzers
<1>3. started \in [ Runs -> 0..MaxClock ]  OBVIOUS
<1>4. dir \in [ 0..MaxClock -> [ Places -> SUBSET (Runs \X Kinds) ] ]  OBVIOUS
<1>5. pc \in [ Runs -> Labels ]  BY Zenon DEF Labels, Over
<1>6. errors \in 0..MaxErrors  OBVIOUS
<1> QED  BY <1>1, <1>2, <1>3, <1>4, <1>5, <1>6, Zenon DEF Types, TypeOK

Dirs == [ 0..MaxClock -> [ Places -> SUBSET (Runs \X Kinds) ] ]

AddTo(d, s, p, e) == [ d EXCEPT ![s][p] = @ \union e ]

\* Files added to a directory: only that directory changes.
LEMMA AddFacts ==
    ASSUME NEW d \in Dirs, NEW s \in 0..MaxClock, NEW p \in Places,
           NEW e \in SUBSET (Runs \X Kinds)
    PROVE  /\ AddTo(d, s, p, e) \in Dirs
           /\ \A t \in 0..MaxClock, q \in Places :
                 AddTo(d, s, p, e)[t][q] = IF t = s /\ q = p THEN d[t][q] \union e ELSE d[t][q]
<1> DEFINE D == SUBSET (Runs \X Kinds)
           n == [ d EXCEPT ![s][p] = d[s][p] \union e ]
<1>1. d \in [ 0..MaxClock -> [ Places -> D ] ]  BY Zenon DEF Dirs
<1>2. d[s][p] \union e \in D  BY <1>1, ZenonT(60)
<1> HIDE DEF D
<1>3. n \in [ 0..MaxClock -> [ Places -> D ] ]  BY <1>1, <1>2, Zenon
<1>4. \A t \in 0..MaxClock, q \in Places :
         n[t][q] = IF t = s /\ q = p THEN d[t][q] \union e ELSE d[t][q]
  BY <1>1, Zenon
<1>5. AddTo(d, s, p, e) = n  BY Zenon DEF AddTo
<1> HIDE DEF n
<1> QED  BY <1>3, <1>4, <1>5, Zenon DEF D, Dirs

\* What the phases do to the files of an invocation's own directory: an
\* invocation adds its own files there, and nothing elsewhere.
LEMMA PhaseFacts ==
    ASSUME Types, NEW r \in Runs, LibFuzzer(r) \/ WingFuzz(r) \/ DDFuzz(r)
    PROVE  /\ dir' \in Dirs
           /\ \A t \in 0..MaxClock, q \in Places :
                 /\ dir[t][q] \subseteq dir'[t][q]
                 /\ \A x \in dir'[t][q] \ dir[t][q] : t = started[r] /\ x[1] = r
<1> DEFINE s == started[r]
           Ok(d) == /\ d \in Dirs
                    /\ \A t \in 0..MaxClock, q \in Places :
                          /\ dir[t][q] \subseteq d[t][q]
                          /\ \A x \in d[t][q] \ dir[t][q] : t = s /\ x[1] = r
<1>1. dir \in Dirs /\ s \in 0..MaxClock  BY Zenon DEF Types, TypeOK, Dirs
<1>2. ASSUME NEW d, Ok(d), NEW p \in Places, NEW k \in SUBSET Kinds
      PROVE  Ok(AddTo(d, s, p, { r } \X k))
  <2> DEFINE e == { r } \X k
             n == AddTo(d, s, p, e)
  <2>1. e \in SUBSET (Runs \X Kinds) /\ (\A x \in e : x[1] = r /\ x[2] \in k)  OBVIOUS
  <2>2. /\ n \in Dirs
        /\ \A t \in 0..MaxClock, q \in Places :
              n[t][q] = IF t = s /\ q = p THEN d[t][q] \union e ELSE d[t][q]
    <3>1. d \in Dirs /\ p \in Places /\ s \in 0..MaxClock  BY <1>1, <1>2, Zenon
    <3>2. e \in SUBSET (Runs \X Kinds)  BY <2>1, Zenon
    <3> HIDE DEF e, s, Ok
    <3> QED  BY ONLY <3>1, <3>2, AddFacts
  <2> HIDE DEF n, e, s
  <2>3. ASSUME NEW t \in 0..MaxClock, NEW q \in Places
        PROVE  /\ dir[t][q] \subseteq n[t][q]
               /\ \A x \in n[t][q] \ dir[t][q] : t = s /\ x[1] = r
    <3>1. n[t][q] = d[t][q] \/ (t = s /\ q = p /\ n[t][q] = d[t][q] \union e)  BY <2>2, Zenon
    <3>2. /\ dir[t][q] \subseteq d[t][q]
          /\ \A x \in d[t][q] \ dir[t][q] : t = s /\ x[1] = r
      BY <1>2, Zenon
    <3> QED  BY ONLY <1>2, <2>1, <3>1, <3>2, Zenon
  <2>4. Ok(n)  BY <2>2, <2>3, Zenon
  <2> QED  BY <2>4, Zenon DEF n, e, s
<1>3. Ok(dir)  BY <1>1, Zenon
<1>4. CASE LibFuzzer(r)
  <2>1. PICK k \in SUBSET May("lf") : dir' = AddTo(dir, s, "lf_corpus", { r } \X k)
    BY <1>4, Zenon DEF LibFuzzer, Add, AddTo, RunId
  <2>2. k \in SUBSET Kinds  BY Zenon DEF May
  <2> HIDE DEF Ok, s
  <2>3. Ok(dir')  BY <1>2, <1>3, <2>1, <2>2, Zenon DEF Places
  <2> QED  BY <2>3, Zenon DEF Ok, s
<1>5. CASE WingFuzz(r)
  <2>1. PICK u \in SUBSET (May("wf") \ { "crash" }), c \in SUBSET (May("wf") \ { "unit" }) :
           dir' = [ dir EXCEPT ![s]["wf_corpus"] = @ \union ({ r } \X u),
                               ![s]["wf_crashes"] = @ \union ({ r } \X c) ]
    BY <1>5, Zenon DEF WingFuzz, RunId
  <2>2. u \in SUBSET Kinds /\ c \in SUBSET Kinds
    BY Zenon DEF May, Kinds
  <2> DEFINE d1 == AddTo(dir, s, "wf_corpus", { r } \X u)
  <2>3. dir' = AddTo(d1, s, "wf_crashes", { r } \X c)
    BY <2>1, Zenon DEF AddTo
  <2> HIDE DEF Ok, s
  <2>4. Ok(d1)  BY <1>2, <1>3, <2>2, Zenon DEF Places
  <2> HIDE DEF d1
  <2>5. Ok(dir')  BY <1>2, <2>2, <2>3, <2>4, Zenon DEF Places
  <2> QED  BY <2>5, Zenon DEF Ok, s
<1>6. CASE DDFuzz(r)
  <2>1. CASE UNCHANGED dir  BY <1>3, <2>1, Zenon
  <2>2. CASE ~UNCHANGED dir
    <3>1. PICK u \in SUBSET (May("ddf") \ { "crash" }), c \in SUBSET (May("ddf") \ { "unit" }) :
             dir' = [ dir EXCEPT ![s]["queue"] = @ \union ({ r } \X (u \union { "seed" })),
                                 ![s]["crashes"] = @ \union ({ r } \X c) ]
      BY <1>6, <2>2, Zenon DEF DDFuzz, RunId
    <3> DEFINE k == u \union { "seed" }
               d1 == AddTo(dir, s, "queue", { r } \X k)
    <3>2. c \in SUBSET Kinds /\ k \in SUBSET Kinds  BY Zenon DEF May, Kinds
    <3>3. dir' = AddTo(d1, s, "crashes", { r } \X c)  BY <3>1, ZenonT(60) DEF AddTo
    <3> HIDE DEF k
    <3> HIDE DEF Ok, s
    <3>4. Ok(d1)  BY <1>2, <1>3, <3>2, Zenon DEF Places
    <3> HIDE DEF d1
    <3>5. Ok(dir')  BY <1>2, <3>2, <3>3, <3>4, Zenon DEF Places
    <3> QED  BY <3>5, Zenon DEF Ok, s
  <2> QED  BY <2>1, <2>2, Zenon
<1> QED  BY <1>4, <1>5, <1>6, Zenon

\* What a phase adds, it adds to the directory of its second and in its name.
LEMMA OnlyOwnFiles ==
    ASSUME Types, NEW r \in Runs, LibFuzzer(r) \/ WingFuzz(r) \/ DDFuzz(r),
           NEW s \in 0..MaxClock, NEW p \in Places, NEW x \in dir'[s][p], x \notin dir[s][p]
    PROVE  s = started[r] /\ x[1] = r
<1>1. \A y \in dir'[s][p] \ dir[s][p] : s = started[r] /\ y[1] = r  BY PhaseFacts
<1> QED  BY <1>1, Zenon

\* What a replay of some files yields, and what a measurement does to the row.
Values == Versions \union { NA, NoFiles, NoProfile, ToolError }

Measured(v) ==
    /\ v \in { NoProfile, ToolError } \/ (v = covBin /\ covBin \in Versions)
    /\ v = ToolError => errors < MaxErrors

LEMMA FigureValues ==
    /\ \A v \in Versions : v \notin { NA, NoFiles, NoProfile, ToolError }
    /\ NoFiles \notin { NA, NoProfile, ToolError }
    /\ ToolError # NoProfile
BY ConstantsAssumption DEF Versions, NA, NoFiles, NoProfile, ToolError

LEMMA FiguresFacts ==
    ASSUME NEW b \in BOOLEAN, NEW v \in Figures(TRUE, b)
    PROVE  /\ Measured(v)
           /\ b => v = ToolError \/ v = covBin \/ covBin \notin Versions
<1>1. CASE covBin \notin Versions  BY <1>1, FigureValues, Zenon DEF Measured, Figures
<1>2. CASE covBin \in Versions  BY <1>2, FigureValues, Zenon DEF Measured, Figures
<1> QED  BY <1>1, <1>2, Zenon

LEMMA ReplayFacts ==
    /\ \A files : files # {} => \A v \in Replay(files) : Measured(v)
    /\ \A v \in ReplaySeeds : Measured(v)
    /\ \A s : s # "none" => \A v \in ReplaySafe(s) : Measured(v)
<1>1. ASSUME NEW files, files # {}, NEW v \in Replay(files) PROVE Measured(v)
  <2>1. v \in Figures(TRUE, \E q \in Runs : << q, "unit" >> \in files)  BY <1>1, Zenon DEF Replay
  <2> QED  BY <2>1, FiguresFacts, Zenon
<1>2. ASSUME NEW v \in ReplaySeeds PROVE Measured(v)
  BY <1>2, FiguresFacts, Zenon DEF ReplaySeeds
<1>3. ASSUME NEW s, s # "none", NEW v \in ReplaySafe(s) PROVE Measured(v)
  <2>1. v \in Figures(TRUE, FALSE)  BY <1>3, Zenon DEF ReplaySafe
  <2> QED  BY <2>1, FiguresFacts, Zenon
<1> QED  BY <1>1, <1>2, <1>3, Zenon

\* What a replay of no file yields.
LEMMA NothingReplayed ==
    ASSUME NEW b, NEW v \in Figures(FALSE, b)
    PROVE  v = NoFiles
BY Zenon DEF Figures

SetRow(r, f, v) == [ cov EXCEPT ![r][f] = v ]

LEMMA CovFacts ==
    ASSUME Types, NEW r \in Runs, NEW f \in Fuzzers, NEW v \in Values, cov' = SetRow(r, f, v)
    PROVE  /\ cov' \in [ Runs -> [ Fuzzers -> Values ] ]
           /\ cov'[r][f] = v
           /\ \A q \in Runs, g \in Fuzzers : q # r \/ g # f => cov'[q][g] = cov[q][g]
<1>1. cov \in [ Runs -> [ Fuzzers -> Values ] ]  BY Zenon DEF Types, TypeOK, Values
<1>. USE DEF SetRow
<1>2. cov' \in [ Runs -> [ Fuzzers -> Values ] ]  BY <1>1, Zenon
<1>3. cov'[r][f] = v  BY <1>1, Zenon
<1>4. \A q \in Runs, g \in Fuzzers : q # r \/ g # f => cov'[q][g] = cov[q][g]  BY <1>1, Zenon
<1> QED  BY <1>2, <1>3, <1>4, Zenon

\* Which step measures a fuzzer's corpus.
Measures(r, f) ==
    \/ f = "lf" /\ MeasureLibFuzzer(r)
    \/ f = "wf" /\ MeasureWingFuzz(r)
    \/ f = "ddf" /\ MeasureDDFuzz(r)

\* A measurement leaves the row as it is, or enters one figure.  It is measured
\* unless WingFuzz has nothing to replay.
LEMMA RowFacts ==
    ASSUME Types, NEW r \in Runs, NEW f \in Fuzzers, Measures(r, f)
    PROVE  \/ f = "ddf" /\ UNCHANGED << cov, errors >>
           \/ \E v \in Values : /\ cov' = SetRow(r, f, v)
                                /\ errors' = IF v = ToolError THEN errors + 1 ELSE errors
                                /\ \/ Measured(v)
                                   \/ f = "wf" /\ safe[started[r]] = "none" /\ v = NoFiles
<1>1. \A v : Measured(v) \/ v = NoFiles => v \in Values  BY Zenon DEF Measured, Values
<1>2. CASE f = "lf" /\ MeasureLibFuzzer(r)
  <2>1. PICK v : /\ cov' = SetRow(r, f, v) /\ errors' = IF v = ToolError THEN errors + 1 ELSE errors
                 /\ Measured(v)
    BY <1>2, ReplayFacts, Zenon DEF MeasureLibFuzzer, SetCov, SetRow
  <2> QED  BY <1>1, <2>1, Zenon
<1>3. CASE f = "wf" /\ MeasureWingFuzz(r)
  <2>1. PICK v : /\ cov' = SetRow(r, f, v) /\ errors' = IF v = ToolError THEN errors + 1 ELSE errors
                 /\ Measured(v) \/ (safe[started[r]] = "none" /\ v = NoFiles)
    <3>1. \A v \in ReplaySafe(safe[started[r]]) :
             Measured(v) \/ (safe[started[r]] = "none" /\ v = NoFiles)
      <4>1. CASE safe[started[r]] # "none"  BY <4>1, ReplayFacts, Zenon
      <4>2. CASE safe[started[r]] = "none"  BY <4>2, Zenon DEF ReplaySafe, Figures
      <4> QED  BY <4>1, <4>2, Zenon
    <3> QED  BY <1>3, <3>1, ReplayFacts, Zenon DEF MeasureWingFuzz, SetCov, SetRow, RunId
  <2> QED  BY <1>1, <1>3, <2>1, Zenon
<1>4. CASE f = "ddf" /\ MeasureDDFuzz(r) /\ ~UNCHANGED << cov, errors >>
  <2>1. PICK v : /\ cov' = SetRow(r, f, v) /\ errors' = IF v = ToolError THEN errors + 1 ELSE errors
                 /\ Measured(v)
    BY <1>4, ReplayFacts, Zenon DEF MeasureDDFuzz, SetCov, SetRow
  <2> QED  BY <1>1, <2>1, Zenon
<1> QED  BY <1>2, <1>3, <1>4, Zenon DEF Measures

\* The three measurements.
LEMMA MeasureFacts ==
    ASSUME Types, NEW r \in Runs,
           MeasureLibFuzzer(r) \/ MeasureWingFuzz(r) \/ MeasureDDFuzz(r)
    PROVE  /\ cov' \in [ Runs -> [ Fuzzers -> Values ] ] /\ errors' \in 0..MaxErrors
           /\ \A q \in Runs, g \in Fuzzers :
                 \/ cov'[q][g] = cov[q][g]
                 \/ Measures(r, g) /\ q = r /\ Measured(cov'[q][g])
                 \/ MeasureWingFuzz(r) /\ q = r /\ safe[started[r]] = "none" /\ cov'[q][g] = NoFiles
<1>1. PICK f \in Fuzzers : Measures(r, f)  BY Zenon DEF Measures, Fuzzers
<1>2. CASE UNCHANGED << cov, errors >>  BY <1>2, Zenon DEF Types, TypeOK, Values
<1>3. CASE ~UNCHANGED << cov, errors >>
  <2>1. PICK v \in Values : /\ cov' = SetRow(r, f, v)
                            /\ errors' = IF v = ToolError THEN errors + 1 ELSE errors
                            /\ \/ Measured(v)
                               \/ f = "wf" /\ safe[started[r]] = "none" /\ v = NoFiles
    BY <1>1, <1>3, RowFacts, Zenon
  <2>2. errors' \in 0..MaxErrors
    <3>1. v = ToolError => errors < MaxErrors  BY <2>1, FigureValues, Zenon DEF Measured
    <3>2. errors \in 0..MaxErrors  BY Zenon DEF Types, TypeOK
    <3> QED  BY <2>1, <3>1, <3>2, ConstantsAssumption
  <2>3. /\ cov' \in [ Runs -> [ Fuzzers -> Values ] ]
        /\ cov'[r][f] = v
        /\ \A q \in Runs, g \in Fuzzers : q # r \/ g # f => cov'[q][g] = cov[q][g]
    BY <2>1, CovFacts, Zenon
  <2>4. f = "wf" => MeasureWingFuzz(r)  BY <1>1, Zenon DEF Measures
  <2> QED  BY <1>1, <2>1, <2>2, <2>3, <2>4, Zenon
<1> QED  BY <1>2, <1>3, Zenon

\* The end of a script: its own variables are reset, those of others stay.
LEMMA EndFacts ==
    ASSUME Types, NEW r \in Runs, NEW how \in Ended, End(r, how)
    PROVE  /\ pc' = [ pc EXCEPT ![r] = how ] /\ pc'[r] = how /\ pc' \in [ Runs -> Labels ]
           /\ has_ddfuzz' \in [ Runs -> BOOLEAN ]
           /\ built' \in [ Runs -> Versions \union { Absent } ]
           /\ bugs' \in [ Runs -> SUBSET Runs ] /\ bugs'[r] = {}
           /\ cov' \in [ Runs -> [ Fuzzers -> Values ] ] /\ started' = started
           /\ \A f \in Fuzzers : cov'[r][f] = NA
           /\ \A q \in Runs : q # r => /\ pc'[q] = pc[q] /\ has_ddfuzz'[q] = has_ddfuzz[q]
                                       /\ built'[q] = built[q] /\ bugs'[q] = bugs[q]
                                       /\ cov'[q] = cov[q]
<1> USE DEF End, Goto, Types, TypeOK
<1>1. how \in Labels  BY Zenon DEF Ended, Labels, Over
<1>2. cov' \in [ Runs -> [ Fuzzers -> Values ] ]
  <2>1. [ f \in Fuzzers |-> NA ] \in [ Fuzzers -> Values ]  BY Zenon DEF Values
  <2>2. cov \in [ Runs -> [ Fuzzers -> Values ] ]  BY Zenon DEF Values
  <2> QED  BY <2>1, <2>2, Zenon
<1> QED  BY <1>1, <1>2, ZenonT(60)

\* Which steps end a script.
Ends(r) == (\E how \in Ended : End(r, how)) /\ UNCHANGED << world, covBin, dir, safe, errors, overlapped >>

LEMMA WhoEnds ==
    ASSUME NEW r \in Runs
    PROVE  /\ check_bins(r) => Ends(r) \/ (/\ Goto(r, "coverage_binary")
                                           /\ UNCHANGED << started, built, bugs, cov >>)
           /\ WriteEnv(r) => Ends(r)
           /\ Stop(r) => Ends(r)
BY Zenon DEF check_bins, WriteEnv, Stop, Ends, Ended

LEMMA NextTypes == Types /\ [Next]_vars => Types'
<1> SUFFICES ASSUME Types, [Next]_vars PROVE Types'  OBVIOUS
<1> USE ConstantsAssumption DEF Types, TypeOK, Goto, world, local, RunId, Values
<1>1. ASSUME NEW r \in Runs, Start(r) PROVE Types'
  BY <1>1, Zenon DEF Start, Labels
<1>2. ASSUME NEW r \in Runs, check_bins(r) PROVE Types'
  <2>1. CASE Ends(r)  BY <1>2, <2>1, EndFacts, ZenonT(60) DEF check_bins, Ends
  <2>2. CASE ~Ends(r)
    <3>1. Goto(r, "coverage_binary") /\ UNCHANGED << started, built, bugs, cov >>
      BY <1>2, <2>2, WhoEnds, Zenon
    <3>2. has_ddfuzz' \in [ Runs -> BOOLEAN ]
      <4>1. \E b \in BOOLEAN : has_ddfuzz' = [ has_ddfuzz EXCEPT ![r] = b ]
        BY <1>2, Zenon DEF check_bins, End
      <4> QED  BY <4>1, Zenon
    <3> QED  BY <1>2, <3>1, <3>2, Zenon DEF check_bins, Labels
  <2> QED  BY <2>1, <2>2, Zenon
<1>3. ASSUME NEW r \in Runs, build_coverage_binary(r) PROVE Types'
  <2>1. built' \in [ Runs -> Versions \union { Absent } ]  BY <1>3, Zenon DEF build_coverage_binary
  <2>2. pc' \in [ Runs -> Labels ]  BY <1>3, Zenon DEF build_coverage_binary, Labels, Over, Past
  <2> QED  BY <1>3, <2>1, <2>2, Zenon DEF build_coverage_binary
<1>4. ASSUME NEW r \in Runs, OpenLink(r) PROVE Types'
  BY <1>4, Zenon DEF OpenLink, Labels
<1>5. ASSUME NEW r \in Runs, FinishLink(r) PROVE Types'
  <2>1. covBin' \in Versions \union { Absent, Torn }  BY <1>5, Zenon DEF FinishLink
  <2>2. built' \in [ Runs -> Versions \union { Absent } ]  BY <1>5, Zenon DEF FinishLink
  <2> QED  BY <1>5, <2>1, <2>2, Zenon DEF FinishLink, Labels, Past
<1>6. ASSUME NEW r \in Runs, LibFuzzer(r) PROVE Types'
  <2>1. pc' \in [ Runs -> Labels ]  BY <1>6, Zenon DEF LibFuzzer, Labels, Past
  <2>2. dir' \in Dirs  BY <1>6, PhaseFacts, Zenon
  <2> QED  BY <1>6, <2>1, <2>2, Zenon DEF LibFuzzer, Dirs
<1>7. ASSUME NEW r \in Runs, PrefilterSeeds(r) PROVE Types'
  BY <1>7, Zenon DEF PrefilterSeeds, Labels, Past
<1>8. ASSUME NEW r \in Runs, WingFuzz(r) PROVE Types'
  <2>1. pc' \in [ Runs -> Labels ]  BY <1>8, Zenon DEF WingFuzz, Labels, Past
  <2>2. dir' \in Dirs  BY <1>8, PhaseFacts, Zenon
  <2> QED  BY <1>8, <2>1, <2>2, Zenon DEF WingFuzz, Dirs
<1>9. ASSUME NEW r \in Runs, DDFuzz(r) PROVE Types'
  <2>1. pc' \in [ Runs -> Labels ]  BY <1>9, Zenon DEF DDFuzz, Labels, Past
  <2>2. dir' \in Dirs  BY <1>9, PhaseFacts, Zenon
  <2> QED  BY <1>9, <2>1, <2>2, Zenon DEF DDFuzz, Dirs
<1>10. ASSUME NEW r \in Runs, Triage(r) PROVE Types'
  BY <1>10, Zenon DEF Triage, Labels, Past
<1>11. ASSUME NEW r \in Runs, MeasureLibFuzzer(r) PROVE Types'
  <2>1. pc' \in [ Runs -> Labels ]  BY <1>11, Zenon DEF MeasureLibFuzzer, Labels, Past
  <2>2. cov' \in [ Runs -> [ Fuzzers -> Values ] ] /\ errors' \in 0..MaxErrors  BY <1>11, MeasureFacts, Zenon
  <2> QED  BY <1>11, <2>1, <2>2, Zenon DEF MeasureLibFuzzer, Dirs
<1>12. ASSUME NEW r \in Runs, MeasureWingFuzz(r) PROVE Types'
  <2>1. pc' \in [ Runs -> Labels ]  BY <1>12, Zenon DEF MeasureWingFuzz, Labels, Past
  <2>2. cov' \in [ Runs -> [ Fuzzers -> Values ] ] /\ errors' \in 0..MaxErrors  BY <1>12, MeasureFacts, Zenon
  <2> QED  BY <1>12, <2>1, <2>2, Zenon DEF MeasureWingFuzz, Dirs
<1>13. ASSUME NEW r \in Runs, MeasureDDFuzz(r) PROVE Types'
  <2>1. pc' \in [ Runs -> Labels ]  BY <1>13, Zenon DEF MeasureDDFuzz, Labels, Past
  <2>2. cov' \in [ Runs -> [ Fuzzers -> Values ] ] /\ errors' \in 0..MaxErrors  BY <1>13, MeasureFacts, Zenon
  <2> QED  BY <1>13, <2>1, <2>2, Zenon DEF MeasureDDFuzz, Dirs
<1>14. ASSUME NEW r \in Runs, OpenEnv(r) PROVE Types'
  BY <1>14, Zenon DEF OpenEnv, Labels, Past
<1>15. ASSUME NEW r \in Runs, WriteEnv(r) PROVE Types'
  <2>1. PICK how \in Ended : End(r, how)  BY <1>15, Zenon DEF WriteEnv, Ended
  <2> QED  BY <1>15, <2>1, EndFacts, ZenonT(60) DEF WriteEnv
<1>16. ASSUME NEW r \in Runs, Stop(r) PROVE Types'
  <2>1. PICK how \in Ended : End(r, how)  BY <1>16, Zenon DEF Stop, Ended
  <2> QED  BY <1>16, <2>1, EndFacts, ZenonT(60) DEF Stop
<1>17. CASE Tick \/ EditSource \/ LoseImage
  <2>1. clock' \in 0..MaxClock  BY <1>17 DEF Tick, EditSource, LoseImage
  <2>2. source' \in Versions  BY <1>17 DEF Tick, EditSource, LoseImage, Versions
  <2> QED  BY <1>17, <2>1, <2>2, Zenon DEF Tick, EditSource, LoseImage
<1>18. CASE UNCHANGED vars
  BY <1>18, Zenon DEF vars
<1> QED
  BY <1>1, <1>2, <1>3, <1>4, <1>5, <1>6, <1>7, <1>8, <1>9, <1>10, <1>11, <1>12, <1>13,
     <1>14, <1>15, <1>16, <1>17, <1>18, Zenon DEF Next, Continue

(* Every variable of a benchmark script keeps its type; in particular no    *)
(* coverage figure comes from a coverage binary that was cut off.           *)
THEOREM TypesCorrect == Spec => []TypeOK
<1>1. Types => TypeOK  BY Zenon DEF Types
<1> QED  BY <1>1, InitTypes, NextTypes, PTL DEF Spec

-----------------------------------------------------------------------------
\* Whose files are where: those of an invocation are in the directory of the
\* second it started in, and what it reports comes from there.
OwnInv ==
    /\ \A s \in 0..MaxClock, p \in Places : \A x \in dir[s][p] :
          pc[x[1]] # "none" /\ started[x[1]] = s
    /\ \A r \in Runs : \A q \in bugs[r] :
          pc[r] # "none" /\ pc[q] # "none" /\ started[q] = started[r]

LEMMA InitOwn == Init => OwnInv
BY DEF Init, OwnInv

\* A step after the start of an invocation leaves the second it started in and
\* never makes it one that has not started.
LEMMA StartedOnce ==
    ASSUME Types, [Next]_vars
    PROVE  \A q \in Runs : pc[q] # "none" => pc'[q] # "none" /\ started'[q] = started[q]
<1> USE DEF Types, TypeOK, Goto, world, local
<1>1. ASSUME NEW r \in Runs, Start(r)
      PROVE  \A q \in Runs : pc[q] # "none" => pc'[q] # "none" /\ started'[q] = started[q]
  BY <1>1, Zenon DEF Start
<1>2. ASSUME NEW r \in Runs, Continue(r) \/ Stop(r)
      PROVE  \A q \in Runs : pc[q] # "none" => pc'[q] # "none" /\ started'[q] = started[q]
  <2>1. started' = started
    BY <1>2, Zenon DEF Continue, Stop, End, check_bins, build_coverage_binary, OpenLink, FinishLink,
                LibFuzzer, PrefilterSeeds, WingFuzz, DDFuzz, Triage, MeasureLibFuzzer,
                MeasureWingFuzz, MeasureDDFuzz, OpenEnv, WriteEnv
  <2>2. \E l \in Labels \ { "none" } : pc' = [ pc EXCEPT ![r] = l ]
    BY <1>2, Zenon DEF Continue, Stop, End, check_bins, build_coverage_binary, OpenLink, FinishLink,
                LibFuzzer, PrefilterSeeds, WingFuzz, DDFuzz, Triage, MeasureLibFuzzer,
                MeasureWingFuzz, MeasureDDFuzz, OpenEnv, WriteEnv, Labels, Past, Over
  <2> QED  BY <2>1, <2>2, Zenon
<1>3. CASE Tick \/ EditSource \/ LoseImage \/ UNCHANGED vars
  BY <1>3, Zenon DEF Tick, EditSource, LoseImage, vars
<1> QED  BY <1>1, <1>2, <1>3, Zenon DEF Next

LEMMA NextOwn == Types /\ Types' /\ OwnInv /\ [Next]_vars => OwnInv'
<1> SUFFICES ASSUME Types, Types', OwnInv, [Next]_vars PROVE OwnInv'  OBVIOUS
<1>1. /\ dir \in Dirs /\ dir' \in Dirs
      /\ bugs \in [ Runs -> SUBSET Runs ] /\ bugs' \in [ Runs -> SUBSET Runs ]
      /\ started \in [ Runs -> 0..MaxClock ]
  BY Zenon DEF Types, TypeOK, Dirs
<1>2. \A q \in Runs : pc[q] # "none" => pc'[q] # "none" /\ started'[q] = started[q]
  BY StartedOnce, Zenon
<1>3. \A s \in 0..MaxClock, p \in Places : \A x \in dir[s][p] :
         x[1] \in Runs /\ pc'[x[1]] # "none" /\ started'[x[1]] = s
  <2> SUFFICES ASSUME NEW s \in 0..MaxClock, NEW p \in Places, NEW x \in dir[s][p]
               PROVE  x[1] \in Runs /\ pc'[x[1]] # "none" /\ started'[x[1]] = s
    OBVIOUS
  <2>1. x \in Runs \X Kinds  BY <1>1 DEF Dirs
  <2>2. x[1] \in Runs  BY <2>1, Zenon
  <2>3. pc[x[1]] # "none" /\ started[x[1]] = s  BY Zenon DEF OwnInv
  <2> QED  BY <1>2, <2>2, <2>3, Zenon
<1>4. \A r \in Runs : \A q \in bugs[r] :
         pc'[r] # "none" /\ pc'[q] # "none" /\ started'[q] = started'[r]
  BY <1>1, <1>2, Zenon DEF OwnInv
<1>5. ASSUME NEW r \in Runs, LibFuzzer(r) \/ WingFuzz(r) \/ DDFuzz(r) PROVE OwnInv'
  <2>1. pc[r] # "none" /\ bugs' = bugs
    BY <1>5, Zenon DEF LibFuzzer, WingFuzz, DDFuzz, local
  <2>2. \A s \in 0..MaxClock, p \in Places : \A x \in dir'[s][p] \ dir[s][p] :
           s = started[r] /\ x[1] = r
    BY <1>5, PhaseFacts
  <2>3. \A s \in 0..MaxClock, p \in Places : \A x \in dir'[s][p] :
           pc'[x[1]] # "none" /\ started'[x[1]] = s
    BY <1>2, <1>3, <2>1, <2>2
  <2> QED  BY <1>4, <2>1, <2>3, Zenon DEF OwnInv
<1>6. ASSUME NEW r \in Runs, Triage(r) PROVE OwnInv'
  <2>1. pc[r] # "none" /\ dir' = dir  BY <1>6, Zenon DEF Triage
  <2>2. \A q \in bugs'[r] : \E p \in Places : << q, "crash" >> \in dir[started[r]][p]
    BY <1>1, <1>6, Zenon DEF Triage, CrashDirs, RunId, Places
  <2>3. \A q \in bugs'[r] : q \in Runs /\ pc[q] # "none" /\ started[q] = started[r]
    <3> SUFFICES ASSUME NEW q \in bugs'[r]
                 PROVE  q \in Runs /\ pc[q] # "none" /\ started[q] = started[r]
      OBVIOUS
    <3>1. PICK p \in Places : << q, "crash" >> \in dir[started[r]][p]  BY <2>2, Zenon
    <3>2. started[r] \in 0..MaxClock /\ q \in Runs  BY <1>1, Zenon
    <3> QED  BY <3>1, <3>2, ZenonT(60) DEF OwnInv
  <2>4. \A q \in Runs : q # r => bugs'[q] = bugs[q]  BY <1>1, <1>6, Zenon DEF Triage
  <2>5. \A t \in Runs : \A q \in bugs'[t] :
           pc'[t] # "none" /\ pc'[q] # "none" /\ started'[q] = started'[t]
    BY <1>2, <1>4, <2>1, <2>3, <2>4, ZenonT(60)
  <2> QED  BY <1>3, <2>1, <2>5 DEF OwnInv
<1>7. CASE dir' = dir /\ bugs' = bugs  BY <1>3, <1>4, <1>7 DEF OwnInv
<1>8. ASSUME NEW r \in Runs, Ends(r) PROVE OwnInv'
  <2>1. dir' = dir /\ \A q \in Runs : bugs'[q] \subseteq bugs[q]
    BY <1>8, EndFacts, Zenon DEF Ends
  <2> QED  BY <1>3, <1>4, <2>1 DEF OwnInv
<1>9. \/ \E r \in Runs : LibFuzzer(r) \/ WingFuzz(r) \/ DDFuzz(r) \/ Triage(r) \/ Ends(r)
      \/ dir' = dir /\ bugs' = bugs
  <2>1. \A r \in Runs : check_bins(r) => Ends(r) \/ (dir' = dir /\ bugs' = bugs)
    BY WhoEnds, Zenon DEF check_bins
  <2> QED
    BY <2>1, WhoEnds, ZenonT(60) DEF Next, Continue, Start, build_coverage_binary, OpenLink, FinishLink,
         PrefilterSeeds, MeasureLibFuzzer, MeasureWingFuzz, MeasureDDFuzz, OpenEnv,
         Tick, EditSource, LoseImage, vars, local
<1> QED  BY <1>5, <1>6, <1>7, <1>8, <1>9, Zenon

(* An invocation reports the crashes of no other one unless both started in *)
(* the same second, however many run side by side: the output directory is  *)
(* named after the second (RUN_ID).                                         *)
THEOREM CrashesOwn == Spec => []OwnCrashes
<1>1. OwnInv => OwnCrashes  BY Zenon DEF OwnInv, OwnCrashes
<1>2. Init => Types /\ OwnInv  BY InitTypes, InitOwn, Zenon
<1>3. Types /\ OwnInv /\ [Next]_vars => Types' /\ OwnInv'  BY NextTypes, NextOwn, Zenon
<1> QED  BY <1>1, <1>2, <1>3, PTL DEF Spec

-----------------------------------------------------------------------------
\* Invocations one at a time.
Exclusive == \A q, r \in Runs : pc[q] \notin Over /\ pc[r] \notin Over => q = r

\* The coverage binary: who is about to link it found none, and nobody is past
\* it before it is there.
LinkInv ==
    /\ \A r \in Runs : pc[r] = "link" => covBin = Absent /\ built[r] \in Versions
    /\ \A r \in Runs : pc[r] = "finish_link" => covBin = Torn /\ built[r] \in Versions
    /\ \A r \in Runs : pc[r] \in Past => covBin # Absent /\ \A q \in Runs : pc[q] # "finish_link"

\* Every figure there is was measured with the binary there is.
CovInv == \A r \in Runs, f \in Fuzzers : cov[r][f] \in Versions => cov[r][f] = covBin

SeqInv == Exclusive /\ LinkInv /\ CovInv

LEMMA InitSeq == Init => SeqInv
<1>1. Init => Exclusive /\ LinkInv  BY DEF Init, Exclusive, LinkInv, Past, Over
<1>2. Init => \A r \in Runs, f \in Fuzzers : cov[r][f] = NA  BY DEF Init
<1>3. Init => CovInv  BY <1>2, FigureValues, Zenon DEF CovInv
<1> QED  BY <1>1, <1>3, Zenon DEF SeqInv

\* A step moves at most one invocation, one that is not over or that starts.
LEMMA OneMoves ==
    ASSUME Types, [Next]_vars
    PROVE  \/ pc' = pc
           \/ \E r \in Runs : /\ Start(r) \/ pc[r] \notin Over
                              /\ \E l \in Labels : pc' = [ pc EXCEPT ![r] = l ]
BY ZenonT(60) DEF Next, Continue, Start, Stop, End, check_bins, build_coverage_binary, OpenLink, FinishLink,
       LibFuzzer, PrefilterSeeds, WingFuzz, DDFuzz, Triage, MeasureLibFuzzer, MeasureWingFuzz,
       MeasureDDFuzz, OpenEnv, WriteEnv, Tick, EditSource, LoseImage, vars, Goto,
       Labels, Past, Over

LEMMA NextExclusive ==
    ASSUME ~overlapped', Types, Exclusive, [Next]_vars
    PROVE  Exclusive'
<1>1. CASE pc' = pc  BY <1>1, Zenon DEF Exclusive
<1>2. ASSUME NEW r \in Runs, NEW l \in Labels, pc' = [ pc EXCEPT ![r] = l ],
             Start(r) \/ pc[r] \notin Over
      PROVE  Exclusive'
  BY <1>2, Zenon DEF Exclusive, Start, Types
<1> QED  BY <1>1, <1>2, OneMoves, Zenon

\* The actions that touch neither the coverage binary nor the coverage figures.
LEMMA Elsewhere ==
    ASSUME Types, [Next]_vars
    PROVE  \/ \E r \in Runs : \/ build_coverage_binary(r) \/ OpenLink(r) \/ FinishLink(r)
                              \/ MeasureLibFuzzer(r) \/ MeasureWingFuzz(r) \/ MeasureDDFuzz(r)
                              \/ Ends(r)
           \/ UNCHANGED << covBin, built, cov >>
<1>1. \A r \in Runs : check_bins(r) => Ends(r) \/ UNCHANGED << covBin, built, cov >>
  BY WhoEnds, Zenon DEF check_bins
<1> QED
  BY <1>1, WhoEnds, ZenonT(60) DEF Next, Continue, Start, LibFuzzer, PrefilterSeeds, WingFuzz, DDFuzz,
       Triage, OpenEnv, Tick, EditSource, LoseImage, vars, local

\* Whose script ends loses its figures and is nowhere; the others keep theirs.
LEMMA EndsFacts ==
    ASSUME Types, NEW r \in Runs, Ends(r)
    PROVE  /\ covBin' = covBin /\ pc'[r] \in Ended
           /\ \A q \in Runs : q # r => pc'[q] = pc[q] /\ built'[q] = built[q] /\ cov'[q] = cov[q]
           /\ \A f \in Fuzzers : cov'[r][f] = NA
BY EndFacts, Zenon DEF Ends

\* How an invocation gets where it is.
Enters(r, l) == pc'[r] = l /\ pc[r] # l

LEMMA Moves ==
    ASSUME Types, [Next]_vars, NEW r \in Runs
    PROVE  /\ Enters(r, "link") => build_coverage_binary(r) /\ covBin = Absent
           /\ Enters(r, "finish_link") => OpenLink(r)
           /\ pc'[r] \in Past /\ pc[r] \notin Past =>
                 \/ build_coverage_binary(r) /\ covBin # Absent
                 \/ FinishLink(r)
           /\ pc'[r] \in Past \ { "lf", "wf_seeds" } /\ pc[r] \notin Past \ { "lf", "wf_seeds" }
                 => PrefilterSeeds(r)
<1>1. CASE pc'[r] = pc[r]  BY <1>1, Zenon DEF Enters
<1>2. CASE Start(r) \/ Stop(r) \/ check_bins(r)
  BY <1>2, Zenon DEF Start, Stop, End, check_bins, Goto, Enters, Types, Past
<1>3. CASE build_coverage_binary(r)
  BY <1>3, Zenon DEF build_coverage_binary, Goto, Enters, Types, Past
<1>4. CASE OpenLink(r) \/ FinishLink(r)
  BY <1>4, Zenon DEF OpenLink, FinishLink, Goto, Enters, Types, Past
<1>5. CASE LibFuzzer(r) \/ PrefilterSeeds(r) \/ WingFuzz(r) \/ DDFuzz(r) \/ Triage(r)
  BY <1>5, Zenon DEF LibFuzzer, PrefilterSeeds, WingFuzz, DDFuzz, Triage, Goto, Enters, Types, Past
<1>6. CASE MeasureLibFuzzer(r) \/ MeasureWingFuzz(r) \/ MeasureDDFuzz(r)
  <2>1. \/ pc[r] = "cov_lf" /\ pc'[r] = "cov_wf"
        \/ MeasureWingFuzz(r) /\ pc[r] = "cov_wf" /\ pc'[r] = "cov_ddf"
        \/ pc[r] = "cov_ddf" /\ pc'[r] = "open_env"
    BY <1>6, Zenon DEF MeasureLibFuzzer, MeasureWingFuzz, MeasureDDFuzz, Goto, Types
  <2> QED  BY <2>1, Zenon DEF Enters, Past
<1>7. CASE OpenEnv(r) \/ WriteEnv(r)
  BY <1>7, Zenon DEF OpenEnv, WriteEnv, End, Goto, Enters, Types, Past
<1>8. pc'[r] = pc[r] \/ Start(r) \/ Stop(r) \/ Continue(r)
  <2>1. ASSUME NEW q \in Runs, q # r, Start(q) \/ Stop(q) \/ Continue(q) PROVE pc'[r] = pc[r]
    <3>1. \E l : pc' = [ pc EXCEPT ![q] = l ]
      BY <2>1, Zenon DEF Continue, Start, Stop, End, check_bins, build_coverage_binary, OpenLink,
                  FinishLink, LibFuzzer, PrefilterSeeds, WingFuzz, DDFuzz, Triage,
                  MeasureLibFuzzer, MeasureWingFuzz, MeasureDDFuzz, OpenEnv, WriteEnv, Goto
    <3> QED  BY <2>1, <3>1, Zenon DEF Types
  <2>2. CASE Tick \/ EditSource \/ LoseImage \/ UNCHANGED vars
    BY <2>2, Zenon DEF Tick, EditSource, LoseImage, vars
  <2> QED  BY <2>1, <2>2, Zenon DEF Next
<1> QED  BY <1>1, <1>2, <1>3, <1>4, <1>5, <1>6, <1>7, <1>8, Zenon DEF Continue

\* While one invocation takes a step that is not its first, the others are over.
LEMMA OthersOver ==
    ASSUME Types, Exclusive, NEW r \in Runs, NEW l, pc[r] \notin Over, Goto(r, l)
    PROVE  /\ pc'[r] = l
           /\ \A q \in Runs : q # r => pc[q] \in Over /\ pc'[q] = pc[q]
BY Zenon DEF Exclusive, Goto, Types

LEMMA NextLink ==
    ASSUME Types, Types', Exclusive, LinkInv, [Next]_vars
    PROVE  LinkInv'
<1>1. ASSUME NEW r \in Runs, build_coverage_binary(r) PROVE LinkInv'
  <2>1. /\ \A q \in Runs : q # r => pc[q] \in Over /\ pc'[q] = pc[q]
        /\ pc'[r] \in { "lf", "link" }
        /\ pc'[r] = "link" => covBin = Absent /\ built'[r] \in Versions
        /\ pc'[r] = "lf" => covBin # Absent
        /\ covBin' = covBin
    <3>1. PICK l \in { "lf", "link" } : Goto(r, l)  BY <1>1, Zenon DEF build_coverage_binary
    <3>2. pc[r] \notin Over  BY <1>1, Zenon DEF build_coverage_binary, Over
    <3>3. pc'[r] = l /\ \A q \in Runs : q # r => pc[q] \in Over /\ pc'[q] = pc[q]
      BY <3>1, <3>2, OthersOver, Zenon
    <3>4. /\ pc'[r] = "link" => covBin = Absent /\ built'[r] \in Versions
          /\ pc'[r] = "lf" => covBin # Absent
          /\ covBin' = covBin
      BY <1>1, ZenonT(60) DEF build_coverage_binary, Goto, Types, TypeOK
    <3> QED  BY <3>1, <3>3, <3>4, Zenon
  <2> QED  BY <2>1, Zenon DEF LinkInv, Past, Over
<1>2. ASSUME NEW r \in Runs, OpenLink(r) PROVE LinkInv'
  <2>1. /\ \A q \in Runs : q # r => pc[q] \in Over /\ pc'[q] = pc[q]
        /\ pc[r] = "link" /\ pc'[r] = "finish_link" /\ covBin' = Torn /\ built' = built
    BY <1>2, OthersOver, Zenon DEF OpenLink, Over, local
  <2> QED  BY <2>1, Zenon DEF LinkInv, Past, Over
<1>3. ASSUME NEW r \in Runs, FinishLink(r) PROVE LinkInv'
  <2>1. /\ \A q \in Runs : q # r => pc[q] \in Over /\ pc'[q] = pc[q]
        /\ pc[r] = "finish_link" /\ pc'[r] = "lf" /\ covBin' = built[r]
    BY <1>3, OthersOver, Zenon DEF FinishLink, Over, local
  <2>2. covBin' # Absent  BY <2>1 DEF LinkInv, Versions, Absent
  <2> QED  BY <2>1, <2>2, Zenon DEF LinkInv, Past, Over
<1>4. ASSUME NEW r \in Runs, Ends(r) PROVE LinkInv'
  <2>1. covBin' = covBin /\ pc'[r] \notin Past \union { "link", "finish_link" }
    BY <1>4, EndsFacts, Zenon DEF Past, Ended
  <2> QED  BY <1>4, <2>1, EndsFacts, Zenon DEF LinkInv
<1>5. CASE ~\E r \in Runs : build_coverage_binary(r) \/ OpenLink(r) \/ FinishLink(r) \/ Ends(r)
  <2>1. UNCHANGED << covBin, built >>
    BY <1>5, Elsewhere, Zenon DEF MeasureLibFuzzer, MeasureWingFuzz, MeasureDDFuzz
  <2>2. \A r \in Runs : /\ pc'[r] = "link" => pc[r] = "link"
                        /\ pc'[r] = "finish_link" => pc[r] = "finish_link"
                        /\ pc'[r] \in Past => pc[r] \in Past
    BY <1>5, Moves, Zenon DEF Enters
  <2> QED  BY <2>1, <2>2, Zenon DEF LinkInv
<1> QED  BY <1>1, <1>2, <1>3, <1>4, <1>5, Zenon

LEMMA NextCov ==
    ASSUME Types, LinkInv, CovInv, [Next]_vars
    PROVE  CovInv'
<1>1. ASSUME NEW r \in Runs, OpenLink(r) \/ FinishLink(r) PROVE CovInv'
  <2>1. covBin \notin Versions /\ cov' = cov
    BY <1>1, ConstantsAssumption DEF OpenLink, FinishLink, LinkInv, Versions, Absent, Torn, local
  <2> QED  BY <2>1, Zenon DEF CovInv
<1>2. ASSUME NEW r \in Runs, MeasureLibFuzzer(r) \/ MeasureWingFuzz(r) \/ MeasureDDFuzz(r)
      PROVE  CovInv'
  <2>1. covBin' = covBin  BY <1>2, Zenon DEF MeasureLibFuzzer, MeasureWingFuzz, MeasureDDFuzz
  <2>2. \A q \in Runs, g \in Fuzzers :
           cov'[q][g] = cov[q][g] \/ Measured(cov'[q][g]) \/ cov'[q][g] = NoFiles
    BY <1>2, MeasureFacts, Zenon
  <2> QED  BY <2>1, <2>2, FigureValues, Zenon DEF CovInv, Measured
<1>3. CASE UNCHANGED << covBin, cov >>  BY <1>3, Zenon DEF CovInv
<1>4. ASSUME NEW r \in Runs, Ends(r) PROVE CovInv'
  BY <1>4, EndsFacts, FigureValues, ZenonT(60) DEF CovInv
<1> QED  BY <1>1, <1>2, <1>3, <1>4, Elsewhere, Zenon DEF build_coverage_binary

\* An overlap is not forgotten.
LEMMA OverlapStays == [Next]_vars /\ ~overlapped' => ~overlapped
BY ZenonT(60) DEF Next, Continue, Start, Stop, End, check_bins, build_coverage_binary, OpenLink, FinishLink,
       LibFuzzer, PrefilterSeeds, WingFuzz, DDFuzz, Triage, MeasureLibFuzzer, MeasureWingFuzz,
       MeasureDDFuzz, OpenEnv, WriteEnv, Tick, EditSource, LoseImage, vars

LEMMA SeqInvariant == Spec => [](~overlapped => SeqInv)
<1>1. Init => Types /\ (~overlapped => SeqInv)  BY InitTypes, InitSeq, Zenon
<1>2. Types /\ (~overlapped => SeqInv) /\ [Next]_vars => Types' /\ (~overlapped => SeqInv)'
  BY OverlapStays, NextTypes, NextExclusive, NextLink, NextCov, Zenon DEF SeqInv
<1> QED  BY <1>1, <1>2, PTL DEF Spec

(* The coverage figures of a row come from one binary, if invocations do   *)
(* not overlap: build_coverage_binary links it before the first phase and  *)
(* no later invocation replaces it, whatever is edited or ends between.    *)
THEOREM OneBinary == Spec => []OneBinaryPerRow
<1>1. (~overlapped => SeqInv) => OneBinaryPerRow  BY Zenon DEF SeqInv, CovInv, OneBinaryPerRow
<1> QED  BY <1>1, SeqInvariant, PTL

-----------------------------------------------------------------------------
\* WingFuzz has a seed to start from, and no measurement found nothing to replay.
SeedInv == \A r \in Runs : pc[r] \in Past \ { "lf", "wf_seeds" } => safe[started[r]] # "none"

LEMMA NextSeed ==
    ASSUME Types, Types', SeedInv, [Next]_vars
    PROVE  SeedInv'
<1>1. ASSUME NEW r \in Runs, PrefilterSeeds(r)
      PROVE  /\ safe'[started[r]] # "none"
             /\ \A s \in 0..MaxClock : safe[s] # "none" => safe'[s] # "none"
  BY <1>1, Zenon DEF PrefilterSeeds, RunId, Types, TypeOK
<1>2. \A s \in 0..MaxClock : safe[s] # "none" => safe'[s] # "none"
  <2>1. safe' = safe \/ \E r \in Runs : PrefilterSeeds(r)
    BY ZenonT(60) DEF Next, Continue, Start, Stop, check_bins, build_coverage_binary, OpenLink, FinishLink,
           LibFuzzer, WingFuzz, DDFuzz, Triage, MeasureLibFuzzer, MeasureWingFuzz,
           MeasureDDFuzz, OpenEnv, WriteEnv, Tick, EditSource, LoseImage, vars
  <2> QED  BY <1>1, <2>1, Zenon
<1>3. ASSUME NEW r \in Runs, pc'[r] \in Past \ { "lf", "wf_seeds" }
      PROVE  safe'[started'[r]] # "none"
  <2>1. CASE PrefilterSeeds(r)  BY <1>1, <2>1, Zenon DEF PrefilterSeeds, local
  <2>2. CASE pc[r] \in Past \ { "lf", "wf_seeds" }
    <3>1. started'[r] = started[r]  BY <2>2, StartedOnce, Zenon DEF Past
    <3> QED  BY <1>2, <2>2, <3>1, Zenon DEF SeedInv, Types, TypeOK
  <2> QED  BY <1>3, <2>1, <2>2, Moves, Zenon
<1> QED  BY <1>3, Zenon DEF SeedInv

LEMMA NextReplay ==
    ASSUME Types, SeedInv, AlwaysSomethingToReplay, [Next]_vars
    PROVE  AlwaysSomethingToReplay'
<1>1. ASSUME NEW r \in Runs, MeasureLibFuzzer(r) \/ MeasureWingFuzz(r) \/ MeasureDDFuzz(r)
      PROVE  AlwaysSomethingToReplay'
  <2>1. MeasureWingFuzz(r) => safe[started[r]] # "none"
    BY Zenon DEF MeasureWingFuzz, SeedInv, Past
  <2>2. \A v : Measured(v) => v # NoFiles  BY FigureValues, Zenon DEF Measured
  <2>3. \A q \in Runs, g \in Fuzzers : cov'[q][g] = cov[q][g] \/ Measured(cov'[q][g])
    BY <1>1, <2>1, MeasureFacts, ZenonT(60)
  <2> QED  BY <2>2, <2>3, Zenon DEF AlwaysSomethingToReplay
<1>2. ASSUME NEW r \in Runs, Ends(r) PROVE AlwaysSomethingToReplay'
  BY <1>2, EndsFacts, FigureValues, ZenonT(60) DEF AlwaysSomethingToReplay
<1>3. CASE UNCHANGED cov  BY <1>3, Zenon DEF AlwaysSomethingToReplay
<1> QED
  BY <1>1, <1>2, <1>3, Elsewhere, Zenon DEF build_coverage_binary, OpenLink, FinishLink, local

(* No replay is started on a directory without files, however many          *)
(* invocations share it and wherever they end: the fallbacks of lf_cov_src  *)
(* and wf_cov_src, the placeholder seed of the pre-filter and the check of  *)
(* DDFuzz's queue leave measure_coverage something to replay.               *)
THEOREM SomethingToReplay == Spec => []AlwaysSomethingToReplay
<1>1. Init => SeedInv  BY Zenon DEF Init, SeedInv, Past
<1>2. Init => AlwaysSomethingToReplay
  <2>1. Init => \A r \in Runs, f \in Fuzzers : cov[r][f] = NA  BY DEF Init
  <2> QED  BY <2>1, FigureValues, Zenon DEF AlwaysSomethingToReplay
<1>3. Types /\ SeedInv /\ AlwaysSomethingToReplay /\ [Next]_vars
        => Types' /\ SeedInv' /\ AlwaysSomethingToReplay'
  BY NextTypes, NextSeed, NextReplay, Zenon
<1> QED  BY <1>1, <1>2, <1>3, InitTypes, PTL DEF Spec

-----------------------------------------------------------------------------
\* One at a time, invocations start in the order of the clock; the env file is
\* that of the last one that got to write it.
OrderInv ==
    /\ \A r \in Runs : pc[r] # "none" => started[r] <= clock
    /\ \A q, r \in Runs : pc[q] \notin Over /\ pc[r] # "none" => started[r] <= started[q]

NewestInv ==
    \A r \in Runs : pc[r] = "done" /\ env # r =>
        \E q \in Runs \ { r } :
            /\ started[q] >= started[r]
            /\ \/ env = q /\ pc[q] = "done"
               \/ env = Torn /\ pc[q] \in { "write_env", "stopped" }

\* Only the start of an invocation says when it started, and time passes.
LEMMA ClockFacts ==
    ASSUME Types, [Next]_vars
    PROVE  /\ clock \in Int /\ clock' \in Int /\ clock <= clock'
           /\ started \in [ Runs -> Int ]
           /\ \A r \in Runs : ~Start(r) => started'[r] = started[r]
<1>1. clock \in Int /\ started \in [ Runs -> 0..MaxClock ]  BY DEF Types, TypeOK
<1>2. clock' = clock \/ clock' = clock + 1
  BY ZenonT(60) DEF Next, Continue, Start, Stop, End, check_bins, build_coverage_binary, OpenLink, FinishLink,
         LibFuzzer, PrefilterSeeds, WingFuzz, DDFuzz, Triage, MeasureLibFuzzer, MeasureWingFuzz,
         MeasureDDFuzz, OpenEnv, WriteEnv, Tick, EditSource, LoseImage, vars, world
<1>3. started' = started \/ \E r \in Runs : Start(r)
  BY ZenonT(60) DEF Next, Continue, Stop, End, check_bins, build_coverage_binary, OpenLink, FinishLink,
         LibFuzzer, PrefilterSeeds, WingFuzz, DDFuzz, Triage, MeasureLibFuzzer, MeasureWingFuzz,
         MeasureDDFuzz, OpenEnv, WriteEnv, Tick, EditSource, LoseImage, vars, local
<1>4. \A q, r \in Runs : Start(q) /\ q # r => started'[r] = started[r]
  BY <1>1, Zenon DEF Start
<1> QED  BY <1>1, <1>2, <1>3, <1>4

LEMMA NextOrder ==
    ASSUME Types, OrderInv, ~overlapped', [Next]_vars
    PROVE  OrderInv'
<1>0. pc \in [ Runs -> Labels ]  BY Zenon DEF Types
<1>1. ASSUME NEW r \in Runs, Start(r) PROVE OrderInv'
  <2>1. /\ pc'[r] = "check_bins" /\ started'[r] = clock /\ clock' = clock
        /\ \A q \in Runs : pc[q] \in Over
        /\ \A q \in Runs : q # r => pc'[q] = pc[q] /\ started'[q] = started[q]
    BY <1>0, <1>1, Zenon DEF Start, Goto, world, Types, TypeOK
  <2> QED  BY <2>1, ClockFacts, Zenon DEF OrderInv
<1>2. CASE ~\E r \in Runs : Start(r)
  <2>1. \A r \in Runs : /\ started'[r] = started[r]
                        /\ pc'[r] # "none" => pc[r] # "none"
                        /\ pc'[r] \notin Over => pc[r] \notin Over
    <3>1. \A r \in Runs : pc'[r] = pc[r] \/ pc[r] \notin Over  BY <1>0, <1>2, OneMoves, Zenon
    <3> QED  BY <1>2, <3>1, ClockFacts, Zenon DEF Over
  <2>2. clock \in Int /\ clock' \in Int /\ clock <= clock' /\ \A r \in Runs : started[r] \in Int
    BY ClockFacts, Zenon
  <2>3. (\A r \in Runs : pc[r] # "none" => started[r] <= clock)'
    BY <2>1, <2>2 DEF OrderInv
  <2>4. (\A q, r \in Runs : pc[q] \notin Over /\ pc[r] # "none" => started[r] <= started[q])'
    <3> SUFFICES ASSUME NEW q \in Runs, NEW r \in Runs, pc'[q] \notin Over', pc'[r] # "none"
                 PROVE  started'[r] <= started'[q]
      OBVIOUS
    <3>1. pc[q] \notin Over /\ pc[r] # "none"  BY <2>1, Zenon DEF Over
    <3> QED  BY <2>1, <3>1, Zenon DEF OrderInv
  <2> QED  BY <2>3, <2>4, Zenon DEF OrderInv
<1> QED  BY <1>1, <1>2, Zenon

LEMMA NextNewest ==
    ASSUME Types, Exclusive, OrderInv, NewestInv, ~overlapped', [Next]_vars
    PROVE  NewestInv'
<1>0. pc \in [ Runs -> Labels ] /\ started \in [ Runs -> Int ]  BY ClockFacts, Zenon DEF Types
<1>1. ASSUME NEW q \in Runs, OpenEnv(q) \/ WriteEnv(q) PROVE NewestInv'
  <2>1. /\ started' = started /\ pc[q] \in { "open_env", "write_env" }
        /\ \/ env' = Torn /\ pc'[q] = "write_env"
           \/ env' = q /\ pc'[q] = "done"
        /\ \A r \in Runs : r # q => pc'[r] = pc[r]
    BY <1>0, <1>1, Zenon DEF OpenEnv, WriteEnv, End, Goto, local
  <2>2. ASSUME NEW r \in Runs, pc'[r] = "done", env' # r
        PROVE  q \in Runs \ { r } /\ started'[q] >= started'[r]
    <3>1. q # r  BY <2>1, <2>2, Zenon
    <3>2. pc[r] # "none" /\ pc[q] \notin Over  BY <2>1, <2>2, <3>1, Zenon DEF Over
    <3> QED  BY <1>0, <2>1, <3>1, <3>2, Zenon DEF OrderInv
  <2> QED  BY <2>1, <2>2, Zenon DEF NewestInv
<1>2. CASE ~\E q \in Runs : OpenEnv(q) \/ WriteEnv(q)
  <2>1. env' = env
    BY <1>2, ZenonT(60) DEF Next, Continue, Start, Stop, End, check_bins, build_coverage_binary, OpenLink,
           FinishLink, LibFuzzer, PrefilterSeeds, WingFuzz, DDFuzz, Triage, MeasureLibFuzzer,
           MeasureWingFuzz, MeasureDDFuzz, Tick, EditSource, LoseImage, vars
  <2>2. \A r \in Runs : pc[r] \in { "done", "write_env", "stopped" } => started'[r] = started[r]
    BY StartedOnce, Zenon
  <2>3. \A r \in Runs : /\ pc'[r] = "done" <=> pc[r] = "done"
                        /\ pc[r] \in { "write_env", "stopped" } => pc'[r] \in { "write_env", "stopped" }
    <3>1. ASSUME NEW q \in Runs, Start(q) \/ Stop(q) \/ Continue(q)
          PROVE  \E l : /\ pc' = [ pc EXCEPT ![q] = l ] /\ l # "done"
                        /\ pc[q] \notin { "done", "stopped" }
                        /\ pc[q] = "write_env" => l = "stopped"
      BY <1>2, <3>1, Zenon DEF Continue, Start, Stop, End, check_bins, build_coverage_binary, OpenLink,
             FinishLink, LibFuzzer, PrefilterSeeds, WingFuzz, DDFuzz, Triage, MeasureLibFuzzer,
             MeasureWingFuzz, MeasureDDFuzz, Goto, Over
    <3>2. CASE Tick \/ EditSource \/ LoseImage \/ UNCHANGED vars
      BY <3>2, Zenon DEF Tick, EditSource, LoseImage, vars
    <3> QED  BY <1>0, <3>1, <3>2, Zenon DEF Next
  <2> SUFFICES ASSUME NEW r \in Runs, pc'[r] = "done", env' # r
               PROVE  \E q \in Runs \ { r } :
                         /\ started'[q] >= started'[r]
                         /\ \/ env' = q /\ pc'[q] = "done"
                            \/ env' = Torn /\ pc'[q] \in { "write_env", "stopped" }
    BY Zenon DEF NewestInv, Torn
  <2>4. PICK q \in Runs \ { r } : /\ started[q] >= started[r]
                                 /\ \/ env = q /\ pc[q] = "done"
                                    \/ env = Torn /\ pc[q] \in { "write_env", "stopped" }
    BY <2>1, <2>3, Zenon DEF NewestInv
  <2> QED  BY <2>1, <2>2, <2>3, <2>4, SMTT(30)
<1> QED  BY <1>1, <1>2, Zenon

(* The env file run_all.sh sources is never older than the last invocation  *)
(* that ended well, if invocations do not overlap, however many there were  *)
(* and wherever others ended: it is opened and written last of all.         *)
THEOREM LatestSafe == Spec => []LatestIsNewest
<1>1. (~overlapped => NewestInv) => LatestIsNewest  BY Zenon DEF NewestInv, LatestIsNewest
<1>2. Init => (~overlapped => OrderInv /\ NewestInv)  BY ZenonT(60) DEF Init, OrderInv, NewestInv, Over
<1>3. Types /\ (~overlapped => SeqInv) /\ (~overlapped => OrderInv /\ NewestInv) /\ [Next]_vars
        => (~overlapped => OrderInv /\ NewestInv)'
  BY OverlapStays, NextOrder, NextNewest, Zenon DEF SeqInv
<1>4. Spec => []Types  BY InitTypes, NextTypes, PTL DEF Spec
<1> QED  BY <1>1, <1>2, <1>3, <1>4, SeqInvariant, PTL DEF Spec
-----------------------------------------------------------------------------
\* An invocation that has not got to its first phase has saved nothing.
EarlyInv ==
    \A r \in Runs : pc[r] \notin Past \union Ended =>
        \A s \in 0..MaxClock, p \in Places : \A x \in dir[s][p] : x[1] # r

LEMMA NextEarly ==
    ASSUME Types, EarlyInv, [Next]_vars
    PROVE  EarlyInv'
<1>1. \A r \in Runs : pc[r] \in Past \union Ended => pc'[r] \in Past \union Ended
  <2>1. ASSUME NEW r \in Runs, Start(r) \/ check_bins(r) \/ build_coverage_binary(r) \/ OpenLink(r)
        PROVE  \A q \in Runs : pc[q] \in Past \union Ended => pc'[q] = pc[q]
    BY <2>1, Zenon DEF Start, check_bins, End, build_coverage_binary, OpenLink, Goto, Types, Past, Ended
  <2>2. ASSUME NEW r \in Runs, Continue(r) \/ Stop(r),
               ~(check_bins(r) \/ build_coverage_binary(r) \/ OpenLink(r))
        PROVE  \E l \in Past \union Ended : pc' = [ pc EXCEPT ![r] = l ]
    BY <2>2, Zenon DEF Continue, Stop, End, FinishLink, LibFuzzer, PrefilterSeeds, WingFuzz, DDFuzz, Triage,
                MeasureLibFuzzer, MeasureWingFuzz, MeasureDDFuzz, OpenEnv, WriteEnv, Goto, Past, Ended
  <2>3. CASE Tick \/ EditSource \/ LoseImage \/ UNCHANGED vars
    BY <2>3, Zenon DEF Tick, EditSource, LoseImage, vars
  <2>4. ASSUME NEW r \in Runs, NEW l \in Past \union Ended, pc' = [ pc EXCEPT ![r] = l ]
        PROVE  \A q \in Runs : pc[q] \in Past \union Ended => pc'[q] \in Past \union Ended
    BY <2>4, Zenon DEF Types
  <2> QED  BY <2>1, <2>2, <2>3, <2>4, Zenon DEF Next
<1>2. CASE dir' = dir  BY <1>1, <1>2, Zenon DEF EarlyInv, Types
<1>3. ASSUME NEW r \in Runs, LibFuzzer(r) \/ WingFuzz(r) \/ DDFuzz(r) PROVE EarlyInv'
  <2>1. pc[r] \in Past  BY <1>3, Zenon DEF LibFuzzer, WingFuzz, DDFuzz, Past
  <2> SUFFICES ASSUME NEW q \in Runs, pc'[q] \notin Past \union Ended,
                      NEW s \in 0..MaxClock, NEW p \in Places, NEW x \in dir'[s][p]
               PROVE  x[1] # q
    BY Zenon DEF EarlyInv
  <2>2. pc[q] \notin Past \union Ended  BY <1>1, Zenon
  <2>3. q # r  BY <2>1, <2>2, Zenon
  <2>4. x \in dir[s][p] => x[1] # q  BY <2>2, Zenon DEF EarlyInv
  <2>5. x \notin dir[s][p] => x[1] = r  BY <1>3, OnlyOwnFiles, Zenon
  <2> QED  BY <2>3, <2>4, <2>5, Zenon
<1>4. dir' = dir \/ \E r \in Runs : LibFuzzer(r) \/ WingFuzz(r) \/ DDFuzz(r)
  BY Zenon DEF Next, Continue, Start, Stop, End, check_bins, build_coverage_binary, OpenLink, FinishLink,
         PrefilterSeeds, Triage, MeasureLibFuzzer, MeasureWingFuzz, MeasureDDFuzz, OpenEnv,
         WriteEnv, Tick, EditSource, LoseImage, vars
<1> QED  BY <1>2, <1>3, <1>4, Zenon

\* Where an invocation is after the measurement of a fuzzer's corpus.
Through == [ lf  |-> { "cov_wf", "cov_ddf", "open_env", "write_env" },
             wf  |-> { "cov_ddf", "open_env", "write_env" },
             ddf |-> { "open_env", "write_env" } ]

\* A queue shows that HAS_DDFUZZ was set; a corpus with a unit has a figure.
QueueInv == \A r \in Runs : pc[r] \in Past /\ << r, "unit" >> \in dir[started[r]]["queue"]
                               => has_ddfuzz[r]

UnitInv ==
    \A r \in Runs, f \in Fuzzers :
        /\ pc[r] \in Through[f]
        /\ << r, "unit" >> \in dir[started[r]][Corpus[f]]
        /\ cov[r][f] \notin Versions
        => cov[r][f] = ToolError \/ covBin = Torn

\* Where a fuzzer's units come from: its own phase, and a queue only from a
\* DDFuzz phase that HAS_DDFUZZ allows.
LEMMA UnitsFacts ==
    ASSUME Types, [Next]_vars, NEW r \in Runs, NEW s \in 0..MaxClock, NEW p \in Places,
           << r, "unit" >> \in dir'[s][p], << r, "unit" >> \notin dir[s][p]
    PROVE  /\ LibFuzzer(r) \/ WingFuzz(r) \/ DDFuzz(r)
           /\ p = "queue" => has_ddfuzz[r]
<1>0. dir \in Dirs /\ started[r] \in 0..MaxClock  BY Zenon DEF Types, TypeOK, Dirs
<1>1. PICK q \in Runs : LibFuzzer(q) \/ WingFuzz(q) \/ DDFuzz(q)
  <2>1. dir' = dir \/ \E q \in Runs : LibFuzzer(q) \/ WingFuzz(q) \/ DDFuzz(q)
    BY Zenon DEF Next, Continue, Start, Stop, End, check_bins, build_coverage_binary, OpenLink, FinishLink,
           PrefilterSeeds, Triage, MeasureLibFuzzer, MeasureWingFuzz, MeasureDDFuzz, OpenEnv,
           WriteEnv, Tick, EditSource, LoseImage, vars
  <2> QED  BY <2>1, Zenon
<1>2. << r, "unit" >>[1] = q  BY <1>1, OnlyOwnFiles, ZenonT(60)
<1>3. q = r  BY <1>2, Zenon
<1>4. ASSUME LibFuzzer(r) PROVE dir'[s]["queue"] = dir[s]["queue"]
  <2>1. PICK e : dir' = [ dir EXCEPT ![started[r]]["lf_corpus"] = e ]
    BY <1>4, Zenon DEF LibFuzzer, Add, RunId
  <2>2. dir \in [ 0..MaxClock -> [ Places -> SUBSET (Runs \X Kinds) ] ] /\ "queue" \in Places
    BY <1>0, Zenon DEF Dirs, Places
  <2>3. dir'[s] = IF s = started[r] THEN [ dir[s] EXCEPT !["lf_corpus"] = e ] ELSE dir[s]
    BY <1>0, <2>1, <2>2, Zenon
  <2> QED  BY <2>2, <2>3, Zenon
<1>5. WingFuzz(r) => dir'[s]["queue"] = dir[s]["queue"]
  BY <1>0 DEF WingFuzz, RunId, Dirs, Places
<1>6. DDFuzz(r) => dir' = dir \/ has_ddfuzz[r]  BY Zenon DEF DDFuzz
<1> QED  BY <1>1, <1>3, <1>4, <1>5, <1>6, Zenon

\* How a figure changes, and how an invocation gets past its measurement.
LEMMA FigureFacts ==
    ASSUME Types, [Next]_vars, NEW r \in Runs, NEW f \in Fuzzers
    PROVE  /\ cov'[r][f] # cov[r][f] => Measures(r, f) \/ Ends(r)
           /\ pc'[r] \in Through[f] /\ pc[r] \notin Through[f] => Measures(r, f)
<1>0. pc \in [ Runs -> Labels ]  BY Zenon DEF Types
<1>1. ASSUME cov'[r][f] # cov[r][f] PROVE Measures(r, f) \/ Ends(r)
  <2>1. PICK q \in Runs : Ends(q) \/ MeasureLibFuzzer(q) \/ MeasureWingFuzz(q) \/ MeasureDDFuzz(q)
    BY <1>1, Elsewhere, Zenon DEF build_coverage_binary, OpenLink, FinishLink, local
  <2>2. Ends(q) => q = r  BY <1>1, EndsFacts, Zenon
  <2>3. CASE ~Ends(q)
    <3>1. PICK g \in Fuzzers : Measures(q, g)  BY <2>1, <2>3, Zenon DEF Measures, Fuzzers
    <3>2. PICK v \in Values : cov' = SetRow(q, g, v)
      <4>1. cov' # cov  BY <1>1, Zenon
      <4> QED  BY <3>1, <4>1, RowFacts, Zenon
    <3>3. \A t \in Runs, h \in Fuzzers : t # q \/ h # g => cov'[t][h] = cov[t][h]
      BY <3>2, CovFacts, Zenon
    <3>4. q = r /\ g = f  BY <1>1, <3>3, Zenon
    <3> QED  BY <3>1, <3>4, Zenon
  <2> QED  BY <2>2, <2>3, Zenon
<1>2. ASSUME pc'[r] \in Through[f], pc[r] \notin Through[f] PROVE Measures(r, f)
  <2>1. pc'[r] # pc[r]  BY <1>2, Zenon
  <2>2. Start(r) \/ Stop(r) \/ Continue(r)
    <3>1. ASSUME NEW q \in Runs, q # r, Start(q) \/ Stop(q) \/ Continue(q) PROVE pc'[r] = pc[r]
      <4>1. PICK l : pc' = [ pc EXCEPT ![q] = l ]
        BY <3>1, Zenon DEF Continue, Start, Stop, End, check_bins, build_coverage_binary, OpenLink,
                    FinishLink, LibFuzzer, PrefilterSeeds, WingFuzz, DDFuzz, Triage,
                    MeasureLibFuzzer, MeasureWingFuzz, MeasureDDFuzz, OpenEnv, WriteEnv, Goto
      <4> QED  BY <1>0, <3>1, <4>1, SMTT(30)
    <3>2. ~(Tick \/ EditSource \/ LoseImage \/ UNCHANGED vars)
      BY <2>1, Zenon DEF Tick, EditSource, LoseImage, vars
    <3> QED  BY <2>1, <3>1, <3>2, Zenon DEF Next
  <2>3. \/ MeasureLibFuzzer(r) /\ pc'[r] = "cov_wf"
        \/ MeasureWingFuzz(r) /\ pc[r] = "cov_wf" /\ pc'[r] = "cov_ddf"
        \/ MeasureDDFuzz(r) /\ pc[r] = "cov_ddf" /\ pc'[r] = "open_env"
        \/ pc[r] = "open_env" /\ pc'[r] = "write_env"
        \/ pc'[r] \in { "check_bins", "done", "stopped", "coverage_binary", "lf", "link",
                        "finish_link", "wf_seeds", "wf", "ddf", "triage", "cov_lf" }
    BY <1>0, <2>2, ZenonT(60) DEF Continue, Start, Stop, End, check_bins, build_coverage_binary, OpenLink,
           FinishLink, LibFuzzer, PrefilterSeeds, WingFuzz, DDFuzz, Triage,
           MeasureLibFuzzer, MeasureWingFuzz, MeasureDDFuzz, OpenEnv, WriteEnv, Goto
  <2>4. f \in { "lf", "wf", "ddf" }  BY Zenon DEF Fuzzers
  <2> QED  BY <1>2, <2>3, <2>4 DEF Through, Measures
<1> QED  BY <1>1, <1>2, Zenon

LEMMA NextQueue ==
    ASSUME Types, Types', EarlyInv, QueueInv, [Next]_vars
    PROVE  QueueInv'
<1> SUFFICES ASSUME NEW r \in Runs, pc'[r] \in Past,
                    << r, "unit" >> \in dir'[started'[r]]["queue"]
             PROVE  has_ddfuzz'[r]
  BY Zenon DEF QueueInv
<1>0. /\ pc \in [ Runs -> Labels ] /\ has_ddfuzz \in [ Runs -> BOOLEAN ]
      /\ started[r] \in 0..MaxClock /\ started'[r] \in 0..MaxClock /\ "queue" \in Places
  BY Zenon DEF Types, TypeOK, Places
<1>1. has_ddfuzz'[r] = has_ddfuzz[r] \/ check_bins(r) \/ Ends(r)
  <2>1. ASSUME NEW q \in Runs, check_bins(q) \/ Ends(q)
        PROVE  q = r \/ has_ddfuzz'[r] = has_ddfuzz[r]
    BY <1>0, <2>1, Zenon DEF check_bins, Ends, End
  <2>2. has_ddfuzz' = has_ddfuzz \/ \E q \in Runs : check_bins(q) \/ Ends(q)
    BY WhoEnds, ZenonT(60) DEF Next, Continue, Start, build_coverage_binary, OpenLink, FinishLink, LibFuzzer,
           PrefilterSeeds, WingFuzz, DDFuzz, Triage, MeasureLibFuzzer, MeasureWingFuzz,
           MeasureDDFuzz, OpenEnv, Tick, EditSource, LoseImage, vars, local
  <2> QED  BY <2>1, <2>2, Zenon
<1>2. ~check_bins(r) /\ ~Ends(r)
  BY <1>0, Zenon DEF check_bins, Ends, Ended, End, Goto, Past
<1>3. CASE pc[r] \notin Past
  <2>1. build_coverage_binary(r) \/ FinishLink(r)  BY <1>3, Moves, Zenon
  <2>2. dir' = dir /\ pc[r] \notin Past \union Ended
    BY <1>3, <2>1, Zenon DEF build_coverage_binary, FinishLink, Ended
  <2>3. << r, "unit" >>[1] # r  BY <1>0, <2>2, Zenon DEF EarlyInv
  <2> QED  BY <2>3, Zenon
<1>4. CASE pc[r] \in Past
  <2>1. started'[r] = started[r]  BY <1>4, StartedOnce, Zenon DEF Past
  <2>2. CASE << r, "unit" >> \in dir[started[r]]["queue"]  BY <1>1, <1>2, <1>4, <2>2, Zenon DEF QueueInv
  <2>3. CASE << r, "unit" >> \notin dir[started[r]]["queue"]
    BY <1>0, <1>1, <1>2, <2>1, <2>3, UnitsFacts, Zenon
  <2> QED  BY <2>2, <2>3, Zenon
<1> QED  BY <1>3, <1>4, Zenon

\* Who is through with a measurement has not ended, and fuzzes no more.
LEMMA ThroughFacts ==
    \A f \in Fuzzers : /\ Through[f] \subseteq Past /\ "write_env" \in Through[f]
                       /\ Through[f] \intersect { "lf", "wf", "ddf", "done", "stopped" } = {}
BY DEF Fuzzers, Through, Past

\* The replay of a corpus that holds a unit of the invocation's own.
LEMMA UnitReplayed ==
    ASSUME Types, LinkInv, QueueInv, NEW r \in Runs, NEW f \in Fuzzers, Measures(r, f),
           << r, "unit" >> \in dir[started[r]][Corpus[f]], cov'[r][f] \notin Versions
    PROVE  cov'[r][f] = ToolError \/ covBin' = Torn
<1> DEFINE files == dir[started[r]][Corpus[f]]
<1>1. /\ pc[r] \in Past /\ covBin' = covBin
      /\ f = "ddf" => pc[r] = "cov_ddf"
  BY Zenon DEF Measures, MeasureLibFuzzer, MeasureWingFuzz, MeasureDDFuzz, Past
<1>2. f = "ddf" => has_ddfuzz[r]  BY <1>1 DEF QueueInv, Corpus
<1>3. files # {}  OBVIOUS
<1>4. PICK v \in Replay(files) : cov' = SetRow(r, f, v)
  <2>1. CASE f = "lf"
    BY <1>3, <2>1, Zenon DEF Measures, MeasureLibFuzzer, Corpus, RunId, SetCov, SetRow
  <2>2. CASE f = "wf"
    BY <1>3, <2>2, Zenon DEF Measures, MeasureWingFuzz, Corpus, RunId, SetCov, SetRow
  <2>3. CASE f = "ddf"
    BY <1>2, <1>3, <2>3, Zenon DEF Measures, MeasureDDFuzz, Corpus, RunId, SetCov, SetRow
  <2> QED  BY <2>1, <2>2, <2>3, Zenon DEF Fuzzers
<1>5. Measured(v) /\ (v = ToolError \/ v = covBin \/ covBin \notin Versions)
  <2>1. v \in Figures(TRUE, TRUE)
    <3>1. (files # {}) = TRUE /\ (\E q \in Runs : << q, "unit" >> \in files) = TRUE  BY Zenon
    <3> QED  BY <1>4, <3>1, Zenon DEF Replay
  <2> QED  BY <2>1, FiguresFacts, Zenon
<1>6. cov'[r][f] = v
  <2>1. v \in Values  BY <1>5, Zenon DEF Measured, Values
  <2> QED  BY <1>4, <2>1, CovFacts, Zenon
<1>7. covBin # Absent  BY <1>1, Zenon DEF LinkInv
<1>8. v = ToolError \/ covBin \notin Versions  BY <1>5, <1>6, Zenon
<1> QED  BY <1>1, <1>6, <1>7, <1>8, Zenon DEF Types, TypeOK

LEMMA NextUnit ==
    ASSUME Types, Types', LinkInv, QueueInv, UnitInv, [Next]_vars
    PROVE  UnitInv'
<1> SUFFICES ASSUME NEW r \in Runs, NEW f \in Fuzzers, pc'[r] \in Through[f],
                    << r, "unit" >> \in dir'[started'[r]][Corpus[f]], cov'[r][f] \notin Versions
             PROVE  cov'[r][f] = ToolError \/ covBin' = Torn
  BY Zenon DEF UnitInv
<1>0. /\ pc \in [ Runs -> Labels ] /\ Corpus[f] \in Places /\ Through[f] \subseteq Past
      /\ started[r] \in 0..MaxClock
  BY ThroughFacts DEF Types, TypeOK, Corpus, Places, Fuzzers
<1>1. ASSUME Measures(r, f) PROVE cov'[r][f] = ToolError \/ covBin' = Torn
  <2>1. dir' = dir /\ started' = started
    BY <1>1, Zenon DEF Measures, MeasureLibFuzzer, MeasureWingFuzz, MeasureDDFuzz
  <2> QED  BY <1>1, <2>1, UnitReplayed, SMTT(30)
<1>2. CASE ~Measures(r, f)
  <2>1. pc[r] \in Through[f]  BY <1>2, FigureFacts, Zenon
  <2>2. ~Ends(r) /\ ~LibFuzzer(r) /\ ~WingFuzz(r) /\ ~DDFuzz(r)
    <3>1. pc'[r] \notin Ended /\ pc[r] \notin { "lf", "wf", "ddf" }
      BY <2>1, ThroughFacts, Zenon DEF Ended
    <3> QED  BY <1>0, <3>1, EndsFacts, Zenon DEF LibFuzzer, WingFuzz, DDFuzz
  <2>3. cov'[r][f] = cov[r][f]  BY <1>2, <2>2, FigureFacts, Zenon
  <2>4. started'[r] = started[r]  BY <1>0, <2>1, StartedOnce, Zenon DEF Past
  <2>5. << r, "unit" >> \in dir[started[r]][Corpus[f]]  BY <1>0, <2>2, <2>4, UnitsFacts, Zenon
  <2>6. cov[r][f] = ToolError \/ covBin = Torn  BY <2>1, <2>3, <2>5, Zenon DEF UnitInv
  <2>7. \A q \in Runs : ~FinishLink(q)  BY <1>0, <2>1, Zenon DEF LinkInv, FinishLink
  <2>8. covBin' = covBin \/ covBin' = Torn
    BY <2>7, Elsewhere, Zenon DEF build_coverage_binary, OpenLink, MeasureLibFuzzer, MeasureWingFuzz,
                           MeasureDDFuzz, Ends
  <2> QED  BY <2>3, <2>6, <2>8, Zenon
<1> QED  BY <1>1, <1>2, Zenon

(* A fuzzer that saved a unit has a coverage figure unless a tool failed or *)
(* the coverage binary was cut off, if invocations do not overlap: what     *)
(* lies beside the units does not keep measure_coverage from replaying      *)
(* them, and a queue is there only for an invocation whose HAS_DDFUZZ lets  *)
(* it be measured.                                                          *)
THEOREM UnitsMeasured == Spec => []UnitsAreMeasured
<1>1. (~overlapped => UnitInv) => UnitsAreMeasured
  <2>1. \A f \in Fuzzers : "write_env" \in Through[f]  BY ThroughFacts, Zenon
  <2> QED  BY <2>1, Zenon DEF UnitInv, UnitsAreMeasured, RunId
<1>2. Init => EarlyInv /\ QueueInv /\ UnitInv
  <2>1. Init => EarlyInv  BY DEF Init, EarlyInv, Past, Ended
  <2>2. Init => QueueInv  BY Zenon DEF Init, QueueInv, Past
  <2>3. Init => UnitInv  BY DEF Init, UnitInv, Through, Fuzzers
  <2> QED  BY <2>1, <2>2, <2>3, Zenon
<1>3. Types /\ EarlyInv /\ QueueInv /\ [Next]_vars => Types' /\ EarlyInv' /\ QueueInv'
  BY NextTypes, NextEarly, NextQueue, Zenon
<1>4. Types /\ QueueInv /\ (~overlapped => SeqInv) /\ (~overlapped => UnitInv) /\ [Next]_vars
        => (~overlapped => UnitInv)'
  BY OverlapStays, NextTypes, NextUnit, Zenon DEF SeqInv
<1> QED  BY <1>1, <1>2, <1>3, <1>4, InitTypes, SeqInvariant, PTL DEF Spec
=============================================================================
