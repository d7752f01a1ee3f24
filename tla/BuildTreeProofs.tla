-------------------------- MODULE BuildTreeProofs --------------------------
(***************************************************************************)
(* What the build scripts promise of the shared source trees, for any      *)
(* number of object files, with or without afl-clang-fast on the host, and *)
(* wherever the repository is on the host.                                 *)
(***************************************************************************)
EXTENDS BuildTree, TLAPS

\* The lists of sections a script can still have before it.
Agenda ==
    { << "lf", "wf", "ddf" >>, << "wf", "ddf" >>, << "asan", "ddf" >>, << "ddf" >>, << "cov" >> }

Steps ==
    { "preclean", "preclean_rm", "clean", "configure", "configured", "make", "link",
      "wipe", "wipe_rm", "done" }

Types ==
    /\ tree \in Trees /\ at \in Steps /\ rooted \subseteq Kinds
    /\ obj \in [Objs -> Flavours \cup {None}] /\ stale \subseteq Objs
    /\ DOMAIN bin = Flavours

Control ==
    /\ script = None <=> at = "done"
    /\ at # "done" => todo \in Agenda
    /\ at \in { "preclean", "preclean_rm" } => todo = Sections
    /\ at \in { "preclean_rm", "configure", "configured", "wipe_rm" } => tree = "sqlite3_full"
    /\ at \in { "wipe", "wipe_rm" } => InContainer /\ tree # "librhash"
    /\ todo = << "cov" >> /\ at # "done" => tree = "librhash"

\* What a section knows of the tree by the time it gets to a step.
TreeInv ==
    /\ HostOwnsTree
    /\ at = "make" => \A o \in Objs : obj[o] \in { None, Flavour } \/ o \in stale
    /\ at = "link" => lib \subseteq {Flavour}

\* Objects of root are in sqlite3_full only together with the Makefile of
\* the container: it is written before them and removed after them.
RootInv ==
    /\ tree = "sqlite3_full" /\ "products" \in rooted => makefile = "ddf" /\ ~HostAfl
    /\ at \in { "configure", "configured", "preclean_rm", "wipe_rm" } => "products" \notin rooted
    /\ at \in { "clean", "make", "link", "wipe" } /\ InContainer /\ tree = "sqlite3_full"
       => makefile = "ddf"
    /\ tree # "sqlite3_full" => rooted \subseteq {"products"}

Inv == Types /\ Control /\ TreeInv /\ RootInv /\ BinariesAreOwn

\* What the current section is, and what follows it.
LEMMA AgendaFacts ==
    ASSUME NEW q \in Agenda
    PROVE  /\ Head(q) \in Flavours
           /\ Len(q) = 1 => Tail(q) = << >>
           /\ Len(q) # 1 => /\ Tail(q) \in Agenda
                            /\ q[2] = Head(Tail(q))
                            /\ Head(q) \notin { "ddf", "cov" }
                            /\ Tail(q) # << "cov" >>
           /\ Head(q) = "ddf" => Len(q) = 1
           /\ Head(q) = "cov" => q = << "cov" >>
<1>1. CASE q = << "lf", "wf", "ddf" >>  BY <1>1 DEF Agenda, Flavours
<1>2. CASE q = << "wf", "ddf" >>  BY <1>2 DEF Agenda, Flavours
<1>3. CASE q = << "asan", "ddf" >>  BY <1>3 DEF Agenda, Flavours
<1>4. CASE q = << "ddf" >>  BY <1>4 DEF Agenda, Flavours
<1>5. CASE q = << "cov" >>  BY <1>5 DEF Agenda, Flavours
<1> QED  BY <1>1, <1>2, <1>3, <1>4, <1>5 DEF Agenda

LEMMA InitInv == Init => Inv
BY DEF Init, Inv, Types, Control, TreeInv, RootInv, BinariesAreOwn, HostOwnsTree, Steps, Trees

\* A script that starts its next section, or ends, keeps what the sections
\* know of the tree.
LEMMA NextSectionInv ==
    ASSUME Inv, at # "done", NextSection,
           UNCHANGED tree, DOMAIN bin' = Flavours,
           rooted' \subseteq rooted,
           "products" \in rooted' => UNCHANGED makefile,
           at \in { "clean", "configure", "link", "wipe", "wipe_rm" },
           obj' \in [Objs -> Flavours \cup {None}], stale' \subseteq Objs
    PROVE  Types' /\ Control' /\ TreeInv' /\ RootInv'
<1>1. todo \in Agenda  BY DEF Inv, Control
<1>2. /\ tree = "sqlite3_full" /\ "products" \in rooted' => makefile' = "ddf" /\ ~HostAfl
      /\ tree # "sqlite3_full" => rooted' \subseteq {"products"}
  BY DEF Inv, RootInv
<1>3. CASE Len(todo) = 1
  <2>1. at' = "done" /\ script' = None  BY <1>3 DEF NextSection
  <2> QED
    BY <1>2, <2>1 DEF Inv, Types, Control, TreeInv, RootInv, HostOwnsTree, Steps
<1>4. CASE Len(todo) # 1
  <2>1. /\ todo' = Tail(todo) /\ script' = script /\ at' = FirstStep(Head(todo'))
        /\ todo' \in Agenda /\ todo' # << "cov" >>
        /\ Flavour \notin { "ddf", "cov" }
    BY <1>1, <1>4, AgendaFacts DEF NextSection, Flavour
  <2>2. ~InContainer /\ at \in { "clean", "configure", "link" }
    BY <2>1 DEF InContainer, Inv, Control
  <2>3. Types'  BY <2>1 DEF Inv, Types, FirstStep, Steps
  <2>4. Control'  BY <2>1 DEF Inv, Control, FirstStep
  <2>5. tree # "librhash" => rooted' \subseteq {"tools"}
    BY <2>2 DEF Inv, TreeInv, HostOwnsTree
  <2>6. (at' = "configure" /\ tree' = "sqlite3_full" /\ InContainer') \/ at' = "clean"
    BY <2>1 DEF FirstStep, InContainer, Flavour
  <2>7. at' = "clean" => ~(InContainer' /\ tree' = "sqlite3_full")
    BY <2>1 DEF FirstStep, InContainer, Flavour
  <2>8. HostOwnsTree'  BY <2>5, <2>6 DEF HostOwnsTree
  <2>9. RootInv'  BY <1>2, <2>5, <2>6, <2>7 DEF RootInv
  <2> QED  BY <2>3, <2>4, <2>6, <2>8, <2>9 DEF TreeInv
<1> QED  BY <1>3, <1>4

LEMMA NextInv == Inv /\ [Next]_vars => Inv'
<1> SUFFICES ASSUME Inv, [Next]_vars PROVE Inv'  OBVIOUS
<1> USE DEF Inv
<1>1. CASE StartBuild
  <2>1. Sections \in Agenda /\ Sections # << "cov" >>  BY DEF Sections, Agenda
  <2> QED
    BY <1>1, <2>1 DEF StartBuild, Types, Control, TreeInv, RootInv, HostOwnsTree, BinariesAreOwn,
                      Steps, Sections, InContainer, Flavour, None
<1>2. CASE StartBenchmark
  BY <1>2 DEF StartBenchmark, Types, Control, TreeInv, RootInv, HostOwnsTree, BinariesAreOwn,
              Steps, Agenda, InContainer, Flavour, None
<1>3. CASE PreClean
  <2>1. /\ todo \in Agenda /\ todo = Sections /\ todo # << "cov" >>
        /\ Flavour \in { "lf", "asan" } /\ FirstStep(Flavour) = "clean" /\ ~InContainer
    BY <1>3 DEF PreClean, Control, Agenda, Sections, Flavour, FirstStep, InContainer
  <2>2. /\ todo' = todo /\ script' = script /\ tree' = tree /\ Sections' = Sections
        /\ ~InContainer' /\ bin' = bin /\ makefile' = makefile
    BY <1>3, <2>1 DEF PreClean, InContainer, Flavour, Sections
  <2>3. /\ rooted' \subseteq rooted
        /\ obj' \in [Objs -> Flavours \cup {None}] /\ stale' \subseteq Objs
    BY <1>3 DEF PreClean, Removed, Kept, Types
  <2>4. CASE rooted = {} \/ tree = "librhash"
    <3>1. at' = "clean" /\ rooted' = rooted  BY <1>3, <2>1, <2>4 DEF PreClean
    <3>2. HostOwnsTree'  BY <2>2, <2>4, <3>1 DEF HostOwnsTree
    <3> QED
      BY <1>3, <2>1, <2>2, <2>3, <3>1, <3>2
      DEF PreClean, Types, Control, TreeInv, RootInv, BinariesAreOwn, Steps
  <2>5. CASE ~(rooted = {} \/ tree = "librhash")
    <3>1. "products" \notin rooted'
      BY <1>3, <2>5 DEF PreClean, CleanRule, RootInv, Flavours
    <3>2. /\ at' = IF tree = "re2_src" THEN "clean" ELSE "preclean_rm"
          /\ tree # "re2_src" => tree = "sqlite3_full"
      BY <1>3, <2>1, <2>5 DEF PreClean, Types, Trees
    <3>3. HostOwnsTree'
      BY <2>2, <2>3, <3>1, <3>2 DEF HostOwnsTree, RootInv
    <3> QED
      BY <1>3, <2>1, <2>2, <2>3, <3>1, <3>2, <3>3
      DEF PreClean, Types, Control, TreeInv, RootInv, BinariesAreOwn, Steps
  <2> QED  BY <2>4, <2>5
<1>4. CASE PreCleanRemove
  <2>1. /\ todo \in Agenda /\ todo = Sections /\ todo # << "cov" >> /\ todo' = todo
        /\ at' = "clean" /\ ~InContainer /\ ~InContainer'
    BY <1>4 DEF PreCleanRemove, Control, Agenda, Sections, Flavour, FirstStep, InContainer
  <2>2. rooted' \subseteq {"tools"} /\ rooted' \subseteq rooted
    BY <1>4 DEF PreCleanRemove, RootInv, Types, Kinds
  <2> QED
    BY <1>4, <2>1, <2>2 DEF PreCleanRemove, Types, Control, TreeInv, RootInv, HostOwnsTree,
                            BinariesAreOwn, Steps
<1>5. CASE DoClean
  <2>1. todo \in Agenda /\ todo' = todo /\ InContainer' = InContainer
    BY <1>5 DEF DoClean, Control, InContainer, Flavour
  <2>2. /\ obj' \in [Objs -> Flavours \cup {None}] /\ stale' \subseteq Objs
        /\ rooted' \subseteq rooted
    BY <1>5 DEF DoClean, Clean, Removed, Kept, Types
  <2>3. at' = "make" => Removed /\ rooted' = rooted \ {"products"}
    BY <1>5 DEF DoClean, Clean, CleanRule, TreeInv, HostOwnsTree, Types, Trees
  <2>4. at' = "make" => \A o \in Objs : obj'[o] = None
    BY <2>3 DEF Removed
  <2>5. HostOwnsTree'
    BY <1>5, <2>1, <2>2, <2>3 DEF DoClean, HostOwnsTree, TreeInv, RootInv
  <2>6. RootInv'
    BY <1>5, <2>1, <2>2, <2>5 DEF DoClean, HostOwnsTree, RootInv
  <2> QED
    BY <1>5, <2>1, <2>2, <2>4, <2>5, <2>6 DEF DoClean, Types, Control, TreeInv,
          BinariesAreOwn, Steps, InContainer, Flavour
<1>6. CASE OpenMakefile
  <2>1. todo' = todo /\ InContainer' = InContainer
    BY <1>6 DEF OpenMakefile, InContainer, Flavour
  <2>2. /\ rooted' \subseteq rooted \cup { "tools", "config" }
        /\ ~InContainer => rooted' = rooted
    BY <1>6 DEF OpenMakefile
  <2>3. RootInv'  BY <1>6, <2>2 DEF OpenMakefile, RootInv, Control
  <2> QED
    BY <1>6, <2>1, <2>2, <2>3 DEF OpenMakefile, Types, Kinds, Control, TreeInv, HostOwnsTree,
                                  BinariesAreOwn, Steps
<1>7. CASE WriteMakefile
  <2>1. todo \in Agenda /\ todo' = todo /\ Flavour \in Flavours /\ InContainer' = InContainer
    BY <1>7, AgendaFacts DEF WriteMakefile, Control, Flavour, InContainer
  <2>2. RootInv'  BY <1>7, <2>1 DEF WriteMakefile, RootInv, Control, InContainer
  <2> QED
    BY <1>7, <2>1, <2>2 DEF WriteMakefile, Types, Control, TreeInv, HostOwnsTree, BinariesAreOwn,
                            Steps, InContainer, Flavour
<1>8. CASE Compile
  <2>1. /\ todo \in Agenda /\ todo' = todo /\ Flavour \in Flavours /\ Flavour' = Flavour
        /\ InContainer' = InContainer
    BY <1>8, AgendaFacts DEF Compile, Control, Flavour, InContainer
  <2>2. PICK o \in ToCompile : obj' = [obj EXCEPT ![o] = Flavour] /\ stale' = stale \ {o}
    BY <1>8 DEF Compile
  <2>3. o \in Objs  BY DEF ToCompile, Types
  <2>4. Types'  BY <1>8, <2>1, <2>2, <2>3 DEF Compile, Own, Types, Kinds
  <2>5. \A p \in Objs : obj'[p] \in { None, Flavour' } \/ p \in stale'
    BY <1>8, <2>1, <2>2, <2>3 DEF Compile, Types, TreeInv
  <2>6. HostOwnsTree'  BY <1>8, <2>1 DEF Compile, Own, HostOwnsTree, TreeInv
  <2>7. RootInv'  BY <1>8, <2>1 DEF Compile, Own, RootInv, InContainer
  <2> QED
    BY <1>8, <2>1, <2>4, <2>5, <2>6, <2>7 DEF Compile, Control, TreeInv, BinariesAreOwn
<1>9. CASE Archive
  <2>1. todo' = todo /\ Flavour' = Flavour /\ InContainer' = InContainer
    BY <1>9 DEF Archive, Flavour, InContainer
  <2>2. lib' \subseteq {Flavour}
    BY <1>9 DEF Archive, ToCompile, TreeInv
  <2>3. HostOwnsTree'  BY <1>9, <2>1 DEF Archive, Own, HostOwnsTree, TreeInv
  <2>4. RootInv'  BY <1>9, <2>1 DEF Archive, Own, RootInv, InContainer
  <2> QED
    BY <1>9, <2>1, <2>2, <2>3, <2>4 DEF Archive, Own, Types, Kinds, Control, TreeInv,
                                        BinariesAreOwn, Steps
<1>10. CASE Link
  <2>1. todo \in Agenda /\ Flavour \in Flavours  BY <1>10, AgendaFacts DEF Link, Control, Flavour
  <2>2. BinariesAreOwn' /\ DOMAIN bin' = Flavours
    BY <1>10, <2>1 DEF Link, BinariesAreOwn, TreeInv, Types
  <2>3. CASE InContainer /\ tree # "librhash"
    BY <1>10, <2>1, <2>2, <2>3 DEF Link, Types, Control, TreeInv, RootInv, HostOwnsTree, Steps,
                                   InContainer, Flavour
  <2>4. CASE ~(InContainer /\ tree # "librhash")
    BY <1>10, <2>2, <2>4, NextSectionInv DEF Link, Types
  <2> QED  BY <2>3, <2>4
<1>11. CASE Wipe
  <2>1. /\ rooted' \subseteq rooted /\ "products" \notin rooted' /\ InContainer
        /\ obj' \in [Objs -> Flavours \cup {None}] /\ stale' \subseteq Objs
    BY <1>11 DEF Wipe, Removed, Control
  <2>2. CASE tree = "re2_src"
    BY <1>11, <2>1, <2>2, NextSectionInv DEF Wipe, BinariesAreOwn, Types
  <2>3. CASE tree # "re2_src"
    <3>1. /\ at' = "wipe_rm" /\ script' = script /\ todo' = todo /\ tree' = tree /\ bin' = bin
          /\ makefile' = makefile /\ InContainer'
      BY <1>11, <2>1, <2>3 DEF Wipe, InContainer, Flavour
    <3>2. tree = "sqlite3_full"
      BY <1>11, <2>3 DEF Wipe, Types, Trees, Control
    <3> QED
      BY <1>11, <2>1, <3>1, <3>2 DEF Wipe, Types, Control, TreeInv, RootInv, HostOwnsTree,
                                     BinariesAreOwn, Steps
  <2> QED  BY <2>2, <2>3
<1>12. CASE WipeRemove
  <2>1. rooted' \subseteq rooted /\ "products" \notin rooted'
    BY <1>12 DEF WipeRemove, RootInv
  <2> QED  BY <1>12, <2>1, NextSectionInv DEF WipeRemove, BinariesAreOwn, Types
<1>13. CASE SkipDDFuzz
  <2>1. at \in { "clean", "configure" }  BY <1>13 DEF SkipDDFuzz, FirstStep
  <2> QED  BY <1>13, <2>1, NextSectionInv DEF SkipDDFuzz, BinariesAreOwn, Types
<1>14. CASE Stop
  BY <1>14 DEF Stop, Types, Control, TreeInv, RootInv, HostOwnsTree, BinariesAreOwn, Steps
<1>15. CASE UNCHANGED vars
  BY <1>15 DEF vars, Types, Control, TreeInv, RootInv, HostOwnsTree, BinariesAreOwn, InContainer,
               Flavour, Sections
<1> QED
  BY <1>1, <1>2, <1>3, <1>4, <1>5, <1>6, <1>7, <1>8, <1>9, <1>10, <1>11, <1>12, <1>13, <1>14,
     <1>15 DEF Next

(* A binary contains only objects compiled with its own instrumentation,   *)
(* whatever the sections of build_sqlite.sh, build_rhash.sh, build_re2.sh  *)
(* and the coverage build of benchmark_rhash.sh left in the tree, and      *)
(* wherever they were cut off.                                             *)
THEOREM BinariesOwn == Spec => []BinariesAreOwn
<1>1. Inv => BinariesAreOwn  BY DEF Inv
<1> QED  BY <1>1, InitInv, NextInv, PTL DEF Spec

(* After the one pre-clean at the start of build_sqlite.sh or build_re2.sh *)
(* no section on the host meets files of the container's root that it has  *)
(* to replace or to remove, although the pre-clean of sqlite removes the   *)
(* objects only with a Makefile that works in the container.               *)
THEOREM HostOwns == Spec => []HostOwnsTree
<1>1. Inv => HostOwnsTree  BY DEF Inv, TreeInv
<1> QED  BY <1>1, InitInv, NextInv, PTL DEF Spec
=============================================================================
