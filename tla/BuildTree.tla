----------------------------- MODULE BuildTree -----------------------------
(***************************************************************************)
(* The source trees in which build_sqlite.sh, build_rhash.sh and           *)
(* build_re2.sh compile the library under test.  Every section of a script *)
(* compiles the same files in the same place with another instrumentation, *)
(* the DDFuzz section as root if it runs in the container, and             *)
(* benchmark_rhash.sh compiles them once more for coverage.  What a binary *)
(* contains therefore depends on what the sections before it left there,   *)
(* and a script may end anywhere: a command fails or the process is        *)
(* killed.                                                                 *)
(*                                                                         *)
(* An object is abstracted to the instrumentation it was compiled with, an *)
(* archive or a binary to the set of those of its objects.                 *)
(***************************************************************************)
EXTENDS Integers, Sequences

CONSTANTS
    Objs,       \* the object files of a library
    HostAfl,    \* is afl-clang-fast installed on the host?
    SamePath    \* is the repository at /workspaces/CyberSecurity on the host too?

ASSUME ObjsAssumption == Objs # {} /\ HostAfl \in BOOLEAN /\ SamePath \in BOOLEAN

None == "none"          \* no such file
Torn == "torn"          \* a Makefile cut off while configure wrote it
Trees == { "sqlite3_full", "librhash", "re2_src" }

\* "asan" is the library that the LibFuzzer and the WingFuzz binary of re2
\* share, "cov" the one of rhash_cov_replay.
Flavours == { "lf", "wf", "asan", "ddf", "cov" }

\* "products" are what `make clean' removes (objects, the archive, tsrc/,
\* obj/), "config" the Makefile, sqlite_cfg.h and sqlite3.pc, "tools" what
\* neither removes (jimsh and jimsh0: programs that are only executed).
Kinds == { "products", "config", "tools" }

VARIABLES
    tree,       \* the tree the script works in
    script,     \* None, "build" or "benchmark"
    todo,       \* the sections still to come, the current one first
    at,         \* the next step of the current section
    makefile,   \* Makefile of sqlite3_full: what it was configured for
    obj,        \* the object files
    stale,      \* the object files older than something they depend on
    rooted,     \* the kinds of files of the container's root that are there
    lib,        \* the archive
    bin         \* the binaries

vars == << tree, script, todo, at, makefile, obj, stale, rooted, lib, bin >>

Sections == IF tree = "re2_src" THEN << "asan", "ddf" >> ELSE << "lf", "wf", "ddf" >>

Flavour == Head(todo)

InContainer == Flavour = "ddf" /\ ~HostAfl

\* The first step of a section.  In the container sqlite3_full is
\* configured before it is cleaned.
FirstStep(f) ==
    IF f = "ddf" /\ ~HostAfl /\ tree = "sqlite3_full" THEN "configure" ELSE "clean"

Init ==
    /\ tree \in Trees /\ script = None /\ todo = << >> /\ at = "done"
    /\ makefile = None /\ obj = [o \in Objs |-> None] /\ stale = {}
    /\ rooted = {} /\ lib = {} /\ bin = [f \in Flavours |-> {}]

StartBuild ==
    /\ script = None
    /\ script' = "build" /\ todo' = Sections /\ at' = "preclean"
    /\ UNCHANGED << tree, makefile, obj, stale, rooted, lib, bin >>

\* Only the coverage binary of RHash is built in the tree, and only if it is
\* not there.
StartBenchmark ==
    /\ script = None /\ tree = "librhash" /\ bin["cov"] = {}
    /\ script' = "benchmark" /\ todo' = << "cov" >> /\ at' = "clean"
    /\ UNCHANGED << tree, makefile, obj, stale, rooted, lib, bin >>

Removed == obj' = [o \in Objs |-> None] /\ lib' = {} /\ stale' = {}
Kept    == UNCHANGED << obj, lib, stale >>

\* Can `make clean' of the tree do its work?  That of sqlite3_full is in the
\* generated Makefile, which includes main.mk by the absolute path it had
\* where configure ran: in the container or on the host.
CleanRule(container) ==
    \/ tree # "sqlite3_full"
    \/ /\ makefile \in Flavours
       /\ SamePath \/ container = (makefile = "ddf" /\ ~HostAfl)

\* Mutant: the Makefile is removed before `make clean' could read it.
PreCleanLate ==
    /\ at = "preclean"
    /\ IF rooted = {} \/ tree = "librhash"
       THEN at' = FirstStep(Flavour) /\ UNCHANGED << makefile, obj, lib, stale, rooted >>
       ELSE IF tree = "re2_src"
       THEN at' = FirstStep(Flavour) /\ Removed /\ rooted' = {} /\ UNCHANGED makefile
       ELSE at' = "preclean_rm" /\ makefile' = None /\ Kept /\ UNCHANGED rooted
    /\ UNCHANGED << tree, script, todo, bin >>

\* If there are files of root the container removes them, as root: obj/ in
\* re2_src; in sqlite3_full what `make clean' removes, if it can (its error
\* is ignored), and then the configuration.
PreClean ==
    /\ at = "preclean"
    /\ IF rooted = {} \/ tree = "librhash"
       THEN at' = FirstStep(Flavour) /\ UNCHANGED << obj, lib, stale, rooted >>
       ELSE /\ at' = IF tree = "re2_src" THEN FirstStep(Flavour) ELSE "preclean_rm"
            /\ IF CleanRule(TRUE)
               THEN Removed /\ rooted' = rooted \ {"products"}
               ELSE Kept /\ UNCHANGED rooted
    /\ UNCHANGED << tree, script, todo, makefile, bin >>

PreCleanRemove ==
    /\ at = "preclean_rm"
    /\ makefile' = None /\ rooted' = rooted \ {"config"}
    /\ at' = FirstStep(Flavour)
    /\ UNCHANGED << tree, script, todo, obj, lib, stale, bin >>

\* Mutant: only the archive is removed.
CleanArchive == lib' = {} /\ UNCHANGED << obj, stale, rooted >>

\* `rm -f *.o librhash.a' needs only the right to write to the directory;
\* `make clean' by the host cannot remove what is in directories of root.
Clean ==
    IF /\ CleanRule(InContainer)
       /\ InContainer \/ "products" \notin rooted \/ tree = "librhash"
    THEN Removed /\ rooted' = rooted \ {"products"}
    ELSE Kept /\ UNCHANGED rooted

\* An error of `make clean' is ignored, but not in the container of sqlite.
DoClean ==
    /\ at = "clean"
    /\ InContainer => CleanRule(TRUE)
    /\ Clean
    /\ at' = IF tree = "sqlite3_full" /\ ~InContainer THEN "configure" ELSE "make"
    /\ UNCHANGED << tree, script, todo, makefile, bin >>

\* configure opens the Makefile for writing, in place if there is one: then
\* it keeps its owner.  It may build jimsh0.
OpenMakefile ==
    /\ at = "configure"
    /\ makefile' = Torn /\ at' = "configured"
    /\ \E tools \in SUBSET {"tools"} :
          rooted' = IF ~InContainer THEN rooted
                    ELSE rooted \cup tools \cup (IF makefile = None THEN {"config"} ELSE {})
    /\ UNCHANGED << tree, script, todo, obj, stale, lib, bin >>

\* Every object of sqlite depends on .main.mk.checks and that on the
\* Makefile.
WriteMakefile ==
    /\ at = "configured"
    /\ makefile' = Flavour
    /\ stale' = { o \in Objs : obj[o] # None }
    /\ at' = IF InContainer THEN "clean" ELSE "make"
    /\ UNCHANGED << tree, script, todo, obj, rooted, lib, bin >>

ToCompile == { o \in Objs : obj[o] = None } \cup stale

\* What the container makes is root's.
Own == rooted' = IF InContainer THEN rooted \cup {"products"} ELSE rooted

\* make compiles what is missing or stale, in any order (-j).
Compile ==
    /\ at = "make"
    /\ \E o \in ToCompile :
          /\ obj' = [obj EXCEPT ![o] = Flavour]
          /\ stale' = stale \ {o}
    /\ Own
    /\ UNCHANGED << tree, script, todo, at, makefile, lib, bin >>

\* ... and then the archive; one that is newer than all its objects was made
\* of them.
Archive ==
    /\ at = "make" /\ ToCompile = {}
    /\ lib' = { obj[o] : o \in Objs }
    /\ Own
    /\ at' = "link"
    /\ UNCHANGED << tree, script, todo, makefile, obj, stale, bin >>

\* The next section, or the end of the script.
NextSection ==
    /\ todo' = Tail(todo)
    /\ IF Len(todo) = 1
       THEN script' = None /\ at' = "done"
       ELSE script' = script /\ at' = FirstStep(todo[2])

Link ==
    /\ at = "link"
    /\ bin' = [bin EXCEPT ![Flavour] = lib]
    /\ IF InContainer /\ tree # "librhash"
       THEN at' = "wipe" /\ UNCHANGED << script, todo >>
       ELSE NextSection
    /\ UNCHANGED << tree, makefile, obj, stale, rooted, lib >>

\* The container removes what it made: obj/ in re2_src; in sqlite3_full what
\* `make clean' removes, and then the configuration.
Wipe ==
    /\ at = "wipe" /\ CleanRule(TRUE)
    /\ Removed
    /\ rooted' = rooted \ {"products"}
    /\ IF tree = "re2_src" THEN NextSection ELSE at' = "wipe_rm" /\ UNCHANGED << script, todo >>
    /\ UNCHANGED << tree, makefile, bin >>

WipeRemove ==
    /\ at = "wipe_rm"
    /\ makefile' = None /\ rooted' = rooted \ {"config"}
    /\ NextSection
    /\ UNCHANGED << tree, obj, lib, stale, bin >>

\* Without afl-clang-fast and without the image DDFuzz is left out.
SkipDDFuzz ==
    /\ script = "build" /\ at = FirstStep("ddf") /\ todo = << "ddf" >> /\ ~HostAfl
    /\ NextSection
    /\ UNCHANGED << tree, makefile, obj, stale, rooted, lib, bin >>

\* A command fails, or the script is killed.
Stop ==
    /\ script # None
    /\ script' = None /\ todo' = << >> /\ at' = "done"
    /\ UNCHANGED << tree, makefile, obj, stale, rooted, lib, bin >>

Next ==
    \/ StartBuild \/ StartBenchmark
    \/ PreClean \/ PreCleanRemove \/ DoClean \/ OpenMakefile \/ WriteMakefile
    \/ Compile \/ Archive \/ Link \/ Wipe \/ WipeRemove \/ SkipDDFuzz \/ Stop

Spec == Init /\ [][Next]_vars

-----------------------------------------------------------------------------

(* Whatever scripts ran before and wherever they ended, a binary contains  *)
(* only objects compiled with its own instrumentation: LibFuzzer never     *)
(* runs code built for DDFuzz or for coverage, and coverage is measured    *)
(* with coverage code (the sections of build_sqlite.sh, build_rhash.sh and *)
(* build_re2.sh, and "overwriting librhash.a here is safe",                *)
(* benchmark_rhash.sh 56-57).                                              *)
BinariesAreOwn == \A f \in Flavours : bin[f] \subseteq {f}

(* A section on the host never works among files of root that it has to    *)
(* replace or to remove, and could not: what `make clean' removes and what *)
(* configure writes.  The pre-clean of build_sqlite.sh 30-44 and           *)
(* build_re2.sh 24-30 is done once, before the first section, and that of  *)
(* sqlite removes the objects only while it has a Makefile that works in   *)
(* the container; wherever the scripts were cut off before, it has.  (The  *)
(* host removes those of librhash itself.)                                 *)
HostOwnsTree ==
    \/ at \in { "configure", "configured", "make", "link" } /\ ~InContainer
    \/ at = "clean" /\ ~InContainer /\ tree # "librhash"
    => rooted \subseteq {"tools"}
=============================================================================
