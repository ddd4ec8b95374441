------------------------------ MODULE Prepare ------------------------------
(***************************************************************************)
(* TargetCatalog and ArtifactResolver: how main (660-690) turns the        *)
(* command line and the build graph into the list of tests to run.         *)
(*                                                                         *)
(*   get_targets (92-143)      the standard targets: the query's rules     *)
(*                             minus the denylist, with the default linker *)
(*                             script, sorted, cut to --limit;             *)
(*   get_riscv_test_artifacts  the suite: every file named rv32* (not      *)
(*   (345-380)                 *.dump) under the suite's output            *)
(*                             directories, as (pseudo-target, path)       *)
(*                             pairs, minus the denylist, sorted;          *)
(*   prepare_tests (449-490)   the suite, then the standard targets whose  *)
(*                             ELF resolves (get_elf_source_path,          *)
(*                             159-174), filtered by --target, cut to      *)
(*                             --limit again.                              *)
(*                                                                         *)
(* A target label is a natural number ordered as its string is; a suite    *)
(* file is named by a natural, and its pseudo-target                       *)
(* "//third_party/riscv-tests:" ++ name is injective in the name, so the   *)
(* name stands for it.  The query's XML is the sequence of its rules, the  *)
(* linker-script attribute of a rule being absent, the default             *)
(* <pkg>:<name>.ld, or another one.                                        *)
(***************************************************************************)
EXTENDS Integers, Sequences, SequencesExt

CONSTANTS
    StdLabels,   \* labels of coralnpu_v2_binary rules
    FileNames,   \* names of files under the suite's output directories
    Rv32Names,   \* the names that start with "rv32"
    DumpNames,   \* the names that end with ".dump"
    Denylist,    \* DENYLIST (33-68)
    Dirs,        \* the suite's output directories (their paths, ordered)
    Queries,     \* the XML answers bazel query may give
    Limits,      \* the values of --limit (type=int) besides None
    None         \* an option that is not given

LinkerScripts == {"absent", "default", "custom"}

Rule == [label : StdLabels, ls : LinkerScripts]

\* The query's XML is a sequence of rules, and a directory holds finitely
\* many files.
ASSUME PrepareAssumption ==
    /\ StdLabels \subseteq Nat /\ FileNames \subseteq Nat /\ Dirs \subseteq Nat
    /\ StdLabels \cap FileNames = {}
    /\ Rv32Names \subseteq FileNames /\ DumpNames \subseteq FileNames
    /\ Limits \subseteq Int /\ None \notin Int
    /\ Queries \subseteq Seq(Rule)
    /\ IsFiniteSet(FileNames) /\ IsFiniteSet(Dirs)

\* A file the walk of 370-379 meets: its directory and its name.
File == [dir : Dirs, name : FileNames]

Args == [limit : Limits \cup {None}, target : StdLabels \cup FileNames \cup {None},
         list : BOOLEAN, skipRiscv : BOOLEAN]

VARIABLES
    ppc,       \* "start", "discovered", "listed", "prepared" or "exited"
    args,      \* the parsed command line
    query,     \* the rules bazel query returns, in XML order
    files,     \* the files under the suite's output directories after the build
    standard,  \* standard_targets, the result of get_targets
    elf,       \* the standard targets whose ELF get_elf_source_path finds
    tests      \* tests_to_run, as the sequence of its targets

prepVars == <<ppc, args, query, files, standard, elf, tests>>

PrepareTypeOK ==
    /\ ppc \in {"start", "discovered", "listed", "prepared", "exited"}
    /\ args \in Args
    /\ query \in Queries
    /\ files \subseteq File
    /\ standard \in Seq(StdLabels \cup FileNames)
    /\ elf \subseteq StdLabels
    /\ tests \in Seq(StdLabels \cup FileNames)

-----------------------------------------------------------------------------
(* The pure parts *)

\* A list comprehension [x for x in s if x in T]: SelectSeq of the Sequences
\* module, with the test given as the set of what it keeps, written as the
\* recursive function that defines SelectSeq so that proofs can unfold it.
FilterSeq(s, T) ==
    LET kept[i \in 0..Len(s)] ==
            IF i = 0 THEN << >>
            ELSE IF s[i] \in T THEN Append(kept[i - 1], s[i]) ELSE kept[i - 1]
    IN  kept[Len(s)]

\* sorted(s) for a strict total order R, given as the set of pairs it
\* relates: SortSeq of the TLC module, with its permutations of 1..Len(s)
\* taken as the bijections of Functions so that proofs can unfold it.
SortedSeq(s, R) ==
    LET idx == 1..Len(s)
        perm == CHOOSE p \in Bijection(idx, idx) :
                  \A i, j \in idx : i < j => << s[p[i]], s[p[j]] >> \in R
                                             \/ s[p[i]] = s[p[j]]
    IN  [i \in idx |-> s[perm[i]]]

\* s[:limit] under `if limit:' (141-142, 487-488): None and 0 keep all of s,
\* a negative limit drops that many elements from the end.
PyHead(s, limit) ==
    IF limit = None \/ limit = 0 THEN s
    ELSE SubSeq(s, 1, IF limit >= 0 THEN Min({limit, Len(s)})
                      ELSE Max({Len(s) + limit, 0}))

\* Mutation of Accepted: the linker-script test dropped.
AcceptedAnyScript(r) == r.label \notin Denylist /\ r.ls # "absent"

\* The loop body of 107-136: a rule is kept when it is not denylisted and
\* its linker script is the default one.
Accepted(r) == r.label \notin Denylist /\ r.ls = "default"

\* Labels compare as their strings do.
LabelLess == {ab \in Nat \X Nat : ab[1] < ab[2]}

\* Mutation of GetTargets: the `if target:' test dropped, [target] always.
GetTargetsAlwaysSingle(q, limit, target) == << target >>

\* get_targets (92-143).
GetTargets(q, limit, target) ==
    IF target # None THEN << target >>
    ELSE PyHead(SortedSeq(LET kept == FilterSeq(q, {r \in Rule : Accepted(r)})
                          IN  [k \in DOMAIN kept |-> kept[k].label], LabelLess),
                limit)

\* Tuples compare element by element: (pseudo_target, full_path).
PairLess(a, b) == a[1] < b[1] \/ (a[1] = b[1] /\ a[2] < b[2])

ArtifactLess == {ab \in (Nat \X Nat) \X (Nat \X Nat) : PairLess(ab[1], ab[2])}

\* Mutation of SuiteKeeps: the .dump test dropped.
SuiteKeepsDumps(f) == f.name \in Rv32Names /\ f.name \notin Denylist

\* Mutation of SuiteKeeps: the DENYLIST test of 377 dropped.
SuiteKeepsDenylisted(f) == f.name \notin DumpNames /\ f.name \in Rv32Names

\* The tests of 370-378 on one file.
SuiteKeeps(f) ==
    /\ f.name \notin DumpNames
    /\ f.name \in Rv32Names
    /\ f.name \notin Denylist

\* get_riscv_test_artifacts (345-380); ok is FALSE when the cquery fails.
SuiteArtifacts(ok, fs) ==
    IF ~ok THEN << >>
    ELSE SortedSeq(SetToSeq({<< f.name, f.dir >> : f \in {g \in fs : SuiteKeeps(g)}}),
                   ArtifactLess)

\* `if args.target and args.target != t: continue' (471-472, 479-480).
Selected(a, t) == a.target = None \/ a.target = t

\* Mutation of PrepareTests: the `if elf:' test of 483 dropped, so every
\* selected standard target is run.
PrepareTestsUnresolved(a, std, ok, fs, resolved) ==
    LET riscv == IF a.skipRiscv THEN << >>
                 ELSE LET kept == FilterSeq(SuiteArtifacts(ok, fs),
                                   {p \in FileNames \X Dirs : Selected(a, p[1])})
                      IN  [k \in DOMAIN kept |-> kept[k][1]]
    IN  PyHead(riscv \o FilterSeq(std, {t \in Range(std) : Selected(a, t)}), a.limit)

\* prepare_tests (449-490), given the suite's query outcome and the set of
\* targets whose ELF resolves.
PrepareTests(a, std, ok, fs, resolved) ==
    LET riscv == IF a.skipRiscv THEN << >>
                 ELSE LET kept == FilterSeq(SuiteArtifacts(ok, fs),
                                   {p \in FileNames \X Dirs : Selected(a, p[1])})
                      IN  [k \in DOMAIN kept |-> kept[k][1]]
        stdRun == FilterSeq(std, {t \in resolved : Selected(a, t)})
    IN  PyHead(riscv \o stdRun, a.limit)

-----------------------------------------------------------------------------
(* main, up to run_full_regression *)

PrepInit ==
    /\ ppc = "start"
    /\ args \in Args
    /\ query \in Queries
    /\ files \in SUBSET File
    /\ standard = << >>
    /\ elf = {}
    /\ tests = << >>

\* get_targets returns (674).
Discover ==
    /\ ppc = "start"
    /\ standard' = GetTargets(query, args.limit, args.target)
    /\ ppc' = "discovered"
    /\ UNCHANGED <<args, query, files, elf, tests>>

\* bazel query fails or its XML does not parse (102-103): the exception
\* ends the process with exit 1.
QueryFails ==
    /\ ppc = "start"
    /\ args.target = None
    /\ ppc' = "exited"
    /\ UNCHANGED <<args, query, files, standard, elf, tests>>

\* --list-targets: the targets are logged and main returns (676-682).
ListTargets ==
    /\ ppc = "discovered"
    /\ args.list
    /\ ppc' = "listed"
    /\ UNCHANGED <<args, query, files, standard, elf, tests>>

\* prepare_tests (684): the build may fail for any target, which only
\* warns (460-463); the suite's cquery succeeds or not (356-364); the ELF of
\* a standard target resolves only if bazel knows the label (159-174).
Prepare ==
    /\ ppc = "discovered"
    /\ ~args.list
    /\ \E ok \in BOOLEAN, resolved \in SUBSET {r.label : r \in Range(query)} :
         /\ elf' = resolved
         /\ tests' = PrepareTests(args, standard, ok, files, resolved)
    /\ ppc' = "prepared"
    /\ UNCHANGED <<args, query, files, standard>>

\* main has handed tests_to_run on, or has ended.
Done ==
    /\ ppc \in {"listed", "prepared", "exited"}
    /\ UNCHANGED prepVars

PrepNext == Discover \/ QueryFails \/ ListTargets \/ Prepare \/ Done

PrepSpec == PrepInit /\ [][PrepNext]_prepVars

-----------------------------------------------------------------------------
(* Properties *)

\* Spec 4.1, the reference definition of discover(limit?, single_target?):
\* the single target alone, or the sorted non-denylisted candidates with the
\* default linker script, truncated to the limit if one is given.
Discovered(q, limit, target) ==
    LET cands == {r.label : r \in {r \in Range(q) :
                                     r.label \notin Denylist /\ r.ls = "default"}}
        sorted == SetToSortSeq(cands, <)
    IN  IF target # None THEN << target >>
        ELSE IF limit = None THEN sorted
        ELSE SubSeq(sorted, 1, Min({Max({limit, 0}), Len(sorted)}))

\* get_targets returns what spec 4.1 says discover returns, so --list-targets
\* prints and prepare_tests starts from the specified catalog.
CatalogMatchesSpec ==
    ppc \in {"discovered", "listed", "prepared"} =>
        standard = Discovered(query, args.limit, args.target)

\* Spec 6 (denylist exclusion): without --target no denylisted target is
\* listed by --list-targets or handed to the regression, from either source.
DenylistExcluded ==
    args.target = None =>
        /\ ppc \in {"discovered", "listed", "prepared"} =>
             \A k \in DOMAIN standard : standard[k] \notin Denylist
        /\ ppc = "prepared" => \A k \in DOMAIN tests : tests[k] \notin Denylist

\* Spec 3 ("a target absent from the catalog never appears in the report"):
\* every test is a discovered standard target or a suite file of the rv32
\* convention that is not a dump.
TestsFromCatalog ==
    ppc = "prepared" =>
        \A k \in DOMAIN tests :
            \/ tests[k] \in Range(standard)
            \/ \E f \in files : f.name = tests[k]
                                /\ tests[k] \in Rv32Names \ DumpNames

\* Spec 2 and 3: a target names one test binary and yields exactly one row,
\* so tests_to_run holds no target twice.
UniqueTests ==
    ppc = "prepared" => \A j, k \in DOMAIN tests : j # k => tests[j] # tests[k]
=============================================================================
