----------------------------- MODULE MCPrepare -----------------------------
(***************************************************************************)
(* Prepare on a small build graph: three rules in unsorted XML order with *)
(* every linker-script attribute, one denylisted; a fourth label bazel does *)
(* not know (for --target); suite files of every naming case, one of them *)
(* denylisted.                                                             *)
(***************************************************************************)
EXTENDS Prepare

MCStdLabels == {1, 2, 3, 4}

\* 10 and 11 are rv32 tests, 12 is an rv32 .dump file, 13 is another file.
MCFileNames == {10, 11, 12, 13}
MCRv32Names == {10, 11, 12}
MCDumpNames == {12}
MCDenylist == {2, 11}

\* Every answer of bazel query that lists rules 3, 1, 2 in that order.
MCQueries ==
    { << [label |-> 3, ls |-> a], [label |-> 1, ls |-> b], [label |-> 2, ls |-> c] >> :
        a \in LinkerScripts, b \in LinkerScripts, c \in LinkerScripts }

MCDirs == {1}

\* Two output directories, each possibly holding a file of the same name.
MCDirsTwo == {1, 2}
MCFileNamesOne == {10}
MCNoDumps == {}

MCLimits == {1, 2}
MCLimitsZero == {0}
=============================================================================
