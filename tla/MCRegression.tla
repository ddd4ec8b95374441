---------------------------- MODULE MCRegression ----------------------------
(***************************************************************************)
(* Regression over three labels, two of which sanitise to the same file   *)
(* name (//a:a_a and //a/a:a both give a_a_a), with one label in          *)
(* SPIKE_DENYLIST; every tests_to_run of up to two tests; four             *)
(* representative simulator outputs.                                       *)
(***************************************************************************)
EXTENDS Regression, MCUvmLines

LabelA == [pkg |-> << <<"a">> >>, name |-> <<"a", "_", "a">>]        \* //a:a_a
LabelB == [pkg |-> << <<"a">>, <<"a">> >>, name |-> <<"a">>]         \* //a/a:a
LabelC == [pkg |-> << <<"a">> >>, name |-> <<"a">>]                  \* //a:a

MCTargets == {LabelA, LabelB, LabelC}
MCSpikeDenylist == {LabelC}
MCTestLists == SeqOf([target: MCTargets, exists: BOOLEAN], 2)

\* Non-empty lists of distinct targets: the usual tests_to_run.
MCDistinctTestLists ==
    {l \in MCTestLists :
        /\ Len(l) > 0
        /\ \A j, k \in 1..Len(l) : j # k => l[j].target # l[k].target}

\* A clean run, a run with an error report, a licence failure, and a
\* licence failure reported as a UVM_FATAL on stdout.
MCRegOutputs ==
    { [out |-> << ZeroSummary >>, err |-> << >>, outNl |-> TRUE],
      [out |-> << ErrReport >>, err |-> << >>, outNl |-> TRUE],
      [out |-> << >>, err |-> << LicenseText >>, outNl |-> TRUE],
      [out |-> << LicenseFatal >>, err |-> << >>, outNl |-> TRUE] }
=============================================================================
