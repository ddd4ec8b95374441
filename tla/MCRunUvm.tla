------------------------------ MODULE MCRunUvm ------------------------------
(***************************************************************************)
(* RunUvm on every output of up to two stdout lines and one stderr line   *)
(* drawn from six kinds of line, with exit codes 0 and 1, and the three   *)
(* attempts of the code.                                                   *)
(***************************************************************************)
EXTENDS RunUvm, MCUvmLines

MCOutputs == [out: SeqOf(MCLines, 2), err: SeqOf(MCLines, 1), outNl: BOOLEAN]
=============================================================================
