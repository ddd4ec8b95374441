----------------------------- MODULE MCUvmLines -----------------------------
(***************************************************************************)
(* The kinds of output line the model-checking runs draw from.             *)
(***************************************************************************)
EXTENDS UvmOutput

\* "UVM_ERROR tb.sv(12) @ 100: reporter [CHK] mismatch"
ErrReport == [BlankLine EXCEPT !.head = "uvm_error"]
\* "UVM_ERROR :    0" in the report summary
ZeroSummary == [BlankLine EXCEPT !.head = "uvm_error", !.zeroTail = TRUE,
                                 !.summary = TRUE]
\* "... AXI_DECERR ..."
DecErrText == [BlankLine EXCEPT !.head = "text", !.decerr = TRUE]
\* "... 1-800-VERILOG ..." (licence server message)
LicenseText == [BlankLine EXCEPT !.head = "text", !.license = TRUE]
\* "UVM_FATAL ... 1-800-VERILOG ..." (licence checkout failed in the testbench)
LicenseFatal == [BlankLine EXCEPT !.head = "uvm_fatal", !.license = TRUE]
\* any other line
PlainText == [BlankLine EXCEPT !.head = "text"]

MCLines == {ErrReport, ZeroSummary, DecErrText, LicenseText, PlainText, BlankLine}

MCExitCodes == {0, 1}
=============================================================================
