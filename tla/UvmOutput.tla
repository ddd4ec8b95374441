----------------------------- MODULE UvmOutput -----------------------------
(***************************************************************************)
(* What run_uvm (src/utils/run_uvm_regression.py) sees of one simulator    *)
(* run, and the classifier of lines 308-339 that turns it into a verdict.  *)
(*                                                                         *)
(* A line of text is abstracted to the features the classifier tests: how *)
(* it begins after leading white space, whether it ends in a zero count    *)
(* (the look-ahead of the regular expression of line 312), and whether it  *)
(* contains one of the two marker strings.  The field `summary' is not     *)
(* read by the code: it records whether the line is UVM's report-summary   *)
(* count line rather than a report, so that properties can say what the   *)
(* classifier ought to have seen.                                          *)
(***************************************************************************)
EXTENDS Integers, Sequences, SequencesExt

\* How a line begins once leading white space is skipped ("blank": nothing).
Heads == {"blank", "uvm_error", "uvm_fatal", "text"}

Line == [head: Heads, zeroTail: BOOLEAN, summary: BOOLEAN,
         decerr: BOOLEAN, license: BOOLEAN]

\* The empty (or white-space) line: also what "".split('\n')[-1] yields.
BlankLine == [head |-> "blank", zeroTail |-> FALSE, summary |-> FALSE,
              decerr |-> FALSE, license |-> FALSE]

\* The captured stdout and stderr of subprocess.run, as lines, and whether
\* stdout's text ends with a newline.
Output == [out: Seq(Line), err: Seq(Line), outNl: BOOLEAN]

NoOutput == [out |-> << >>, err |-> << >>, outNl |-> TRUE]

\* The line that results when stdout's unterminated last line a runs into
\* stderr's first line b.
JoinLines(a, b) ==
    [head     |-> IF a.head = "blank" THEN b.head ELSE a.head,
     zeroTail |-> IF b.head = "blank" THEN a.zeroTail ELSE b.zeroTail,
     summary  |-> a.summary \/ b.summary,
     decerr   |-> a.decerr \/ b.decerr,
     license  |-> a.license \/ b.license]

\* output = result.stdout + result.stderr (line 290), split into lines.
CombinedOutput(o) ==
    IF o.out = << >> \/ o.err = << >> \/ o.outNl
    THEN o.out \o o.err
    ELSE SubSeq(o.out, 1, Len(o.out) - 1)
           \o << JoinLines(o.out[Len(o.out)], Head(o.err)) >>
           \o Tail(o.err)

\* "1-800-VERILOG" in output (line 291).
LicenseMarker(ls) == \E i \in 1..Len(ls) : ls[i].license

\* "AXI_DECERR" in output (line 321).
DecErrMarker(ls) == \E i \in 1..Len(ls) : ls[i].decerr

\* A line matched by ^\s*(UVM_(?:FATAL|ERROR)(?!.*:\s+0\s*$).*)$ (line 312).
UvmErrMatch(l) == l.head \in {"uvm_error", "uvm_fatal"} /\ ~l.zeroTail

\* The last line of output.strip().split('\n') (line 324): the last line
\* that is not blank, or the empty string.
LastLine(ls) ==
    LET k == SelectLastInSeq(ls, LAMBDA l : l.head # "blank")
    IN  IF k = 0 THEN BlankLine ELSE ls[k]

Statuses == {"PASS", "FAIL", "BUILD_ARTIFACT_MISSING", "EXEC_FAIL"}

\* Reasons: the kind of message and the output line it quotes, if any.
ReasonKinds == {"none", "uvm", "decerr", "make", "missing", "exec",
                "setup", "nosrc"}

Verdict == [status: Statuses, reason: [kind: ReasonKinds, line: Line]]

MkVerdict(s, k, l) == [status |-> s, reason |-> [kind |-> k, line |-> l]]

\* The classification of the last attempt's exit code rc and output lines
\* ls (lines 308-339).  Sanitising the reason for the CSV (328, 335) only
\* rewrites characters and is not modelled.
Classify(rc, ls) ==
    LET k == SelectInSeq(ls, UvmErrMatch)
    IN  IF rc # 0
        THEN IF k # 0 THEN MkVerdict("FAIL", "uvm", ls[k])
             ELSE IF DecErrMarker(ls) THEN MkVerdict("FAIL", "decerr", BlankLine)
             ELSE MkVerdict("FAIL", "make", LastLine(ls))
        ELSE IF k # 0 THEN MkVerdict("FAIL", "uvm", ls[k])
             ELSE MkVerdict("PASS", "none", BlankLine)
=============================================================================
