------------------------------- MODULE RunUvm -------------------------------
(***************************************************************************)
(* SimulationRunner: one call of run_uvm (lines 254-342).  The call        *)
(* checks that the ELF exists, runs `make -C tests/uvm run' up to          *)
(* MaxRetries times, retrying only a licence failure, and classifies the   *)
(* last attempt.  The environment chooses each attempt's exit code and     *)
(* output, or makes subprocess.run raise.  Return models the caller taking *)
(* the result, after which the runner is idle and can be called again.    *)
(***************************************************************************)
EXTENDS UvmOutput

CONSTANTS
    MaxRetries,   \* max_retries (line 283)
    ExitCodes,    \* the exit codes make may return
    Outputs       \* the outputs it may print

ASSUME MaxRetriesAssumption == MaxRetries \in Nat \ {0}
ASSUME ExitCodesAssumption == ExitCodes \subseteq Int
ASSUME OutputsAssumption == Outputs \subseteq Output

VARIABLES
    upc,       \* where the call is: "idle", "attempt", "classify", "done"
    attempt,   \* the loop variable `attempt' of line 284
    last,      \* `result' of the last attempt: exit code and output
    verdict    \* the (status, reason) returned, once there is one

uvmVars == <<upc, attempt, last, verdict>>

NoResult == [rc |-> 0, o |-> NoOutput]
NoVerdict == MkVerdict("PASS", "none", BlankLine)

\* The attempt ended in a licence failure (line 291).
LicenseFailure(rc, o) == rc # 0 /\ LicenseMarker(CombinedOutput(o))

\* Mutations of Retries: the bound checked with <= (one attempt too many),
\* and a bound one short (two attempts instead of three).
RetriesPastLimit(rc, o, n) == LicenseFailure(rc, o) /\ n <= MaxRetries
RetriesOneShort(rc, o, n) == LicenseFailure(rc, o) /\ n < MaxRetries - 1

\* The loop continues with another attempt (lines 291-296).
Retries(rc, o, n) == LicenseFailure(rc, o) /\ n < MaxRetries

UvmTypeOK ==
    /\ upc \in {"idle", "attempt", "classify", "done"}
    /\ attempt \in 0..MaxRetries
    /\ last \in [rc: ExitCodes \cup {0}, o: Outputs \cup {NoOutput}]
    /\ verdict \in Verdict

UvmInit ==
    /\ upc = "idle"
    /\ attempt = 0
    /\ last = NoResult
    /\ verdict = NoVerdict

\* run_uvm is called on an ELF that does not exist (lines 260-264): no
\* process is started.
ArtifactMissing ==
    /\ upc = "idle"
    /\ upc' = "done"
    /\ verdict' = MkVerdict("BUILD_ARTIFACT_MISSING", "missing", BlankLine)
    /\ attempt' = 0
    /\ last' = NoResult

\* run_uvm is called on an existing ELF: the command is built (266-281) and
\* the loop starts with attempt 1.
Start ==
    /\ upc = "idle"
    /\ upc' = "attempt"
    /\ attempt' = 1
    /\ last' = NoResult
    /\ verdict' = NoVerdict

\* Mutation of Attempt: a retry that does not advance the attempt count.
AttemptKeepsCount ==
    /\ upc = "attempt"
    /\ \E rc \in ExitCodes, o \in Outputs :
         /\ last' = [rc |-> rc, o |-> o]
         /\ upc' = IF Retries(rc, o, attempt) THEN "attempt" ELSE "classify"
    /\ UNCHANGED <<attempt, verdict>>

\* One iteration of the loop (284-302): make runs and exits with rc after
\* printing o; a licence failure before the last attempt continues the
\* loop, anything else breaks out of it.
Attempt ==
    /\ upc = "attempt"
    /\ \E rc \in ExitCodes, o \in Outputs :
         /\ last' = [rc |-> rc, o |-> o]
         /\ IF Retries(rc, o, attempt)
            THEN /\ attempt' = attempt + 1
                 /\ upc' = "attempt"
            ELSE /\ attempt' = attempt
                 /\ upc' = "classify"
    /\ UNCHANGED verdict

\* subprocess.run raises (e.g. make is not found): EXEC_FAIL at once, no
\* further attempt (304-305).
AttemptRaises ==
    /\ upc = "attempt"
    /\ verdict' = MkVerdict("EXEC_FAIL", "exec", BlankLine)
    /\ upc' = "done"
    /\ UNCHANGED <<attempt, last>>

\* The last attempt's output is classified (307-339).
ClassifyLast ==
    /\ upc = "classify"
    /\ verdict' = Classify(last.rc, CombinedOutput(last.o))
    /\ upc' = "done"
    /\ UNCHANGED <<attempt, last>>

\* The caller takes the returned tuple.
Return ==
    /\ upc = "done"
    /\ upc' = "idle"
    /\ UNCHANGED <<attempt, last, verdict>>

UvmNext ==
    \/ ArtifactMissing
    \/ Start
    \/ Attempt
    \/ AttemptRaises
    \/ ClassifyLast
    \/ Return

\* The call runs in the driver's only thread, which is never starved: a
\* step that is enabled is eventually taken.
UvmSpec == UvmInit /\ [][UvmNext]_uvmVars /\ WF_uvmVars(UvmNext)

-----------------------------------------------------------------------------
(* Properties *)

\* Retry policy (lines 283-302, spec section 4.4): the loop leaves with a
\* result to classify only after the last of MaxRetries attempts or after
\* an attempt that was not a licence failure, so a licence failure is
\* classified only once the retries are exhausted.
RetryPolicy ==
    upc = "classify" => \/ attempt = MaxRetries
                        \/ ~LicenseFailure(last.rc, last.o)

\* Every call returns: once the loop has started, run_uvm eventually
\* produces its result, whatever the simulator prints (bounded retry).
CallReturns == (upc = "attempt") ~> (upc = "done")

\* The error reports the simulator printed on stdout or stderr: UVM_ERROR or
\* UVM_FATAL lines that are reports, not summary counts, and that do not end
\* in a zero count.
StatedErrors(o) ==
    {l \in ToSet(o.out) \cup ToSet(o.err) :
        l.head \in {"uvm_error", "uvm_fatal"} /\ ~l.summary /\ ~l.zeroTail}

\* The spec's rule for the classifier (section 4.5, step 3 and section 8): a
\* UVM_ERROR or UVM_FATAL report whose trailing count is not zero makes the
\* test FAIL, whatever the exit code; run_uvm never returns PASS for a run
\* that printed one.
ErrorReportNeverPasses ==
    (upc = "done" /\ verdict.status = "PASS") => StatedErrors(last.o) = {}
=============================================================================
