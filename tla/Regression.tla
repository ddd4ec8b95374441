----------------------------- MODULE Regression -----------------------------
(***************************************************************************)
(* Orchestrator: run_full_regression (lines 540-657) inside the temporary  *)
(* directory of main (695-703).  For each test of tests_to_run it copies  *)
(* the ELF into the temporary directory, runs Spike unless the target is   *)
(* in SPIKE_DENYLIST, saves the trace into logs/, calls run_uvm (the       *)
(* RunUvm module, whose state and steps this module extends), writes the   *)
(* log and appends a row; then it writes the CSV and the archive and       *)
(* exits.                                                                  *)
(*                                                                         *)
(* Files are named by sanitising the target label (562, 589, 624): the     *)
(* model keeps the sanitised stem and drops the suffixes (".elf",          *)
(* ".elf.spike.log", ".log"), which are the same for every target.  A      *)
(* file's content is what the properties tell apart: which target's ELF,   *)
(* which iteration wrote a log, and how a Spike trace came about.          *)
(***************************************************************************)
EXTENDS RunUvm

CONSTANTS
    Targets,        \* the target labels, as records [pkg, name]
    TestLists,      \* the values tests_to_run may have
    SpikeDenylist,  \* SPIKE_DENYLIST (56-68)
    None            \* Python's None: no file, no trace path

\* A label //p1/p2:name is its package path segments and its name, each a
\* sequence of characters.
ASSUME TargetsAssumption ==
    Targets \subseteq [pkg: Seq(Seq(STRING)), name: Seq(STRING)]
ASSUME TestListsAssumption ==
    TestLists \subseteq Seq([target: Targets, exists: BOOLEAN])
ASSUME SpikeDenylistAssumption == SpikeDenylist \subseteq Targets
ASSUME NoneAssumption == None \notin Targets

VARIABLES
    pc,          \* where run_full_regression is
    tests,       \* tests_to_run
    i,           \* the index of the current test (the loop of line 557)
    tmpElf,      \* the ELF copies in temp_elf_dir: stem -> target or None
    tmpTrace,    \* the Spike traces in temp_elf_dir: stem -> trace or None
    savedTrace,  \* the traces copied into logs/: <<stem, failed>> -> trace
    spikeOk,     \* spike_ok of the current test
    cosim,       \* spike_log_path of the current test: a stem or None
    status,      \* the local `status' (unbound before the first test)
    reason,      \* the local `reason', as its kind
    logs,        \* logs/: stem -> the iteration whose log it holds, or 0
    rows,        \* results
    csv,         \* the rows written to uvm_results.csv, once written
    zipped,      \* the archive was made
    exitCode,    \* the process's exit status, once it has exited
    suggested,   \* failed_targets of run_spike_timeout_check
    fate         \* what happened to each test the check has handled

Unbound == "unbound"

regVars == <<pc, tests, i, tmpElf, tmpTrace, savedTrace, spikeOk, cosim,
             status, reason, logs, rows, csv, zipped, exitCode>>
checkVars == <<suggested, fate>>
vars == <<regVars, uvmVars, checkVars>>

\* The segments of a label joined by '_': what
\* target.replace('//', '').replace(':', '_').replace('/', '_') does.
SafeName(t) ==
    LET segs == t.pkg \o << t.name >>
    IN  FlattenSeq([k \in 1..Len(segs) |->
                      IF k = 1 THEN segs[k] ELSE << "_" >> \o segs[k]])

Stems == {SafeName(t) : t \in Targets}

\* A Spike trace in the temporary directory: the ELF it was run on, whether
\* Spike exited 0 in time, and the iteration that produced it.
Trace == [of: Targets \cup {None}, complete: BOOLEAN, iter: Nat]

\* The outcomes of generate_spike_log (217-251) that matter here: success,
\* non-zero exit or exception after the file was opened, timeout, and an
\* exception before it was opened.
SpikeOutcomes == {"ok", "fail", "timeout", "noFile"}

\* What the timeout check did with a test: skipped it for a missing ELF,
\* failed while copying it, or ran Spike with one of SpikeOutcomes.
Fates == SpikeOutcomes \cup {"skip", "raised"}

Cur == tests[i]
CurStem == SafeName(Cur.target)

\* A row of results: the log field is the file stem of the row's log.
RowType == [target: Targets, status: Statuses, reason: ReasonKinds,
            log: Stems]

TypeOK ==
    /\ pc \in {"check", "checkReport", "buildSim", "loop", "spike", "saveTrace", "uvm",
               "inUvm", "writeLog", "csv", "zip", "exit", "exited"}
    /\ tests \in TestLists
    /\ i \in 1..Len(tests) + 1
    /\ tmpElf \in [Stems -> Targets \cup {None}]
    /\ tmpTrace \in [Stems -> Trace \cup {None}]
    /\ savedTrace \in [Stems \X BOOLEAN -> Trace \cup {None}]
    /\ spikeOk \in BOOLEAN
    /\ cosim \in Stems \cup {None}
    /\ status \in Statuses \cup {Unbound}
    /\ reason \in ReasonKinds
    /\ logs \in [Stems -> Nat]
    /\ rows \in Seq(RowType)
    /\ csv \in Seq(RowType) \cup {None}
    /\ zipped \in BOOLEAN
    /\ exitCode \in {0, 1, None}
    /\ UvmTypeOK
    /\ suggested \in Seq(Targets)
    /\ fate \in Seq(Fates)

\* main runs run_spike_timeout_check under --check-spike-timeouts (698-700)
\* and run_full_regression otherwise (702-703).
Init ==
    /\ pc \in {"check", "buildSim"}
    /\ tests \in TestLists
    /\ i = 1
    /\ tmpElf = [s \in Stems |-> None]
    /\ tmpTrace = [s \in Stems |-> None]
    /\ savedTrace = [p \in Stems \X BOOLEAN |-> None]
    /\ spikeOk = FALSE
    /\ cosim = None
    /\ status = Unbound
    /\ reason = "none"
    /\ logs = [s \in Stems |-> 0]
    /\ rows = << >>
    /\ csv = None
    /\ zipped = FALSE
    /\ exitCode = None
    /\ UvmInit
    /\ suggested = << >>
    /\ fate = << >>

-----------------------------------------------------------------------------
(* Setup (543-553) *)

\* build_simulator succeeds; the logs/ directory is created empty.
BuildSim ==
    /\ pc = "buildSim"
    /\ pc' = "loop"
    /\ UNCHANGED <<tests, i, tmpElf, tmpTrace, savedTrace, spikeOk, cosim,
                   status, reason, logs, rows, csv, zipped, exitCode>>
    /\ UNCHANGED uvmVars
    /\ UNCHANGED checkVars

\* build_simulator fails: sys.exit(1) before any report (544-546).
BuildSimFails ==
    /\ pc = "buildSim"
    /\ pc' = "exited"
    /\ exitCode' = 1
    /\ UNCHANGED <<tests, i, tmpElf, tmpTrace, savedTrace, spikeOk, cosim,
                   status, reason, logs, rows, csv, zipped>>
    /\ UNCHANGED uvmVars
    /\ UNCHANGED checkVars

-----------------------------------------------------------------------------
(* One iteration of the loop of line 557 *)

\* All tests done: leave the loop.
LoopEnd ==
    /\ pc = "loop"
    /\ i > Len(tests)
    /\ pc' = "csv"
    /\ UNCHANGED <<tests, i, tmpElf, tmpTrace, savedTrace, spikeOk, cosim,
                   status, reason, logs, rows, csv, zipped, exitCode>>
    /\ UNCHANGED uvmVars
    /\ UNCHANGED checkVars

\* The source ELF does not exist (560, 619-622).
SourceMissing ==
    /\ pc = "loop"
    /\ i <= Len(tests)
    /\ ~Cur.exists
    /\ status' = "FAIL"
    /\ reason' = "nosrc"
    /\ pc' = "writeLog"
    /\ UNCHANGED <<tests, i, tmpElf, tmpTrace, savedTrace, spikeOk, cosim,
                   logs, rows, csv, zipped, exitCode>>
    /\ UNCHANGED uvmVars
    /\ UNCHANGED checkVars

\* Remove the old copy, copy the ELF, chmod it and read its entry point
\* (561-579); get_entry_point returns 0 rather than raising (177-184).
CopyElf ==
    /\ pc = "loop"
    /\ i <= Len(tests)
    /\ Cur.exists
    /\ tmpElf' = [tmpElf EXCEPT ![CurStem] = Cur.target]
    /\ pc' = "spike"
    /\ UNCHANGED <<tests, i, tmpTrace, savedTrace, spikeOk, cosim, status,
                   reason, logs, rows, csv, zipped, exitCode>>
    /\ UNCHANGED uvmVars
    /\ UNCHANGED checkVars

\* Mutation of CopyFails: the exception handler moves on to the next test
\* without recording a row.
CopyFailsSkipsRow ==
    /\ pc = "loop"
    /\ i <= Len(tests)
    /\ Cur.exists
    /\ i' = i + 1
    /\ UNCHANGED <<pc, tests, tmpElf, tmpTrace, savedTrace, spikeOk, cosim,
                   status, reason, logs, rows, csv, zipped, exitCode>>
    /\ UNCHANGED uvmVars
    /\ UNCHANGED checkVars

\* os.remove, shutil.copy2 or os.chmod raises: the old copy is still there,
\* or gone, or the new one is in place; the test is a FAIL row (615-618).
CopyFails ==
    /\ pc = "loop"
    /\ i <= Len(tests)
    /\ Cur.exists
    /\ \E left \in {tmpElf[CurStem], None, Cur.target} :
         tmpElf' = [tmpElf EXCEPT ![CurStem] = left]
    /\ status' = "FAIL"
    /\ reason' = "setup"
    /\ pc' = "writeLog"
    /\ UNCHANGED <<tests, i, tmpTrace, savedTrace, spikeOk, cosim, logs, rows,
                   csv, zipped, exitCode>>
    /\ UNCHANGED uvmVars
    /\ UNCHANGED checkVars

\* The target is in SPIKE_DENYLIST: no trace, no co-simulation (582-587).
SpikeSkipped ==
    /\ pc = "spike"
    /\ Cur.target \in SpikeDenylist
    /\ cosim' = None
    /\ pc' = "uvm"
    /\ UNCHANGED <<tests, i, tmpElf, tmpTrace, savedTrace, spikeOk, status,
                   reason, logs, rows, csv, zipped, exitCode>>
    /\ UNCHANGED uvmVars
    /\ UNCHANGED checkVars

\* Remove a stale trace and run Spike on the copy (588-597).  Every outcome
\* but an exception before the file is opened leaves a trace file; only
\* "ok" leaves a complete one.
GenerateTrace ==
    /\ pc = "spike"
    /\ Cur.target \notin SpikeDenylist
    /\ \E r \in SpikeOutcomes :
         /\ tmpTrace' = [tmpTrace EXCEPT ![CurStem] =
                           IF r = "noFile" THEN None
                           ELSE [of |-> tmpElf[CurStem], complete |-> r = "ok",
                                 iter |-> i]]
         /\ spikeOk' = (r = "ok")
    /\ cosim' = None
    /\ pc' = "saveTrace"
    /\ UNCHANGED <<tests, i, tmpElf, savedTrace, status, reason, logs, rows,
                   csv, zipped, exitCode>>
    /\ UNCHANGED uvmVars
    /\ UNCHANGED checkVars

\* Mutation of SaveTrace: the trace is used whenever the file exists, even
\* after a failed or timed out Spike run.
SaveTraceIgnoringOutcome ==
    /\ pc = "saveTrace"
    /\ IF tmpTrace[CurStem] # None
       THEN /\ savedTrace' = [savedTrace EXCEPT ![<<CurStem, ~spikeOk>>] =
                                tmpTrace[CurStem]]
            /\ cosim' = CurStem
       ELSE UNCHANGED <<savedTrace, cosim>>
    /\ pc' = "uvm"
    /\ UNCHANGED <<tests, i, tmpElf, tmpTrace, spikeOk, status, reason, logs,
                   rows, csv, zipped, exitCode>>
    /\ UNCHANGED uvmVars
    /\ UNCHANGED checkVars

\* If the trace file exists, copy it into logs/ as .spike.log or
\* .spike.log.fail, and use it for co-simulation only if Spike succeeded
\* (599-609).
SaveTrace ==
    /\ pc = "saveTrace"
    /\ IF tmpTrace[CurStem] # None
       THEN /\ savedTrace' = [savedTrace EXCEPT ![<<CurStem, ~spikeOk>>] =
                                tmpTrace[CurStem]]
            /\ cosim' = IF spikeOk THEN CurStem ELSE None
       ELSE UNCHANGED <<savedTrace, cosim>>
    /\ pc' = "uvm"
    /\ UNCHANGED <<tests, i, tmpElf, tmpTrace, spikeOk, status, reason, logs,
                   rows, csv, zipped, exitCode>>
    /\ UNCHANGED uvmVars
    /\ UNCHANGED checkVars

\* Copying the trace into logs/ raises: a FAIL row without a UVM run.
SaveTraceFails ==
    /\ pc = "saveTrace"
    /\ tmpTrace[CurStem] # None
    /\ status' = "FAIL"
    /\ reason' = "setup"
    /\ pc' = "writeLog"
    /\ UNCHANGED <<tests, i, tmpElf, tmpTrace, savedTrace, spikeOk, cosim,
                   logs, rows, csv, zipped, exitCode>>
    /\ UNCHANGED uvmVars
    /\ UNCHANGED checkVars

\* Call run_uvm on the copy (611-614).  The copy exists, so its
\* missing-ELF short cut is not taken.
RunTest ==
    /\ pc = "uvm"
    /\ Start
    /\ pc' = "inUvm"
    /\ UNCHANGED <<tests, i, tmpElf, tmpTrace, savedTrace, spikeOk, cosim,
                   status, reason, logs, rows, csv, zipped, exitCode>>
    /\ UNCHANGED checkVars

\* A step of run_uvm: an attempt, an exception, or the classification.
UvmStep ==
    /\ pc = "inUvm"
    /\ \/ Attempt
       \/ AttemptRaises
       \/ ClassifyLast
    /\ UNCHANGED regVars
    /\ UNCHANGED checkVars

\* Mutation of UvmReturns: the returned tuple unpacked in the wrong order.
UvmReturnsSwapped ==
    /\ pc = "inUvm"
    /\ Return
    /\ status' = verdict.reason.kind
    /\ reason' = verdict.status
    /\ pc' = "writeLog"
    /\ UNCHANGED <<tests, i, tmpElf, tmpTrace, savedTrace, spikeOk, cosim,
                   logs, rows, csv, zipped, exitCode>>
    /\ UNCHANGED checkVars

\* run_uvm returns (status, reason, log) (611-614).
UvmReturns ==
    /\ pc = "inUvm"
    /\ Return
    /\ status' = verdict.status
    /\ reason' = verdict.reason.kind
    /\ pc' = "writeLog"
    /\ UNCHANGED <<tests, i, tmpElf, tmpTrace, savedTrace, spikeOk, cosim,
                   logs, rows, csv, zipped, exitCode>>
    /\ UNCHANGED checkVars

\* Write the log file of the target and append its row (624-637).
WriteLog ==
    /\ pc = "writeLog"
    /\ logs' = [logs EXCEPT ![CurStem] = i]
    /\ rows' = Append(rows, [target |-> Cur.target, status |-> status,
                             reason |-> reason, log |-> CurStem])
    /\ i' = i + 1
    /\ pc' = "loop"
    /\ UNCHANGED <<tests, tmpElf, tmpTrace, savedTrace, spikeOk, cosim,
                   status, reason, csv, zipped, exitCode>>
    /\ UNCHANGED uvmVars
    /\ UNCHANGED checkVars

\* The temporary directory is removed as main leaves its `with' block,
\* whether the function returned or raised (695-703).
RemoveTempDir ==
    /\ tmpElf' = [s \in Stems |-> None]
    /\ tmpTrace' = [s \in Stems |-> None]

\* open(log_path, "w") or f.write raises (628-629): the exception is outside
\* the try of 566-618, so it leaves run_full_regression; main's `with'
\* removes the temporary directory and Python exits 1 with a traceback.
WriteLogFails ==
    /\ pc = "writeLog"
    /\ pc' = "exited"
    /\ exitCode' = 1
    /\ RemoveTempDir
    /\ UNCHANGED <<tests, i, savedTrace, spikeOk, cosim, status, reason, logs,
                   rows, csv, zipped>>
    /\ UNCHANGED uvmVars
    /\ UNCHANGED checkVars

-----------------------------------------------------------------------------
(* --check-spike-timeouts: run_spike_timeout_check (493-537) *)

\* The ELF does not exist: the test is skipped (500, 530-531).
CheckSkip ==
    /\ pc = "check"
    /\ i <= Len(tests)
    /\ ~Cur.exists
    /\ i' = i + 1
    /\ fate' = Append(fate, "skip")
    /\ UNCHANGED <<pc, tests, tmpElf, tmpTrace, savedTrace, spikeOk, cosim,
                   status, reason, logs, rows, csv, zipped, exitCode>>
    /\ UNCHANGED uvmVars
    /\ UNCHANGED suggested

\* Mutation of CheckCopyFails: the handler does not record the target.
CheckCopyFailsForgets ==
    /\ pc = "check"
    /\ i <= Len(tests)
    /\ Cur.exists
    /\ i' = i + 1
    /\ fate' = Append(fate, "raised")
    /\ UNCHANGED <<pc, tests, tmpElf, tmpTrace, savedTrace, spikeOk, cosim,
                   status, reason, logs, rows, csv, zipped, exitCode>>
    /\ UNCHANGED uvmVars
    /\ UNCHANGED suggested

\* os.remove, shutil.copy2 or os.chmod raises: the target is recorded as
\* failed (504-511, 527-529).
CheckCopyFails ==
    /\ pc = "check"
    /\ i <= Len(tests)
    /\ Cur.exists
    /\ \E left \in {tmpElf[CurStem], None, Cur.target} :
         tmpElf' = [tmpElf EXCEPT ![CurStem] = left]
    /\ suggested' = Append(suggested, Cur.target)
    /\ i' = i + 1
    /\ fate' = Append(fate, "raised")
    /\ UNCHANGED <<pc, tests, tmpTrace, savedTrace, spikeOk, cosim, status,
                   reason, logs, rows, csv, zipped, exitCode>>
    /\ UNCHANGED uvmVars

\* Copy the ELF and run Spike with a 10 s timeout into the same trace file
\* the regression uses (504-526); a False result records the target.
CheckSpike ==
    /\ pc = "check"
    /\ i <= Len(tests)
    /\ Cur.exists
    /\ tmpElf' = [tmpElf EXCEPT ![CurStem] = Cur.target]
    /\ \E r \in SpikeOutcomes :
         /\ tmpTrace' = [tmpTrace EXCEPT ![CurStem] =
                           IF r = "noFile" THEN tmpTrace[CurStem]
                           ELSE [of |-> Cur.target, complete |-> r = "ok",
                                 iter |-> i]]
         /\ suggested' = IF r = "ok" THEN suggested
                          ELSE Append(suggested, Cur.target)
         /\ fate' = Append(fate, r)
    /\ i' = i + 1
    /\ UNCHANGED <<pc, tests, savedTrace, spikeOk, cosim, status, reason,
                   logs, rows, csv, zipped, exitCode>>
    /\ UNCHANGED uvmVars

\* All tests checked: the suggested SPIKE_DENYLIST is logged (533-537).
CheckEnd ==
    /\ pc = "check"
    /\ i > Len(tests)
    /\ pc' = "checkReport"
    /\ UNCHANGED <<tests, i, tmpElf, tmpTrace, savedTrace, spikeOk, cosim,
                   status, reason, logs, rows, csv, zipped, exitCode>>
    /\ UNCHANGED uvmVars
    /\ UNCHANGED checkVars

-----------------------------------------------------------------------------
(* After the loop (639-657) and the end of main's temporary directory *)

\* csv.DictWriter writes the header and every row (640-648).
WriteCsv ==
    /\ pc = "csv"
    /\ csv' = rows
    /\ pc' = "zip"
    /\ UNCHANGED <<tests, i, tmpElf, tmpTrace, savedTrace, spikeOk, cosim,
                   status, reason, logs, rows, zipped, exitCode>>
    /\ UNCHANGED uvmVars
    /\ UNCHANGED checkVars

\* shutil.make_archive packs the output directory (651-654).
MakeArchive ==
    /\ pc = "zip"
    /\ zipped' = TRUE
    /\ pc' = "exit"
    /\ UNCHANGED <<tests, i, tmpElf, tmpTrace, savedTrace, spikeOk, cosim,
                   status, reason, logs, rows, csv, exitCode>>
    /\ UNCHANGED uvmVars
    /\ UNCHANGED checkVars

\* `if status == "FAIL": sys.exit(1)' (656-657), where `status' is the
\* status of the last test processed.
ExitOnStatus ==
    /\ pc = "exit"
    /\ status # Unbound
    /\ exitCode' = IF status = "FAIL" THEN 1 ELSE 0
    /\ pc' = "exited"
    /\ RemoveTempDir
    /\ UNCHANGED <<tests, i, savedTrace, spikeOk, cosim, status, reason, logs,
                   rows, csv, zipped>>
    /\ UNCHANGED uvmVars
    /\ UNCHANGED checkVars

\* With no test, `status' was never assigned: line 656 raises
\* UnboundLocalError and Python exits with status 1.
ExitUnbound ==
    /\ pc = "exit"
    /\ status = Unbound
    /\ exitCode' = 1
    /\ pc' = "exited"
    /\ RemoveTempDir
    /\ UNCHANGED <<tests, i, savedTrace, spikeOk, cosim, status, reason, logs,
                   rows, csv, zipped>>
    /\ UNCHANGED uvmVars
    /\ UNCHANGED checkVars

\* run_spike_timeout_check returns, main returns from inside its `with'
\* (695-700), the temporary directory is removed and the process exits 0.
CheckReturn ==
    /\ pc = "checkReport"
    /\ pc' = "exited"
    /\ exitCode' = 0
    /\ RemoveTempDir
    /\ UNCHANGED <<tests, i, savedTrace, spikeOk, cosim, status, reason, logs,
                   rows, csv, zipped>>
    /\ UNCHANGED uvmVars
    /\ UNCHANGED checkVars

\* The process has exited; nothing changes any more.
Exited ==
    /\ pc = "exited"
    /\ UNCHANGED vars

Next ==
    \/ BuildSim \/ BuildSimFails
    \/ LoopEnd \/ SourceMissing \/ CopyElf \/ CopyFails
    \/ SpikeSkipped \/ GenerateTrace \/ SaveTrace \/ SaveTraceFails
    \/ RunTest \/ UvmStep \/ UvmReturns \/ WriteLog \/ WriteLogFails
    \/ WriteCsv \/ MakeArchive \/ ExitOnStatus \/ ExitUnbound
    \/ CheckSkip \/ CheckCopyFails \/ CheckSpike \/ CheckEnd \/ CheckReturn
    \/ Exited

\* The driver is a single thread that is never starved.
Spec == Init /\ [][Next]_vars /\ WF_vars(Next)

-----------------------------------------------------------------------------
(* Properties *)

\* The co-simulation trace that run_uvm is given (SPIKE_LOG=..., line 281)
\* is a complete Spike trace, run on this target's ELF in this iteration:
\* never a stale trace of an earlier test, never one of a failed or timed
\* out Spike run.
CosimTraceFresh ==
    (pc = "inUvm" /\ cosim # None) =>
        /\ tmpTrace[cosim] # None
        /\ tmpTrace[cosim].complete
        /\ tmpTrace[cosim].of = Cur.target
        /\ tmpTrace[cosim].iter = i

\* The report has one row per test of tests_to_run, in the same order,
\* whatever failed along the way; the CSV holds all of them (spec section
\* 3: every target that reaches the run phase has exactly one row).
ReportFollowsTests ==
    /\ Len(rows) <= Len(tests)
    /\ \A k \in 1..Len(rows) : rows[k].target = tests[k].target
    /\ csv # None => (csv = rows /\ Len(rows) = Len(tests))

\* The regression always ends: the process exits (spec section 5: waits and
\* retries are bounded).
Terminates == <>(pc = "exited")

\* Spec section 6 (--check-spike-timeouts surfaces the targets that need a
\* SPIKE_DENYLIST entry): when the suggestion is logged, every checked
\* test whose copy raised or whose Spike run failed is in it, every target
\* in it had such a test, and every test was handled.
SuggestionComplete ==
    pc = "checkReport" =>
        /\ Len(fate) = Len(tests)
        /\ \A k \in 1..Len(fate) :
             fate[k] \notin {"ok", "skip"} => tests[k].target \in Range(suggested)
        /\ \A t \in Range(suggested) :
             \E k \in 1..Len(fate) : tests[k].target = t /\ fate[k] \notin {"ok", "skip"}

\* Spec sections 4.6 and 6: the exit status is 1 if some row of the report
\* is FAIL and 0 otherwise.
ExitStatusReflectsReport ==
    (pc = "exited" /\ csv # None) =>
        (exitCode = 1 <=> \E k \in 1..Len(csv) : csv[k].status = "FAIL")

\* Spec sections 3 and 7: a test whose artifact is missing is reported as
\* BUILD_ARTIFACT_MISSING, a status of its own.
MissingArtifactReported ==
    \A k \in 1..Len(rows) :
        ~tests[k].exists => rows[k].status = "BUILD_ARTIFACT_MISSING"

\* Spec section 5: a failure while handling one test case is turned into a
\* FAIL row and never aborts the batch; once the loop has started (status is
\* bound), the process exits only after every test has its row.
NoTestAbortsBatch ==
    (pc = "exited" /\ status # Unbound) => Len(rows) = Len(tests)

\* Spec sections 6 and 7: every row's log file holds the raw log of that
\* row's test.
LogsMatchRows ==
    (pc = "exited" /\ csv # None) =>
        \A k \in 1..Len(csv) : logs[csv[k].log] = k
=============================================================================
