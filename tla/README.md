# Verification project for `src/utils/run_uvm_regression.py`

The repository's one source file is a regression driver for the CoralNPU
hardware design. For every test ELF it runs the Spike reference simulator to get
a golden commit trace, then runs the UVM device simulator (`make -C tests/uvm
run`) with that trace. It reads the simulator's text output to classify the test
and writes a CSV report, a log directory and a zip archive. This directory holds
TLA+ models of that driver, TLC runs that check them on small instances, and
TLAPS proofs of their central invariants, and of a refinement, for every value
of the constants.

Line numbers below are those of `src/utils/run_uvm_regression.py`.

## 1. Inventory

### Components, their state and operations

| Component (spec name) | Code | State it keeps | Operations |
|---|---|---|---|
| TargetCatalog | `get_targets` 92-143 | none (reads the bazel XML query) | denylist filter, default-linker-script filter, sort, `limit` truncation, `--target` override |
| ArtifactResolver | `build_targets` 146-156, `get_elf_source_path` 159-174, `get_riscv_test_artifacts` 345-380, `prepare_tests` 449-490 | the list `tests_to_run` of (target, ELF path) | build all targets once (failure is a warning), resolve one `.elf` per target, scan riscv-tests output directories, filter by `--target`, apply `limit` a second time |
| GoldenTraceGenerator | `generate_spike_log` 217-251 | the Spike child process and its process group, the trace file | start in a new session, wait with timeout, on timeout `killpg(SIGTERM)` then wait 5 s, non-zero exit is failure, any exception is failure |
| SimulationRunner | `run_uvm` 254-342 | attempt counter, last `subprocess.run` result | missing-ELF short cut, up to `max_retries = 3` attempts retried only on exit != 0 with the licence marker `1-800-VERILOG`, exception gives `EXEC_FAIL` |
| ResultClassifier | `run_uvm` 290, 308-339 | none (pure) | `output = stdout + stderr`; first `UVM_ERROR`/`UVM_FATAL` line not ending in `: 0`; `AXI_DECERR`; last line of the stripped output |
| Orchestrator | `run_full_regression` 540-657, `run_spike_timeout_check` 493-537 | temp ELF directory (ELF copies, temp Spike traces), `logs/` directory, `results` rows, the variable `status` of the last iteration, exit code | build simv (fatal), per test: copy + chmod ELF, read entry point, Spike (unless in `SPIKE_DENYLIST`), save the trace as `.spike.log` or `.spike.log.fail`, `run_uvm`, write the log file, append a row; then CSV, zip, `sys.exit(1)` if `status == "FAIL"` |
| Main / CLI | `main` 660-703, `get_mpact_configs` 434-446, `checkout_git_commit` 416-431, `build_simulator` 187-201, `build_spike` 204-214 | arguments, MPACT roots | git checkout (fatal on error), `--list-targets` early return, Spike build (fatal), temporary directory scope, `--check-spike-timeouts` mode |
| ELF introspection | `get_entry_point` 177-184 | none | returns `e_entry`, or 0 on any error |

### How they interact

Everything runs in one thread, strictly in sequence: `main` calls the catalog,
then `prepare_tests` (build, resolve), builds Spike, opens the temporary
directory and calls `run_full_regression`, which for each test calls
`generate_spike_log` and `run_uvm` (which classifies). The components share no
memory; they communicate through return values and through the file system: the
temporary ELF directory (the copy of each ELF and each temporary Spike trace,
named by a sanitised target label) and the `logs/` directory (one log per
target, one saved trace per target). The only concurrency is between the driver
and the child processes it waits for (Spike with a timeout, `make` without one).

### What is hard here

* **Retry loop** (`run_uvm` 283-305): retried only on a licence failure, at most
  three attempts, classification of the *last* attempt; an exception ends the
  loop at once.
* **Text classification** (308-339): the verdict depends on the order of lines,
  on how stdout and stderr are joined (plain concatenation, 290), on the
  zero-count look-ahead of the regular expression (312) and on the exit code.
* **File-system state shared between iterations**: the ELF copy and the Spike
  trace are named after `safe_name`, and the log after the same sanitisation
  (562, 589, 624). The sanitisation maps `/` and `:` both to `_`, so it is not
  injective: two labels can share a file.
* **Partial failure in an iteration**: any exception inside the `try` (copy,
  chmod, saving the trace) turns the test into a `FAIL` row; an exception
  outside it (writing the log, 628) aborts the batch.
* **Timeouts**: Spike is waited for 30 s (10 s in the check mode), then its
  process group gets SIGTERM and is waited for 5 s more.
* **Exit status**: computed from the variable `status`, which after the loop is
  the status of the last test only (656), and unbound when there was no test.

### Properties that make each component correct

* SimulationRunner: at most `max_retries` invocations; the loop stops early only
  on a result that is not a licence failure; the verdict is the classification of
  the last attempt; the call always returns.
* ResultClassifier: a run whose output shows a real `UVM_ERROR`/`UVM_FATAL`
  report is never `PASS`; a run with exit 0 whose only UVM lines are zero-count
  summaries is `PASS`; a `PASS` never comes from a non-zero exit.
* Orchestrator: one row per test, in order; a co-simulation trace handed to the
  UVM run is the successful trace generated from this target's ELF in this
  iteration; every row's log file holds that row's log; the exit status is 1
  exactly when some row is `FAIL`; the run terminates.
* TargetCatalog / ArtifactResolver: a denylisted target never reaches the
  report unless named by `--target`; only default-linker-script targets; sorted;
  at most `limit` tests.
* GoldenTraceGenerator: success only when Spike exited 0 before the deadline;
  after a timeout no process of the group is left running.

## 2. Module structure

| Module | Models | Used by |
|---|---|---|
| `UvmOutput` | ResultClassifier: output lines, `CombinedOutput`, `Classify` (operators) | `RunUvm` |
| `RunUvm` | SimulationRunner `run_uvm` | `Regression` (EXTENDS), `MCRunUvm`, `RunUvmProofs` |
| `Regression` | Orchestrator: `run_full_regression`, `run_spike_timeout_check`, the end of `main` | `MCRegression`, `RegressionProofs` |
| `SpikeCall` | what a call of `generate_spike_log` promises (spec 4.3): the abstract spec | `SpikeGen` (INSTANCE, refinement) |
| `SpikeGen` | GoldenTraceGenerator `generate_spike_log` with its process group and clock | `MCSpikeGen`, `SpikeGenProofs` |
| `Prepare` | TargetCatalog and ArtifactResolver, and `main` up to `prepare_tests` | `MCPrepare`, `PrepareProofs` |
| `MCUvmLines`, `MCRunUvm`, `MCRegression`, `MCSpikeGen`, `MCPrepare` | the small instances TLC runs | - |
| `UvmOutputProofs`, `RunUvmProofs`, `SpikeGenProofs`, `RegressionProofs`, `PrepareProofs` | TLAPS proofs | - |

The components compose as the code calls them. `main` runs `Prepare`'s steps
(discovery, `--list-targets`, `prepare_tests`), then either the full regression
or the timeout check (`Regression`'s two initial program points). `Regression`
extends `RunUvm`, so `run_uvm`'s variables are part of its state: `RunTest`
starts `RunUvm`'s call, `UvmStep` takes one of its steps, and `UvmReturns`
reads its result. `Regression` uses `generate_spike_log` through the four outcomes that
matter to it (`SpikeOutcomes`: ok, non-zero exit, timeout, exception before the
file is opened). `SpikeGen` models that call in detail: its process group, the
timeout and the signal.

`tests_to_run` is where `Prepare` ends and `Regression` begins. `Regression`
takes every small `tests_to_run` as its initial state, and `Prepare` computes
`tests_to_run` from every small build graph. The two are not run as one model,
because the product would have no behaviour that either alone lacks: nothing
flows back from the regression into discovery.

## 3. Modules and how they correspond to the code

| Module | State | Actions |
|---|---|---|
| `UvmOutput` | none: operators only | `CombinedOutput` (stdout + stderr, including a stdout line with no newline that runs into stderr's first line), `UvmErrMatch` (regex of 312), `LastLine` (324), `Classify` (308-339) |
| `RunUvm` | `upc` (where the call is), `attempt` (loop variable of 284), `last` (the last `subprocess.run` result), `verdict` | `ArtifactMissing` (260-264), `Start` (266-284), `Attempt` (one loop iteration, 284-302), `AttemptRaises` (304-305), `ClassifyLast` (307-341), `Return` (the caller takes the tuple) |
| `Regression` | `pc`, `tests` (`tests_to_run`), `i`, the temporary directory (`tmpElf`, `tmpTrace`, by safe name), `logs/` (`savedTrace`, `logs`), `spikeOk`, `cosim` (the `spike_log_path` given to `run_uvm`), `status`/`reason` (the loop's variables), `rows` (`results`), `csv`, `zipped`, `exitCode`, `suggested` (`failed_targets` of the check), `fate` (a history: what the check did with each test), plus `RunUvm`'s variables | full regression: `BuildSim`, `BuildSimFails`, then per test `SourceMissing`, `CopyElf`, `CopyFails`, `SpikeSkipped`, `GenerateTrace`, `SaveTrace`, `SaveTraceFails`, `RunTest` / `UvmStep` / `UvmReturns`, `WriteLog`, `WriteLogFails` (628, outside the `try`), then `WriteCsv`, `MakeArchive`, `ExitOnStatus`, `ExitUnbound`. Timeout check (493-537): `CheckSkip`, `CheckCopyFails`, `CheckSpike`, `CheckEnd`, `CheckReturn` |
| `SpikeCall` | `aState` (idle, running, returned), `aExit` (the simulator's status or `Running`), `aResult` | `ACall`, `AFinish` (the simulator ends with some status), `AReturn` (returns a Boolean, `TRUE` only after exit 0); weak fairness of `ACall` and `AReturn`, so the call always returns |
| `SpikeGen` | `spc` (where the driver is), `clock` (seconds since `Popen`), `proc` and `ignoresTerm` (the leader and one descendant: not started, running or exited, and whether each ignores SIGTERM), `leaderRc`, `file`, `timedOut`, `result` | driver: `Call`, `OpenFails` (230), `PopenFails` (231-235), `Spawn`, `WaitReturns` (237, 244-248), `WaitTimesOut` (238-239), `KillGroup` (240), `KillWaitReturns` (241-242), `KillWaitTimesOut` (241, 249-251), `Tick`; environment: `LeaderExits`, `DescExits`; `Finished` |
| `Prepare` | `ppc`, `args` (the parsed command line), `query` (the rules of the bazel XML, in order), `files` (the files under the suite's output directories), `standard` (`standard_targets`), `elf` (the labels whose ELF resolves), `tests` | `Discover` (674, `get_targets` 92-143), `QueryFails` (98-103), `ListTargets` (676-682), `Prepare` (`prepare_tests` 449-490 with `build_targets`, `get_elf_source_path` and `get_riscv_test_artifacts`), `Done` |

Data abstraction.

* **Output lines.** A line of simulator output is a record of the features the
  classifier reads:
  * how it begins once white space is skipped (`UVM_ERROR`, `UVM_FATAL`, other
    text, nothing);
  * whether it ends in a zero count (the look-ahead of 312);
  * whether it contains `AXI_DECERR` or `1-800-VERILOG`.

  The field `summary` is not read by the code. It says whether the line is UVM's
  report summary, so that a property can say what the classifier should have
  seen.
* **Labels in `Regression`.** A target label is a package path and a name, each
  a sequence of characters, so `SafeName` does what the `replace` chain does.
* **Labels in `Prepare`.** A label is a natural number ordered as its string is,
  since there only its order and identity matter. A suite file is a directory
  and a name. Its pseudo-target `//third_party/riscv-tests:<name>` is injective
  in the name, so the name stands for it.
* **Traces.** A Spike trace is a record of the ELF it was run on, whether it is
  complete, and which iteration wrote it.
* **Reasons.** A reason is a kind (`uvm`, `decerr`, `make`, ...) with the quoted
  line. The sanitising of reasons for the CSV (328, 335) only rewrites
  characters and is left out.
* **Time.** In `SpikeGen`, time is a discrete clock of seconds that advances
  only while the driver is blocked in `process.wait`.

Python semantics kept:

* `if limit:` treats 0 like `None`, and `targets[:limit]` with a negative limit
  drops elements from the end (`PyHead`).
* Tuples sort element by element (`PairLess`).
* `if target:` returns `[target]` before any query.

## 4. Runs

| Run | Checks | Result |
|---|---|---|
| `run_uvm_pass` (`MCRunUvm.cfg`) | `UvmTypeOK`, `RetryPolicy`, `CallReturns` | pass, 10 842 states |
| `run_uvm_masked_error` (`MCRunUvmMasked.cfg`) | `ErrorReportNeverPasses` | violated: stdout's last line is a `UVM_ERROR` report with no newline, stderr begins with the zero-count summary `UVM_ERROR : 0`; the joined line ends in `: 0`, the look-ahead of 312 rejects it, exit code 0, verdict `PASS` |
| `regression_pass` (`MCRegression.cfg`) | `TypeOK`, `CosimTraceFresh`, `ReportFollowsTests`, `SuggestionComplete`, `Terminates` | pass, 75 974 states |
| `regression_exit_status` | `ExitStatusReflectsReport` | violated: test 1 has no ELF (FAIL), test 2's `make` raises (EXEC_FAIL); the report has a FAIL row and the script exits 0 |
| `regression_missing_artifact` | `MissingArtifactReported` | violated: a missing ELF is a FAIL row, never `BUILD_ARTIFACT_MISSING` |
| `regression_log_collision` | `LogsMatchRows` | violated: `//a:a_a` and `//a/a:a` both write `logs/a_a_a.log` |
| `regression_batch_abort` (`MCReg_NoTestAbortsBatch.cfg`) | `NoTestAbortsBatch` | violated: test 1's ELF is missing, writing its log raises (628), the process exits 1 before any row is recorded and with no CSV (one test suffices; with more, the later tests would get no row either) |
| `spike_gen_pass` (`MCSpikeGen.cfg`) | `SpikeTypeOK`, `TrueOnlyInTime`, `SpikeCallRefined` | pass, 305 states |
| `spike_gen_survivors` (`MCSpikeGenSurvivors.cfg`) | `NoSurvivorsAfterTimeout` | violated: Spike times out, its descendant ignores SIGTERM, the leader dies of it, the 5 s wait returns, and the descendant is still running (with the trace file open) when the call returns |
| `prepare_pass` (`MCPrepare.cfg`) | `PrepareTypeOK`, `CatalogMatchesSpec`, `DenylistExcluded`, `TestsFromCatalog`, `UniqueTests` | pass, 318 816 states |
| `prepare_limit_zero` (`MCPrepareLimitZero.cfg`) | `CatalogMatchesSpec` | violated: `--limit 0` returns every target |
| `prepare_duplicate_suite` (`MCPrepareDuplicate.cfg`) | `UniqueTests` | violated: two output directories hold `rv32...` of one name, and `tests_to_run` holds its pseudo-target twice |

What the properties say:

* `RetryPolicy`: the loop hands a licence failure to the classifier only after
  the last permitted attempt.
* `CallReturns`: once the loop has started, the call always returns.
* `ErrorReportNeverPasses`: a run that printed a real error report is never
  `PASS`. This is the spec's classifier rule.
* `CosimTraceFresh`: the trace `run_uvm` is given is complete, was made from this
  target's ELF, and was made in this iteration. This holds because line 582
  resets `spike_log_path` every iteration, 592-593 remove a stale trace before
  Spike runs, and 605 uses the trace only when `spike_ok`.
* `ReportFollowsTests`: there is one row per test, in order, whatever fails. The
  CSV holds every row.
* `SuggestionComplete`: under `--check-spike-timeouts`, the logged suggestion
  holds exactly the targets of the tests whose copy raised or whose Spike run
  failed, and every test was handled.
* `Terminates`: the driver exits.
* `NoTestAbortsBatch`: once the loop has started, the process exits only after
  every test has its row (spec 5: one test's failure never aborts the batch).
* `TrueOnlyInTime` (action property): a return of True comes only from the
  first wait (248), with no timeout, Spike's status 0 and the clock within the
  timeout. After the timeout kill (240) the call returns False, whatever Spike
  does (spec 8).
* `SpikeCallRefined`: `SpikeGen` implements `SpikeCall` under the refinement
  mapping `Abs`. The mapping sends `spc` to idle, running or returned, the
  leader's exit status to `aExit`, and `result` to `aResult`. Its fairness part
  says the call always returns, whatever Spike does.
* `NoSurvivorsAfterTimeout`: after a timeout no member of the process group is
  left running (spec 4.3 and 8).
* `CatalogMatchesSpec`: `get_targets` returns what spec 4.1 says `discover`
  returns. The reference `Discovered` is written from the spec: a set
  comprehension, sorted, with a plain truncation.
* `DenylistExcluded`: without `--target`, no denylisted target is listed or run,
  from either source.
* `TestsFromCatalog`: every test is a discovered standard target or a suite file
  of the rv32 convention that is not a `.dump`.
* `UniqueTests`: no target is in `tests_to_run` twice.

The violated properties are what the spec says of the program. They are recorded
as findings in `PROJECT.json`.

Bounds.

* `MaxRetries = 3`, as in the code.
* `MCRunUvm` enumerates every output of at most two stdout lines and one stderr
  line, over six kinds of line, with stdout ending in a newline or not, and exit
  codes `{0, 1}`. That covers:
  * licence failures on either stream;
  * errors that end or do not end in a zero count;
  * an empty output;
  * the join of the two streams.
* `MCRegression` takes every `tests_to_run` of up to two tests over three
  labels, with each ELF present or missing. Two of the labels have the same safe
  name, and one is in `SPIKE_DENYLIST`. It uses four simulator outputs: a clean
  run, an error report, a licence failure on stderr, and a licence failure
  reported as `UVM_FATAL`. Both modes of `main` are initial states.
* Two tests are enough for every hazard across iterations: a stale file, a
  collision, and an earlier status that is forgotten.
* `MCSpikeGen` has `Timeout = 2` and `Grace = 1`, with exit codes `{0, 1}` plus
  SIGTERM's -15. Two seconds let Spike exit before, at, or after the first
  deadline, and during the grace wait or not at all. The leader and one
  descendant are enough to tell "the group" from "the leader".
* `MCPrepare` has three rules in unsorted XML order (3, 1, 2), with every
  combination of linker-script attribute (absent, default, custom), one of them
  in `DENYLIST`. It also has:
  * a fourth label bazel does not know, for `--target`;
  * suite files of every naming case: two `rv32` tests (one denylisted), an
    `rv32` `.dump`, and another file, in every subset;
  * every command line over `--limit` in {none, 1, 2}, every `--target`, and
    both values of `--list-targets` and `--skip-riscv-tests`;
  * every build and ELF outcome.

  The violation runs change one bound each: `--limit 0` (and negative limits),
  and two output directories.

Fairness.

* `Regression`, `RunUvm`: weak fairness of the next-state relation. The driver
  is one thread that never waits for anything but its own child processes, so
  an enabled step is eventually taken. The model assumes that every `make`
  invocation and every Spike run returns. In `Regression`, Spike's timeout is
  what justifies that (see `SpikeCallRefined`: the call returns through both
  timeouts). `make` has no timeout (286), and
  that is recorded as a hazard.
* `SpikeGen`: weak fairness of the driver's actions only (`Driver`, `Tick`
  included: time passes while the driver waits). No fairness is assumed for
  `LeaderExits` or `DescExits`: Spike may run forever or ignore SIGTERM, and
  `SpikeCallRefined` shows the call returns all the same.
* `Prepare` has no liveness property; its behaviours have three steps.

Mutants: every property of the passing runs is broken by a plausible bug in the
code it is about (`PROJECT.json`, `mutants`):

* a retry bound checked with `<=`, or one attempt short;
* a retry that does not advance the counter;
* the returned tuple unpacked in the wrong order;
* a trace used whether or not Spike succeeded;
* an exception handler that skips the row;
* the check's handler that forgets the target;
* a clock that runs past the grace wait;
* a grace wait as long as the timeout;
* `--target`'s test dropped;
* the linker-script test dropped;
* the `DENYLIST` or `.dump` test of the suite dropped;
* `if elf:` dropped;
* after the kill, the call returning whether Spike's status is 0.

## 5. Proofs

Five modules hold the proofs. Every theorem holds for every value of the
constants that satisfies the module's `ASSUME`s.

`UvmOutputProofs` holds the lemmas about the classifier's operators, which
`RunUvmProofs` and `RegressionProofs` both cite.

`RunUvmProofs` covers `RunUvm`, where `MaxRetries` is a positive natural, the
exit codes are any set of integers, and the outputs are any set.

* `TypeCorrect`: `UvmSpec => []UvmTypeOK`.
  * It rests on `TypeInit` and on `TypeStep`, which has one case per action.
  * For `ClassifyLast` it rests on lemmas about the classifier's operators.
  * `MinOfNats` and `MaxOfIndices` show that `SelectInSeq` and
    `SelectLastInSeq` return an index of the sequence. They use the
    well-foundedness of `<` on `Nat` (`WellFoundedInduction`).
  * `FirstMatchIndex`, `LastLineType`, `CombinedOutputType` and `ClassifyType`
    show that the classifier always yields a verdict.
* `RetryBound`: `UvmSpec => []RetryPolicy`.
  * The inductive invariant is `RetryInv == UvmTypeOK /\ RetryPolicy`.
  * It is needed because the loop's exit test only gives `attempt >= MaxRetries`.
    The type's bound `attempt \in 0..MaxRetries` makes that an equality.

`SpikeGenProofs` covers `SpikeGen`, where the timeout and grace are positive
naturals, the exit codes are any set of naturals, and `Running` is not an
integer.

* `SpikeTypeCorrect`: `SpikeSpec => []SpikeTypeOK`.
* `SpikeCallSafety`: `SpikeSpec => Abs!ACallInit /\ [][Abs!ACallNext]_Abs!aVars`,
  the safety part of the refinement.
  * The inductive invariant `RefInv` adds two facts to the type: Spike is not
    running before `Popen`, and it has no exit status until it has exited.
    Without them, `LeaderExits` and `KillGroup` could not be shown to be
    `AFinish` steps (which require `aExit = Running`).
  * `RefStep` maps each action to an abstract step or a stutter:
    * `Call` is `ACall`;
    * every return is `AReturn`;
    * a kill or exit of the leader is `AFinish`;
    * every other step is a stutter.
* `ReturnsTrueInTime`: `SpikeSpec => TrueOnlyInTime`.
  * The inductive invariant `TimeInv` says that before the first wait returns,
    no timeout has happened and the clock is within the timeout.
  * `TrueStep` shows that only `WaitReturns` can return True; every other
    return passes False to `ReturnWith`.

`RegressionProofs` covers `Regression`, for any set of targets and any
`tests_to_run`.

* `ReportCorrect`: `Spec => []ReportFollowsTests`.
  * `ReportFollowsTests` is not inductive. `WriteLog` appends the row of
    `tests[i]`, and that row is in the right place only if `i - 1` rows exist.
    `WriteCsv` copies the rows, which is complete only if the loop ended with
    `i = Len(tests) + 1`.
  * The inductive invariant `RInv` fixes `Len(rows)` at every program point.
    It says that `rows` is a sequence (over some set, so no typing of
    `run_uvm`'s verdict is needed), and that the CSV, once written, equals the
    rows.
  * TLC also checks `RInv` on the `regression_pass` instance, with
    `rows \in Seq(RowType)` for the unbounded existential.
* `RegressionTypeCorrect`: `Spec => []TypeOK`.
  * The inductive invariant `TInv` adds to `TypeOK` that `status` is a status
    at `writeLog`. `TypeOK` allows `status` to be unbound, as it is before
    the first test; the row written at `writeLog` needs a status, which
    `uvmDone` or a handler has just assigned.
  * `run_uvm`'s part of the state is typed by `RunUvmProofs`' `TypeStep`,
    which applies because `Regression` extends `RunUvm`.
* `CosimFresh`: `Spec => []CosimTraceFresh`.
  * The inductive invariant `FreshInv` follows the trace file of the current
    test from Spike to `run_uvm`. At `spike` the ELF of the current stem is the
    current target. At `saveTrace` no trace has been chosen yet, and the trace
    on disk, if any, is of the current target, from this iteration, and
    complete exactly when Spike succeeded. While `run_uvm` runs with a trace,
    that trace is the current stem's and is complete.
  * It is needed because `CosimTraceFresh` speaks only of the `uvm` steps, and
    the trace's freshness is established two steps earlier.
* `SuggestionCorrect`: `Spec => []SuggestionComplete`.
  * The inductive invariant `SuggInv` states, for every prefix of the loop,
    that a test's check failed exactly when its target is in `suggested`, and
    fixes `Len(fate)` at `i - 1`.
  * `CheckIteration` proves that one iteration of the check, whatever its
    outcome, keeps that correspondence.

`PrepareProofs` covers `Prepare`, under `PrepareAssumption`: labels, file
names and directories are naturals, labels and suite names are disjoint,
the rv32 and dump names are file names, a limit is an integer and `None` is
not one, every query answer is a sequence of rules, and there are finitely
many file names and directories (a directory holds finitely many files).

* `PrepareTypeCorrect`, `DenylistSafe` and `CatalogOnly`: `PrepSpec` implies
  `[]PrepareTypeOK`, `[]DenylistExcluded` and `[]TestsFromCatalog`.
  * The inductive invariant `PrepInv` is the conjunction of the three. It is
    inductive as it stands because `tests` is computed once, from `standard`
    and `files`, which no later step changes. `DenylistExcluded` for `tests`
    then needs `DenylistExcluded` for `standard` in the state before. TLC
    checks `PrepInv` on the `MCPrepare` instance.
  * `PrepStepInv` has one step per action. `Discover` rests on
    `GetTargetsType`. Without `--target`, `get_targets` returns a list of
    non-denylisted labels, whatever the limit. `Prepare` rests on
    `PrepareTestsType`: `tests_to_run` is a list over `Range(standard)` and
    the names of suite files that pass the tests of 370-378.
  * Those lemmas are built from one lemma per operator. `FilterSeqType`: a
    comprehension keeps only elements of the list that pass the test.
    `SortedSeqType`: `sorted()` permutes its list, under any strict total
    order, which `LabelLess` and `ArtifactLess` are.
    `PyHeadType`: the slice `[:limit]` keeps a prefix, for negative and zero
    limits too. `SetToSeqType`: a finite set is listed.
  * `FilterSeqType` needs a recursive function to exist. `FilterExists`
    proves that by least-counterexample induction over `0..Len(s)` (lemma
    `LeastNat`), with a concrete predicate, not an operator parameter.
  * That a sorting permutation exists (`SortPermExists`) follows from
    `SortedEnumeration`. It lists a finite strictly totally ordered set by
    rank, the number of elements below each one.
  * `Prepare` writes the list comprehension and `sorted()` as `FilterSeq` and
    `SortedSeq`. They are the recursive function and the sorting bijection by
    which the standard modules define `SelectSeq` and `SortSeq`. The order
    is passed as the set of pairs it relates (`LabelLess`, `ArtifactLess`). The prover
    cannot unfold those two operators, nor `Permutations`, so nothing about
    them could be proved. TLC finds the same states and the same violations
    with either form.

Only model-checked:

* The liveness properties: `CallReturns`, `Terminates`, and the fairness part of
  `SpikeCallRefined`. The prover does not handle liveness or `ENABLED`.
* `CatalogMatchesSpec` and `UniqueTests`. They are not invariants of the code
  for all constants: `MCPrepareLimitZero` and `MCPrepareDuplicate` show them
  violated. `MCPrepare` checks that they hold when the limit is not 0 and no
  suite name is in two directories. That they hold in general, under those
  conditions, would need what `SetToSortSeq` and `sorted()` compute for every
  input, that is induction over the data.
* Everything about what `Classify` computes for all outputs. That would need
  induction over sequences, which the provers cannot instantiate. TLC checks it
  over all small outputs.

## 6. Not modelled, and why

* **Argument parsing, git checkout and the build steps.** `get_mpact_configs`,
  `checkout_git_commit`, `build_simulator` and `build_spike` each either end
  the process or not, and leave no state that the regression reads.
  `parse_arguments` is the set `Args` of command lines.
* **`get_entry_point` (177-184).** It is a pure read that returns 0 on any
  error. It changes nothing the model tells apart.
* **Text.** The content of files and of the CSV, and the sanitising and
  formatting of reasons, are abstracted as described in section 3.
* **Spike in `Regression`.** `Regression` uses generate_spike_log's four
  outcomes rather than `SpikeGen` itself. A descendant that survives the kill
  (`spike_gen_survivors`) is not carried into the next iteration of
  `Regression`.

Notes from reading the code that no run turns on:

* With an empty output, a failing run's reason is `Make failed: ` rather than
  `Unknown` (324-325).
* A real `UVM_ERROR` whose message ends in `: 0` is not matched (312).
* `--mpact-riscv-commit` is ignored without an riscv root (667).
* `--target` makes `get_targets` return that label at once (95-96), bypassing
  `DENYLIST` and the linker-script filter. A denylisted suite pseudo-target
  given as `--target` is still dropped by 377, so it runs nothing.
* `prepare_tests` cuts `tests_to_run` to `--limit` a second time after putting
  the suite first (487-488). With a non-empty suite, the standard targets that
  discovery returned can be left out entirely. `Prepare` models this. The spec
  gives `--limit` only as a cap on the catalog, so no property states which
  tests a limit should keep.
* The timeout check uses a 10 s timeout (522), the regression the default (217, 595). A
  target suggested for `SPIKE_DENYLIST` may pass in the regression.
