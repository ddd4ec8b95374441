--------------------------- MODULE RegressionProofs ---------------------------
(***************************************************************************)
(* Proof that the report of run_full_regression follows tests_to_run, for  *)
(* every set of targets, every tests_to_run and every run_uvm constant:   *)
(* the rows are appended one per test in the order of the tests, and the   *)
(* CSV, once written, holds one row per test.                              *)
(*                                                                         *)
(* ReportFollowsTests is not inductive: a step of WriteLog appends a row   *)
(* for tests[i], which is right only because, at every point of one        *)
(* iteration, exactly i - 1 rows have been written; and WriteCsv copies    *)
(* the rows, which is complete only because the loop is left with          *)
(* i = Len(tests) + 1.  RInv states this count at every program point.     *)
(***************************************************************************)
EXTENDS Regression, RunUvmProofs, SequenceTheorems, TLAPS

\* The program points inside one iteration of the loop of line 557.
InLoop == {"spike", "saveTrace", "uvm", "inUvm", "writeLog"}

Pcs == {"check", "checkReport", "buildSim", "loop", "csv", "zip", "exit",
        "exited"} \cup InLoop

\* The inductive invariant: rows is a sequence whose k-th row is for the
\* k-th test, and its length is fixed by the program point and i.
RInv ==
    /\ tests \in TestLists
    /\ i \in Nat \ {0}
    /\ pc \in Pcs
    /\ \E S : rows \in Seq(S)
    /\ \A k \in 1..Len(rows) : rows[k].target = tests[k].target
    /\ pc \in {"check", "checkReport"} => rows = << >>
    /\ pc = "buildSim" => rows = << >> /\ i = 1
    /\ pc = "loop" => Len(rows) = i - 1 /\ i <= Len(tests) + 1
    /\ pc \in InLoop => Len(rows) = i - 1 /\ i <= Len(tests)
    /\ pc \in {"csv", "zip", "exit"} => Len(rows) = Len(tests)
    /\ pc = "exited" => Len(rows) <= Len(tests)
    /\ csv # None => /\ csv = rows
                     /\ Len(rows) = Len(tests)
                     /\ pc \in {"zip", "exit", "exited"}

\* tests_to_run is a sequence of (target, exists) records.
LEMMA TestsSeq ==
    ASSUME NEW l \in TestLists
    PROVE  l \in Seq([target: Targets, exists: BOOLEAN]) /\ Len(l) \in Nat
<1>1. l \in Seq([target: Targets, exists: BOOLEAN])
  BY TestListsAssumption
<1>. QED
  BY <1>1, LenProperties

\* The initial state: no row yet, no CSV.
LEMMA RInvInit == Init => RInv
<1>. SUFFICES ASSUME Init PROVE RInv
  OBVIOUS
<1>1. \E S : rows \in Seq(S)
  <2>1. rows \in Seq({})
    BY EmptySeq DEF Init
  <2>. QED
    BY <2>1, Zenon
<1>2. /\ tests \in TestLists /\ i = 1 /\ rows = << >> /\ csv = None
      /\ pc \in {"check", "buildSim"}
  BY DEF Init
<1>3. /\ i \in Nat \ {0}
      /\ pc \in Pcs
      /\ \A k \in 1..Len(rows) : rows[k].target = tests[k].target
      /\ pc \in {"check", "checkReport"} => rows = << >>
      /\ pc = "buildSim" => rows = << >> /\ i = 1
      /\ pc \notin {"loop", "csv", "zip", "exit", "exited"} \cup InLoop
  BY <1>2 DEF Pcs, InLoop
<1>. QED
  BY <1>1, <1>2, <1>3, Zenon DEF RInv

\* Every step keeps RInv: only WriteLog appends a row, and it is the row of
\* tests[i] while i - 1 rows exist; every other step keeps rows and moves
\* pc and i so that the count stays right.
LEMMA RInvStep == RInv /\ [Next]_vars => RInv'
<1>. SUFFICES ASSUME RInv, [Next]_vars PROVE RInv'
  OBVIOUS
<1>0. Len(tests) \in Nat /\ tests \in Seq([target: Targets, exists: BOOLEAN])
  BY TestsSeq DEF RInv
<1>1. CASE BuildSim
  BY <1>1 DEF BuildSim, RInv, Pcs, InLoop
<1>2. CASE BuildSimFails
  BY <1>2 DEF BuildSimFails, RInv, Pcs, InLoop
<1>3. CASE LoopEnd
  BY <1>0, <1>3 DEF LoopEnd, RInv, Pcs, InLoop
<1>4. CASE SourceMissing \/ CopyElf \/ CopyFails
  BY <1>0, <1>4 DEF SourceMissing, CopyElf, CopyFails, RInv, Pcs, InLoop
<1>5. CASE SpikeSkipped \/ GenerateTrace \/ SaveTrace \/ SaveTraceFails
  BY <1>5 DEF SpikeSkipped, GenerateTrace, SaveTrace, SaveTraceFails, RInv,
             Pcs, InLoop
<1>6. CASE RunTest \/ UvmReturns
  BY <1>6 DEF RunTest, UvmReturns, RInv, Pcs, InLoop
<1>7. CASE UvmStep
  BY <1>7 DEF UvmStep, regVars, RInv, Pcs, InLoop
<1>8. CASE WriteLog
  <2>1. PICK S : rows \in Seq(S)
    BY DEF RInv
  <2>. DEFINE row == [target |-> Cur.target, status |-> status,
                      reason |-> reason, log |-> CurStem]
  <2>2. rows' = Append(rows, row) /\ i' = i + 1 /\ pc' = "loop"
        /\ UNCHANGED <<tests, csv>>
    BY <1>8 DEF WriteLog
  <2>3. rows \in Seq(S \cup {row})
    BY <2>1, SeqMonotonic
  <2>4. /\ rows' \in Seq(S \cup {row})
        /\ Len(rows') = Len(rows) + 1
        /\ \A k \in 1..Len(rows) : rows'[k] = rows[k]
        /\ rows'[Len(rows) + 1] = row
    BY <2>2, <2>3, AppendProperties
  <2>5. pc = "writeLog" /\ Len(rows) = i - 1 /\ i <= Len(tests) /\ csv = None
    BY <1>8 DEF WriteLog, RInv, InLoop
  <2>6. \A k \in 1..Len(rows') : rows'[k].target = tests'[k].target
    BY <2>2, <2>4, <2>5 DEF RInv, Cur
  <2>7. \E T : rows' \in Seq(T)
    BY <2>4
  <2>. QED
    BY <1>0, <2>2, <2>4, <2>5, <2>6, <2>7 DEF RInv, Pcs, InLoop
<1>9. CASE WriteLogFails
  BY <1>0, <1>9 DEF WriteLogFails, RemoveTempDir, RInv, Pcs, InLoop
<1>10. CASE WriteCsv
  BY <1>10 DEF WriteCsv, RInv, Pcs, InLoop
<1>11. CASE MakeArchive
  BY <1>11 DEF MakeArchive, RInv, Pcs, InLoop
<1>12. CASE ExitOnStatus \/ ExitUnbound
  BY <1>0, <1>12 DEF ExitOnStatus, ExitUnbound, RemoveTempDir, RInv, Pcs, InLoop
<1>13. CASE CheckSkip \/ CheckCopyFails \/ CheckSpike \/ CheckEnd
  BY <1>13 DEF CheckSkip, CheckCopyFails, CheckSpike, CheckEnd, RInv, Pcs,
              InLoop
<1>14. CASE CheckReturn
  BY <1>0, <1>14 DEF CheckReturn, RemoveTempDir, RInv, Pcs, InLoop
<1>15. CASE Exited \/ UNCHANGED vars
  BY <1>15 DEF Exited, vars, regVars, RInv
<1>. QED
  BY <1>1, <1>2, <1>3, <1>4, <1>5, <1>6, <1>7, <1>8, <1>9, <1>10, <1>11,
     <1>12, <1>13, <1>14, <1>15 DEF Next

\* The report of run_full_regression has one row per test of tests_to_run,
\* in the order of the tests, whatever failed along the way (the handler
\* of 615-618 and the missing-ELF branch of 619-622 still append a row),
\* and the CSV of 639-648 holds all of them (spec section 3).
THEOREM ReportCorrect == Spec => []ReportFollowsTests
<1>1. RInv => ReportFollowsTests
  <2>. SUFFICES ASSUME RInv PROVE ReportFollowsTests
    OBVIOUS
  <2>1. Len(tests) \in Nat
    BY TestsSeq DEF RInv
  <2>2. Len(rows) <= Len(tests)
    BY <2>1 DEF RInv, Pcs, InLoop
  <2>. QED
    BY <2>2 DEF RInv, ReportFollowsTests
<1>. QED
  BY RInvInit, RInvStep, <1>1, PTL DEF Spec

-----------------------------------------------------------------------------
(* The co-simulation trace *)

\* A sequence extended by one element ranges over one element more.
LEMMA RangeAppend ==
    ASSUME NEW S, NEW s \in Seq(S), NEW x \in S
    PROVE  Range(Append(s, x)) = Range(s) \cup {x}
<1>1. /\ Len(Append(s, x)) = Len(s) + 1
      /\ \A k \in 1..Len(s) : Append(s, x)[k] = s[k]
      /\ Append(s, x)[Len(s) + 1] = x
      /\ DOMAIN Append(s, x) = 1..Len(s) + 1
      /\ DOMAIN s = 1..Len(s)
      /\ Len(s) \in Nat
  BY AppendProperties, LenProperties
<1>. QED
  BY <1>1 DEF Range

\* In the loop, the current test is a test of tests_to_run, so its file
\* stem is one of the stems the temporary directory is indexed by.
LEMMA CurStemInStems ==
    ASSUME RInv, pc \in InLoop \/ (pc \in {"loop", "check"} /\ i <= Len(tests))
    PROVE  /\ i \in 1..Len(tests)
           /\ Cur.target \in Targets
           /\ CurStem \in Stems
<1>1. i \in 1..Len(tests)
  BY DEF RInv
<1>2. Cur.target \in Targets
  <2>1. tests \in Seq([target: Targets, exists: BOOLEAN])
    BY TestsSeq DEF RInv
  <2>2. tests[i] \in [target: Targets, exists: BOOLEAN]
    BY <1>1, <2>1, ElementOfSeq
  <2>. QED
    BY <2>2 DEF Cur
<1>. QED
  BY <1>1, <1>2 DEF CurStem, Stems

\* What makes the trace given to run_uvm fresh: the copy made at 561-579
\* holds this test's ELF while Spike runs on it (588-597); the trace file
\* left by that run is this iteration's, complete exactly when spike_ok
\* (599-609); and spike_log_path, reset at 582, is set only to that file.
FreshInv ==
    /\ DOMAIN tmpElf = Stems
    /\ DOMAIN tmpTrace = Stems
    /\ pc = "spike" => tmpElf[CurStem] = Cur.target
    /\ pc = "saveTrace" =>
         /\ cosim = None
         /\ tmpTrace[CurStem] # None =>
              /\ tmpTrace[CurStem].of = Cur.target
              /\ tmpTrace[CurStem].complete = spikeOk
              /\ tmpTrace[CurStem].iter = i
    /\ (pc \in {"uvm", "inUvm"} /\ cosim # None) =>
         /\ cosim = CurStem
         /\ tmpTrace[CurStem] # None
         /\ tmpTrace[CurStem].complete
         /\ tmpTrace[CurStem].of = Cur.target
         /\ tmpTrace[CurStem].iter = i

LEMMA FreshInvInit == Init => FreshInv
BY DEF Init, FreshInv

\* The steps that reach "spike", "saveTrace", "uvm" and "inUvm" set up
\* what FreshInv says there; every other step leaves those points, or
\* keeps the temporary directory's domain.
LEMMA FreshInvStep == RInv /\ FreshInv /\ [Next]_vars => FreshInv'
<1>. SUFFICES ASSUME RInv, FreshInv, [Next]_vars PROVE FreshInv'
  OBVIOUS
<1>1. CASE BuildSim \/ BuildSimFails \/ LoopEnd \/ SourceMissing
  BY <1>1 DEF BuildSim, BuildSimFails, LoopEnd, SourceMissing, FreshInv
<1>2. CASE CopyElf
  <2>1. CurStem \in Stems
    BY <1>2, CurStemInStems DEF CopyElf
  <2>. QED
    BY <1>2, <2>1 DEF CopyElf, FreshInv, Cur, CurStem
<1>3. CASE CopyFails
  BY <1>3 DEF CopyFails, FreshInv
<1>4. CASE SpikeSkipped
  BY <1>4 DEF SpikeSkipped, FreshInv
<1>5. CASE GenerateTrace
  <2>1. CurStem \in Stems
    BY <1>5, CurStemInStems DEF GenerateTrace, InLoop
  <2>2. PICK r \in SpikeOutcomes :
          /\ tmpTrace' = [tmpTrace EXCEPT ![CurStem] =
                            IF r = "noFile" THEN None
                            ELSE [of |-> tmpElf[CurStem], complete |-> r = "ok",
                                  iter |-> i]]
          /\ spikeOk' = (r = "ok")
    BY <1>5 DEF GenerateTrace
  <2>3. tmpElf[CurStem] = Cur.target
    BY <1>5 DEF GenerateTrace, FreshInv
  <2>4. /\ pc' = "saveTrace" /\ cosim' = None
        /\ UNCHANGED <<tests, i, tmpElf>>
    BY <1>5 DEF GenerateTrace
  <2>. QED
    BY <2>1, <2>2, <2>3, <2>4 DEF FreshInv, Cur, CurStem
<1>6. CASE SaveTrace
  <2>1. /\ pc' = "uvm"
        /\ UNCHANGED <<tests, i, tmpElf, tmpTrace, spikeOk>>
        /\ tmpTrace[CurStem] # None => cosim' = IF spikeOk THEN CurStem ELSE None
        /\ tmpTrace[CurStem] = None => cosim' = cosim
    BY <1>6 DEF SaveTrace
  <2>. QED
    BY <1>6, <2>1 DEF SaveTrace, FreshInv, Cur, CurStem
<1>7. CASE SaveTraceFails \/ UvmReturns
  BY <1>7 DEF SaveTraceFails, UvmReturns, FreshInv
<1>8. CASE RunTest
  BY <1>8 DEF RunTest, FreshInv, Cur, CurStem
<1>9. CASE UvmStep
  BY <1>9 DEF UvmStep, regVars, FreshInv, Cur, CurStem
<1>10. CASE WriteLog \/ WriteCsv \/ MakeArchive
  BY <1>10 DEF WriteLog, WriteCsv, MakeArchive, FreshInv
<1>11. CASE WriteLogFails \/ ExitOnStatus \/ ExitUnbound \/ CheckReturn
  BY <1>11 DEF WriteLogFails, ExitOnStatus, ExitUnbound, CheckReturn,
               RemoveTempDir, FreshInv
<1>12. CASE CheckSkip \/ CheckCopyFails \/ CheckSpike \/ CheckEnd
  BY <1>12 DEF CheckSkip, CheckCopyFails, CheckSpike, CheckEnd, FreshInv
<1>13. CASE Exited \/ UNCHANGED vars
  BY <1>13 DEF Exited, vars, regVars, FreshInv, Cur, CurStem
<1>. QED
  BY <1>1, <1>2, <1>3, <1>4, <1>5, <1>6, <1>7, <1>8, <1>9, <1>10, <1>11,
     <1>12, <1>13 DEF Next

\* The trace run_uvm is given for co-simulation (SPIKE_LOG, 281) is a
\* complete Spike trace of this target's ELF, written in this iteration:
\* the reset of spike_log_path (582), the removal of a stale trace
\* (592-593) and the test of spike_ok (605) together rule out a trace of an
\* earlier test, of a failed run, or of a run that timed out.
THEOREM CosimFresh == Spec => []CosimTraceFresh
<1>1. RInv /\ FreshInv => CosimTraceFresh
  BY DEF FreshInv, CosimTraceFresh, CurStem
<1>2. Init => RInv /\ FreshInv
  BY RInvInit, FreshInvInit
<1>3. RInv /\ FreshInv /\ [Next]_vars => RInv' /\ FreshInv'
  BY RInvStep, FreshInvStep
<1>. QED
  BY <1>1, <1>2, <1>3, PTL DEF Spec

-----------------------------------------------------------------------------
(* The suggestion of --check-spike-timeouts *)

\* The k-th checked test counts as failed: its copy raised or its Spike run
\* did not return True (527-529, 522-523).
CheckFailed(k) == fate[k] \notin {"ok", "skip"}

\* While run_spike_timeout_check loops, one fate per test handled so far
\* (i - 1 of them), and failed_targets holds exactly the targets of the
\* handled tests that failed.
SuggInv ==
    /\ fate \in Seq(Fates)
    /\ suggested \in Seq(Targets)
    /\ pc = "check" => Len(fate) = i - 1 /\ i <= Len(tests) + 1
    /\ pc = "checkReport" => Len(fate) = Len(tests)
    /\ pc \in {"check", "checkReport"} =>
         /\ \A k \in 1..Len(fate) :
              CheckFailed(k) => tests[k].target \in Range(suggested)
         /\ \A t \in Range(suggested) :
              \E k \in 1..Len(fate) : tests[k].target = t /\ CheckFailed(k)

LEMMA SuggInvInit == Init => SuggInv
<1>. SUFFICES ASSUME Init PROVE SuggInv
  OBVIOUS
<1>1. fate = << >> /\ suggested = << >> /\ i = 1
  BY DEF Init
<1>2. << >> \in Seq(Fates) /\ << >> \in Seq(Targets) /\ Len(<< >>) = 0
  BY EmptySeq
<1>3. Range(<< >>) = {}
  BY DEF Range
<1>. QED
  BY <1>1, <1>2, <1>3 DEF Init, SuggInv

\* One iteration of the check appends the test's fate, and its target to
\* failed_targets when it failed.
LEMMA CheckIteration ==
    ASSUME RInv, SuggInv, pc = "check", i <= Len(tests),
           NEW f \in Fates,
           fate' = Append(fate, f),
           suggested' = IF f \in {"ok", "skip"} THEN suggested
                        ELSE Append(suggested, Cur.target),
           i' = i + 1, pc' = "check", tests' = tests
    PROVE  SuggInv'
<1>1. /\ i \in 1..Len(tests)
      /\ Cur.target \in Targets
  BY CurStemInStems
<1>2. /\ Len(fate) = i - 1 /\ Len(fate) \in Nat
      /\ fate \in Seq(Fates) /\ suggested \in Seq(Targets)
  BY <1>1 DEF SuggInv
<1>3. /\ fate' \in Seq(Fates)
      /\ Len(fate') = i
      /\ \A k \in 1..Len(fate) : fate'[k] = fate[k]
      /\ fate'[i] = f
  <2>1. /\ Append(fate, f) \in Seq(Fates)
        /\ Len(Append(fate, f)) = Len(fate) + 1
        /\ \A k \in 1..Len(fate) : Append(fate, f)[k] = fate[k]
        /\ Append(fate, f)[Len(fate) + 1] = f
    BY <1>2, AppendProperties
  <2>. QED
    BY <1>1, <1>2, <2>1
<1>4. /\ suggested' \in Seq(Targets)
      /\ Range(suggested') = IF f \in {"ok", "skip"} THEN Range(suggested)
                             ELSE Range(suggested) \cup {Cur.target}
  <2>1. CASE f \in {"ok", "skip"}
    BY <1>2, <2>1
  <2>2. CASE f \notin {"ok", "skip"}
    <3>1. /\ Append(suggested, Cur.target) \in Seq(Targets)
          /\ Range(Append(suggested, Cur.target)) = Range(suggested) \cup {Cur.target}
      BY <1>1, <1>2, AppendProperties, RangeAppend
    <3>. QED
      BY <2>2, <3>1
  <2>. QED
    BY <2>1, <2>2
<1>5. \A k \in 1..Len(fate') :
        CheckFailed(k)' => tests'[k].target \in Range(suggested')
  <2>. SUFFICES ASSUME NEW k \in 1..Len(fate'), CheckFailed(k)'
                PROVE  tests[k].target \in Range(suggested')
    OBVIOUS
  <2>1. CASE k = i
    BY <1>3, <1>4, <2>1 DEF CheckFailed, Cur
  <2>2. CASE k # i
    <3>1. k \in 1..Len(fate) /\ CheckFailed(k)
      BY <1>2, <1>3, <2>2 DEF CheckFailed
    <3>. QED
      BY <3>1, <1>4 DEF SuggInv
  <2>. QED
    BY <2>1, <2>2
<1>6. \A t \in Range(suggested') :
        \E k \in 1..Len(fate') : tests'[k].target = t /\ CheckFailed(k)'
  <2>. SUFFICES ASSUME NEW t \in Range(suggested')
                PROVE  \E k \in 1..Len(fate') : tests[k].target = t /\ CheckFailed(k)'
    OBVIOUS
  <2>1. CASE t \in Range(suggested)
    <3>1. PICK k \in 1..Len(fate) : tests[k].target = t /\ CheckFailed(k)
      BY <2>1 DEF SuggInv
    <3>. QED
      BY <3>1, <1>2, <1>3 DEF CheckFailed
  <2>2. CASE t \notin Range(suggested)
    <3>1. t = Cur.target /\ f \notin {"ok", "skip"}
      BY <1>4, <2>2
    <3>. QED
      BY <3>1, <1>3 DEF CheckFailed, Cur
  <2>. QED
    BY <2>1, <2>2
<1>7. /\ Len(fate') = i' - 1 /\ i' <= Len(tests') + 1
      /\ pc' \in {"check", "checkReport"}
  BY <1>1, <1>3
<1>. QED
  BY <1>3, <1>4, <1>5, <1>6, <1>7 DEF SuggInv

\* Only the check's own steps touch failed_targets and the fates; the
\* regression's steps never reach "check" or "checkReport".
LEMMA SuggInvStep == RInv /\ SuggInv /\ [Next]_vars => SuggInv'
<1>. SUFFICES ASSUME RInv, SuggInv, [Next]_vars PROVE SuggInv'
  OBVIOUS
<1>1. CASE CheckSkip
  <2>. "skip" \in Fates
    BY DEF Fates
  <2>. QED
    BY <1>1, CheckIteration DEF CheckSkip
<1>2. CASE CheckCopyFails
  <2>. "raised" \in Fates
    BY DEF Fates
  <2>. QED
    BY <1>2, CheckIteration DEF CheckCopyFails
<1>3. CASE CheckSpike
  <2>1. PICK r \in SpikeOutcomes :
          /\ suggested' = IF r = "ok" THEN suggested
                          ELSE Append(suggested, Cur.target)
          /\ fate' = Append(fate, r)
    BY <1>3 DEF CheckSpike
  <2>2. /\ r \in Fates
        /\ suggested' = IF r \in {"ok", "skip"} THEN suggested
                        ELSE Append(suggested, Cur.target)
    BY <2>1 DEF Fates, SpikeOutcomes
  <2>. QED
    BY <1>3, <2>1, <2>2, CheckIteration DEF CheckSpike
<1>4. CASE CheckEnd
  <2>1. Len(tests) \in Nat /\ i \in Nat
    BY TestsSeq DEF RInv
  <2>2. Len(fate) = Len(tests)
    BY <1>4, <2>1 DEF CheckEnd, SuggInv
  <2>. QED
    BY <1>4, <2>2 DEF CheckEnd, checkVars, SuggInv, CheckFailed
\* The steps of the regression and the end of the process leave
\* failed_targets and the fates alone and never reach the check.
<1>. DEFINE Quiet == UNCHANGED checkVars /\ pc' \notin {"check", "checkReport"}
<1>5. Quiet => SuggInv'
  BY DEF checkVars, SuggInv
<1>6. CASE BuildSim \/ BuildSimFails \/ LoopEnd \/ SourceMissing \/ CopyElf
  BY <1>5, <1>6 DEF BuildSim, BuildSimFails, LoopEnd, SourceMissing, CopyElf
<1>7. CASE CopyFails \/ SpikeSkipped \/ GenerateTrace \/ SaveTrace
           \/ SaveTraceFails
  BY <1>5, <1>7 DEF CopyFails, SpikeSkipped, GenerateTrace, SaveTrace,
                   SaveTraceFails
<1>8. CASE RunTest \/ UvmStep \/ UvmReturns \/ WriteLog \/ WriteLogFails
  BY <1>5, <1>8 DEF RunTest, UvmStep, UvmReturns, WriteLog, WriteLogFails,
                   regVars
<1>9. CASE WriteCsv \/ MakeArchive \/ ExitOnStatus \/ ExitUnbound
           \/ CheckReturn \/ Exited
  BY <1>5, <1>9 DEF WriteCsv, MakeArchive, ExitOnStatus, ExitUnbound,
                   CheckReturn, Exited, vars, regVars
<1>10. CASE UNCHANGED vars
  <2>1. UNCHANGED <<pc, tests, i, fate, suggested>>
    BY <1>10 DEF vars, regVars, checkVars
  <2>. QED
    BY <2>1 DEF SuggInv, CheckFailed
<1>. QED
  BY <1>1, <1>2, <1>3, <1>4, <1>5, <1>6, <1>7, <1>8, <1>9, <1>10 DEF Next

\* Under --check-spike-timeouts, the suggested SPIKE_DENYLIST logged at
\* 533-537 holds exactly the targets of the tests whose copy raised or
\* whose Spike run did not return True, and every test was handled first.
THEOREM SuggestionCorrect == Spec => []SuggestionComplete
<1>1. RInv /\ SuggInv => SuggestionComplete
  BY DEF SuggInv, SuggestionComplete, CheckFailed
<1>2. Init => RInv /\ SuggInv
  BY RInvInit, SuggInvInit
<1>3. RInv /\ SuggInv /\ [Next]_vars => RInv' /\ SuggInv'
  BY RInvStep, SuggInvStep
<1>. QED
  BY <1>1, <1>2, <1>3, PTL DEF Spec

-----------------------------------------------------------------------------
(* Type correctness *)

\* The type, and that a status has been assigned whenever a row is about
\* to be written (every path to 624 assigns status first).
TInv ==
    /\ TypeOK
    /\ pc = "writeLog" => status \in Statuses

\* The run_uvm call made at 611-614 keeps its own state well typed: its
\* steps are those of RunUvm, whose type lemma applies.
LEMMA UvmCallType ==
    ASSUME UvmTypeOK, Start \/ Attempt \/ AttemptRaises \/ ClassifyLast \/ Return
    PROVE  UvmTypeOK'
BY TypeStep DEF UvmNext

LEMMA TInvInit == Init => TInv
<1>. SUFFICES ASSUME Init PROVE TInv
  OBVIOUS
<1>1. Len(tests) \in Nat
  BY TestsSeq DEF Init
<1>2. /\ << >> \in Seq(RowType) /\ << >> \in Seq(Targets)
      /\ << >> \in Seq(Fates)
  BY EmptySeq
<1>3. UvmTypeOK
  BY TypeInit DEF Init
<1>4. /\ tmpElf \in [Stems -> Targets \cup {None}]
      /\ tmpTrace \in [Stems -> Trace \cup {None}]
      /\ savedTrace \in [Stems \X BOOLEAN -> Trace \cup {None}]
      /\ logs \in [Stems -> Nat]
  BY DEF Init
<1>5. /\ pc \in {"check", "buildSim"}
      /\ tests \in TestLists
      /\ i \in 1..Len(tests) + 1
  BY <1>1 DEF Init
<1>9. /\ spikeOk \in BOOLEAN
      /\ cosim = None /\ csv = None /\ exitCode = None
      /\ status = Unbound
      /\ zipped \in BOOLEAN
  BY Zenon DEF Init
<1>10. /\ reason \in ReasonKinds
       /\ rows = << >> /\ suggested = << >> /\ fate = << >>
  BY DEF Init, ReasonKinds
<1>6. /\ rows \in Seq(RowType) /\ csv \in Seq(RowType) \cup {None}
      /\ suggested \in Seq(Targets) /\ fate \in Seq(Fates)
  BY <1>2, <1>9, <1>10
<1>7. /\ cosim \in Stems \cup {None} /\ exitCode \in {0, 1, None}
      /\ status \in Statuses \cup {Unbound}
  BY <1>9
<1>8. TypeOK
  BY <1>3, <1>4, <1>5, <1>6, <1>7, <1>9, <1>10 DEF TypeOK
<1>. QED
  BY <1>5, <1>8 DEF TInv

\* Every step keeps the state well typed.
LEMMA TInvStep == RInv /\ TInv /\ [Next]_vars => TInv'
<1>. SUFFICES ASSUME RInv, TInv, [Next]_vars PROVE TInv'
  OBVIOUS
<1>. USE DEF checkVars
<1>0. /\ Len(tests) \in Nat
      /\ UvmTypeOK
      /\ i \in 1..Len(tests) + 1
  BY TestsSeq DEF RInv, TInv, TypeOK
<1>. DEFINE KeepsUvm == UNCHANGED uvmVars
<1>u. KeepsUvm => UvmTypeOK'
  BY <1>0 DEF uvmVars, UvmTypeOK
<1>1. CASE BuildSim \/ BuildSimFails \/ LoopEnd \/ WriteCsv \/ MakeArchive
           \/ CheckEnd
  BY <1>1, <1>u DEF BuildSim, BuildSimFails, LoopEnd, WriteCsv, MakeArchive,
                    CheckEnd, TInv, TypeOK
<1>2. CASE SourceMissing \/ SpikeSkipped \/ SaveTraceFails
  BY <1>2, <1>u DEF SourceMissing, SpikeSkipped, SaveTraceFails, TInv, TypeOK,
                    Statuses, ReasonKinds
<1>3. CASE CopyElf
  <2>1. CurStem \in Stems /\ Cur.target \in Targets
    BY <1>3, CurStemInStems DEF CopyElf
  <2>. QED
    BY <1>3, <1>u, <2>1 DEF CopyElf, TInv, TypeOK
<1>4. CASE CopyFails
  <2>1. CurStem \in Stems /\ Cur.target \in Targets
    BY <1>4, CurStemInStems DEF CopyFails
  <2>2. tmpElf[CurStem] \in Targets \cup {None}
    BY <2>1 DEF TInv, TypeOK
  <2>. QED
    BY <1>4, <1>u, <2>1, <2>2 DEF CopyFails, TInv, TypeOK, Statuses, ReasonKinds
<1>5. CASE GenerateTrace
  <2>0. pc \in InLoop
    BY <1>5 DEF GenerateTrace, InLoop
  <2>1. CurStem \in Stems /\ i \in Nat
    <3>1. CurStem \in Stems /\ i \in 1..Len(tests)
      BY <2>0, CurStemInStems
    <3>. QED
      BY <3>1
  <2>2. tmpElf[CurStem] \in Targets \cup {None}
    BY <2>1 DEF TInv, TypeOK
  <2>. QED
    BY <1>5, <1>u, <2>1, <2>2 DEF GenerateTrace, TInv, TypeOK, Trace
<1>6. CASE SaveTrace
  <2>1. CurStem \in Stems
    BY <1>6, CurStemInStems DEF SaveTrace, InLoop
  <2>2. tmpTrace[CurStem] \in Trace \cup {None} /\ <<CurStem, ~spikeOk>> \in Stems \X BOOLEAN
    BY <2>1 DEF TInv, TypeOK
  <2>. QED
    BY <1>6, <1>u, <2>1, <2>2 DEF SaveTrace, TInv, TypeOK
<1>7. CASE RunTest \/ UvmStep
  <2>1. UvmTypeOK'
    BY <1>0, <1>7, UvmCallType DEF RunTest, UvmStep
  <2>. QED
    BY <1>7, <2>1 DEF RunTest, UvmStep, regVars, TInv, TypeOK
<1>8. CASE UvmReturns
  <2>1. UvmTypeOK'
    BY <1>0, <1>8, UvmCallType DEF UvmReturns
  <2>2. verdict \in Verdict
    BY <1>0 DEF UvmTypeOK
  <2>. QED
    BY <1>8, <2>1, <2>2 DEF UvmReturns, TInv, TypeOK, Verdict
<1>9. CASE WriteLog
  <2>1. CurStem \in Stems /\ Cur.target \in Targets /\ i \in 1..Len(tests)
    BY <1>9, CurStemInStems DEF WriteLog, InLoop
  <2>2. [target |-> Cur.target, status |-> status, reason |-> reason,
         log |-> CurStem] \in RowType
    BY <1>9, <2>1 DEF WriteLog, TInv, TypeOK, RowType
  <2>3. rows' \in Seq(RowType)
    BY <1>9, <2>2, AppendProperties DEF WriteLog, TInv, TypeOK
  <2>. QED
    BY <1>9, <1>u, <2>1, <2>3 DEF WriteLog, TInv, TypeOK
<1>10. CASE WriteLogFails \/ ExitOnStatus \/ ExitUnbound \/ CheckReturn
  BY <1>10, <1>u DEF WriteLogFails, ExitOnStatus, ExitUnbound, CheckReturn,
                     RemoveTempDir, TInv, TypeOK
<1>11. CASE CheckSkip
  <2>1. Append(fate, "skip") \in Seq(Fates)
    BY AppendProperties DEF TInv, TypeOK, Fates
  <2>2. i' \in 1..Len(tests') + 1
    BY <1>11 DEF CheckSkip, TInv, TypeOK
  <2>. QED
    BY <1>11, <1>u, <2>1, <2>2 DEF CheckSkip, TInv, TypeOK
<1>12. CASE CheckCopyFails
  <2>1. CurStem \in Stems /\ Cur.target \in Targets
    BY <1>12, CurStemInStems DEF CheckCopyFails
  <2>2. tmpElf[CurStem] \in Targets \cup {None}
    BY <2>1 DEF TInv, TypeOK
  <2>3. /\ Append(fate, "raised") \in Seq(Fates)
        /\ Append(suggested, Cur.target) \in Seq(Targets)
    BY <2>1, AppendProperties DEF TInv, TypeOK, Fates
  <2>4. tmpElf' \in [Stems -> Targets \cup {None}]
    BY <1>12, <2>1, <2>2 DEF CheckCopyFails, TInv, TypeOK
  <2>5. i' \in 1..Len(tests') + 1
    BY <1>12, CurStemInStems DEF CheckCopyFails
  <2>. QED
    BY <1>12, <1>u, <2>3, <2>4, <2>5 DEF CheckCopyFails, TInv, TypeOK
<1>13. CASE CheckSpike
  <2>1. CurStem \in Stems /\ Cur.target \in Targets /\ i \in Nat
    BY <1>13, CurStemInStems DEF CheckSpike
  <2>2. PICK r \in SpikeOutcomes :
          /\ tmpTrace' = [tmpTrace EXCEPT ![CurStem] =
                            IF r = "noFile" THEN tmpTrace[CurStem]
                            ELSE [of |-> Cur.target, complete |-> r = "ok",
                                  iter |-> i]]
          /\ suggested' = IF r = "ok" THEN suggested
                          ELSE Append(suggested, Cur.target)
          /\ fate' = Append(fate, r)
    BY <1>13 DEF CheckSpike
  <2>3. /\ Append(fate, r) \in Seq(Fates)
        /\ Append(suggested, Cur.target) \in Seq(Targets)
    BY <2>1, AppendProperties DEF TInv, TypeOK, Fates
  <2>4. tmpTrace' \in [Stems -> Trace \cup {None}]
    BY <2>1, <2>2 DEF TInv, TypeOK, Trace
  <2>5. /\ suggested' \in Seq(Targets)
        /\ fate' \in Seq(Fates)
    BY <2>2, <2>3 DEF TInv, TypeOK
  <2>6. /\ tmpElf' \in [Stems -> Targets \cup {None}]
        /\ i' \in 1..Len(tests') + 1
    BY <1>13, <2>1 DEF CheckSpike, TInv, TypeOK
  <2>. QED
    BY <1>13, <1>u, <2>4, <2>5, <2>6 DEF CheckSpike, TInv, TypeOK
<1>14. CASE Exited \/ UNCHANGED vars
  BY <1>14 DEF Exited, vars, regVars, checkVars, uvmVars, TInv, TypeOK,
               UvmTypeOK
<1>. QED
  BY <1>1, <1>2, <1>3, <1>4, <1>5, <1>6, <1>7, <1>8, <1>9, <1>10, <1>11,
     <1>12, <1>13, <1>14 DEF Next

\* Every state of run_full_regression and of run_spike_timeout_check is
\* well typed, the state of the run_uvm calls they make included.
THEOREM RegressionTypeCorrect == Spec => []TypeOK
<1>1. Init => RInv /\ TInv
  BY RInvInit, TInvInit
<1>2. RInv /\ TInv /\ [Next]_vars => RInv' /\ TInv'
  BY RInvStep, TInvStep
<1>. QED
  BY <1>1, <1>2, PTL DEF Spec, TInv
=============================================================================
