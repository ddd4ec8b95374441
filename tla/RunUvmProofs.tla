---------------------------- MODULE RunUvmProofs ----------------------------
(***************************************************************************)
(* Proofs about run_uvm (RunUvm) for every value of the constants: the     *)
(* call's state stays well typed, and the retry loop hands a licence       *)
(* failure to the classifier only after the last permitted attempt.        *)
(***************************************************************************)
EXTENDS RunUvm, UvmOutputProofs, TLAPS

-----------------------------------------------------------------------------
(* Type correctness *)

\* The initial state of a call is well typed.
LEMMA TypeInit == UvmInit => UvmTypeOK
BY MaxRetriesAssumption DEF UvmInit, UvmTypeOK, NoResult, NoOutput, Output,
   NoVerdict, MkVerdict, Verdict, Statuses, ReasonKinds, BlankLine, Line, Heads

\* Every step of a call keeps the state well typed.
LEMMA TypeStep == UvmTypeOK /\ [UvmNext]_uvmVars => UvmTypeOK'
<1>. SUFFICES ASSUME UvmTypeOK, [UvmNext]_uvmVars PROVE UvmTypeOK'
  OBVIOUS
<1>1. CASE ArtifactMissing
  BY <1>1, MaxRetriesAssumption
  DEF ArtifactMissing, UvmTypeOK, NoResult, NoOutput, MkVerdict, Verdict,
      Statuses, ReasonKinds, BlankLine, Line, Heads
<1>2. CASE Start
  BY <1>2, MaxRetriesAssumption
  DEF Start, UvmTypeOK, NoResult, NoOutput, NoVerdict, MkVerdict, Verdict,
      Statuses, ReasonKinds, BlankLine, Line, Heads
<1>3. CASE Attempt
  BY <1>3, MaxRetriesAssumption DEF Attempt, Retries, UvmTypeOK
<1>4. CASE AttemptRaises
  BY <1>4 DEF AttemptRaises, UvmTypeOK, MkVerdict, Verdict, Statuses,
     ReasonKinds, BlankLine, Line, Heads
<1>5. CASE ClassifyLast
  <2>0. NoOutput \in Output
    BY DEF NoOutput, Output
  <2>1. last.rc \in ExitCodes \cup {0} /\ last.o \in Outputs \cup {NoOutput}
    BY DEF UvmTypeOK
  <2>2. last.rc \in Int /\ last.o \in Output
    <3>0. 0 \in Int
      OBVIOUS
    <3>1. last.rc \in Int
      BY <2>1, <3>0, ExitCodesAssumption, Zenon
    <3>2. last.o \in Output
      BY <2>0, <2>1, OutputsAssumption, Zenon
    <3>. QED
      BY <3>1, <3>2
  <2>3. Classify(last.rc, CombinedOutput(last.o)) \in Verdict
    BY <2>2, CombinedOutputType, ClassifyType
  <2>. QED
    BY <1>5, <2>3 DEF ClassifyLast, UvmTypeOK
<1>6. CASE Return
  BY <1>6 DEF Return, UvmTypeOK
<1>7. CASE UNCHANGED uvmVars
  BY <1>7 DEF uvmVars, UvmTypeOK
<1>. QED
  BY <1>1, <1>2, <1>3, <1>4, <1>5, <1>6, <1>7 DEF UvmNext

\* Every state of a run_uvm call is well typed; in particular the attempt
\* counter of line 284 never exceeds max_retries.
THEOREM TypeCorrect == UvmSpec => []UvmTypeOK
<1>. QED
  BY TypeInit, TypeStep, PTL DEF UvmSpec

-----------------------------------------------------------------------------
(* The retry bound *)

\* The inductive invariant: RetryPolicy needs the attempt counter's bound
\* from the type invariant, since the loop's exit test (n < MaxRetries) only
\* says that attempt is at least MaxRetries.
RetryInv == UvmTypeOK /\ RetryPolicy

\* A licence failure (exit code non-zero with 1-800-VERILOG in the output)
\* reaches the classifier of lines 307-339 only after all max_retries
\* attempts of the loop of lines 284-302 have been made.
THEOREM RetryBound == UvmSpec => []RetryPolicy
<1>1. UvmInit => RetryInv
  BY TypeInit DEF RetryInv, RetryPolicy, UvmInit
<1>2. RetryInv /\ [UvmNext]_uvmVars => RetryInv'
  <2>. SUFFICES ASSUME RetryInv, [UvmNext]_uvmVars PROVE RetryPolicy'
    BY TypeStep DEF RetryInv
  <2>2. CASE Attempt
    <3>1. PICK rc \in ExitCodes, o \in Outputs :
            /\ last' = [rc |-> rc, o |-> o]
            /\ IF Retries(rc, o, attempt)
               THEN attempt' = attempt + 1 /\ upc' = "attempt"
               ELSE attempt' = attempt /\ upc' = "classify"
      BY <2>2 DEF Attempt
    <3>2. CASE Retries(rc, o, attempt)
      BY <3>1, <3>2 DEF RetryPolicy
    <3>3. CASE ~Retries(rc, o, attempt)
      <4>1. attempt \in 0..MaxRetries
        BY DEF RetryInv, UvmTypeOK
      <4>2. attempt = MaxRetries \/ ~LicenseFailure(rc, o)
        BY <4>1, <3>3, MaxRetriesAssumption DEF Retries
      <4>. QED
        BY <3>1, <3>3, <4>2 DEF RetryPolicy
    <3>. QED
      BY <3>2, <3>3
  <2>3. CASE ArtifactMissing \/ Start \/ AttemptRaises \/ ClassifyLast \/ Return
    BY <2>3 DEF ArtifactMissing, Start, AttemptRaises, ClassifyLast, Return,
               RetryPolicy
  <2>4. CASE UNCHANGED uvmVars
    BY <2>4 DEF RetryInv, RetryPolicy, uvmVars, LicenseFailure
  <2>. QED
    BY <2>2, <2>3, <2>4 DEF UvmNext
<1>3. RetryInv => RetryPolicy
  BY DEF RetryInv
<1>. QED
  BY <1>1, <1>2, <1>3, PTL DEF UvmSpec

=============================================================================
