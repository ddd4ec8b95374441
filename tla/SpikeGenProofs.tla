---------------------------- MODULE SpikeGenProofs ----------------------------
(***************************************************************************)
(* Proofs about generate_spike_log (SpikeGen) for every timeout, grace     *)
(* period and set of exit statuses: the call's state stays well typed, it  *)
(* returns True only from a first wait that ended in time with status 0,   *)
(* and every step of the call is a step or a stutter of the abstract call  *)
(* SpikeCall under the refinement mapping Abs.  Fairness, and with it the  *)
(* abstract promise that the call returns, stays with TLC (spike_gen_pass). *)
(***************************************************************************)
EXTENDS SpikeGen, TLAPS

-----------------------------------------------------------------------------
(* Type correctness *)

\* The initial state of a call is well typed.
LEMMA SpikeTypeInit == SpikeInit => SpikeTypeOK
<1>. SUFFICES ASSUME SpikeInit PROVE SpikeTypeOK
  OBVIOUS
<1>1. clock \in 0..(Timeout + Grace)
  BY TimeoutAssumption, GraceAssumption DEF SpikeInit
<1>2. proc \in [Members -> {"none", "running", "exited"}]
      /\ ignoresTerm \in [Members -> BOOLEAN]
  BY DEF SpikeInit
<1>3. leaderRc \in ExitCodes \cup {SigtermRc, Running}
  BY DEF SpikeInit
<1>. QED
  BY <1>1, <1>2, <1>3 DEF SpikeInit, SpikeTypeOK

\* Every step of the driver or of the process group keeps the state well
\* typed; Tick's guard clock < Deadline keeps the clock within the two waits.
LEMMA SpikeTypeStep == SpikeTypeOK /\ [SpikeNext]_spikeVars => SpikeTypeOK'
<1>. SUFFICES ASSUME SpikeTypeOK, [SpikeNext]_spikeVars PROVE SpikeTypeOK'
  OBVIOUS
<1>. USE TimeoutAssumption, GraceAssumption, ExitCodesAssumption
<1>1. CASE Call \/ OpenFails \/ PopenFails \/ WaitReturns \/ WaitTimesOut
  BY <1>1 DEF Call, OpenFails, PopenFails, WaitReturns, WaitTimesOut,
             ReturnWith, SpikeTypeOK
<1>2. CASE Spawn
  BY <1>2 DEF Spawn, SpikeTypeOK, Members
<1>3. CASE KillGroup
  BY <1>3 DEF KillGroup, SpikeTypeOK, Members, SigtermRc
<1>4. CASE KillWaitReturns \/ KillWaitTimesOut
  BY <1>4 DEF KillWaitReturns, KillWaitTimesOut, ReturnWith, SpikeTypeOK
<1>5. CASE Tick
  BY <1>5 DEF Tick, Deadline, SpikeTypeOK
<1>6. CASE LeaderExits
  BY <1>6 DEF LeaderExits, SpikeTypeOK, Members
<1>7. CASE DescExits
  BY <1>7 DEF DescExits, SpikeTypeOK, Members
<1>8. CASE Finished \/ UNCHANGED spikeVars
  BY <1>8 DEF Finished, spikeVars, SpikeTypeOK
<1>. QED
  BY <1>1, <1>2, <1>3, <1>4, <1>5, <1>6, <1>7, <1>8 DEF SpikeNext, Driver

\* Every state of a generate_spike_log call is well typed.
THEOREM SpikeTypeCorrect == SpikeSpec => []SpikeTypeOK
BY SpikeTypeInit, SpikeTypeStep, PTL DEF SpikeSpec

-----------------------------------------------------------------------------
(* Refinement of SpikeCall, safety part *)

\* What the mapping needs besides the types: Spike is started only by the
\* Popen of 231-235, and it has an exit status only once it has exited.
RefInv ==
    /\ SpikeTypeOK
    /\ spc \in {"idle", "open"} => proc["leader"] = "none"
    /\ proc["leader"] # "exited" => leaderRc = Running

LEMMA RefInvInit == SpikeInit => RefInv
BY SpikeTypeInit DEF SpikeInit, RefInv, Members

LEMMA RefInvStep == RefInv /\ [SpikeNext]_spikeVars => RefInv'
<1>. SUFFICES ASSUME RefInv, [SpikeNext]_spikeVars PROVE RefInv'
  OBVIOUS
<1>1. SpikeTypeOK'
  BY SpikeTypeStep DEF RefInv
<1>. USE RunningAssumption
<1>2. CASE Call \/ OpenFails \/ PopenFails \/ WaitReturns \/ WaitTimesOut
  BY <1>1, <1>2 DEF Call, OpenFails, PopenFails, WaitReturns, WaitTimesOut,
                   ReturnWith, RefInv
<1>3. CASE Spawn
  BY <1>1, <1>3 DEF Spawn, RefInv, SpikeTypeOK, Members
<1>4. CASE KillGroup
  BY <1>1, <1>4 DEF KillGroup, RefInv, SpikeTypeOK, Members
<1>5. CASE KillWaitReturns \/ KillWaitTimesOut \/ Tick
  BY <1>1, <1>5 DEF KillWaitReturns, KillWaitTimesOut, Tick, ReturnWith, RefInv
<1>6. CASE LeaderExits
  BY <1>1, <1>6 DEF LeaderExits, RefInv, SpikeTypeOK
<1>7. CASE DescExits
  BY <1>1, <1>7 DEF DescExits, RefInv, SpikeTypeOK, Members
<1>8. CASE Finished \/ UNCHANGED spikeVars
  BY <1>1, <1>8 DEF Finished, spikeVars, RefInv
<1>. QED
  BY <1>2, <1>3, <1>4, <1>5, <1>6, <1>7, <1>8 DEF SpikeNext, Driver

\* Each step of generate_spike_log is a step of the abstract call or leaves
\* the mapped state unchanged: in particular it returns True only after
\* Spike has exited with status 0 (244-248), and the SIGTERM status it
\* records on a kill (240) is the simulator finishing.
LEMMA RefStep == RefInv /\ [SpikeNext]_spikeVars => [Abs!ACallNext]_Abs!aVars
<1>. SUFFICES ASSUME RefInv, [SpikeNext]_spikeVars
              PROVE  [Abs!ACallNext]_Abs!aVars
  OBVIOUS
<1>. USE DEF Abs!aVars
<1>1. CASE Call
  BY <1>1 DEF Call, Abs!ACallNext, Abs!ACall
<1>2. CASE OpenFails \/ PopenFails \/ WaitReturns
  BY <1>2 DEF OpenFails, PopenFails, WaitReturns, ReturnWith,
             Abs!ACallNext, Abs!AReturn
<1>3. CASE KillWaitReturns \/ KillWaitTimesOut
  BY <1>3 DEF KillWaitReturns, KillWaitTimesOut, ReturnWith,
             Abs!ACallNext, Abs!AReturn
<1>4. CASE Spawn \/ WaitTimesOut \/ Tick \/ DescExits \/ Finished \/ UNCHANGED spikeVars
  BY <1>4 DEF Spawn, WaitTimesOut, Tick, DescExits, Finished, spikeVars
<1>5. CASE KillGroup
  <2>1. CASE proc["leader"] = "running" /\ ~ignoresTerm["leader"]
    <3>1. leaderRc = Running /\ spc = "kill" /\ leaderRc' = SigtermRc
      BY <1>5, <2>1 DEF KillGroup, RefInv
    <3>2. SigtermRc \in ExitCodes \cup {SigtermRc}
      OBVIOUS
    <3>. QED
      BY <1>5, <3>1, <3>2 DEF KillGroup, Abs!ACallNext, Abs!AFinish
  <2>2. CASE ~(proc["leader"] = "running" /\ ~ignoresTerm["leader"])
    BY <1>5, <2>2 DEF KillGroup
  <2>. QED
    BY <2>1, <2>2
<1>6. CASE LeaderExits
  <2>1. leaderRc = Running /\ spc # "idle"
    BY <1>6 DEF LeaderExits, RefInv, SpikeTypeOK
  <2>. QED
    BY <1>6, <2>1 DEF LeaderExits, Abs!ACallNext, Abs!AFinish
<1>. QED
  BY <1>1, <1>2, <1>3, <1>4, <1>5, <1>6 DEF SpikeNext, Driver

\* generate_spike_log implements the safety part of the abstract call of
\* spec section 4.3 under the mapping Abs: it starts in the abstract
\* initial state and never takes a step the abstract call could not.
THEOREM SpikeCallSafety == SpikeSpec => Abs!ACallInit /\ [][Abs!ACallNext]_Abs!aVars
<1>1. SpikeInit => Abs!ACallInit
  BY DEF SpikeInit, Abs!ACallInit
<1>2. SpikeSpec => []RefInv
  BY RefInvInit, RefInvStep, PTL DEF SpikeSpec
<1>. QED
  BY <1>1, <1>2, RefStep, PTL DEF SpikeSpec

-----------------------------------------------------------------------------
(* No True after a timeout *)

\* Until the first wait of 237 has returned or timed out, no timeout has
\* happened and the clock has not passed the timeout: Tick's guard in
\* "wait" is clock < Timeout.
TimeInv ==
    /\ SpikeTypeOK
    /\ spc \in {"idle", "open", "wait"} => ~timedOut /\ clock <= Timeout

LEMMA TimeInvInit == SpikeInit => TimeInv
BY SpikeTypeInit, TimeoutAssumption DEF SpikeInit, TimeInv

LEMMA TimeInvStep == TimeInv /\ [SpikeNext]_spikeVars => TimeInv'
<1>. SUFFICES ASSUME TimeInv, [SpikeNext]_spikeVars PROVE TimeInv'
  OBVIOUS
<1>1. SpikeTypeOK'
  BY SpikeTypeStep DEF TimeInv
<1>. USE TimeoutAssumption, GraceAssumption
<1>2. CASE Call \/ Spawn \/ Tick
  BY <1>1, <1>2 DEF Call, Spawn, Tick, Deadline, TimeInv, SpikeTypeOK
<1>3. CASE OpenFails \/ PopenFails \/ WaitReturns \/ WaitTimesOut
  BY <1>1, <1>3 DEF OpenFails, PopenFails, WaitReturns, WaitTimesOut,
                   ReturnWith, TimeInv
<1>4. CASE KillGroup \/ KillWaitReturns \/ KillWaitTimesOut
  BY <1>1, <1>4 DEF KillGroup, KillWaitReturns, KillWaitTimesOut, ReturnWith,
                   TimeInv
<1>5. CASE LeaderExits \/ DescExits \/ Finished \/ UNCHANGED spikeVars
  BY <1>1, <1>5 DEF LeaderExits, DescExits, Finished, spikeVars, TimeInv
<1>. QED
  BY <1>2, <1>3, <1>4, <1>5 DEF SpikeNext, Driver

\* Only the return of the first wait (248) can return True; every other
\* return of generate_spike_log returns False.
LEMMA TrueStep ==
    TimeInv /\ [SpikeNext]_spikeVars =>
        [(spc # "returned" /\ spc' = "returned" /\ result') =>
           (~timedOut /\ leaderRc = 0 /\ clock <= Timeout)]_spikeVars
<1>. SUFFICES ASSUME TimeInv, [SpikeNext]_spikeVars,
                     spc # "returned", spc' = "returned", result'
              PROVE  ~timedOut /\ leaderRc = 0 /\ clock <= Timeout
  OBVIOUS
<1>1. CASE WaitReturns
  BY <1>1 DEF WaitReturns, ReturnWith, TimeInv
<1>2. CASE OpenFails \/ PopenFails \/ KillWaitReturns \/ KillWaitTimesOut
  BY <1>2 DEF OpenFails, PopenFails, KillWaitReturns, KillWaitTimesOut,
             ReturnWith
<1>3. CASE Call \/ Spawn \/ Tick \/ WaitTimesOut \/ KillGroup
  BY <1>3 DEF Call, Spawn, Tick, WaitTimesOut, KillGroup
<1>4. CASE LeaderExits \/ DescExits \/ Finished \/ UNCHANGED spikeVars
  BY <1>4 DEF LeaderExits, DescExits, Finished, spikeVars
<1>. QED
  BY <1>1, <1>2, <1>3, <1>4 DEF SpikeNext, Driver

\* The timeout kill of spec section 8 makes the run a failure: whatever
\* Spike does after the SIGTERM of 240, generate_spike_log returns True only
\* from a first wait that returned in time with Spike's status 0.
THEOREM ReturnsTrueInTime == SpikeSpec => TrueOnlyInTime
<1>1. SpikeSpec => []TimeInv
  BY TimeInvInit, TimeInvStep, PTL DEF SpikeSpec
<1>. QED
  BY <1>1, TrueStep, PTL DEF SpikeSpec, TrueOnlyInTime
=============================================================================
