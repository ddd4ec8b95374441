------------------------------ MODULE SpikeGen ------------------------------
(***************************************************************************)
(* GoldenTraceGenerator: one call of generate_spike_log (lines 217-251).   *)
(* The driver opens the trace file, starts Spike in a new session (its own *)
(* process group) with stdout and stderr sent to the file, and waits for   *)
(* it with a timeout; on timeout it sends SIGTERM to the process group and *)
(* waits for the leader once more, for at most five seconds.               *)
(*                                                                         *)
(* The process group is the leader (Spike) and possibly one descendant it  *)
(* started, which inherits the file (spec section 4.3: the simulator "may  *)
(* spawn or leave behind descendants").  Each member exits on its own at   *)
(* any time, and either dies of SIGTERM or ignores it.  Time is a discrete *)
(* clock of seconds that advances while the driver waits.                  *)
(***************************************************************************)
EXTENDS Integers

CONSTANTS
    Timeout,     \* the timeout argument (30, or 10 in the check mode)
    Grace,       \* the wait after SIGTERM (process.wait(timeout=5), 241)
    ExitCodes,   \* the exit statuses Spike may end with on its own
    Running      \* the status of a process that has not exited

ASSUME TimeoutAssumption == Timeout \in Nat \ {0}
ASSUME GraceAssumption == Grace \in Nat \ {0}
ASSUME ExitCodesAssumption == ExitCodes \subseteq Nat
ASSUME RunningAssumption == Running \notin Int

\* Popen.returncode of a process killed by SIGTERM.
SigtermRc == -15

Members == {"leader", "desc"}

VARIABLES
    spc,        \* the driver: "idle", "open", "wait", "kill", "waitKill", "returned"
    clock,      \* seconds since Popen
    proc,       \* each member: "none" (not started), "running" or "exited"
    ignoresTerm,\* each member: whether it ignores SIGTERM
    leaderRc,   \* the leader's exit status, or Running
    file,       \* the trace file: "absent" or "present"
    timedOut,   \* the first wait raised TimeoutExpired
    result      \* the Boolean returned

spikeVars == <<spc, clock, proc, ignoresTerm, leaderRc, file, timedOut, result>>

SpikeTypeOK ==
    /\ spc \in {"idle", "open", "wait", "kill", "waitKill", "returned"}
    /\ clock \in 0..(Timeout + Grace)
    /\ proc \in [Members -> {"none", "running", "exited"}]
    /\ ignoresTerm \in [Members -> BOOLEAN]
    /\ leaderRc \in ExitCodes \cup {SigtermRc, Running}
    /\ file \in {"absent", "present"}
    /\ timedOut \in BOOLEAN
    /\ result \in BOOLEAN

SpikeInit ==
    /\ spc = "idle"
    /\ clock = 0
    /\ proc = [m \in Members |-> "none"]
    /\ ignoresTerm = [m \in Members |-> FALSE]
    /\ leaderRc = Running
    /\ file = "absent"
    /\ timedOut = FALSE
    /\ result = FALSE

\* The driver leaves generate_spike_log returning r.
ReturnWith(r) ==
    /\ spc' = "returned"
    /\ result' = r

-----------------------------------------------------------------------------
(* The driver *)

\* run_full_regression calls generate_spike_log (595).
Call ==
    /\ spc = "idle"
    /\ spc' = "open"
    /\ UNCHANGED <<clock, proc, ignoresTerm, leaderRc, file, timedOut, result>>

\* open(log_path, 'w') raises: the outer handler returns False (230, 249-251).
OpenFails ==
    /\ spc = "open"
    /\ ReturnWith(FALSE)
    /\ UNCHANGED <<clock, proc, ignoresTerm, leaderRc, file, timedOut>>

\* The file is created and Popen raises (e.g. the binary is missing): the
\* file stays, empty, and the call returns False (230-235, 249-251).
PopenFails ==
    /\ spc = "open"
    /\ file' = "present"
    /\ ReturnWith(FALSE)
    /\ UNCHANGED <<clock, proc, ignoresTerm, leaderRc, timedOut>>

\* Popen starts Spike in a new session (231-235); Spike may start a
\* descendant in its group, and each member may ignore SIGTERM.
Spawn ==
    /\ spc = "open"
    /\ file' = "present"
    /\ \E d \in {"none", "running"}, ign \in [Members -> BOOLEAN] :
         /\ proc' = [proc EXCEPT !["leader"] = "running", !["desc"] = d]
         /\ ignoresTerm' = ign
    /\ clock' = 0
    /\ spc' = "wait"
    /\ UNCHANGED <<leaderRc, timedOut, result>>

\* process.wait(timeout) returns: False on a non-zero exit status (237,
\* 244-247), True otherwise (248).
WaitReturns ==
    /\ spc = "wait"
    /\ proc["leader"] = "exited"
    /\ ReturnWith(leaderRc = 0)
    /\ UNCHANGED <<clock, proc, ignoresTerm, leaderRc, file, timedOut>>

\* The first wait raises TimeoutExpired (238-239).
WaitTimesOut ==
    /\ spc = "wait"
    /\ proc["leader"] = "running"
    /\ clock = Timeout
    /\ timedOut' = TRUE
    /\ spc' = "kill"
    /\ UNCHANGED <<clock, proc, ignoresTerm, leaderRc, file, result>>

\* os.killpg(os.getpgid(pid), SIGTERM) (240): every running member of the
\* group that does not ignore SIGTERM dies of it.
KillGroup ==
    /\ spc = "kill"
    /\ proc' = [m \in Members |->
                  IF proc[m] = "running" /\ ~ignoresTerm[m] THEN "exited"
                  ELSE proc[m]]
    /\ leaderRc' = IF proc["leader"] = "running" /\ ~ignoresTerm["leader"]
                   THEN SigtermRc ELSE leaderRc
    /\ spc' = "waitKill"
    /\ UNCHANGED <<clock, ignoresTerm, file, timedOut, result>>

\* Mutation of KillWaitReturns: after the kill, the call returns whether
\* the leader's status is 0, as after the first wait.
KillWaitReturnsRc ==
    /\ spc = "waitKill"
    /\ proc["leader"] = "exited"
    /\ ReturnWith(leaderRc = 0)
    /\ UNCHANGED <<clock, proc, ignoresTerm, leaderRc, file, timedOut>>

\* process.wait(timeout=5) returns; the call returns False (241-242).
KillWaitReturns ==
    /\ spc = "waitKill"
    /\ proc["leader"] = "exited"
    /\ ReturnWith(FALSE)
    /\ UNCHANGED <<clock, proc, ignoresTerm, leaderRc, file, timedOut>>

\* Mutation of KillWaitTimesOut: the grace wait bounded by the full timeout,
\* process.wait(timeout=timeout).
KillWaitTimesOutLate ==
    /\ spc = "waitKill"
    /\ proc["leader"] = "running"
    /\ clock = Timeout + Timeout
    /\ ReturnWith(FALSE)
    /\ UNCHANGED <<clock, proc, ignoresTerm, leaderRc, file, timedOut>>

\* process.wait(timeout=5) raises TimeoutExpired inside the handler: the
\* outer `except Exception' returns False (241, 249-251).
KillWaitTimesOut ==
    /\ spc = "waitKill"
    /\ proc["leader"] = "running"
    /\ clock = Timeout + Grace
    /\ ReturnWith(FALSE)
    /\ UNCHANGED <<clock, proc, ignoresTerm, leaderRc, file, timedOut>>

\* How long the current wait may last.
Deadline == IF spc = "wait" THEN Timeout ELSE Timeout + Grace

\* Mutation of Tick: the clock runs past the grace wait.
TickPastGrace ==
    /\ spc \in {"wait", "waitKill"}
    /\ proc["leader"] = "running"
    /\ clock < Timeout + Timeout
    /\ clock' = clock + 1
    /\ UNCHANGED <<spc, proc, ignoresTerm, leaderRc, file, timedOut, result>>

\* A second passes while the driver is blocked in process.wait.
Tick ==
    /\ spc \in {"wait", "waitKill"}
    /\ proc["leader"] = "running"
    /\ clock < Deadline
    /\ clock' = clock + 1
    /\ UNCHANGED <<spc, proc, ignoresTerm, leaderRc, file, timedOut, result>>

-----------------------------------------------------------------------------
(* The process group *)

\* Spike exits on its own with one of ExitCodes, during or after the call.
LeaderExits ==
    /\ proc["leader"] = "running"
    /\ \E rc \in ExitCodes : leaderRc' = rc
    /\ proc' = [proc EXCEPT !["leader"] = "exited"]
    /\ UNCHANGED <<spc, clock, ignoresTerm, file, timedOut, result>>

\* The descendant exits on its own.
DescExits ==
    /\ proc["desc"] = "running"
    /\ proc' = [proc EXCEPT !["desc"] = "exited"]
    /\ UNCHANGED <<spc, clock, ignoresTerm, leaderRc, file, timedOut, result>>

\* The call has returned and the group has no running member left.
Finished ==
    /\ spc = "returned"
    /\ \A m \in Members : proc[m] # "running"
    /\ UNCHANGED spikeVars

Driver ==
    \/ Call \/ OpenFails \/ PopenFails \/ Spawn
    \/ WaitReturns \/ WaitTimesOut \/ KillGroup
    \/ KillWaitReturns \/ KillWaitTimesOut \/ Tick

SpikeNext == Driver \/ LeaderExits \/ DescExits \/ Finished

\* The driver thread is never starved and time passes; Spike and its
\* descendant may run forever, so no fairness is assumed for their exits.
SpikeSpec == SpikeInit /\ [][SpikeNext]_spikeVars /\ WF_spikeVars(Driver)

-----------------------------------------------------------------------------
(* Properties *)

\* Spec section 8 ("timeout kill"): a Spike run that outlives the timeout
\* is a failure.  A step that returns True from generate_spike_log is taken
\* only when the first wait returned (237, 248) before the deadline and
\* Spike's own status was 0, never after the SIGTERM of 240, even if Spike
\* then exits 0 during the grace wait.
TrueOnlyInTime ==
    [][(spc # "returned" /\ spc' = "returned" /\ result') =>
         (~timedOut /\ leaderRc = 0 /\ clock <= Timeout)]_spikeVars

\* Spec sections 4.3 and 8: after a timeout the whole process group is
\* terminated, so no descendant is left running once the call returns.
NoSurvivorsAfterTimeout ==
    (spc = "returned" /\ timedOut) => \A m \in Members : proc[m] # "running"

\* The refinement mapping: the call is in progress from Call to the return;
\* the simulator's exit status is the leader's.
Abs == INSTANCE SpikeCall WITH
         Statuses <- ExitCodes \cup {SigtermRc},
         aState <- CASE spc = "idle" -> "idle"
                     [] spc = "returned" -> "returned"
                     [] OTHER -> "running",
         aExit <- leaderRc,
         aResult <- result

\* generate_spike_log implements the abstract call of spec section 4.3: it
\* returns True only after Spike exited 0, and it always returns.
SpikeCallRefined == Abs!SpikeCallSpec
=============================================================================
