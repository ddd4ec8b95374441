------------------------------ MODULE SpikeCall ------------------------------
(***************************************************************************)
(* What a call of generate_spike_log promises its caller (spec section    *)
(* 4.3), without processes or clocks: the call starts the reference        *)
(* simulator, the simulator may finish with some exit status (during the   *)
(* call or after it), and the call returns a Boolean.  It returns TRUE     *)
(* only if the simulator has finished with exit status 0, and it always    *)
(* returns.                                                                *)
(***************************************************************************)
EXTENDS Integers

CONSTANTS
    Statuses,   \* the exit statuses the simulator may end with
    Running     \* the status of a simulator that has not finished (not in
                \* Statuses; SpikeGen's assumptions ensure it)

VARIABLES
    aState,    \* "idle", "running" (the call is in progress) or "returned"
    aExit,     \* the simulator's exit status, or Running
    aResult    \* the Boolean returned (FALSE until the call returns)

aVars == <<aState, aExit, aResult>>

ACallInit ==
    /\ aState = "idle"
    /\ aExit = Running
    /\ aResult = FALSE

\* The caller calls generate_spike_log.
ACall ==
    /\ aState = "idle"
    /\ aState' = "running"
    /\ UNCHANGED <<aExit, aResult>>

\* The simulator finishes with status s.
AFinish ==
    /\ aState # "idle"
    /\ aExit = Running
    /\ \E s \in Statuses : aExit' = s
    /\ UNCHANGED <<aState, aResult>>

\* The call returns r; TRUE only after a clean exit.
AReturn ==
    /\ aState = "running"
    /\ \E r \in BOOLEAN :
         /\ r => aExit = 0
         /\ aResult' = r
    /\ aState' = "returned"
    /\ UNCHANGED aExit

ACallNext == ACall \/ AFinish \/ AReturn

\* The caller is never left waiting: once called, the call returns.
SpikeCallSpec ==
    /\ ACallInit
    /\ [][ACallNext]_aVars
    /\ WF_aVars(ACall)
    /\ WF_aVars(AReturn)
=============================================================================
