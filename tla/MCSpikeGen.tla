----------------------------- MODULE MCSpikeGen -----------------------------
(***************************************************************************)
(* generate_spike_log with a timeout of 2 and a grace period of 1 second: *)
(* long enough for Spike to exit before, at and after the deadline, and    *)
(* during the grace period.                                                *)
(***************************************************************************)
EXTENDS SpikeGen

MCExitCodes == {0, 1}
=============================================================================
