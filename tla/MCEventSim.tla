----------------------------- MODULE MCEventSim -----------------------------
(* Instances of EventSimStats for TLC: see the cfg file.                   *)
EXTENDS EventSimStats
=============================================================================
