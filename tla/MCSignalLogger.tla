--------------------------- MODULE MCSignalLogger ---------------------------
(* Instances of SignalLogger for TLC: see the cfg files.                   *)
EXTENDS SignalLogger, TLC

CONSTANTS r1, r2, r3

(* Two receivers of SIGUSR1, one of SIGUSR2.                               *)
TwoAndOne == (r1 :> SIGUSR1) @@ (r2 :> SIGUSR1) @@ (r3 :> SIGUSR2)

(* One receiver for each signal.                                           *)
OneAndOne == (r1 :> SIGUSR1) @@ (r2 :> SIGUSR2)
=============================================================================
