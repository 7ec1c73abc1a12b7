-------------------------- MODULE MCReceiverSetup --------------------------
(* Instances of ReceiverSetup for TLC: see the cfg files.                  *)
EXTENDS ReceiverSetup
=============================================================================
