--------------------------- MODULE MCServerLogger ---------------------------
(* Instances of ServerLogger for TLC: see the cfg files.                   *)
EXTENDS ServerLogger
=============================================================================
