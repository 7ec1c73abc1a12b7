--------------------------- MODULE MCProcessTree ---------------------------
(* Instances of ProcessTree for TLC: see the cfg files.                    *)
EXTENDS ProcessTree
=============================================================================
