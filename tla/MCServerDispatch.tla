-------------------------- MODULE MCServerDispatch --------------------------
(* Instances of ServerDispatch for TLC: see the cfg files.                 *)
EXTENDS ServerDispatch, TLC

(* Workers and descriptors are interchangeable in the safety runs.         *)
Symmetry == Permutations(Workers) \union Permutations(Sockets)
=============================================================================
