-------------------------- MODULE MCServerSession --------------------------
(* Instances of ServerSession for TLC: see the cfg files.                  *)
EXTENDS ServerSession
=============================================================================
