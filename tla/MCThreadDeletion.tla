-------------------------- MODULE MCThreadDeletion --------------------------
(* A thread with a sub-agent, which may spawn another one later. *)
EXTENDS ThreadDeletion, TLC

CONSTANTS r, c, d

TreeParent == r :> None @@ c :> r @@ d :> c
=============================================================================
