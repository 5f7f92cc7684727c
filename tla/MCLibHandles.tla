---------------------------- MODULE MCLibHandles ----------------------------
(* All sequences of calls of one process, up to a bound.                     *)
EXTENDS LibHandles
=============================================================================
