----------------------------- MODULE MCTaskTrays -----------------------------
(***************************************************************************)
(* Instances of TaskTrays for TLC.                                          *)
(***************************************************************************)
EXTENDS TaskTrays

\* The application keeps all rules.
Careful == {}
=============================================================================
