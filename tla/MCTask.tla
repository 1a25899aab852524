------------------------------- MODULE MCTask -------------------------------
(***************************************************************************)
(* Model-checking instance of Task.                                        *)
(***************************************************************************)
EXTENDS Task
=============================================================================
