----------------------------- MODULE MCRuntime ------------------------------
(***************************************************************************)
(* Model-checking instance of Runtime.                                     *)
(***************************************************************************)
EXTENDS Runtime
=============================================================================
