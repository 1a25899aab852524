----------------------------- MODULE MCUringOps -----------------------------
(***************************************************************************)
(* Model-checking instance of UringOps.                                    *)
(***************************************************************************)
EXTENDS UringOps
=============================================================================
