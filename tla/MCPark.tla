------------------------------- MODULE MCPark -------------------------------
(***************************************************************************)
(* Model-checking instance of Park, with the uring and the legacy driver.  *)
(***************************************************************************)
EXTENDS Park
=============================================================================
