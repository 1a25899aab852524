----------------------------- MODULE MCLegacyIo -----------------------------
(***************************************************************************)
(* Model-checking instances of SharedFd and LegacyIo: the first operation  *)
(* reads, any other one writes.                                            *)
(***************************************************************************)
EXTENDS LegacyIo

CONSTANT Reader

Directions == [o \in Ops |-> IF o = Reader THEN "Read" ELSE "Write"]
=============================================================================
