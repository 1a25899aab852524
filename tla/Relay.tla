------------------------------- MODULE Relay --------------------------------
(***************************************************************************)
(* A task that moves the bytes of one connection to another until it sees  *)
(* the end, and then shuts the other one down: io::copy through a buffer   *)
(* of its own, or io::zero_copy through a pipe (io/util/copy.rs,           *)
(* io/splice.rs, net/unix/pipe.rs).                                        *)
(***************************************************************************)
EXTENDS Socket, Buffers

CONSTANT RelayCap       \* the bytes of the buffer or of the pipe

ASSUME RelayAssumption == RelayCap \in Nat \ {0}

VARIABLE hop

RelayInit == hop = [pc |-> IF cfg.hop = "none" THEN "none" ELSE "read",
                    buf |-> <<>>, pos |-> 0]

HopGoes(h, e) == hop' = h /\ op' = [op EXCEPT ![e] = Idle]

\* reader.read(buf), or splice_to_pipe.
RelayRead ==
    /\ hop.pc = "read"
    /\ op["in"].st = "idle"
    /\ op' = [op EXCEPT !["in"] = Recv(RelayCap)]
    /\ UNCHANGED <<cfg, peer, wire, canceled, faults, hop>>

\* Mutant: a read of nothing is tried again.
RelayReadDoneAgain ==
    LET res == op["in"].res
    IN  /\ hop.pc = "read"
        /\ op["in"].st = "done"
        /\ HopGoes(CASE res > 0 -> [hop EXCEPT !.pc = "write", !.pos = 0,
                                               !.buf = op["in"].data]
                     [] res = 0 -> hop
                     [] res = EINTR /\ cfg.hop = "copy" -> hop
                     [] OTHER -> [hop EXCEPT !.pc = "failed"], "in")
        /\ UNCHANGED <<cfg, peer, wire, canceled, faults>>

\* copy tries an interrupted read again; zero_copy returns any error.
RelayReadDone ==
    LET res == op["in"].res
    IN  /\ hop.pc = "read"
        /\ op["in"].st = "done"
        /\ HopGoes(CASE res > 0 -> [hop EXCEPT !.pc = "write", !.pos = 0,
                                               !.buf = op["in"].data]
                     [] res = 0 -> [hop EXCEPT !.pc = "end"]
                     [] res = EINTR /\ cfg.hop = "copy" -> hop
                     [] OTHER -> [hop EXCEPT !.pc = "failed"], "in")
        /\ UNCHANGED <<cfg, peer, wire, canceled, faults>>

\* One round of write_all, or of splice_from_pipe with what is left to write.
RelayWrite ==
    /\ hop.pc = "write"
    /\ op["out"].st = "idle"
    /\ op' = [op EXCEPT !["out"] = Send(Slice(hop.buf, hop.pos, Len(hop.buf)))]
    /\ UNCHANGED <<cfg, peer, wire, canceled, faults, hop>>

RelayWriteDone ==
    LET res == op["out"].res
    IN  /\ hop.pc = "write"
        /\ op["out"].st = "done"
        /\ HopGoes(CASE res > 0 /\ hop.pos + res < Len(hop.buf) ->
                            [hop EXCEPT !.pos = @ + res]
                     [] res > 0 /\ hop.pos + res = Len(hop.buf) ->
                            [hop EXCEPT !.pc = "read", !.buf = <<>>, !.pos = 0]
                     [] res = EINTR /\ cfg.hop = "copy" -> hop
                     [] OTHER -> [hop EXCEPT !.pc = "failed"], "out")
        /\ UNCHANGED <<cfg, peer, wire, canceled, faults>>

\* The task ends: it shuts the writer down, or drops it after an error.
RelayEnd ==
    /\ hop.pc \in {"end", "failed"}
    /\ ~wire[2].shut
    /\ shutdown(2)
    /\ UNCHANGED <<cfg, peer, op, canceled, faults, hop>>

\* The bytes that are between the two connections.
InRelay ==
    LET sent == IF op["out"].st = "done" /\ op["out"].res > 0
                THEN op["out"].res ELSE 0
    IN  Slice(hop.buf, hop.pos + sent, Len(hop.buf)) \o op["in"].data

RelayTask == RelayRead \/ RelayReadDone \/ RelayWrite \/ RelayWriteDone \/ RelayEnd

=============================================================================
