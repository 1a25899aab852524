------------------------------- MODULE Socket -------------------------------
(***************************************************************************)
(* The connected sockets below the streams and the operations on them      *)
(* (net/tcp/stream.rs, net/unix/stream.rs, driver/op/{recv,send,read,      *)
(* write,splice,connect,poll}.rs, io/util/cancel.rs).                      *)
(*                                                                         *)
(* A wire carries the bytes of one direction of one connection.  An end is *)
(* the side of an operation: the sender "tx" and the receiver "rx", and    *)
(* the "in" and "out" ends of a relay between two connections.  Every end  *)
(* has at most one operation, as the streams take &mut self.  What happens *)
(* to an operation between its submission and its completion is the        *)
(* subject of UringOps and LegacyIo.                                       *)
(***************************************************************************)
EXTENDS Integers, Sequences

CONSTANTS Configs,      \* the stacks of streams to look at
          SockCap,      \* the bytes a wire can hold
          BufCap,       \* the capacity of BufReader, BufWriter and wrappers
          MaxFaults     \* a bound on errors and cancellations

ASSUME SocketAssumption == /\ SockCap \in Nat \ {0}
                           /\ BufCap \in Nat \ {0}
                           /\ MaxFaults \in Nat

VARIABLES cfg,      \* one of Configs, never changed
          peer,     \* what became of the connection
          wire,     \* the bytes on every wire, and whether it is shut down
          op,       \* the operation of every end
          canceled, \* the flag in the Shared of the CancelHandle of a call
          faults    \* the errors and cancellations so far

socketVars == <<cfg, peer, wire, op, canceled, faults>>

Ends == {"tx", "rx", "in", "out"}
Wires == 1..2

WireOf(e) == CASE e \in {"tx", "in"} -> 1
               [] e = "out"          -> 2
               [] OTHER              -> IF cfg.hop = "none" THEN 1 ELSE 2

\* The results of an operation below zero, as the kernel numbers them.
EINTR == -4
EIO == -5
EPIPE == -32
ECANCELED == -125

Idle == [st |-> "idle", data |-> <<>>, room |-> 0, res |-> 0, cancel |-> FALSE]

SocketInit ==
    /\ cfg \in Configs
    /\ peer = "listening"
    /\ wire = [w \in Wires |-> [q |-> <<>>, shut |-> FALSE]]
    /\ op = [e \in Ends |-> Idle]
    /\ canceled = [e \in Ends |-> FALSE]
    /\ faults = 0

-----------------------------------------------------------------------------
(* Submission.  A cancelable call looks at its handle before it submits,   *)
(* and the caller of these does it for every operation of the call.        *)

Send(bytes) == [Idle EXCEPT !.st = "flight", !.data = bytes]
Recv(room) == [Idle EXCEPT !.st = "flight", !.room = room]

\* shutdown(fd, SHUT_WR) by a direct system call.
shutdown(w) == wire' = [wire EXCEPT ![w].shut = TRUE]

-----------------------------------------------------------------------------
(* The kernel.  A count may be short; nothing is moved when it fails.      *)

Complete(e, n, bytes) ==
    op' = [op EXCEPT ![e].st = "done", ![e].res = n, ![e].data = bytes]

\* A socket with fast open and a cookie of the peer connects as its first
\* bytes are sent, which go with the request.
KernelConnects ==
    /\ peer = "connecting"
    /\ \/ peer' = "established" /\ UNCHANGED faults
       \/ /\ faults < MaxFaults
          /\ faults' = faults + 1
          /\ peer' = "refused"
    /\ UNCHANGED <<cfg, wire, op, canceled>>

KernelSend(e) ==
    LET w == WireOf(e)
        data == op[e].data
    IN  /\ op[e].st = "flight"
        /\ \/ /\ ~wire[w].shut
              /\ w = 1 => peer \in {"deferred", "established"}
              /\ \E n \in 1..Len(data) :
                    /\ Len(wire[w].q) + n <= SockCap
                    /\ wire' = [wire EXCEPT ![w].q = @ \o SubSeq(data, 1, n)]
                    /\ Complete(e, n, <<>>)
              /\ peer' = IF w = 1 /\ peer = "deferred" THEN "connecting" ELSE peer
           \/ /\ wire[w].shut \/ (w = 1 /\ peer = "refused")
              /\ Complete(e, EPIPE, <<>>)
              /\ UNCHANGED <<wire, peer>>
        /\ UNCHANGED <<cfg, canceled, faults>>

KernelRecv(e) ==
    LET w == WireOf(e)
        q == wire[w].q
    IN  /\ op[e].st = "flight"
        /\ w = 1 => peer = "established"
        /\ \/ \E n \in 1..op[e].room :
                /\ n <= Len(q)
                /\ wire' = [wire EXCEPT ![w].q = SubSeq(@, n + 1, Len(@))]
                /\ Complete(e, n, SubSeq(q, 1, n))
           \/ /\ q = <<>>
              /\ wire[w].shut
              /\ Complete(e, 0, <<>>)
              /\ UNCHANGED wire
        /\ UNCHANGED <<cfg, peer, canceled, faults>>

\* The operation fails, or its cancellation reaches it before any byte.
KernelFail(e) ==
    /\ op[e].st = "flight"
    /\ \/ /\ faults < MaxFaults
          /\ \E res \in {EINTR, EIO} : Complete(e, res, <<>>)
          /\ faults' = faults + 1
       \/ /\ op[e].cancel
          /\ Complete(e, ECANCELED, <<>>)
          /\ UNCHANGED faults
    /\ UNCHANGED <<cfg, peer, wire, canceled>>

-----------------------------------------------------------------------------
(* Canceller::cancel: the handles that calls hold see it at once, and the  *)
(* operations in slot_ref, those in flight, are asked to end.  The caller  *)
(* gets a new Canceller, whose handles are not canceled, for later calls.  *)

cancel(calls) ==
    /\ cfg.cancel
    /\ faults < MaxFaults
    /\ calls # {}
    /\ canceled' = [e \in Ends |-> canceled[e] \/ e \in calls]
    /\ op' = [e \in Ends |-> [op[e] EXCEPT !.cancel =
                    @ \/ (e \in calls /\ op[e].st = "flight")]]
    /\ faults' = faults + 1
    /\ UNCHANGED <<cfg, peer, wire>>

=============================================================================
