------------------------------- MODULE Writer -------------------------------
(***************************************************************************)
(* The sending side of a stream: connect, the socket itself, a BufWriter   *)
(* over it (io/util/buf_writer.rs), write_all (io/async_write_rent_ext.rs) *)
(* and the tokio adapter StreamWrapper (monoio-compat).                    *)
(*                                                                         *)
(* The application sends the bytes 1, 2, 3, ...  tx.given counts the ones  *)
(* that a write has accepted, tx.data are those of the call under way, and *)
(* tx.buf those in the buffer of the BufWriter or of the wrapper, or lent  *)
(* to write_all, of which write_all has sent tx.pos.                       *)
(***************************************************************************)
EXTENDS Socket, Buffers

CONSTANT MaxWrite       \* a bound on the bytes of one call

ASSUME WriterAssumption == MaxWrite \in Nat \ {0}

VARIABLE tx

NextBytes(n) == [i \in 1..n |-> tx.given + i]

WriterInit ==
    tx = [pc |-> "new", call |-> "none", data |-> <<>>, buf |-> <<>>,
          pos |-> 0, given |-> IF cfg.rx = "prefixed" THEN 1 ELSE 0]

\* The task awaits an operation on these bytes.
Awaits(t, bytes) == tx' = t /\ op' = [op EXCEPT !["tx"] = Send(bytes)]

\* A write on the socket, which a cancelled handle keeps from starting.
SocketWrite(t, bytes) ==
    IF canceled["tx"] THEN tx' = t /\ op' = [op EXCEPT !["tx"] =
                                [Idle EXCEPT !.st = "done", !.res = ECANCELED]]
                      ELSE Awaits(t, bytes)

\* The call returns to the application, which goes on with the next byte.
Returns(t, n) ==
    /\ tx' = [t EXCEPT !.pc = "idle", !.call = "none", !.data = <<>>,
                       !.given = @ + n]
    /\ op' = [op EXCEPT !["tx"] = Idle]

\* The call returns an error that the application cannot go on from.
Fails(t) == tx' = [t EXCEPT !.pc = "failed"] /\ op' = [op EXCEPT !["tx"] = Idle]

-----------------------------------------------------------------------------
(* TcpStream::connect_addr_with_config and UnixStream::inner_connect: on   *)
(* the io_uring driver the operation ends when the connection is made, on  *)
(* the legacy one it ends at once and the stream waits to be writable.     *)
(* With tcp_fast_open both may end with the connection still to be made: a *)
(* socket that waits for its first bytes is writable, and has no error.    *)

Connect ==
    /\ tx.pc = "new"
    /\ tx' = [tx EXCEPT !.pc = "connect"]
    /\ \/ peer' = "connecting"
       \/ cfg.fast /\ peer' = "deferred"
    /\ UNCHANGED <<cfg, wire, op, canceled, faults>>

\* The Connect operation is done: EINPROGRESS is no error on the legacy one.
ConnectDone ==
    /\ tx.pc = "connect"
    /\ cfg.legacy \/ peer # "connecting"
    /\ tx' = [tx EXCEPT !.pc = IF cfg.legacy THEN "writable"
                                ELSE IF peer = "refused" THEN "refused"
                                ELSE IF cfg.sock = "unix" THEN "take_error"
                                ELSE "idle"]
    /\ UNCHANGED socketVars

\* writable(true): a socket that was refused is writable too.
Writable ==
    /\ tx.pc = "writable"
    /\ peer # "connecting"
    /\ tx' = [tx EXCEPT !.pc = "take_error"]
    /\ UNCHANGED socketVars

\* Mutant: SO_ERROR is not looked at.
TakeNoError ==
    /\ tx.pc = "take_error"
    /\ tx' = [tx EXCEPT !.pc = "idle"]
    /\ UNCHANGED socketVars

TakeError ==
    /\ tx.pc = "take_error"
    /\ tx' = [tx EXCEPT !.pc = IF peer = "refused" THEN "refused" ELSE "idle"]
    /\ UNCHANGED socketVars

-----------------------------------------------------------------------------
(* write and write_all.                                                    *)

BeginWrite ==
    /\ tx.pc = "idle"
    /\ cfg.tx # "compat"
    /\ \E n \in 1..MaxWrite, call \in {"write", "write_all"} :
         /\ tx.given + n <= cfg.bytes
         /\ LET t == [tx EXCEPT !.call = call, !.data = NextBytes(n)]
            IN  tx' = IF cfg.tx = "raw" /\ call = "write_all"
                      THEN [t EXCEPT !.pc = "write_all", !.buf = t.data, !.data = <<>>]
                      ELSE [t EXCEPT !.pc = "write"]
    /\ canceled' = [canceled EXCEPT !["tx"] = FALSE]
    /\ UNCHANGED <<cfg, peer, wire, op, faults>>

\* The loop of write_all over the socket, and of flush_buf, which uses it.
WriteAllLoop ==
    /\ tx.pc \in {"write_all", "flush_buf"}
    /\ op["tx"].st = "idle"
    /\ SocketWrite(tx, Slice(tx.buf, tx.pos, Len(tx.buf)))
    /\ UNCHANGED <<cfg, peer, wire, canceled, faults>>

\* Mutant: a write that never fits goes out before what is buffered.
BufWriterWriteUnflushed(t) ==
    LET amt == Len(t.data)
    IN  CASE amt > BufCap -> Awaits(t, t.data)
          [] amt <= BufCap /\ Len(t.buf) + amt > BufCap ->
                tx' = [t EXCEPT !.pc = "flush_buf", !.pos = 0] /\ UNCHANGED op
          [] OTHER -> Returns([t EXCEPT !.buf = @ \o t.data], amt)

\* BufWriter::write: flush what does not fit, send what never will, copy
\* the rest.  write_all gives it the slice from the first byte not written.
BufWriterWrite(t) ==
    LET amt == Len(t.data)
    IN  CASE Len(t.buf) + amt > BufCap /\ t.buf # <<>> ->
                tx' = [t EXCEPT !.pc = "flush_buf", !.pos = 0] /\ UNCHANGED op
          [] amt > BufCap /\ t.buf = <<>> -> Awaits(t, t.data)
          [] OTHER -> Returns([t EXCEPT !.buf = @ \o t.data], amt)

WriteLoop ==
    /\ tx.pc = "write"
    /\ op["tx"].st = "idle"
    /\ IF cfg.tx = "raw" THEN SocketWrite(tx, tx.data) ELSE BufWriterWrite(tx)
    /\ UNCHANGED <<cfg, peer, wire, canceled, faults>>

\* What write_all makes of a result: the buffer and how much of it is sent.
\* The socket never answers 0 to a write of some bytes.
WriteAllResult(t, res) ==
    CASE res >= 0     -> [t EXCEPT !.pos = @ + res]
      [] res = EINTR  -> t
      [] OTHER        -> [t EXCEPT !.pc = "failed"]

AllSent(t) == t.pos = Len(t.buf)

WriteAllDone ==
    LET t == WriteAllResult(tx, op["tx"].res)
        empty == [t EXCEPT !.buf = <<>>, !.pos = 0]
    IN  /\ tx.pc \in {"write_all", "flush_buf"}
        /\ op["tx"].st = "done"
        /\ CASE t.pc = "failed" -> Fails(tx)
             [] t.pc # "failed" /\ ~AllSent(t) ->
                    tx' = t /\ op' = [op EXCEPT !["tx"] = Idle]
             [] t.pc = "write_all" /\ AllSent(t) -> Returns(empty, Len(t.buf))
             [] t.pc = "flush_buf" /\ AllSent(t) ->
                    /\ tx' = [empty EXCEPT !.pc =
                            IF t.call = "write_all" THEN "write" ELSE t.call]
                    /\ op' = [op EXCEPT !["tx"] = Idle]
        /\ UNCHANGED <<cfg, peer, wire, canceled, faults>>

\* The bytes of a write that went to the socket directly.  The pc of a call
\* on a BufWriter is "write" for its write and its write_all.
WriteDone ==
    LET res == op["tx"].res
        n   == IF res >= 0 THEN res ELSE 0
        rest == SubSeq(tx.data, n + 1, Len(tx.data))
    IN  /\ tx.pc = "write"
        /\ op["tx"].st = "done"
        /\ IF res \in {EIO, EPIPE} THEN Fails(tx)
           ELSE IF tx.call = "write" \/ rest = <<>> \/ res = ECANCELED THEN Returns(tx, n)
           ELSE /\ tx' = [tx EXCEPT !.data = rest, !.given = @ + n]
                /\ op' = [op EXCEPT !["tx"] = Idle]
        /\ UNCHANGED <<cfg, peer, wire, canceled, faults>>

-----------------------------------------------------------------------------
(* flush and shutdown.  A socket needs no flush; a BufWriter flushes its   *)
(* buffer and then flushes or shuts down the socket.                       *)

\* Shutting a socket down gives up a connection that is not made yet.
shutdown_stream ==
    /\ shutdown(1)
    /\ peer' = IF peer \in {"deferred", "connecting"} THEN "refused" ELSE peer

BeginFlush ==
    /\ tx.pc = "idle"
    /\ cfg.tx = "bufw"
    /\ tx.buf # <<>>
    /\ tx' = [tx EXCEPT !.call = "flush", !.pc = "flush_buf"]
    /\ UNCHANGED socketVars

Flushed ==
    /\ tx.pc = "flush"
    /\ Returns(tx, 0)
    /\ UNCHANGED <<cfg, peer, wire, canceled, faults>>

BeginShutdown ==
    /\ tx.pc = "idle"
    /\ cfg.tx # "compat"
    /\ tx' = [tx EXCEPT !.call = "shutdown",
                        !.pc = IF tx.buf = <<>> THEN "shutdown" ELSE "flush_buf"]
    /\ UNCHANGED socketVars

Shutdown ==
    /\ tx.pc = "shutdown"
    /\ tx' = [tx EXCEPT !.pc = "closed", !.call = "none"]
    /\ shutdown_stream
    /\ UNCHANGED <<cfg, op, canceled, faults>>

-----------------------------------------------------------------------------
(* StreamWrapper: poll_write takes the bytes, says Ok and leaves the write *)
(* to a stored future, which the next poll_* polls first.                  *)

\* The stored future after a poll, when that poll returns Ready.
Armed == tx.buf # <<>>
Polled == IF Armed THEN WriteAllResult(tx, op["tx"].res) ELSE tx
WriteFutReady == Armed => op["tx"].st = "done" /\ AllSent(Polled)

PollWrite ==
    /\ tx.pc = "idle"
    /\ cfg.tx = "compat"
    /\ WriteFutReady
    /\ \E n \in 1..MaxWrite :
         LET len == IF n < BufCap THEN n ELSE BufCap
         IN  /\ tx.given + n <= cfg.bytes
             /\ Awaits([tx EXCEPT !.buf = NextBytes(len), !.pos = 0,
                                  !.given = @ + len], NextBytes(len))
    /\ UNCHANGED <<cfg, peer, wire, canceled, faults>>

\* A poll_write, poll_flush or poll_shutdown that returns Pending.
PollPending ==
    /\ tx.pc = "idle"
    /\ cfg.tx = "compat"
    /\ Armed
    /\ op["tx"].st = "done"
    /\ ~AllSent(Polled)
    /\ IF Polled.pc = "failed" THEN Fails(tx)
       ELSE Awaits(Polled, Slice(tx.buf, Polled.pos, Len(tx.buf)))
    /\ UNCHANGED <<cfg, peer, wire, canceled, faults>>

PollFlush ==
    /\ tx.pc = "idle"
    /\ cfg.tx = "compat"
    /\ Armed
    /\ WriteFutReady
    /\ Returns([tx EXCEPT !.buf = <<>>, !.pos = 0], 0)
    /\ UNCHANGED <<cfg, peer, wire, canceled, faults>>

\* Mutant: the stored write is not polled first.
PollShutdownAtOnce ==
    /\ tx.pc = "idle"
    /\ cfg.tx = "compat"
    /\ tx' = [tx EXCEPT !.pc = "closed"]
    /\ shutdown_stream
    /\ UNCHANGED <<cfg, op, canceled, faults>>

PollShutdown ==
    /\ tx.pc = "idle"
    /\ cfg.tx = "compat"
    /\ WriteFutReady
    /\ tx' = [tx EXCEPT !.pc = "closed", !.buf = <<>>, !.pos = 0]
    /\ op' = [op EXCEPT !["tx"] = Idle]
    /\ shutdown_stream
    /\ UNCHANGED <<cfg, canceled, faults>>

-----------------------------------------------------------------------------
(* The application drops what it has of the sending side, a future under   *)
(* way included.  OwnedWriteHalf runs what shutdown() does before its      *)
(* first await: the system call for a TcpStream, nothing for a UnixStream  *)
(* or for a BufWriter.  The operation is left to the kernel.               *)

DropWriteHalf ==
    /\ cfg.drop
    /\ tx.pc \notin {"new", "connect", "writable", "take_error", "refused",
                     "closed", "dropped"}
    /\ tx' = [tx EXCEPT !.pc = "dropped"]
    /\ IF cfg.tx = "raw" /\ cfg.sock = "tcp" THEN shutdown_stream ELSE UNCHANGED <<wire, peer>>
    /\ UNCHANGED <<cfg, op, canceled, faults>>

\* The bytes that were handed over and have not reached the wire.
Unsent ==
    LET sent == IF op["tx"].st = "done" /\ op["tx"].res > 0 THEN op["tx"].res ELSE 0
        inBuf == tx.pc \in {"write_all", "flush_buf"} \/ cfg.tx = "compat"
    IN  IF inBuf THEN Slice(tx.buf, tx.pos + sent, Len(tx.buf)) \o tx.data
                 ELSE tx.buf \o Slice(tx.data, sent, Len(tx.data))

WriterTask == \/ ConnectDone \/ Writable \/ TakeError
              \/ WriteAllLoop \/ WriteLoop \/ WriteAllDone \/ WriteDone
              \/ Flushed \/ Shutdown

WriterApp == \/ Connect \/ BeginWrite \/ BeginFlush \/ BeginShutdown
             \/ PollWrite \/ PollPending \/ PollFlush \/ PollShutdown \/ DropWriteHalf

=============================================================================
