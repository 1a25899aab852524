------------------------------- MODULE Reader -------------------------------
(***************************************************************************)
(* The receiving side of a stream: the socket itself, a BufReader over it  *)
(* (io/util/buf_reader.rs), a PrefixedReadIo (io/util/prefixed_io.rs) and  *)
(* the tokio adapter StreamWrapper, below read_exact, read_until and       *)
(* read_line (io/async_read_rent_ext.rs, io/async_buf_read_ext.rs).        *)
(*                                                                         *)
(* rx.got are the bytes the application has, rx.u the buffer it lent to    *)
(* the call under way and rx.vb its vectors for a readv, rx.own what is    *)
(* left in the buffer of the BufReader or of the wrapper, and rx.line what *)
(* read_until has appended so far.                                         *)
(***************************************************************************)
EXTENDS Socket, Buffers

CONSTANTS UserCap,      \* the capacity of a buffer of the application
          VecLens,      \* the lengths of the vectors of a readv
          Delim,        \* the bytes that end a line
          NotUtf8       \* the bytes that no valid line holds

ASSUME ReaderAssumption == /\ UserCap \in Nat \ {0}
                           /\ VecLens \in Seq(Nat \ {0})
                           /\ VecLens # <<>>

VARIABLE rx

Calls == {"read", "read_exact", "read_int", "readv", "read_until", "read_line",
          "poll_read"}

NoSlice == SliceMut(Buffer("vec", 0), 0, 0)

ReaderInit ==
    rx = [pc |-> "idle", call |-> "none", u |-> NoSlice, vb |-> <<>>,
          read |-> 0, dst |-> "none", own |-> <<>>, line |-> <<>>, got |-> <<>>,
          prefix |-> IF cfg.rx = "prefixed" THEN <<1>> ELSE <<>>,
          finished |-> FALSE, eof |-> FALSE]

\* The task awaits an operation that fills r.dst.  A cancelled handle keeps
\* a cancelable_read from starting.
SocketRead(r, dst, room) ==
    /\ rx' = [r EXCEPT !.dst = dst]
    /\ op' = [op EXCEPT !["rx"] = IF canceled["rx"]
                THEN [Idle EXCEPT !.st = "done", !.res = ECANCELED]
                ELSE Recv(room)]

Goes(r) == rx' = r /\ op' = [op EXCEPT !["rx"] = Idle]

\* The call returns with these bytes.  The application keeps the buffer
\* it lent, to append to it.
Return(r, bytes, pc) ==
    Goes([r EXCEPT !.pc = pc, !.call = "none", !.got = @ \o bytes, !.read = 0,
                   !.vb = <<>>, !.line = <<>>, !.dst = "none",
                   !.u = IF r.call = "read" THEN @ ELSE NoSlice])

-----------------------------------------------------------------------------
(* The calls of the application.                                           *)

\* What each reader offers: read_until needs an AsyncBufRead, the wrapper
\* has poll_read only.
Offered == CASE cfg.rx = "compat" -> {"poll_read"}
             [] cfg.rx = "bufr"   -> Calls \ {"poll_read"}
             [] OTHER             -> {"read", "read_exact", "read_int", "readv"}

\* A fresh buffer, or the free part of the one used before.
UserSlices ==
    {SliceMut(Buffer(kind, n), 0, n) : kind \in {"vec", "bytes"}, n \in 1..UserCap}
    \cup (IF bytes_init(rx.u.buf) < bytes_total(rx.u.buf)
          THEN {slice_mut(rx.u.buf, bytes_init(rx.u.buf), None)} ELSE {})

\* The slices among which every call finds its own.
Lent == UserSlices \cup {SliceMut(Buffer(kind, n), 0, n) :
                            kind \in {"vec", "box"}, n \in 0..UserCap}

BufferFor(call, u) ==
    CASE call = "read" -> u \in UserSlices
      [] call = "read_exact" -> u = SliceMut(Buffer("vec", UserCap), 0, UserCap)
      [] call = "read_int" -> u = SliceMut(Buffer("box", 2), 0, 2)
      [] call = "poll_read" -> u = SliceMut(Buffer("box", 1), 0, 1)
      [] call = "readv" /\ cfg.rx # "raw" ->
            u = SliceMut(Buffer("box", VecLens[1]), 0, VecLens[1])
      [] OTHER -> u = NoSlice

BeginRead ==
    /\ rx.pc = "idle"
    /\ ~rx.eof
    /\ peer = "established"
    /\ \E call \in Offered :
         \E u \in Lent :
            /\ BufferFor(call, u)
            /\ rx' = [rx EXCEPT !.pc = "loop", !.call = call, !.u = u,
                        !.vb = IF call = "readv" THEN VecBuf(VecLens) ELSE <<>>]
    /\ canceled' = [canceled EXCEPT !["rx"] = FALSE]
    /\ UNCHANGED <<cfg, peer, wire, op, faults>>

-----------------------------------------------------------------------------
(* One read of the reader, into rx.u.                                      *)

\* Some bytes are copied into the buffer and set_init is called.
Filled(r, bytes) ==
    [r EXCEPT !.u = slice_set_init(slice_fill(@, bytes), Len(bytes))]

Rest(s, n) == SubSeq(s, n + 1, Len(s))
Min2(a, b) == IF a < b THEN a ELSE b

\* What a read of n bytes means to the call.  read_exact goes round again.
ReadOk(r, n) ==
    LET got == SubSeq(as_slice(r.u.buf), r.u.begin + 1, r.u.begin + n)
        sum == r.read + n
        all == set_init(r.u.buf, sum)
    IN  CASE r.call \in {"read_exact", "read_int"} /\ n # 0 ->
                IF sum < bytes_total(all)
                THEN Goes([r EXCEPT !.pc = "loop", !.read = sum,
                            !.u = SliceMut(all, sum, bytes_total(all))])
                ELSE Return(r, as_slice(all), "idle")
          [] r.call = "read_exact" /\ n = 0 ->
                Return([r EXCEPT !.eof = TRUE], as_slice(r.u.buf), "idle")
          [] r.call = "read_int" /\ n = 0 ->
                Return([r EXCEPT !.eof = r.read = 0], <<>>,
                       IF r.read = 0 THEN "idle" ELSE "failed")
          [] r.call = "readv" ->
                LET vb == [r.vb EXCEPT ![1].mem = r.u.buf.mem]
                IN  Return([r EXCEPT !.eof = n = 0],
                           vec_bytes(vec_set_init(vb, n), n), "idle")
          [] OTHER -> Return([r EXCEPT !.eof = n = 0], got, "idle")

\* The bytes of our own buffer: amt = min(rem.len(), buf.bytes_total()).
CopyOwn(r) ==
    LET amt == Min2(Len(r.own), slice_total(r.u))
    IN  ReadOk(Filled([r EXCEPT !.own = Rest(@, amt)], SubSeq(r.own, 1, amt)), amt)

\* BufReader::read bypasses its buffer when that is empty and no larger than
\* what is asked for.  poll_read never does.
BufReaderRead(r) ==
    CASE r.own # <<>> -> CopyOwn(r)
      [] r.own = <<>> /\ slice_total(r.u) >= BufCap /\ cfg.rx = "bufr" ->
            SocketRead(r, "user", slice_total(r.u))
      [] OTHER -> SocketRead(r, "own", BufCap)

PrefixedRead(r) ==
    LET n == Min2(Len(r.prefix), slice_total(r.u))
    IN  IF ~r.finished /\ r.prefix # <<>>
        THEN ReadOk(Filled([r EXCEPT !.prefix = Rest(@, n)],
                           SubSeq(r.prefix, 1, n)), n)
        ELSE SocketRead([r EXCEPT !.finished = TRUE], "user", slice_total(r.u))

ReadLoop ==
    /\ rx.pc = "loop"
    /\ rx.call \notin {"read_until", "read_line"}
    /\ op["rx"].st = "idle"
    /\ CASE rx.call = "readv" /\ cfg.rx = "raw" ->
                SocketRead(rx, "vec", vec_total(rx.vb))
         [] rx.call # "readv" /\ cfg.rx = "raw" ->
                SocketRead(rx, "user", slice_total(rx.u))
         [] cfg.rx = "prefixed" -> PrefixedRead(rx)
         [] OTHER -> BufReaderRead(rx)
    /\ UNCHANGED <<cfg, peer, wire, canceled, faults>>

-----------------------------------------------------------------------------
(* read_until and read_line over fill_buf and consume.                     *)

Utf8(line) == \A i \in DOMAIN line : line[i] \notin NotUtf8

\* read_until returns; the Guard of read_line takes back a line that is not
\* valid UTF-8, and the bytes are gone.
LineDone(r, pc) ==
    IF r.call = "read_line" /\ ~Utf8(r.line) THEN Return(r, <<>>, "failed")
                                            ELSE Return(r, r.line, pc)

\* memchr(delim, available), and what of it to consume.
UntilLoop ==
    LET hits == {i \in DOMAIN rx.own : rx.own[i] \in Delim}
        used == IF hits = {} THEN Len(rx.own) ELSE CHOOSE i \in hits :
                                                \A j \in hits : i <= j
        r == [rx EXCEPT !.line = @ \o SubSeq(rx.own, 1, used),
                        !.own = Rest(@, used)]
    IN  /\ rx.pc = "loop"
        /\ rx.call \in {"read_until", "read_line"}
        /\ op["rx"].st = "idle"
        /\ CASE rx.own = <<>> -> SocketRead(rx, "own", BufCap)
             [] hits # {} -> LineDone(r, "idle")
             [] OTHER -> Goes(r)
        /\ UNCHANGED <<cfg, peer, wire, canceled, faults>>

-----------------------------------------------------------------------------
(* The operation has completed.                                            *)

ReadDone ==
    LET res   == op["rx"].res
        bytes == op["rx"].data
        until == rx.call \in {"read_until", "read_line"}
    IN  /\ rx.pc = "loop"
        /\ op["rx"].st = "done"
        /\ res >= 0
        /\ CASE rx.dst = "user" -> ReadOk(Filled(rx, bytes), res)
             [] rx.dst = "vec" ->
                    LET vb == vec_set_init(vec_fill(rx.vb, bytes), res)
                    IN  Return([rx EXCEPT !.eof = res = 0], vec_bytes(vb, res), "idle")
             [] rx.dst = "own" /\ res > 0 -> Goes([rx EXCEPT !.own = bytes])
             [] rx.dst = "own" /\ res = 0 /\ until ->
                    LineDone([rx EXCEPT !.eof = rx.line = <<>>], "idle")
             [] OTHER -> ReadOk(Filled(rx, <<>>), 0)
        /\ UNCHANGED <<cfg, peer, wire, canceled, faults>>

\* An error: Interrupted is tried again by the calls that loop and returned
\* by the others, after which the application calls again.  What read_exact
\* has so far is in the buffer it gives back, but not in an integer.
ReadErr ==
    LET res == op["rx"].res
        pc  == IF res = EIO THEN "failed" ELSE "idle"
    IN  /\ rx.pc = "loop"
        /\ op["rx"].st = "done"
        /\ res < 0
        /\ CASE rx.call \in {"read_exact", "read_int", "read_until", "read_line"}
                /\ res = EINTR -> Goes(rx)
             [] rx.call \in {"read_until", "read_line"} /\ res # EINTR ->
                    LineDone(rx, pc)
             [] rx.call = "read_exact" /\ res # EINTR ->
                    Return(rx, as_slice(rx.u.buf), pc)
             [] rx.call = "read_int" /\ res # EINTR ->
                    Return(rx, <<>>, IF rx.read = 0 THEN pc ELSE "failed")
             [] OTHER -> Return(rx, <<>>, pc)
        /\ UNCHANGED <<cfg, peer, wire, canceled, faults>>

\* The future is dropped and with it its buffer; the BufReader is left
\* without one and panics when it is used again.
DropRead ==
    /\ cfg.drop
    /\ rx.pc = "loop"
    /\ op["rx"].st = "flight"
    /\ rx' = [rx EXCEPT !.pc = "dropped"]
    /\ UNCHANGED socketVars

\* The bytes taken off the wire that the application does not have yet.
Held ==
    LET partial == IF rx.call \in {"read_exact", "read_int"}
                   THEN SubSeq(as_slice(rx.u.buf), 1, rx.read) ELSE rx.line
    IN  partial \o rx.prefix \o rx.own \o op["rx"].data

ReaderTask == ReadLoop \/ UntilLoop \/ ReadDone \/ ReadErr
ReaderApp == BeginRead \/ DropRead

=============================================================================
