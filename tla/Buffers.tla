------------------------------ MODULE Buffers ------------------------------
(***************************************************************************)
(* The owned buffers that monoio lends to an operation (buf/io_buf.rs,     *)
(* buf/slice.rs, buf/io_vec_buf.rs, buf/vec_wrapper.rs).                   *)
(*                                                                         *)
(* A buffer is [kind, mem, len]: mem is its memory, one element for every  *)
(* byte of its capacity, and len the length its owner sees.  A slice is    *)
(* [buf, begin, end] over a buffer; an I/O vector is a sequence of         *)
(* [base, len] over one memory.  A read operation writes at write_ptr and  *)
(* then calls set_init; a write operation sends as_slice.                  *)
(***************************************************************************)
EXTENDS Integers, Sequences, SequencesExt

\* A byte nobody has written yet.
Uninit == 0

BufferKinds == {"vec", "bytes", "box"}

Buffer(kind, cap) == [kind |-> kind, mem |-> [i \in 1..cap |-> Uninit],
                      len |-> IF kind = "box" THEN cap ELSE 0]

-----------------------------------------------------------------------------
(* IoBuf and IoBufMut of the owned types.                                  *)

bytes_init(b) == IF b.kind = "box" THEN Len(b.mem) ELSE b.len

as_slice(b) == SubSeq(b.mem, 1, bytes_init(b))

bytes_total(b) == Len(b.mem)

\* A BytesMut never shrinks; a boxed slice has no length to set.
set_init(b, n) ==
    CASE b.kind = "vec"   -> [b EXCEPT !.len = n]
      [] b.kind = "bytes" -> [b EXCEPT !.len = IF @ < n THEN n ELSE @]
      [] OTHER            -> b

\* The bounds of a range are None when the range has none.
None == -1
parse_range(start, stop, end) ==
    <<IF start = None THEN 0 ELSE start, IF stop = None THEN end ELSE stop>>

-----------------------------------------------------------------------------
(* Slice and SliceMut.                                                     *)

\* SliceMut::new asserts these; a violated assertion is a panic.
SliceMutAsserts(b, begin, end) ==
    /\ end <= bytes_total(b)
    /\ begin <= bytes_init(b)
    /\ begin <= end

SliceMut(b, begin, end) == [buf |-> b, begin |-> begin, end |-> end]

slice_mut(b, start, stop) ==
    LET range == parse_range(start, stop, bytes_total(b))
    IN  SliceMut(b, range[1], range[2])

slice_total(s) == s.end - s.begin

\* set_init counts from the beginning of the slice.
slice_set_init(s, n) == [s EXCEPT !.buf = set_init(@, s.begin + n)]

\* What a copy to write_ptr() leaves in the memory below the slice.
slice_fill(s, bytes) ==
    [s EXCEPT !.buf.mem = [i \in DOMAIN @ |->
        IF i - s.begin \in DOMAIN bytes THEN bytes[i - s.begin] ELSE @[i]]]

\* Slice::new over some bytes, and what a write of it sends.
Slice(bytes, begin, end) == SubSeq(bytes, begin + 1, end)

-----------------------------------------------------------------------------
(* VecBuf: several vectors, every one lent over its whole length.          *)

VecBuf(lens) == [i \in DOMAIN lens |->
                    [kind |-> "vec", mem |-> [j \in 1..lens[i] |-> Uninit],
                     len |-> lens[i]]]

\* The bytes of the vectors before the i-th.
Before(vb, i) ==
    LET sum[k \in 0..Len(vb)] == IF k = 0 THEN 0 ELSE sum[k - 1] + Len(vb[k].mem)
    IN  sum[i - 1]

vec_total(vb) == Before(vb, Len(vb) + 1)

\* What the kernel leaves in the vectors when it scatters bytes over them.
vec_fill(vb, bytes) ==
    [i \in DOMAIN vb |-> [vb[i] EXCEPT !.mem = [j \in DOMAIN @ |->
        IF Before(vb, i) + j \in DOMAIN bytes THEN bytes[Before(vb, i) + j]
                                              ELSE @[j]]]]

\* The vectors behind the one that n ends in keep the length they had.
vec_set_init(vb, n) ==
    [i \in DOMAIN vb |->
        LET rest == n - Before(vb, i)
        IN  IF rest <= 0 THEN vb[i]
            ELSE [vb[i] EXCEPT !.len =
                    IF Len(vb[i].mem) <= rest THEN Len(vb[i].mem) ELSE rest]]

\* The first n bytes that the owner of the vectors finds in them.
vec_bytes(vb, n) ==
    SubSeq(FlattenSeq([i \in DOMAIN vb |-> as_slice(vb[i])]), 1, n)

=============================================================================
