------------------------------ MODULE Vectored ------------------------------
(***************************************************************************)
(* write_vectored_all and read_vectored_exact: the loops that repeat a     *)
(* writev or a readv over an IoVecMeta (buf/vec_wrapper.rs) until all of   *)
(* the vectors of the application are sent or filled.                      *)
(*                                                                         *)
(* mem is the memory of the vectors, one after the other.  An iovec is     *)
(* [base, len] over it, meta the IoVecMeta.  dir tells which of the two    *)
(* calls it is, and wire holds the bytes sent, or those to be received.    *)
(***************************************************************************)
EXTENDS Integers, Sequences, SequencesExt

CONSTANTS VecLens,      \* the lengths of the vectors
          MaxFaults     \* a bound on interrupted operations

VARIABLES dir, mem, meta, done, wire, pc, faults

vars == <<dir, mem, meta, done, wire, pc, faults>>

Total == SumFunctionOnSet(VecLens, DOMAIN VecLens)
Payload == [i \in 1..Total |-> i]

\* read_vec_meta and write_vec_meta: a copy of the iovecs of the buffer.
vec_meta ==
    [data |-> [i \in DOMAIN VecLens |->
                [base |-> SumFunctionOnSet(VecLens, 1..(i - 1)), len |-> VecLens[i]]],
     offset |-> 0, len |-> Total]

Init == /\ dir \in {"write", "read"}
        /\ mem = IF dir = "write" THEN Payload ELSE [i \in 1..Total |-> 0]
        /\ wire = IF dir = "write" THEN <<>> ELSE Payload
        /\ meta = vec_meta
        /\ done = 0
        /\ pc = "loop"
        /\ faults = 0

\* consume(amt): iov_base.add(amt) gives the new address, which is not kept.
consume(m, amt) ==
    LET rest(i) == amt - SumFunctionOnSet([j \in DOMAIN m.data |-> m.data[j].len],
                                          (m.offset + 1)..(i - 1))
        i == CHOOSE k \in (m.offset + 1)..Len(m.data) :
                rest(k) > 0 /\ rest(k) <= m.data[k].len
    IN  IF rest(i) = m.data[i].len
        THEN [m EXCEPT !.offset = i]
        ELSE [m EXCEPT !.offset = i - 1, !.data[i].len = @ - rest(i)]

\* The addresses that the kernel goes through: those of the iovecs from
\* offset on.  read_iovec_len() counts the iovecs before offset too, so the
\* array is overrun; the kernel can only stop short of what lies there.
Addresses == FlattenSeq([i \in 1..(Len(meta.data) - meta.offset) |->
                LET v == meta.data[meta.offset + i]
                IN  [j \in 1..v.len |-> v.base + j]])

Writev ==
    /\ pc = "loop"
    /\ dir = "write"
    /\ \E n \in 1..Len(Addresses) :
         /\ wire' = wire \o [i \in 1..n |-> mem[Addresses[i]]]
         /\ done' = done + n
         /\ meta' = consume(meta, n)
         /\ pc' = IF done + n < meta.len THEN "loop" ELSE "ok"
    /\ UNCHANGED <<dir, mem, faults>>

\* The result of a ReadVec calls set_init, which consumes.
Readv ==
    /\ pc = "loop"
    /\ dir = "read"
    /\ \E n \in 1..Len(Addresses) :
         /\ n <= Len(wire)
         /\ mem' = [a \in DOMAIN mem |->
                        IF \E i \in 1..n : Addresses[i] = a
                        THEN wire[CHOOSE i \in 1..n : Addresses[i] = a] ELSE mem[a]]
         /\ wire' = SubSeq(wire, n + 1, Len(wire))
         /\ done' = done + n
         /\ meta' = consume(meta, n)
         /\ pc' = IF done + n < meta.len THEN "loop" ELSE "ok"
    /\ UNCHANGED <<dir, faults>>

Interrupted ==
    /\ pc = "loop"
    /\ faults < MaxFaults
    /\ faults' = faults + 1
    /\ UNCHANGED <<dir, mem, meta, done, wire, pc>>

Next == Writev \/ Readv \/ Interrupted

Spec == Init /\ [][Next]_vars

\* When write_vectored_all ("Write vectored all") or read_vectored_exact
\* returns Ok with the length of all the vectors, the bytes on the other side
\* are those of the vectors, in their order.
WholeVector == pc = "ok" => IF dir = "write" THEN wire = Payload ELSE mem = Payload

=============================================================================
