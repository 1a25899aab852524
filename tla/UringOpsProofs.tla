--------------------------- MODULE UringOpsProofs ---------------------------
(***************************************************************************)
(* What the kernel works on is what its operation owns, for every set of   *)
(* operations, slab keys and tasks and every size of the submission queue. *)
(***************************************************************************)
EXTENDS UringOps, SequenceTheorems, TLAPS

Unfinished == {"Submitted", "Waiting", "Ignored"}
Active == Unfinished \cup {"Completed"}

(* A slot belongs to the operation in it, and every operation that has a   *)
(* lifecycle is in the slot of its key.                                    *)
SlotInv ==
  /\ \A k \in Keys : slab[k] # NoOp => key[slab[k]] = k /\ life[slab[k]] \in Active
  /\ \A o \in Ops : life[o] \in Active => slab[key[o]] = o

(* The kernel holds entries of unfinished operations only.                 *)
FlightInv == \A o \in Ops : InFlight(o) => life[o] \in Unfinished

(* The Op holds its data until it is dropped, then its slot does.          *)
DataInv ==
  \A o \in Ops :
    /\ data[o] = "op" <=> life[o] \in {"Submitted", "Waiting", "Completed"}
    /\ life[o] = "Ignored" => data[o] = "box"

(* The submission queue: an entry of an operation is the one that has not  *)
(* been submitted; a cancellation was asked for, and an operation that was *)
(* given the same key since is queued behind it.                           *)
QueueInv ==
  \A j \in DOMAIN sq :
    /\ sq[j].kind = "op" => where[sq[j].op] = "sq"
    /\ sq[j].kind = "cancel" =>
         /\ sq[j].op \in asked
         /\ \A o \in Ops : key[o] = sq[j].key /\ o # sq[j].op =>
              /\ where[o] # "kernel"
              /\ \A i \in 1..(j - 1) : sq[i].kind = "op" => sq[i].op # o

(* The waker in the slot is that of the last poll.                         *)
WakerInv ==
  \A o \in Ops : life[o] \in {"none", "Submitted", "Waiting"} => waker[o] = poller[o]

UringInv ==
  /\ TypeOK
  /\ SlotInv
  /\ FlightInv
  /\ DataInv
  /\ QueueInv
  /\ WakerInv
  /\ CancelHitsTarget
  /\ NoFdLeak
  /\ LastPollerWoken

-----------------------------------------------------------------------------
(* No operation has been started: nothing is owed to anybody.              *)
LEMMA InitUringInv == Init => UringInv
  <1> SUFFICES ASSUME Init
               PROVE  UringInv
    OBVIOUS
  <1>1. TypeOK
    <2>1. sq \in Seq(Entry) /\ Len(sq) <= SqCap
      BY UringAssumption, EmptySeq DEF Init
    <2>2. key \in [Ops -> Keys]
      BY UringAssumption DEF Init
    <2> QED
      BY <2>1, <2>2 DEF Init, TypeOK
  <1>2. SlotInv /\ FlightInv /\ DataInv /\ WakerInv
    BY DEF Init, SlotInv, FlightInv, DataInv, WakerInv, InFlight, Unfinished, Active
  <1>3. QueueInv
    BY DEF Init, QueueInv
  <1>4. CancelHitsTarget /\ NoFdLeak /\ LastPollerWoken
    BY DEF Init, CancelHitsTarget, NoFdLeak, LastPollerWoken
  <1> QED
    BY <1>1, <1>2, <1>3, <1>4 DEF UringInv

(* The kernel takes the queue: a cancellation finds the operation it was   *)
(* meant for, if any.                                                      *)
LEMMA EnterHitsAsked ==
  ASSUME TypeOK, QueueInv, CancelHitsTarget
  PROVE  CancelledOnEnter \subseteq asked
  <1> SUFFICES ASSUME NEW i \in DOMAIN sq, NEW o \in Hits(i)
               PROVE  o \in asked
    BY DEF CancelledOnEnter, CancelHitsTarget
  <1>1. o \in Ops /\ sq[i].kind = "cancel" /\ key[o] = sq[i].key
    BY DEF Hits
  <1>2. where[o] = "kernel" \/ \E j \in 1..(i - 1) : sq[j].kind = "op" /\ sq[j].op = o
    BY DEF Hits
  <1>3. o = sq[i].op
    BY <1>1, <1>2 DEF QueueInv
  <1> QED
    BY <1>1, <1>3 DEF QueueInv

(* What a push finds, having submitted a full queue first.                 *)
LEMMA PushFindsRoom ==
  ASSUME TypeOK, QueueInv, CancelHitsTarget
  PROVE  /\ SqBase \in Seq(Entry) /\ Len(SqBase) < SqCap
         /\ \A j \in DOMAIN SqBase : j \in DOMAIN sq /\ SqBase[j] = sq[j] /\ WhereBase = where
         /\ WhereBase \in [Ops -> {"none", "sq", "kernel", "cq", "out"}]
         /\ \A o \in Ops : WhereBase[o] = where[o] \/ (where[o] = "sq" /\ WhereBase[o] = "kernel")
         /\ CancelledBase \subseteq asked
  <1>1. CASE Full
    <2>1. SqBase = <<>>
      BY <1>1 DEF SqBase
    <2>2. CancelledBase \subseteq asked
      BY <1>1, EnterHitsAsked DEF CancelledBase
    <2>3. WhereBase = [o \in Ops |-> Entered(o)]
      BY <1>1 DEF WhereBase
    <2>4. /\ WhereBase \in [Ops -> {"none", "sq", "kernel", "cq", "out"}]
          /\ \A o \in Ops : WhereBase[o] = where[o] \/ (where[o] = "sq" /\ WhereBase[o] = "kernel")
      BY <2>3 DEF TypeOK, Entered
    <2>5. SqBase \in Seq(Entry) /\ Len(SqBase) = 0 /\ DOMAIN SqBase = {}
      BY <2>1, EmptySeq
    <2>6. Len(SqBase) < SqCap
      BY <2>5, UringAssumption
    <2> QED
      BY <2>2, <2>4, <2>5, <2>6
  <1>2. CASE ~Full
    <2>1. SqBase = sq /\ CancelledBase = cancelled
      BY <1>2 DEF SqBase, CancelledBase
    <2>2. WhereBase = where
      BY <1>2 DEF WhereBase, TypeOK
    <2>3. Len(sq) < SqCap
      BY <1>2, UringAssumption, LenProperties DEF Full, TypeOK
    <2>4. SqBase \in Seq(Entry) /\ Len(SqBase) < SqCap
      BY <2>1, <2>3 DEF TypeOK
    <2>5. CancelledBase \subseteq asked
      BY <2>1 DEF CancelHitsTarget
    <2>6. WhereBase \in [Ops -> {"none", "sq", "kernel", "cq", "out"}]
      BY <2>2 DEF TypeOK
    <2> QED
      BY <2>1, <2>2, <2>4, <2>5, <2>6
  <1> QED
    BY <1>1, <1>2

-----------------------------------------------------------------------------
(* Steps that push an entry.                                               *)

(* A new operation is queued behind the cancellations of its key.          *)
LEMMA SubmitKeepsUringInv ==
  ASSUME UringInv, NEW o \in Ops, SubmitWithData(o)
  PROVE  UringInv'
  <1> USE DEF UringInv
  <1>1. PICK k \in Keys : /\ slab[k] = NoOp
                          /\ slab' = [slab EXCEPT ![k] = o]
                          /\ key' = [key EXCEPT ![o] = k]
                          /\ sq' = Append(SqBase, OpEntry(o, k))
    BY DEF SubmitWithData
  <1>2. /\ life[o] = "none" /\ data[o] = "caller"
        /\ where' = [WhereBase EXCEPT ![o] = "sq"]
        /\ cancelled' = CancelledBase
        /\ life' = [life EXCEPT ![o] = "Submitted"]
        /\ data' = [data EXCEPT ![o] = "op"]
        /\ UNCHANGED <<waker, fd, poller, woken, asked, refused>>
    BY DEF SubmitWithData, history
  <1>3. OpEntry(o, k) \in Entry
    BY DEF OpEntry, Entry
  <1>4. TypeOK'
    <2>1. sq' \in Seq(Entry) /\ Len(sq') <= SqCap
      BY <1>1, <1>3, PushFindsRoom, AppendProperties, UringAssumption, LenProperties
    <2>2. where' \in [Ops -> {"none", "sq", "kernel", "cq", "out"}]
      BY <1>2, PushFindsRoom
    <2>3. cancelled' \subseteq Ops
      BY <1>2, PushFindsRoom DEF TypeOK
    <2> QED
      BY <1>1, <1>2, <2>1, <2>2, <2>3 DEF TypeOK
  <1>5. SlotInv'
    BY <1>1, <1>2, UringAssumption DEF SlotInv, TypeOK, Active, Unfinished
  <1>6. \A p \in Ops : p # o =>
          where'[p] = where[p] \/ (where[p] = "sq" /\ where'[p] = "kernel")
    BY <1>2, PushFindsRoom
  <1>7. FlightInv'
    BY <1>2, <1>6 DEF FlightInv, TypeOK, Unfinished, InFlight
  <1>8. DataInv'
    BY <1>2 DEF DataInv, TypeOK
  <1>9. QueueInv'
    <2> SUFFICES ASSUME NEW j \in DOMAIN sq'
                 PROVE  /\ sq'[j].kind = "op" => where'[sq'[j].op] = "sq"
                        /\ sq'[j].kind = "cancel" =>
                             /\ sq'[j].op \in asked'
                             /\ \A p \in Ops : key'[p] = sq'[j].key /\ p # sq'[j].op =>
                                  /\ where'[p] # "kernel"
                                  /\ \A i \in 1..(j - 1) : sq'[i].kind = "op" => sq'[i].op # p
      BY DEF QueueInv
    <2>1. /\ \A i \in 1..Len(SqBase) : sq'[i] = SqBase[i]
          /\ sq'[Len(SqBase) + 1] = OpEntry(o, k)
          /\ DOMAIN sq' = 1..(Len(SqBase) + 1)
          /\ DOMAIN SqBase = 1..Len(SqBase)
          /\ Len(SqBase) \in Nat
      BY <1>1, <1>3, PushFindsRoom, AppendProperties, LenProperties
    <2>2. CASE j = Len(SqBase) + 1
      BY <1>2, <2>1, <2>2, PushFindsRoom DEF OpEntry, TypeOK
    <2>3. CASE j \in 1..Len(SqBase)
      <3>1. j \in DOMAIN sq /\ sq'[j] = sq[j] /\ WhereBase = where
        BY <2>1, <2>3, PushFindsRoom
      <3>2. \A i \in 1..(j - 1) : i \in 1..Len(SqBase) /\ i \in DOMAIN sq /\ sq'[i] = sq[i]
        BY <2>1, <2>3, PushFindsRoom
      <3>3. sq[j] \in Entry /\ \A i \in 1..(j - 1) : sq[i] \in Entry
        BY <3>1, <3>2, ElementOfSeq, LenProperties DEF TypeOK
      <3>4. where[o] # "sq"
        BY <1>2 DEF FlightInv, InFlight, Unfinished
      <3>5. \A i \in 1..(j - 1) : sq[i].kind = "op" => sq[i].op # o
        BY <3>2, <3>4 DEF QueueInv
      <3>6. sq'[j].kind = "op" => where'[sq'[j].op] = "sq"
        BY <1>2, <3>1, <3>3 DEF QueueInv, TypeOK, Entry
      <3>7. sq'[j].kind = "cancel" =>
               /\ sq'[j].op \in asked'
               /\ \A p \in Ops : key'[p] = sq'[j].key /\ p # sq'[j].op =>
                    /\ where'[p] # "kernel"
                    /\ \A i \in 1..(j - 1) : sq'[i].kind = "op" => sq'[i].op # p
        <4> SUFFICES ASSUME sq[j].kind = "cancel"
                     PROVE  /\ sq[j].op \in asked
                            /\ \A p \in Ops : key'[p] = sq[j].key /\ p # sq[j].op =>
                                 /\ where'[p] # "kernel"
                                 /\ \A i \in 1..(j - 1) : sq'[i].kind = "op" => sq'[i].op # p
          BY <1>2, <3>1
        <4>1. \A p \in Ops : p # o => key'[p] = key[p] /\ where'[p] = where[p]
          BY <1>1, <1>2, <3>1 DEF TypeOK
        <4>2. where'[o] = "sq"
          BY <1>2, <3>1 DEF TypeOK
        <4> QED
          BY <3>1, <3>2, <3>5, <4>1, <4>2 DEF QueueInv
      <3> QED
        BY <3>6, <3>7
    <2> QED
      BY <2>1, <2>2, <2>3
  <1>10. WakerInv'
    BY <1>2 DEF WakerInv, TypeOK
  <1>11. CancelHitsTarget'
    BY <1>2, PushFindsRoom DEF CancelHitsTarget
  <1>12. NoFdLeak'
    <2>1. fd'[o] # "open"
      BY <1>2 DEF NoFdLeak, FlightInv, InFlight, Unfinished
    <2> QED
      BY <1>1, <1>2, <1>6, <2>1, UringAssumption DEF NoFdLeak, TypeOK
  <1>13. LastPollerWoken'
    BY <1>2 DEF LastPollerWoken, TypeOK
  <1> QED
    BY <1>4, <1>5, <1>7, <1>8, <1>9, <1>10, <1>11, <1>12, <1>13

(* A cancellation is pushed while its operation has its slot, so that no   *)
(* other one under the same key is in flight.  The rest of the step leaves *)
(* keys, slots and entries alone.                                          *)
LEMMA PushCancelKeepsQueue ==
  ASSUME UringInv, NEW o \in Ops, data[o] = "op", PushCancel(o), UNCHANGED <<slab, key>>
  PROVE  /\ sq' \in Seq(Entry) /\ Len(sq') <= SqCap
         /\ where' \in [Ops -> {"none", "sq", "kernel", "cq", "out"}]
         /\ asked' = asked \cup {o} /\ refused' \subseteq Ops
         /\ cancelled' \subseteq asked'
         /\ QueueInv'
         /\ \A p \in Ops : where'[p] = where[p] \/ (where[p] = "sq" /\ where'[p] = "kernel")
  <1> USE DEF UringInv
  <1>1. asked' = asked \cup {o}
    BY DEF PushCancel
  <1>2. CASE UNCHANGED rings /\ refused' = refused \cup {o}
    <2>1. sq' = sq /\ where' = where /\ cancelled' = cancelled
      BY <1>2 DEF rings
    <2>2. QueueInv'
      BY <1>1, <2>1 DEF QueueInv
    <2> QED
      BY <1>1, <1>2, <2>1, <2>2 DEF TypeOK, CancelHitsTarget
  <1>3. CASE /\ sq' = Append(SqBase, CancelEntry(o))
             /\ where' = WhereBase
             /\ cancelled' = CancelledBase
             /\ UNCHANGED refused
    <2>1. CancelEntry(o) \in Entry
      BY DEF CancelEntry, Entry, TypeOK
    <2>2. sq' \in Seq(Entry) /\ Len(sq') <= SqCap
      BY <1>3, <2>1, PushFindsRoom, AppendProperties, UringAssumption, LenProperties
    <2>3. QueueInv'
      <3> SUFFICES ASSUME NEW j \in DOMAIN sq'
                   PROVE  /\ sq'[j].kind = "op" => where'[sq'[j].op] = "sq"
                          /\ sq'[j].kind = "cancel" =>
                               /\ sq'[j].op \in asked'
                               /\ \A p \in Ops : key'[p] = sq'[j].key /\ p # sq'[j].op =>
                                    /\ where'[p] # "kernel"
                                    /\ \A i \in 1..(j - 1) : sq'[i].kind = "op" => sq'[i].op # p
        BY DEF QueueInv
      <3>1. /\ \A i \in 1..Len(SqBase) : sq'[i] = SqBase[i]
            /\ sq'[Len(SqBase) + 1] = CancelEntry(o)
            /\ DOMAIN sq' = 1..(Len(SqBase) + 1)
            /\ DOMAIN SqBase = 1..Len(SqBase)
            /\ Len(SqBase) \in Nat
        BY <1>3, <2>1, PushFindsRoom, AppendProperties, LenProperties
      <3>2. \A i \in 1..Len(SqBase) : i \in DOMAIN sq /\ sq'[i] = sq[i] /\ where' = where
        BY <1>3, <3>1, PushFindsRoom
      <3>3. CASE j = Len(SqBase) + 1
        <4>1. \A p \in Ops : key[p] = key[o] /\ p # o => ~InFlight(p)
          BY DEF SlotInv, FlightInv, DataInv, Active, Unfinished
        <4>2. \A p \in Ops : key[p] = key[o] /\ p # o => where'[p] # "kernel"
          BY <1>3, <4>1, PushFindsRoom DEF InFlight
        <4>3. \A p \in Ops : key[p] = key[o] /\ p # o =>
                \A i \in 1..(j - 1) : sq'[i].kind = "op" => sq'[i].op # p
          BY <3>1, <3>2, <3>3, <4>1 DEF QueueInv, InFlight
        <4> QED
          BY <1>1, <3>1, <3>3, <4>2, <4>3 DEF CancelEntry
      <3>4. CASE j \in 1..Len(SqBase)
        <4>1. j \in DOMAIN sq /\ sq'[j] = sq[j] /\ where' = where
          BY <3>2, <3>4
        <4>2. \A i \in 1..(j - 1) : sq'[i] = sq[i]
          BY <3>1, <3>2, <3>4
        <4> QED
          BY <1>1, <4>1, <4>2 DEF QueueInv
      <3> QED
        BY <3>1, <3>3, <3>4
    <2> QED
      BY <1>1, <1>3, <2>2, <2>3, PushFindsRoom DEF TypeOK
  <1> QED
    BY <1>2, <1>3 DEF PushCancel

(* The drop of an unfinished operation.                                    *)
LEMMA DropOpKeepsUringInv ==
  ASSUME UringInv, NEW o \in Ops, DropOp(o)
  PROVE  UringInv'
  <1> USE DEF UringInv
  <1>1. /\ data[o] = "op" /\ life[o] \in {"Submitted", "Waiting"}
        /\ life' = [life EXCEPT ![o] = "Ignored"]
        /\ waker' = [waker EXCEPT ![o] = NoTask]
        /\ poller' = [poller EXCEPT ![o] = NoTask]
        /\ woken' = [woken EXCEPT ![o] = NoTask]
        /\ data' = [data EXCEPT ![o] = "box"]
        /\ UNCHANGED <<slab, key, fd>>
    BY DEF DropOp, Forget
  <1>2. /\ sq' \in Seq(Entry) /\ Len(sq') <= SqCap
        /\ where' \in [Ops -> {"none", "sq", "kernel", "cq", "out"}]
        /\ asked' \subseteq Ops /\ refused' \subseteq Ops
        /\ cancelled' \subseteq asked'
        /\ QueueInv'
        /\ \A p \in Ops : where'[p] = where[p] \/ (where[p] = "sq" /\ where'[p] = "kernel")
    <2>1. CASE o \in CloseOps
      <3>1. UNCHANGED <<sq, where, cancelled, asked, refused>>
        BY <2>1 DEF DropOp, rings
      <3>2. QueueInv'
        BY <1>1, <3>1 DEF QueueInv
      <3> QED
        BY <3>1, <3>2 DEF TypeOK, CancelHitsTarget
    <2>2. CASE o \notin CloseOps
      <3>1. PushCancel(o)
        BY <2>2 DEF DropOp
      <3> QED
        BY <1>1, <3>1, PushCancelKeepsQueue DEF TypeOK
    <2> QED
      BY <2>1, <2>2
  <1>3. TypeOK'
    BY <1>1, <1>2 DEF TypeOK
  <1>4. SlotInv'
    BY <1>1 DEF SlotInv, TypeOK, Active, Unfinished
  <1>5. FlightInv'
    BY <1>1, <1>2 DEF FlightInv, TypeOK, Unfinished, InFlight
  <1>6. DataInv'
    BY <1>1 DEF DataInv, TypeOK
  <1>7. WakerInv'
    BY <1>1 DEF WakerInv, TypeOK
  <1>8. CancelHitsTarget'
    BY <1>2 DEF CancelHitsTarget
  <1>9. NoFdLeak'
    BY <1>1, <1>2 DEF NoFdLeak, TypeOK
  <1>10. LastPollerWoken'
    BY <1>1 DEF LastPollerWoken, TypeOK
  <1> QED
    BY <1>2, <1>3, <1>4, <1>5, <1>6, <1>7, <1>8, <1>9, <1>10

(* Canceller::cancel.                                                      *)
LEMMA CancelOpKeepsUringInv ==
  ASSUME UringInv, NEW o \in Ops, CancelOp(o)
  PROVE  UringInv'
  <1> USE DEF UringInv
  <1>1. /\ data[o] = "op" /\ PushCancel(o)
        /\ UNCHANGED <<slab, key, life, waker, data, fd, poller, woken>>
    BY DEF CancelOp, slots
  <1>2. /\ sq' \in Seq(Entry) /\ Len(sq') <= SqCap
        /\ where' \in [Ops -> {"none", "sq", "kernel", "cq", "out"}]
        /\ asked' = asked \cup {o} /\ refused' \subseteq Ops
        /\ cancelled' \subseteq asked'
        /\ QueueInv'
        /\ \A p \in Ops : where'[p] = where[p] \/ (where[p] = "sq" /\ where'[p] = "kernel")
    BY <1>1, PushCancelKeepsQueue
  <1>3. TypeOK'
    BY <1>1, <1>2 DEF TypeOK
  <1>4. SlotInv' /\ DataInv' /\ WakerInv' /\ LastPollerWoken'
    BY <1>1 DEF SlotInv, DataInv, WakerInv, LastPollerWoken
  <1>5. FlightInv'
    BY <1>1, <1>2 DEF FlightInv, Unfinished, InFlight
  <1>6. CancelHitsTarget'
    BY <1>2 DEF CancelHitsTarget
  <1>7. NoFdLeak'
    BY <1>1, <1>2 DEF NoFdLeak
  <1> QED
    BY <1>2, <1>3, <1>4, <1>5, <1>6, <1>7

-----------------------------------------------------------------------------
(* Steps that leave the queue alone, or empty it.                          *)

(* The kernel takes the whole queue.                                       *)
LEMMA EnterKeepsUringInv ==
  ASSUME UringInv, Enter
  PROVE  UringInv'
  <1> USE DEF UringInv
  <1>1. /\ sq' = <<>>
        /\ where' = [o \in Ops |-> Entered(o)]
        /\ cancelled' = CancelledOnEnter
        /\ UNCHANGED <<slab, key, life, waker, data, fd, poller, woken, asked, refused>>
    BY DEF Enter, slots, history
  <1>2. cancelled' \subseteq asked
    BY <1>1, EnterHitsAsked
  <1>3. \A o \in Ops : where'[o] = where[o] \/ (where[o] = "sq" /\ where'[o] = "kernel")
    BY <1>1 DEF Entered
  <1>4. TypeOK'
    <2>1. where' \in [Ops -> {"none", "sq", "kernel", "cq", "out"}]
      BY <1>1 DEF TypeOK, Entered
    <2>2. sq' \in Seq(Entry) /\ Len(sq') <= SqCap
      BY <1>1, EmptySeq, UringAssumption
    <2> QED
      BY <1>1, <1>2, <2>1, <2>2 DEF TypeOK
  <1>5. SlotInv' /\ DataInv' /\ WakerInv' /\ LastPollerWoken'
    BY <1>1 DEF SlotInv, DataInv, WakerInv, LastPollerWoken
  <1>6. FlightInv'
    BY <1>1, <1>3 DEF FlightInv, InFlight
  <1>7. QueueInv'
    BY <1>1 DEF QueueInv
  <1>8. CancelHitsTarget'
    BY <1>1, <1>2 DEF CancelHitsTarget
  <1>9. NoFdLeak'
    BY <1>1, <1>3 DEF NoFdLeak
  <1> QED
    BY <1>4, <1>5, <1>6, <1>7, <1>8, <1>9

(* An operation that could not be submitted leaves nothing behind.         *)
LEMMA SubmitFailsKeepsUringInv ==
  ASSUME UringInv, NEW o \in Ops, SubmitFails(o)
  PROVE  UringInv'
  <1> USE DEF UringInv
  <1>1. /\ life[o] = "none" /\ data[o] = "caller"
        /\ life' = [life EXCEPT ![o] = "gone"]
        /\ data' = [data EXCEPT ![o] = "freed"]
        /\ UNCHANGED <<slab, key, waker, sq, where, cancelled, fd, poller, woken, asked, refused>>
    BY DEF SubmitFails, rings, history
  <1>2. TypeOK'
    BY <1>1 DEF TypeOK
  <1>3. SlotInv'
    BY <1>1 DEF SlotInv, TypeOK, Active, Unfinished
  <1>4. FlightInv' /\ DataInv'
    BY <1>1 DEF FlightInv, DataInv, InFlight, TypeOK, Unfinished
  <1>5. QueueInv' /\ CancelHitsTarget'
    BY <1>1 DEF QueueInv, CancelHitsTarget
  <1>6. WakerInv' /\ LastPollerWoken' /\ NoFdLeak'
    BY <1>1 DEF WakerInv, LastPollerWoken, NoFdLeak, TypeOK
  <1> QED
    BY <1>2, <1>3, <1>4, <1>5, <1>6

(* A poll of an unfinished operation leaves its waker.                     *)
LEMMA PollPendingKeepsUringInv ==
  ASSUME UringInv, NEW o \in Ops, NEW t \in Tasks, PollPending(o, t)
  PROVE  UringInv'
  <1> USE DEF UringInv
  <1>1. /\ data[o] = "op" /\ life[o] \in {"Submitted", "Waiting"}
        /\ life' = [life EXCEPT ![o] = "Waiting"]
        /\ waker' = [waker EXCEPT ![o] = t]
        /\ poller' = [poller EXCEPT ![o] = t]
        /\ UNCHANGED <<slab, key, sq, where, cancelled, data, fd, woken, asked, refused>>
    BY DEF PollPending, rings
  <1>2. TypeOK'
    BY <1>1 DEF TypeOK
  <1>3. SlotInv'
    BY <1>1 DEF SlotInv, TypeOK, Active, Unfinished
  <1>4. FlightInv' /\ DataInv'
    BY <1>1 DEF FlightInv, DataInv, InFlight, TypeOK, Unfinished
  <1>5. QueueInv' /\ CancelHitsTarget'
    BY <1>1 DEF QueueInv, CancelHitsTarget
  <1>6. WakerInv' /\ LastPollerWoken' /\ NoFdLeak'
    BY <1>1 DEF WakerInv, LastPollerWoken, NoFdLeak, TypeOK
  <1> QED
    BY <1>2, <1>3, <1>4, <1>5, <1>6

(* A completed operation leaves its slot, polled or dropped.               *)
LEMMA LeaveKeepsUringInv ==
  ASSUME UringInv, NEW o \in Ops, PollReady(o) \/ DropCompleted(o)
  PROVE  UringInv'
  <1> USE DEF UringInv
  <1>1. /\ data[o] = "op" /\ life[o] = "Completed"
        /\ slab' = [slab EXCEPT ![key[o]] = NoOp]
        /\ life' = [life EXCEPT ![o] = "gone"]
        /\ poller' = [poller EXCEPT ![o] = NoTask]
        /\ woken' = [woken EXCEPT ![o] = NoTask]
        /\ UNCHANGED <<key, waker, sq, where, cancelled, asked, refused>>
    BY DEF PollReady, DropCompleted, Vacate, Forget, rings
  <1>2. PICK d \in {"caller", "freed"} : data' = [data EXCEPT ![o] = d]
    BY DEF PollReady, DropCompleted
  <1>3. PICK c \in {"owned", "closed"} : fd' = [fd EXCEPT ![o] = IF @ = "open" THEN c ELSE @]
    BY DEF PollReady, DropCompleted
  <1>4. TypeOK'
    BY <1>1, <1>2, <1>3 DEF TypeOK
  <1>5. SlotInv'
    BY <1>1, UringAssumption DEF SlotInv, TypeOK, Active, Unfinished
  <1>6. FlightInv' /\ DataInv'
    BY <1>1, <1>2 DEF FlightInv, DataInv, InFlight, TypeOK, Unfinished
  <1>7. QueueInv' /\ CancelHitsTarget'
    BY <1>1 DEF QueueInv, CancelHitsTarget
  <1>8. WakerInv' /\ LastPollerWoken'
    BY <1>1 DEF WakerInv, LastPollerWoken, TypeOK
  <1>9. NoFdLeak'
    BY <1>1, <1>3 DEF NoFdLeak, SlotInv, TypeOK, Active
  <1> QED
    BY <1>4, <1>5, <1>6, <1>7, <1>8, <1>9

(* The kernel finishes with an operation.                                  *)
LEMMA KernelCompleteKeepsUringInv ==
  ASSUME UringInv, NEW o \in Ops, KernelComplete(o)
  PROVE  UringInv'
  <1> USE DEF UringInv
  <1>1. /\ where[o] = "kernel"
        /\ where' = [where EXCEPT ![o] = "cq"]
        /\ fd' = [fd EXCEPT ![o] = "open"] \/ fd' = fd
        /\ UNCHANGED <<slab, key, life, waker, sq, cancelled, data, poller, woken, asked, refused>>
    BY DEF KernelComplete, slots, history
  <1>2. TypeOK'
    BY <1>1 DEF TypeOK
  <1>3. SlotInv' /\ DataInv' /\ WakerInv' /\ LastPollerWoken' /\ CancelHitsTarget'
    BY <1>1 DEF SlotInv, DataInv, WakerInv, LastPollerWoken, CancelHitsTarget
  <1>4. FlightInv'
    BY <1>1 DEF FlightInv, InFlight, TypeOK
  <1>5. QueueInv'
    BY <1>1 DEF QueueInv, TypeOK
  <1>6. NoFdLeak'
    BY <1>1 DEF NoFdLeak, TypeOK
  <1> QED
    BY <1>2, <1>3, <1>4, <1>5, <1>6

(* A completion finds its own operation in the slot of its key.            *)
LEMMA CompleteOpKeepsUringInv ==
  ASSUME UringInv, NEW o \in Ops, CompleteOp(o)
  PROVE  UringInv'
  <1> USE DEF UringInv
  <1>1. slab[key[o]] = o /\ where[o] = "cq"
    BY DEF CompleteOp, SlotInv, FlightInv, InFlight, Active
  <1>2. /\ where' = [where EXCEPT ![o] = "out"]
        /\ UNCHANGED <<key, sq, cancelled, poller, asked, refused>>
    BY DEF CompleteOp
  <1>3. QueueInv' /\ CancelHitsTarget'
    BY <1>1, <1>2 DEF QueueInv, CancelHitsTarget, TypeOK
  <1>4. CASE /\ life[o] \in {"Submitted", "Waiting"}
             /\ life' = [life EXCEPT ![o] = "Completed"]
             /\ woken' = [woken EXCEPT ![o] = waker[o]]
             /\ waker' = [waker EXCEPT ![o] = NoTask]
             /\ UNCHANGED <<slab, data, fd>>
    <2>1. TypeOK'
      BY <1>2, <1>4 DEF TypeOK
    <2>2. SlotInv'
      BY <1>2, <1>4 DEF SlotInv, TypeOK, Active, Unfinished
    <2>3. FlightInv' /\ DataInv'
      BY <1>2, <1>4 DEF FlightInv, DataInv, InFlight, TypeOK, Unfinished
    <2>4. WakerInv' /\ LastPollerWoken'
      BY <1>2, <1>4 DEF WakerInv, LastPollerWoken, TypeOK
    <2>5. NoFdLeak'
      BY <1>1, <1>2, <1>4 DEF NoFdLeak, TypeOK
    <2> QED
      BY <1>3, <2>1, <2>2, <2>3, <2>4, <2>5
  <1>5. CASE /\ life[o] = "Ignored"
             /\ slab' = [slab EXCEPT ![key[o]] = NoOp]
             /\ life' = [life EXCEPT ![o] = "gone"]
             /\ data' = [data EXCEPT ![o] = "freed"]
             /\ fd' = [fd EXCEPT ![o] = IF @ = "open" THEN "closed" ELSE @]
             /\ UNCHANGED <<waker, woken>>
    <2>1. TypeOK'
      BY <1>2, <1>5 DEF TypeOK
    <2>2. SlotInv'
      BY <1>2, <1>5, UringAssumption DEF SlotInv, TypeOK, Active, Unfinished
    <2>3. FlightInv' /\ DataInv'
      BY <1>2, <1>5 DEF FlightInv, DataInv, InFlight, TypeOK, Unfinished
    <2>4. WakerInv' /\ LastPollerWoken'
      BY <1>2, <1>5 DEF WakerInv, LastPollerWoken, TypeOK
    <2>5. NoFdLeak'
      BY <1>1, <1>2, <1>5 DEF NoFdLeak, SlotInv, TypeOK, Active
    <2> QED
      BY <1>3, <2>1, <2>2, <2>3, <2>4, <2>5
  <1> QED
    BY <1>1, <1>4, <1>5 DEF CompleteOp, Vacate

-----------------------------------------------------------------------------
(* The invariant of the driver's bookkeeping.                              *)
THEOREM UringInvariant == Spec => []UringInv
  <1>1. UringInv /\ [Next]_vars => UringInv'
    <2> SUFFICES ASSUME UringInv, [Next]_vars
                 PROVE  UringInv'
      OBVIOUS
    <2>1. CASE Next
      BY <2>1, EnterKeepsUringInv, SubmitKeepsUringInv, SubmitFailsKeepsUringInv,
         PollPendingKeepsUringInv, LeaveKeepsUringInv, DropOpKeepsUringInv, CancelOpKeepsUringInv,
         KernelCompleteKeepsUringInv, CompleteOpKeepsUringInv DEF Next
    <2>2. CASE UNCHANGED vars
      <3>1. UNCHANGED <<slab, key, life, waker, sq, where, cancelled, data, fd, poller, woken,
                        asked, refused>>
        BY <2>2 DEF vars, slots, rings, history
      <3>2. TypeOK' /\ SlotInv' /\ DataInv' /\ WakerInv'
        BY <3>1 DEF UringInv, TypeOK, SlotInv, DataInv, WakerInv
      <3>3. FlightInv' /\ QueueInv'
        BY <3>1 DEF UringInv, FlightInv, InFlight, QueueInv
      <3>4. CancelHitsTarget' /\ NoFdLeak' /\ LastPollerWoken'
        BY <3>1 DEF UringInv, CancelHitsTarget, NoFdLeak, LastPollerWoken
      <3> QED
        BY <3>2, <3>3, <3>4 DEF UringInv
    <2> QED
      BY <2>1, <2>2
  <1> QED
    BY <1>1, InitUringInv, PTL DEF Spec

(* A completion finds its operation, the kernel's buffers are alive and a  *)
(* cancellation hits its target, however keys are reused.                  *)
THEOREM UringInFlightSound == Spec => []InFlightSound
  <1>1. UringInv => InFlightSound
    <2> SUFFICES ASSUME UringInv
                 PROVE  InFlightSound
      OBVIOUS
    <2> USE DEF UringInv
    <2>1. CompletionFindsOp
      BY DEF CompletionFindsOp, FlightInv, SlotInv, Active, Unfinished
    <2>2. BufferPinned
      BY DEF BufferPinned, FlightInv, DataInv, InFlight, Unfinished
    <2> QED
      BY <2>1, <2>2 DEF InFlightSound
  <1> QED
    BY <1>1, UringInvariant, PTL

(* No descriptor that the kernel returned is lost, whoever drops what.     *)
THEOREM UringNoFdLeak == Spec => []NoFdLeak
  <1>1. UringInv => NoFdLeak
    BY DEF UringInv
  <1> QED
    BY <1>1, UringInvariant, PTL

(* A completion wakes the task that polled last.                           *)
THEOREM UringLastPollerWoken == Spec => []LastPollerWoken
  <1>1. UringInv => LastPollerWoken
    BY DEF UringInv
  <1> QED
    BY <1>1, UringInvariant, PTL

=============================================================================
