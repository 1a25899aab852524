------------------------------ MODULE UringOps ------------------------------
(***************************************************************************)
(* In-flight operations of the io_uring driver: driver/op.rs, the ops slab *)
(* of driver/uring/mod.rs, driver/uring/lifecycle.rs and the Canceller of  *)
(* io/util/cancel.rs.                                                      *)
(*                                                                         *)
(* An operation is known to the kernel by its slab key only.  The key is   *)
(* given to another operation as soon as the slot is free, while entries   *)
(* that name it (a cancellation, a completion) may still be in a ring, and *)
(* the buffer the kernel works on belongs to a future that may be dropped  *)
(* at any time.                                                            *)
(***************************************************************************)
EXTENDS Naturals, Sequences

CONSTANTS
  Ops,         \* the operations ever started
  Keys,        \* slab keys
  Tasks,       \* the tasks that poll operations
  SqCap,       \* capacity of the submission queue
  FdOps,       \* operations whose result is a descriptor (RET_IS_FD)
  CloseOps,    \* operations that are not cancelled when dropped (SKIP_CANCEL)
  EnterFails,  \* TRUE if io_uring_enter may fail for good
  NoOp,        \* a vacant slot
  NoTask       \* no waker

ASSUME UringAssumption ==
  /\ Keys # {}
  /\ SqCap \in Nat /\ SqCap >= 1
  /\ FdOps \subseteq Ops
  /\ CloseOps \subseteq Ops
  /\ EnterFails \in BOOLEAN
  /\ NoOp \notin Ops
  /\ NoTask \notin Tasks

VARIABLES
  slab,       \* which operation occupies a slot
  key,        \* Op::index
  life,       \* the lifecycle in the slot: "Submitted", "Waiting", ...
  waker,      \* the waker in Waiting
  sq,         \* the submission queue
  where,      \* where an operation's entry is: "sq", "kernel", "cq"
  cancelled,  \* operations the kernel was told to cancel
  data,       \* who holds the operation's buffers
  fd,         \* the descriptor the kernel returned for it
  poller,     \* the last task to be told Pending (history)
  woken,      \* the task whose waker completion called (history)
  asked,      \* operations whose owner asked for a cancellation (history)
  refused     \* those whose cancellation could not be queued (history)

rings == <<sq, where, cancelled>>
slots == <<slab, key, life, waker>>
history == <<poller, woken, asked, refused>>
vars == <<slots, rings, data, fd, history>>

Entry == [kind : {"op", "cancel"}, key : Keys, op : Ops]

(* The type invariant. *)
TypeOK ==
  /\ slab \in [Keys -> Ops \cup {NoOp}]
  /\ key \in [Ops -> Keys]
  /\ life \in [Ops -> {"none", "Submitted", "Waiting", "Ignored", "Completed", "gone"}]
  /\ waker \in [Ops -> Tasks \cup {NoTask}]
  /\ sq \in Seq(Entry) /\ Len(sq) <= SqCap
  /\ where \in [Ops -> {"none", "sq", "kernel", "cq", "out"}]
  /\ cancelled \subseteq Ops
  /\ data \in [Ops -> {"caller", "op", "box", "freed"}]
  /\ fd \in [Ops -> {"none", "open", "owned", "closed"}]
  /\ poller \in [Ops -> Tasks \cup {NoTask}]
  /\ woken \in [Ops -> Tasks \cup {NoTask}]
  /\ asked \subseteq Ops
  /\ refused \subseteq Ops

Init ==
  /\ slab = [k \in Keys |-> NoOp]
  /\ key = [o \in Ops |-> CHOOSE k \in Keys : TRUE]
  /\ life = [o \in Ops |-> "none"]
  /\ waker = [o \in Ops |-> NoTask]
  /\ sq = <<>>
  /\ where = [o \in Ops |-> "none"]
  /\ cancelled = {}
  /\ data = [o \in Ops |-> "caller"]
  /\ fd = [o \in Ops |-> "none"]
  /\ poller = [o \in Ops |-> NoTask]
  /\ woken = [o \in Ops |-> NoTask]
  /\ asked = {}
  /\ refused = {}

-----------------------------------------------------------------------------
(* The submission queue.                                                   *)

OpEntry(o, k) == [kind |-> "op", key |-> k, op |-> o]
CancelEntry(o) == [kind |-> "cancel", key |-> key[o], op |-> o]

(* The kernel takes the entries in order; a cancellation finds what it has *)
(* in flight under that key by then.                                       *)
Hits(i) ==
  {o \in Ops : /\ sq[i].kind = "cancel"
               /\ key[o] = sq[i].key
               /\ \/ where[o] = "kernel"
                  \/ \E j \in 1..(i - 1) : sq[j].kind = "op" /\ sq[j].op = o}

Entered(o) == IF where[o] = "sq" THEN "kernel" ELSE where[o]
CancelledOnEnter == cancelled \cup UNION {Hits(i) : i \in DOMAIN sq}

(* The queue a push finds: a full one is submitted first. *)
Full == Len(sq) = SqCap
SqBase == IF Full THEN <<>> ELSE sq
WhereBase == [o \in Ops |-> IF Full THEN Entered(o) ELSE where[o]]
CancelledBase == IF Full THEN CancelledOnEnter ELSE cancelled

(* io_uring_enter, from submit and from park. *)
Enter ==
  /\ sq # <<>>
  /\ sq' = <<>>
  /\ where' = [o \in Ops |-> Entered(o)]
  /\ cancelled' = CancelledOnEnter
  /\ UNCHANGED <<slots, data, fd, history>>

-----------------------------------------------------------------------------
(* The holder of an Op.                                                    *)

SubmitWithData(o) ==
  /\ life[o] = "none" /\ data[o] = "caller"
  /\ \E k \in Keys :
       /\ slab[k] = NoOp
       /\ slab' = [slab EXCEPT ![k] = o]
       /\ key' = [key EXCEPT ![o] = k]
       /\ sq' = Append(SqBase, OpEntry(o, k))
  /\ where' = [WhereBase EXCEPT ![o] = "sq"]
  /\ cancelled' = CancelledBase
  /\ life' = [life EXCEPT ![o] = "Submitted"]
  /\ data' = [data EXCEPT ![o] = "op"]
  /\ UNCHANGED <<waker, fd, history>>

(* The flush of a full queue fails: the data is dropped, no Op is made.    *)
SubmitFails(o) ==
  /\ EnterFails /\ Full
  /\ life[o] = "none" /\ data[o] = "caller"
  /\ life' = [life EXCEPT ![o] = "gone"]
  /\ data' = [data EXCEPT ![o] = "freed"]
  /\ UNCHANGED <<slab, key, waker, rings, fd, history>>

(* Mutant: the waker of the first poll is kept.                            *)
PollPendingKeepsWaker(o, t) ==
  /\ data[o] = "op" /\ life[o] \in {"Submitted", "Waiting"}
  /\ life' = [life EXCEPT ![o] = "Waiting"]
  /\ waker' = [waker EXCEPT ![o] = IF @ = NoTask THEN t ELSE @]
  /\ poller' = [poller EXCEPT ![o] = t]
  /\ UNCHANGED <<slab, key, rings, data, fd, woken, asked, refused>>

PollPending(o, t) ==
  /\ data[o] = "op" /\ life[o] \in {"Submitted", "Waiting"}
  /\ life' = [life EXCEPT ![o] = "Waiting"]
  /\ waker' = [waker EXCEPT ![o] = t]
  /\ poller' = [poller EXCEPT ![o] = t]
  /\ UNCHANGED <<slab, key, rings, data, fd, woken, asked, refused>>

(* Ref::remove. *)
Vacate(o) ==
  /\ slab' = [slab EXCEPT ![key[o]] = NoOp]
  /\ life' = [life EXCEPT ![o] = "gone"]

(* Nobody waits for the operation any more. *)
Forget(o) ==
  /\ poller' = [poller EXCEPT ![o] = NoTask]
  /\ woken' = [woken EXCEPT ![o] = NoTask]

(* Completed: the slot is freed and data and result go to the caller.      *)
PollReady(o) ==
  /\ data[o] = "op" /\ life[o] = "Completed"
  /\ Vacate(o)
  /\ Forget(o)
  /\ data' = [data EXCEPT ![o] = "caller"]
  /\ fd' = [fd EXCEPT ![o] = IF @ = "open" THEN "owned" ELSE @]
  /\ UNCHANGED <<key, waker, rings, asked, refused>>

(* Push a cancellation of o; if the submit of a full queue fails, so does  *)
(* the second push, and both errors are ignored.                           *)
PushCancel(o) ==
  /\ asked' = asked \cup {o}
  /\ \/ /\ sq' = Append(SqBase, CancelEntry(o))
        /\ where' = WhereBase
        /\ cancelled' = CancelledBase
        /\ UNCHANGED refused
     \/ /\ EnterFails /\ Full
        /\ refused' = refused \cup {o}
        /\ UNCHANGED rings

(* Mutant: the buffers go with the future, before the kernel is done.      *)
DropOpFreesData(o) ==
  /\ data[o] = "op" /\ life[o] \in {"Submitted", "Waiting"}
  /\ life' = [life EXCEPT ![o] = "Ignored"]
  /\ waker' = [waker EXCEPT ![o] = NoTask]
  /\ Forget(o)
  /\ data' = [data EXCEPT ![o] = "freed"]
  /\ PushCancel(o)
  /\ UNCHANGED <<slab, key, fd>>

(* Mutant: nobody tells the kernel.                                        *)
DropOpSilent(o) ==
  /\ data[o] = "op" /\ life[o] \in {"Submitted", "Waiting"}
  /\ life' = [life EXCEPT ![o] = "Ignored"]
  /\ waker' = [waker EXCEPT ![o] = NoTask]
  /\ Forget(o)
  /\ data' = [data EXCEPT ![o] = "box"]
  /\ UNCHANGED <<slab, key, rings, fd, asked, refused>>

(* An unfinished operation is ignored, with its data, and cancelled.       *)
DropOp(o) ==
  /\ data[o] = "op" /\ life[o] \in {"Submitted", "Waiting"}
  /\ life' = [life EXCEPT ![o] = "Ignored"]
  /\ waker' = [waker EXCEPT ![o] = NoTask]
  /\ Forget(o)
  /\ data' = [data EXCEPT ![o] = "box"]
  /\ IF o \in CloseOps
     THEN UNCHANGED <<rings, asked, refused>>
     ELSE PushCancel(o)
  /\ UNCHANGED <<slab, key, fd>>

(* Mutant: the descriptor of a dropped result is forgotten.                *)
DropCompletedLeaks(o) ==
  /\ data[o] = "op" /\ life[o] = "Completed"
  /\ Vacate(o)
  /\ Forget(o)
  /\ data' = [data EXCEPT ![o] = "freed"]
  /\ UNCHANGED <<key, waker, rings, fd, asked, refused>>

(* A completed one is removed, and MaybeFd closes a descriptor.            *)
DropCompleted(o) ==
  /\ data[o] = "op" /\ life[o] = "Completed"
  /\ Vacate(o)
  /\ Forget(o)
  /\ data' = [data EXCEPT ![o] = "freed"]
  /\ fd' = [fd EXCEPT ![o] = IF @ = "open" THEN "closed" ELSE @]
  /\ UNCHANGED <<key, waker, rings, asked, refused>>

(* Canceller::cancel on an operation whose AssociateGuard is alive, which  *)
(* it is until the operation's future is done; the guards are given up, so *)
(* an operation is cancelled once.                                         *)
CancelOp(o) ==
  /\ data[o] = "op" /\ o \notin asked
  /\ PushCancel(o)
  /\ UNCHANGED <<slots, data, fd, poller, woken>>

-----------------------------------------------------------------------------
(* The kernel and the completion queue.                                    *)

KernelComplete(o) ==
  /\ where[o] = "kernel"
  /\ where' = [where EXCEPT ![o] = "cq"]
  /\ \/ o \in FdOps /\ fd' = [fd EXCEPT ![o] = "open"]
     \/ UNCHANGED fd
  /\ UNCHANGED <<slots, sq, cancelled, data, history>>

(* One completion of tick: Ops::complete looks its key up and finds s.     *)
CompleteOp(o) ==
  LET s == slab[key[o]] IN
  /\ where[o] = "cq" /\ s # NoOp
  /\ where' = [where EXCEPT ![o] = "out"]
  /\ \/ /\ life[s] \in {"Submitted", "Waiting"}
        /\ life' = [life EXCEPT ![s] = "Completed"]
        /\ woken' = [woken EXCEPT ![s] = waker[s]]
        /\ waker' = [waker EXCEPT ![s] = NoTask]
        /\ UNCHANGED <<slab, data, fd>>
     \/ /\ life[s] = "Ignored"
        /\ Vacate(s)
        /\ data' = [data EXCEPT ![s] = "freed"]
        /\ fd' = [fd EXCEPT ![o] = IF @ = "open" THEN "closed" ELSE @]
        /\ UNCHANGED <<waker, woken>>
  /\ UNCHANGED <<key, sq, cancelled, poller, asked, refused>>

-----------------------------------------------------------------------------
Next ==
  \/ Enter
  \/ \E o \in Ops :
       \/ SubmitWithData(o) \/ SubmitFails(o) \/ PollReady(o) \/ DropOp(o)
       \/ DropCompleted(o) \/ CancelOp(o) \/ KernelComplete(o)
       \/ CompleteOp(o)
  \/ \E o \in Ops, t \in Tasks : PollPending(o, t)

Spec == Init /\ [][Next]_vars

(* block_on submits and ticks whenever it parks, and the kernel finishes   *)
(* what it was told to cancel and, by itself, a close.                     *)
Fairness ==
  /\ WF_vars(Enter)
  /\ \A o \in Ops : WF_vars(CompleteOp(o))
  /\ \A o \in Ops : WF_vars(o \in cancelled \cup CloseOps /\ KernelComplete(o))

FairSpec == Spec /\ Fairness

-----------------------------------------------------------------------------
InFlight(o) == where[o] \in {"sq", "kernel", "cq"}

(* A completion finds its operation: the slot its key names still belongs  *)
(* to it and has not been completed, so the unchecked unwraps of           *)
(* Ops::complete and Ref::complete are sound.                              *)
CompletionFindsOp ==
  \A o \in Ops : InFlight(o) =>
    slab[key[o]] = o /\ life[o] \in {"Submitted", "Waiting", "Ignored"}

(* Buffers the kernel may still use are held by the Op or by its slot.     *)
BufferPinned == \A o \in Ops : where[o] \in {"sq", "kernel"} => data[o] \in {"op", "box"}

(* A descriptor the kernel returned waits in a completion or in its slot   *)
(* until it is handed to the caller or closed.                             *)
NoFdLeak ==
  \A o \in Ops : fd[o] = "open" =>
    where[o] = "cq" \/ (slab[key[o]] = o /\ life[o] = "Completed")

(* A cancellation never hits another operation that was given the key of   *)
(* the one it was meant for.                                               *)
CancelHitsTarget == cancelled \subseteq asked

(* What the kernel works on is what its operation owns: slot, buffers and  *)
(* the target of a cancellation are told apart although keys are reused    *)
(* and futures are dropped at any time.                                    *)
InFlightSound == TypeOK /\ CompletionFindsOp /\ BufferPinned /\ CancelHitsTarget

(* The task that was last told Pending is the one completion wakes.        *)
LastPollerWoken ==
  \A o \in Ops : life[o] = "Completed" /\ poller[o] # NoTask => woken[o] = poller[o]

(* The slot of a dropped operation is reclaimed, unless its cancellation   *)
(* could not be queued.                                                    *)
SlotReclaimed ==
  \A o \in Ops : (life[o] = "Ignored") ~> (life[o] = "gone" \/ o \in refused)
=============================================================================
