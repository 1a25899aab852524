-------------------------------- MODULE Park --------------------------------
(***************************************************************************)
(* How a driver thread goes to sleep and is woken from other threads:      *)
(* inner_park of driver/uring/mod.rs and of driver/legacy/mod.rs, the      *)
(* EventWaker with its awake flag, the foreign-waker channel, and the      *)
(* submission queue the uring driver must find room in for the read of its *)
(* eventfd.                                                                *)
(*                                                                         *)
(* A remote sends a waker and then unparks the thread (Context::send_waker *)
(* and unpark_thread).  The channel's lock orders the driver's store to    *)
(* awake before its second drain, and a send before the load of awake, so  *)
(* the accesses are modelled as sequentially consistent.                   *)
(***************************************************************************)
EXTENDS Naturals

CONSTANTS
  Senders,    \* threads that wake tasks of this one
  Cap,        \* capacity of the submission queue
  MaxSends    \* bound on the wakers sent

ASSUME ParkAssumption ==
  /\ Cap \in Nat /\ Cap >= 2
  /\ MaxSends \in Nat

VARIABLES
  legacy,     \* which driver FusionDriver holds: the epoll or the uring one
  pc,         \* where the driver is in inner_park
  needWait,   \* need_wait
  timeout,    \* the timeout of this park: "none", "some" or "zero"
  awake,      \* shared_waker.awake
  chan,       \* foreign wakers in the channel
  sent,       \* foreign wakers sent so far
  ready,      \* a task is in the run queue
  sq,         \* entries in the submission queue
  op,         \* where operations of the tasks are: "sq", "kernel"
  opDone,     \* one has completed, and its completion has not been processed
  installed,  \* eventfd_installed
  eread,      \* the read of the eventfd: "no", "sq" or "kernel"
  evfd,       \* the eventfd, or the mio waker, is signalled
  cqe,        \* the completion of that read is in the completion queue
  spc         \* where each sender is

control == <<pc, needWait, timeout>>
ring == <<sq, op, opDone, installed, eread, evfd, cqe>>
vars == <<control, awake, chan, sent, ready, ring, spc>>

(* The type invariant. *)
TypeOK ==
  /\ legacy \in BOOLEAN
  /\ pc \in {"run", "drain", "store", "drainLeft", "flush", "install", "enter",
             "sleep", "awake", "tick"}
  /\ needWait \in BOOLEAN
  /\ timeout \in {"none", "some", "zero"}
  /\ awake \in BOOLEAN
  /\ chan \in 0..MaxSends
  /\ sent \in 0..MaxSends
  /\ ready \in BOOLEAN
  /\ sq \in 0..Cap
  /\ op \subseteq {"sq", "kernel"}
  /\ opDone \in BOOLEAN
  /\ installed \in BOOLEAN
  /\ eread \in {"no", "sq", "kernel"}
  /\ evfd \in BOOLEAN
  /\ cqe \in BOOLEAN
  /\ spc \in [Senders -> {"idle", "sent", "write"}]

Init ==
  /\ legacy \in BOOLEAN
  /\ pc = "run"
  /\ needWait = FALSE
  /\ timeout = "none"
  /\ awake = TRUE
  /\ chan = 0
  /\ sent = 0
  /\ ready = TRUE
  /\ sq = 0
  /\ op = {}
  /\ opDone = FALSE
  /\ installed = FALSE
  /\ eread = "no"
  /\ evfd = FALSE
  /\ cqe = FALSE
  /\ spc = [s \in Senders |-> "idle"]

-----------------------------------------------------------------------------
(* The rings.                                                              *)

(* Everything queued goes to the kernel. *)
EnterKernel ==
  /\ sq' = 0
  /\ op' = IF "sq" \in op THEN {"kernel"} ELSE op
  /\ eread' = IF eread = "sq" THEN "kernel" ELSE eread

(* UringInner::tick drains the completion queue: the eventfd must be       *)
(* installed again, an operation wakes its task.                           *)
TickCQ ==
  /\ installed' = (installed /\ ~cqe)
  /\ cqe' = FALSE
  /\ ready' = (ready \/ opDone)
  /\ opDone' = FALSE

-----------------------------------------------------------------------------
(* The driver thread.                                                      *)

(* A running task starts an operation; submit_with_data submits a full     *)
(* submission queue first.  The legacy driver only waits for readiness.    *)
PushOp ==
  /\ pc = "run" /\ ready
  /\ IF legacy
     THEN op' = {"kernel"} /\ UNCHANGED <<sq, eread>>
     ELSE /\ sq' = IF sq = Cap THEN 1 ELSE sq + 1
          /\ op' = {"sq"} \cup IF sq = Cap \/ "kernel" \in op THEN {"kernel"} ELSE {}
          /\ eread' = IF sq = Cap /\ eread = "sq" THEN "kernel" ELSE eread
  /\ UNCHANGED <<control, awake, chan, sent, ready, opDone, installed, evfd, cqe, spc>>

(* The run queue empties.                                                  *)
RunTasks ==
  /\ pc = "run" /\ ready
  /\ ready' = FALSE
  /\ UNCHANGED <<control, awake, chan, sent, ring, spc>>

(* With no task to run block_on parks, without a timeout or with that of   *)
(* the next timer.                                                         *)
Park ==
  /\ pc = "run" /\ ~ready
  /\ pc' = "drain"
  /\ needWait' = TRUE
  /\ timeout' \in {"none", "some"}
  /\ UNCHANGED <<awake, chan, sent, ready, ring, spc>>

(* Driver::submit, between rounds of a busy run queue.  The uring driver   *)
(* submits and ticks; the legacy driver parks with a zero timeout.         *)
Submit ==
  /\ ~legacy /\ pc = "run" /\ ready
  /\ EnterKernel
  /\ TickCQ
  /\ UNCHANGED <<control, awake, chan, sent, evfd, spc>>

LegacySubmit ==
  /\ legacy /\ pc = "run" /\ ready
  /\ pc' = "drain"
  /\ needWait' = TRUE
  /\ timeout' = "zero"
  /\ UNCHANGED <<awake, chan, sent, ready, ring, spc>>

(* One try_recv of either drain loop: wake the task, or go on to next.     *)
Drain(at, next) ==
  /\ pc = at
  /\ \/ /\ chan > 0
        /\ chan' = chan - 1
        /\ ready' = TRUE
        /\ needWait' = FALSE
        /\ UNCHANGED pc
     \/ /\ chan = 0
        /\ pc' = next
        /\ UNCHANGED <<chan, ready, needWait>>
  /\ UNCHANGED <<timeout, awake, sent, ring, spc>>

DrainFirst == Drain("drain", "store")

(* Mutant: the flag keeps saying that the thread is awake.                 *)
StoreAwakeNever ==
  /\ pc = "store"
  /\ pc' = "drainLeft"
  /\ UNCHANGED <<needWait, timeout, awake, chan, sent, ready, ring, spc>>

StoreAwake ==
  /\ pc = "store"
  /\ awake' = (awake /\ ~needWait)
  /\ pc' = "drainLeft"
  /\ UNCHANGED <<needWait, timeout, chan, sent, ready, ring, spc>>

(* Mutant: the wakers that arrived before the store are not looked for.    *)
DrainLeftSkipped ==
  /\ pc = "drainLeft"
  /\ pc' = "flush"
  /\ UNCHANGED <<needWait, timeout, awake, chan, sent, ready, ring, spc>>

DrainLeft == Drain("drainLeft", "flush")

(* Entries to be pushed before a wait. *)
Space == (IF installed THEN 0 ELSE 1) + (IF timeout = "none" THEN 0 ELSE 1)

(* flush_space: submit what is queued when the entries do not fit.         *)
MustFlush == needWait /\ Space > 0 /\ sq + Space > Cap

(* When the submit fails, inner_park returns at once, with awake still     *)
(* FALSE.                                                                  *)
FlushSpace ==
  /\ ~legacy /\ pc = "flush"
  /\ \/ /\ ~MustFlush
        /\ pc' = "install"
        /\ UNCHANGED <<ring, ready>>
     \/ /\ MustFlush
        /\ pc' = "install"
        /\ EnterKernel
        /\ UNCHANGED <<opDone, installed, evfd, cqe, ready>>
     \/ /\ MustFlush
        /\ pc' = "run"
        /\ UNCHANGED <<ring, ready>>
  /\ UNCHANGED <<needWait, timeout, awake, chan, sent, spc>>

(* While the kernel answers EAGAIN or EBUSY, UringInner::submit ticks the  *)
(* completion queue and tries again.                                       *)
BusyFlush ==
  /\ ~legacy /\ pc = "flush" /\ MustFlush
  /\ pc' = "install"
  /\ EnterKernel
  /\ TickCQ
  /\ UNCHANGED <<needWait, timeout, awake, chan, sent, evfd, spc>>

(* install_eventfd ignores a full queue and sets its flag all the same;    *)
(* install_timeout ignores it too.                                         *)
Install ==
  /\ ~legacy /\ pc = "install"
  /\ pc' = "enter"
  /\ IF needWait
     THEN /\ sq' = IF sq + Space > Cap THEN Cap ELSE sq + Space
          /\ eread' = IF ~installed /\ sq < Cap THEN "sq" ELSE eread
          /\ installed' = TRUE
     ELSE UNCHANGED <<sq, eread, installed>>
  /\ UNCHANGED <<needWait, timeout, awake, chan, sent, ready, op, opDone, evfd, cqe, spc>>

(* submit_and_wait, or submit.                                             *)
Enter ==
  /\ ~legacy /\ pc = "enter"
  /\ EnterKernel
  /\ pc' = IF needWait THEN "sleep" ELSE "awake"
  /\ UNCHANGED <<needWait, timeout, awake, chan, sent, ready, opDone, installed,
                 evfd, cqe, spc>>

(* It fails: inner_park returns and leaves the queue as it is.             *)
EnterFails ==
  /\ ~legacy /\ pc = "enter"
  /\ pc' = "run"
  /\ UNCHANGED <<needWait, timeout, awake, chan, sent, ready, ring, spc>>

(* The events a poll of the legacy driver returns are dispatched, all but  *)
(* the waker's own.                                                        *)
DispatchEvents ==
  /\ pc' = "run"
  /\ evfd' = FALSE
  /\ ready' = (ready \/ opDone)
  /\ opDone' = FALSE

(* It polls with a zero timeout unless need_wait.                          *)
MioPoll ==
  /\ legacy /\ pc = "flush"
  /\ IF needWait /\ timeout # "zero"
     THEN pc' = "sleep" /\ UNCHANGED <<evfd, ready, opDone>>
     ELSE DispatchEvents
  /\ UNCHANGED <<needWait, timeout, awake, chan, sent, sq, op, installed, eread, cqe, spc>>

(* The kernel: the read of the eventfd completes once it is signalled ...  *)
EventfdRead ==
  /\ eread = "kernel" /\ evfd
  /\ evfd' = FALSE
  /\ eread' = "no"
  /\ cqe' = TRUE
  /\ UNCHANGED <<control, awake, chan, sent, ready, sq, op, opDone, installed, spc>>

(* ... and an operation completes, or not.                                 *)
OpCompletes ==
  /\ "kernel" \in op /\ ~opDone
  /\ opDone' = TRUE
  /\ op' \in {op, op \ {"kernel"}}
  /\ UNCHANGED <<control, awake, chan, sent, ready, sq, installed, eread, evfd, cqe, spc>>

(* The wait ends with an event or with the timeout ...                     *)
WakeUp ==
  /\ ~legacy /\ pc = "sleep"
  /\ cqe \/ opDone \/ timeout = "some"
  /\ pc' = "awake"
  /\ UNCHANGED <<needWait, timeout, awake, chan, sent, ready, ring, spc>>

MioWakeUp ==
  /\ legacy /\ pc = "sleep"
  /\ evfd \/ opDone \/ timeout = "some"
  /\ DispatchEvents
  /\ UNCHANGED <<needWait, timeout, awake, chan, sent, sq, op, installed, eread, cqe, spc>>

(* ... or with the Timeout entry of an earlier park ...                    *)
StaleTimeout ==
  /\ ~legacy /\ pc = "sleep"
  /\ pc' = "awake"
  /\ UNCHANGED <<needWait, timeout, awake, chan, sent, ready, ring, spc>>

(* ... or it fails, and inner_park returns without a look at its events.   *)
WaitFails ==
  /\ pc = "sleep"
  /\ pc' = "run"
  /\ UNCHANGED <<needWait, timeout, awake, chan, sent, ready, ring, spc>>

SetAwake ==
  /\ pc = "awake"
  /\ awake' = TRUE
  /\ pc' = "tick"
  /\ UNCHANGED <<needWait, timeout, chan, sent, ready, ring, spc>>

(* Process CQ.                                                             *)
Tick ==
  /\ pc = "tick"
  /\ pc' = "run"
  /\ TickCQ
  /\ UNCHANGED <<needWait, timeout, awake, chan, sent, sq, op, eread, evfd, spc>>

-----------------------------------------------------------------------------
(* A sender: send_waker, then unpark_thread, whose EventWaker::wake skips  *)
(* the write when it loads awake as TRUE.                                  *)

SGoto(s, p) == spc' = [spc EXCEPT ![s] = p]

Send(s) ==
  /\ spc[s] = "idle" /\ sent < MaxSends
  /\ chan' = chan + 1
  /\ sent' = sent + 1
  /\ SGoto(s, "sent")
  /\ UNCHANGED <<control, awake, ready, ring>>

LoadAwake(s) ==
  /\ spc[s] = "sent"
  /\ SGoto(s, IF awake THEN "idle" ELSE "write")
  /\ UNCHANGED <<control, awake, chan, sent, ready, ring>>

WriteEventfd(s) ==
  /\ spc[s] = "write"
  /\ evfd' = TRUE
  /\ SGoto(s, "idle")
  /\ UNCHANGED <<control, awake, chan, sent, ready, sq, op, opDone, installed, eread, cqe>>

DriverStep ==
  \/ PushOp \/ RunTasks \/ Park \/ Submit \/ LegacySubmit \/ DrainFirst \/ StoreAwake
  \/ DrainLeft \/ FlushSpace \/ Install \/ Enter \/ EnterFails \/ MioPoll \/ WakeUp \/ MioWakeUp
  \/ StaleTimeout \/ WaitFails \/ SetAwake \/ Tick

KernelStep == EventfdRead \/ OpCompletes

Next ==
  \/ DriverStep
  \/ KernelStep
  \/ \E s \in Senders : Send(s) \/ LoadAwake(s) \/ WriteEventfd(s)

Spec == Init /\ [][Next /\ UNCHANGED legacy]_<<vars, legacy>>

(* The same, with a kernel that is busy for a while.                       *)
BusySpec == Init /\ [][(Next \/ BusyFlush) /\ UNCHANGED legacy]_<<vars, legacy>>

(* The kernel completes a read that is ready, threads run on, and the run  *)
(* queue empties.  A wait need not end unless there is an event for it.    *)
Fairness ==
  /\ WF_vars(RunTasks) /\ WF_vars(Park) /\ WF_vars(DrainFirst) /\ WF_vars(StoreAwake)
  /\ WF_vars(DrainLeft) /\ WF_vars(FlushSpace) /\ WF_vars(Install) /\ WF_vars(Enter)
  /\ WF_vars(MioPoll) /\ WF_vars(EventfdRead) /\ WF_vars(WakeUp) /\ WF_vars(MioWakeUp)
  /\ WF_vars(SetAwake) /\ WF_vars(Tick)
  /\ \A s \in Senders : WF_vars(LoadAwake(s)) /\ WF_vars(WriteEventfd(s))

FairSpec == Spec /\ Fairness

-----------------------------------------------------------------------------
(* A sender's signal has reached the driver, or will. *)
WakeUnderWay ==
  \/ cqe
  \/ evfd /\ (legacy \/ eread = "kernel")
  \/ \E s \in Senders : spc[s] = "write" \/ (spc[s] = "sent" /\ ~awake)

(* The thread never sleeps on a waker: whenever it waits in the kernel and *)
(* the channel is not empty, the event that ends the wait is signalled or  *)
(* a sender is about to signal it.  "Unblocks a thread that is blocked by  *)
(* the associated Park handle", says driver/mod.rs of unpark.              *)
NoLostUnpark == pc = "sleep" /\ chan > 0 => WakeUnderWay

(* The thread never waits while a task is in its run queue: what block_on  *)
(* says when it parks ("No task to execute, we should wait for io").       *)
NoSleepOnReady == pc = "sleep" => ~ready

(* Both: inner_park sleeps only if nothing is left for it to do, and then  *)
(* whoever gives it something to do ends the sleep.                        *)
SleepsSafely == TypeOK /\ NoLostUnpark /\ NoSleepOnReady

(* Once the wakers are sent, they are all received.                        *)
AllReceived == <>[](chan = 0)
=============================================================================
