------------------------------ MODULE LegacyIo ------------------------------
(***************************************************************************)
(* Readiness-based operations: the ScheduledIo of driver/scheduled_io.rs,  *)
(* poll_op, dispatch and cancel_op of driver/legacy/mod.rs, over the       *)
(* descriptors of SharedFd.                                                *)
(*                                                                         *)
(* The poller is edge-triggered: it reports data once, when they arrive.   *)
(* A bit of readiness remembers the report until a system call would       *)
(* block.  Operations of one direction of a file follow one another.       *)
(***************************************************************************)
EXTENDS SharedFd

CONSTANTS
  Dirs,   \* Direction
  dirOf,  \* the direction of an operation
  Busy,   \* bound: the files with traffic
  NoOp    \* no waker

ASSUME LegacyAssumption ==
  /\ dirOf \in [Ops -> Dirs]
  /\ Busy \subseteq Files
  /\ NoOp \notin Ops

VARIABLES
  avail,     \* directions in which a system call on the file would not block
  edge,      \* directions the poller will report
  ready,     \* ScheduledIo::readiness: pairs <<direction, "ok" or "canceled">>
  waker,     \* ScheduledIo::reader and writer
  told,      \* operations told Pending and not woken since
  asked      \* operations whose cancellation was asked for

io == <<avail, edge, ready, waker, told, asked>>
ioVars == <<fdVars, io>>

Bits == Dirs \X {"ok", "canceled"}
Mask(d) == {<<d, "ok">>, <<d, "canceled">>}

(* The type invariant. *)
TypeOK ==
  /\ FdTypeOK
  /\ avail \in [Files -> SUBSET Dirs]
  /\ edge \in [Files -> SUBSET Dirs]
  /\ ready \in [Files -> SUBSET Bits]
  /\ waker \in [Files -> [Dirs -> Ops \cup {NoOp}]]
  /\ told \subseteq Ops
  /\ asked \subseteq Ops

Init ==
  /\ FdInit
  /\ avail = [f \in Files |-> {}]
  /\ edge = [f \in Files |-> {}]
  /\ ready = [f \in Files |-> {}]
  /\ waker = [f \in Files |-> [d \in Dirs |-> NoOp]]
  /\ told = {}
  /\ asked = {}

-----------------------------------------------------------------------------
Waiting(o) == opAt[o] = "wait"

NoWakers == [d \in Dirs |-> NoOp]

(* The ScheduledIo of a file goes with its registration.                   *)
WhileRegistered(fn, empty) == [f \in Files |-> IF f \in reg' THEN fn[f] ELSE empty]

(* The operation is over, and maybe its file with it.                      *)
OpEnds(o) ==
  /\ EndOp(o)
  /\ edge' = WhileRegistered(edge, {})
  /\ waker' = WhileRegistered(waker, NoWakers)
  /\ told' = told \ {o}
  /\ asked' = asked \ {o}

NewOp(f, o) ==
  /\ f \in Busy \/ ~legacy
  /\ \A p \in OpsOn(f) : dirOf[p] # dirOf[o]
  /\ StartOp(f, o)
  /\ UNCHANGED io

(* set_waker, and Pending. *)
Suspend(f, o) ==
  /\ waker' = [waker EXCEPT ![f][dirOf[o]] = o]
  /\ told' = told \cup {o}
  /\ UNCHANGED <<fdVars, avail>>

(* poll_op: nothing is known to be ready ...                               *)
PollNotReady(o) ==
  LET f == opOf[o] IN
  /\ Waiting(o) /\ o \notin told
  /\ ready[f] \cap Mask(dirOf[o]) = {}
  /\ Suspend(f, o)
  /\ UNCHANGED <<edge, ready, asked>>

(* ... or the operation was cancelled ...                                  *)
PollCanceled(o) ==
  LET f == opOf[o] IN
  /\ Waiting(o) /\ o \notin told
  /\ <<dirOf[o], "canceled">> \in ready[f]
  /\ OpEnds(o)
  /\ ready' = WhileRegistered([ready EXCEPT ![f] = @ \ {<<dirOf[o], "canceled">>}], {})
  /\ avail' = WhileRegistered(avail, {})

SeemsReady(o) ==
  /\ Waiting(o) /\ o \notin told
  /\ ready[opOf[o]] \cap Mask(dirOf[o]) = {<<dirOf[o], "ok">>}

(* Mutant: a call that succeeds uses the readiness up.                     *)
PollSucceedsAndClears(o) ==
  LET f == opOf[o] IN
  /\ SeemsReady(o) /\ dirOf[o] \in avail[f]
  /\ OpEnds(o)
  /\ ready' = WhileRegistered([ready EXCEPT ![f] = @ \ Mask(dirOf[o])], {})
  /\ \E rest \in {{}, {dirOf[o]}} :
       avail' = WhileRegistered([avail EXCEPT ![f] = (@ \ {dirOf[o]}) \cup rest], {})

(* ... or the system call returns, and may leave more to be had ...        *)
PollSucceeds(o) ==
  LET f == opOf[o] IN
  /\ SeemsReady(o) /\ dirOf[o] \in avail[f]
  /\ OpEnds(o)
  /\ ready' = WhileRegistered(ready, {})
  /\ \E rest \in {{}, {dirOf[o]}} :
       avail' = WhileRegistered([avail EXCEPT ![f] = (@ \ {dirOf[o]}) \cup rest], {})

(* ... or it would block: the readiness is cleared.                        *)
PollWouldBlock(o) ==
  LET f == opOf[o] IN
  /\ SeemsReady(o) /\ dirOf[o] \notin avail[f]
  /\ ready' = [ready EXCEPT ![f] = @ \ Mask(dirOf[o])]
  /\ Suspend(f, o)
  /\ UNCHANGED <<edge, asked>>

(* The future is dropped: with the legacy driver nothing else happens.     *)
DropOp(o) ==
  /\ Waiting(o)
  /\ OpEnds(o)
  /\ ready' = WhileRegistered(ready, {})
  /\ avail' = WhileRegistered(avail, {})

(* ScheduledIo::wake takes the wakers of some directions. *)
WakeDirs(f, ds) ==
  /\ told' = told \ {waker[f][d] : d \in ds}
  /\ waker' = [waker EXCEPT ![f] = [d \in Dirs |-> IF d \in ds THEN NoOp ELSE @[d]]]

(* An event of the poller is dispatched.                                   *)
Dispatch(f) ==
  /\ edge[f] # {} /\ f \in reg
  /\ edge' = [edge EXCEPT ![f] = {}]
  /\ ready' = [ready EXCEPT ![f] = @ \cup {<<d, "ok">> : d \in edge[f]}]
  /\ WakeDirs(f, edge[f])
  /\ UNCHANGED <<fdVars, avail, asked>>

(* Mutant: a cancellation leaves its mark and wakes nobody.                *)
CancelOpQuiet(o) ==
  /\ Waiting(o) /\ o \notin asked
  /\ asked' = asked \cup {o}
  /\ ready' = [ready EXCEPT ![opOf[o]] = @ \cup {<<dirOf[o], "canceled">>}]
  /\ UNCHANGED <<fdVars, avail, edge, waker, told>>

(* cancel_op dispatches a CANCELED bit.                                    *)
CancelOp(o) ==
  /\ Waiting(o) /\ o \notin asked
  /\ asked' = asked \cup {o}
  /\ ready' = [ready EXCEPT ![opOf[o]] = @ \cup {<<dirOf[o], "canceled">>}]
  /\ WakeDirs(opOf[o], {dirOf[o]})
  /\ UNCHANGED <<fdVars, avail, edge>>

(* The peer: data, or room for data, arrive.                               *)
Arrive(f, d) ==
  /\ st[f] = "Legacy" /\ f \in Busy
  /\ avail' = [avail EXCEPT ![f] = @ \cup {d}]
  /\ edge' = [edge EXCEPT ![f] = @ \cup {d}]
  /\ UNCHANGED <<fdVars, ready, waker, told, asked>>

(* Descriptors and the uring driver's operations, as in SharedFd.          *)
Descriptors ==
  /\ \/ \E f \in Files :
          \/ Open(f) \/ Clone(f) \/ DropHandle(f) \/ Close(f) \/ CloseFails(f) \/ KernelCloses(f)
          \/ CloseReturns(f) \/ DropClose(f) \/ TryUnwrap(f) \/ RawClose(f)
          \/ CvtPoll(f) \/ CvtComp(f)
     \/ \E o \in Ops : KernelTakes(o) \/ (~Waiting(o) /\ EndOp(o))
  /\ avail' = WhileRegistered(avail, {})
  /\ edge' = WhileRegistered(edge, {})
  /\ ready' = WhileRegistered(ready, {})
  /\ waker' = WhileRegistered(waker, NoWakers)
  /\ UNCHANGED <<told, asked>>

OpStep(o) == PollNotReady(o) \/ PollCanceled(o) \/ PollSucceeds(o) \/ PollWouldBlock(o)

Next ==
  \/ Descriptors
  \/ \E o \in Ops : OpStep(o) \/ DropOp(o) \/ CancelOp(o)
  \/ \E f \in Files, o \in Ops : NewOp(f, o)
  \/ \E f \in Files : Dispatch(f)
  \/ \E f \in Files, d \in Dirs : Arrive(f, d)

Spec == Init /\ [][Next /\ UNCHANGED legacy]_<<ioVars, legacy>>

(* Tasks that were woken poll again, and the driver polls the poller.      *)
FairSpec ==
  /\ Spec
  /\ \A o \in Ops : WF_ioVars(OpStep(o))
  /\ \A f \in Files : WF_ioVars(Dispatch(f))

-----------------------------------------------------------------------------
(* No readiness is lost.  What the poller has reported stays known until   *)
(* it is used up, so that the next operation need not wait for a report    *)
(* that is not going to come; and an operation that was told Pending while *)
(* a system call would not block is going to be woken by the poller.       *)
NoLostReadiness ==
  /\ TypeOK
  /\ \A f \in Files : st[f] = "Legacy" =>
       \A d \in avail[f] : d \in edge[f] \/ <<d, "ok">> \in ready[f]
  /\ \A o \in Ops : Waiting(o) /\ o \in told /\ dirOf[o] \in avail[opOf[o]]
                      => /\ dirOf[o] \in edge[opOf[o]]
                         /\ waker[opOf[o]][dirOf[o]] = o

(* An operation that is cancelled ends.                                    *)
CancelEnds == \A o \in Ops : (Waiting(o) /\ o \in asked) ~> ~(Waiting(o) /\ o \in asked)
=============================================================================
