-------------------------------- MODULE Task --------------------------------
(***************************************************************************)
(* One task cell of the monoio runtime (task/state.rs, task/harness.rs,    *)
(* task/core.rs, task/join.rs, task/waker.rs) as its owner thread, the     *)
(* holder of its JoinHandle and the remote holders of its wakers see it.   *)
(*                                                                         *)
(* Every atomic operation on the state word is one step.  Steps that only  *)
(* touch what one thread owns (the run queue, the future) are merged with  *)
(* the atomic operation next to them; so are a ref_inc and a ref_dec that  *)
(* the same thread makes right after an operation on the state word that   *)
(* left a reference of its own in place.                                   *)
(*                                                                         *)
(* The state word is kept as its fields: the lifecycle bits RUNNING and    *)
(* COMPLETE in life, the flags NOTIFIED, JOIN_INTEREST and JOIN_WAKER, and *)
(* the reference count in refs.                                            *)
(***************************************************************************)
EXTENDS Naturals, FiniteSets

CONSTANTS
  Remotes,      \* slots for a waker of this task held by another thread
  JoinWakers,   \* wakers the JoinHandle is polled with
  MaxChan,      \* bound on foreign wakers under way to the owner
  MaxLocal      \* bound on wakers of this task held on the owner thread

NoWaker == "none"

ASSUME TaskAssumption ==
  /\ IsFiniteSet(Remotes)
  /\ NoWaker \notin JoinWakers
  /\ MaxChan \in Nat
  /\ MaxLocal \in Nat

VARIABLES
  life, notified, joinInterest, joinWaker, refs,  \* the state word
  stage,      \* core.stage
  trailer,    \* trailer.waker
  alloc,      \* the cell is allocated
  queue,      \* handles of this task in the owner's run queue
  chan,       \* its wakers in the owner's foreign-waker channel
  local,      \* its wakers held on the owner thread
  opc,        \* where the owner is in Task::run
  alive,      \* the owner's runtime has not been dropped
  rpc,        \* where each remote waker is
  jpc, jw,    \* where the JoinHandle is, and the waker it is polled with
  registered, \* the waker of the last poll that returned Pending
  joinWoken,  \* that waker was woken since
  woken       \* a wake was requested since the last poll began

state == <<life, notified, joinInterest, joinWaker, refs>>
cell == <<stage, trailer>>
owner == <<queue, chan, local, opc, alive>>
join == <<jpc, jw, registered, joinWoken>>
vars == <<state, cell, alloc, owner, rpc, join, woken>>

OwnerPCs == {"idle", "polling", "requeue", "complete", "dropOutput",
             "wakeJoin", "dropTask"}
RemotePCs == {"none", "hold", "drop", "sendVal", "incRef", "sendRef", "undoRef"}
JoinPCs == {"held", "unset", "store", "cas", "clear", "take", "ready",
            "dropSlow", "dropOutput", "dropRef", "gone"}

(* The type invariant. *)
TypeOK ==
  /\ life \in {"idle", "running", "complete"}
  /\ notified \in BOOLEAN
  /\ joinInterest \in BOOLEAN
  /\ joinWaker \in BOOLEAN
  /\ refs \in Nat
  /\ stage \in {"Running", "Finished", "Consumed"}
  /\ trailer \in JoinWakers \union {NoWaker}
  /\ alloc \in BOOLEAN
  /\ queue \in Nat
  /\ chan \in Nat
  /\ local \in Nat
  /\ opc \in OwnerPCs
  /\ alive \in BOOLEAN
  /\ rpc \in [Remotes -> RemotePCs]
  /\ jpc \in JoinPCs
  /\ jw \in JoinWakers \union {NoWaker}
  /\ registered \in JoinWakers \union {NoWaker}
  /\ joinWoken \in BOOLEAN
  /\ woken \in BOOLEAN

(* INITIAL_STATE: two references, JOIN_INTEREST, NOTIFIED.  spawn pushes   *)
(* the Task handle into the run queue and returns the JoinHandle.          *)
Init ==
  /\ life = "idle"
  /\ notified = TRUE
  /\ joinInterest = TRUE
  /\ joinWaker = FALSE
  /\ refs = 2
  /\ stage = "Running"
  /\ trailer = NoWaker
  /\ alloc = TRUE
  /\ queue = 1
  /\ chan = 0
  /\ local = 0
  /\ opc = "idle"
  /\ alive = TRUE
  /\ rpc = [r \in Remotes |-> "none"]
  /\ jpc = "held"
  /\ jw = NoWaker
  /\ registered = NoWaker
  /\ joinWoken = FALSE
  /\ woken = TRUE

-----------------------------------------------------------------------------
(* Reference counting.                                                     *)

RefInc == refs' = refs + 1

(* drop_reference: the decrement that finds the count at one deallocates   *)
(* the cell, dropping whatever the stage still holds.                      *)
DropReference ==
  /\ refs' = refs - 1
  /\ IF refs = 1 THEN alloc' = FALSE ELSE UNCHANGED alloc

-----------------------------------------------------------------------------
(* Owner thread: running the task.                                         *)

(* Task::run on a popped handle: transition_to_running clears NOTIFIED so  *)
(* that a wake during the poll can be told from one before it.             *)
TransitionToRunning ==
  /\ alive /\ opc = "idle" /\ queue > 0
  /\ queue' = queue - 1
  /\ life' = "running"
  /\ notified' = FALSE
  /\ opc' = "polling"
  /\ woken' = FALSE
  /\ UNCHANGED <<joinInterest, joinWaker, refs, cell, alloc, chan,
                 local, alive, rpc, join>>

(* Mutant: the notification that arrived during the poll is ignored.       *)
TransitionToIdleForgets ==
  /\ opc = "polling"
  /\ life' = "idle"
  /\ opc' = "dropTask"
  /\ UNCHANGED <<notified, joinInterest, joinWaker, refs, cell, alloc,
                 queue, chan, local, alive, rpc, join, woken>>

(* The future returns Pending: transition_to_idle, which reports a         *)
(* notification that arrived while it ran.                                 *)
TransitionToIdle ==
  /\ opc = "polling"
  /\ life' = "idle"
  /\ opc' = IF notified THEN "requeue" ELSE "dropTask"
  /\ UNCHANGED <<notified, joinInterest, joinWaker, refs, cell, alloc,
                 queue, chan, local, alive, rpc, join, woken>>

(* Mutant: the requeued handle is not counted.                             *)
YieldNowUncounted ==
  /\ opc = "requeue"
  /\ queue' = queue + 1
  /\ opc' = "dropTask"
  /\ UNCHANGED <<state, cell, alloc, chan, local, alive, rpc, join, woken>>

(* PollFuture::Notified: ref_inc for a new handle, then yield_now.         *)
YieldNow ==
  /\ opc = "requeue"
  /\ RefInc
  /\ queue' = queue + 1
  /\ opc' = "dropTask"
  /\ UNCHANGED <<life, notified, joinInterest, joinWaker, cell, alloc,
                 chan, local, alive, rpc, join, woken>>

(* The future returns Ready: it is dropped and its output stored.          *)
PollReady ==
  /\ opc = "polling"
  /\ stage' = "Finished"
  /\ opc' = "complete"
  /\ UNCHANGED <<state, trailer, alloc, queue, chan, local, alive, rpc,
                 join, woken>>

(* Mutant: the output nobody will read is left in the cell.                *)
CompleteKeepsOutput ==
  /\ opc = "complete"
  /\ life' = "complete"
  /\ opc' = IF joinInterest /\ joinWaker THEN "wakeJoin" ELSE "dropTask"
  /\ UNCHANGED <<notified, joinInterest, joinWaker, refs, cell, alloc,
                 queue, chan, local, alive, rpc, join, woken>>

(* transition_to_complete, and the choice made on its snapshot.            *)
Complete ==
  /\ opc = "complete"
  /\ life' = "complete"
  /\ opc' = IF ~joinInterest THEN "dropOutput"
            ELSE IF joinWaker THEN "wakeJoin" ELSE "dropTask"
  /\ UNCHANGED <<notified, joinInterest, joinWaker, refs, cell, alloc,
                 queue, chan, local, alive, rpc, join, woken>>

DropOutput ==
  /\ opc = "dropOutput"
  /\ stage' = "Consumed"
  /\ opc' = "dropTask"
  /\ UNCHANGED <<state, trailer, alloc, queue, chan, local, alive, rpc,
                 join, woken>>

(* Trailer::wake_join wakes the waker the trailer holds.                   *)
WakeJoin ==
  /\ opc = "wakeJoin"
  /\ joinWoken' = (joinWoken \/ (registered # NoWaker /\ trailer = registered))
  /\ opc' = "dropTask"
  /\ UNCHANGED <<state, cell, alloc, queue, chan, local, alive, rpc,
                 jpc, jw, registered, woken>>

(* Task::run consumed the handle: Drop for Task gives its reference back.  *)
DropTask ==
  /\ opc = "dropTask"
  /\ DropReference
  /\ opc' = "idle"
  /\ UNCHANGED <<life, notified, joinInterest, joinWaker, cell, queue, chan,
                 local, alive, rpc, join, woken>>

(* poll_future does not catch a panic of the future: it unwinds through    *)
(* Task::run, which drops the handle, and out of block_on.  The state word *)
(* keeps RUNNING.                                                          *)
PollPanic ==
  /\ opc = "polling"
  /\ DropReference
  /\ opc' = "idle"
  /\ UNCHANGED <<life, notified, joinInterest, joinWaker, cell, queue, chan,
                 local, alive, rpc, join, woken>>

-----------------------------------------------------------------------------
(* Owner thread: wakers of this task held there.  The future clones them   *)
(* from its context while it is polled; the driver, a timer or another     *)
(* task uses them between polls.                                           *)

OwnerActive == alive /\ opc \in {"idle", "polling"}

(* clone_waker during a poll, the clone kept on the owner thread ...       *)
CloneLocal ==
  /\ alive /\ opc = "polling" /\ local < MaxLocal
  /\ RefInc
  /\ local' = local + 1
  /\ UNCHANGED <<life, notified, joinInterest, joinWaker, cell, alloc,
                 queue, chan, opc, alive, rpc, join, woken>>

(* ... or moved to another thread later, wherever the owner is by then.    *)
HandOver(r) ==
  /\ local > 0 /\ rpc[r] = "none"
  /\ local' = local - 1
  /\ rpc' = [rpc EXCEPT ![r] = "hold"]
  /\ UNCHANGED <<state, cell, alloc, queue, chan, opc, alive, join,
                 woken>>

LocalDrop ==
  /\ local > 0
  /\ OwnerActive \/ ~alive
  /\ local' = local - 1
  /\ DropReference
  /\ UNCHANGED <<life, notified, joinInterest, joinWaker, cell, queue, chan,
                 opc, alive, rpc, join, woken>>

(* transition_to_notified. *)
TransitionToNotified == notified' = (notified \/ life # "complete")

MustSubmit == life = "idle" /\ ~notified

(* wake_by_val on the owner thread: the waker's reference becomes the      *)
(* queued handle's, or is dropped when there is nothing to submit.         *)
WakeByValHere ==
  /\ TransitionToNotified
  /\ IF MustSubmit
     THEN queue' = queue + 1 /\ UNCHANGED <<refs, alloc>>
     ELSE DropReference /\ UNCHANGED queue
  /\ woken' = (woken \/ life # "complete")
  /\ UNCHANGED <<life, joinInterest, joinWaker, cell, opc, alive, rpc, join>>

LocalWakeByVal ==
  /\ OwnerActive /\ local > 0
  /\ local' = local - 1
  /\ WakeByValHere
  /\ UNCHANGED chan

(* inner_park receives a foreign waker and calls wake on it.               *)
DrainWaker ==
  /\ alive /\ opc = "idle" /\ chan > 0
  /\ chan' = chan - 1
  /\ WakeByValHere
  /\ UNCHANGED local

(* wake_by_ref on the owner thread, through a waker held there or, during  *)
(* the poll, through the context.                                          *)
LocalWakeByRef ==
  /\ OwnerActive
  /\ local > 0 \/ opc = "polling"
  /\ TransitionToNotified
  /\ IF MustSubmit THEN RefInc /\ queue' = queue + 1 ELSE UNCHANGED <<refs, queue>>
  /\ woken' = (woken \/ life # "complete")
  /\ UNCHANGED <<life, joinInterest, joinWaker, cell, alloc, chan, local,
                 opc, alive, rpc, join>>

(* The runtime is dropped: the queued handle and the foreign wakers are    *)
(* released without being run.                                             *)
Shutdown ==
  /\ alive /\ opc = "idle"
  /\ alive' = FALSE
  /\ UNCHANGED <<state, cell, alloc, queue, chan, local, opc, rpc, join,
                 woken>>

DropQueued ==
  /\ ~alive /\ queue > 0
  /\ queue' = queue - 1
  /\ DropReference
  /\ UNCHANGED <<life, notified, joinInterest, joinWaker, cell, chan, local, opc,
                 alive, rpc, join, woken>>

DropChanneled ==
  /\ ~alive /\ chan > 0
  /\ chan' = chan - 1
  /\ DropReference
  /\ UNCHANGED <<life, notified, joinInterest, joinWaker, cell, queue, local, opc,
                 alive, rpc, join, woken>>

-----------------------------------------------------------------------------
(* Remote threads: each slot r is one waker held off the owner thread.     *)

Goto(r, pc) == rpc' = [rpc EXCEPT ![r] = pc]

RemoteClone(r, s) ==
  /\ rpc[r] = "hold" /\ rpc[s] = "none"
  /\ RefInc
  /\ Goto(s, "hold")
  /\ UNCHANGED <<life, notified, joinInterest, joinWaker, cell, alloc,
                 owner, join, woken>>

(* Mutant: a running task is not marked.                                   *)
NotifiedWithoutMark ==
  /\ UNCHANGED notified
  /\ woken' = (woken \/ life # "complete")

(* transition_to_notified_without_submit: a running task is marked, a      *)
(* notified or complete one needs nothing, and an idle one is left as it   *)
(* is for the owner to submit.                                             *)
TransitionToNotifiedWithoutSubmit ==
  /\ notified' = (notified \/ life = "running")
  /\ woken' = (woken \/ life # "complete")

RemoteWakeByVal(r) ==
  /\ rpc[r] = "hold"
  /\ TransitionToNotifiedWithoutSubmit
  /\ Goto(r, IF MustSubmit THEN "sendVal" ELSE "drop")
  /\ UNCHANGED <<life, joinInterest, joinWaker, refs, cell, alloc, owner,
                 join>>

RemoteWakeByRef(r) ==
  /\ rpc[r] = "hold"
  /\ TransitionToNotifiedWithoutSubmit
  /\ Goto(r, IF MustSubmit THEN "incRef" ELSE "hold")
  /\ UNCHANGED <<life, joinInterest, joinWaker, refs, cell, alloc, owner,
                 join>>

(* wake_by_ref makes the waker it sends before it counts it.               *)
RemoteIncRef(r) ==
  /\ rpc[r] = "incRef"
  /\ RefInc
  /\ Goto(r, "sendRef")
  /\ UNCHANGED <<life, notified, joinInterest, joinWaker, cell, alloc,
                 owner, join, woken>>

(* send_waker moves the waker into the owner's channel.                    *)
SendWaker(r) ==
  /\ rpc[r] \in {"sendVal", "sendRef"} /\ chan < MaxChan
  /\ chan' = chan + 1
  /\ Goto(r, IF rpc[r] = "sendVal" THEN "none" ELSE "hold")
  /\ UNCHANGED <<state, cell, alloc, queue, local, opc, alive, join,
                 woken>>

(* The owner's driver is gone: no sender is registered, or the channel has *)
(* no receiver, and send_waker drops the waker.                            *)
SendFails(r) ==
  /\ ~alive /\ rpc[r] \in {"sendVal", "sendRef"}
  /\ Goto(r, IF rpc[r] = "sendVal" THEN "drop" ELSE "undoRef")
  /\ UNCHANGED <<state, cell, alloc, owner, join, woken>>

(* drop_waker, and the reference wake_by_val or a failed send gives back.  *)
RemoteDrop(r) ==
  /\ rpc[r] \in {"hold", "drop", "undoRef"}
  /\ Goto(r, IF rpc[r] = "undoRef" THEN "hold" ELSE "none")
  /\ DropReference
  /\ UNCHANGED <<life, notified, joinInterest, joinWaker, cell, owner, join, woken>>

-----------------------------------------------------------------------------
(* The JoinHandle, on whichever thread holds it.                           *)

JGoto(pc) == jpc' = pc
JUnchanged == UNCHANGED <<alloc, owner, rpc, woken>>

(* Mutant: the bit is set before, and without, the waker being stored.     *)
PollJoinUnstored(w) ==
  /\ jpc = "held"
  /\ jw' = w
  /\ JGoto(CASE life = "complete"                      -> "take"
             [] life # "complete" /\ ~joinWaker        -> "cas"
             [] life # "complete" /\ joinWaker /\ trailer = w -> "held"
             [] OTHER                                  -> "unset")
  /\ UNCHANGED <<state, cell, registered, joinWoken>> /\ JUnchanged

(* JoinHandle::poll loads the state.  A complete task's output is taken; a *)
(* registered waker that is this one needs nothing; another one is         *)
(* replaced, after its JOIN_WAKER bit is unset.                            *)
PollJoin(w) ==
  /\ jpc = "held"
  /\ jw' = w
  /\ JGoto(CASE life = "complete"                      -> "take"
              [] life # "complete" /\ ~joinWaker        -> "store"
              [] life # "complete" /\ joinWaker /\ trailer = w -> "held"
              [] OTHER                                  -> "unset")
  /\ UNCHANGED <<state, cell, registered, joinWoken>> /\ JUnchanged

(* Mutant: JOIN_WAKER is unset without looking at COMPLETE.                *)
UnsetWakerAlways ==
  /\ jpc = "unset"
  /\ JGoto("store")
  /\ joinWaker' = FALSE
  /\ UNCHANGED <<life, notified, joinInterest, refs, cell, jw, registered, joinWoken>>
  /\ JUnchanged

(* State::unset_waker fails once the task is complete. *)
UnsetWaker ==
  /\ jpc = "unset"
  /\ IF life = "complete"
     THEN JGoto("take") /\ UNCHANGED joinWaker
     ELSE JGoto("store") /\ joinWaker' = FALSE
  /\ UNCHANGED <<life, notified, joinInterest, refs, cell, jw, registered, joinWoken>>
  /\ JUnchanged

(* Trailer::set_waker(Some(waker)), a plain write. *)
StoreWaker ==
  /\ jpc = "store"
  /\ trailer' = jw
  /\ JGoto("cas")
  /\ UNCHANGED <<state, stage, jw, registered, joinWoken>> /\ JUnchanged

(* Mutant: JOIN_WAKER is set without looking at COMPLETE.                  *)
SetJoinWakerAlways ==
  /\ jpc = "cas"
  /\ joinWaker' = TRUE
  /\ registered' = jw
  /\ joinWoken' = FALSE
  /\ JGoto("held")
  /\ UNCHANGED <<life, notified, joinInterest, refs, cell, jw>> /\ JUnchanged

(* State::set_join_waker fails once the task is complete.  Otherwise poll  *)
(* returns Pending with this waker registered.                             *)
SetJoinWaker ==
  /\ jpc = "cas"
  /\ IF life = "complete"
     THEN JGoto("clear") /\ UNCHANGED <<joinWaker, registered, joinWoken>>
     ELSE /\ joinWaker' = TRUE
          /\ registered' = jw
          /\ joinWoken' = FALSE
          /\ JGoto("held")
  /\ UNCHANGED <<life, notified, joinInterest, refs, cell, jw>> /\ JUnchanged

ClearWaker ==
  /\ jpc = "clear"
  /\ trailer' = NoWaker
  /\ JGoto("take")
  /\ UNCHANGED <<state, stage, jw, registered, joinWoken>> /\ JUnchanged

(* CoreStage::take_output; poll returns Ready. *)
TakeOutput ==
  /\ jpc = "take"
  /\ stage' = "Consumed"
  /\ JGoto("ready")
  /\ UNCHANGED <<state, trailer, jw, registered, joinWoken>> /\ JUnchanged

(* Drop for JoinHandle: drop_join_handle_fast swaps exactly INITIAL_STATE  *)
(* for the state with one reference and no interest.                       *)
DropJoinHandle ==
  /\ jpc \in {"held", "ready"}
  /\ IF life = "idle" /\ notified /\ joinInterest /\ ~joinWaker /\ refs = 2
     THEN refs' = 1 /\ joinInterest' = FALSE /\ JGoto("gone")
     ELSE JGoto("dropSlow") /\ UNCHANGED <<refs, joinInterest>>
  /\ UNCHANGED <<life, notified, joinWaker, cell, jw, registered, joinWoken>>
  /\ JUnchanged

(* drop_join_handle_slow: unset_join_interested fails once the task is     *)
(* complete, and then the output is this handle's to drop.                 *)
UnsetJoinInterested ==
  /\ jpc = "dropSlow"
  /\ IF life = "complete"
     THEN JGoto("dropOutput") /\ UNCHANGED joinInterest
     ELSE JGoto("dropRef") /\ joinInterest' = FALSE
  /\ UNCHANGED <<life, notified, joinWaker, refs, cell, jw, registered, joinWoken>>
  /\ JUnchanged

DropJoinOutput ==
  /\ jpc = "dropOutput"
  /\ stage' = "Consumed"
  /\ JGoto("dropRef")
  /\ UNCHANGED <<state, trailer, jw, registered, joinWoken>> /\ JUnchanged

DropJoinRef ==
  /\ jpc = "dropRef"
  /\ DropReference
  /\ JGoto("gone")
  /\ UNCHANGED <<life, notified, joinInterest, joinWaker, cell, owner, rpc, jw,
                 registered, joinWoken, woken>>

-----------------------------------------------------------------------------
OwnerStep ==
  \/ TransitionToRunning \/ TransitionToIdle \/ YieldNow \/ PollReady
  \/ Complete \/ DropOutput \/ WakeJoin \/ DropTask \/ PollPanic
  \/ CloneLocal \/ LocalDrop \/ LocalWakeByVal \/ LocalWakeByRef \/ DrainWaker
  \/ Shutdown \/ DropQueued \/ DropChanneled

RemoteStep(r) ==
  \/ HandOver(r) \/ RemoteWakeByVal(r) \/ RemoteWakeByRef(r)
  \/ RemoteIncRef(r) \/ SendWaker(r) \/ SendFails(r) \/ RemoteDrop(r)
  \/ \E s \in Remotes : RemoteClone(r, s)

JoinStep ==
  \/ \E w \in JoinWakers : PollJoin(w)
  \/ UnsetWaker \/ StoreWaker \/ SetJoinWaker \/ ClearWaker \/ TakeOutput
  \/ DropJoinHandle \/ UnsetJoinInterested \/ DropJoinOutput \/ DropJoinRef

Next == OwnerStep \/ (\E r \in Remotes : RemoteStep(r)) \/ JoinStep

Spec == Init /\ [][Next]_vars

(* The owner thread keeps running what it was given, and a thread inside a *)
(* wake or a JoinHandle operation finishes it.  Nothing makes the future   *)
(* call its wakers, or the handle be polled.                               *)
Fairness ==
  /\ WF_vars(TransitionToRunning) /\ WF_vars(TransitionToIdle \/ PollReady)
  /\ WF_vars(YieldNow \/ Complete \/ DropOutput \/ WakeJoin \/ DropTask)
  /\ SF_vars(DrainWaker) /\ WF_vars(DropQueued) /\ WF_vars(DropChanneled)
  /\ \A r \in Remotes :
       /\ WF_vars(RemoteIncRef(r)) /\ WF_vars(SendFails(r))
       /\ SF_vars(SendWaker(r))
       /\ WF_vars(RemoteDrop(r) /\ rpc[r] # "hold")
  /\ WF_vars(UnsetWaker \/ StoreWaker \/ SetJoinWaker \/ ClearWaker \/ TakeOutput)
  /\ WF_vars(UnsetJoinInterested \/ DropJoinOutput \/ DropJoinRef)

FairSpec == Spec /\ Fairness

-----------------------------------------------------------------------------
(* Who holds a reference. *)

RemoteHolders == {r \in Remotes : rpc[r] # "none"}
RemoteExtra == {r \in Remotes : rpc[r] \in {"sendRef", "undoRef"}}
RunHolds == IF opc = "idle" THEN 0 ELSE 1
JoinHolds == IF jpc = "gone" THEN 0 ELSE 1

Handles == queue + chan + local + RunHolds + JoinHolds
             + Cardinality(RemoteHolders) + Cardinality(RemoteExtra)

(* The reference count is the number of handles, wakers and operations in  *)
(* progress that will still give a reference back, and the cell is         *)
(* allocated exactly as long as there is one: no thread works on a freed   *)
(* cell, and none leaks it.  (state.rs ref_inc/ref_dec, every "# Ref       *)
(* Count" comment of harness.rs.)                                          *)
RefCountExact == refs = Handles /\ (alloc <=> Handles > 0)

(* A run-queue handle is only ever pushed for an idle, notified task, and  *)
(* there is at most one: the two debug_asserts of transition_to_running.   *)
RunnableIsIdle ==
  /\ queue <= 1
  /\ queue = 1 => life = "idle" /\ notified /\ opc \in {"idle", "dropTask"}

(* The panic of a poll leaves RUNNING set with nobody running the task.    *)
Panicked == life = "running" /\ opc \notin {"polling", "complete"}

(* A wake is never lost: until the next poll begins the task is in the run *)
(* queue, or is running and marked to be requeued, or a foreign waker for  *)
(* it is on its way to the owner.                                          *)
NoLostWake ==
  woken /\ alive /\ life # "complete" /\ ~Panicked =>
    \/ queue > 0
    \/ opc \in {"polling", "requeue"} /\ notified
    \/ opc = "complete"
    \/ chan > 0
    \/ \E r \in Remotes : rpc[r] \in {"sendVal", "incRef", "sendRef"}

(* The stage and the trailer are plain memory: the owner and the           *)
(* JoinHandle never work on the same one at the same time.                 *)
NoDataRace ==
  /\ ~(opc \in {"polling", "complete", "dropOutput"} /\ jpc \in {"take", "dropOutput"})
  /\ ~(opc = "wakeJoin" /\ jpc \in {"store", "cas", "clear"})

(* wake_join finds a waker, take_output finds an output.                   *)
NoPanicOnJoin ==
  /\ opc = "wakeJoin" => trailer # NoWaker
  /\ jpc = "take" => stage = "Finished"

(* A poll that returned Pending is woken by the completion: once the owner *)
(* is through with complete(), the registered waker was called.            *)
JoinerWoken ==
  jpc = "held" /\ registered # NoWaker /\ life = "complete" /\ opc # "wakeJoin"
    => joinWoken

(* harness.rs:132: an output never stays in the cell until it is           *)
(* deallocated, where a waker on any thread could drop it.                 *)
OutputNotFreedWithCell == ~alloc => stage # "Finished"

(* state.rs:22: once COMPLETE is set it is never unset; and JOIN_INTEREST  *)
(* is never set again.                                                     *)
CompleteIsFinal ==
  [][/\ life = "complete" => life' = "complete"
     /\ joinInterest' => joinInterest]_vars

(* A woken task of a live runtime is polled again, unless a poll panicked. *)
WakeLeadsToPoll ==
  woken ~> (~woken \/ life = "complete" \/ Panicked \/ ~alive)
=============================================================================
