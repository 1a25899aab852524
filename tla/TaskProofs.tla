----------------------------- MODULE TaskProofs -----------------------------
(***************************************************************************)
(* Safety of the task cell for every set of remote wakers, every set of    *)
(* join wakers and every bound on the channel.                             *)
(***************************************************************************)
EXTENDS Task, FiniteSetTheorems, TLAPS

(* Where the owner is in Task::run determines the lifecycle and the stage. *)
OwnerInv ==
  /\ opc # "idle" => alive
  /\ opc \in {"polling", "complete"} => life = "running"
  /\ opc = "requeue" => life = "idle" /\ notified
  /\ opc \in {"dropOutput", "wakeJoin"} => life = "complete"
  /\ opc = "polling" => stage = "Running"
  /\ opc = "complete" => stage = "Finished"
  /\ life = "idle" => stage = "Running"
  /\ life = "complete" => stage # "Running"
  /\ stage = "Finished" => life = "complete" \/ opc = "complete"

(* A notified idle task of a live runtime is in the run queue.             *)
QueueInv ==
  alive /\ life = "idle" /\ notified => queue = 1 \/ opc = "requeue"

(* JOIN_INTEREST, JOIN_WAKER and the trailer, by where the JoinHandle is.  *)
JoinInv ==
  /\ jpc \notin {"dropRef", "gone"} => joinInterest
  /\ jpc \in {"dropRef", "gone"} /\ life # "complete" => ~joinInterest
  /\ joinWaker => trailer # NoWaker
  /\ jpc \in {"store", "cas", "clear"} => ~joinWaker
  /\ jpc = "unset" => joinWaker
  /\ jpc = "cas" => trailer = jw
  /\ jpc \in {"unset", "store", "cas"} => jw # NoWaker
  /\ jpc \in {"clear", "take", "ready", "dropOutput"} => life = "complete"
  /\ opc = "dropOutput" => ~joinInterest
  /\ opc = "wakeJoin" => joinInterest /\ joinWaker

(* Who owns a finished output.                                             *)
OutputInv ==
  /\ life = "complete" /\ jpc \in {"held", "unset", "store", "cas", "clear", "take"}
       => stage = "Finished"
  /\ life = "complete" /\ opc # "dropOutput" /\ jpc \in {"dropRef", "gone"}
       => stage = "Consumed"

(* The waker the JoinHandle waits with is the one in the trailer.          *)
RegisteredInv ==
  jpc \in {"held", "unset"} =>
    /\ joinWaker <=> registered # NoWaker
    /\ joinWaker => trailer = registered
    /\ life = "complete" /\ joinWaker /\ opc # "wakeJoin" => joinWoken

TaskInv ==
  /\ TypeOK
  /\ RefCountExact
  /\ RunnableIsIdle
  /\ OwnerInv
  /\ QueueInv
  /\ JoinInv
  /\ OutputInv
  /\ RegisteredInv
  /\ NoLostWake

-----------------------------------------------------------------------------
(* Counting the remote wakers.                                             *)

(* Adding an element to a finite set, or removing one, changes its         *)
(* cardinality by one, or by nothing.                                      *)
LEMMA CardAdd ==
  ASSUME NEW S, IsFiniteSet(S), NEW x, NEW T, T = S \union {x}
  PROVE  Cardinality(T) = Cardinality(S) + (IF x \in S THEN 0 ELSE 1)
  <1>1. Cardinality(S) \in Nat
    BY FS_CardinalityType
  <1>2. CASE x \in S
    <2>1. T = S
      BY <1>2
    <2>2. Cardinality(T) = Cardinality(S)
      BY <2>1, Zenon
    <2> QED
      BY <1>1, <1>2, <2>2
  <1>3. CASE x \notin S
    BY <1>1, <1>3, FS_AddElement
  <1> QED
    BY <1>2, <1>3

(* A set without one of its members has one less.                          *)
LEMMA CardRemove ==
  ASSUME NEW S, IsFiniteSet(S), NEW x, NEW T, T = S \ {x}
  PROVE  Cardinality(T) = Cardinality(S) - (IF x \in S THEN 1 ELSE 0)
  <1>1. Cardinality(S) \in Nat
    BY FS_CardinalityType
  <1>2. CASE x \in S
    BY <1>1, <1>2, FS_RemoveElement
  <1>3. CASE x \notin S
    <2>1. T = S
      BY <1>3
    <2>2. Cardinality(T) = Cardinality(S)
      BY <2>1, Zenon
    <2> QED
      BY <1>1, <1>3, <2>2
  <1> QED
    BY <1>2, <1>3

(* What one remote slot at pc holds, in references.                        *)
Holds(pc) == IF pc = "none" THEN 0 ELSE 1
Extra(pc) == IF pc \in {"sendRef", "undoRef"} THEN 1 ELSE 0

(* A step that moves one remote slot changes the number of holders by what *)
(* that slot holds after, less what it held before.                        *)
LEMMA RemoteMove ==
  ASSUME TypeOK, rpc' \in [Remotes -> RemotePCs], NEW r \in Remotes,
         \A q \in Remotes \ {r} : rpc'[q] = rpc[q]
  PROVE  /\ Cardinality(RemoteHolders) \in Nat
         /\ Cardinality(RemoteExtra) \in Nat
         /\ Cardinality(RemoteHolders') = Cardinality(RemoteHolders) + Holds(rpc'[r]) - Holds(rpc[r])
         /\ Cardinality(RemoteExtra') = Cardinality(RemoteExtra) + Extra(rpc'[r]) - Extra(rpc[r])
         /\ rpc[r] # "none" => Cardinality(RemoteHolders) > 0
  <1>1. IsFiniteSet(RemoteHolders) /\ IsFiniteSet(RemoteExtra)
    <2>1. IsFiniteSet(Remotes) /\ RemoteHolders \subseteq Remotes /\ RemoteExtra \subseteq Remotes
      BY TaskAssumption DEF RemoteHolders, RemoteExtra
    <2> QED
      BY <2>1, FS_Subset
  <1>2. RemoteHolders' = IF rpc'[r] = "none" THEN RemoteHolders \ {r} ELSE RemoteHolders \union {r}
    BY DEF RemoteHolders, TypeOK
  <1>3. RemoteExtra' = IF rpc'[r] \in {"sendRef", "undoRef"} THEN RemoteExtra \union {r}
                       ELSE RemoteExtra \ {r}
    BY DEF RemoteExtra, TypeOK
  <1>4. r \in RemoteHolders <=> rpc[r] # "none"
    BY DEF RemoteHolders
  <1>5. r \in RemoteExtra <=> rpc[r] \in {"sendRef", "undoRef"}
    BY DEF RemoteExtra
  <1>6. /\ Cardinality(RemoteHolders) \in Nat /\ Cardinality(RemoteExtra) \in Nat
        /\ r \in RemoteHolders => Cardinality(RemoteHolders) > 0
    BY <1>1, FS_CardinalityType, FS_EmptySet
  <1>7. Cardinality(RemoteHolders') = Cardinality(RemoteHolders) + Holds(rpc'[r]) - Holds(rpc[r])
    <2>1. CASE rpc'[r] = "none"
      <3>1. Cardinality(RemoteHolders') = Cardinality(RemoteHolders) - (IF r \in RemoteHolders THEN 1 ELSE 0)
        BY <1>1, <1>2, <2>1, CardRemove
      <3> QED
        BY <3>1, <2>1, <1>4, <1>6 DEF Holds
    <2>2. CASE rpc'[r] # "none"
      <3>1. Cardinality(RemoteHolders') = Cardinality(RemoteHolders) + (IF r \in RemoteHolders THEN 0 ELSE 1)
        BY <1>1, <1>2, <2>2, CardAdd
      <3> QED
        BY <3>1, <2>2, <1>4, <1>6 DEF Holds
    <2> QED
      BY <2>1, <2>2
  <1>8. Cardinality(RemoteExtra') = Cardinality(RemoteExtra) + Extra(rpc'[r]) - Extra(rpc[r])
    <2>1. CASE rpc'[r] \notin {"sendRef", "undoRef"}
      <3>1. Cardinality(RemoteExtra') = Cardinality(RemoteExtra) - (IF r \in RemoteExtra THEN 1 ELSE 0)
        BY <1>1, <1>3, <2>1, CardRemove
      <3> QED
        BY <3>1, <2>1, <1>5, <1>6 DEF Extra
    <2>2. CASE rpc'[r] \in {"sendRef", "undoRef"}
      <3>1. Cardinality(RemoteExtra') = Cardinality(RemoteExtra) + (IF r \in RemoteExtra THEN 0 ELSE 1)
        BY <1>1, <1>3, <2>2, CardAdd
      <3> QED
        BY <3>1, <2>2, <1>5, <1>6 DEF Extra
    <2> QED
      BY <2>1, <2>2
  <1> QED
    BY <1>4, <1>6, <1>7, <1>8

-----------------------------------------------------------------------------
(* Reference counting.                                                     *)

(* A step that moves no remote slot leaves the number of holders alone.    *)
LEMMA RemoteStay ==
  ASSUME TypeOK, rpc' = rpc
  PROVE  /\ Cardinality(RemoteHolders) \in Nat
         /\ Cardinality(RemoteExtra) \in Nat
         /\ Cardinality(RemoteHolders') = Cardinality(RemoteHolders)
         /\ Cardinality(RemoteExtra') = Cardinality(RemoteExtra)
  <1>1. IsFiniteSet(RemoteHolders) /\ IsFiniteSet(RemoteExtra)
    <2>1. IsFiniteSet(Remotes) /\ RemoteHolders \subseteq Remotes /\ RemoteExtra \subseteq Remotes
      BY TaskAssumption DEF RemoteHolders, RemoteExtra
    <2> QED
      BY <2>1, FS_Subset
  <1>2. RemoteHolders' = RemoteHolders /\ RemoteExtra' = RemoteExtra
    BY DEF RemoteHolders, RemoteExtra
  <1>3. /\ Cardinality(RemoteHolders') = Cardinality(RemoteHolders)
        /\ Cardinality(RemoteExtra') = Cardinality(RemoteExtra)
    BY <1>2, Zenon
  <1> QED
    BY <1>1, <1>3, FS_CardinalityType

(* A thread that holds a waker is counted. *)
LEMMA RemoteSome ==
  ASSUME TypeOK, NEW r \in Remotes, rpc[r] # "none"
  PROVE  Cardinality(RemoteHolders) > 0
  <1>1. IsFiniteSet(RemoteHolders) /\ r \in RemoteHolders
    <2>1. RemoteHolders \subseteq Remotes /\ r \in RemoteHolders
      BY DEF RemoteHolders
    <2> QED
      BY <2>1, FS_Subset, TaskAssumption
  <1> QED
    BY <1>1, FS_CardinalityType, FS_EmptySet

(* Every step keeps refs equal to the number of handles.                   *)
LEMMA CountStep ==
  ASSUME TypeOK, RefCountExact, [Next]_vars
  PROVE  refs' \in Nat /\ RefCountExact'
  <1> USE DEF RefCountExact, Handles, RunHolds, JoinHolds, TypeOK
  <1>0. ASSUME rpc' = rpc
        PROVE  /\ Cardinality(RemoteHolders) \in Nat
               /\ Cardinality(RemoteExtra) \in Nat
               /\ Cardinality(RemoteHolders') = Cardinality(RemoteHolders)
               /\ Cardinality(RemoteExtra') = Cardinality(RemoteExtra)
    BY <1>0, RemoteStay
  <1>1. CASE TransitionToRunning
    BY <1>1, <1>0 DEF TransitionToRunning, OwnerActive, DropReference, RefInc,
       state, cell, join, OwnerPCs
  <1>2. CASE TransitionToIdle
    BY <1>2, <1>0 DEF TransitionToIdle, OwnerActive, DropReference, RefInc,
       state, cell, join, OwnerPCs
  <1>3. CASE YieldNow
    BY <1>3, <1>0 DEF YieldNow, OwnerActive, DropReference, RefInc,
       state, cell, join, OwnerPCs
  <1>4. CASE PollReady
    BY <1>4, <1>0 DEF PollReady, OwnerActive, DropReference, RefInc,
       state, cell, join, OwnerPCs
  <1>5. CASE Complete
    BY <1>5, <1>0 DEF Complete, OwnerActive, DropReference, RefInc,
       state, cell, join, OwnerPCs
  <1>6. CASE DropOutput
    BY <1>6, <1>0 DEF DropOutput, OwnerActive, DropReference, RefInc,
       state, cell, join, OwnerPCs
  <1>7. CASE WakeJoin
    BY <1>7, <1>0 DEF WakeJoin, OwnerActive, DropReference, RefInc,
       state, cell, join, OwnerPCs
  <1>8. CASE DropTask
    BY <1>8, <1>0 DEF DropTask, OwnerActive, DropReference, RefInc,
       state, cell, join, OwnerPCs
  <1>9. CASE PollPanic
    BY <1>9, <1>0 DEF PollPanic, OwnerActive, DropReference, RefInc,
       state, cell, join, OwnerPCs
  <1>10. CASE CloneLocal
    BY <1>10, <1>0 DEF CloneLocal, OwnerActive, DropReference, RefInc,
       state, cell, join, OwnerPCs
  <1>11. CASE LocalDrop
    BY <1>11, <1>0 DEF LocalDrop, OwnerActive, DropReference, RefInc,
       state, cell, join, OwnerPCs
  <1>12. CASE LocalWakeByVal
    BY <1>12, <1>0 DEF LocalWakeByVal, WakeByValHere, OwnerActive, DropReference,
       RefInc,
       state, cell, join, OwnerPCs
  <1>13. CASE LocalWakeByRef
    BY <1>13, <1>0 DEF LocalWakeByRef, OwnerActive, DropReference, RefInc,
       state, cell, join, OwnerPCs
  <1>14. CASE DrainWaker
    <2>1. CASE MustSubmit
      BY <1>14, <1>0, <2>1 DEF DrainWaker, WakeByValHere, join
    <2>2. CASE ~MustSubmit
      BY <1>14, <1>0, <2>2 DEF DrainWaker, WakeByValHere, DropReference, join
    <2> QED
      BY <2>1, <2>2
  <1>15. CASE Shutdown
    BY <1>15, <1>0 DEF Shutdown, OwnerActive, DropReference, RefInc,
       state, cell, join, OwnerPCs
  <1>16. CASE DropQueued
    BY <1>16, <1>0 DEF DropQueued, OwnerActive, DropReference, RefInc,
       state, cell, join, OwnerPCs
  <1>17. CASE DropChanneled
    BY <1>17, <1>0 DEF DropChanneled, OwnerActive, DropReference, RefInc,
       state, cell, join, OwnerPCs
  <1>18. ASSUME NEW w \in JoinWakers, PollJoin(w)
        PROVE  refs' \in Nat /\ RefCountExact'
    BY <1>18, <1>0 DEF PollJoin, JGoto, JUnchanged, state, owner
  <1>19. CASE UnsetWaker
    BY <1>19, <1>0 DEF UnsetWaker, JGoto, JUnchanged, DropReference, state, owner
  <1>20. CASE StoreWaker
    BY <1>20, <1>0 DEF StoreWaker, JGoto, JUnchanged, DropReference, state, owner
  <1>21. CASE SetJoinWaker
    BY <1>21, <1>0 DEF SetJoinWaker, JGoto, JUnchanged, DropReference, state, owner
  <1>22. CASE ClearWaker
    BY <1>22, <1>0 DEF ClearWaker, JGoto, JUnchanged, DropReference, state, owner
  <1>23. CASE TakeOutput
    BY <1>23, <1>0 DEF TakeOutput, JGoto, JUnchanged, DropReference, state, owner
  <1>24. CASE DropJoinHandle
    BY <1>24, <1>0 DEF DropJoinHandle, JGoto, JUnchanged, DropReference, state, owner
  <1>25. CASE UnsetJoinInterested
    BY <1>25, <1>0 DEF UnsetJoinInterested, JGoto, JUnchanged, DropReference,
       state, owner
  <1>26. CASE DropJoinOutput
    BY <1>26, <1>0 DEF DropJoinOutput, JGoto, JUnchanged, DropReference, state, owner
  <1>27. CASE DropJoinRef
    BY <1>27, <1>0 DEF DropJoinRef, JGoto, JUnchanged, DropReference, state, owner
  <1>28. CASE UNCHANGED vars
    BY <1>28, <1>0 DEF vars, state, owner, join
  <1>29. ASSUME NEW r \in Remotes, HandOver(r)
        PROVE  refs' \in Nat /\ RefCountExact'
    <2>1. rpc' \in [Remotes -> RemotePCs] /\ \A q \in Remotes \ {r} : rpc'[q] = rpc[q]
      BY <1>29 DEF HandOver, Goto, RemotePCs
    <2>2. /\ Cardinality(RemoteHolders) \in Nat
          /\ Cardinality(RemoteExtra) \in Nat
          /\ Cardinality(RemoteHolders') = Cardinality(RemoteHolders) + Holds(rpc'[r]) - Holds(rpc[r])
          /\ Cardinality(RemoteExtra') = Cardinality(RemoteExtra) + Extra(rpc'[r]) - Extra(rpc[r])
          /\ rpc[r] # "none" => Cardinality(RemoteHolders) > 0
      BY <2>1, RemoteMove
    <2> QED
      BY <1>29, <2>2 DEF HandOver, Goto, Holds, Extra, RefInc, DropReference,
         state, owner, join
  <1>30. ASSUME NEW r \in Remotes, RemoteWakeByVal(r)
        PROVE  refs' \in Nat /\ RefCountExact'
    <2>1. rpc' \in [Remotes -> RemotePCs] /\ \A q \in Remotes \ {r} : rpc'[q] = rpc[q]
      BY <1>30 DEF RemoteWakeByVal, Goto, RemotePCs
    <2>2. /\ Cardinality(RemoteHolders) \in Nat
          /\ Cardinality(RemoteExtra) \in Nat
          /\ Cardinality(RemoteHolders') = Cardinality(RemoteHolders) + Holds(rpc'[r]) - Holds(rpc[r])
          /\ Cardinality(RemoteExtra') = Cardinality(RemoteExtra) + Extra(rpc'[r]) - Extra(rpc[r])
          /\ rpc[r] # "none" => Cardinality(RemoteHolders) > 0
      BY <2>1, RemoteMove
    <2> QED
      BY <1>30, <2>2 DEF RemoteWakeByVal, Goto, Holds, Extra, RefInc,
         DropReference, state, owner, join
  <1>31. ASSUME NEW r \in Remotes, RemoteWakeByRef(r)
        PROVE  refs' \in Nat /\ RefCountExact'
    <2>1. rpc' \in [Remotes -> RemotePCs] /\ \A q \in Remotes \ {r} : rpc'[q] = rpc[q]
      BY <1>31 DEF RemoteWakeByRef, Goto, RemotePCs
    <2>2. /\ Cardinality(RemoteHolders) \in Nat
          /\ Cardinality(RemoteExtra) \in Nat
          /\ Cardinality(RemoteHolders') = Cardinality(RemoteHolders) + Holds(rpc'[r]) - Holds(rpc[r])
          /\ Cardinality(RemoteExtra') = Cardinality(RemoteExtra) + Extra(rpc'[r]) - Extra(rpc[r])
          /\ rpc[r] # "none" => Cardinality(RemoteHolders) > 0
      BY <2>1, RemoteMove
    <2> QED
      BY <1>31, <2>2 DEF RemoteWakeByRef, Goto, Holds, Extra, RefInc,
         DropReference, state, owner, join
  <1>32. ASSUME NEW r \in Remotes, RemoteIncRef(r)
        PROVE  refs' \in Nat /\ RefCountExact'
    <2>1. rpc' \in [Remotes -> RemotePCs] /\ \A q \in Remotes \ {r} : rpc'[q] = rpc[q]
      BY <1>32 DEF RemoteIncRef, Goto, RemotePCs
    <2>2. /\ Cardinality(RemoteHolders) \in Nat
          /\ Cardinality(RemoteExtra) \in Nat
          /\ Cardinality(RemoteHolders') = Cardinality(RemoteHolders) + Holds(rpc'[r]) - Holds(rpc[r])
          /\ Cardinality(RemoteExtra') = Cardinality(RemoteExtra) + Extra(rpc'[r]) - Extra(rpc[r])
          /\ rpc[r] # "none" => Cardinality(RemoteHolders) > 0
      BY <2>1, RemoteMove
    <2> QED
      BY <1>32, <2>2 DEF RemoteIncRef, Goto, Holds, Extra, RefInc, DropReference,
         state, owner, join
  <1>33. ASSUME NEW r \in Remotes, SendWaker(r)
        PROVE  refs' \in Nat /\ RefCountExact'
    <2>1. rpc' \in [Remotes -> RemotePCs] /\ \A q \in Remotes \ {r} : rpc'[q] = rpc[q]
      BY <1>33 DEF SendWaker, Goto, RemotePCs
    <2>2. /\ Cardinality(RemoteHolders) \in Nat
          /\ Cardinality(RemoteExtra) \in Nat
          /\ Cardinality(RemoteHolders') = Cardinality(RemoteHolders) + Holds(rpc'[r]) - Holds(rpc[r])
          /\ Cardinality(RemoteExtra') = Cardinality(RemoteExtra) + Extra(rpc'[r]) - Extra(rpc[r])
          /\ rpc[r] # "none" => Cardinality(RemoteHolders) > 0
      BY <2>1, RemoteMove
    <2> QED
      BY <1>33, <2>2 DEF SendWaker, Goto, Holds, Extra, RefInc, DropReference,
         state, owner, join
  <1>34. ASSUME NEW r \in Remotes, SendFails(r)
        PROVE  refs' \in Nat /\ RefCountExact'
    <2>1. rpc' \in [Remotes -> RemotePCs] /\ \A q \in Remotes \ {r} : rpc'[q] = rpc[q]
      BY <1>34 DEF SendFails, Goto, RemotePCs
    <2>2. /\ Cardinality(RemoteHolders) \in Nat
          /\ Cardinality(RemoteExtra) \in Nat
          /\ Cardinality(RemoteHolders') = Cardinality(RemoteHolders) + Holds(rpc'[r]) - Holds(rpc[r])
          /\ Cardinality(RemoteExtra') = Cardinality(RemoteExtra) + Extra(rpc'[r]) - Extra(rpc[r])
          /\ rpc[r] # "none" => Cardinality(RemoteHolders) > 0
      BY <2>1, RemoteMove
    <2> QED
      BY <1>34, <2>2 DEF SendFails, Goto, Holds, Extra, RefInc, DropReference,
         state, owner, join
  <1>35. ASSUME NEW r \in Remotes, RemoteDrop(r)
        PROVE  refs' \in Nat /\ RefCountExact'
    <2>1. rpc' \in [Remotes -> RemotePCs] /\ \A q \in Remotes \ {r} : rpc'[q] = rpc[q]
      BY <1>35 DEF RemoteDrop, Goto, RemotePCs
    <2>2. /\ Cardinality(RemoteHolders) \in Nat
          /\ Cardinality(RemoteExtra) \in Nat
          /\ Cardinality(RemoteHolders') = Cardinality(RemoteHolders) + Holds(rpc'[r]) - Holds(rpc[r])
          /\ Cardinality(RemoteExtra') = Cardinality(RemoteExtra) + Extra(rpc'[r]) - Extra(rpc[r])
          /\ rpc[r] # "none" => Cardinality(RemoteHolders) > 0
      BY <2>1, RemoteMove
    <2>3. CASE rpc[r] = "undoRef"
      <3>1. rpc'[r] = "hold"
        BY <1>35, <2>3 DEF RemoteDrop, Goto
      <3> QED
        BY <1>35, <2>2, <2>3, <3>1 DEF RemoteDrop, Holds, Extra, DropReference,
           owner, join
    <2>4. CASE rpc[r] # "undoRef"
      <3>1. rpc'[r] = "none" /\ rpc[r] \in {"hold", "drop"}
        BY <1>35, <2>4 DEF RemoteDrop, Goto
      <3> QED
        BY <1>35, <2>2, <3>1 DEF RemoteDrop, Holds, Extra, DropReference, owner, join
    <2> QED
      BY <2>3, <2>4
  <1>36. ASSUME NEW r \in Remotes, NEW s \in Remotes, RemoteClone(r, s)
        PROVE  refs' \in Nat /\ RefCountExact'
    <2>1. rpc' \in [Remotes -> RemotePCs] /\ \A q \in Remotes \ {s} : rpc'[q] = rpc[q]
      BY <1>36 DEF RemoteClone, Goto, RemotePCs
    <2>2. /\ Cardinality(RemoteHolders) \in Nat
          /\ Cardinality(RemoteExtra) \in Nat
          /\ Cardinality(RemoteHolders') = Cardinality(RemoteHolders) + Holds(rpc'[s]) - Holds(rpc[s])
          /\ Cardinality(RemoteExtra') = Cardinality(RemoteExtra) + Extra(rpc'[s]) - Extra(rpc[s])
          /\ rpc[s] # "none" => Cardinality(RemoteHolders) > 0
      BY <2>1, RemoteMove
    <2>3. Cardinality(RemoteHolders) > 0
      BY <1>36, RemoteSome DEF RemoteClone
    <2>4. rpc'[s] = "hold" /\ rpc[s] = "none"
      BY <1>36 DEF RemoteClone, Goto
    <2> QED
      BY <1>36, <2>2, <2>3, <2>4 DEF RemoteClone, Holds, Extra, RefInc, owner, join
  <1> QED
    BY <1>1, <1>2, <1>3, <1>4, <1>5, <1>6, <1>7, <1>8, <1>9, <1>10, <1>11, <1>12,
       <1>13, <1>14, <1>15, <1>16, <1>17, <1>18, <1>19, <1>20, <1>21, <1>22, <1>23,
       <1>24, <1>25, <1>26, <1>27, <1>28, <1>29, <1>30, <1>31, <1>32, <1>33, <1>34,
       <1>35, <1>36
       DEF Next, OwnerStep, RemoteStep, JoinStep

-----------------------------------------------------------------------------
(* The rest of the inductive invariant, conjunct by conjunct.              *)

(* TypeOK in two halves: the Boolean variables, and the others.            *)
BoolOK ==
  /\ notified \in BOOLEAN
  /\ joinInterest \in BOOLEAN
  /\ joinWaker \in BOOLEAN
  /\ alloc \in BOOLEAN
  /\ alive \in BOOLEAN
  /\ joinWoken \in BOOLEAN
  /\ woken \in BOOLEAN

DataOK ==
  /\ life \in {"idle", "running", "complete"}
  /\ refs \in Nat
  /\ stage \in {"Running", "Finished", "Consumed"}
  /\ trailer \in JoinWakers \union {NoWaker}
  /\ queue \in Nat
  /\ chan \in Nat
  /\ local \in Nat
  /\ opc \in OwnerPCs
  /\ rpc \in [Remotes -> RemotePCs]
  /\ jpc \in JoinPCs
  /\ jw \in JoinWakers \union {NoWaker}
  /\ registered \in JoinWakers \union {NoWaker}

(* Every step keeps the Boolean variables Boolean. *)
LEMMA BoolStep ==
  ASSUME BoolOK, [Next]_vars
  PROVE  BoolOK'
  <1> USE DEF BoolOK
  <1>1. CASE TransitionToRunning
    BY <1>1, Zenon DEF TransitionToRunning, state, cell, owner, join
  <1>2. CASE TransitionToIdle
    BY <1>2, Zenon DEF TransitionToIdle, state, cell, owner, join
  <1>3. CASE YieldNow
    BY <1>3, Zenon DEF YieldNow, RefInc, state, cell, owner, join
  <1>4. CASE PollReady
    BY <1>4, Zenon DEF PollReady, state, cell, owner, join
  <1>5. CASE Complete
    BY <1>5, Zenon DEF Complete, state, cell, owner, join
  <1>6. CASE DropOutput
    BY <1>6, Zenon DEF DropOutput, state, cell, owner, join
  <1>7. CASE WakeJoin
    BY <1>7, Zenon DEF WakeJoin, state, cell, owner, join
  <1>8. CASE DropTask
    BY <1>8, Zenon DEF DropTask, DropReference, state, cell, owner, join
  <1>9. CASE PollPanic
    BY <1>9, Zenon DEF PollPanic, DropReference, state, cell, owner, join
  <1>10. CASE CloneLocal
    BY <1>10, Zenon DEF CloneLocal, RefInc, state, cell, owner, join
  <1>11. CASE LocalDrop
    BY <1>11, Zenon DEF LocalDrop, OwnerActive, DropReference, state, cell, owner, join
  <1>12. CASE LocalWakeByVal
    BY <1>12, Zenon DEF LocalWakeByVal, OwnerActive, WakeByValHere, DropReference,
       TransitionToNotified, MustSubmit, state, cell, owner, join
  <1>13. CASE LocalWakeByRef
    BY <1>13, Zenon DEF LocalWakeByRef, OwnerActive, RefInc, TransitionToNotified,
       MustSubmit, state, cell, owner, join
  <1>14. CASE DrainWaker
    BY <1>14, Zenon DEF DrainWaker, WakeByValHere, DropReference,
       TransitionToNotified, MustSubmit, state, cell, owner, join
  <1>15. CASE Shutdown
    BY <1>15, Zenon DEF Shutdown, state, cell, owner, join
  <1>16. CASE DropQueued
    BY <1>16, Zenon DEF DropQueued, DropReference, state, cell, owner, join
  <1>17. CASE DropChanneled
    BY <1>17, Zenon DEF DropChanneled, DropReference, state, cell, owner, join
  <1>18. ASSUME NEW w \in JoinWakers, PollJoin(w)
        PROVE  BoolOK'
    BY <1>18, Zenon DEF PollJoin, JGoto, JUnchanged, state, cell, owner, join
  <1>19. CASE UnsetWaker
    BY <1>19, Zenon DEF UnsetWaker, JGoto, JUnchanged, state, cell, owner, join
  <1>20. CASE StoreWaker
    BY <1>20, Zenon DEF StoreWaker, JGoto, JUnchanged, state, cell, owner, join
  <1>21. CASE SetJoinWaker
    BY <1>21, Zenon DEF SetJoinWaker, JGoto, JUnchanged, state, cell, owner, join
  <1>22. CASE ClearWaker
    BY <1>22, Zenon DEF ClearWaker, JGoto, JUnchanged, state, cell, owner, join
  <1>23. CASE TakeOutput
    BY <1>23, Zenon DEF TakeOutput, JGoto, JUnchanged, state, cell, owner, join
  <1>24. CASE DropJoinHandle
    BY <1>24, Zenon DEF DropJoinHandle, JGoto, JUnchanged, state, cell, owner, join
  <1>25. CASE UnsetJoinInterested
    BY <1>25, Zenon DEF UnsetJoinInterested, JGoto, JUnchanged, state, cell, owner, join
  <1>26. CASE DropJoinOutput
    BY <1>26, Zenon DEF DropJoinOutput, JGoto, JUnchanged, state, cell, owner, join
  <1>27. CASE DropJoinRef
    BY <1>27, Zenon DEF DropJoinRef, DropReference, JGoto, JUnchanged, state, cell,
       owner, join
  <1>28. ASSUME NEW r \in Remotes, HandOver(r)
        PROVE  BoolOK'
    BY <1>28, Zenon DEF HandOver, state, cell, owner, join
  <1>29. ASSUME NEW r \in Remotes, RemoteWakeByVal(r)
        PROVE  BoolOK'
    BY <1>29, Zenon DEF RemoteWakeByVal, Goto, TransitionToNotifiedWithoutSubmit,
       MustSubmit, state, cell, owner, join
  <1>30. ASSUME NEW r \in Remotes, RemoteWakeByRef(r)
        PROVE  BoolOK'
    BY <1>30, Zenon DEF RemoteWakeByRef, Goto, TransitionToNotifiedWithoutSubmit,
       MustSubmit, state, cell, owner, join
  <1>31. ASSUME NEW r \in Remotes, RemoteIncRef(r)
        PROVE  BoolOK'
    BY <1>31, Zenon DEF RemoteIncRef, RefInc, Goto, state, cell, owner, join
  <1>32. ASSUME NEW r \in Remotes, SendWaker(r)
        PROVE  BoolOK'
    BY <1>32, Zenon DEF SendWaker, Goto, state, cell, owner, join
  <1>33. ASSUME NEW r \in Remotes, SendFails(r)
        PROVE  BoolOK'
    BY <1>33, Zenon DEF SendFails, Goto, state, cell, owner, join
  <1>34. ASSUME NEW r \in Remotes, RemoteDrop(r)
        PROVE  BoolOK'
    BY <1>34, Zenon DEF RemoteDrop, DropReference, Goto, state, cell, owner, join
  <1>35. ASSUME NEW r \in Remotes, NEW s \in Remotes, RemoteClone(r, s)
        PROVE  BoolOK'
    BY <1>35, Zenon DEF RemoteClone, RefInc, Goto, state, cell, owner, join
  <1>36. CASE UNCHANGED vars
    BY <1>36, Zenon DEF vars, state, cell, owner, join
  <1> QED
    BY <1>1, <1>2, <1>3, <1>4, <1>5, <1>6, <1>7, <1>8, <1>9, <1>10, <1>11, <1>12,
       <1>13, <1>14, <1>15, <1>16, <1>17, <1>18, <1>19, <1>20, <1>21, <1>22, <1>23,
       <1>24, <1>25, <1>26, <1>27, <1>28, <1>29, <1>30, <1>31, <1>32, <1>33, <1>34,
       <1>35, <1>36
       DEF Next, OwnerStep, RemoteStep, JoinStep

(* Every step keeps the other variables in their types. *)
LEMMA DataStep ==
  ASSUME DataOK, refs' \in Nat, [Next]_vars
  PROVE  DataOK'
  <1> USE DEF DataOK, OwnerPCs, RemotePCs, JoinPCs
  <1>1. CASE TransitionToRunning
    BY <1>1 DEF TransitionToRunning, state, cell, owner, join
  <1>2. CASE TransitionToIdle
    BY <1>2 DEF TransitionToIdle, state, cell, owner, join
  <1>3. CASE YieldNow
    BY <1>3 DEF YieldNow, RefInc, state, cell, owner, join
  <1>4. CASE PollReady
    BY <1>4 DEF PollReady, state, cell, owner, join
  <1>5. CASE Complete
    BY <1>5 DEF Complete, state, cell, owner, join
  <1>6. CASE DropOutput
    BY <1>6 DEF DropOutput, state, cell, owner, join
  <1>7. CASE WakeJoin
    BY <1>7 DEF WakeJoin, state, cell, owner, join
  <1>8. CASE DropTask
    BY <1>8 DEF DropTask, DropReference, state, cell, owner, join
  <1>9. CASE PollPanic
    BY <1>9 DEF PollPanic, DropReference, state, cell, owner, join
  <1>10. CASE CloneLocal
    BY <1>10 DEF CloneLocal, RefInc, state, cell, owner, join
  <1>11. CASE LocalDrop
    BY <1>11 DEF LocalDrop, OwnerActive, DropReference, state, cell, owner, join
  <1>12. CASE LocalWakeByVal
    BY <1>12 DEF LocalWakeByVal, OwnerActive, WakeByValHere, DropReference,
       TransitionToNotified, MustSubmit, state, cell, owner, join
  <1>13. CASE LocalWakeByRef
    BY <1>13 DEF LocalWakeByRef, OwnerActive, RefInc, TransitionToNotified,
       MustSubmit, state, cell, owner, join
  <1>14. CASE DrainWaker
    BY <1>14 DEF DrainWaker, WakeByValHere, DropReference, TransitionToNotified,
       MustSubmit, state, cell, owner, join
  <1>15. CASE Shutdown
    BY <1>15 DEF Shutdown, state, cell, owner, join
  <1>16. CASE DropQueued
    BY <1>16 DEF DropQueued, DropReference, state, cell, owner, join
  <1>17. CASE DropChanneled
    BY <1>17 DEF DropChanneled, DropReference, state, cell, owner, join
  <1>18. ASSUME NEW w \in JoinWakers, PollJoin(w)
        PROVE  DataOK'
    BY <1>18 DEF PollJoin, JGoto, JUnchanged, state, cell, owner, join
  <1>19. CASE UnsetWaker
    BY <1>19 DEF UnsetWaker, JGoto, JUnchanged, state, cell, owner, join
  <1>20. CASE StoreWaker
    BY <1>20 DEF StoreWaker, JGoto, JUnchanged, state, cell, owner, join
  <1>21. CASE SetJoinWaker
    BY <1>21 DEF SetJoinWaker, JGoto, JUnchanged, state, cell, owner, join
  <1>22. CASE ClearWaker
    BY <1>22 DEF ClearWaker, JGoto, JUnchanged, state, cell, owner, join
  <1>23. CASE TakeOutput
    BY <1>23 DEF TakeOutput, JGoto, JUnchanged, state, cell, owner, join
  <1>24. CASE DropJoinHandle
    BY <1>24 DEF DropJoinHandle, JGoto, JUnchanged, state, cell, owner, join
  <1>25. CASE UnsetJoinInterested
    BY <1>25 DEF UnsetJoinInterested, JGoto, JUnchanged, state, cell, owner, join
  <1>26. CASE DropJoinOutput
    BY <1>26 DEF DropJoinOutput, JGoto, JUnchanged, state, cell, owner, join
  <1>27. CASE DropJoinRef
    BY <1>27 DEF DropJoinRef, DropReference, JGoto, JUnchanged, state, cell, owner, join
  <1>28. ASSUME NEW r \in Remotes, HandOver(r)
        PROVE  DataOK'
    BY <1>28 DEF HandOver, state, cell, owner, join
  <1>29. ASSUME NEW r \in Remotes, RemoteWakeByVal(r)
        PROVE  DataOK'
    BY <1>29 DEF RemoteWakeByVal, Goto, TransitionToNotifiedWithoutSubmit,
       MustSubmit, state, cell, owner, join
  <1>30. ASSUME NEW r \in Remotes, RemoteWakeByRef(r)
        PROVE  DataOK'
    BY <1>30 DEF RemoteWakeByRef, Goto, TransitionToNotifiedWithoutSubmit,
       MustSubmit, state, cell, owner, join
  <1>31. ASSUME NEW r \in Remotes, RemoteIncRef(r)
        PROVE  DataOK'
    BY <1>31 DEF RemoteIncRef, RefInc, Goto, state, cell, owner, join
  <1>32. ASSUME NEW r \in Remotes, SendWaker(r)
        PROVE  DataOK'
    BY <1>32 DEF SendWaker, Goto, state, cell, owner, join
  <1>33. ASSUME NEW r \in Remotes, SendFails(r)
        PROVE  DataOK'
    BY <1>33 DEF SendFails, Goto, state, cell, owner, join
  <1>34. ASSUME NEW r \in Remotes, RemoteDrop(r)
        PROVE  DataOK'
    BY <1>34 DEF RemoteDrop, DropReference, Goto, state, cell, owner, join
  <1>35. ASSUME NEW r \in Remotes, NEW s \in Remotes, RemoteClone(r, s)
        PROVE  DataOK'
    BY <1>35 DEF RemoteClone, RefInc, Goto, state, cell, owner, join
  <1>36. CASE UNCHANGED vars
    BY <1>36 DEF vars, state, cell, owner, join
  <1> QED
    BY <1>1, <1>2, <1>3, <1>4, <1>5, <1>6, <1>7, <1>8, <1>9, <1>10, <1>11, <1>12,
       <1>13, <1>14, <1>15, <1>16, <1>17, <1>18, <1>19, <1>20, <1>21, <1>22, <1>23,
       <1>24, <1>25, <1>26, <1>27, <1>28, <1>29, <1>30, <1>31, <1>32, <1>33, <1>34,
       <1>35, <1>36
       DEF Next, OwnerStep, RemoteStep, JoinStep

(* Every step keeps OwnerInv, QueueInv and RunnableIsIdle. *)
LEMMA OwnerStepInv ==
  ASSUME TypeOK, OwnerInv, QueueInv, RunnableIsIdle, JoinInv, [Next]_vars
  PROVE  OwnerInv' /\ QueueInv' /\ RunnableIsIdle'
  <1> USE DEF TypeOK, OwnerInv, QueueInv, RunnableIsIdle, JoinInv, OwnerPCs, JoinPCs
  <1>1. CASE TransitionToRunning
    BY <1>1 DEF TransitionToRunning, state, cell, owner, join
  <1>2. CASE TransitionToIdle
    BY <1>2 DEF TransitionToIdle, state, cell, owner, join
  <1>3. CASE YieldNow
    BY <1>3 DEF YieldNow, RefInc, state, cell, owner, join
  <1>4. CASE PollReady
    BY <1>4 DEF PollReady, state, cell, owner, join
  <1>5. CASE Complete
    BY <1>5 DEF Complete, state, cell, owner, join
  <1>6. CASE DropOutput
    BY <1>6 DEF DropOutput, state, cell, owner, join
  <1>7. CASE WakeJoin
    BY <1>7 DEF WakeJoin, state, cell, owner, join
  <1>8. CASE DropTask
    BY <1>8 DEF DropTask, DropReference, state, cell, owner, join
  <1>9. CASE PollPanic
    BY <1>9 DEF PollPanic, DropReference, state, cell, owner, join
  <1>10. CASE CloneLocal
    BY <1>10 DEF CloneLocal, RefInc, state, cell, owner, join
  <1>11. CASE LocalDrop
    BY <1>11 DEF LocalDrop, OwnerActive, DropReference, state, cell, owner, join
  <1>12. CASE LocalWakeByVal
    <2>1. notified' <=> (notified \/ life # "complete")
      BY <1>12, Zenon DEF LocalWakeByVal, WakeByValHere, TransitionToNotified
    <2> QED
      BY <1>12, <2>1 DEF LocalWakeByVal, OwnerActive, WakeByValHere, DropReference,
         MustSubmit, state, cell, owner, join
  <1>13. CASE LocalWakeByRef
    <2>1. notified' <=> (notified \/ life # "complete")
      BY <1>13, Zenon DEF LocalWakeByRef, TransitionToNotified
    <2> QED
      BY <1>13, <2>1 DEF LocalWakeByRef, OwnerActive, RefInc, MustSubmit, state,
         cell, owner, join
  <1>14. CASE DrainWaker
    <2>1. notified' <=> (notified \/ life # "complete")
      BY <1>14, Zenon DEF DrainWaker, WakeByValHere, TransitionToNotified
    <2> QED
      BY <1>14, <2>1 DEF DrainWaker, WakeByValHere, DropReference, MustSubmit,
         state, cell, owner, join
  <1>15. CASE Shutdown
    BY <1>15 DEF Shutdown, state, cell, owner, join
  <1>16. CASE DropQueued
    BY <1>16 DEF DropQueued, DropReference, state, cell, owner, join
  <1>17. CASE DropChanneled
    BY <1>17 DEF DropChanneled, DropReference, state, cell, owner, join
  <1>18. ASSUME NEW w \in JoinWakers, PollJoin(w)
        PROVE  OwnerInv' /\ QueueInv' /\ RunnableIsIdle'
    BY <1>18 DEF PollJoin, JGoto, JUnchanged, state, cell, owner, join
  <1>19. CASE UnsetWaker
    BY <1>19 DEF UnsetWaker, JGoto, JUnchanged, state, cell, owner, join
  <1>20. CASE StoreWaker
    BY <1>20 DEF StoreWaker, JGoto, JUnchanged, state, cell, owner, join
  <1>21. CASE SetJoinWaker
    BY <1>21 DEF SetJoinWaker, JGoto, JUnchanged, state, cell, owner, join
  <1>22. CASE ClearWaker
    BY <1>22 DEF ClearWaker, JGoto, JUnchanged, state, cell, owner, join
  <1>23. CASE TakeOutput
    BY <1>23 DEF TakeOutput, JGoto, JUnchanged, state, cell, owner, join
  <1>24. CASE DropJoinHandle
    BY <1>24 DEF DropJoinHandle, JGoto, JUnchanged, state, cell, owner, join
  <1>25. CASE UnsetJoinInterested
    BY <1>25 DEF UnsetJoinInterested, JGoto, JUnchanged, state, cell, owner, join
  <1>26. CASE DropJoinOutput
    BY <1>26 DEF DropJoinOutput, JGoto, JUnchanged, state, cell, owner, join
  <1>27. CASE DropJoinRef
    BY <1>27 DEF DropJoinRef, DropReference, JGoto, JUnchanged, state, cell, owner, join
  <1>28. ASSUME NEW r \in Remotes, HandOver(r)
        PROVE  OwnerInv' /\ QueueInv' /\ RunnableIsIdle'
    BY <1>28 DEF HandOver, state, cell, owner, join
  <1>29. ASSUME NEW r \in Remotes, RemoteWakeByVal(r)
        PROVE  OwnerInv' /\ QueueInv' /\ RunnableIsIdle'
    BY <1>29 DEF RemoteWakeByVal, Goto, TransitionToNotifiedWithoutSubmit,
       MustSubmit, state, cell, owner, join
  <1>30. ASSUME NEW r \in Remotes, RemoteWakeByRef(r)
        PROVE  OwnerInv' /\ QueueInv' /\ RunnableIsIdle'
    BY <1>30 DEF RemoteWakeByRef, Goto, TransitionToNotifiedWithoutSubmit,
       MustSubmit, state, cell, owner, join
  <1>31. ASSUME NEW r \in Remotes, RemoteIncRef(r)
        PROVE  OwnerInv' /\ QueueInv' /\ RunnableIsIdle'
    BY <1>31 DEF RemoteIncRef, RefInc, Goto, state, cell, owner, join
  <1>32. ASSUME NEW r \in Remotes, SendWaker(r)
        PROVE  OwnerInv' /\ QueueInv' /\ RunnableIsIdle'
    BY <1>32 DEF SendWaker, Goto, state, cell, owner, join
  <1>33. ASSUME NEW r \in Remotes, SendFails(r)
        PROVE  OwnerInv' /\ QueueInv' /\ RunnableIsIdle'
    BY <1>33 DEF SendFails, Goto, state, cell, owner, join
  <1>34. ASSUME NEW r \in Remotes, RemoteDrop(r)
        PROVE  OwnerInv' /\ QueueInv' /\ RunnableIsIdle'
    BY <1>34 DEF RemoteDrop, DropReference, Goto, state, cell, owner, join
  <1>35. ASSUME NEW r \in Remotes, NEW s \in Remotes, RemoteClone(r, s)
        PROVE  OwnerInv' /\ QueueInv' /\ RunnableIsIdle'
    BY <1>35 DEF RemoteClone, RefInc, Goto, state, cell, owner, join
  <1>36. CASE UNCHANGED vars
    BY <1>36 DEF vars, state, cell, owner, join
  <1> QED
    BY <1>1, <1>2, <1>3, <1>4, <1>5, <1>6, <1>7, <1>8, <1>9, <1>10, <1>11, <1>12,
       <1>13, <1>14, <1>15, <1>16, <1>17, <1>18, <1>19, <1>20, <1>21, <1>22, <1>23,
       <1>24, <1>25, <1>26, <1>27, <1>28, <1>29, <1>30, <1>31, <1>32, <1>33, <1>34,
       <1>35, <1>36
       DEF Next, OwnerStep, RemoteStep, JoinStep

(* Every step keeps JoinInv, OutputInv and RegisteredInv. *)
LEMMA JoinStepInv ==
  ASSUME TypeOK, OwnerInv, RunnableIsIdle, JoinInv, OutputInv, RegisteredInv, [Next]_vars
  PROVE  JoinInv' /\ OutputInv' /\ RegisteredInv'
  <1> USE DEF TypeOK, OwnerInv, RunnableIsIdle, JoinInv, OutputInv, RegisteredInv, OwnerPCs, JoinPCs
  <1>1. CASE TransitionToRunning
    BY <1>1 DEF TransitionToRunning, state, cell, owner, join
  <1>2. CASE TransitionToIdle
    BY <1>2 DEF TransitionToIdle, state, cell, owner, join
  <1>3. CASE YieldNow
    BY <1>3 DEF YieldNow, RefInc, state, cell, owner, join
  <1>4. CASE PollReady
    BY <1>4 DEF PollReady, state, cell, owner, join
  <1>5. CASE Complete
    BY <1>5 DEF Complete, state, cell, owner, join
  <1>6. CASE DropOutput
    BY <1>6 DEF DropOutput, state, cell, owner, join
  <1>7. CASE WakeJoin
    BY <1>7 DEF WakeJoin, state, cell, owner, join
  <1>8. CASE DropTask
    BY <1>8 DEF DropTask, DropReference, state, cell, owner, join
  <1>9. CASE PollPanic
    BY <1>9 DEF PollPanic, DropReference, state, cell, owner, join
  <1>10. CASE CloneLocal
    BY <1>10 DEF CloneLocal, RefInc, state, cell, owner, join
  <1>11. CASE LocalDrop
    BY <1>11 DEF LocalDrop, OwnerActive, DropReference, state, cell, owner, join
  <1>12. CASE LocalWakeByVal
    BY <1>12 DEF LocalWakeByVal, OwnerActive, WakeByValHere, DropReference,
       TransitionToNotified, MustSubmit, state, cell, owner, join
  <1>13. CASE LocalWakeByRef
    BY <1>13 DEF LocalWakeByRef, OwnerActive, RefInc, TransitionToNotified,
       MustSubmit, state, cell, owner, join
  <1>14. CASE DrainWaker
    BY <1>14 DEF DrainWaker, WakeByValHere, DropReference, TransitionToNotified,
       MustSubmit, state, cell, owner, join
  <1>15. CASE Shutdown
    BY <1>15 DEF Shutdown, state, cell, owner, join
  <1>16. CASE DropQueued
    BY <1>16 DEF DropQueued, DropReference, state, cell, owner, join
  <1>17. CASE DropChanneled
    BY <1>17 DEF DropChanneled, DropReference, state, cell, owner, join
  <1>18. ASSUME NEW w \in JoinWakers, PollJoin(w)
        PROVE  JoinInv' /\ OutputInv' /\ RegisteredInv'
    BY <1>18, TaskAssumption DEF PollJoin, JGoto, JUnchanged, state, cell, owner, join
  <1>19. CASE UnsetWaker
    BY <1>19 DEF UnsetWaker, JGoto, JUnchanged, state, cell, owner, join
  <1>20. CASE StoreWaker
    BY <1>20 DEF StoreWaker, JGoto, JUnchanged, state, cell, owner, join
  <1>21. CASE SetJoinWaker
    BY <1>21 DEF SetJoinWaker, JGoto, JUnchanged, state, cell, owner, join
  <1>22. CASE ClearWaker
    BY <1>22 DEF ClearWaker, JGoto, JUnchanged, state, cell, owner, join
  <1>23. CASE TakeOutput
    BY <1>23 DEF TakeOutput, JGoto, JUnchanged, state, cell, owner, join
  <1>24. CASE DropJoinHandle
    BY <1>24 DEF DropJoinHandle, JGoto, JUnchanged, state, cell, owner, join
  <1>25. CASE UnsetJoinInterested
    BY <1>25 DEF UnsetJoinInterested, JGoto, JUnchanged, state, cell, owner, join
  <1>26. CASE DropJoinOutput
    BY <1>26 DEF DropJoinOutput, JGoto, JUnchanged, state, cell, owner, join
  <1>27. CASE DropJoinRef
    BY <1>27 DEF DropJoinRef, DropReference, JGoto, JUnchanged, state, cell, owner, join
  <1>28. ASSUME NEW r \in Remotes, HandOver(r)
        PROVE  JoinInv' /\ OutputInv' /\ RegisteredInv'
    BY <1>28 DEF HandOver, state, cell, owner, join
  <1>29. ASSUME NEW r \in Remotes, RemoteWakeByVal(r)
        PROVE  JoinInv' /\ OutputInv' /\ RegisteredInv'
    BY <1>29 DEF RemoteWakeByVal, Goto, TransitionToNotifiedWithoutSubmit,
       MustSubmit, state, cell, owner, join
  <1>30. ASSUME NEW r \in Remotes, RemoteWakeByRef(r)
        PROVE  JoinInv' /\ OutputInv' /\ RegisteredInv'
    BY <1>30 DEF RemoteWakeByRef, Goto, TransitionToNotifiedWithoutSubmit,
       MustSubmit, state, cell, owner, join
  <1>31. ASSUME NEW r \in Remotes, RemoteIncRef(r)
        PROVE  JoinInv' /\ OutputInv' /\ RegisteredInv'
    BY <1>31 DEF RemoteIncRef, RefInc, Goto, state, cell, owner, join
  <1>32. ASSUME NEW r \in Remotes, SendWaker(r)
        PROVE  JoinInv' /\ OutputInv' /\ RegisteredInv'
    BY <1>32 DEF SendWaker, Goto, state, cell, owner, join
  <1>33. ASSUME NEW r \in Remotes, SendFails(r)
        PROVE  JoinInv' /\ OutputInv' /\ RegisteredInv'
    BY <1>33 DEF SendFails, Goto, state, cell, owner, join
  <1>34. ASSUME NEW r \in Remotes, RemoteDrop(r)
        PROVE  JoinInv' /\ OutputInv' /\ RegisteredInv'
    BY <1>34 DEF RemoteDrop, DropReference, Goto, state, cell, owner, join
  <1>35. ASSUME NEW r \in Remotes, NEW s \in Remotes, RemoteClone(r, s)
        PROVE  JoinInv' /\ OutputInv' /\ RegisteredInv'
    BY <1>35 DEF RemoteClone, RefInc, Goto, state, cell, owner, join
  <1>36. CASE UNCHANGED vars
    BY <1>36 DEF vars, state, cell, owner, join
  <1> QED
    BY <1>1, <1>2, <1>3, <1>4, <1>5, <1>6, <1>7, <1>8, <1>9, <1>10, <1>11, <1>12,
       <1>13, <1>14, <1>15, <1>16, <1>17, <1>18, <1>19, <1>20, <1>21, <1>22, <1>23,
       <1>24, <1>25, <1>26, <1>27, <1>28, <1>29, <1>30, <1>31, <1>32, <1>33, <1>34,
       <1>35, <1>36
       DEF Next, OwnerStep, RemoteStep, JoinStep

(* No step loses a wake. *)
LEMMA WakeStep ==
  ASSUME TypeOK, OwnerInv, QueueInv, RunnableIsIdle, NoLostWake, [Next]_vars
  PROVE  NoLostWake'
  <1> USE DEF TypeOK, OwnerInv, QueueInv, RunnableIsIdle, NoLostWake, Panicked, OwnerPCs, RemotePCs
  <1>1. CASE TransitionToRunning
    BY <1>1 DEF TransitionToRunning, state, cell, owner, join
  <1>2. CASE TransitionToIdle
    BY <1>2 DEF TransitionToIdle, state, cell, owner, join
  <1>3. CASE YieldNow
    BY <1>3 DEF YieldNow, RefInc, state, cell, owner, join
  <1>4. CASE PollReady
    BY <1>4 DEF PollReady, state, cell, owner, join
  <1>5. CASE Complete
    BY <1>5 DEF Complete, state, cell, owner, join
  <1>6. CASE DropOutput
    BY <1>6 DEF DropOutput, state, cell, owner, join
  <1>7. CASE WakeJoin
    BY <1>7 DEF WakeJoin, state, cell, owner, join
  <1>8. CASE DropTask
    BY <1>8 DEF DropTask, DropReference, state, cell, owner, join
  <1>9. CASE PollPanic
    BY <1>9 DEF PollPanic, DropReference, state, cell, owner, join
  <1>10. CASE CloneLocal
    BY <1>10 DEF CloneLocal, RefInc, state, cell, owner, join
  <1>11. CASE LocalDrop
    BY <1>11 DEF LocalDrop, OwnerActive, DropReference, state, cell, owner, join
  <1>12. CASE LocalWakeByVal
    BY <1>12 DEF LocalWakeByVal, OwnerActive, WakeByValHere, DropReference,
       TransitionToNotified, MustSubmit, state, cell, owner, join
  <1>13. CASE LocalWakeByRef
    BY <1>13 DEF LocalWakeByRef, OwnerActive, RefInc, TransitionToNotified,
       MustSubmit, state, cell, owner, join
  <1>14. CASE DrainWaker
    BY <1>14 DEF DrainWaker, WakeByValHere, DropReference, TransitionToNotified,
       MustSubmit, state, cell, owner, join
  <1>15. CASE Shutdown
    BY <1>15 DEF Shutdown, state, cell, owner, join
  <1>16. CASE DropQueued
    BY <1>16 DEF DropQueued, DropReference, state, cell, owner, join
  <1>17. CASE DropChanneled
    BY <1>17 DEF DropChanneled, DropReference, state, cell, owner, join
  <1>18. ASSUME NEW w \in JoinWakers, PollJoin(w)
        PROVE  NoLostWake'
    BY <1>18 DEF PollJoin, JGoto, JUnchanged, state, cell, owner, join
  <1>19. CASE UnsetWaker
    BY <1>19 DEF UnsetWaker, JGoto, JUnchanged, state, cell, owner, join
  <1>20. CASE StoreWaker
    BY <1>20 DEF StoreWaker, JGoto, JUnchanged, state, cell, owner, join
  <1>21. CASE SetJoinWaker
    BY <1>21 DEF SetJoinWaker, JGoto, JUnchanged, state, cell, owner, join
  <1>22. CASE ClearWaker
    BY <1>22 DEF ClearWaker, JGoto, JUnchanged, state, cell, owner, join
  <1>23. CASE TakeOutput
    BY <1>23 DEF TakeOutput, JGoto, JUnchanged, state, cell, owner, join
  <1>24. CASE DropJoinHandle
    BY <1>24 DEF DropJoinHandle, JGoto, JUnchanged, state, cell, owner, join
  <1>25. CASE UnsetJoinInterested
    BY <1>25 DEF UnsetJoinInterested, JGoto, JUnchanged, state, cell, owner, join
  <1>26. CASE DropJoinOutput
    BY <1>26 DEF DropJoinOutput, JGoto, JUnchanged, state, cell, owner, join
  <1>27. CASE DropJoinRef
    BY <1>27 DEF DropJoinRef, DropReference, JGoto, JUnchanged, state, cell, owner, join
  <1>28. ASSUME NEW r \in Remotes, HandOver(r)
        PROVE  NoLostWake'
    BY <1>28 DEF HandOver, state, cell, owner, join
  <1>29. ASSUME NEW r \in Remotes, RemoteWakeByVal(r)
        PROVE  NoLostWake'
    BY <1>29 DEF RemoteWakeByVal, Goto, TransitionToNotifiedWithoutSubmit,
       MustSubmit, state, cell, owner, join
  <1>30. ASSUME NEW r \in Remotes, RemoteWakeByRef(r)
        PROVE  NoLostWake'
    BY <1>30 DEF RemoteWakeByRef, Goto, TransitionToNotifiedWithoutSubmit,
       MustSubmit, state, cell, owner, join
  <1>31. ASSUME NEW r \in Remotes, RemoteIncRef(r)
        PROVE  NoLostWake'
    BY <1>31 DEF RemoteIncRef, RefInc, Goto, state, cell, owner, join
  <1>32. ASSUME NEW r \in Remotes, SendWaker(r)
        PROVE  NoLostWake'
    BY <1>32 DEF SendWaker, Goto, state, cell, owner, join
  <1>33. ASSUME NEW r \in Remotes, SendFails(r)
        PROVE  NoLostWake'
    BY <1>33 DEF SendFails, Goto, state, cell, owner, join
  <1>34. ASSUME NEW r \in Remotes, RemoteDrop(r)
        PROVE  NoLostWake'
    BY <1>34 DEF RemoteDrop, DropReference, Goto, state, cell, owner, join
  <1>35. ASSUME NEW r \in Remotes, NEW s \in Remotes, RemoteClone(r, s)
        PROVE  NoLostWake'
    BY <1>35 DEF RemoteClone, RefInc, Goto, state, cell, owner, join
  <1>36. CASE UNCHANGED vars
    BY <1>36 DEF vars, state, cell, owner, join
  <1> QED
    BY <1>1, <1>2, <1>3, <1>4, <1>5, <1>6, <1>7, <1>8, <1>9, <1>10, <1>11, <1>12,
       <1>13, <1>14, <1>15, <1>16, <1>17, <1>18, <1>19, <1>20, <1>21, <1>22, <1>23,
       <1>24, <1>25, <1>26, <1>27, <1>28, <1>29, <1>30, <1>31, <1>32, <1>33, <1>34,
       <1>35, <1>36
       DEF Next, OwnerStep, RemoteStep, JoinStep

-----------------------------------------------------------------------------
(* The invariant holds initially. *)
LEMMA InitInv == Init => TaskInv
  <1> SUFFICES ASSUME Init PROVE TaskInv
    OBVIOUS
  <1>1. TypeOK
    <2>1. BoolOK
      BY Zenon DEF Init, BoolOK
    <2>2. DataOK
      BY DEF Init, DataOK, OwnerPCs, RemotePCs, JoinPCs
    <2> QED
      BY <2>1, <2>2 DEF TypeOK, BoolOK, DataOK
  <1>2. RefCountExact
    <2>1. RemoteHolders = {} /\ RemoteExtra = {}
      BY DEF Init, RemoteHolders, RemoteExtra
    <2>2. Cardinality(RemoteHolders) = 0 /\ Cardinality(RemoteExtra) = 0
      BY <2>1, FS_EmptySet, Zenon
    <2> QED
      BY <2>2 DEF Init, RefCountExact, Handles, RunHolds, JoinHolds
  <1>3. RunnableIsIdle /\ OwnerInv /\ QueueInv /\ JoinInv /\ OutputInv /\ RegisteredInv /\ NoLostWake
    BY DEF Init, RunnableIsIdle, OwnerInv, QueueInv, JoinInv, OutputInv,
       RegisteredInv, NoLostWake
  <1> QED
    BY <1>1, <1>2, <1>3 DEF TaskInv

(* Every step keeps the invariant. *)
LEMMA NextInv == TaskInv /\ [Next]_vars => TaskInv'
  <1> SUFFICES ASSUME TaskInv, [Next]_vars PROVE TaskInv'
    OBVIOUS
  <1>1. refs' \in Nat /\ RefCountExact'
    BY CountStep DEF TaskInv
  <1>2. TypeOK'
    <2>1. BoolOK /\ DataOK
      BY DEF TaskInv, TypeOK, BoolOK, DataOK
    <2>2. BoolOK' /\ DataOK'
      BY <1>1, <2>1, BoolStep, DataStep
    <2> QED
      BY <2>2 DEF TypeOK, BoolOK, DataOK
  <1>3. OwnerInv' /\ QueueInv' /\ RunnableIsIdle'
    BY OwnerStepInv DEF TaskInv
  <1>4. JoinInv' /\ OutputInv' /\ RegisteredInv'
    BY JoinStepInv DEF TaskInv
  <1>5. NoLostWake'
    BY WakeStep DEF TaskInv
  <1> QED
    BY <1>1, <1>2, <1>3, <1>4, <1>5 DEF TaskInv

(* The inductive invariant holds in every reachable state of a task cell.  *)
THEOREM TaskInvariant == Spec => []TaskInv
  BY InitInv, NextInv, PTL DEF Spec

(* Type correctness. *)
THEOREM TypeCorrect == Spec => []TypeOK
  <1>1. TaskInv => TypeOK
    BY DEF TaskInv
  <1> QED
    BY <1>1, TaskInvariant, PTL

(* The reference count is exact, whatever the interleaving of wakes,       *)
(* polls, drops and a shutdown: no use after free, no leak (harness.rs).   *)
THEOREM RefCounting == Spec => []RefCountExact
  <1>1. TaskInv => RefCountExact
    BY DEF TaskInv
  <1> QED
    BY <1>1, TaskInvariant, PTL

(* transition_to_running is only called on an idle, notified task, and at  *)
(* most one handle is queued.                                              *)
THEOREM Runnable == Spec => []RunnableIsIdle
  <1>1. TaskInv => RunnableIsIdle
    BY DEF TaskInv
  <1> QED
    BY <1>1, TaskInvariant, PTL

(* No wake is lost between the owner's transitions and a remote            *)
(* transition_to_notified_without_submit.                                  *)
THEOREM NoWakeLost == Spec => []NoLostWake
  <1>1. TaskInv => NoLostWake
    BY DEF TaskInv
  <1> QED
    BY <1>1, TaskInvariant, PTL

(* The owner and the JoinHandle never touch the stage or the trailer at    *)
(* the same time.                                                          *)
THEOREM RaceFree == Spec => []NoDataRace
  <1>1. TaskInv => NoDataRace
    BY DEF TaskInv, TypeOK, OwnerInv, JoinInv, OutputInv, NoDataRace, OwnerPCs, JoinPCs
  <1> QED
    BY <1>1, TaskInvariant, PTL

(* wake_join always finds a waker and take_output always finds an output.  *)
THEOREM JoinNeverPanics == Spec => []NoPanicOnJoin
  <1>1. TaskInv => NoPanicOnJoin
    BY DEF TaskInv, TypeOK, OwnerInv, JoinInv, OutputInv, NoPanicOnJoin
  <1> QED
    BY <1>1, TaskInvariant, PTL

(* A JoinHandle that returned Pending has been woken once complete() is    *)
(* through.                                                                *)
THEOREM JoinWoken == Spec => []JoinerWoken
  <1>1. TaskInv => JoinerWoken
    BY DEF TaskInv, TypeOK, RegisteredInv, JoinerWoken
  <1> QED
    BY <1>1, TaskInvariant, PTL

(* No output is ever dropped with the cell, by whichever thread frees it.  *)
THEOREM OutputStaysHome == Spec => []OutputNotFreedWithCell
  <1>1. TaskInv => OutputNotFreedWithCell
    <2> SUFFICES ASSUME TaskInv, ~alloc, stage = "Finished" PROVE FALSE
      BY DEF OutputNotFreedWithCell
    <2>1. Cardinality(RemoteHolders) \in Nat /\ Cardinality(RemoteExtra) \in Nat
      <3>1. IsFiniteSet(RemoteHolders) /\ IsFiniteSet(RemoteExtra)
        <4>1. RemoteHolders \subseteq Remotes /\ RemoteExtra \subseteq Remotes
          BY DEF RemoteHolders, RemoteExtra
        <4> QED
          BY <4>1, FS_Subset, TaskAssumption
      <3> QED
        BY <3>1, FS_CardinalityType
    <2>2. opc = "idle" /\ jpc = "gone"
      BY <2>1 DEF TaskInv, TypeOK, RefCountExact, Handles, RunHolds, JoinHolds
    <2> QED
      BY <2>2 DEF TaskInv, TypeOK, OwnerInv, OutputInv
  <1> QED
    BY <1>1, TaskInvariant, PTL

(* COMPLETE is never unset, and JOIN_INTEREST never set again (state.rs).  *)
THEOREM CompletionIsFinal == Spec => CompleteIsFinal
  <1>1. TaskInv /\ [Next]_vars
          => [(life = "complete" => life' = "complete") /\ (joinInterest' => joinInterest)]_vars
    <2> SUFFICES ASSUME TaskInv, [Next]_vars
                 PROVE  (life = "complete" => life' = "complete") /\ (joinInterest' => joinInterest)
      OBVIOUS
    <2> USE DEF TaskInv, TypeOK, OwnerInv, RunnableIsIdle, state, cell, owner, join
    <2>1. CASE OwnerStep
      BY <2>1 DEF OwnerStep, TransitionToRunning, TransitionToIdle, YieldNow, PollReady,
         Complete, DropOutput, WakeJoin, DropTask, PollPanic, CloneLocal, LocalDrop,
         LocalWakeByVal, LocalWakeByRef, DrainWaker, WakeByValHere, Shutdown, DropQueued,
         DropChanneled
    <2>2. CASE \E r \in Remotes : RemoteStep(r)
      BY <2>2 DEF RemoteStep, HandOver, RemoteWakeByVal, RemoteWakeByRef, RemoteIncRef,
         SendWaker, SendFails, RemoteDrop, RemoteClone
    <2>3. CASE JoinStep
      BY <2>3 DEF JoinStep, PollJoin, UnsetWaker, StoreWaker, SetJoinWaker, ClearWaker,
         TakeOutput, DropJoinHandle, UnsetJoinInterested, DropJoinOutput, DropJoinRef
    <2>4. CASE UNCHANGED vars
      BY <2>4 DEF vars
    <2> QED
      BY <2>1, <2>2, <2>3, <2>4 DEF Next
  <1> QED
    BY <1>1, TaskInvariant, PTL DEF Spec, CompleteIsFinal
=============================================================================
