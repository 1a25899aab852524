--------------------------- MODULE LegacyIoProofs ---------------------------
(***************************************************************************)
(* Descriptors have their owners and no readiness is lost, for every set   *)
(* of files, descriptor numbers and directions, every finite set of        *)
(* operations and every number of clones.  At the end, the slab the driver *)
(* keeps the readiness of its descriptors in: it implements a map from     *)
(* keys to values, for every number and size of pages.                     *)
(***************************************************************************)
EXTENDS LegacyIo, Slab, SequenceTheorems, FiniteSetTheorems, WellFoundedInduction, TLAPS

(* The states of an Inner that is in use.                                  *)
LiveSt == {"Init", "Waiting", "Poll", "Legacy"}

(* Somebody holds a clone. *)
Owned(f) == handles[f] > 0 \/ closer[f] # "none" \/ \E o \in Ops : opOf[o] = f

(* A clone keeps its Inner alive, and an Inner in use has a clone.         *)
OwnerInv ==
  /\ \A f \in Files :
       /\ handles[f] > 0 => st[f] \in LiveSt
       /\ closer[f] = "wait" => st[f] \in LiveSt
       /\ closer[f] = "closing" => st[f] = "Closing"
       /\ st[f] = "Closing" => closer[f] = "closing"
       /\ st[f] \in LiveSt => Owned(f)
       /\ f \in pend => st[f] \in {"Closing", "gone", "twice"}
  /\ \A o \in Ops : /\ opOf[o] # NoFile => st[opOf[o]] \in LiveSt
                    /\ opOf[o] = NoFile <=> opAt[o] = "none"

(* f's number has not been closed yet.                                     *)
Holds(f) == st[f] \in LiveSt \cup {"raw"} \/ f \in pend

(* The kernel's table and the Inners agree, until a close() finds no room  *)
(* for its entry and closes a number twice.                                *)
TableInv ==
  /\ \A n \in Fds : table[n] # NoFile => fdOf[table[n]] = n /\ Holds(table[n])
  /\ (\A f \in Files : st[f] # "twice") =>
       /\ strayed = {}
       /\ \A f \in Files : Holds(f) => table[fdOf[f]] = f

(* The legacy driver has no uring states, and the other way round.         *)
ModeInv ==
  /\ legacy => \A f \in Files : st[f] \in {"new", "Legacy", "raw", "gone"}
  /\ ~legacy => /\ \A f \in Files : st[f] # "Legacy"
                /\ \A o \in Ops : opAt[o] # "wait"

FdInv == FdTypeOK /\ OwnerInv /\ TableInv /\ ModeInv /\ ScheduledIoAlive

-----------------------------------------------------------------------------
(* Rc::strong_count.                                                       *)

(* A count of one, seen by an owner, means that there is no other owner.   *)
LEMMA RefsFacts ==
  ASSUME FdTypeOK, NEW f \in Files
  PROVE  /\ Refs(f) > 0 <=> Owned(f)
         /\ handles[f] > 0 =>
              (Refs(f) = 1 <=> /\ handles[f] = 1 /\ closer[f] = "none"
                               /\ \A o \in Ops : opOf[o] # f)
         /\ closer[f] # "none" =>
              (Refs(f) = 1 <=> handles[f] = 0 /\ \A o \in Ops : opOf[o] # f)
         /\ \A o \in Ops : opOf[o] = f =>
              (Refs(f) = 1 <=> /\ handles[f] = 0 /\ closer[f] = "none"
                               /\ \A p \in Ops : opOf[p] = f => p = o)
  <1> DEFINE c == Cardinality(OpsOn(f))
  <1>1. IsFiniteSet(OpsOn(f))
    BY SharedFdAssumption, FS_Subset DEF OpsOn
  <1>2. c \in Nat /\ (c = 0 <=> \A o \in Ops : opOf[o] # f)
    BY <1>1, FS_CardinalityType, FS_EmptySet DEF OpsOn
  <1>3. \A o \in Ops : opOf[o] = f => (c = 1 <=> \A p \in Ops : opOf[p] = f => p = o)
    <2> SUFFICES ASSUME NEW o \in Ops, opOf[o] = f
                 PROVE  c = 1 <=> \A p \in Ops : opOf[p] = f => p = o
      OBVIOUS
    <2>1. o \in OpsOn(f)
      BY DEF OpsOn
    <2>2. c = 1 <=> \E x : OpsOn(f) = {x}
      BY <1>1, FS_Singleton, Zenon
    <2>3. c = 1 <=> OpsOn(f) = {o}
      BY <2>1, <2>2
    <2> QED
      BY <2>1, <2>3 DEF OpsOn
  <1>4. handles[f] \in Nat
    BY SharedFdAssumption DEF FdTypeOK
  <1>5. Refs(f) = handles[f] + c + (IF closer[f] = "none" THEN 0 ELSE 1)
    BY DEF Refs
  <1> HIDE DEF c
  <1> QED
    BY <1>2, <1>3, <1>4, <1>5 DEF Owned

-----------------------------------------------------------------------------
(* No file has been opened.                                                *)
LEMMA InitFdInv == FdInit => FdInv
  <1> SUFFICES ASSUME FdInit
               PROVE  FdInv
    OBVIOUS
  <1>1. FdTypeOK
    <2>1. fdOf \in [Files -> Fds]
      BY SharedFdAssumption DEF FdInit
    <2>2. handles \in [Files -> 0..MaxHandles]
      BY SharedFdAssumption DEF FdInit
    <2> QED
      BY <2>1, <2>2 DEF FdInit, FdTypeOK
  <1>2. OwnerInv
    BY SharedFdAssumption DEF FdInit, OwnerInv, LiveSt
  <1>3. TableInv
    BY DEF FdInit, TableInv, Holds, LiveSt
  <1>4. ModeInv /\ ScheduledIoAlive
    BY DEF FdInit, ModeInv, ScheduledIoAlive
  <1> QED
    BY <1>1, <1>2, <1>3, <1>4 DEF FdInv

(* Closing the number of a file that has not been closed frees it, and it  *)
(* alone; whatever is closed, no entry of the table appears or moves.      *)
LEMMA CloseNumberFacts ==
  ASSUME FdInv, NEW f \in Files, CloseNumber(f)
  PROVE  /\ table' \in [Fds -> Files \cup {NoFile}]
         /\ strayed' \subseteq Files
         /\ \A n \in Fds : table'[n] # NoFile => table'[n] = table[n] /\ table[n] # f
         /\ Holds(f) /\ (\A g \in Files : st[g] # "twice") =>
              /\ strayed' = {}
              /\ \A g \in Files : g # f /\ Holds(g) => table'[fdOf[g]] = g
  <1> USE DEF FdInv, FdTypeOK
  <1>1. /\ table' = [table EXCEPT ![fdOf[f]] = NoFile]
        /\ strayed' = IF table[fdOf[f]] \in {f, NoFile} THEN strayed ELSE strayed \cup {f}
    BY DEF CloseNumber, UseNumber
  <1>2. table' \in [Fds -> Files \cup {NoFile}] /\ strayed' \subseteq Files
    BY <1>1
  <1>3. \A n \in Fds : table'[n] # NoFile => table'[n] = table[n] /\ table[n] # f
    BY <1>1 DEF TableInv
  <1>4. ASSUME Holds(f), \A g \in Files : st[g] # "twice"
        PROVE  /\ strayed' = {}
               /\ \A g \in Files : g # f /\ Holds(g) => table'[fdOf[g]] = g
    <2>1. strayed = {} /\ \A g \in Files : Holds(g) => table[fdOf[g]] = g
      BY <1>4 DEF TableInv
    <2>2. table[fdOf[f]] = f
      BY <1>4, <2>1
    <2>3. strayed' = {}
      BY <1>1, <2>1, <2>2
    <2>4. \A g \in Files : g # f /\ Holds(g) => table'[fdOf[g]] = g
      BY <1>1, <2>1, <2>2
    <2> QED
      BY <2>3, <2>4
  <1> QED
    BY <1>2, <1>3, <1>4

(* A clone of f goes: the step takes one owner of f away, and the Inner    *)
(* with the last of them.                                                  *)
LEMMA ReleaseKeepsFdInv ==
  ASSUME FdInv, NEW f \in Files, Release(f), UNCHANGED legacy, Owned(f),
         /\ handles' \in [Files -> 0..MaxHandles]
         /\ closer' \in [Files -> {"none", "wait", "closing"}]
         /\ opOf' \in [Ops -> Files \cup {NoFile}]
         /\ opAt' \in [Ops -> {"none", "sq", "kernel", "wait"}],
         \A g \in Files : /\ handles'[g] > 0 => handles[g] > 0
                          /\ closer'[g] = closer[g] \/ (g = f /\ closer'[g] = "none"),
         \A o \in Ops : \/ opOf'[o] = opOf[o] /\ opAt'[o] = opAt[o]
                        \/ opOf'[o] = NoFile /\ opAt'[o] = "none",
         \A g \in Files : g # f => (Owned(g) => Owned(g)'),
         Owned(f)' <=> Refs(f) # 1
  PROVE  FdInv'
  <1> USE DEF FdInv
  <1>1. st[f] \in LiveSt \cup {"Closing"}
    BY SharedFdAssumption DEF OwnerInv, Owned, FdTypeOK
  <1>2. CASE Refs(f) # 1
    <2>1. UNCHANGED <<table, st, pend, reg, strayed, fdOf, legacy>>
      BY <1>2 DEF Release
    <2>2. closer'[f] = closer[f] \/ st[f] # "Closing"
      <3>1. st[f] = "Closing" => handles[f] = 0 /\ closer[f] = "closing" /\ \A o \in Ops : opOf[o] # f
        BY SharedFdAssumption DEF OwnerInv, LiveSt, FdTypeOK
      <3> QED
        BY <1>2, <3>1, RefsFacts
    <2>3. FdTypeOK'
      BY <2>1 DEF FdTypeOK
    <2>4. OwnerInv'
      BY <1>2, <2>1, <2>2, SharedFdAssumption DEF OwnerInv, LiveSt, FdTypeOK
    <2>5. TableInv'
      BY <2>1 DEF TableInv, Holds
    <2>6. ModeInv' /\ ScheduledIoAlive'
      BY <2>1 DEF ModeInv, ScheduledIoAlive, FdTypeOK
    <2> QED
      BY <2>3, <2>4, <2>5, <2>6
  <1>3. CASE Refs(f) = 1
    <2>1. /\ st' = [st EXCEPT ![f] = "gone"]
          /\ UNCHANGED <<fdOf, legacy>>
          /\ \/ st[f] \in LiveSt /\ CloseNumber(f) /\ reg' \in {reg, reg \ {f}} /\ pend' = pend
             \/ st[f] \in LiveSt /\ pend' = pend \cup {f} /\ UNCHANGED <<table, reg, strayed>>
             \/ st[f] = "Closing" /\ UNCHANGED <<table, pend, reg, strayed>>
      BY <1>3 DEF Release, InnerDrop, LiveSt
    <2>2. FdTypeOK'
      BY <2>1, CloseNumberFacts DEF FdTypeOK
    <2>3. OwnerInv'
      <3>1. \A g \in Files : g # f => st'[g] = st[g] /\ (g \in pend' => g \in pend)
        BY <2>1 DEF FdTypeOK
      <3>2. st'[f] = "gone"
        BY <2>1 DEF FdTypeOK
      <3>3. handles'[f] = 0 /\ closer'[f] = "none" /\ \A o \in Ops : opOf'[o] # f
        BY <1>3, SharedFdAssumption DEF Owned
      <3> QED
        BY <3>1, <3>2, <3>3, SharedFdAssumption DEF OwnerInv, LiveSt, FdTypeOK
    <2>4. TableInv'
      <3>1. \A g \in Files : g # f => (Holds(g)' <=> Holds(g))
        BY <2>1 DEF Holds, FdTypeOK
      <3>2. CASE st[f] \in LiveSt /\ CloseNumber(f) /\ pend' = pend
        <4>1. ~Holds(f)'
          BY <2>1, <3>2 DEF Holds, LiveSt, FdTypeOK, OwnerInv
        <4>2. Holds(f)
          BY <3>2 DEF Holds
        <4>3. (\A n \in Fds : table[n] # NoFile => fdOf[table[n]] = n /\ Holds(table[n]))'
          <5> SUFFICES ASSUME NEW n \in Fds, table'[n] # NoFile
                       PROVE  (fdOf[table[n]] = n /\ Holds(table[n]))'
            OBVIOUS
          <5>1. table'[n] = table[n] /\ table[n] # f /\ table[n] \in Files
            BY <3>2, CloseNumberFacts DEF FdTypeOK
          <5>2. fdOf[table[n]] = n /\ Holds(table[n])
            BY <5>1 DEF TableInv
          <5> QED
            BY <2>1, <3>1, <5>1, <5>2 DEF Holds
        <4>4. (\A g \in Files : st'[g] # "twice") =>
                strayed' = {} /\ \A g \in Files : Holds(g)' => table'[fdOf'[g]] = g
          <5>1. (\A g \in Files : st'[g] # "twice") => \A g \in Files : st[g] # "twice"
            BY <2>1, <3>2 DEF FdTypeOK, LiveSt
          <5> QED
            BY <2>1, <3>1, <3>2, <4>1, <4>2, <5>1, CloseNumberFacts DEF Holds
        <4> QED
          BY <4>3, <4>4 DEF TableInv
      <3>3. CASE st[f] \in LiveSt /\ pend' = pend \cup {f} /\ UNCHANGED <<table, strayed>>
        <4>1. Holds(f) /\ Holds(f)'
          BY <3>3 DEF Holds
        <4> QED
          BY <2>1, <3>1, <3>3, <4>1 DEF TableInv, FdTypeOK, LiveSt
      <3>4. CASE st[f] = "Closing" /\ UNCHANGED <<table, pend, strayed>>
        <4>1. Holds(f)' <=> Holds(f)
          BY <2>1, <3>4 DEF Holds, FdTypeOK, LiveSt
        <4> QED
          BY <2>1, <3>1, <3>4, <4>1 DEF TableInv, FdTypeOK
      <3> QED
        BY <2>1, <3>2, <3>3, <3>4
    <2>5. ModeInv' /\ ScheduledIoAlive'
      BY <2>1 DEF ModeInv, ScheduledIoAlive, FdTypeOK
    <2> QED
      BY <2>2, <2>3, <2>4, <2>5
  <1> QED
    BY <1>2, <1>3

(* The four ways in which a clone goes.                                    *)
LEMMA DropHandleKeepsFdInv ==
  ASSUME FdInv, NEW f \in Files, DropHandle(f), UNCHANGED legacy
  PROVE  FdInv'
  <1> USE DEF FdInv
  <1>1. /\ handles[f] > 0 /\ handles' = [handles EXCEPT ![f] = @ - 1]
        /\ Release(f) /\ UNCHANGED <<closer, opOf, opAt>>
    BY DEF DropHandle
  <1>2. handles' \in [Files -> 0..MaxHandles] /\ handles'[f] = handles[f] - 1
    BY <1>1, SharedFdAssumption DEF FdTypeOK
  <1>3. \A g \in Files : g # f => handles'[g] = handles[g]
    BY <1>1 DEF FdTypeOK
  <1>4. Owned(f)' <=> Refs(f) # 1
    BY <1>1, <1>2, RefsFacts, SharedFdAssumption DEF Owned, FdTypeOK
  <1>5. Owned(f) /\ \A g \in Files : g # f => (Owned(g) => Owned(g)')
    BY <1>1, <1>3 DEF Owned
  <1>6. \A g \in Files : handles'[g] > 0 => handles[g] > 0
    BY <1>1, <1>3
  <1> QED
    BY <1>1, <1>2, <1>4, <1>5, <1>6, ReleaseKeepsFdInv DEF FdTypeOK

(* An operation that ends releases its handle.                             *)
LEMMA EndOpKeepsFdInv ==
  ASSUME FdInv, NEW o \in Ops, EndOp(o), UNCHANGED legacy
  PROVE  FdInv'
  <1> USE DEF FdInv
  <1>1. PICK f \in Files : opOf[o] = f
    BY DEF EndOp, OwnerInv, FdTypeOK
  <1>2. /\ opOf' = [opOf EXCEPT ![o] = NoFile] /\ opAt' = [opAt EXCEPT ![o] = "none"]
        /\ Release(f) /\ UNCHANGED <<handles, closer>>
    BY <1>1 DEF EndOp
  <1>3. /\ opOf' \in [Ops -> Files \cup {NoFile}]
        /\ opAt' \in [Ops -> {"none", "sq", "kernel", "wait"}]
        /\ opOf'[o] = NoFile /\ opAt'[o] = "none"
        /\ \A p \in Ops : p # o => opOf'[p] = opOf[p] /\ opAt'[p] = opAt[p]
    BY <1>2 DEF FdTypeOK
  <1>4. Owned(f)
    BY <1>1 DEF Owned
  <1>5. Owned(f)' <=> Refs(f) # 1
    BY <1>1, <1>2, <1>3, RefsFacts, SharedFdAssumption DEF Owned, FdTypeOK
  <1>6. \A g \in Files : g # f => (Owned(g) => Owned(g)')
    BY <1>1, <1>2, <1>3 DEF Owned
  <1> QED
    BY <1>2, <1>3, <1>4, <1>5, <1>6, ReleaseKeepsFdInv DEF FdTypeOK

(* A close that returns, or whose future is dropped, releases its handle.  *)
LEMMA EndCloseKeepsFdInv ==
  ASSUME FdInv, NEW f \in Files, CloseReturns(f) \/ DropClose(f), UNCHANGED legacy
  PROVE  FdInv'
  <1> USE DEF FdInv
  <1>1. /\ closer[f] # "none" /\ closer' = [closer EXCEPT ![f] = "none"]
        /\ Release(f) /\ UNCHANGED <<handles, opOf, opAt>>
    BY DEF CloseReturns, DropClose
  <1>2. /\ closer' \in [Files -> {"none", "wait", "closing"}] /\ closer'[f] = "none"
        /\ \A g \in Files : g # f => closer'[g] = closer[g]
    BY <1>1 DEF FdTypeOK
  <1>3. Owned(f)' <=> Refs(f) # 1
    BY <1>1, <1>2, RefsFacts, SharedFdAssumption DEF Owned, FdTypeOK
  <1>4. Owned(f) /\ \A g \in Files : g # f => (Owned(g) => Owned(g)')
    BY <1>1, <1>2 DEF Owned
  <1> QED
    BY <1>1, <1>2, <1>3, <1>4, ReleaseKeepsFdInv DEF FdTypeOK

-----------------------------------------------------------------------------
(* The other operations on a SharedFd.                                     *)

(* A new file takes a number that no file has.                             *)
LEMMA OpenKeepsFdInv ==
  ASSUME FdInv, NEW f \in Files, Open(f), UNCHANGED legacy
  PROVE  FdInv'
  <1> USE DEF FdInv
  <1>1. PICK n \in Fds : /\ table[n] = NoFile
                         /\ table' = [table EXCEPT ![n] = f]
                         /\ fdOf' = [fdOf EXCEPT ![f] = n]
    BY DEF Open
  <1>2. /\ st[f] = "new"
        /\ st' = [st EXCEPT ![f] = IF legacy THEN "Legacy" ELSE "Init"]
        /\ reg' = IF legacy THEN reg \cup {f} ELSE reg
        /\ handles' = [handles EXCEPT ![f] = 1]
        /\ UNCHANGED <<closer, opOf, opAt, pend, strayed, legacy>>
    BY DEF Open
  <1>3. FdTypeOK'
    BY <1>1, <1>2, SharedFdAssumption DEF FdTypeOK
  <1>4. OwnerInv'
    <2>1. st'[f] \in LiveSt /\ handles'[f] = 1 /\ f \notin pend'
      BY <1>2 DEF FdTypeOK, LiveSt, OwnerInv
    <2>2. \A g \in Files : g # f => st'[g] = st[g] /\ handles'[g] = handles[g]
      BY <1>2 DEF FdTypeOK
    <2>3. closer[f] = "none" /\ \A o \in Ops : opOf[o] # f
      BY <1>2, SharedFdAssumption DEF OwnerInv, LiveSt, FdTypeOK
    <2>4. \A g \in Files : Owned(g)' <=> Owned(g) \/ g = f
      BY <1>2, <2>1, <2>2 DEF Owned
    <2> QED
      BY <1>2, <2>1, <2>2, <2>3, <2>4 DEF OwnerInv, FdTypeOK, LiveSt
  <1>5. TableInv'
    <2>1. ~Holds(f) /\ Holds(f)'
      BY <1>2 DEF Holds, LiveSt, OwnerInv, FdTypeOK
    <2>2. \A g \in Files : g # f => (Holds(g)' <=> Holds(g)) /\ fdOf'[g] = fdOf[g]
      BY <1>1, <1>2 DEF Holds, FdTypeOK
    <2>3. table'[n] = f /\ \A m \in Fds : m # n => table'[m] = table[m]
      BY <1>1 DEF FdTypeOK
    <2>4. fdOf'[f] = n
      BY <1>1 DEF FdTypeOK
    <2>5. (\A m \in Fds : table[m] # NoFile => fdOf[table[m]] = m /\ Holds(table[m]))'
      <3> SUFFICES ASSUME NEW m \in Fds, table'[m] # NoFile
                   PROVE  (fdOf[table[m]] = m /\ Holds(table[m]))'
        OBVIOUS
      <3>1. CASE m = n
        BY <2>1, <2>3, <2>4, <3>1 DEF Holds
      <3>2. CASE m # n
        <4>1. table'[m] = table[m] /\ table[m] \in Files /\ fdOf[table[m]] = m /\ Holds(table[m])
          BY <2>3, <3>2 DEF TableInv, FdTypeOK
        <4>2. table[m] # f
          BY <2>1, <4>1
        <4> QED
          BY <2>2, <4>1, <4>2 DEF Holds
      <3> QED
        BY <3>1, <3>2
    <2>6. ASSUME \A g \in Files : st'[g] # "twice"
          PROVE  strayed' = {} /\ \A g \in Files : Holds(g)' => table'[fdOf'[g]] = g
      <3>1. \A g \in Files : st[g] # "twice"
        BY <1>2, <2>6 DEF FdTypeOK
      <3>2. strayed = {} /\ \A g \in Files : Holds(g) => table[fdOf[g]] = g
        BY <3>1 DEF TableInv
      <3>3. \A g \in Files : g # f /\ Holds(g) => fdOf[g] # n
        BY <1>1, <3>2, SharedFdAssumption
      <3> QED
        BY <1>2, <2>2, <2>3, <2>4, <3>2, <3>3 DEF FdTypeOK
    <2> QED
      BY <2>5, <2>6 DEF TableInv
  <1>6. ModeInv'
    BY <1>2 DEF ModeInv, FdTypeOK
  <1>7. ScheduledIoAlive'
    BY <1>2 DEF ScheduledIoAlive, FdTypeOK
  <1> QED
    BY <1>3, <1>4, <1>5, <1>6, <1>7

(* One more clone.                                                         *)
LEMMA CloneKeepsFdInv ==
  ASSUME FdInv, NEW f \in Files, Clone(f), UNCHANGED legacy
  PROVE  FdInv'
  <1> USE DEF FdInv
  <1>1. /\ handles[f] \in 1..(MaxHandles - 1) /\ handles' = [handles EXCEPT ![f] = @ + 1]
        /\ UNCHANGED <<table, fdOf, st, pend, reg, closer, opOf, opAt, strayed, legacy>>
    BY DEF Clone, inner
  <1>2. FdTypeOK'
    BY <1>1, SharedFdAssumption DEF FdTypeOK
  <1>3. OwnerInv'
    BY <1>1, SharedFdAssumption DEF OwnerInv, Owned, FdTypeOK
  <1>4. TableInv'
    BY <1>1 DEF TableInv, Holds
  <1>5. ModeInv' /\ ScheduledIoAlive'
    BY <1>1 DEF ModeInv, ScheduledIoAlive
  <1> QED
    BY <1>2, <1>3, <1>4, <1>5

(* An operation begins, or is taken by the kernel.                         *)
LEMMA OpKeepsFdInv ==
  ASSUME FdInv, NEW o \in Ops, (\E f \in Files : StartOp(f, o)) \/ KernelTakes(o), UNCHANGED legacy
  PROVE  FdInv'
  <1> USE DEF FdInv
  <1>1. UNCHANGED <<table, fdOf, st, pend, reg, closer, legacy>>
    BY DEF StartOp, KernelTakes, inner
  <1>2. TableInv'
    <2>1. CASE \E f \in Files : StartOp(f, o)
      <3>1. strayed' = strayed
        BY <2>1 DEF StartOp, inner
      <3> QED
        BY <1>1, <3>1 DEF TableInv, Holds
    <2>2. CASE KernelTakes(o)
      <3>1. opOf[o] \in Files /\ Holds(opOf[o])
        BY <2>2 DEF KernelTakes, OwnerInv, Holds, FdTypeOK
      <3>2. strayed' = IF table[fdOf[opOf[o]]] \in {opOf[o], NoFile} THEN strayed
                       ELSE strayed \cup {opOf[o]}
        BY <2>2 DEF KernelTakes, UseNumber
      <3>3. (\A g \in Files : st[g] # "twice") => strayed' = {}
        BY <3>1, <3>2 DEF TableInv
      <3> QED
        BY <1>1, <3>3 DEF TableInv, Holds
    <2> QED
      BY <2>1, <2>2
  <1>3. ScheduledIoAlive'
    BY <1>1 DEF ScheduledIoAlive
  <1>4. CASE \E f \in Files : StartOp(f, o)
    <2>1. PICK f \in Files :
            /\ handles[f] > 0 /\ opOf[o] = NoFile
            /\ opOf' = [opOf EXCEPT ![o] = f]
            /\ opAt' = [opAt EXCEPT ![o] = IF legacy THEN "wait" ELSE "sq"]
            /\ UNCHANGED <<handles, strayed>>
      BY <1>4 DEF StartOp, inner
    <2>2. FdTypeOK'
      BY <1>1, <2>1 DEF FdTypeOK
    <2>3. OwnerInv'
      BY <1>1, <2>1, SharedFdAssumption DEF OwnerInv, Owned, FdTypeOK
    <2>4. ModeInv'
      BY <1>1, <2>1 DEF ModeInv, FdTypeOK
    <2> QED
      BY <1>2, <1>3, <2>2, <2>3, <2>4
  <1>5. CASE KernelTakes(o)
    <2>1. /\ opAt[o] = "sq" /\ opAt' = [opAt EXCEPT ![o] = "kernel"]
          /\ UNCHANGED <<handles, opOf>>
          /\ strayed' \subseteq strayed \cup {opOf[o]}
      BY <1>5 DEF KernelTakes, UseNumber
    <2>2. opOf[o] \in Files
      BY <2>1 DEF OwnerInv, FdTypeOK
    <2>3. FdTypeOK'
      BY <1>1, <2>1, <2>2 DEF FdTypeOK
    <2>4. OwnerInv'
      BY <1>1, <2>1 DEF OwnerInv, Owned, FdTypeOK
    <2>5. ModeInv'
      BY <1>1, <2>1 DEF ModeInv, FdTypeOK
    <2> QED
      BY <1>2, <1>3, <2>3, <2>4, <2>5
  <1> QED
    BY <1>4, <1>5

(* close() with a clone of its own, alone or not.                          *)
LEMMA CloseKeepsFdInv ==
  ASSUME FdInv, NEW f \in Files, Close(f), UNCHANGED legacy
  PROVE  FdInv'
  <1> USE DEF FdInv
  <1>1. /\ handles[f] > 0 /\ closer[f] = "none" /\ st[f] \in {"Init", "Waiting", "Poll"}
        /\ handles' = [handles EXCEPT ![f] = @ - 1]
        /\ UNCHANGED <<opOf, opAt, table, fdOf, reg, strayed, legacy>>
    BY DEF Close
  <1>2. /\ handles' \in [Files -> 0..MaxHandles] /\ handles'[f] = handles[f] - 1
        /\ \A g \in Files : g # f => handles'[g] = handles[g]
    BY <1>1, SharedFdAssumption DEF FdTypeOK
  <1>3. handles[f] \in Nat
    BY SharedFdAssumption DEF FdTypeOK
  <1>4. CASE /\ Refs(f) = 1
             /\ closer' = [closer EXCEPT ![f] = "closing"]
             /\ st' = [st EXCEPT ![f] = "Closing"]
             /\ pend' = pend \cup {f}
    <2>1. handles'[f] = 0 /\ \A o \in Ops : opOf[o] # f
      BY <1>1, <1>2, <1>4, RefsFacts
    <2>2. FdTypeOK'
      BY <1>1, <1>2, <1>4 DEF FdTypeOK
    <2>3. OwnerInv'
      BY <1>1, <1>2, <1>4, <2>1, SharedFdAssumption DEF OwnerInv, Owned, FdTypeOK, LiveSt
    <2>4. \A g \in Files : Holds(g)' <=> Holds(g)
      BY <1>1, <1>4 DEF Holds, FdTypeOK, LiveSt
    <2>5. TableInv'
      BY <1>1, <1>4, <2>4 DEF TableInv, FdTypeOK
    <2>6. ModeInv' /\ ScheduledIoAlive'
      BY <1>1, <1>4 DEF ModeInv, ScheduledIoAlive, FdTypeOK
    <2> QED
      BY <2>2, <2>3, <2>5, <2>6
  <1>5. CASE /\ Refs(f) > 1
             /\ \/ /\ closer' = [closer EXCEPT ![f] = "wait"]
                   /\ st[f] # "Poll" /\ st' = [st EXCEPT ![f] = "Waiting"]
                \/ closer' = closer /\ st' = st
             /\ pend' = pend
    <2>1. Owned(f)'
      <3>1. Refs(f) # 1
        BY <1>5
      <3>2. \/ handles[f] # 1 \/ closer[f] # "none" \/ \E o \in Ops : opOf[o] = f
        BY <1>1, <3>1, RefsFacts
      <3> QED
        BY <1>1, <1>2, <1>3, <3>2 DEF Owned
    <2>2. st'[f] \in LiveSt /\ closer'[f] # "closing"
      BY <1>1, <1>5 DEF FdTypeOK, LiveSt
    <2>3. \A g \in Files : g # f => st'[g] = st[g] /\ closer'[g] = closer[g]
      BY <1>5 DEF FdTypeOK
    <2>4. FdTypeOK'
      BY <1>1, <1>2, <1>5 DEF FdTypeOK
    <2>5. \A g \in Files : g # f => (Owned(g)' <=> Owned(g))
      BY <1>1, <1>2, <2>3 DEF Owned
    <2>6. OwnerInv'
      BY <1>1, <1>2, <1>5, <2>1, <2>2, <2>3, <2>5, SharedFdAssumption
         DEF OwnerInv, FdTypeOK, LiveSt
    <2>7. \A g \in Files : Holds(g)' <=> Holds(g)
      BY <1>1, <1>5, <2>2, <2>3 DEF Holds, LiveSt
    <2>8. TableInv'
      BY <1>1, <1>5, <2>7 DEF TableInv, FdTypeOK
    <2>9. ModeInv' /\ ScheduledIoAlive'
      BY <1>1, <1>5 DEF ModeInv, ScheduledIoAlive, FdTypeOK
    <2> QED
      BY <2>4, <2>6, <2>8, <2>9
  <1> QED
    BY <1>4, <1>5 DEF Close

(* A number is closed: by a Close entry, by its last owner's system call,  *)
(* or twice.                                                               *)
LEMMA NumberClosedKeepsFdInv ==
  ASSUME FdInv, NEW f \in Files, KernelCloses(f) \/ RawClose(f) \/ CloseFails(f), UNCHANGED legacy
  PROVE  FdInv'
  <1> USE DEF FdInv
  <1>1. CloseNumber(f) /\ UNCHANGED <<closer, opOf, opAt, fdOf, legacy>>
    BY DEF KernelCloses, RawClose, CloseFails, owners
  <1>2. /\ table' \in [Fds -> Files \cup {NoFile}]
        /\ strayed' \subseteq Files
        /\ \A n \in Fds : table'[n] # NoFile => table'[n] = table[n] /\ table[n] # f
        /\ Holds(f) /\ (\A g \in Files : st[g] # "twice") =>
             /\ strayed' = {}
             /\ \A g \in Files : g # f /\ Holds(g) => table'[fdOf[g]] = g
    BY <1>1, CloseNumberFacts
  <1>3. ASSUME \A g \in Files : g # f => (Holds(g)' <=> Holds(g)),
               \/ \E g \in Files : st'[g] = "twice"
               \/ /\ Holds(f) /\ ~Holds(f)'
                  /\ \A g \in Files : st[g] # "twice"
        PROVE  TableInv'
    <2>1. (\A n \in Fds : table[n] # NoFile => fdOf[table[n]] = n /\ Holds(table[n]))'
      <3> SUFFICES ASSUME NEW n \in Fds, table'[n] # NoFile
                   PROVE  (fdOf[table[n]] = n /\ Holds(table[n]))'
        OBVIOUS
      <3>1. table'[n] = table[n] /\ table[n] # f /\ table[n] \in Files
        BY <1>2
      <3>2. fdOf[table[n]] = n /\ Holds(table[n])
        BY <3>1 DEF TableInv
      <3> QED
        BY <1>1, <1>3, <3>1, <3>2 DEF Holds
    <2> QED
      BY <1>1, <1>2, <1>3, <2>1 DEF TableInv
  <1>4. CASE KernelCloses(f)
    <2>1. /\ f \in pend /\ pend' = pend \ {f} /\ UNCHANGED <<handles, st, reg>>
      BY <1>4 DEF KernelCloses, owners
    <2>2. FdTypeOK'
      BY <1>1, <1>2, <2>1 DEF FdTypeOK
    <2>3. OwnerInv'
      BY <1>1, <2>1 DEF OwnerInv, Owned
    <2>4. Holds(f) /\ ~Holds(f)' /\ \A g \in Files : g # f => (Holds(g)' <=> Holds(g))
      BY <2>1 DEF Holds, OwnerInv, LiveSt
    <2>5. TableInv'
      BY <1>3, <2>1, <2>4
    <2>6. ModeInv' /\ ScheduledIoAlive'
      BY <1>1, <2>1 DEF ModeInv, ScheduledIoAlive
    <2> QED
      BY <2>2, <2>3, <2>5, <2>6
  <1>5. CASE RawClose(f)
    <2>1. st[f] = "raw" /\ st' = [st EXCEPT ![f] = "gone"] /\ UNCHANGED <<handles, pend, reg>>
      BY <1>5 DEF RawClose, owners
    <2>2. FdTypeOK'
      BY <1>1, <1>2, <2>1 DEF FdTypeOK
    <2>3. OwnerInv'
      BY <1>1, <2>1 DEF OwnerInv, Owned, FdTypeOK, LiveSt
    <2>4. Holds(f) /\ ~Holds(f)' /\ \A g \in Files : g # f => (Holds(g)' <=> Holds(g))
      BY <2>1 DEF Holds, OwnerInv, LiveSt, FdTypeOK
    <2>5. TableInv'
      BY <1>3, <2>1, <2>4 DEF FdTypeOK
    <2>6. ModeInv' /\ ScheduledIoAlive'
      BY <1>1, <2>1 DEF ModeInv, ScheduledIoAlive, FdTypeOK
    <2> QED
      BY <2>2, <2>3, <2>5, <2>6
  <1>6. CASE CloseFails(f)
    <2>1. /\ handles[f] = 1 /\ Refs(f) = 1 /\ st[f] \in {"Init", "Waiting", "Poll"}
          /\ handles' = [handles EXCEPT ![f] = 0]
          /\ st' = [st EXCEPT ![f] = "twice"]
          /\ reg' \subseteq reg /\ reg \ {f} \subseteq reg'
          /\ pend' \in {pend, pend \cup {f}}
      BY <1>6 DEF CloseFails
    <2>2. closer[f] = "none" /\ \A o \in Ops : opOf[o] # f
      BY <2>1, RefsFacts
    <2>3. FdTypeOK'
      BY <1>1, <1>2, <2>1, SharedFdAssumption DEF FdTypeOK
    <2>4. OwnerInv'
      BY <1>1, <2>1, <2>2 DEF OwnerInv, Owned, FdTypeOK, LiveSt
    <2>5. st'[f] = "twice" /\ \A g \in Files : g # f => (Holds(g)' <=> Holds(g))
      BY <2>1 DEF Holds, FdTypeOK
    <2>6. TableInv'
      BY <1>3, <2>5
    <2>7. ModeInv'
      BY <1>1, <2>1 DEF ModeInv, FdTypeOK
    <2>8. ScheduledIoAlive'
      BY <2>1 DEF ScheduledIoAlive, FdTypeOK
    <2> QED
      BY <2>3, <2>4, <2>6, <2>7, <2>8
  <1> QED
    BY <1>4, <1>5, <1>6

(* The descriptor changes hands, or changes over to the poller and back.   *)
LEMMA StateKeepsFdInv ==
  ASSUME FdInv, NEW f \in Files, TryUnwrap(f) \/ CvtPoll(f) \/ CvtComp(f), UNCHANGED legacy
  PROVE  FdInv'
  <1> USE DEF FdInv
  <1>1. UNCHANGED <<closer, opOf, opAt, table, fdOf, pend, strayed, legacy>>
    BY DEF TryUnwrap, CvtPoll, CvtComp, owners
  <1>2. CASE TryUnwrap(f)
    <2>1. /\ handles[f] = 1 /\ Refs(f) = 1
          /\ st' = [st EXCEPT ![f] = "raw"]
          /\ handles' = [handles EXCEPT ![f] = 0]
          /\ reg' = IF st[f] = "Legacy" THEN reg \ {f} ELSE reg
      BY <1>2 DEF TryUnwrap
    <2>2. closer[f] = "none" /\ \A o \in Ops : opOf[o] # f
      BY <2>1, RefsFacts
    <2>3. FdTypeOK'
      BY <1>1, <2>1, SharedFdAssumption DEF FdTypeOK
    <2>4. OwnerInv'
      BY <1>1, <2>1, <2>2 DEF OwnerInv, Owned, FdTypeOK, LiveSt
    <2>5. \A g \in Files : Holds(g)' <=> Holds(g)
      BY <1>1, <2>1 DEF Holds, FdTypeOK, OwnerInv
    <2>6. TableInv'
      BY <1>1, <2>1, <2>5 DEF TableInv, FdTypeOK, OwnerInv, LiveSt
    <2>7. ModeInv' /\ ScheduledIoAlive'
      BY <1>1, <2>1 DEF ModeInv, ScheduledIoAlive, FdTypeOK
    <2> QED
      BY <2>3, <2>4, <2>6, <2>7
  <1>3. CASE CvtPoll(f) \/ CvtComp(f)
    <2>1. /\ handles[f] > 0 /\ handles' = handles
          /\ \/ st[f] = "Init" /\ st' = [st EXCEPT ![f] = "Poll"] /\ reg' = reg \cup {f}
             \/ st[f] = "Poll" /\ st' = [st EXCEPT ![f] = "Init"] /\ reg' = reg \ {f}
      BY <1>3 DEF CvtPoll, CvtComp, owners
    <2>2. FdTypeOK'
      BY <1>1, <2>1 DEF FdTypeOK
    <2>3. OwnerInv'
      BY <1>1, <2>1, SharedFdAssumption DEF OwnerInv, Owned, FdTypeOK, LiveSt
    <2>4. \A g \in Files : Holds(g)' <=> Holds(g)
      BY <1>1, <2>1 DEF Holds, FdTypeOK, LiveSt
    <2>5. TableInv'
      BY <1>1, <2>1, <2>4 DEF TableInv, FdTypeOK
    <2>6. ModeInv' /\ ScheduledIoAlive'
      BY <1>1, <2>1 DEF ModeInv, ScheduledIoAlive, FdTypeOK
    <2> QED
      BY <2>2, <2>3, <2>5, <2>6
  <1> QED
    BY <1>2, <1>3

(* A step that leaves the descriptors alone keeps their invariant.         *)
LEMMA IdleKeepsFdInv ==
  ASSUME FdInv, UNCHANGED <<fdVars, legacy>>
  PROVE  FdInv'
  <1>1. UNCHANGED <<handles, closer, opOf, opAt, table, fdOf, st, pend, reg, strayed, legacy>>
    BY DEF fdVars, owners, inner
  <1> QED
    BY <1>1 DEF FdInv, FdTypeOK, OwnerInv, Owned, TableInv, Holds, ModeInv, ScheduledIoAlive

(* Every step of the whole keeps the descriptors' invariant.               *)
LEMMA NextKeepsFdInv ==
  ASSUME FdInv, Next, UNCHANGED legacy
  PROVE  FdInv'
  <1>1. CASE Descriptors
    <2>1. CASE \E f \in Files :
                 \/ Open(f) \/ Clone(f) \/ DropHandle(f) \/ Close(f) \/ CloseFails(f)
                 \/ KernelCloses(f) \/ CloseReturns(f) \/ DropClose(f) \/ TryUnwrap(f)
                 \/ RawClose(f) \/ CvtPoll(f) \/ CvtComp(f)
      <3>1. PICK f \in Files :
                 \/ Open(f) \/ Clone(f) \/ DropHandle(f) \/ Close(f) \/ CloseFails(f)
                 \/ KernelCloses(f) \/ CloseReturns(f) \/ DropClose(f) \/ TryUnwrap(f)
                 \/ RawClose(f) \/ CvtPoll(f) \/ CvtComp(f)
        BY <2>1
      <3> QED
        BY <3>1, OpenKeepsFdInv, CloneKeepsFdInv, DropHandleKeepsFdInv, CloseKeepsFdInv,
           NumberClosedKeepsFdInv, EndCloseKeepsFdInv, StateKeepsFdInv
    <2>2. CASE \E o \in Ops : KernelTakes(o) \/ EndOp(o)
      BY <2>2, OpKeepsFdInv, EndOpKeepsFdInv
    <2> QED
      BY <1>1, <2>1, <2>2 DEF Descriptors
  <1>2. CASE \E o \in Ops : OpStep(o) \/ DropOp(o) \/ CancelOp(o)
    <2>1. PICK o \in Ops : OpStep(o) \/ DropOp(o) \/ CancelOp(o)
      BY <1>2
    <2>2. EndOp(o) \/ UNCHANGED fdVars
      BY <2>1 DEF OpStep, PollNotReady, PollCanceled, PollSucceeds, PollWouldBlock, DropOp, CancelOp,
         OpEnds, Suspend
    <2> QED
      BY <2>2, EndOpKeepsFdInv, IdleKeepsFdInv
  <1>3. CASE \E f \in Files, o \in Ops : NewOp(f, o)
    BY <1>3, OpKeepsFdInv DEF NewOp
  <1>4. CASE (\E f \in Files : Dispatch(f)) \/ \E f \in Files, d \in Dirs : Arrive(f, d)
    BY <1>4, IdleKeepsFdInv DEF Dispatch, Arrive
  <1> QED
    BY <1>1, <1>2, <1>3, <1>4 DEF Next

-----------------------------------------------------------------------------
(* Readiness.                                                              *)

IoTypeOK ==
  /\ avail \in [Files -> SUBSET Dirs]
  /\ edge \in [Files -> SUBSET Dirs]
  /\ ready \in [Files -> SUBSET Bits]
  /\ waker \in [Files -> [Dirs -> Ops \cup {NoOp}]]
  /\ told \subseteq Ops
  /\ asked \subseteq Ops

(* What can be had has been reported, or will be.                          *)
KnownInv ==
  \A f \in Files : \A d \in avail[f] : d \in edge[f] \/ <<d, "ok">> \in ready[f]

(* Operations of one direction of a file follow one another.               *)
SingleInv ==
  \A o, p \in Ops : opOf[o] # NoFile /\ opOf[o] = opOf[p] /\ dirOf[o] = dirOf[p] => o = p

(* An operation that was told Pending has its waker in place, and what is  *)
(* known says that it cannot go on.                                        *)
ToldInv ==
  \A o \in told : /\ Waiting(o)
                  /\ waker[opOf[o]][dirOf[o]] = o
                  /\ ready[opOf[o]] \cap Mask(dirOf[o]) = {}

IoInv == IoTypeOK /\ KnownInv /\ SingleInv /\ ToldInv

(* An operation that waits keeps its file registered, before a step and    *)
(* after it.                                                               *)
LEMMA WaitingRegistered ==
  FdInv => \A o \in Ops : Waiting(o) =>
             /\ opOf[o] \in Files /\ opOf[o] \in reg /\ st[opOf[o]] = "Legacy"
  BY DEF FdInv, FdTypeOK, OwnerInv, ModeInv, ScheduledIoAlive, Waiting, LiveSt

(* The same of the next state.                                             *)
LEMMA WaitingRegisteredNext ==
  FdInv' => \A o \in Ops : Waiting(o)' =>
             /\ opOf'[o] \in Files /\ opOf'[o] \in reg' /\ st'[opOf'[o]] = "Legacy"
  BY DEF FdInv, FdTypeOK, OwnerInv, ModeInv, ScheduledIoAlive, Waiting, LiveSt

(* Nothing is known of any file when the runtime starts.                   *)
LEMMA InitIoInv == Init => IoInv
  BY SharedFdAssumption DEF Init, FdInit, IoInv, IoTypeOK, KnownInv, SingleInv, ToldInv, Bits

(* The ScheduledIo of a file goes as a whole: with it goes the knowledge   *)
(* of everything that could be had from the file.                          *)
LEMMA ForgetKeepsIoInv ==
  ASSUME FdInv, FdInv', IoInv,
         NEW A \in [Files -> SUBSET Dirs], NEW R \in [Files -> SUBSET Bits],
         \A f \in Files : A[f] \subseteq avail[f],
         \A f \in Files : R[f] \subseteq ready[f] /\ R[f] \cap (Dirs \X {"ok"}) = ready[f] \cap (Dirs \X {"ok"}),
         avail' = WhileRegistered(A, {}), edge' = WhileRegistered(edge, {}),
         ready' = WhileRegistered(R, {}), waker' = WhileRegistered(waker, NoWakers),
         told' \subseteq told, asked' \subseteq asked,
         \A o \in told' : Waiting(o)' /\ opOf'[o] = opOf[o],
         \A o \in Ops : opOf'[o] \in {opOf[o], NoFile}
  PROVE  IoInv'
  <1> USE DEF IoInv
  <1>1. NoWakers \in [Dirs -> Ops \cup {NoOp}]
    BY DEF NoWakers
  <1>2. IoTypeOK'
    BY <1>1 DEF IoTypeOK, WhileRegistered
  <1>3. KnownInv'
    <2> SUFFICES ASSUME NEW f \in Files, NEW d \in avail'[f]
                 PROVE  d \in edge'[f] \/ <<d, "ok">> \in ready'[f]
      BY DEF KnownInv
    <2>1. f \in reg' /\ d \in avail[f] /\ edge'[f] = edge[f] /\ ready'[f] = R[f] /\ d \in Dirs
      BY DEF WhileRegistered, IoTypeOK
    <2>2. d \in edge[f] \/ <<d, "ok">> \in ready[f]
      BY <2>1 DEF KnownInv
    <2> QED
      BY <2>1, <2>2
  <1>4. SingleInv'
    BY DEF SingleInv
  <1>5. ToldInv'
    <2> SUFFICES ASSUME NEW o \in told'
                 PROVE  /\ Waiting(o)'
                        /\ waker'[opOf'[o]][dirOf[o]] = o
                        /\ ready'[opOf'[o]] \cap Mask(dirOf[o]) = {}
      BY DEF ToldInv, Mask
    <2>1. Waiting(o)' /\ opOf'[o] = opOf[o] /\ o \in told /\ o \in Ops
      BY DEF IoTypeOK
    <2>2. opOf[o] \in Files /\ opOf[o] \in reg'
      BY <2>1, WaitingRegisteredNext
    <2>3. waker'[opOf[o]] = waker[opOf[o]] /\ ready'[opOf[o]] \subseteq ready[opOf[o]]
      BY <2>2 DEF WhileRegistered
    <2> QED
      BY <2>1, <2>3 DEF ToldInv
  <1> QED
    BY <1>2, <1>3, <1>4, <1>5

(* The operations on descriptors leave the registrations in order.         *)
LEMMA DescriptorsKeepIoInv ==
  ASSUME FdInv, FdInv', IoInv, Descriptors
  PROVE  IoInv'
  <1>1. \/ UNCHANGED <<opOf, opAt>>
        \/ \E o \in Ops : /\ ~Waiting(o) /\ opAt' = [opAt EXCEPT ![o] = "kernel"] /\ UNCHANGED opOf
        \/ \E o \in Ops : /\ ~Waiting(o) /\ opAt' = [opAt EXCEPT ![o] = "none"]
                          /\ opOf' = [opOf EXCEPT ![o] = NoFile]
    BY DEF Descriptors, Open, Clone, DropHandle, Close, CloseFails, KernelCloses, CloseReturns,
           DropClose, TryUnwrap, RawClose, CvtPoll, CvtComp, KernelTakes, EndOp, Waiting, owners
  <1>2. /\ avail' = WhileRegistered(avail, {}) /\ edge' = WhileRegistered(edge, {})
        /\ ready' = WhileRegistered(ready, {}) /\ waker' = WhileRegistered(waker, NoWakers)
        /\ UNCHANGED <<told, asked>>
    BY DEF Descriptors
  <1>3. \A o \in Ops : opOf'[o] \in {opOf[o], NoFile}
    BY <1>1 DEF FdInv, FdTypeOK
  <1>4. \A o \in Ops : Waiting(o) => Waiting(o)' /\ opOf'[o] = opOf[o]
    BY <1>1 DEF Waiting, FdInv, FdTypeOK
  <1>5. \A o \in told' : Waiting(o)' /\ opOf'[o] = opOf[o]
    BY <1>2, <1>4 DEF IoInv, IoTypeOK, ToldInv
  <1>6. avail \in [Files -> SUBSET Dirs] /\ ready \in [Files -> SUBSET Bits]
    BY DEF IoInv, IoTypeOK
  <1> QED
    BY <1>2, <1>3, <1>5, <1>6, ForgetKeepsIoInv

(* An operation ends, with what it read used up or not.                    *)
LEMMA OpEndsKeepsIoInv ==
  ASSUME FdInv, FdInv', IoInv, NEW o \in Ops, PollCanceled(o) \/ PollSucceeds(o) \/ DropOp(o)
  PROVE  IoInv'
  <1>1. avail \in [Files -> SUBSET Dirs] /\ ready \in [Files -> SUBSET Bits]
    BY DEF IoInv, IoTypeOK
  <1>2. Waiting(o) /\ OpEnds(o)
    BY DEF PollCanceled, PollSucceeds, DropOp, SeemsReady
  <1>3. opOf[o] \in Files /\ dirOf[o] \in Dirs
    BY <1>2, WaitingRegistered, LegacyAssumption
  <1>4. PICK A, R : /\ A \in [Files -> SUBSET Dirs] /\ R \in [Files -> SUBSET Bits]
                    /\ \A f \in Files : A[f] \subseteq avail[f]
                    /\ \A f \in Files : R[f] \in {ready[f], ready[f] \ {<<dirOf[o], "canceled">>}}
                    /\ avail' = WhileRegistered(A, {})
                    /\ ready' = WhileRegistered(R, {})
    <2>1. CASE PollCanceled(o)
      <3> DEFINE R == [ready EXCEPT ![opOf[o]] = @ \ {<<dirOf[o], "canceled">>}]
      <3>1. R \in [Files -> SUBSET Bits] /\ \A f \in Files : R[f] \in {ready[f], ready[f] \ {<<dirOf[o], "canceled">>}}
        BY <1>1, <1>3
      <3>2. avail' = WhileRegistered(avail, {}) /\ ready' = WhileRegistered(R, {})
        BY <2>1 DEF PollCanceled
      <3> QED
        BY <1>1, <3>1, <3>2
    <2>2. CASE PollSucceeds(o)
      <3>1. PICK rest \in {{}, {dirOf[o]}} :
               avail' = WhileRegistered([avail EXCEPT ![opOf[o]] = (@ \ {dirOf[o]}) \cup rest], {})
        BY <2>2 DEF PollSucceeds
      <3> DEFINE A == [avail EXCEPT ![opOf[o]] = (@ \ {dirOf[o]}) \cup rest]
      <3>2. dirOf[o] \in avail[opOf[o]] /\ ready' = WhileRegistered(ready, {})
        BY <2>2 DEF PollSucceeds
      <3>3. A \in [Files -> SUBSET Dirs] /\ \A f \in Files : A[f] \subseteq avail[f]
        BY <1>1, <1>3, <3>2
      <3> QED
        BY <1>1, <3>1, <3>2, <3>3
    <2>3. CASE DropOp(o)
      BY <1>1, <2>3 DEF DropOp
    <2> QED
      BY <2>1, <2>2, <2>3
  <1>5. \A f \in Files : R[f] \subseteq ready[f] /\ R[f] \cap (Dirs \X {"ok"}) = ready[f] \cap (Dirs \X {"ok"})
    BY <1>4
  <1>6. /\ opOf' = [opOf EXCEPT ![o] = NoFile] /\ opAt' = [opAt EXCEPT ![o] = "none"]
        /\ edge' = WhileRegistered(edge, {}) /\ waker' = WhileRegistered(waker, NoWakers)
        /\ told' = told \ {o} /\ asked' = asked \ {o}
    BY <1>2 DEF OpEnds, EndOp
  <1>7. \A p \in Ops : opOf'[p] \in {opOf[p], NoFile}
    BY <1>6 DEF FdInv, FdTypeOK
  <1>8. \A p \in told' : Waiting(p)' /\ opOf'[p] = opOf[p]
    BY <1>6 DEF FdInv, FdTypeOK, IoInv, IoTypeOK, ToldInv, Waiting
  <1> QED
    BY <1>4, <1>5, <1>6, <1>7, <1>8, ForgetKeepsIoInv

(* A new operation is the only one of its direction, and was told nothing. *)
LEMMA NewOpKeepsIoInv ==
  ASSUME FdInv, IoInv, NEW f \in Files, NEW o \in Ops, NewOp(f, o)
  PROVE  IoInv'
  <1> USE DEF IoInv
  <1>1. /\ \A p \in Ops : opOf[p] = f => dirOf[p] # dirOf[o]
        /\ opOf[o] = NoFile /\ opOf' = [opOf EXCEPT ![o] = f]
        /\ opAt' = [opAt EXCEPT ![o] = IF legacy THEN "wait" ELSE "sq"]
        /\ UNCHANGED <<avail, edge, ready, waker, told, asked>>
    BY DEF NewOp, StartOp, OpsOn, io
  <1>2. opOf'[o] = f /\ \A p \in Ops : p # o => opOf'[p] = opOf[p] /\ opAt'[p] = opAt[p]
    BY <1>1 DEF FdInv, FdTypeOK
  <1>3. o \notin told
    BY <1>1 DEF ToldInv, FdInv, OwnerInv, Waiting
  <1>4. IoTypeOK' /\ KnownInv'
    BY <1>1 DEF IoTypeOK, KnownInv
  <1>5. SingleInv'
    BY <1>1, <1>2 DEF SingleInv
  <1>6. ToldInv'
    BY <1>1, <1>2, <1>3 DEF ToldInv, Waiting, IoTypeOK
  <1> QED
    BY <1>4, <1>5, <1>6

(* An operation is told Pending: it is the one its file and direction      *)
(* have, and nothing that says otherwise is left in the readiness.         *)
LEMMA SuspendKeepsIoInv ==
  ASSUME FdInv, IoInv, NEW o \in Ops, PollNotReady(o) \/ PollWouldBlock(o)
  PROVE  IoInv'
  <1> USE DEF IoInv
  <1>1. PICK f \in Files : opOf[o] = f
    BY WaitingRegistered DEF PollNotReady, PollWouldBlock, SeemsReady
  <1>2. PICK d \in Dirs : dirOf[o] = d
    BY LegacyAssumption
  <1>3. /\ Waiting(o)
        /\ waker' = [waker EXCEPT ![f][d] = o] /\ told' = told \cup {o}
        /\ UNCHANGED <<opOf, opAt, avail, edge, asked>>
        /\ \/ ready' = ready /\ ready[f] \cap Mask(d) = {}
           \/ ready' = [ready EXCEPT ![f] = @ \ Mask(d)] /\ d \notin avail[f]
    BY <1>1, <1>2 DEF PollNotReady, PollWouldBlock, SeemsReady, Suspend, fdVars, owners
  <1>4. /\ ready' \in [Files -> SUBSET Bits] /\ ready'[f] = ready[f] \ Mask(d)
        /\ \A g \in Files : g # f => ready'[g] = ready[g]
    BY <1>3 DEF IoTypeOK
  <1>5. /\ waker' \in [Files -> [Dirs -> Ops \cup {NoOp}]] /\ waker'[f][d] = o
        /\ \A g \in Files, e \in Dirs : <<g, e>> # <<f, d>> => waker'[g][e] = waker[g][e]
    BY <1>3 DEF IoTypeOK
  <1>6. IoTypeOK'
    BY <1>3, <1>4, <1>5 DEF IoTypeOK
  <1>7. KnownInv'
    <2>1. \A g \in Files : \A e \in avail[g] : e \in edge[g] \/ <<e, "ok">> \in ready'[g]
      BY <1>3, <1>4 DEF KnownInv, Mask
    <2> QED
      BY <1>3, <2>1 DEF KnownInv
  <1>8. SingleInv'
    BY <1>3 DEF SingleInv
  <1>9. ToldInv'
    <2> SUFFICES ASSUME NEW p \in told'
                 PROVE  /\ Waiting(p)' /\ waker'[opOf[p]][dirOf[p]] = p
                        /\ ready'[opOf[p]] \cap Mask(dirOf[p]) = {}
      BY <1>3 DEF ToldInv, Mask
    <2>1. CASE p = o
      BY <1>1, <1>2, <1>3, <1>4, <1>5, <2>1 DEF Waiting
    <2>2. CASE p # o
      <3>1. p \in told /\ p \in Ops
        BY <1>3, <2>2 DEF IoTypeOK
      <3>2. Waiting(p) /\ opOf[p] \in Files /\ dirOf[p] \in Dirs
        BY <3>1, WaitingRegistered, LegacyAssumption DEF ToldInv
      <3>3. <<opOf[p], dirOf[p]>> # <<f, d>>
        BY <1>1, <1>2, <2>2, <3>1, <3>2, SharedFdAssumption DEF SingleInv
      <3>4. waker[opOf[p]][dirOf[p]] = p /\ ready[opOf[p]] \cap Mask(dirOf[p]) = {}
        BY <3>1 DEF ToldInv
      <3>5. ready'[opOf[p]] \subseteq ready[opOf[p]]
        BY <1>4, <3>2
      <3> QED
        BY <1>3, <1>5, <3>2, <3>3, <3>4, <3>5 DEF Waiting
    <2> QED
      BY <2>1, <2>2
  <1> QED
    BY <1>6, <1>7, <1>8, <1>9

(* The wakers of some directions are taken; the operations told so run     *)
(* again, whatever the readiness says by then.                             *)
LEMMA WakeKeepsIoInv ==
  ASSUME FdInv, IoInv, NEW f \in Files, NEW ds \in SUBSET Dirs, WakeDirs(f, ds),
         UNCHANGED <<opOf, opAt, avail>>,
         edge' \in [Files -> SUBSET Dirs], ready' \in [Files -> SUBSET Bits], asked' \subseteq Ops,
         \A g \in Files : \A d \in edge[g] : d \in edge'[g] \/ <<d, "ok">> \in ready'[g],
         \A g \in Files : g # f => ready'[g] = ready[g],
         /\ ready[f] \subseteq ready'[f]
         /\ \A b \in ready'[f] : b \in ready[f] \/ \E d \in ds : b \in Mask(d)
  PROVE  IoInv'
  <1> USE DEF IoInv
  <1>1. /\ told' = told \ {waker[f][d] : d \in ds}
        /\ waker' = [waker EXCEPT ![f] = [d \in Dirs |-> IF d \in ds THEN NoOp ELSE waker[f][d]]]
    BY DEF WakeDirs, IoTypeOK
  <1>2. /\ waker' \in [Files -> [Dirs -> Ops \cup {NoOp}]]
        /\ \A g \in Files : g # f => waker'[g] = waker[g]
        /\ \A d \in Dirs \ ds : waker'[f][d] = waker[f][d]
    BY <1>1 DEF IoTypeOK
  <1>3. IoTypeOK'
    BY <1>1, <1>2 DEF IoTypeOK
  <1>4. KnownInv'
    <2>1. \A g \in Files : ready[g] \subseteq ready'[g]
      OBVIOUS
    <2> QED
      BY <2>1 DEF KnownInv
  <1>5. SingleInv'
    BY DEF SingleInv
  <1>6. ToldInv'
    <2> SUFFICES ASSUME NEW p \in told'
                 PROVE  /\ Waiting(p)' /\ waker'[opOf[p]][dirOf[p]] = p
                        /\ ready'[opOf[p]] \cap Mask(dirOf[p]) = {}
      BY DEF ToldInv, Mask
    <2>1. p \in told /\ p \in Ops /\ \A d \in ds : waker[f][d] # p
      BY <1>1 DEF IoTypeOK
    <2>2. Waiting(p) /\ waker[opOf[p]][dirOf[p]] = p /\ ready[opOf[p]] \cap Mask(dirOf[p]) = {}
      BY <2>1 DEF ToldInv
    <2>3. opOf[p] \in Files /\ dirOf[p] \in Dirs
      BY <2>1, <2>2, WaitingRegistered, LegacyAssumption
    <2>4. CASE opOf[p] = f
      <3>1. dirOf[p] \notin ds
        BY <2>1, <2>2, <2>4
      <3>2. waker'[f][dirOf[p]] = p
        BY <1>2, <2>2, <2>3, <2>4, <3>1
      <3>3. ready'[f] \cap Mask(dirOf[p]) = {}
        BY <2>2, <2>4, <3>1 DEF Mask
      <3> QED
        BY <2>2, <2>4, <3>2, <3>3 DEF Waiting
    <2>5. CASE opOf[p] # f
      BY <1>2, <2>2, <2>3, <2>5 DEF Waiting
    <2> QED
      BY <2>4, <2>5
  <1> QED
    BY <1>3, <1>4, <1>5, <1>6

(* An event of the poller, dispatched to its ScheduledIo.                  *)
LEMMA DispatchKeepsIoInv ==
  ASSUME FdInv, IoInv, NEW f \in Files, Dispatch(f)
  PROVE  IoInv'
  <1>1. /\ edge' = [edge EXCEPT ![f] = {}]
        /\ ready' = [ready EXCEPT ![f] = @ \cup {<<d, "ok">> : d \in edge[f]}]
        /\ WakeDirs(f, edge[f]) /\ UNCHANGED <<opOf, opAt, avail, asked>>
    BY DEF Dispatch, fdVars, owners
  <1>2. /\ edge \in [Files -> SUBSET Dirs] /\ ready \in [Files -> SUBSET Bits] /\ asked \subseteq Ops
    BY DEF IoInv, IoTypeOK
  <1>3. edge[f] \in SUBSET Dirs /\ {<<d, "ok">> : d \in edge[f]} \subseteq Bits
    BY <1>2 DEF Bits
  <1>4. edge' \in [Files -> SUBSET Dirs] /\ ready' \in [Files -> SUBSET Bits] /\ asked' \subseteq Ops
    BY <1>1, <1>2, <1>3
  <1>5. /\ ready'[f] = ready[f] \cup {<<d, "ok">> : d \in edge[f]}
        /\ \A g \in Files : g # f => ready'[g] = ready[g] /\ edge'[g] = edge[g]
    BY <1>1, <1>2
  <1>6. /\ ready[f] \subseteq ready'[f]
        /\ \A b \in ready'[f] : b \in ready[f] \/ \E d \in edge[f] : b \in Mask(d)
    BY <1>5 DEF Mask
  <1>7. \A g \in Files : \A d \in edge[g] : d \in edge'[g] \/ <<d, "ok">> \in ready'[g]
    BY <1>5
  <1> QED
    BY <1>1, <1>3, <1>4, <1>5, <1>6, <1>7, WakeKeepsIoInv

(* A cancellation, which sets CANCELED and wakes.                          *)
LEMMA CancelOpKeepsIoInv ==
  ASSUME FdInv, IoInv, NEW o \in Ops, CancelOp(o)
  PROVE  IoInv'
  <1>1. PICK f \in Files : opOf[o] = f
    BY WaitingRegistered DEF CancelOp
  <1>2. PICK d \in Dirs : dirOf[o] = d
    BY LegacyAssumption
  <1>3. /\ asked' = asked \cup {o}
        /\ ready' = [ready EXCEPT ![f] = @ \cup {<<d, "canceled">>}]
        /\ WakeDirs(f, {d}) /\ UNCHANGED <<opOf, opAt, avail, edge>>
    BY <1>1, <1>2 DEF CancelOp, fdVars, owners
  <1>4. edge' \in [Files -> SUBSET Dirs] /\ ready' \in [Files -> SUBSET Bits] /\ asked' \subseteq Ops
    BY <1>3 DEF IoInv, IoTypeOK, Bits
  <1>5. /\ ready'[f] = ready[f] \cup {<<d, "canceled">>}
        /\ \A g \in Files : g # f => ready'[g] = ready[g]
    BY <1>3 DEF IoInv, IoTypeOK
  <1>6. \A b \in ready'[f] : b \in ready[f] \/ \E e \in {d} : b \in Mask(e)
    BY <1>5 DEF Mask
  <1>7. {d} \in SUBSET Dirs
    BY <1>2
  <1> QED
    BY <1>3, <1>4, <1>5, <1>6, <1>7, WakeKeepsIoInv

(* Data arrive: the poller is going to say so.                             *)
LEMMA ArriveKeepsIoInv ==
  ASSUME FdInv, IoInv, NEW f \in Files, NEW d \in Dirs, Arrive(f, d)
  PROVE  IoInv'
  <1> USE DEF IoInv
  <1>1. /\ avail' = [avail EXCEPT ![f] = @ \cup {d}] /\ edge' = [edge EXCEPT ![f] = @ \cup {d}]
        /\ UNCHANGED <<opOf, opAt, ready, waker, told, asked>>
    BY DEF Arrive, fdVars, owners
  <1>2. IoTypeOK'
    BY <1>1 DEF IoTypeOK
  <1>3. KnownInv'
    BY <1>1 DEF KnownInv, IoTypeOK
  <1>4. SingleInv' /\ ToldInv'
    BY <1>1 DEF SingleInv, ToldInv, Waiting
  <1> QED
    BY <1>2, <1>3, <1>4

(* Every step keeps what is known of the files.                            *)
LEMMA NextKeepsIoInv ==
  ASSUME FdInv, FdInv', IoInv, Next
  PROVE  IoInv'
  BY DescriptorsKeepIoInv, OpEndsKeepsIoInv, NewOpKeepsIoInv, SuspendKeepsIoInv,
     DispatchKeepsIoInv, CancelOpKeepsIoInv, ArriveKeepsIoInv DEF Next, OpStep

-----------------------------------------------------------------------------
(* The inductive invariant of descriptors and readiness.                   *)
LegacyInv == FdInv /\ IoInv

(* It is one: nothing the driver, a task, the kernel or a peer does breaks *)
(* it.                                                                     *)
THEOREM LegacyInvariant == Spec => []LegacyInv
  <1>1. Init => LegacyInv
    BY InitFdInv, InitIoInv DEF Init, LegacyInv
  <1>2. LegacyInv /\ [Next /\ UNCHANGED legacy]_<<ioVars, legacy>> => LegacyInv'
    <2> SUFFICES ASSUME LegacyInv, [Next /\ UNCHANGED legacy]_<<ioVars, legacy>>
                 PROVE  LegacyInv'
      OBVIOUS
    <2>1. CASE Next /\ UNCHANGED legacy
      BY <2>1, NextKeepsFdInv, NextKeepsIoInv DEF LegacyInv
    <2>2. CASE UNCHANGED <<ioVars, legacy>>
      <3>1. FdInv'
        BY <2>2, IdleKeepsFdInv DEF LegacyInv, ioVars
      <3>2. UNCHANGED <<opOf, opAt, avail, edge, ready, waker, told, asked>>
        BY <2>2 DEF ioVars, io, fdVars, owners
      <3>3. IoInv'
        BY <3>2 DEF LegacyInv, IoInv, IoTypeOK, KnownInv, SingleInv, ToldInv, Waiting
      <3> QED
        BY <3>1, <3>3 DEF LegacyInv
    <2> QED
      BY <2>1, <2>2
  <1> QED
    BY <1>1, <1>2, PTL DEF Spec

(* Every open descriptor has an owner or a Close on its way, and nobody    *)
(* uses or closes a number that is another file's by now: SharedFd, Inner  *)
(* and their drops, for both drivers, with any number of clones.           *)
THEOREM LegacyDescriptorsOwned == Spec => []DescriptorsOwned
  <1>1. LegacyInv => DescriptorsOwned
    <2> SUFFICES ASSUME FdInv
                 PROVE  DescriptorsOwned
      BY DEF LegacyInv
    <2> USE DEF FdInv
    <2>1. OnlyOwnFile
      BY DEF OnlyOwnFile, TableInv
    <2>2. NoFdLeak
      <3> SUFFICES ASSUME NEW n \in Fds, table[n] # NoFile
                   PROVE  /\ fdOf[table[n]] = n
                          /\ Refs(table[n]) > 0 \/ table[n] \in pend \/ st[table[n]] = "raw"
        BY DEF NoFdLeak
      <3>1. PICK f \in Files : table[n] = f
        BY DEF FdTypeOK
      <3>2. fdOf[f] = n /\ Holds(f)
        BY <3>1 DEF TableInv
      <3>3. st[f] \in LiveSt => Refs(f) > 0
        BY RefsFacts DEF OwnerInv
      <3> QED
        BY <3>1, <3>2, <3>3 DEF Holds
    <2> QED
      BY <2>1, <2>2 DEF DescriptorsOwned
  <1> QED
    BY <1>1, LegacyInvariant, PTL

(* No readiness is lost: what the poller reported stays known until it is  *)
(* used up, and an operation told Pending by poll_op while data are there  *)
(* has its waker where dispatch will take it.                              *)
THEOREM LegacyNoLostReadiness == Spec => []NoLostReadiness
  <1>1. LegacyInv => NoLostReadiness
    <2> SUFFICES ASSUME FdInv, IoInv
                 PROVE  NoLostReadiness
      BY DEF LegacyInv
    <2> USE DEF FdInv, IoInv
    <2>1. TypeOK
      BY DEF TypeOK, IoTypeOK
    <2>2. \A f \in Files : \A d \in avail[f] : d \in edge[f] \/ <<d, "ok">> \in ready[f]
      BY DEF KnownInv
    <2>3. \A o \in Ops : Waiting(o) /\ o \in told /\ dirOf[o] \in avail[opOf[o]]
                           => dirOf[o] \in edge[opOf[o]] /\ waker[opOf[o]][dirOf[o]] = o
      BY <2>2, WaitingRegistered DEF ToldInv, Mask
    <2> QED
      BY <2>1, <2>2, <2>3 DEF NoLostReadiness
  <1> QED
    BY <1>1, LegacyInvariant, PTL

-----------------------------------------------------------------------------
(* Natural numbers.                                                        *)

(* A nonempty set of natural numbers has a least element.                  *)
LEMMA LeastNat ==
  ASSUME NEW T, T \subseteq Nat, T # {}
  PROVE  \E x \in T : \A y \in T : x <= y
  <1>1. \E x \in T : \A y \in T : ~(<<y, x>> \in OpToRel(<, Nat))
    BY NatLessThanWellFounded, WFMin, Zenon
  <1>2. PICK x \in T : \A y \in T : ~(y < x)
    BY <1>1 DEF OpToRel
  <1>3. \A y \in T : x <= y
    BY <1>2
  <1> QED
    BY <1>3

(* Induction, for the members of a set.                                    *)
LEMMA SetInduction ==
  ASSUME NEW S, 0 \in S, \A n \in Nat : n \in S => n + 1 \in S
  PROVE  \A n \in Nat : n \in S
  <1> SUFFICES ASSUME NEW k \in Nat, k \notin S
               PROVE  FALSE
    OBVIOUS
  <1> DEFINE T == {n \in Nat : n \notin S}
  <1>1. PICK x \in T : \A y \in T : x <= y
    <2>1. T \subseteq Nat /\ T # {}
      OBVIOUS
    <2> HIDE DEF T
    <2> QED
      BY <2>1, LeastNat
  <1>2. x # 0 /\ x - 1 \in Nat /\ x - 1 \notin T
    BY <1>1
  <1> QED
    BY <1>2

(* A nonempty set of natural numbers with a bound has a greatest element.  *)
LEMMA GreatestNat ==
  ASSUME NEW m \in Nat, NEW T, T \subseteq 0..m, T # {}
  PROVE  \E x \in T : \A y \in T : y <= x
  <1> DEFINE U == {n \in Nat : m - n \in T}
  <1>1. U \subseteq Nat /\ U # {}
    <2>1. PICK t \in T : TRUE
      OBVIOUS
    <2>2. m - t \in Nat /\ m - (m - t) = t
      BY <2>1
    <2> QED
      BY <2>2
  <1>2. PICK u \in U : \A v \in U : u <= v
    <2> HIDE DEF U
    <2> QED
      BY <1>1, LeastNat
  <1>3. \A y \in T : m - y \in U
    <2> SUFFICES ASSUME NEW y \in T
                 PROVE  m - y \in U
      OBVIOUS
    <2>1. y \in 0..m /\ m - y \in Nat /\ m - (m - y) = y
      OBVIOUS
    <2> QED
      BY <2>1
  <1>4. \A y \in T : y <= m - u
    BY <1>2, <1>3
  <1> QED
    BY <1>2, <1>4

(* The recursive definition of the powers of two defines something.        *)
LEMMA Pow2Facts ==
  /\ Pow2 \in [0..NUM_PAGES -> Nat \ {0}]
  /\ Pow2[0] = 1
  /\ \A i \in 0..(NUM_PAGES - 1) : Pow2[i + 1] = 2 * Pow2[i]
  <1> DEFINE Def(g, n) == [i \in 0..n |-> IF i = 0 THEN 1 ELSE 2 * g[i - 1]]
             S == {n \in Nat : \E g : g = Def(g, n)}
  <1>1. 0 \in S
    <2>1. PICK g : g = [i \in 0..0 |-> 1]
      OBVIOUS
    <2>2. g = Def(g, 0)
      BY <2>1
    <2> QED
      BY <2>2
  <1>2. ASSUME NEW n \in Nat, n \in S
        PROVE  n + 1 \in S
    <2>1. PICK g : g = Def(g, n)
      BY <1>2
    <2>2. PICK h : h = [i \in 0..(n + 1) |-> IF i <= n THEN g[i] ELSE 2 * g[n]]
      OBVIOUS
    <2>3. \A i \in 0..(n + 1) : h[i] = IF i = 0 THEN 1 ELSE 2 * h[i - 1]
      BY <2>1, <2>2
    <2>4. h = Def(h, n + 1)
      BY <2>2, <2>3
    <2>5. n + 1 \in Nat
      OBVIOUS
    <2> QED
      BY <2>4, <2>5
  <1> HIDE DEF S
  <1>3. NUM_PAGES \in S /\ NUM_PAGES \in Nat
    BY <1>1, <1>2, SetInduction, SlabAssumption
  <1>4. \E g : g = Def(g, NUM_PAGES)
    BY <1>3 DEF S
  <1>5. Pow2 = Def(Pow2, NUM_PAGES)
    BY <1>4, Zenon DEF Pow2
  <1>6. \A i \in 0..NUM_PAGES : Pow2[i] = IF i = 0 THEN 1 ELSE 2 * Pow2[i - 1]
    BY <1>5
  <1> DEFINE P == {n \in Nat : n \in 0..NUM_PAGES => Pow2[n] \in Nat \ {0}}
  <1>7. \A n \in Nat : n \in P
    <2>1. 0 \in P
      BY <1>3, <1>6
    <2>2. ASSUME NEW n \in Nat, n \in P
          PROVE  n + 1 \in P
      BY <1>3, <1>6, <2>2
    <2> HIDE DEF P
    <2> QED
      BY <2>1, <2>2, SetInduction
  <1>8. \A i \in 0..NUM_PAGES : Pow2[i] \in Nat \ {0}
    BY <1>3, <1>7
  <1>9. Pow2[0] = 1 /\ \A i \in 0..(NUM_PAGES - 1) : Pow2[i + 1] = 2 * Pow2[i]
    BY <1>3, <1>6
  <1> QED
    BY <1>5, <1>8, <1>9

(* They grow.                                                              *)
LEMMA Pow2Grows ==
  ASSUME NEW i \in 0..NUM_PAGES, NEW j \in 0..NUM_PAGES, i <= j
  PROVE  Pow2[i] <= Pow2[j]
  <1> DEFINE P == {d \in Nat : i + d <= NUM_PAGES => Pow2[i] <= Pow2[i + d]}
  <1>1. NUM_PAGES \in Nat
    BY SlabAssumption
  <1>2. 0 \in P
    BY Pow2Facts
  <1>3. ASSUME NEW d \in Nat, d \in P
        PROVE  d + 1 \in P
    <2> SUFFICES ASSUME i + (d + 1) <= NUM_PAGES
                 PROVE  Pow2[i] <= Pow2[i + (d + 1)]
      OBVIOUS
    <2>1. i + d \in 0..(NUM_PAGES - 1) /\ i + (d + 1) = (i + d) + 1
      BY <1>1
    <2>2. Pow2[(i + d) + 1] = 2 * Pow2[i + d] /\ Pow2[i + d] \in Nat /\ Pow2[i] \in Nat
      BY <1>1, <2>1, Pow2Facts
    <2>3. Pow2[i] <= Pow2[i + d]
      BY <1>1, <1>3, <2>1
    <2> QED
      BY <2>1, <2>2, <2>3
  <1>4. j - i \in P
    <2>1. j - i \in Nat
      BY <1>1
    <2> HIDE DEF P
    <2> QED
      BY <1>2, <1>3, <2>1, SetInduction
  <1>5. i + (j - i) = j
    BY <1>1
  <1> QED
    BY <1>1, <1>4, <1>5

-----------------------------------------------------------------------------
(* Keys and pages.                                                         *)

(* The pages follow one another and get larger.                            *)
LEMMA PageFacts ==
  /\ NUM_PAGES \in Nat /\ NUM_PAGES > 0 /\ PAGE_INITIAL_SIZE \in Nat /\ PAGE_INITIAL_SIZE > 0
  /\ \A i \in 0..NUM_PAGES : /\ PageSize(i) \in Nat /\ PageSize(i) >= PAGE_INITIAL_SIZE
                             /\ PrevLen(i) = PageSize(i) - PAGE_INITIAL_SIZE /\ PrevLen(i) \in Nat
  /\ PrevLen(0) = 0
  /\ \A i \in PageIds : PrevLen(i + 1) = PrevLen(i) + PageSize(i)
  /\ \A i, j \in 0..NUM_PAGES : i <= j => PrevLen(i) <= PrevLen(j)
  <1>1. NUM_PAGES \in Nat /\ NUM_PAGES > 0 /\ PAGE_INITIAL_SIZE \in Nat /\ PAGE_INITIAL_SIZE > 0
    BY SlabAssumption
  <1>2. \A i, j \in 0..NUM_PAGES : i <= j => PageSize(i) <= PageSize(j)
    <2> SUFFICES ASSUME NEW i \in 0..NUM_PAGES, NEW j \in 0..NUM_PAGES, i <= j
                 PROVE  PageSize(i) <= PageSize(j)
      OBVIOUS
    <2>1. Pow2[i] \in Nat /\ Pow2[j] \in Nat /\ Pow2[i] <= Pow2[j]
      BY Pow2Facts, Pow2Grows
    <2> QED
      BY <1>1, <2>1 DEF PageSize
  <1>3. PageSize(0) = PAGE_INITIAL_SIZE
    BY <1>1, Pow2Facts DEF PageSize
  <1>4. \A i \in 0..NUM_PAGES : PageSize(i) \in Nat
    BY <1>1, Pow2Facts DEF PageSize
  <1>5. \A i \in PageIds : PageSize(i + 1) = 2 * PageSize(i)
    <2> SUFFICES ASSUME NEW i \in PageIds
                 PROVE  PageSize(i + 1) = 2 * PageSize(i)
      OBVIOUS
    <2>1. Pow2[i + 1] = 2 * Pow2[i] /\ Pow2[i] \in Nat
      BY <1>1, Pow2Facts DEF PageIds
    <2> QED
      BY <1>1, <2>1 DEF PageSize
  <1>6. \A i \in 0..NUM_PAGES : PageSize(i) >= PAGE_INITIAL_SIZE
    <2>1. 0 \in 0..NUM_PAGES /\ \A i \in 0..NUM_PAGES : 0 <= i
      BY <1>1
    <2> QED
      BY <1>2, <1>3, <2>1
  <1>7. \A i \in PageIds : i \in 0..NUM_PAGES /\ i + 1 \in 0..NUM_PAGES
    BY <1>1 DEF PageIds
  <1> QED
    BY <1>1, <1>2, <1>3, <1>4, <1>5, <1>6, <1>7 DEF PrevLen

(* The number of bits: there is one, for what get_page_id takes it of.     *)
LEMMA BitLengthFacts ==
  ASSUME NEW n \in Nat, n < Pow2[NUM_PAGES]
  PROVE  /\ BitLength(n) \in 0..NUM_PAGES /\ n < Pow2[BitLength(n)]
         /\ BitLength(n) > 0 => n >= Pow2[BitLength(n) - 1]
  <1>1. NUM_PAGES \in Nat
    BY SlabAssumption
  <1> DEFINE T == {k \in 0..NUM_PAGES : n < Pow2[k]}
  <1>2. PICK k \in T : \A j \in T : k <= j
    <2>1. T \subseteq Nat /\ NUM_PAGES \in T
      BY <1>1
    <2> HIDE DEF T
    <2> QED
      BY <2>1, LeastNat
  <1>3. \A j \in 0..(k - 1) : n >= Pow2[j]
    <2> SUFFICES ASSUME NEW j \in 0..(k - 1)
                 PROVE  n >= Pow2[j]
      OBVIOUS
    <2>1. j \in 0..NUM_PAGES /\ j < k
      BY <1>1, <1>2
    <2>2. Pow2[j] \in Nat
      BY <2>1, Pow2Facts
    <2> QED
      BY <1>2, <2>1, <2>2
  <1>4. /\ BitLength(n) \in 0..NUM_PAGES /\ n < Pow2[BitLength(n)]
        /\ \A j \in 0..(BitLength(n) - 1) : n >= Pow2[j]
    BY <1>2, <1>3 DEF BitLength
  <1> QED
    BY <1>1, <1>4

(* get_page_id finds the page that a key is in.                            *)
LEMMA PageIdFacts ==
  ASSUME NEW key \in Keys
  PROVE  /\ get_page_id[key] \in PageIds
         /\ PrevLen(get_page_id[key]) <= key
         /\ key < PrevLen(get_page_id[key]) + PageSize(get_page_id[key])
  <1>1. NUM_PAGES \in Nat /\ NUM_PAGES > 0 /\ PAGE_INITIAL_SIZE \in Nat /\ PAGE_INITIAL_SIZE > 0
    BY PageFacts
  <1>2. PICK P \in Nat : P = PAGE_INITIAL_SIZE /\ P > 0
    BY <1>1
  <1>3. key \in Nat /\ key < P * Pow2[NUM_PAGES] - P /\ Pow2[NUM_PAGES] \in Nat
    <2>1. NUM_PAGES \in 0..NUM_PAGES
      BY <1>1
    <2>2. PrevLen(NUM_PAGES) \in Nat /\ Pow2[NUM_PAGES] \in Nat
      BY <2>1, PageFacts, Pow2Facts
    <2>3. PrevLen(NUM_PAGES) = P * Pow2[NUM_PAGES] - P
      BY <1>2 DEF PrevLen, PageSize
    <2> QED
      BY <2>2, <2>3 DEF Keys
  <1>4. PICK q \in Nat : q = (key + P) \div (2 * P) /\ (2 * P) * q <= key + P /\ key + P < (2 * P) * (q + 1)
    <2>1. key + P \in Nat /\ 2 * P \in Nat /\ 2 * P > 0
      BY <1>2, <1>3
    <2>2. PICK a \in Nat, b \in Nat : a = key + P /\ b = 2 * P /\ b > 0
      BY <2>1
    <2>3. a \div b \in Nat /\ b * (a \div b) <= a /\ a < b * ((a \div b) + 1)
      BY <2>2
    <2> QED
      BY <2>2, <2>3
  <1>5. q < Pow2[NUM_PAGES]
    <2>1. PICK w \in Nat : w = Pow2[NUM_PAGES]
      BY <1>3
    <2>2. (2 * P) * q < P * w
      BY <1>2, <1>3, <1>4, <2>1
    <2>3. P * (2 * q) < P * w
      BY <1>2, <1>4, <2>1, <2>2
    <2>4. 2 * q < w
      BY <1>2, <1>4, <2>1, <2>3
    <2> QED
      BY <1>4, <2>1, <2>4
  <1>6. PICK k \in 0..NUM_PAGES : /\ k = BitLength(q) /\ q < Pow2[k]
                                  /\ k > 0 => q >= Pow2[k - 1]
    BY <1>5, BitLengthFacts
  <1>7. PrevLen(k) <= key
    <2>1. CASE k = 0
      BY <1>3, <2>1, PageFacts
    <2>2. CASE k > 0
      <3>1. PICK w \in Nat : w = Pow2[k - 1] /\ Pow2[k] = 2 * w /\ q >= w
        <4>1. k - 1 \in 0..(NUM_PAGES - 1) /\ (k - 1) + 1 = k
          BY <1>1, <2>2
        <4>2. k - 1 \in 0..NUM_PAGES
          BY <1>1, <2>2
        <4>3. Pow2[(k - 1) + 1] = 2 * Pow2[k - 1] /\ Pow2[k - 1] \in Nat
          BY <4>1, <4>2, Pow2Facts
        <4> QED
          BY <1>6, <2>2, <4>1, <4>3
      <3>2. (2 * P) * q >= (2 * P) * w
        BY <1>2, <1>4, <3>1
      <3>3. PageSize(k) = P * (2 * w)
        BY <1>2, <3>1 DEF PageSize
      <3>4. key + P >= P * (2 * w)
        <4>1. (2 * P) * w = P * (2 * w)
          BY <1>2, <3>1
        <4>2. PICK x \in Nat, y \in Nat, z \in Nat : x = (2 * P) * q /\ y = (2 * P) * w /\ z = key + P
          BY <1>2, <1>3, <1>4, <3>1
        <4>3. x <= z /\ y <= x
          BY <1>4, <3>2, <4>2
        <4>4. y <= z
          BY <4>2, <4>3
        <4> QED
          BY <4>1, <4>2, <4>4
      <3> QED
        BY <1>2, <1>3, <3>1, <3>3, <3>4 DEF PrevLen
    <2> QED
      BY <1>1, <2>1, <2>2
  <1>8. k < NUM_PAGES
    <2>1. PrevLen(NUM_PAGES) \in Nat /\ key < PrevLen(NUM_PAGES)
      BY <1>1, PageFacts DEF Keys
    <2> QED
      BY <1>1, <1>3, <1>7, <2>1, PageFacts
  <1>9. get_page_id[key] = k
    BY <1>2, <1>4, <1>6, <1>8 DEF get_page_id
  <1>10. key < PrevLen(k) + PageSize(k)
    <2>1. PICK w \in Nat : w = Pow2[k] /\ q + 1 <= w
      BY <1>4, <1>6, Pow2Facts
    <2>2. (2 * P) * (q + 1) <= (2 * P) * w
      BY <1>2, <1>4, <2>1
    <2>3. key + P < 2 * (P * w)
      BY <1>2, <1>3, <1>4, <2>1, <2>2
    <2>4. PageSize(k) = P * w /\ PrevLen(k) = P * w - P
      BY <1>2, <2>1 DEF PageSize, PrevLen
    <2> QED
      BY <1>2, <1>3, <2>1, <2>3, <2>4
  <1> QED
    BY <1>1, <1>7, <1>8, <1>9, <1>10 DEF PageIds

(* A slot of a page has one key.                                           *)
LEMMA KeyFacts ==
  ASSUME NEW i \in PageIds, NEW s \in 0..(PageSize(i) - 1)
  PROVE  /\ PrevLen(i) + s \in Keys
         /\ get_page_id[PrevLen(i) + s] = i
  <1>1. /\ NUM_PAGES \in Nat /\ i \in 0..(NUM_PAGES - 1) /\ i + 1 \in 0..NUM_PAGES
        /\ PageSize(i) \in Nat /\ PrevLen(i) \in Nat /\ PrevLen(i + 1) = PrevLen(i) + PageSize(i)
    BY PageFacts DEF PageIds
  <1>2. PICK key : key = PrevLen(i) + s
    OBVIOUS
  <1>3. key \in Keys
    <2>1. PrevLen(i + 1) <= PrevLen(NUM_PAGES) /\ PrevLen(NUM_PAGES) \in Nat
      BY <1>1, PageFacts
    <2> QED
      BY <1>1, <1>2, <2>1 DEF Keys
  <1>4. PICK j \in PageIds : /\ j = get_page_id[key]
                             /\ PrevLen(j) <= key /\ key < PrevLen(j) + PageSize(j)
    BY <1>3, PageIdFacts
  <1>5. /\ j \in 0..(NUM_PAGES - 1) /\ j + 1 \in 0..NUM_PAGES
        /\ PageSize(j) \in Nat /\ PrevLen(j) \in Nat /\ PrevLen(j + 1) = PrevLen(j) + PageSize(j)
    <2>1. j \in 0..(NUM_PAGES - 1) /\ j \in 0..NUM_PAGES /\ j + 1 \in 0..NUM_PAGES
      BY <1>1, <1>4 DEF PageIds
    <2> QED
      BY <1>4, <2>1, PageFacts
  <1>6. ~(i < j)
    <2>1. i < j => PrevLen(i + 1) <= PrevLen(j)
      BY <1>1, <1>5, PageFacts
    <2> QED
      BY <1>1, <1>2, <1>4, <1>5, <2>1
  <1>7. ~(j < i)
    <2>1. j < i => PrevLen(j + 1) <= PrevLen(i)
      BY <1>1, <1>5, PageFacts
    <2> QED
      BY <1>1, <1>2, <1>4, <1>5, <2>1
  <1>8. i = j
    BY <1>1, <1>5, <1>6, <1>7
  <1> QED
    BY <1>2, <1>3, <1>4, <1>8


-----------------------------------------------------------------------------
(* The pages of the slab.                                                  *)

(* What is found in a slot of a page.                                      *)
Val(p, s) == IF p = NoPage \/ s >= p.initialized THEN NoValue ELSE p.slots[s].val

PageType(i, p) ==
  /\ p \in [used : Int, initialized : Nat, next : Nat,
            slots : [0..(PageSize(i) - 1) -> [val : Values \cup {NoValue}, next : Nat]]]
  /\ p.initialized <= PageSize(i)

(* The free list of a page: its n vacant slots in the order of f, then     *)
(* the first of the slots that are not initialized.                        *)
Chain(p, n, f) ==
  /\ f[0] = p.next /\ f[n] = p.initialized
  /\ \A j \in 0..(n - 1) : /\ f[j] < p.initialized
                           /\ p.slots[f[j]].val = NoValue
                           /\ p.slots[f[j]].next = f[j + 1]
  /\ \A j, k \in 0..(n - 1) : f[j] = f[k] => j = k
  /\ \A s \in 0..(p.initialized - 1) :
        p.slots[s].val = NoValue => \E j \in 0..(n - 1) : f[j] = s
  /\ p.used = p.initialized - n

PageInv(i, p) == /\ PageType(i, p)
                 /\ \E n \in Nat : \E f \in [0..n -> Nat] : Chain(p, n, f)

(* The inductive invariant of the slab: a page that exists has been used.  *)
PagesInv(ps) ==
  /\ ps = [i \in PageIds |-> ps[i]]
  /\ \A i \in PageIds : ps[i] # NoPage => PageInv(i, ps[i]) /\ ps[i].initialized > 0

SlabInv == w_page_id \in PageIds /\ PagesInv(pages)

(* A page that insert has just created.                                    *)
LEMMA NewPageInv ==
  ASSUME NEW i \in PageIds
  PROVE  /\ PageInv(i, NewPage(i))
         /\ NewPage(i).initialized = 0 /\ NewPage(i).used = 0
  <1>1. PageSize(i) \in Nat
    <2>1. i \in 0..NUM_PAGES
      BY PageFacts DEF PageIds
    <2> QED
      BY <2>1, PageFacts
  <1>2. PageType(i, NewPage(i)) /\ NewPage(i).initialized = 0 /\ NewPage(i).used = 0
    BY <1>1 DEF PageType, NewPage, Vacant
  <1>3. PICK f : f = [j \in 0..0 |-> 0]
    OBVIOUS
  <1>4. f \in [0..0 -> Nat] /\ Chain(NewPage(i), 0, f)
    BY <1>3 DEF Chain, NewPage
  <1> QED
    BY <1>2, <1>4 DEF PageInv

(* alloc puts the value into a slot where nothing was, changes no other    *)
(* slot and leaves the free list in order.                                 *)
LEMMA AllocKeepsPage ==
  ASSUME NEW i \in PageIds, NEW p, PageInv(i, p), p.used # PageSize(i), NEW v \in Values
  PROVE  /\ PageInv(i, alloc(p, v)) /\ alloc(p, v).initialized > 0
         /\ \E s \in 0..(PageSize(i) - 1) :
               /\ s >= p.initialized \/ p.slots[s].val = NoValue
               /\ s < alloc(p, v).initialized /\ alloc(p, v).slots[s].val = v
               /\ \A t \in 0..(PageSize(i) - 1) : t # s =>
                     /\ t >= p.initialized <=> t >= alloc(p, v).initialized
                     /\ alloc(p, v).slots[t].val = p.slots[t].val
  <1>1. PICK size \in Nat : size = PageSize(i)
    BY PageFacts DEF PageIds
  <1>2. /\ p \in [used : Int, initialized : Nat, next : Nat,
                  slots : [0..(size - 1) -> [val : Values \cup {NoValue}, next : Nat]]]
        /\ p.used \in Int /\ p.next \in Nat /\ p.initialized \in Nat /\ p.initialized <= size
        /\ p.slots \in [0..(size - 1) -> [val : Values \cup {NoValue}, next : Nat]]
    BY <1>1 DEF PageInv, PageType
  <1>3. PICK n \in Nat : \E f \in [0..n -> Nat] : Chain(p, n, f)
    BY DEF PageInv
  <1>4. PICK f \in [0..n -> Nat] : Chain(p, n, f)
    BY <1>3
  <1>5. PICK q : q = alloc(p, v)
    OBVIOUS
  <1>6. Occupied(v) = [val |-> v, next |-> 0] /\ v # NoValue
    BY SlabAssumption DEF Occupied
  <1>7. CASE n = 0
    <2>1. p.next = p.initialized /\ p.used = p.initialized /\ p.next < size
      BY <1>1, <1>2, <1>4, <1>7 DEF Chain
    <2>2. q = [used |-> p.used + 1, initialized |-> p.initialized + 1, next |-> p.next + 1,
               slots |-> [p.slots EXCEPT ![p.next] = Occupied(v)]]
      <3>1. p.next >= p.initialized
        BY <1>2, <2>1
      <3>2. q = [p EXCEPT !.initialized = @ + 1, !.next = @ + 1, !.used = @ + 1,
                          !.slots[p.next] = Occupied(v)]
        BY ONLY <1>5, <3>1 DEF alloc
      <3> QED
        BY ONLY <1>2, <3>2
    <2>3. q.slots \in [0..(size - 1) -> [val : Values \cup {NoValue}, next : Nat]]
      BY <1>2, <1>6, <2>1, <2>2
    <2>4. \A t \in 0..(size - 1) : q.slots[t] = IF t = p.next THEN Occupied(v) ELSE p.slots[t]
      BY <1>2, <2>2
    <2>5. PageType(i, q)
      BY <1>1, <1>2, <2>1, <2>2, <2>3 DEF PageType
    <2>6. PICK g : g = [j \in 0..0 |-> p.initialized + 1]
      OBVIOUS
    <2>7. g \in [0..0 -> Nat] /\ g[0] = p.initialized + 1
      BY <1>2, <2>6
    <2>8. \A s \in 0..(q.initialized - 1) : q.slots[s].val # NoValue
      <3> SUFFICES ASSUME NEW s \in 0..(q.initialized - 1)
                   PROVE  q.slots[s].val # NoValue
        OBVIOUS
      <3>1. s \in 0..p.initialized /\ s \in 0..(size - 1)
        BY <1>2, <2>1, <2>2
      <3>2. s # p.next => s \in 0..(p.initialized - 1)
        BY <1>2, <2>1, <3>1
      <3>3. s # p.next => p.slots[s].val # NoValue
        BY <1>4, <1>7, <3>2 DEF Chain
      <3> QED
        BY <1>6, <2>4, <3>1, <3>3
    <2>9. Chain(q, 0, g)
      BY <1>2, <2>1, <2>2, <2>7, <2>8 DEF Chain
    <2>10. PageInv(i, q)
      BY <2>5, <2>7, <2>9 DEF PageInv
    <2>11. p.next \in 0..(size - 1) /\ p.next >= p.initialized /\ p.next < q.initialized /\ q.initialized > 0
      BY <1>2, <2>1, <2>2
    <2>12. q.slots[p.next].val = v
      BY <1>6, <2>4, <2>11
    <2>13. \A t \in 0..(size - 1) : t # p.next =>
              (t >= p.initialized <=> t >= q.initialized) /\ q.slots[t].val = p.slots[t].val
      BY <1>2, <2>1, <2>2, <2>4
    <2> QED
      BY <1>1, <1>5, <2>10, <2>11, <2>12, <2>13
  <1>8. CASE n > 0
    <2>1. /\ p.next = f[0] /\ f[0] < p.initialized /\ f[n] = p.initialized
          /\ p.slots[f[0]].val = NoValue /\ p.slots[f[0]].next = f[1]
          /\ p.used = p.initialized - n
      BY <1>4, <1>8 DEF Chain
    <2>2. q = [used |-> p.used + 1, initialized |-> p.initialized, next |-> f[1],
               slots |-> [p.slots EXCEPT ![p.next] = Occupied(v)]]
      <3>1. ~(p.next >= p.initialized)
        BY <1>2, <2>1
      <3>2. q = [p EXCEPT !.next = p.slots[p.next].next, !.used = @ + 1,
                          !.slots[p.next] = Occupied(v)]
        BY ONLY <1>5, <3>1 DEF alloc
      <3> QED
        BY ONLY <1>2, <2>1, <3>2
    <2>3. q.slots \in [0..(size - 1) -> [val : Values \cup {NoValue}, next : Nat]]
      BY <1>2, <1>6, <2>1, <2>2
    <2>4. \A t \in 0..(size - 1) : q.slots[t] = IF t = p.next THEN Occupied(v) ELSE p.slots[t]
      BY <1>2, <2>2
    <2>5. f[1] \in Nat
      BY <1>8
    <2>6. PageType(i, q)
      BY <1>1, <1>2, <2>2, <2>3, <2>5 DEF PageType
    <2>7. PICK m \in Nat : m = n - 1
      BY <1>8
    <2>8. PICK g : g = [j \in 0..m |-> f[j + 1]]
      OBVIOUS
    <2>9. g \in [0..m -> Nat] /\ \A j \in 0..m : g[j] = f[j + 1]
      BY <2>7, <2>8
    <2>10. g[0] = q.next /\ g[m] = q.initialized
      BY <2>1, <2>2, <2>7, <2>9
    <2>11. \A j \in 0..(m - 1) : /\ g[j] < q.initialized
                                 /\ q.slots[g[j]].val = NoValue
                                 /\ q.slots[g[j]].next = g[j + 1]
      <3> SUFFICES ASSUME NEW j \in 0..(m - 1)
                   PROVE  /\ g[j] < q.initialized
                          /\ q.slots[g[j]].val = NoValue
                          /\ q.slots[g[j]].next = g[j + 1]
        OBVIOUS
      <3>1. j + 1 \in 0..(n - 1) /\ 0 \in 0..(n - 1) /\ j + 1 # 0 /\ j \in 0..m /\ j + 1 \in 0..m /\ j + 1 \in 0..n
        BY <2>7
      <3>2. /\ f[j + 1] < p.initialized /\ p.slots[f[j + 1]].val = NoValue
            /\ p.slots[f[j + 1]].next = f[(j + 1) + 1] /\ f[j + 1] # f[0] /\ f[j + 1] \in Nat
        BY <1>4, <3>1 DEF Chain
      <3>3. g[j] = f[j + 1] /\ g[j + 1] = f[(j + 1) + 1] /\ f[j + 1] \in 0..(size - 1)
        <4>1. g[j] = f[j + 1] /\ g[j + 1] = f[(j + 1) + 1]
          BY <2>9, <3>1
        <4>2. p.initialized \in Nat /\ p.initialized <= size
          BY <1>2
        <4>3. PICK x \in Nat : x = f[j + 1] /\ x < p.initialized
          BY <3>2
        <4>4. x \in 0..(size - 1)
          BY <4>2, <4>3
        <4> QED
          BY <4>1, <4>3, <4>4
      <3>4. q.slots[f[j + 1]] = p.slots[f[j + 1]]
        BY <2>1, <2>4, <3>2, <3>3
      <3> QED
        BY <2>2, <3>2, <3>3, <3>4
    <2>12. \A j, k \in 0..(m - 1) : g[j] = g[k] => j = k
      <3> SUFFICES ASSUME NEW j \in 0..(m - 1), NEW k \in 0..(m - 1), g[j] = g[k]
                   PROVE  j = k
        OBVIOUS
      <3>1. j + 1 \in 0..(n - 1) /\ k + 1 \in 0..(n - 1) /\ f[j + 1] = f[k + 1]
        BY <2>7, <2>9
      <3>2. j + 1 = k + 1
        BY <1>4, <3>1 DEF Chain
      <3> QED
        BY <3>2
    <2>13. \A s \in 0..(q.initialized - 1) :
              q.slots[s].val = NoValue => \E j \in 0..(m - 1) : g[j] = s
      <3> SUFFICES ASSUME NEW s \in 0..(q.initialized - 1), q.slots[s].val = NoValue
                   PROVE  \E j \in 0..(m - 1) : g[j] = s
        OBVIOUS
      <3>1. s \in 0..(size - 1) /\ s \in 0..(p.initialized - 1)
        BY <1>2, <2>2
      <3>2. s # p.next /\ p.slots[s].val = NoValue
        BY <1>6, <2>4, <3>1
      <3>3. PICK j \in 0..(n - 1) : f[j] = s
        BY <1>4, <3>1, <3>2 DEF Chain
      <3>4. j # 0 /\ j - 1 \in 0..(m - 1) /\ j - 1 \in 0..m /\ (j - 1) + 1 = j
        BY <2>1, <2>7, <3>2, <3>3
      <3>5. g[j - 1] = s
        BY <2>9, <3>3, <3>4
      <3> QED
        BY <3>4, <3>5
    <2>14. q.used = q.initialized - m
      BY <1>2, <2>1, <2>2, <2>7
    <2>15. Chain(q, m, g)
      BY <2>10, <2>11, <2>12, <2>13, <2>14 DEF Chain
    <2>16. PageInv(i, q)
      BY <2>6, <2>9, <2>15 DEF PageInv
    <2>17. p.next \in 0..(size - 1) /\ p.next < q.initialized /\ q.initialized > 0
      BY <1>2, <2>1, <2>2
    <2>18. q.slots[p.next].val = v /\ p.slots[p.next].val = NoValue
      BY <1>6, <2>1, <2>4, <2>17
    <2>19. \A t \in 0..(size - 1) : t # p.next =>
              (t >= p.initialized <=> t >= q.initialized) /\ q.slots[t].val = p.slots[t].val
      BY <2>2, <2>4
    <2> QED
      BY <1>1, <1>5, <2>16, <2>17, <2>18, <2>19
  <1> QED
    BY <1>7, <1>8


(* Page::remove empties its slot, changes no other and puts it in front of *)
(* the free list.                                                          *)
LEMMA ReleaseKeepsPage ==
  ASSUME NEW i \in PageIds, NEW p, PageInv(i, p),
         NEW slot \in 0..(p.initialized - 1), p.slots[slot].val # NoValue
  PROVE  /\ PageInv(i, release(p, slot))
         /\ release(p, slot).initialized = p.initialized
         /\ slot \in 0..(PageSize(i) - 1) /\ release(p, slot).slots[slot].val = NoValue
         /\ \A t \in 0..(PageSize(i) - 1) : t # slot => release(p, slot).slots[t].val = p.slots[t].val
  <1>1. PICK size \in Nat : size = PageSize(i)
    BY PageFacts DEF PageIds
  <1>2. /\ p \in [used : Int, initialized : Nat, next : Nat,
                  slots : [0..(size - 1) -> [val : Values \cup {NoValue}, next : Nat]]]
        /\ p.initialized <= size
    BY <1>1 DEF PageInv, PageType
  <1>3. PICK n \in Nat : \E f \in [0..n -> Nat] : Chain(p, n, f)
    BY DEF PageInv
  <1>4. PICK f \in [0..n -> Nat] : Chain(p, n, f)
    BY <1>3
  <1>5. PICK q : q = release(p, slot)
    OBVIOUS
  <1>6. Vacant(p.next) = [val |-> NoValue, next |-> p.next]
    BY DEF Vacant
  <1>7. q = [used |-> p.used - 1, initialized |-> p.initialized, next |-> slot,
             slots |-> [p.slots EXCEPT ![slot] = Vacant(p.next)]]
    <2>1. q = [p EXCEPT !.slots[slot] = Vacant(p.next), !.next = slot, !.used = @ - 1]
      BY ONLY <1>5 DEF release
    <2> QED
      BY ONLY <1>2, <2>1
  <1>8. slot \in Nat /\ slot < p.initialized /\ slot \in 0..(size - 1)
    BY <1>2
  <1>9. q.slots \in [0..(size - 1) -> [val : Values \cup {NoValue}, next : Nat]]
    BY <1>2, <1>6, <1>7, <1>8
  <1>10. \A t \in 0..(size - 1) : q.slots[t] = IF t = slot THEN Vacant(p.next) ELSE p.slots[t]
    BY <1>2, <1>7
  <1>11. PageType(i, q)
    BY <1>1, <1>2, <1>7, <1>8, <1>9 DEF PageType
  <1>12. PICK m \in Nat : m = n + 1
    OBVIOUS
  <1>13. PICK g : g = [j \in 0..m |-> IF j = 0 THEN slot ELSE f[j - 1]]
    OBVIOUS
  <1>14. g \in [0..m -> Nat] /\ g[0] = slot /\ \A j \in 0..n : g[j + 1] = f[j]
    BY <1>8, <1>12, <1>13
  <1>15. \A j \in 0..(n - 1) : /\ f[j] \in 0..(size - 1) /\ f[j] \in 0..(p.initialized - 1) /\ f[j] # slot
                               /\ p.slots[f[j]].val = NoValue /\ p.slots[f[j]].next = f[j + 1]
    <2> SUFFICES ASSUME NEW j \in 0..(n - 1)
                 PROVE  /\ f[j] \in 0..(size - 1) /\ f[j] \in 0..(p.initialized - 1) /\ f[j] # slot
                        /\ p.slots[f[j]].val = NoValue /\ p.slots[f[j]].next = f[j + 1]
      OBVIOUS
    <2>1. f[j] \in Nat /\ f[j] < p.initialized /\ p.slots[f[j]].val = NoValue /\ p.slots[f[j]].next = f[j + 1]
      BY <1>4 DEF Chain
    <2>2. f[j] # slot
      BY <2>1
    <2>3. p.initialized \in Nat /\ p.initialized <= size
      BY <1>2
    <2>4. PICK x \in Nat : x = f[j] /\ x < p.initialized
      BY <2>1
    <2>5. x \in 0..(size - 1) /\ x \in 0..(p.initialized - 1)
      BY <2>3, <2>4
    <2> QED
      BY <2>1, <2>2, <2>4, <2>5
  <1>16. f[0] = p.next /\ f[n] = p.initialized /\ p.used = p.initialized - n
    BY <1>4 DEF Chain
  <1>17. g[0] = q.next /\ g[m] = q.initialized /\ q.used = q.initialized - m
    BY <1>2, <1>7, <1>12, <1>14, <1>16
  <1>18. \A j \in 0..(m - 1) : j = 0 \/ (j - 1 \in 0..(n - 1) /\ g[j] = f[j - 1] /\ g[j + 1] = f[(j - 1) + 1])
    BY <1>12, <1>13
  <1>19. \A j \in 0..(m - 1) : /\ g[j] < q.initialized
                               /\ q.slots[g[j]].val = NoValue
                               /\ q.slots[g[j]].next = g[j + 1]
    <2> SUFFICES ASSUME NEW j \in 0..(m - 1)
                 PROVE  /\ g[j] < q.initialized
                        /\ q.slots[g[j]].val = NoValue
                        /\ q.slots[g[j]].next = g[j + 1]
      OBVIOUS
    <2>1. CASE j = 0
      <3>1. g[0 + 1] = f[0]
        BY <1>14
      <3>2. q.slots[slot] = [val |-> NoValue, next |-> p.next]
        BY <1>6, <1>8, <1>10
      <3> QED
        BY <1>7, <1>8, <1>14, <1>16, <2>1, <3>1, <3>2
    <2>2. CASE j - 1 \in 0..(n - 1) /\ g[j] = f[j - 1] /\ g[j + 1] = f[(j - 1) + 1]
      <3>1. q.slots[f[j - 1]] = p.slots[f[j - 1]]
        BY <1>10, <1>15, <2>2
      <3> QED
        <4>1. /\ f[j - 1] \in 0..(p.initialized - 1) /\ p.slots[f[j - 1]].val = NoValue
              /\ p.slots[f[j - 1]].next = f[(j - 1) + 1]
          BY <1>15, <2>2
        <4>2. q.initialized = p.initialized /\ p.initialized \in Nat
          BY <1>2, <1>7
        <4> QED
          BY <2>2, <3>1, <4>1, <4>2
    <2> QED
      BY <1>18, <2>1, <2>2
  <1>20. \A j, k \in 0..(m - 1) : g[j] = g[k] => j = k
    <2> SUFFICES ASSUME NEW j \in 0..(m - 1), NEW k \in 0..(m - 1), g[j] = g[k]
                 PROVE  j = k
      OBVIOUS
    <2>1. \A x, y \in 0..(n - 1) : f[x] = f[y] => x = y
      BY <1>4 DEF Chain
    <2>2. CASE j = 0 \/ k = 0
      BY <1>14, <1>15, <1>18, <2>2
    <2>3. CASE j # 0 /\ k # 0
      <3>1. j - 1 \in 0..(n - 1) /\ k - 1 \in 0..(n - 1) /\ f[j - 1] = f[k - 1]
        BY <1>18, <2>3
      <3>2. j - 1 = k - 1
        BY <2>1, <3>1
      <3> QED
        BY <3>2
    <2> QED
      BY <2>2, <2>3
  <1>21. \A s \in 0..(q.initialized - 1) :
            q.slots[s].val = NoValue => \E j \in 0..(m - 1) : g[j] = s
    <2> SUFFICES ASSUME NEW s \in 0..(q.initialized - 1), q.slots[s].val = NoValue
                 PROVE  \E j \in 0..(m - 1) : g[j] = s
      OBVIOUS
    <2>1. s \in 0..(size - 1) /\ s \in 0..(p.initialized - 1)
      BY <1>2, <1>7
    <2>2. CASE s = slot
      BY <1>12, <1>14, <2>2
    <2>3. CASE s # slot
      <3>1. p.slots[s].val = NoValue
        BY <1>10, <2>1, <2>3
      <3>2. PICK j \in 0..(n - 1) : f[j] = s
        BY <1>4, <2>1, <3>1 DEF Chain
      <3>3. j + 1 \in 0..(m - 1) /\ g[j + 1] = s
        BY <1>12, <1>14, <3>2
      <3> QED
        BY <3>3
    <2> QED
      BY <2>2, <2>3
  <1>22. Chain(q, m, g)
    BY <1>17, <1>19, <1>20, <1>21 DEF Chain
  <1>23. PageInv(i, q)
    BY <1>11, <1>14, <1>22 DEF PageInv
  <1>24. q.slots[slot].val = NoValue /\ q.initialized = p.initialized
    BY <1>6, <1>7, <1>8, <1>10
  <1>25. \A t \in 0..(size - 1) : t # slot => q.slots[t].val = p.slots[t].val
    BY <1>10
  <1> QED
    BY <1>1, <1>5, <1>8, <1>23, <1>24, <1>25

(* The free list has as many members as there are vacant slots.            *)
LEMMA ChainCounts ==
  ASSUME NEW i \in PageIds, NEW p, PageType(i, p),
         NEW n \in Nat, NEW f \in [0..n -> Nat], Chain(p, n, f)
  PROVE  /\ VacantSlots(p) = {f[j] : j \in 0..(n - 1)}
         /\ IsFiniteSet(VacantSlots(p)) /\ Cardinality(VacantSlots(p)) = n
         /\ n <= p.initialized
         /\ n = p.initialized => VacantSlots(p) = 0..(p.initialized - 1)
  <1>1. p.initialized \in Nat
    BY DEF PageType
  <1>2. VacantSlots(p) = {f[j] : j \in 0..(n - 1)}
    <2>1. \A s \in VacantSlots(p) : \E j \in 0..(n - 1) : f[j] = s
      BY DEF VacantSlots, Chain
    <2>2. \A j \in 0..(n - 1) : f[j] \in VacantSlots(p)
      <3> SUFFICES ASSUME NEW j \in 0..(n - 1)
                   PROVE  f[j] \in VacantSlots(p)
        OBVIOUS
      <3>1. f[j] \in Nat /\ f[j] < p.initialized /\ p.slots[f[j]].val = NoValue
        BY DEF Chain
      <3> QED
        BY <1>1, <3>1 DEF VacantSlots
    <2> QED
      BY <2>1, <2>2
  <1>3. PICK b : b = [j \in 1..n |-> f[j - 1]]
    OBVIOUS
  <1>4. b \in Bijection(1..n, VacantSlots(p))
    <2>1. \A j \in 1..n : j - 1 \in 0..(n - 1) /\ b[j] = f[j - 1]
      BY <1>3
    <2>2. b \in [1..n -> VacantSlots(p)]
      BY <1>2, <1>3, <2>1
    <2>3. \A j, k \in 1..n : b[j] = b[k] => j = k
      <3> SUFFICES ASSUME NEW j \in 1..n, NEW k \in 1..n, b[j] = b[k]
                   PROVE  j = k
        OBVIOUS
      <3>1. j - 1 = k - 1
        BY <2>1 DEF Chain
      <3> QED
        BY <3>1
    <2>4. \A s \in VacantSlots(p) : \E j \in 1..n : b[j] = s
      <3> SUFFICES ASSUME NEW s \in VacantSlots(p)
                   PROVE  \E j \in 1..n : b[j] = s
        OBVIOUS
      <3>1. PICK j \in 0..(n - 1) : f[j] = s
        BY <1>2
      <3>2. j + 1 \in 1..n /\ (j + 1) - 1 = j
        OBVIOUS
      <3> QED
        BY <1>3, <3>1, <3>2
    <2> QED
      BY <2>2, <2>3, <2>4 DEF Bijection, Injection, Surjection, IsInjective
  <1>5. IsFiniteSet(VacantSlots(p)) /\ Cardinality(VacantSlots(p)) = n
    <2>1. ExistsBijection(1..n, VacantSlots(p))
      BY <1>4 DEF ExistsBijection
    <2> QED
      BY <2>1, FS_CountingElements, FS_NatBijection
  <1>6. IsFiniteSet(0..(p.initialized - 1)) /\ Cardinality(0..(p.initialized - 1)) = p.initialized
    <2>1. 0 \in Int /\ p.initialized - 1 \in Int
      BY <1>1
    <2>2. Cardinality(0..(p.initialized - 1)) =
             IF 0 > p.initialized - 1 THEN 0 ELSE (p.initialized - 1) - 0 + 1
      BY <2>1, FS_Interval
    <2> QED
      <3>1. IsFiniteSet(0..(p.initialized - 1))
        BY <2>1, FS_Interval
      <3>2. Cardinality(0..(p.initialized - 1)) = p.initialized
        BY <1>1, <2>2
      <3> QED
        BY <3>1, <3>2
  <1>7. VacantSlots(p) \subseteq 0..(p.initialized - 1)
    BY DEF VacantSlots
  <1>8. /\ Cardinality(VacantSlots(p)) <= Cardinality(0..(p.initialized - 1))
        /\ Cardinality(VacantSlots(p)) = Cardinality(0..(p.initialized - 1))
              => VacantSlots(p) = 0..(p.initialized - 1)
    BY <1>6, <1>7, FS_Subset
  <1> QED
    BY <1>2, <1>5, <1>6, <1>8

(* A page that counts no occupied slot has none.                           *)
LEMMA UnusedPageEmpty ==
  ASSUME NEW i \in PageIds, NEW p, PageInv(i, p), p.used = 0
  PROVE  \A s \in Nat : Val(p, s) = NoValue
  <1>1. PICK n \in Nat : \E f \in [0..n -> Nat] : Chain(p, n, f)
    BY DEF PageInv
  <1>2. PICK f \in [0..n -> Nat] : Chain(p, n, f)
    BY <1>1
  <1>3. PageType(i, p) /\ p.initialized \in Nat
    BY DEF PageInv, PageType
  <1>4. n = p.initialized
    BY <1>2, <1>3 DEF Chain
  <1>5. VacantSlots(p) = 0..(p.initialized - 1)
    BY <1>2, <1>3, <1>4, ChainCounts
  <1> QED
    BY <1>3, <1>5 DEF Val, VacantSlots


(* get looks into one slot of one page.                                    *)
LEMMA GetIsVal ==
  ASSUME NEW key \in Keys
  PROVE  /\ get(key) = Val(pages[get_page_id[key]], key - PrevLen(get_page_id[key]))
         /\ get(key)' = Val(pages'[get_page_id[key]], key - PrevLen(get_page_id[key]))
         /\ get_page_id[key] \in PageIds
         /\ key - PrevLen(get_page_id[key]) \in 0..(PageSize(get_page_id[key]) - 1)
  <1>1. /\ get(key) = Val(pages[get_page_id[key]], key - PrevLen(get_page_id[key]))
        /\ get(key)' = Val(pages'[get_page_id[key]], key - PrevLen(get_page_id[key]))
    BY DEF get, Val
  <1>2. PICK i \in PageIds : i = get_page_id[key] /\ PrevLen(i) <= key /\ key < PrevLen(i) + PageSize(i)
    BY PageIdFacts
  <1>3. i \in 0..NUM_PAGES
    <2>1. NUM_PAGES \in Nat
      BY PageFacts
    <2> QED
      BY <1>2, <2>1 DEF PageIds
  <1>4. PrevLen(i) \in Nat /\ PageSize(i) \in Nat /\ key \in Int
    BY <1>3, PageFacts DEF Keys
  <1>5. key - PrevLen(i) \in 0..(PageSize(i) - 1)
    BY <1>2, <1>4
  <1> QED
    BY <1>1, <1>2, <1>5

(* Two slots of a page have different keys.                                *)
LEMMA KeyOfSlot ==
  ASSUME NEW key \in Keys, NEW i \in PageIds, NEW s \in 0..(PageSize(i) - 1),
         get_page_id[key] = i, key - PrevLen(i) = s
  PROVE  key = PrevLen(i) + s
  <1>1. i \in 0..NUM_PAGES
    BY PageFacts DEF PageIds
  <1>2. PrevLen(i) \in Nat /\ key \in Int
    BY <1>1, PageFacts DEF Keys
  <1> QED
    BY <1>2

(* insert adds one value under a key that had none.                        *)
LEMMA InsertEffect ==
  ASSUME SlabInv, insert
  PROVE  /\ SlabInv'
         /\ \E k \in Keys, v \in Values :
               /\ get(k) = NoValue /\ get(k)' = v
               /\ \A l \in Keys : l # k => get(l)' = get(l)
  <1>1. PICK v \in Values, i \in w_page_id..(NUM_PAGES - 1) :
           /\ ~Full(i)
           /\ pages' = [pages EXCEPT ![i] = alloc(IF pages[i] = NoPage THEN NewPage(i) ELSE pages[i], v)]
           /\ w_page_id' = i
    BY DEF insert
  <1>2. i \in PageIds
    BY <1>1, PageFacts DEF PageIds, SlabInv
  <1>3. i \in 0..NUM_PAGES /\ PageSize(i) \in Nat /\ PageSize(i) > 0
    <2>1. i \in 0..NUM_PAGES
      BY <1>2, PageFacts DEF PageIds
    <2> QED
      BY <2>1, PageFacts
  <1>4. PICK p : p = IF pages[i] = NoPage THEN NewPage(i) ELSE pages[i]
    OBVIOUS
  <1>5. PageInv(i, p) /\ p.used # PageSize(i)
    <2>1. CASE pages[i] = NoPage
      BY <1>2, <1>3, <1>4, <2>1, NewPageInv
    <2>2. CASE pages[i] # NoPage
      BY <1>1, <1>2, <1>4, <2>2 DEF Full, SlabInv, PagesInv
    <2> QED
      BY <2>1, <2>2
  <1>6. \A s \in 0..(PageSize(i) - 1) :
           Val(pages[i], s) = IF s >= p.initialized THEN NoValue ELSE p.slots[s].val
    <2>1. CASE pages[i] = NoPage
      <3>1. p.initialized = 0
        BY <1>2, <1>4, <2>1, NewPageInv
      <3> QED
        BY <2>1, <3>1 DEF Val
    <2>2. CASE pages[i] # NoPage
      BY <1>4, <2>2 DEF Val
    <2> QED
      BY <2>1, <2>2
  <1>7. PICK q : q = alloc(p, v)
    OBVIOUS
  <1>8. PageInv(i, q) /\ q.initialized > 0
    BY <1>2, <1>5, <1>7, AllocKeepsPage
  <1>9. PICK s \in 0..(PageSize(i) - 1) :
           /\ s >= p.initialized \/ p.slots[s].val = NoValue
           /\ s < q.initialized /\ q.slots[s].val = v
           /\ \A t \in 0..(PageSize(i) - 1) : t # s =>
                 /\ t >= p.initialized <=> t >= q.initialized
                 /\ q.slots[t].val = p.slots[t].val
    BY <1>2, <1>5, <1>7, AllocKeepsPage
  <1>10. pages' = [pages EXCEPT ![i] = q] /\ pages = [j \in PageIds |-> pages[j]]
    BY <1>1, <1>4, <1>7 DEF SlabInv, PagesInv
  <1>11. pages'[i] = q /\ \A j \in PageIds : j # i => pages'[j] = pages[j]
    BY <1>2, <1>10
  <1>12. SlabInv'
    <2>1. pages' = [j \in PageIds |-> pages'[j]]
      BY <1>2, <1>10
    <2>2. \A j \in PageIds : pages'[j] # NoPage => PageInv(j, pages'[j]) /\ pages'[j].initialized > 0
      BY <1>8, <1>11 DEF SlabInv, PagesInv
    <2> QED
      BY <1>1, <1>2, <2>1, <2>2 DEF SlabInv, PagesInv
  <1>13. q # NoPage
    <2>1. NoPage.initialized = 0
      BY DEF NoPage
    <2> QED
      BY <1>8, <2>1
  <1>14. q.initialized \in Nat /\ p.initialized \in Nat
    BY <1>5, <1>8 DEF PageInv, PageType
  <1>15. /\ Val(pages[i], s) = NoValue /\ Val(q, s) = v
         /\ \A t \in 0..(PageSize(i) - 1) : t # s => Val(q, t) = Val(pages[i], t)
    <2>1. Val(pages[i], s) = NoValue
      BY <1>6, <1>9
    <2>2. Val(q, s) = v
      BY <1>3, <1>9, <1>13, <1>14 DEF Val
    <2>3. \A t \in 0..(PageSize(i) - 1) : t # s => Val(q, t) = Val(pages[i], t)
      BY <1>6, <1>9, <1>13 DEF Val
    <2> QED
      BY <2>1, <2>2, <2>3
  <1>16. PICK k : k = PrevLen(i) + s
    OBVIOUS
  <1>17. k \in Keys /\ get_page_id[k] = i
    BY <1>2, <1>16, KeyFacts
  <1>18. k - PrevLen(i) = s
    BY <1>3, <1>16, PageFacts
  <1>19. get(k) = NoValue /\ get(k)' = v
    BY <1>11, <1>15, <1>17, <1>18, GetIsVal
  <1>20. \A l \in Keys : l # k => get(l)' = get(l)
    <2> SUFFICES ASSUME NEW l \in Keys, l # k
                 PROVE  get(l)' = get(l)
      OBVIOUS
    <2>1. PICK j \in PageIds, t \in Int :
             /\ t \in 0..(PageSize(j) - 1) /\ j = get_page_id[l] /\ t = l - PrevLen(j)
             /\ get(l) = Val(pages[j], t) /\ get(l)' = Val(pages'[j], t)
      BY GetIsVal
    <2>2. CASE j # i
      BY <1>11, <2>1, <2>2
    <2>3. CASE j = i
      <3>1. t # s
        <4>1. get_page_id[l] = i /\ l - PrevLen(i) = t /\ t \in 0..(PageSize(i) - 1)
          BY <2>1, <2>3
        <4>2. l = PrevLen(i) + t
          BY <1>2, <4>1, KeyOfSlot
        <4> QED
          BY <1>16, <4>2
      <3> QED
        BY <1>11, <1>15, <2>1, <2>3, <3>1
    <2> QED
      BY <2>2, <2>3
  <1> QED
    BY <1>12, <1>17, <1>19, <1>20

(* mark_remove keeps the pages in order and takes no value away.           *)
LEMMA MarkRemoveEffect ==
  ASSUME w_page_id \in PageIds, NEW ps, PagesInv(ps), \E i \in PageIds : ps[i] # NoPage,
         mark_remove(ps)
  PROVE  /\ SlabInv'
         /\ \A i \in PageIds, s \in Nat : Val(pages'[i], s) = Val(ps[i], s)
  <1> DEFINE IsLast(i) == ps[i] # NoPage /\ \A j \in PageIds : j > i => ps[j] = NoPage
             last == CHOOSE i \in PageIds : IsLast(i)
  <1>1. NUM_PAGES \in Nat /\ NUM_PAGES > 0 /\ 0 \in PageIds
    BY PageFacts DEF PageIds
  <1>2. last \in PageIds /\ ps[last] # NoPage
    <2> DEFINE T == {i \in PageIds : ps[i] # NoPage}
    <2>1. NUM_PAGES - 1 \in Nat /\ T \subseteq 0..(NUM_PAGES - 1) /\ T # {}
      BY <1>1 DEF PageIds
    <2>2. PICK x \in T : \A y \in T : y <= x
      <3> HIDE DEF T
      <3> QED
        BY <2>1, GreatestNat
    <2>3. IsLast(x)
      BY <1>1, <2>2 DEF PageIds
    <2> QED
      BY <2>2, <2>3
  <1>3. PICK m : m = last
    OBVIOUS
  <1>4. /\ w_page_id' \in PageIds
        /\ \/ pages' = ps
           \/ pages' = [ps EXCEPT ![m] = NoPage] /\ ps[m].used = 0
    BY <1>1, <1>3 DEF mark_remove
  <1>5. m \in PageIds /\ ps[m] # NoPage
    BY <1>2, <1>3
  <1> HIDE DEF last
  <1>6. CASE pages' = ps
    BY <1>4, <1>6 DEF SlabInv
  <1>7. CASE pages' = [ps EXCEPT ![m] = NoPage] /\ ps[m].used = 0
    <2>1. ps = [i \in PageIds |-> ps[i]]
      BY DEF PagesInv
    <2>2. pages' = [i \in PageIds |-> pages'[i]] /\ pages'[m] = NoPage
          /\ \A i \in PageIds : i # m => pages'[i] = ps[i]
      BY <1>5, <1>7, <2>1
    <2>3. PagesInv(pages')
      BY <2>2 DEF PagesInv
    <2>4. \A s \in Nat : Val(ps[m], s) = NoValue
      BY <1>5, <1>7, UnusedPageEmpty DEF PagesInv
    <2>5. \A s \in Nat : Val(pages'[m], s) = NoValue
      BY <2>2 DEF Val
    <2>6. \A i \in PageIds, s \in Nat : Val(pages'[i], s) = Val(ps[i], s)
      BY <2>2, <2>4, <2>5
    <2> QED
      BY <1>4, <2>3, <2>6 DEF SlabInv
  <1> QED
    BY <1>4, <1>6, <1>7

(* remove takes out the value of its key, if there is one, and no other.   *)
LEMMA RemoveEffect ==
  ASSUME SlabInv, NEW key \in Keys, remove(key)
  PROVE  /\ SlabInv' /\ get(key)' = NoValue
         /\ \A l \in Keys : l # key => get(l)' = get(l)
  <1>1. PICK i \in PageIds, t \in Int :
           /\ t \in 0..(PageSize(i) - 1) /\ i = get_page_id[key] /\ t = key - PrevLen(i)
           /\ get(key) = Val(pages[i], t) /\ get(key)' = Val(pages'[i], t)
    BY GetIsVal
  <1>2. PICK ps : ps = IF get(key) = NoValue THEN pages ELSE [pages EXCEPT ![i] = release(pages[i], t)]
    OBVIOUS
  <1>3. pages[i] # NoPage /\ mark_remove(ps)
    BY <1>1, <1>2 DEF remove
  <1>4. PageSize(i) \in Nat /\ t \in Nat
    <2>1. i \in 0..NUM_PAGES
      BY PageFacts DEF PageIds
    <2>2. PageSize(i) \in Nat
      BY <2>1, PageFacts
    <2> QED
      BY <1>1, <2>2
  <1>5. /\ PagesInv(ps) /\ ps[i] # NoPage /\ Val(ps[i], t) = NoValue
        /\ \A j \in PageIds : \A s \in 0..(PageSize(j) - 1) :
              j # i \/ s # t => Val(ps[j], s) = Val(pages[j], s)
    <2>1. CASE get(key) = NoValue
      BY <1>1, <1>2, <1>3, <2>1 DEF SlabInv
    <2>2. CASE get(key) # NoValue
      <3>1. PICK p : p = pages[i]
        OBVIOUS
      <3>2. PageInv(i, p) /\ p.initialized \in Nat /\ p.initialized > 0
        BY <1>3, <3>1 DEF SlabInv, PagesInv, PageInv, PageType
      <3>3. t \in 0..(p.initialized - 1) /\ p.slots[t].val # NoValue
        BY <1>1, <1>3, <1>4, <2>2, <3>1, <3>2 DEF Val
      <3>4. PICK q : q = release(p, t)
        OBVIOUS
      <3>5. /\ PageInv(i, q) /\ q.initialized = p.initialized /\ q.slots[t].val = NoValue
            /\ \A s \in 0..(PageSize(i) - 1) : s # t => q.slots[s].val = p.slots[s].val
        BY <3>2, <3>3, <3>4, ReleaseKeepsPage
      <3>6. q # NoPage
        <4>1. NoPage.initialized = 0
          BY DEF NoPage
        <4> QED
          BY <3>2, <3>5, <4>1
      <3>7. pages = [j \in PageIds |-> pages[j]]
        BY DEF SlabInv, PagesInv
      <3>8. ps = [pages EXCEPT ![i] = q]
        BY <1>2, <2>2, <3>1, <3>4
      <3>9. ps = [j \in PageIds |-> ps[j]] /\ ps[i] = q /\ \A j \in PageIds : j # i => ps[j] = pages[j]
        BY <3>7, <3>8
      <3>10. PagesInv(ps)
        BY <3>2, <3>5, <3>9 DEF PagesInv, SlabInv
      <3>11. Val(q, t) = NoValue /\ \A s \in 0..(PageSize(i) - 1) : s # t => Val(q, s) = Val(p, s)
        BY <1>3, <3>1, <3>5, <3>6 DEF Val
      <3> QED
        BY <3>1, <3>6, <3>9, <3>10, <3>11
    <2> QED
      BY <2>1, <2>2
  <1>6. /\ SlabInv'
        /\ \A j \in PageIds, s \in Nat : Val(pages'[j], s) = Val(ps[j], s)
    BY <1>3, <1>5, MarkRemoveEffect DEF SlabInv
  <1>7. get(key)' = NoValue
    BY <1>1, <1>4, <1>5, <1>6
  <1>8. \A l \in Keys : l # key => get(l)' = get(l)
    <2> SUFFICES ASSUME NEW l \in Keys, l # key
                 PROVE  get(l)' = get(l)
      OBVIOUS
    <2>1. PICK j \in PageIds, s \in Int :
             /\ s \in 0..(PageSize(j) - 1) /\ j = get_page_id[l] /\ s = l - PrevLen(j)
             /\ get(l) = Val(pages[j], s) /\ get(l)' = Val(pages'[j], s)
      BY GetIsVal
    <2>2. j # i \/ s # t
      <3>1. l = PrevLen(j) + s /\ key = PrevLen(i) + t
        BY <1>1, <2>1, KeyOfSlot
      <3> QED
        BY <3>1
    <2>3. s \in Nat
      BY <2>1
    <2> QED
      BY <1>5, <1>6, <2>1, <2>2, <2>3
  <1> QED
    BY <1>6, <1>7, <1>8


(* The invariant of the slab.                                              *)
THEOREM SlabInvariant == SlabSpec => []SlabInv
  <1>1. SlabInit => SlabInv
    <2>1. 0 \in PageIds
      BY PageFacts DEF PageIds
    <2> QED
      BY <2>1 DEF SlabInit, SlabInv, PagesInv
  <1>2. SlabInv /\ [SlabNext]_slabVars => SlabInv'
    <2> SUFFICES ASSUME SlabInv, [SlabNext]_slabVars
                 PROVE  SlabInv'
      OBVIOUS
    <2>1. CASE insert
      BY <2>1, InsertEffect
    <2>2. ASSUME NEW key \in Keys, remove(key)
          PROVE  SlabInv'
      BY <2>2, RemoveEffect
    <2>3. CASE UNCHANGED slabVars
      BY <2>3 DEF slabVars, SlabInv
    <2> QED
      BY <2>1, <2>2, <2>3 DEF SlabNext
  <1> QED
    BY <1>1, <1>2, PTL DEF SlabSpec

(* The slab of utils/slab.rs implements the map of KeyMap: insert files    *)
(* its value under a key that get finds nothing at, remove takes out the   *)
(* value of its key alone, and neither the pages that come and go nor the  *)
(* generation that wraps around can be told from outside.                  *)
THEOREM SlabImplementsMap == SlabSpec => SlabIsMap
  <1> DEFINE found == [k \in Keys |-> get(k)]
  <1>1. SlabInit => Map!Init
    <2> SUFFICES ASSUME SlabInit
                 PROVE  \A k \in Keys : get(k) = NoValue
      BY DEF Map!Init
    <2> TAKE k \in Keys
    <2>1. get_page_id[k] \in PageIds /\ get(k) = Val(pages[get_page_id[k]], k - PrevLen(get_page_id[k]))
      BY GetIsVal
    <2> QED
      BY <2>1 DEF SlabInit, Val
  <1>2. SlabInv /\ [SlabNext]_slabVars => [Map!Insert \/ Map!Remove]_found
    <2> SUFFICES ASSUME SlabInv, [SlabNext]_slabVars
                 PROVE  [Map!Insert \/ Map!Remove]_found
      OBVIOUS
    <2>1. CASE insert
      <3>1. PICK k \in Keys, v \in Values :
               /\ get(k) = NoValue /\ get(k)' = v
               /\ \A l \in Keys : l # k => get(l)' = get(l)
        BY <2>1, InsertEffect
      <3>2. found[k] = NoValue /\ found' = [found EXCEPT ![k] = v]
        BY <3>1
      <3> QED
        BY <3>2 DEF Map!Insert
    <2>2. ASSUME NEW key \in Keys, remove(key)
          PROVE  [Map!Insert \/ Map!Remove]_found
      <3>1. get(key)' = NoValue /\ \A l \in Keys : l # key => get(l)' = get(l)
        BY <2>2, RemoveEffect
      <3>2. found' = [found EXCEPT ![key] = NoValue]
        BY <3>1
      <3>3. CASE get(key) = NoValue
        BY <3>1, <3>3
      <3>4. CASE get(key) # NoValue
        BY <3>2, <3>4 DEF Map!Remove
      <3> QED
        BY <3>3, <3>4
    <2>3. CASE UNCHANGED slabVars
      BY <2>3 DEF slabVars, get
    <2> QED
      BY <2>1, <2>2, <2>3 DEF SlabNext
  <1> QED
    BY <1>1, <1>2, SlabInvariant, PTL DEF SlabSpec, SlabIsMap, Map!Spec

(* Following the free list of a page.                                      *)
LEMMA FreeListFacts ==
  ASSUME NEW size \in Nat, NEW p, p.initialized \in Nat, p.initialized <= size,
         NEW n \in Nat, NEW f \in [0..n -> Nat], Chain(p, n, f), n <= size
  PROVE  /\ \A m \in 0..size : \/ FreeList(p, size)[m] = p.initialized
                               \/ \E j \in 0..(n - 1) : FreeList(p, size)[m] = f[j]
         /\ \A j \in 0..(n - 1) : \E m \in 0..size : FreeList(p, size)[m] = f[j]
         /\ \E m \in 0..size : FreeList(p, size)[m] = p.initialized
  <1> DEFINE Def(h) == [m \in 0..size |->
                          IF m = 0 THEN p.next
                          ELSE IF h[m - 1] < p.initialized THEN p.slots[h[m - 1]].next
                          ELSE h[m - 1]]
  <1>1. PICK g : g = [m \in 0..size |-> IF m <= n THEN f[m] ELSE p.initialized]
    OBVIOUS
  <1>2. g[0] = p.next
    BY <1>1 DEF Chain
  <1>3. \A m \in 1..size :
           g[m] = IF g[m - 1] < p.initialized THEN p.slots[g[m - 1]].next ELSE g[m - 1]
    <2> SUFFICES ASSUME NEW m \in 1..size
                 PROVE  g[m] = IF g[m - 1] < p.initialized THEN p.slots[g[m - 1]].next ELSE g[m - 1]
      OBVIOUS
    <2>1. m - 1 \in 0..size /\ m \in 0..size /\ (m - 1) + 1 = m
      OBVIOUS
    <2>2. CASE m <= n
      <3>1. m - 1 \in 0..(n - 1) /\ g[m - 1] = f[m - 1] /\ g[m] = f[m]
        BY <1>1, <2>1, <2>2
      <3>2. f[m - 1] < p.initialized /\ p.slots[f[m - 1]].next = f[(m - 1) + 1]
        BY <3>1 DEF Chain
      <3> QED
        BY <2>1, <3>1, <3>2
    <2>3. CASE m > n
      <3>1. g[m] = p.initialized /\ f[n] = p.initialized
        BY <1>1, <2>1, <2>3 DEF Chain
      <3>2. g[m - 1] = p.initialized
        <4>1. CASE m - 1 = n
          BY <1>1, <2>1, <3>1, <4>1
        <4>2. CASE m - 1 > n
          BY <1>1, <2>1, <4>2
        <4> QED
          BY <2>3, <4>1, <4>2
      <3> QED
        BY <3>1, <3>2
    <2> QED
      BY <2>2, <2>3
  <1>4. g = Def(g)
    <2>1. \A m \in 0..size : m # 0 => m \in 1..size
      OBVIOUS
    <2>2. \A m \in 0..size : g[m] = IF m = 0 THEN p.next
                                    ELSE IF g[m - 1] < p.initialized THEN p.slots[g[m - 1]].next
                                    ELSE g[m - 1]
      BY <1>2, <1>3, <2>1
    <2>3. g = [m \in 0..size |-> g[m]]
      BY <1>1
    <2> QED
      BY ONLY <2>2, <2>3
  <1>5. FreeList(p, size) = Def(FreeList(p, size))
    BY <1>4, Zenon DEF FreeList
  <1>6. PICK h : h = FreeList(p, size)
    OBVIOUS
  <1>7. \A m \in 0..size : h[m] = IF m = 0 THEN p.next
                                  ELSE IF h[m - 1] < p.initialized THEN p.slots[h[m - 1]].next
                                  ELSE h[m - 1]
    BY <1>5, <1>6
  <1> DEFINE P == {m \in Nat : m \in 0..size => h[m] = g[m]}
  <1>8. \A m \in Nat : m \in P
    <2>1. 0 \in P
      BY <1>2, <1>7
    <2>2. ASSUME NEW m \in Nat, m \in P
          PROVE  m + 1 \in P
      <3> SUFFICES ASSUME m + 1 \in 0..size
                   PROVE  h[m + 1] = g[m + 1]
        OBVIOUS
      <3>1. m \in 0..size /\ m + 1 \in 1..size /\ (m + 1) - 1 = m /\ m + 1 # 0
        OBVIOUS
      <3>2. h[m] = g[m]
        BY <2>2, <3>1
      <3>3. h[m + 1] = IF h[m] < p.initialized THEN p.slots[h[m]].next ELSE h[m]
        BY <1>7, <3>1
      <3>4. g[m + 1] = IF g[m] < p.initialized THEN p.slots[g[m]].next ELSE g[m]
        BY <1>3, <3>1
      <3> QED
        BY <3>2, <3>3, <3>4
    <2> HIDE DEF P
    <2> QED
      BY <2>1, <2>2, SetInduction
  <1>9. \A m \in 0..size : FreeList(p, size)[m] = g[m]
    BY <1>6, <1>8
  <1>10. \A m \in 0..size : g[m] = p.initialized \/ \E j \in 0..(n - 1) : g[m] = f[j]
    <2> SUFFICES ASSUME NEW m \in 0..size
                 PROVE  g[m] = p.initialized \/ \E j \in 0..(n - 1) : g[m] = f[j]
      OBVIOUS
    <2>1. CASE m \in 0..(n - 1)
      BY <1>1, <2>1
    <2>2. CASE m >= n
      BY <1>1, <2>2 DEF Chain
    <2> QED
      BY <2>1, <2>2
  <1>11. \A j \in 0..(n - 1) : j \in 0..size /\ g[j] = f[j]
    BY <1>1
  <1>12. n \in 0..size /\ g[n] = p.initialized
    BY <1>1 DEF Chain
  <1> QED
    BY <1>9, <1>10, <1>11, <1>12

(* In every page of the slab the free list runs through the vacant slots   *)
(* and ends where the slots not yet initialized begin, and used counts the *)
(* occupied ones: alloc never hands out a slot in use, also where its      *)
(* assertions are compiled away.                                           *)
THEOREM SlabFreeListsSound == SlabSpec => []FreeListSound
  <1>1. SlabInv => FreeListSound
    <2> SUFFICES ASSUME SlabInv, NEW i \in PageIds, pages[i] # NoPage
                 PROVE  /\ pages[i].used = pages[i].initialized - Cardinality(VacantSlots(pages[i]))
                        /\ {FreeList(pages[i], PageSize(i))[n] : n \in 0..PageSize(i)}
                              = VacantSlots(pages[i]) \cup {pages[i].initialized}
      BY DEF FreeListSound
    <2>1. PICK p : p = pages[i]
      OBVIOUS
    <2>2. PageInv(i, p)
      BY <2>1 DEF SlabInv, PagesInv
    <2>3. PICK n \in Nat : \E f \in [0..n -> Nat] : Chain(p, n, f)
      BY <2>2 DEF PageInv
    <2>4. PICK f \in [0..n -> Nat] : Chain(p, n, f)
      BY <2>3
    <2>5. PageType(i, p) /\ p.initialized \in Nat /\ p.initialized <= PageSize(i)
      BY <2>2 DEF PageInv, PageType
    <2>6. PageSize(i) \in Nat
      <3>1. NUM_PAGES \in Nat
        BY PageFacts
      <3>2. i \in 0..NUM_PAGES
        BY <3>1 DEF PageIds
      <3> QED
        BY <3>2, PageFacts
    <2>7. /\ VacantSlots(p) = {f[j] : j \in 0..(n - 1)}
          /\ Cardinality(VacantSlots(p)) = n /\ n <= p.initialized
      BY <2>4, <2>5, ChainCounts
    <2>8. p.used = p.initialized - Cardinality(VacantSlots(p))
      BY <2>4, <2>7 DEF Chain
    <2>9. n <= PageSize(i)
      BY <2>5, <2>6, <2>7
    <2>10. {FreeList(p, PageSize(i))[m] : m \in 0..PageSize(i)} = VacantSlots(p) \cup {p.initialized}
      <3>1. PICK size \in Nat : size = PageSize(i)
        BY <2>6
      <3>2. /\ \A m \in 0..size : \/ FreeList(p, size)[m] = p.initialized
                                  \/ \E j \in 0..(n - 1) : FreeList(p, size)[m] = f[j]
            /\ \A j \in 0..(n - 1) : \E m \in 0..size : FreeList(p, size)[m] = f[j]
            /\ \E m \in 0..size : FreeList(p, size)[m] = p.initialized
        BY <2>4, <2>5, <2>9, <3>1, FreeListFacts
      <3>3. {FreeList(p, size)[m] : m \in 0..size} = VacantSlots(p) \cup {p.initialized}
        <4>1. PICK h : h = FreeList(p, size)
          OBVIOUS
        <4>2. \A m \in 0..size : h[m] \in VacantSlots(p) \cup {p.initialized}
          BY <2>7, <3>2, <4>1
        <4>3. \A x \in VacantSlots(p) \cup {p.initialized} : \E m \in 0..size : h[m] = x
          <5>1. \A j \in 0..(n - 1) : \E m \in 0..size : h[m] = f[j]
            BY <3>2, <4>1
          <5>2. \E m \in 0..size : h[m] = p.initialized
            BY <3>2, <4>1
          <5>3. \A x \in VacantSlots(p) : \E j \in 0..(n - 1) : f[j] = x
            BY ONLY <2>7
          <5> QED
            BY ONLY <5>1, <5>2, <5>3
        <4> QED
          BY <4>1, <4>2, <4>3
      <3> QED
        BY <3>1, <3>3
    <2> QED
      BY <2>1, <2>8, <2>10
  <1> QED
    BY <1>1, SlabInvariant, PTL
=============================================================================
