---------------------------- MODULE KernelProofs ----------------------------
(***************************************************************************)
(* What the crate makes of the kernel, proved of its two sides that wait   *)
(* on it and share nothing: a driver thread sleeps safely in the kernel,   *)
(* for every number of senders, every capacity of the submission queue and *)
(* every bound on the wakers sent (Park); and the calls of fs keep what    *)
(* they promise over a tree that others change meanwhile, for every number *)
(* of tasks, every initial tree and every set of calls (Fs).               *)
(***************************************************************************)
EXTENDS Park, Fs, SequenceTheorems, WellFoundedInduction, TLAPS

(* inner_park, from its first statement to the wait.                       *)
Parking == {"drain", "store", "drainLeft", "flush", "install", "enter", "sleep"}

(* A waker in the channel has been counted.                                *)
CountInv == chan <= sent

(* Only the legacy driver parks with a zero timeout, and a wait is only    *)
(* entered if it is needed.                                                *)
WaitInv ==
  /\ timeout = "zero" => legacy
  /\ pc = "sleep" => needWait /\ timeout # "zero"

(* While a wait may still follow nothing is in the run queue.              *)
ReadyInv == pc \in Parking /\ needWait /\ timeout # "zero" => ~ready

(* Once the flag is stored, and until the wait is over, it says that the   *)
(* thread has to be unparked.                                              *)
AwakeInv == pc \in {"drainLeft", "flush", "install", "enter", "sleep"} /\ needWait => ~awake

(* A sender whose waker the second drain did not see is on its way to the  *)
(* eventfd, or has been there.                                             *)
SignalInv ==
  pc \in {"flush", "install", "enter", "sleep"} /\ needWait /\ chan > 0 =>
    cqe \/ evfd \/ \E s \in Senders : spc[s] \in {"sent", "write"}

(* The eventfd is read: its entry found room in the submission queue, and  *)
(* is with the kernel before the wait begins.                              *)
ReadInv ==
  ~legacy =>
    /\ installed => eread # "no" \/ cqe
    /\ pc = "install" /\ needWait /\ ~installed => sq < Cap
    /\ pc = "enter" /\ needWait => installed
    /\ pc = "sleep" => installed /\ eread # "sq"

ParkInv == TypeOK /\ CountInv /\ WaitInv /\ ReadyInv /\ AwakeInv /\ SignalInv /\ ReadInv

-----------------------------------------------------------------------------
(* The invariant holds when the thread starts, awake and with empty rings. *)
LEMMA InitParkInv == Init => ParkInv
  <1> SUFFICES ASSUME Init
               PROVE  ParkInv
    OBVIOUS
  <1>1. TypeOK
    <2>1. chan \in 0..MaxSends /\ sent \in 0..MaxSends
      BY ParkAssumption DEF Init
    <2>2. sq \in 0..Cap
      BY ParkAssumption DEF Init
    <2>3. spc \in [Senders -> {"idle", "sent", "write"}]
      BY DEF Init
    <2>4. op \subseteq {"sq", "kernel"}
      BY DEF Init
    <2> QED
      BY <2>1, <2>2, <2>3, <2>4 DEF Init, TypeOK
  <1>2. CountInv /\ WaitInv /\ ReadyInv /\ AwakeInv /\ SignalInv /\ ReadInv
    BY DEF Init, CountInv, WaitInv, ReadyInv, AwakeInv, SignalInv, ReadInv, Parking
  <1> QED
    BY <1>1, <1>2 DEF ParkInv

(* Every step of the driver thread keeps it.                               *)
LEMMA DriverKeepsParkInv == ParkInv /\ DriverStep /\ UNCHANGED legacy => ParkInv'
  <1> SUFFICES ASSUME ParkInv, DriverStep, UNCHANGED legacy
               PROVE  ParkInv'
    OBVIOUS
  <1> USE ParkAssumption DEF ParkInv, TypeOK, CountInv, WaitInv, ReadyInv, AwakeInv, SignalInv,
          ReadInv, Parking, control, ring
  <1>1. CASE PushOp
    BY <1>1 DEF PushOp
  <1>2. CASE RunTasks
    BY <1>2, ZenonT(40) DEF RunTasks
  <1>3. CASE Park
    BY <1>3 DEF Park
  <1>4. CASE Submit
    <2>1. TypeOK'
      <3>1. (chan \in 0..MaxSends /\ sent \in 0..MaxSends /\ sq \in 0..Cap)'
        BY <1>4 DEF Submit, EnterKernel, TickCQ
      <3> QED
        BY <1>4, <3>1 DEF Submit, EnterKernel, TickCQ
    <2>2. (CountInv /\ WaitInv /\ ReadyInv)'
      BY <1>4 DEF Submit, EnterKernel, TickCQ
    <2>3. (AwakeInv /\ SignalInv)'
      BY <1>4 DEF Submit, EnterKernel, TickCQ
    <2>4. ReadInv'
      BY <1>4 DEF Submit, EnterKernel, TickCQ
    <2> QED
      BY <2>1, <2>2, <2>3, <2>4
  <1>5. CASE LegacySubmit
    BY <1>5 DEF LegacySubmit
  <1>6. CASE DrainFirst
    <2>1. TypeOK'
      <3>1. (chan \in 0..MaxSends /\ sent \in 0..MaxSends /\ sq \in 0..Cap)'
        BY <1>6 DEF DrainFirst, Drain
      <3> QED
        BY <1>6, <3>1, ZenonT(40) DEF DrainFirst, Drain
    <2>2. (CountInv /\ WaitInv /\ ReadyInv)'
      BY <1>6 DEF DrainFirst, Drain
    <2>3. (AwakeInv /\ SignalInv)'
      BY <1>6 DEF DrainFirst, Drain
    <2>4. ReadInv'
      BY <1>6 DEF DrainFirst, Drain
    <2> QED
      BY <2>1, <2>2, <2>3, <2>4
  <1>7. CASE StoreAwake
    BY <1>7 DEF StoreAwake
  <1>8. CASE DrainLeft
    <2>1. TypeOK'
      <3>1. (chan \in 0..MaxSends /\ sent \in 0..MaxSends /\ sq \in 0..Cap)'
        BY <1>8 DEF DrainLeft, Drain
      <3> QED
        BY <1>8, <3>1, ZenonT(40) DEF DrainLeft, Drain
    <2>2. (CountInv /\ WaitInv /\ ReadyInv)'
      BY <1>8 DEF DrainLeft, Drain
    <2>3. (AwakeInv /\ SignalInv)'
      BY <1>8 DEF DrainLeft, Drain
    <2>4. ReadInv'
      BY <1>8 DEF DrainLeft, Drain
    <2> QED
      BY <2>1, <2>2, <2>3, <2>4
  <1>9. CASE FlushSpace
    <2>1. TypeOK'
      <3>1. (chan \in 0..MaxSends /\ sent \in 0..MaxSends /\ sq \in 0..Cap)'
        BY <1>9 DEF FlushSpace, MustFlush, Space, EnterKernel
      <3> QED
        BY <1>9, <3>1 DEF FlushSpace, MustFlush, Space, EnterKernel
    <2>2. (CountInv /\ WaitInv /\ ReadyInv)'
      BY <1>9 DEF FlushSpace, MustFlush, Space, EnterKernel
    <2>3. (AwakeInv /\ SignalInv)'
      BY <1>9 DEF FlushSpace, MustFlush, Space, EnterKernel
    <2>4. ReadInv'
      BY <1>9 DEF FlushSpace, MustFlush, Space, EnterKernel
    <2> QED
      BY <2>1, <2>2, <2>3, <2>4
  <1>10. CASE Install
    <2>1. TypeOK'
      <3>1. (chan \in 0..MaxSends /\ sent \in 0..MaxSends /\ sq \in 0..Cap)'
        BY <1>10 DEF Install, Space
      <3> QED
        BY <1>10, <3>1 DEF Install, Space
    <2>2. (CountInv /\ WaitInv /\ ReadyInv)'
      BY <1>10 DEF Install, Space
    <2>3. (AwakeInv /\ SignalInv)'
      BY <1>10 DEF Install, Space
    <2>4. ReadInv'
      BY <1>10 DEF Install, Space
    <2> QED
      BY <2>1, <2>2, <2>3, <2>4
  <1>11. CASE Enter
    BY <1>11 DEF Enter, EnterKernel
  <1>12. CASE EnterFails
    BY <1>12 DEF EnterFails
  <1>13. CASE MioPoll
    BY <1>13 DEF MioPoll, DispatchEvents
  <1>14. CASE WakeUp
    BY <1>14 DEF WakeUp
  <1>15. CASE MioWakeUp
    BY <1>15 DEF MioWakeUp, DispatchEvents
  <1>16. CASE StaleTimeout
    BY <1>16 DEF StaleTimeout
  <1>17. CASE WaitFails
    BY <1>17 DEF WaitFails
  <1>18. CASE SetAwake
    BY <1>18 DEF SetAwake
  <1>19. CASE Tick
    BY <1>19 DEF Tick, TickCQ
  <1> QED
    BY <1>1, <1>2, <1>3, <1>4, <1>5, <1>6, <1>7, <1>8, <1>9, <1>10, <1>11, <1>12, <1>13, <1>14,
       <1>15, <1>16, <1>17, <1>18, <1>19 DEF DriverStep

(* Every step of the kernel keeps it.                                      *)
LEMMA KernelKeepsParkInv == ParkInv /\ KernelStep /\ UNCHANGED legacy => ParkInv'
  <1> SUFFICES ASSUME ParkInv, KernelStep, UNCHANGED legacy
               PROVE  ParkInv'
    OBVIOUS
  <1> USE DEF ParkInv, TypeOK, CountInv, WaitInv, ReadyInv, AwakeInv, SignalInv, ReadInv, Parking,
          control
  <1>1. CASE EventfdRead
    BY <1>1, ZenonT(40) DEF EventfdRead
  <1>2. CASE OpCompletes
    BY <1>2 DEF OpCompletes
  <1> QED
    BY <1>1, <1>2 DEF KernelStep

(* Every step of a sender keeps it.                                        *)
LEMMA SenderKeepsParkInv ==
  ASSUME ParkInv, NEW s \in Senders, Send(s) \/ LoadAwake(s) \/ WriteEventfd(s), UNCHANGED legacy
  PROVE  ParkInv'
  <1> USE ParkAssumption DEF ParkInv, TypeOK, CountInv, WaitInv, ReadyInv, AwakeInv, SignalInv,
          ReadInv, Parking, control, ring, SGoto
  <1>1. CASE Send(s)
    BY <1>1 DEF Send
  <1>2. CASE LoadAwake(s)
    BY <1>2 DEF LoadAwake
  <1>3. CASE WriteEventfd(s)
    BY <1>3 DEF WriteEventfd
  <1> QED
    BY <1>1, <1>2, <1>3

(* The thread, the kernel and the senders keep the invariant together.     *)
THEOREM ParkInvariant == Spec => []ParkInv
  <1>1. ParkInv /\ [Next /\ UNCHANGED legacy]_<<vars, legacy>> => ParkInv'
    <2> SUFFICES ASSUME ParkInv, [Next /\ UNCHANGED legacy]_<<vars, legacy>>
                 PROVE  ParkInv'
      OBVIOUS
    <2>1. CASE Next /\ UNCHANGED legacy
      BY <2>1, DriverKeepsParkInv, KernelKeepsParkInv, SenderKeepsParkInv DEF Next
    <2>2. CASE UNCHANGED <<vars, legacy>>
      BY <2>2 DEF ParkInv, TypeOK, CountInv, WaitInv, ReadyInv, AwakeInv, SignalInv, ReadInv, vars,
         control, ring
    <2> QED
      BY <2>1, <2>2
  <1> QED
    BY <1>1, InitParkInv, PTL DEF Spec

(* The thread never waits in the kernel with a task to run or with a waker *)
(* in its channel that nothing is going to wake it for.                    *)
THEOREM ParkSleepsSafely == Spec => []SleepsSafely
  <1>1. ParkInv => SleepsSafely
    BY DEF ParkInv, SleepsSafely, NoLostUnpark, NoSleepOnReady, WakeUnderWay, TypeOK, WaitInv,
       ReadyInv, AwakeInv, SignalInv, ReadInv, Parking
  <1> QED
    BY <1>1, ParkInvariant, PTL

-----------------------------------------------------------------------------
(* Natural numbers and sequences.                                          *)

(* A nonempty set of natural numbers has a least element.                  *)
LEMMA LeastNat ==
  ASSUME NEW T, T \subseteq Nat, T # {}
  PROVE  \E x \in T : \A y \in T : x <= y
  <1>1. \E x \in T : \A y \in T : ~(<<y, x>> \in OpToRel(<, Nat))
    BY NatLessThanWellFounded, WFMin, Zenon
  <1>2. PICK x \in T : \A y \in T : ~(y < x)
    BY <1>1 DEF OpToRel
  <1>3. \A y \in T : x <= y
    BY <1>2
  <1> QED
    BY <1>3

(* Induction, up to a bound.                                               *)
LEMMA UpTo ==
  ASSUME NEW n \in Nat, NEW S, 0 \in S, \A i \in 0..(n - 1) : i \in S => i + 1 \in S
  PROVE  0..n \subseteq S
  <1> SUFFICES ASSUME NEW k \in 0..n, k \notin S
               PROVE  FALSE
    OBVIOUS
  <1> DEFINE T == {i \in 0..n : i \notin S}
  <1>1. PICK x \in T : \A y \in T : x <= y
    <2>1. T \subseteq Nat /\ T # {}
      OBVIOUS
    <2> HIDE DEF T
    <2> QED
      BY <2>1, LeastNat
  <1>2. x # 0 /\ x - 1 \in 0..(n - 1) /\ x - 1 \notin T /\ (x - 1) + 1 = x
    BY <1>1
  <1> QED
    BY <1>1, <1>2

-----------------------------------------------------------------------------
(* Paths.  What Fs says of the tree, of any tree tr.                       *)

FollowIn(tr, p) == IF p \in Paths /\ tr[p].kind = "link" THEN tr[p].to ELSE p

(* The name of an entry of a directory.                                    *)
Under(q, name) == Append(q, name)

RealSteps(tr, p) ==
  LET real[n \in 0..Len(p)] == IF n = 0 THEN <<>> ELSE Under(FollowIn(tr, real[n - 1]), p[n])
  IN  real
RealIn(tr, p) == RealSteps(tr, p)[Len(p)]
TargetIn(tr, p) == FollowIn(tr, RealIn(tr, p))
KindIn(tr, p) == IF TargetIn(tr, p) \in Paths THEN tr[TargetIn(tr, p)].kind ELSE "none"

(* These are the operators of Fs.                                          *)
LEMMA TreeOps ==
  /\ \A p : Follow(p) = FollowIn(tree, p) /\ Follow(p)' = FollowIn(tree', p)
  /\ \A p : Real(p) = RealIn(tree, p) /\ Real(p)' = RealIn(tree', p)
  /\ \A p : Target(p) = TargetIn(tree, p) /\ Target(p)' = TargetIn(tree', p)
  /\ \A p : Kind(p) = KindIn(tree, p) /\ Kind(p)' = KindIn(tree', p)
  <1>1. \A p : Follow(p) = FollowIn(tree, p) /\ Follow(p)' = FollowIn(tree', p)
    BY DEF Follow, FollowIn
  <1>2. \A p : Real(p) = RealIn(tree, p)
    BY Zenon DEF Real, RealIn, RealSteps, Follow, FollowIn, Under
  <1>3. \A p : Real(p)' = RealIn(tree', p)
    BY Zenon DEF Real, RealIn, RealSteps, Follow, FollowIn, Under
  <1>4. \A p : Target(p) = TargetIn(tree, p) /\ Target(p)' = TargetIn(tree', p)
    BY <1>1, <1>2, <1>3 DEF Target, TargetIn
  <1> QED
    BY <1>1, <1>2, <1>3, <1>4 DEF Kind, KindIn

(* The recursive function of Real is one.                                  *)
LEMMA RealStepsFacts ==
  ASSUME NEW tr, NEW p, NEW n \in Nat, n = Len(p)
  PROVE  \A i \in 0..n : RealSteps(tr, p)[i] =
           IF i = 0 THEN <<>> ELSE Under(FollowIn(tr, RealSteps(tr, p)[i - 1]), p[i])
  <1> DEFINE Def(g, k) == [i \in 0..k |->
                             IF i = 0 THEN <<>> ELSE Under(FollowIn(tr, g[i - 1]), p[i])]
             S == {k \in 0..n : \E g : g = Def(g, k)}
  <1>1. 0 \in S
    <2>1. PICK g : g = [i \in 0..0 |-> <<>>]
      OBVIOUS
    <2>2. g = Def(g, 0)
      BY <2>1
    <2> QED
      BY <2>2
  <1>2. ASSUME NEW k \in 0..(n - 1), k \in S
        PROVE  k + 1 \in S
    <2>1. PICK g : g = Def(g, k)
      BY <1>2
    <2>2. PICK h : h = [i \in 0..(k + 1) |->
                          IF i <= k THEN g[i] ELSE Under(FollowIn(tr, g[k]), p[k + 1])]
      OBVIOUS
    <2>3. \A i \in 0..(k + 1) : h[i] =
            IF i = 0 THEN <<>> ELSE Under(FollowIn(tr, h[i - 1]), p[i])
      BY <2>1, <2>2
    <2>4. h = Def(h, k + 1)
      BY <2>2, <2>3
    <2>5. k + 1 \in 0..n
      OBVIOUS
    <2> QED
      BY <2>4, <2>5
  <1> HIDE DEF S
  <1>3. n \in S
    BY <1>1, <1>2, UpTo
  <1>4. \E g : g = Def(g, n)
    BY <1>3 DEF S
  <1>5. RealSteps(tr, p) = Def(RealSteps(tr, p), n)
    BY <1>4, Zenon DEF RealSteps
  <1> QED
    BY <1>5

(* The parts of a path.                                                    *)
LEMMA PathParts ==
  ASSUME NEW p \in Seq(STRING), p # <<>>
  PROVE  /\ Front(p) \in Seq(STRING) /\ Len(Front(p)) = Len(p) - 1 /\ Len(p) \in Nat \ {0}
         /\ \A i \in 1..(Len(p) - 1) : Front(p)[i] = p[i]
         /\ Last(p) \in STRING
         /\ p = Append(Front(p), Last(p))
  <1>1. PICK n \in Nat \ {0} : n = Len(p)
    BY EmptySeq, LenProperties
  <1>2. /\ Front(p) \in Seq(STRING) /\ Len(Front(p)) = n - 1
        /\ \A i \in 1..(n - 1) : Front(p)[i] = p[i]
    BY <1>1 DEF Front
  <1>3. Last(p) \in STRING
    BY <1>1 DEF Last
  <1>4. p = Append(Front(p), Last(p))
    BY <1>1, <1>2, <1>3 DEF Last
  <1> QED
    BY <1>1, <1>2, <1>3, <1>4

(* What an entry's path is: the target of its parents' path, and its name. *)
LEMMA RealFront ==
  ASSUME NEW tr, NEW p \in Seq(STRING), p # <<>>
  PROVE  RealIn(tr, p) = Under(TargetIn(tr, Front(p)), Last(p))
  <1>1. PICK n \in Nat \ {0} : n = Len(p)
    BY PathParts
  <1>2. PICK q : q = Front(p)
    OBVIOUS
  <1>3. Len(q) = n - 1 /\ n - 1 \in Nat /\ \A i \in 1..(n - 1) : q[i] = p[i]
    BY <1>1, <1>2, PathParts
  <1>4. PICK f, g : f = RealSteps(tr, p) /\ g = RealSteps(tr, q)
    OBVIOUS
  <1>5. \A i \in 0..n : f[i] = IF i = 0 THEN <<>> ELSE Under(FollowIn(tr, f[i - 1]), p[i])
    BY <1>1, <1>4, RealStepsFacts
  <1>6. \A i \in 0..(n - 1) : g[i] = IF i = 0 THEN <<>> ELSE Under(FollowIn(tr, g[i - 1]), q[i])
    BY <1>3, <1>4, RealStepsFacts
  <1> DEFINE S == {i \in 0..(n - 1) : f[i] = g[i]}
  <1>7. 0 \in S
    BY <1>5, <1>6, SMTT(30)
  <1>8. ASSUME NEW i \in 0..((n - 1) - 1), i \in S
        PROVE  i + 1 \in S
    <2>0. i + 1 \in 0..(n - 1) /\ i + 1 \in 0..n /\ i + 1 # 0 /\ (i + 1) - 1 = i /\ i + 1 \in 1..(n - 1)
      BY <1>8
    <2>1. f[i + 1] = Under(FollowIn(tr, f[i]), p[i + 1])
      BY <1>5, <2>0
    <2>2. g[i + 1] = Under(FollowIn(tr, g[i]), q[i + 1])
      BY <1>6, <2>0
    <2> QED
      BY <1>3, <1>8, <2>0, <2>1, <2>2
  <1>9. n - 1 \in S
    <2>1. PICK m \in Nat : m = n - 1
      BY <1>3
    <2>2. 0 \in S /\ \A i \in 0..(m - 1) : i \in S => i + 1 \in S
      BY <1>7, <1>8, <2>1
    <2> HIDE DEF S
    <2>3. 0..m \subseteq S
      BY <2>2, UpTo
    <2> QED
      BY <2>1, <2>3
  <1>10. f[n] = Under(FollowIn(tr, g[n - 1]), p[n])
    BY <1>5, <1>9
  <1> QED
    BY <1>1, <1>2, <1>3, <1>4, <1>10 DEF RealIn, TargetIn, Last

(* The working directory.                                                  *)
LEMMA RealEmpty ==
  ASSUME NEW tr, tr[<<>>] \in {None, Dir}
  PROVE  /\ RealIn(tr, <<>>) = <<>> /\ TargetIn(tr, <<>>) = <<>>
         /\ KindIn(tr, <<>>) = tr[<<>>].kind
  <1>1. RealIn(tr, <<>>) = <<>>
    <2>1. PICK p : p = <<>> /\ Len(p) = 0 /\ 0 \in Nat /\ 0 \in 0..0
      OBVIOUS
    <2>2. RealSteps(tr, p)[0] = <<>>
      BY <2>1, RealStepsFacts
    <2> QED
      BY <2>1, <2>2 DEF RealIn
  <1>2. TargetIn(tr, <<>>) = <<>>
    BY <1>1 DEF TargetIn, FollowIn, None, Dir
  <1> QED
    BY <1>1, <1>2, FsAssumption DEF KindIn

(* Induction, for the paths.                                               *)
LEMMA PathInduction ==
  ASSUME NEW S, <<>> \in S, \A p \in Paths : p # <<>> /\ Front(p) \in S => p \in S
  PROVE  Paths \subseteq S
  <1> SUFFICES ASSUME NEW p \in Paths
               PROVE  p \in S
    OBVIOUS
  <1>1. PICK n \in Nat : n = Len(p)
    BY FsAssumption
  <1> DEFINE T == {k \in Nat : \A q \in Paths : Len(q) = k => q \in S}
  <1>2. 0 \in T
    BY FsAssumption, EmptySeq
  <1>3. ASSUME NEW k \in 0..(n - 1), k \in T
        PROVE  k + 1 \in T
    <2> SUFFICES ASSUME NEW q \in Paths, Len(q) = k + 1
                 PROVE  q \in S
      OBVIOUS
    <2>1. q \in Seq(STRING) /\ q # <<>>
      BY FsAssumption
    <2>2. Front(q) \in Paths /\ Len(Front(q)) = k
      BY <2>1, FsAssumption, PathParts
    <2> QED
      BY <1>3, <2>1, <2>2
  <1> HIDE DEF T
  <1>4. n \in T
    <2>1. 0..n \subseteq T
      BY <1>2, <1>3, UpTo
    <2> QED
      BY <2>1
  <1> QED
    BY <1>1, <1>4 DEF T

(* A tree without the contents of its files.                               *)
Shape(tr) ==
  /\ tr \in [Paths -> Entries] /\ tr[<<>>] \in {None, Dir}
  /\ \A p \in Paths \ {<<>>} : tr[p] # None => tr[Front(p)] = Dir

(* tr2 has what tr has, and more.                                          *)
Grows(tr, tr2) ==
  /\ tr2[<<>>] = tr[<<>>]
  /\ \A p \in Paths : tr[p] # None => tr2[p] = tr[p]

(* What an entry may be.                                                   *)
LEMMA EntryKinds ==
  ASSUME NEW e \in Entries
  PROVE  /\ e.kind \in {"none", "dir", "file", "link"}
         /\ e.kind = "none" <=> e = None
         /\ e.kind = "dir" <=> e = Dir
         /\ e.kind = "file" => e = [kind |-> "file", ino |-> e.ino] /\ e.ino \in Inodes
         /\ e.kind = "link" => e = [kind |-> "link", to |-> e.to] /\ e.to \in Paths
  BY DEF Entries, None, Dir

(* A path is resolved to a path.                                           *)
LEMMA RealType ==
  ASSUME NEW tr, Shape(tr)
  PROVE  \A p \in Paths : RealIn(tr, p) \in Seq(STRING) /\ TargetIn(tr, p) \in Seq(STRING)
  <1>0. \A q \in Seq(STRING) : FollowIn(tr, q) \in Seq(STRING)
    BY EntryKinds, FsAssumption DEF FollowIn, Shape
  <1> DEFINE S == {p \in Paths : RealIn(tr, p) \in Seq(STRING) /\ TargetIn(tr, p) \in Seq(STRING)}
  <1>1. <<>> \in S
    BY RealEmpty, FsAssumption DEF Shape
  <1>2. ASSUME NEW p \in Paths, p # <<>>, Front(p) \in S
        PROVE  p \in S
    <2>1. p \in Seq(STRING) /\ Last(p) \in STRING
      BY <1>2, FsAssumption, PathParts
    <2>2. RealIn(tr, p) = Under(TargetIn(tr, Front(p)), Last(p))
      BY <1>2, <2>1, RealFront
    <2>3. RealIn(tr, p) \in Seq(STRING)
      BY <1>2, <2>1, <2>2 DEF Under
    <2> QED
      BY <1>0, <2>3 DEF TargetIn
  <1> HIDE DEF S
  <1>3. Paths \subseteq S
    BY <1>1, <1>2, PathInduction
  <1> QED
    BY <1>3 DEF S

(* The parts of an entry's path.                                           *)
LEMMA RealParts ==
  ASSUME NEW tr, Shape(tr), NEW p \in Paths, p # <<>>
  PROVE  /\ RealIn(tr, p) \in Seq(STRING) /\ RealIn(tr, p) # <<>>
         /\ Front(RealIn(tr, p)) = TargetIn(tr, Front(p))
         /\ Last(RealIn(tr, p)) = Last(p) /\ Last(p) \in STRING
         /\ Front(p) \in Paths /\ p \in Seq(STRING)
  <1>1. p \in Seq(STRING) /\ Front(p) \in Paths /\ Last(p) \in STRING
    BY FsAssumption, PathParts
  <1>2. RealIn(tr, p) = Under(TargetIn(tr, Front(p)), Last(p))
    BY <1>1, RealFront
  <1>3. PICK q \in Seq(STRING), x \in STRING : q = TargetIn(tr, Front(p)) /\ x = Last(p)
    BY <1>1, RealType
  <1>4. PICK r : r = Append(q, x)
    OBVIOUS
  <1>5. PICK n \in Nat : n = Len(q)
    BY <1>3
  <1>6. /\ r \in Seq(STRING) /\ Len(r) = n + 1 /\ r[n + 1] = x /\ \A i \in 1..n : r[i] = q[i]
    BY <1>3, <1>4, <1>5
  <1>7. r # <<>>
    BY <1>6
  <1>8. Front(r) = q
    <2>0. (n + 1) - 1 = n
      BY <1>5
    <2>1. Front(r) \in Seq(STRING) /\ Len(Front(r)) = n /\ \A i \in 1..n : Front(r)[i] = q[i]
      BY <1>6, <1>7, <2>0, PathParts
    <2> QED
      BY <1>5, <2>1, SeqEqual
  <1>9. Last(r) = x
    BY <1>6 DEF Last
  <1> QED
    BY <1>1, <1>2, <1>3, <1>4, <1>6, <1>7, <1>8, <1>9 DEF Under

(* What is there is in a directory.                                        *)
LEMMA RealThere ==
  ASSUME NEW tr, Shape(tr), NEW p \in Paths, p # <<>>, RealIn(tr, p) \in Paths,
         tr[RealIn(tr, p)] # None
  PROVE  KindIn(tr, Front(p)) = "dir"
  <1>1. tr[Front(RealIn(tr, p))] = Dir /\ Front(RealIn(tr, p)) \in Paths
    BY RealParts, FsAssumption DEF Shape
  <1> QED
    BY <1>1, RealParts DEF KindIn, Dir

(* A path that leads somewhere.                                            *)
LEMMA KindThere ==
  ASSUME NEW tr, Shape(tr), NEW p \in Paths, KindIn(tr, p) # "none"
  PROVE  /\ RealIn(tr, p) \in Paths /\ tr[RealIn(tr, p)] # None
         /\ TargetIn(tr, p) \in Paths /\ tr[TargetIn(tr, p)] # None
         /\ KindIn(tr, p) = tr[TargetIn(tr, p)].kind
  <1>1. TargetIn(tr, p) \in Paths /\ tr[TargetIn(tr, p)].kind # "none" /\ KindIn(tr, p) = tr[TargetIn(tr, p)].kind
    BY DEF KindIn
  <1>2. tr[TargetIn(tr, p)] # None
    BY <1>1 DEF None
  <1>3. CASE RealIn(tr, p) \in Paths /\ tr[RealIn(tr, p)].kind = "link"
    BY <1>1, <1>2, <1>3 DEF None
  <1>4. CASE ~(RealIn(tr, p) \in Paths /\ tr[RealIn(tr, p)].kind = "link")
    BY <1>1, <1>2, <1>4 DEF TargetIn, FollowIn
  <1> QED
    BY <1>1, <1>2, <1>3, <1>4

(* A tree that grows keeps what paths lead to.                             *)
LEMMA GrowsKeeps ==
  ASSUME NEW tr, Shape(tr), NEW tr2, Shape(tr2), Grows(tr, tr2), NEW p \in Paths,
         KindIn(tr, p) # "none"
  PROVE  /\ RealIn(tr2, p) = RealIn(tr, p) /\ TargetIn(tr2, p) = TargetIn(tr, p)
         /\ KindIn(tr2, p) = KindIn(tr, p)
  <1> DEFINE Same(q) == /\ RealIn(tr2, q) = RealIn(tr, q) /\ TargetIn(tr2, q) = TargetIn(tr, q)
                        /\ KindIn(tr2, q) = KindIn(tr, q)
             S == {q \in Paths : KindIn(tr, q) # "none" => Same(q)}
  <1>1. ASSUME NEW q \in Paths, KindIn(tr, q) # "none", RealIn(tr2, q) = RealIn(tr, q)
        PROVE  Same(q)
    <2>1. tr2[RealIn(tr, q)] = tr[RealIn(tr, q)] /\ tr2[TargetIn(tr, q)] = tr[TargetIn(tr, q)]
      BY <1>1, KindThere DEF Grows
    <2>2. TargetIn(tr2, q) = TargetIn(tr, q)
      BY <1>1, <2>1 DEF TargetIn, FollowIn
    <2> QED
      BY <1>1, <2>1, <2>2 DEF KindIn
  <1>2. <<>> \in S
    <2>1. RealIn(tr2, <<>>) = RealIn(tr, <<>>)
      BY RealEmpty DEF Shape
    <2> HIDE DEF Same
    <2> QED
      BY <1>1, <2>1, FsAssumption
  <1>3. ASSUME NEW q \in Paths, q # <<>>, Front(q) \in S
        PROVE  q \in S
    <2> SUFFICES ASSUME KindIn(tr, q) # "none"
                 PROVE  Same(q)
      OBVIOUS
    <2>1. KindIn(tr, Front(q)) = "dir"
      BY <1>3, KindThere, RealThere
    <2>2. TargetIn(tr2, Front(q)) = TargetIn(tr, Front(q))
      BY <1>3, <2>1
    <2>3. RealIn(tr2, q) = RealIn(tr, q)
      BY <1>3, <2>2, RealFront, FsAssumption
    <2> HIDE DEF Same
    <2> QED
      BY <1>1, <2>3
  <1>4. Paths \subseteq S
    <2> HIDE DEF S
    <2> QED
      BY <1>2, <1>3, PathInduction
  <1> QED
    BY <1>4

(* An entry is added to a directory.                                       *)
LEMMA Added ==
  ASSUME NEW tr, Shape(tr), NEW e \in Paths, tr[e] = None, tr[Front(e)] = Dir,
         NEW v \in Entries, NEW tr2, tr2 = [tr EXCEPT ![e] = v]
  PROVE  Shape(tr2) /\ Grows(tr, tr2) /\ e # <<>>
  <1>1. e # <<>>
    <2>1. Front(<<>>) = <<>>
      BY DEF Front
    <2> QED
      BY <2>1 DEF None, Dir
  <1>2. tr2 \in [Paths -> Entries] /\ tr2[e] = v /\ \A p \in Paths : p # e => tr2[p] = tr[p]
    BY DEF Shape
  <1>3. Grows(tr, tr2)
    BY <1>1, <1>2, FsAssumption DEF Grows
  <1>4. ASSUME NEW p \in Paths \ {<<>>}, tr2[p] # None
        PROVE  tr2[Front(p)] = Dir
    <2>1. tr[Front(p)] = Dir
      BY <1>2, <1>4 DEF Shape
    <2>2. Front(p) \in Paths /\ Front(p) # e
      BY <2>1, FsAssumption DEF None, Dir
    <2> QED
      BY <1>2, <2>1, <2>2
  <1> QED
    BY <1>1, <1>2, <1>3, <1>4, FsAssumption DEF Shape

(* Nothing is in the directory p.                                          *)
EmptyAt(tr, p) ==
  \A q \in Paths : q # <<>> /\ Front(q) = p /\ RealIn(tr, q) \in Paths => tr[RealIn(tr, q)] = None

(* mkdir, or symlink: the path leads to the new entry, and a new directory *)
(* is empty.                                                               *)
LEMMA MadeAt ==
  ASSUME NEW tr, Shape(tr), NEW p \in Paths, p # <<>>, KindIn(tr, Front(p)) = "dir",
         NEW e \in Paths, e = RealIn(tr, p), tr[e] = None,
         NEW v \in Entries, NEW tr2, tr2 = [tr EXCEPT ![e] = v]
  PROVE  /\ Shape(tr2) /\ Grows(tr, tr2)
         /\ v = Dir => KindIn(tr2, p) = "dir"
         /\ v = Dir => EmptyAt(tr2, p)
  <1>1. e = RealIn(tr, p)
    OBVIOUS
  <1>2. /\ TargetIn(tr, Front(p)) = Front(e) /\ Front(p) \in Paths /\ p \in Seq(STRING)
        /\ Last(e) = Last(p)
    BY <1>1, RealParts
  <1>3. tr[Front(e)] = Dir
    BY <1>2, KindThere, EntryKinds DEF Shape
  <1>4. Shape(tr2) /\ Grows(tr, tr2) /\ e # <<>>
    BY <1>1, <1>3, Added
  <1>5. RealIn(tr2, p) = e
    <2>1. TargetIn(tr2, Front(p)) = TargetIn(tr, Front(p))
      BY <1>2, <1>4, GrowsKeeps
    <2> QED
      BY <1>1, <1>2, <2>1, RealFront
  <1>6. tr2[e] = v /\ \A q \in Paths : q # e => tr2[q] = tr[q]
    BY <1>1 DEF Shape
  <1>7. ASSUME v = Dir
        PROVE  TargetIn(tr2, p) = e /\ KindIn(tr2, p) = "dir"
    <2>1. TargetIn(tr2, p) = e
      BY <1>5, <1>6, <1>7 DEF TargetIn, FollowIn, Dir
    <2> QED
      BY <1>1, <1>6, <1>7, <2>1 DEF KindIn, Dir
  <1>8. ASSUME v = Dir, NEW q \in Paths, q # <<>>, Front(q) = p, RealIn(tr2, q) \in Paths
        PROVE  tr2[RealIn(tr2, q)] = None
    <2>1. PICK f : f = RealIn(tr2, q)
      OBVIOUS
    <2>2. Front(f) = e /\ f # <<>> /\ f \in Seq(STRING)
      BY <1>4, <1>7, <1>8, <2>1, RealParts
    <2>3. tr[f] = None
      <3>1. None # Dir /\ tr[e] = None /\ f \in Paths \ {<<>>}
        BY <1>1, <1>8, <2>1, <2>2 DEF None, Dir
      <3> QED
        BY <2>2, <3>1 DEF Shape
    <2>4. f # e
      <3>1. Len(Front(f)) # Len(f)
        BY <2>2, PathParts
      <3> QED
        BY <2>2, <3>1
    <2> QED
      BY <1>6, <1>8, <2>1, <2>3, <2>4
  <1> QED
    BY <1>4, <1>7, <1>8 DEF EmptyAt

(* An entry without entries in it is taken out.                            *)
LEMMA Removed ==
  ASSUME NEW tr, Shape(tr), NEW e \in Paths,
         \A q \in Paths : q # <<>> /\ Front(q) = e => tr[q] = None,
         NEW tr2, tr2 = [tr EXCEPT ![e] = None]
  PROVE  Shape(tr2)
  <1>1. /\ tr2 \in [Paths -> Entries] /\ tr2[e] = None
        /\ \A p \in Paths : p # e => tr2[p] = tr[p]
    BY DEF Shape, Entries
  <1>2. ASSUME NEW p \in Paths \ {<<>>}, tr2[p] # None
        PROVE  tr2[Front(p)] = Dir
    <2>1. tr[p] # None /\ Front(p) # e /\ Front(p) \in Paths
      BY <1>1, <1>2, FsAssumption
    <2> QED
      BY <1>1, <2>1 DEF Shape
  <1> QED
    BY <1>1, <1>2, FsAssumption DEF Shape

(* Prefixes, by their members.                                             *)
LEMMA PrefixFacts ==
  ASSUME NEW s \in Seq(STRING), NEW t \in Seq(STRING)
  PROVE  IsPrefix(s, t) <=> Len(s) <= Len(t) /\ \A i \in 1..Len(s) : s[i] = t[i]
  <1>1. PICK m \in Nat, n \in Nat : m = Len(s) /\ n = Len(t)
    OBVIOUS
  <1>2. ASSUME m <= n
        PROVE  SubSeq(s, 1, m) = SubSeq(t, 1, m) <=> \A i \in 1..m : s[i] = t[i]
    <2>1. /\ SubSeq(s, 1, m) \in Seq(STRING) /\ Len(SubSeq(s, 1, m)) = m
          /\ \A i \in 1..m : SubSeq(s, 1, m)[i] = s[i]
      BY <1>1
    <2>2. /\ SubSeq(t, 1, m) \in Seq(STRING) /\ Len(SubSeq(t, 1, m)) = m
          /\ \A i \in 1..m : SubSeq(t, 1, m)[i] = t[i]
      BY <1>1, <1>2
    <2>3. ASSUME \A i \in 1..m : s[i] = t[i]
          PROVE  SubSeq(s, 1, m) = SubSeq(t, 1, m)
      BY <2>1, <2>2, <2>3, SeqEqual
    <2> QED
      BY <2>1, <2>2, <2>3
  <1> QED
    BY <1>1, <1>2 DEF IsPrefix

(* The tree after p is renamed to q.                                       *)
RenamedIn(tr, p, q) ==
  [e \in Paths |->
     IF IsPrefix(p, e) THEN None
     ELSE IF IsPrefix(q, e) THEN LET old == p \o SubSeq(e, Len(q) + 1, Len(e))
                                 IN  IF old \in Paths THEN tr[old] ELSE None
     ELSE tr[e]]

(* What is above a path that is not below r is not below r either.         *)
LEMMA PrefixFront ==
  ASSUME NEW r \in Seq(STRING), NEW e \in Seq(STRING), e # <<>>
  PROVE  /\ IsPrefix(r, Front(e)) => IsPrefix(r, e)
         /\ IsPrefix(r, e) => IsPrefix(r, Front(e)) \/ e = r
  <1>1. PICK m \in Nat, n \in Nat \ {0} : m = Len(r) /\ n = Len(e)
    BY PathParts
  <1>2. /\ Front(e) \in Seq(STRING) /\ Len(Front(e)) = n - 1
        /\ \A i \in 1..(n - 1) : Front(e)[i] = e[i]
    BY <1>1, PathParts
  <1>3. /\ IsPrefix(r, e) <=> m <= n /\ \A i \in 1..m : r[i] = e[i]
        /\ IsPrefix(r, Front(e)) <=> m <= n - 1 /\ \A i \in 1..m : r[i] = Front(e)[i]
    BY <1>1, <1>2, PrefixFacts
  <1>4. ASSUME IsPrefix(r, Front(e))
        PROVE  IsPrefix(r, e)
    BY <1>2, <1>3, <1>4
  <1>5. ASSUME IsPrefix(r, e), m <= n - 1
        PROVE  IsPrefix(r, Front(e))
    BY <1>2, <1>3, <1>5
  <1>6. ASSUME IsPrefix(r, e), m = n
        PROVE  e = r
    BY <1>1, <1>3, <1>6, SeqEqual
  <1> QED
    BY <1>1, <1>3, <1>4, <1>5, <1>6

(* Where an entry below q comes from.                                      *)
OldOf(p, q, e) == p \o SubSeq(e, Len(q) + 1, Len(e))

(* The path above it is where the entry above comes from.                  *)
LEMMA OldPath ==
  ASSUME NEW p \in Seq(STRING), p # <<>>, NEW q \in Seq(STRING), NEW e \in Seq(STRING),
         IsPrefix(q, e)
  PROVE  /\ OldOf(p, q, e) # <<>>
         /\ e # q => Front(OldOf(p, q, e)) = OldOf(p, q, Front(e))
  <1>0. PICK old : old = p \o SubSeq(e, Len(q) + 1, Len(e))
    OBVIOUS
  <1>1. PICK k \in Nat \ {0}, m \in Nat, n \in Nat : k = Len(p) /\ m = Len(q) /\ n = Len(e) /\ m <= n
    BY PathParts, PrefixFacts
  <1>2. PICK x : x = SubSeq(e, m + 1, n)
    OBVIOUS
  <1>3. x \in Seq(STRING) /\ Len(x) = n - m /\ \A i \in 1..(n - m) : x[i] = e[m + i]
    BY <1>1, <1>2
  <1>4. /\ old = p \o x /\ old \in Seq(STRING) /\ Len(old) = k + (n - m)
        /\ \A i \in 1..k : old[i] = p[i]
        /\ \A i \in (k + 1)..(k + (n - m)) : old[i] = x[i - k]
    <2>1. /\ p \o x \in Seq(STRING) /\ Len(p \o x) = Len(p) + Len(x)
          /\ \A i \in 1..(Len(p) + Len(x)) : (p \o x)[i] = IF i <= Len(p) THEN p[i] ELSE x[i - Len(p)]
      BY <1>3, ConcatProperties
    <2>2. old = p \o x
      BY <1>0, <1>1, <1>2
    <2>3. \A i \in 1..(k + (n - m)) : old[i] = IF i <= k THEN p[i] ELSE x[i - k]
      BY <1>1, <1>3, <2>1, <2>2
    <2>4. 1..k \subseteq 1..(k + (n - m)) /\ (k + 1)..(k + (n - m)) \subseteq 1..(k + (n - m))
      BY <1>1
    <2> QED
      <3>1. old \in Seq(STRING)
        BY <2>1, <2>2
      <3>2. Len(old) = k + (n - m)
        BY <1>1, <1>3, <2>1, <2>2
      <3>3. \A i \in 1..k : old[i] = p[i]
        BY <1>1, <2>3, <2>4
      <3>4. \A i \in (k + 1)..(k + (n - m)) : old[i] = x[i - k]
        BY <1>1, <2>3, <2>4
      <3> QED
        BY <2>2, <3>1, <3>2, <3>3, <3>4
  <1>5. old # <<>>
    BY <1>1, <1>4
  <1>7. ASSUME e # q
        PROVE  Front(old) = p \o SubSeq(Front(e), m + 1, Len(Front(e)))
    <2>1. m < n
      <3> SUFFICES ASSUME m = n
                   PROVE  FALSE
        BY <1>1
      <3>1. \A i \in 1..m : q[i] = e[i]
        BY <1>1, PrefixFacts
      <3> QED
        BY <1>1, <1>7, <3>1, SeqEqual
    <2>2. e # <<>>
      BY <1>1, <2>1
    <2>3. PICK g : g = Front(e)
      OBVIOUS
    <2>4. g \in Seq(STRING) /\ Len(g) = n - 1 /\ \A i \in 1..(n - 1) : g[i] = e[i]
      BY <1>1, <2>2, <2>3, PathParts
    <2>5. PICK y : y = SubSeq(g, m + 1, n - 1)
      OBVIOUS
    <2>6. y \in Seq(STRING) /\ Len(y) = (n - 1) - m /\ \A i \in 1..((n - 1) - m) : y[i] = g[m + i]
      BY <1>1, <2>1, <2>4, <2>5
    <2>7. PICK z : z = p \o y
      OBVIOUS
    <2>8. /\ z \in Seq(STRING) /\ Len(z) = k + ((n - 1) - m)
          /\ \A i \in 1..k : z[i] = p[i]
          /\ \A i \in (k + 1)..(k + ((n - 1) - m)) : z[i] = y[i - k]
      <3>1. /\ p \o y \in Seq(STRING) /\ Len(p \o y) = Len(p) + Len(y)
            /\ \A i \in 1..(Len(p) + Len(y)) : (p \o y)[i] = IF i <= Len(p) THEN p[i] ELSE y[i - Len(p)]
        BY <2>6, ConcatProperties
      <3> QED
        BY <1>1, <2>1, <2>6, <2>7, <3>1
    <2>9. PICK f : f = Front(old)
      OBVIOUS
    <2>10. /\ f \in Seq(STRING) /\ Len(f) = (k + (n - m)) - 1
           /\ \A i \in 1..((k + (n - m)) - 1) : f[i] = old[i]
      BY <1>4, <1>5, <2>9, PathParts
    <2>11. Len(f) = Len(z) /\ Len(z) = k + ((n - 1) - m)
      BY <1>1, <2>1, <2>8, <2>10
    <2>12. ASSUME NEW i \in 1..Len(z)
           PROVE  f[i] = z[i]
      <3>1. f[i] = old[i]
        BY <1>1, <2>1, <2>10, <2>11
      <3>2. CASE i <= k
        BY <1>1, <1>4, <2>8, <3>1, <3>2
      <3>3. CASE i > k
        <4>1. i \in (k + 1)..(k + ((n - 1) - m)) /\ i \in (k + 1)..(k + (n - m))
          BY <1>1, <2>1, <2>11, <3>3
        <4>2. z[i] = y[i - k] /\ old[i] = x[i - k]
          BY <1>4, <2>8, <4>1
        <4>3. i - k \in 1..((n - 1) - m) /\ i - k \in 1..(n - m) /\ m + (i - k) \in 1..(n - 1)
          BY <1>1, <2>1, <4>1
        <4>4. y[i - k] = g[m + (i - k)] /\ x[i - k] = e[m + (i - k)]
          BY <1>3, <2>6, <4>3
        <4>5. g[m + (i - k)] = e[m + (i - k)]
          BY <2>4, <4>3
        <4> QED
          BY <3>1, <4>2, <4>4, <4>5
      <3> QED
        BY <1>1, <2>8, <2>11, <3>2, <3>3
    <2>13. f = z
      BY <2>8, <2>10, <2>11, <2>12, SeqEqual
    <2> QED
      BY <2>3, <2>4, <2>5, <2>7, <2>9, <2>13
  <1> QED
    BY <1>0, <1>1, <1>5, <1>7 DEF OldOf

(* rename leaves a tree, and takes every entry from the old one.           *)
LEMMA RenamedShape ==
  ASSUME NEW tr, Shape(tr), NEW p \in Paths, p # <<>>, NEW q \in Paths, q # <<>>,
         tr[Front(q)] = Dir, NEW tr2, tr2 = RenamedIn(tr, p, q)
  PROVE  /\ Shape(tr2)
         /\ \A e \in Paths : tr2[e] = None \/ \E f \in Paths : tr2[e] = tr[f]
  <1>0. Paths \subseteq Seq(STRING)
    BY FsAssumption
  <1> DEFINE Old(e) == OldOf(p, q, e)
  <1>1. \A e \in Paths : /\ IsPrefix(p, e) => tr2[e] = None
                         /\ ~IsPrefix(p, e) /\ IsPrefix(q, e) =>
                              tr2[e] = IF Old(e) \in Paths THEN tr[Old(e)] ELSE None
                         /\ ~IsPrefix(p, e) /\ ~IsPrefix(q, e) => tr2[e] = tr[e]
    <2> TAKE e \in Paths
    <2>1. tr2[e] = IF IsPrefix(p, e) THEN None
                   ELSE IF IsPrefix(q, e) THEN (IF Old(e) \in Paths THEN tr[Old(e)] ELSE None)
                   ELSE tr[e]
      BY DEF RenamedIn, OldOf
    <2> HIDE DEF Old
    <2> QED
      BY <2>1
  <1> HIDE DEF Old
  <1>2. None \in Entries /\ None # Dir
    BY DEF Entries, None, Dir
  <1>3. \A e \in Paths : tr2[e] = None \/ \E f \in Paths : tr2[e] = tr[f]
    BY <1>1, Zenon
  <1>4. tr2 \in [Paths -> Entries]
    <2>1. \A e \in Paths : tr2[e] \in Entries
      BY <1>2, <1>3 DEF Shape
    <2>2. tr2 = [e \in Paths |-> tr2[e]]
      BY DEF RenamedIn
    <2> QED
      BY <2>1, <2>2
  <1>5. tr2[<<>>] \in {None, Dir}
    <2>1. <<>> \in Seq(STRING) /\ \A r \in Seq(STRING) : IsPrefix(r, <<>>) => r = <<>>
      <3> SUFFICES ASSUME NEW r \in Seq(STRING), IsPrefix(r, <<>>)
                   PROVE  r = <<>>
        OBVIOUS
      <3>1. Len(r) <= 0 /\ Len(r) \in Nat
        BY DEF IsPrefix
      <3> QED
        BY <3>1, EmptySeq
    <2>2. ~IsPrefix(p, <<>>) /\ ~IsPrefix(q, <<>>)
      BY <1>0, <2>1
    <2> QED
      BY <1>1, <2>2, FsAssumption DEF Shape
  <1>6. ASSUME NEW e \in Paths, e # <<>>, tr2[e] # None
        PROVE  tr2[Front(e)] = Dir
    <2>1. Front(e) \in Paths /\ ~IsPrefix(p, e)
      BY <1>1, <1>6, FsAssumption
    <2>2. ~IsPrefix(p, Front(e))
      BY <1>0, <1>6, <2>1, PrefixFront
    <2>3. CASE ~IsPrefix(q, e)
      <3>1. ~IsPrefix(q, Front(e))
        BY <1>0, <1>6, <2>3, PrefixFront
      <3>2. tr2[e] = tr[e] /\ tr2[Front(e)] = tr[Front(e)]
        BY <1>1, <2>1, <2>2, <2>3, <3>1
      <3> QED
        BY <1>6, <3>2 DEF Shape
    <2>4. CASE e = q
      <3>1. ~IsPrefix(q, Front(q))
        <4>1. Len(Front(q)) = Len(q) - 1 /\ Len(q) \in Nat /\ Front(q) \in Seq(STRING)
          BY <1>0, PathParts
        <4> QED
          BY <1>0, <4>1, PrefixFacts
      <3> QED
        BY <1>1, <2>1, <2>2, <2>4, <3>1
    <2>5. CASE IsPrefix(q, e) /\ e # q
      <3>1. IsPrefix(q, Front(e))
        BY <1>0, <1>6, <2>5, PrefixFront
      <3>2. tr2[e] = tr[Old(e)] /\ Old(e) \in Paths
        BY <1>1, <1>6, <2>1, <2>5
      <3>3. Old(e) # <<>> /\ Front(Old(e)) = Old(Front(e))
        BY <1>0, <2>5, OldPath DEF Old
      <3>4. tr[Old(Front(e))] = Dir /\ Old(Front(e)) \in Paths
        BY <1>6, <3>2, <3>3, FsAssumption DEF Shape
      <3> QED
        BY <1>1, <2>1, <2>2, <3>1, <3>4
    <2> QED
      BY <2>3, <2>4, <2>5
  <1> QED
    BY <1>3, <1>4, <1>5, <1>6 DEF Shape

-----------------------------------------------------------------------------
(* The invariant.                                                          *)

Fields == {"pc", "path", "need", "ino", "n", "len", "buf", "res"}

(* A call has its arguments.                                               *)
CallOK(c) ==
  /\ c.path \in Paths /\ c.to \in Paths
  /\ c.name = "write" => c.contents \in Seq(Nat) /\ Len(c.contents) = Default

(* The path k names above p.                                               *)
Above(p, k) == SubSeq(p, 1, Len(p) - k)

(* A directory on the way to p that is none.                               *)
BlockedIn(tr, p) ==
  \E q \in Prefixes(p) \ {<<>>} :
     RealIn(tr, q) \in Paths /\ tr[RealIn(tr, q)] # None /\ KindIn(tr, q) # "dir"

(* create_dir_all has found the paths of need missing, from p upwards.     *)
Climbed(s, p) ==
  /\ p # <<>> /\ s.need \in Seq(Paths) /\ Len(s.need) <= Len(p)
  /\ \A j \in 1..Len(s.need) : s.need[j] = Above(p, j - 1)

(* What create_dir_all knows of the tree on its way: that it grows, unless *)
(* others take something out, and that it is its own, if others have done  *)
(* nothing.                                                                *)
ClimbRight(s, p, no, tr, f) ==
  /\ s.path = Above(p, Len(s.need))
  /\ s.pc = "climb" /\ s.path = <<>> /\ "cut" \notin no => tr[<<>>] = None
  /\ no = {} /\ s.need # <<>> => KindIn(tr, s.path) = "none"
  /\ s.pc = "is_dir" => /\ s.res \in {"AlreadyExists", "NotADirectory", "Failed"}
                        /\ s.res = "Failed" => f > 0
                        /\ no = {} /\ s.res = "NotADirectory" => BlockedIn(tr, p)
                        /\ no = {} /\ s.res = "AlreadyExists" =>
                             /\ s.path # <<>> /\ RealIn(tr, s.path) \in Paths
                             /\ tr[RealIn(tr, s.path)] # None

DescendRight(s, p, no, tr) ==
  /\ s.need # <<>>
  /\ "cut" \notin no => KindIn(tr, Above(p, Len(s.need))) = "dir"
  /\ no = {} /\ RealIn(tr, Last(s.need)) \in Paths => tr[RealIn(tr, Last(s.need))] = None

(* What create_dir_all says.                                               *)
DirDone(s, p, no, tr, f) ==
  /\ s.res \in {"Ok", "AlreadyExists", "NotADirectory", "NotFound", "WholeTree", "Failed"}
  /\ s.res = "Ok" /\ "cut" \notin no /\ p # <<>> => KindIn(tr, p) = "dir"
  /\ s.res \in {"AlreadyExists", "NotADirectory"} => no # {} \/ BlockedIn(tr, p)
  /\ s.res = "NotFound" => "cut" \in no
  /\ s.res = "WholeTree" => "cut" \in no \/ tr[<<>>] = None
  /\ s.res = "Failed" => f > 0

DirInv(s, c, no, tr, f) ==
  /\ s.pc \in {"start", "climb", "is_dir", "descend", "done"}
  /\ s.pc = "start" => s.path = c.path /\ s.need = <<>>
  /\ s.pc \in {"climb", "is_dir", "descend"} => Climbed(s, c.path)
  /\ s.pc \in {"climb", "is_dir"} => ClimbRight(s, c.path, no, tr, f)
  /\ s.pc = "descend" => DescendRight(s, c.path, no, tr)
  /\ s.pc = "done" => DirDone(s, c.path, no, tr, f)

(* What is at a path.                                                      *)
ContentsIn(tr, d, p) == IF KindIn(tr, p) = "file" THEN d[tr[TargetIn(tr, p)].ino] ELSE Missing

(* A file that was opened with the options o, where b was before.          *)
OpenRight(o, b) ==
  /\ b # Missing => "create_new" \notin o
  /\ b = Missing => o \cap {"create", "create_new"} # {}

(* A file while it is read and written by nobody else.                     *)
IoRight(s, c, b, d) ==
  /\ OpenRight(c.options, b)
  /\ s.pc = "size" => s.n = 0 /\ s.buf = <<>>
  /\ s.pc = "read" => /\ s.len = Len(d[s.ino]) /\ s.n \in 0..(s.len - 1)
                      /\ s.buf = SubSeq(d[s.ino], 1, s.n)
  /\ s.pc = "write" => d[s.ino] = Written(c.options, b, SubSeq(c.contents, 1, s.n))

(* What opening, reading and writing say in the end.                       *)
FileDone(s, c, b, tr, d) ==
  IF s.ino = Missing THEN s.res \notin {"Ok", "Created"} /\ ContentsIn(tr, d, c.path) = b
  ELSE /\ OpenRight(c.options, b)
       /\ s.res # "UnexpectedEof"
       /\ s.res = "Ok" => d[s.ino] = IF c.name = "read" THEN s.buf
                                     ELSE Written(c.options, b, c.contents)

FileInv(s, c, no, b, tr, d) ==
  /\ s.pc \in {"start", "size", "read", "write", "done"}
  /\ s.pc \in {"size", "read"} => c.name = "read"
  /\ s.pc = "write" => c.name = "write"
  /\ b \in Seq(Nat) \cup {Missing}
  /\ s.pc = "start" => s.n = 0 /\ s.buf = <<>> /\ s.ino = Missing
  /\ s.pc \in {"size", "read", "write"} =>
       /\ s.ino \in Inodes /\ d[s.ino] # Missing /\ s.n \in Nat
       /\ s.pc = "size" => s.n = 0 /\ s.buf = <<>>
       /\ s.pc = "read" => s.len \in Nat
       /\ s.pc = "write" => s.len = Default /\ s.n <= Default
       /\ no = {} => IoRight(s, c, b, d)
  /\ s.pc = "done" /\ no = {} => FileDone(s, c, b, tr, d)

TaskInv(s, c, no, b, tr, d, f) ==
  /\ DOMAIN s = Fields
  /\ s.pc \in {"size", "read", "write"} => c.name \in {"read", "write"}
  /\ s.pc \in {"climb", "is_dir", "descend"} => c.name = "create_dir_all"
  /\ c.name = "create_dir_all" => DirInv(s, c, no, tr, f)
  /\ c.name \in {"read", "write"} => FileInv(s, c, no, b, tr, d)

FsInv ==
  /\ IsTree(tree, data) /\ faults \in Nat
  /\ DOMAIN st = Tasks /\ DOMAIN noise = Tasks /\ DOMAIN before = Tasks
  /\ \A t \in Tasks :
       /\ CallOK(call[t])
       /\ TaskInv(st[t], call[t], noise[t], before[t], tree, data, faults)

-----------------------------------------------------------------------------
(* The paths above a path.                                                 *)
LEMMA AboveParts ==
  ASSUME NEW p \in Seq(STRING), NEW k \in 0..Len(p)
  PROVE  /\ Above(p, k) \in Seq(STRING) /\ Len(Above(p, k)) = Len(p) - k
         /\ \A i \in 1..(Len(p) - k) : Above(p, k)[i] = p[i]
         /\ Above(p, 0) = p /\ Above(p, k) \in Prefixes(p)
         /\ k < Len(p) => Above(p, k) # <<>> /\ Front(Above(p, k)) = Above(p, k + 1)
         /\ Above(p, Len(p)) = <<>>
  <1>1. PICK n \in Nat : n = Len(p)
    OBVIOUS
  <1>2. \A j \in 0..n : /\ Above(p, j) \in Seq(STRING) /\ Len(Above(p, j)) = n - j
                        /\ \A i \in 1..(n - j) : Above(p, j)[i] = p[i]
    BY <1>1 DEF Above
  <1>3. Above(p, 0) = p
    BY <1>1, <1>2, SeqEqual
  <1>4. Above(p, k) \in Prefixes(p)
    BY <1>1 DEF Above, Prefixes
  <1>5. Above(p, n) = <<>>
    BY <1>1, <1>2, EmptySeq
  <1>6. ASSUME k < n
        PROVE  Above(p, k) # <<>> /\ Front(Above(p, k)) = Above(p, k + 1)
    <2>1. PICK a, b : a = Above(p, k) /\ b = Above(p, k + 1)
      OBVIOUS
    <2>2. a \in Seq(STRING) /\ Len(a) = n - k /\ \A i \in 1..(n - k) : a[i] = p[i]
      BY <1>1, <1>2, <2>1
    <2>3. b \in Seq(STRING) /\ Len(b) = (n - k) - 1 /\ \A i \in 1..((n - k) - 1) : b[i] = p[i]
      <3>1. k + 1 \in 0..n /\ n - (k + 1) = (n - k) - 1
        BY <1>1, <1>6
      <3> QED
        BY <1>2, <2>1, <3>1
    <2>4. a # <<>>
      BY <1>1, <1>6, <2>2
    <2>5. /\ Front(a) \in Seq(STRING) /\ Len(Front(a)) = (n - k) - 1
          /\ \A i \in 1..((n - k) - 1) : Front(a)[i] = a[i]
      BY <2>2, <2>4, PathParts
    <2>6. \A i \in 1..Len(b) : Front(a)[i] = b[i]
      <3> SUFFICES ASSUME NEW i \in 1..((n - k) - 1)
                   PROVE  Front(a)[i] = b[i]
        BY <2>3
      <3>1. i \in 1..(n - k)
        BY <1>1
      <3> QED
        BY <2>2, <2>3, <2>5, <3>1
    <2>7. Front(a) = b
      BY <2>3, <2>5, <2>6, SeqEqual
    <2> QED
      BY <2>1, <2>4, <2>7
  <1> QED
    BY <1>1, <1>2, <1>3, <1>4, <1>5, <1>6

(* They are paths.                                                         *)
LEMMA AboveFacts ==
  ASSUME NEW p \in Paths
  PROVE  \A k \in 0..Len(p) : Above(p, k) \in Paths
  <1>1. p \in Seq(STRING)
    BY FsAssumption
  <1>2. PICK n \in Nat : n = Len(p)
    BY <1>1
  <1> DEFINE S == {k \in 0..n : Above(p, k) \in Paths}
  <1>3. 0 \in S
    BY <1>1, <1>2, AboveParts
  <1>4. ASSUME NEW k \in 0..(n - 1), k \in S
        PROVE  k + 1 \in S
    <2>1. k \in 0..n /\ k < n /\ k + 1 \in 0..n
      BY <1>2
    <2>2. Above(p, k) # <<>> /\ Front(Above(p, k)) = Above(p, k + 1)
      BY <1>1, <1>2, <2>1, AboveParts
    <2> QED
      BY <1>4, <2>1, <2>2, FsAssumption
  <1> HIDE DEF S
  <1>5. 0..n \subseteq S
    BY <1>3, <1>4, UpTo
  <1> QED
    BY <1>2, <1>5 DEF S

(* What a task knows outlasts what others do, as far as it counts on it.   *)
LEMMA OthersKeepDir ==
  ASSUME NEW s, NEW c, CallOK(c), NEW no, NEW no2, no \subseteq no2, NEW tr, NEW tr2,
         Shape(tr), Shape(tr2), NEW f \in Nat, NEW f2 \in Nat, f <= f2,
         s.pc # "start" => /\ no2 = {} => tr2 = tr
                           /\ "cut" \notin no2 => Grows(tr, tr2),
         DirInv(s, c, no, tr, f)
  PROVE  DirInv(s, c, no2, tr2, f2)
  <1>1. c.path \in Paths /\ c.path \in Seq(STRING)
    BY FsAssumption DEF CallOK
  <1>2. no2 = {} => no = {}
    OBVIOUS
  <1>3. "cut" \notin no2 => "cut" \notin no
    OBVIOUS
  <1>4. ASSUME s.pc # "start", "cut" \notin no2, NEW p \in Paths, KindIn(tr, p) = "dir"
        PROVE  KindIn(tr2, p) = "dir"
    BY <1>4, GrowsKeeps
  <1>5. ASSUME s.pc # "start", "cut" \notin no2
        PROVE  tr2[<<>>] = tr[<<>>]
    BY <1>5 DEF Grows
  <1>6. f > 0 => f2 > 0
    OBVIOUS
  <1>7. ASSUME s.pc \in {"climb", "is_dir"}
        PROVE  ClimbRight(s, c.path, no2, tr2, f2)
    <2>1. ClimbRight(s, c.path, no, tr, f) /\ s.pc # "start"
      BY <1>7 DEF DirInv
    <2>2. CASE no2 = {}
      BY <1>2, <1>3, <1>6, <2>1, <2>2 DEF ClimbRight
    <2>3. CASE no2 # {}
      BY <1>3, <1>5, <1>6, <2>1, <2>3 DEF ClimbRight
    <2> QED
      BY <2>2, <2>3
  <1>8. ASSUME s.pc = "descend"
        PROVE  DescendRight(s, c.path, no2, tr2)
    <2>1. DescendRight(s, c.path, no, tr) /\ s.pc # "start" /\ Climbed(s, c.path)
      BY <1>8 DEF DirInv
    <2>2. Above(c.path, Len(s.need)) \in Paths
      <3>1. Len(s.need) \in 0..Len(c.path)
        BY <1>1, <2>1 DEF Climbed
      <3> QED
        BY <1>1, <3>1, AboveFacts
    <2>3. "cut" \notin no2 => KindIn(tr2, Above(c.path, Len(s.need))) = "dir"
      BY <1>3, <1>4, <2>1, <2>2 DEF DescendRight
    <2> QED
      BY <1>2, <2>1, <2>3 DEF DescendRight
  <1>9. ASSUME s.pc = "done"
        PROVE  DirDone(s, c.path, no2, tr2, f2)
    <2>1. DirDone(s, c.path, no, tr, f) /\ s.pc # "start"
      BY <1>9 DEF DirInv
    <2>2. s.res = "Ok" /\ "cut" \notin no2 /\ c.path # <<>> => KindIn(tr2, c.path) = "dir"
      BY <1>1, <1>3, <1>4, <2>1 DEF DirDone
    <2>3. s.res \in {"AlreadyExists", "NotADirectory"} => no2 # {} \/ BlockedIn(tr2, c.path)
      BY <1>2, <2>1 DEF DirDone
    <2>4. s.res = "WholeTree" => "cut" \in no2 \/ tr2[<<>>] = None
      BY <1>3, <1>5, <2>1 DEF DirDone
    <2> QED
      BY <1>3, <1>6, <2>1, <2>2, <2>3, <2>4 DEF DirDone
  <1> QED
    BY <1>7, <1>8, <1>9 DEF DirInv

(* The same for a file.                                                    *)
LEMMA OthersKeepFile ==
  ASSUME NEW s, NEW c, NEW no, NEW no2, no \subseteq no2, NEW b, NEW tr, NEW tr2, NEW d, NEW d2,
         s.pc # "start" /\ no2 = {} => tr2 = tr /\ d2 = d,
         \A i \in Inodes : d[i] # Missing => d2[i] # Missing,
         FileInv(s, c, no, b, tr, d)
  PROVE  FileInv(s, c, no2, b, tr2, d2)
  <1>1. no2 = {} => no = {}
    OBVIOUS
  <1>2. s.pc = "done" /\ no2 = {} => FileDone(s, c, b, tr2, d2)
    BY <1>1 DEF FileInv
  <1>3. s.pc \in {"size", "read", "write"} /\ no2 = {} => IoRight(s, c, b, d2)
    BY <1>1 DEF FileInv
  <1>4. s.pc \in {"size", "read", "write"} => d2[s.ino] # Missing
    BY DEF FileInv
  <1> QED
    BY <1>2, <1>3, <1>4 DEF FileInv

(* What a step of t leaves to the other tasks.                             *)
Effect(t) ==
  /\ IsTree(tree', data') /\ faults' \in Nat /\ faults' >= faults /\ call' = call
  /\ DOMAIN st' = Tasks /\ DOMAIN noise' = Tasks /\ DOMAIN before' = Tasks
  /\ noise'[t] = noise[t]
  /\ \A u \in Tasks : u # t =>
       /\ st'[u] = st[u] /\ before'[u] = before[u] /\ noise[u] \subseteq noise'[u]
       /\ st[u].pc # "start" => /\ noise'[u] = {} => tree' = tree /\ data' = data
                                /\ "cut" \notin noise'[u] => Grows(tree, tree')
  /\ \A i \in Inodes : data[i] # Missing => data'[i] # Missing

(* A tree has its shape.                                                   *)
LEMMA TreeShape ==
  /\ IsTree(tree, data) => Shape(tree)
  /\ IsTree(tree', data') => Shape(tree')
  BY DEF IsTree, Shape

(* A step keeps the invariant if it keeps that of its own task.            *)
LEMMA Keeps ==
  ASSUME FsInv, NEW t \in Tasks, Effect(t),
         TaskInv(st'[t], call[t], noise[t], before'[t], tree', data', faults')
  PROVE  FsInv'
  <1>1. /\ IsTree(tree', data') /\ faults' \in Nat
        /\ DOMAIN st' = Tasks /\ DOMAIN noise' = Tasks /\ DOMAIN before' = Tasks
        /\ call' = call
    BY DEF Effect
  <1>2. ASSUME NEW u \in Tasks
        PROVE  TaskInv(st'[u], call[u], noise'[u], before'[u], tree', data', faults')
    <2>1. CASE u = t
      BY <2>1 DEF Effect
    <2>2. CASE u # t
      <3>1. PICK s, c, no, no2, b : /\ s = st[u] /\ s = st'[u] /\ c = call[u] /\ no = noise[u]
                                    /\ no2 = noise'[u] /\ b = before[u] /\ b = before'[u]
        BY <1>2, <2>2 DEF Effect
      <3>2. /\ no \subseteq no2 /\ Shape(tree) /\ Shape(tree') /\ CallOK(c)
            /\ TaskInv(s, c, no, b, tree, data, faults)
            /\ faults \in Nat /\ faults' \in Nat /\ faults <= faults'
            /\ s.pc # "start" => /\ no2 = {} => tree' = tree /\ data' = data
                                 /\ "cut" \notin no2 => Grows(tree, tree')
            /\ \A i \in Inodes : data[i] # Missing => data'[i] # Missing
        BY <1>2, <2>2, <3>1, TreeShape DEF Effect, FsInv
      <3>3. c.name = "create_dir_all" => DirInv(s, c, no2, tree', faults')
        BY <3>2, OthersKeepDir DEF TaskInv
      <3>4. c.name \in {"read", "write"} => FileInv(s, c, no2, b, tree', data')
        BY <3>2, OthersKeepFile DEF TaskInv
      <3> QED
        BY <3>1, <3>2, <3>3, <3>4 DEF TaskInv
    <2> QED
      BY <2>1, <2>2
  <1> QED
    BY <1>1, <1>2 DEF FsInv

(* Others notice what is done while they are on their way.                 *)
LEMMA Noticed ==
  ASSUME FsInv, NEW t \in Tasks, NEW what, Disturbs(t, what)
  PROVE  /\ DOMAIN noise' = Tasks /\ noise'[t] = noise[t]
         /\ \A u \in Tasks : u # t => /\ noise[u] \subseteq noise'[u]
                                      /\ st[u].pc # "start" => what \subseteq noise'[u]
  BY DEF Disturbs, FsInv

(* The steps that change nothing but their task.                           *)
LEMMA QuietEffect ==
  ASSUME FsInv, NEW t \in Tasks, UNCHANGED <<tree, data, call, noise>>,
         faults' \in Nat, faults' >= faults, DOMAIN st' = Tasks, DOMAIN before' = Tasks,
         \A u \in Tasks : u # t => st'[u] = st[u] /\ before'[u] = before[u]
  PROVE  Effect(t)
  <1>1. Grows(tree, tree')
    BY DEF Grows
  <1>2. DOMAIN noise' = Tasks /\ noise'[t] = noise[t] /\ IsTree(tree', data')
    BY DEF FsInv
  <1> QED
    BY <1>1, <1>2 DEF Effect

(* The steps that change the tree as others can see.                       *)
LEMMA TreeEffect ==
  ASSUME FsInv, NEW t \in Tasks, UNCHANGED <<call, faults>>, IsTree(tree', data'),
         NEW what, Disturbs(t, what), what # {}, "cut" \notin what => Grows(tree, tree'),
         DOMAIN st' = Tasks, DOMAIN before' = Tasks,
         \A u \in Tasks : u # t => st'[u] = st[u] /\ before'[u] = before[u],
         \A i \in Inodes : data[i] # Missing => data'[i] # Missing
  PROVE  Effect(t)
  <1>1. faults' \in Nat /\ faults' >= faults /\ call' = call
    BY DEF FsInv
  <1>2. /\ DOMAIN noise' = Tasks /\ noise'[t] = noise[t]
        /\ \A u \in Tasks : u # t => /\ noise[u] \subseteq noise'[u]
                                     /\ st[u].pc # "start" => what \subseteq noise'[u]
    BY Noticed
  <1>3. \A u \in Tasks : u # t /\ st[u].pc # "start" =>
           noise'[u] # {} /\ ("cut" \notin noise'[u] => Grows(tree, tree'))
    BY <1>2
  <1> QED
    BY <1>1, <1>2, <1>3 DEF Effect

(* The steps that might have changed the tree, and did not.                *)
LEMMA StillEffect ==
  ASSUME FsInv, NEW t \in Tasks, UNCHANGED <<tree, data, call, faults>>,
         NEW what, Disturbs(t, what), DOMAIN st' = Tasks, DOMAIN before' = Tasks,
         \A u \in Tasks : u # t => st'[u] = st[u] /\ before'[u] = before[u]
  PROVE  Effect(t)
  <1>1. Grows(tree, tree') /\ IsTree(tree', data') /\ faults' \in Nat /\ faults' >= faults
    BY DEF Grows, FsInv
  <1>2. /\ DOMAIN noise' = Tasks /\ noise'[t] = noise[t]
        /\ \A u \in Tasks : u # t => noise[u] \subseteq noise'[u]
    BY Noticed
  <1> QED
    BY <1>1, <1>2 DEF Effect

(* The end of a call.                                                      *)
LEMMA EndFacts ==
  ASSUME FsInv, NEW t \in Tasks, NEW r, Ends(t, r)
  PROVE  /\ DOMAIN st' = Tasks /\ \A u \in Tasks : u # t => st'[u] = st[u]
         /\ DOMAIN st'[t] = Fields /\ st'[t].pc = "done" /\ st'[t].res = r
         /\ \A x \in Fields \ {"pc", "res"} : st'[t][x] = st[t][x]
  <1>1. DOMAIN st = Tasks /\ DOMAIN st[t] = Fields
    BY DEF FsInv, TaskInv
  <1>2. PICK s : s = st[t]
    OBVIOUS
  <1>3. PICK s2 : s2 = [s EXCEPT !.pc = "done", !.res = r]
    OBVIOUS
  <1>4. /\ DOMAIN s2 = Fields /\ s2.pc = "done" /\ s2.res = r
        /\ \A x \in Fields \ {"pc", "res"} : s2[x] = s[x]
    BY <1>1, <1>2, <1>3 DEF Fields
  <1>5. st' = [st EXCEPT ![t] = s2]
    BY <1>1, <1>2, <1>3 DEF Ends
  <1> QED
    BY <1>1, <1>2, <1>4, <1>5

-----------------------------------------------------------------------------
(* mkdir, by its answers.                                                  *)
LEMMA MkdirFacts ==
  ASSUME FsInv, NEW p \in Paths
  PROVE  /\ KernelMkdir(p) \in {"NotFound", "NotADirectory", "AlreadyExists", "Ok"}
         /\ KernelMkdir(p) = "NotFound" => p = <<>> \/ KindIn(tree, Front(p)) = "none"
         /\ KernelMkdir(p) = "NotADirectory" =>
              p # <<>> /\ KindIn(tree, Front(p)) \in {"file", "link"}
         /\ KernelMkdir(p) \in {"Ok", "AlreadyExists"} /\ Within(p) =>
              p # <<>> /\ KindIn(tree, Front(p)) = "dir" /\ RealIn(tree, p) \in Paths
         /\ KernelMkdir(p) = "Ok" /\ Within(p) => tree[RealIn(tree, p)] = None
         /\ KernelMkdir(p) = "AlreadyExists" /\ Within(p) => tree[RealIn(tree, p)] # None
  <1>1. Shape(tree)
    BY TreeShape DEF FsInv
  <1>2. p # <<>> => Front(p) \in Paths
    BY FsAssumption
  <1>3. \A q \in Paths : KindIn(tree, q) \in {"none", "dir", "file", "link"}
    BY <1>1, EntryKinds DEF KindIn, Shape
  <1>4. /\ Kind(Front(p)) = KindIn(tree, Front(p)) /\ Real(p) = RealIn(tree, p)
    BY TreeOps
  <1>5. RealIn(tree, p) \in Paths => (tree[RealIn(tree, p)].kind = "none" <=> tree[RealIn(tree, p)] = None)
    BY <1>1, EntryKinds DEF Shape
  <1>6. CASE p = <<>>
    BY <1>6 DEF KernelMkdir
  <1>7. CASE p # <<>> /\ KindIn(tree, Front(p)) = "none"
    BY <1>4, <1>7 DEF KernelMkdir
  <1>8. CASE p # <<>> /\ KindIn(tree, Front(p)) \in {"file", "link"}
    BY <1>4, <1>8 DEF KernelMkdir
  <1>9. CASE p # <<>> /\ KindIn(tree, Front(p)) = "dir"
    <2>1. KernelMkdir(p) = IF tree[RealIn(tree, p)].kind # "none" THEN "AlreadyExists" ELSE "Ok"
      BY <1>4, <1>9 DEF KernelMkdir
    <2> QED
      BY <1>4, <1>5, <1>9, <2>1 DEF Within
  <1> QED
    BY <1>2, <1>3, <1>6, <1>7, <1>8, <1>9

(* mkdir that succeeds.                                                    *)
LEMMA MkdirMakes ==
  ASSUME FsInv, NEW p \in Paths, KernelMkdir(p) = "Ok", Within(p),
         NEW v \in Entries, v.kind # "file",
         tree' = [tree EXCEPT ![Real(p)] = v], data' = data
  PROVE  /\ IsTree(tree', data') /\ Grows(tree, tree')
         /\ v = Dir => KindIn(tree', p) = "dir"
         /\ v = Dir => EmptyAt(tree', p)
  <1>1. Shape(tree) /\ tree' = [tree EXCEPT ![RealIn(tree, p)] = v]
    BY TreeShape, TreeOps DEF FsInv
  <1>2. /\ p # <<>> /\ KindIn(tree, Front(p)) = "dir" /\ RealIn(tree, p) \in Paths
        /\ tree[RealIn(tree, p)] = None
    BY MkdirFacts
  <1>3. /\ Shape(tree') /\ Grows(tree, tree')
        /\ v = Dir => KindIn(tree', p) = "dir"
        /\ v = Dir => EmptyAt(tree', p)
    <2>1. PICK tr, tr2 : tr = tree /\ tr2 = tree'
      OBVIOUS
    <2>2. /\ Shape(tr2) /\ Grows(tr, tr2)
          /\ v = Dir => KindIn(tr2, p) = "dir"
          /\ v = Dir => EmptyAt(tr2, p)
      <3>1. PICK e \in Paths : e = RealIn(tr, p)
        BY <1>2, <2>1
      <3>2. /\ Shape(tr) /\ p # <<>> /\ KindIn(tr, Front(p)) = "dir"
            /\ tr[e] = None /\ tr2 = [tr EXCEPT ![e] = v]
        BY <1>1, <1>2, <2>1, <3>1
      <3>3. Shape(tr2) /\ Grows(tr, tr2)
        BY <3>1, <3>2, MadeAt
      <3>4. v = Dir => KindIn(tr2, p) = "dir"
        BY <3>1, <3>2, MadeAt
      <3>5. v = Dir => EmptyAt(tr2, p)
        BY <3>1, <3>2, MadeAt
      <3> QED
        BY <3>3, <3>4, <3>5
    <2> QED
      BY <2>1, <2>2
  <1>4. \A q \in Paths : tree'[q].kind = "file" => tree'[q] = tree[q]
    BY <1>1 DEF Shape
  <1>5. IsTree(tree', data')
    BY <1>3, <1>4 DEF IsTree, Shape, FsInv
  <1> QED
    BY <1>3, <1>5

(* Calls of which nothing is said when they have ended.                    *)
LEMMA PlainEnd ==
  ASSUME NEW s, DOMAIN s = Fields, s.pc = "done", NEW c, NEW no, NEW b, NEW tr, NEW d, NEW f,
         c.name \notin {"create_dir_all", "read", "write"}
  PROVE  TaskInv(s, c, no, b, tr, d, f)
  BY DEF TaskInv

(* create_dir.                                                             *)
LEMMA CreateDirStep ==
  ASSUME FsInv, NEW t \in Tasks, create_dir(t)
  PROVE  FsInv'
  <1>1. PICK p : p = call[t].path
    OBVIOUS
  <1>2. /\ p \in Paths /\ call[t].name = "create_dir" /\ Within(p) /\ Ends(t, KernelMkdir(p))
        /\ UNCHANGED <<data, call, before, faults>>
    BY <1>1 DEF FsInv, CallOK, create_dir, Makes
  <1>3. /\ DOMAIN st' = Tasks /\ \A u \in Tasks : u # t => st'[u] = st[u]
        /\ DOMAIN st'[t] = Fields /\ st'[t].pc = "done"
    BY <1>2, EndFacts
  <1>4. TaskInv(st'[t], call[t], noise[t], before'[t], tree', data', faults')
    BY <1>2, <1>3, PlainEnd
  <1>5. Effect(t)
    <2>1. CASE KernelMkdir(p) = "Ok"
      <3>1. tree' = [tree EXCEPT ![Real(p)] = Dir] /\ Disturbs(t, {"add"})
        BY <1>1, <2>1 DEF create_dir
      <3>2. Dir \in Entries /\ Dir.kind # "file"
        BY DEF Entries, Dir
      <3>3. IsTree(tree', data') /\ Grows(tree, tree')
        BY <1>2, <2>1, <3>1, <3>2, MkdirMakes
      <3> QED
        BY <1>2, <1>3, <3>1, <3>3, TreeEffect DEF FsInv
    <2>2. CASE KernelMkdir(p) # "Ok"
      <3>1. UNCHANGED <<tree, noise>>
        BY <1>1, <2>2 DEF create_dir
      <3> QED
        BY <1>2, <1>3, <3>1, QuietEffect DEF FsInv
    <2> QED
      BY <2>1, <2>2
  <1> QED
    BY <1>4, <1>5, Keeps

(* create_dir_all.                                                         *)
LEMMA CreateDirAllStep ==
  ASSUME FsInv, NEW t \in Tasks, create_dir_all(t)
  PROVE  FsInv'
  <1>1. PICK s, c : s = st[t] /\ c = call[t]
    OBVIOUS
  <1>2. /\ c.path \in Paths /\ c.name = "create_dir_all" /\ s.pc = "start" /\ DOMAIN s = Fields
        /\ UNCHANGED <<tree, data, call, noise, before, faults>>
        /\ DirInv(s, c, noise[t], tree, faults)
    BY <1>1 DEF FsInv, CallOK, create_dir_all, Makes, TaskInv
  <1>3. s.path = c.path /\ s.need = <<>> /\ c.path \in Seq(STRING)
    BY <1>2, FsAssumption DEF DirInv
  <1>4. CASE c.path = <<>>
    <2>1. Ends(t, "Ok")
      BY <1>1, <1>4 DEF create_dir_all
    <2>2. /\ DOMAIN st' = Tasks /\ \A u \in Tasks : u # t => st'[u] = st[u]
          /\ DOMAIN st'[t] = Fields /\ st'[t].pc = "done" /\ st'[t].res = "Ok"
      BY <2>1, EndFacts
    <2>3. TaskInv(st'[t], c, noise[t], before'[t], tree', data', faults')
      BY <1>2, <1>4, <2>2 DEF TaskInv, DirInv, DirDone
    <2> QED
      BY <1>1, <1>2, <2>2, <2>3, QuietEffect, Keeps DEF FsInv
  <1>5. CASE c.path # <<>>
    <2>1. PICK s2 : s2 = [s EXCEPT !.pc = "climb"]
      OBVIOUS
    <2>2. /\ DOMAIN s2 = Fields /\ s2.pc = "climb" /\ s2.path = c.path /\ s2.need = <<>>
      BY <1>2, <1>3, <2>1 DEF Fields
    <2>3. st' = [st EXCEPT ![t] = s2]
      BY <1>1, <1>5, <2>1 DEF create_dir_all
    <2>4. DOMAIN st' = Tasks /\ st'[t] = s2 /\ \A u \in Tasks : u # t => st'[u] = st[u]
      BY <2>3 DEF FsInv
    <2>5. Above(c.path, 0) = c.path /\ Len(s2.need) = 0 /\ Len(c.path) \in Nat /\ s2.need \in Seq(Paths)
      BY <1>3, <2>2, AboveParts
    <2>6. Climbed(s2, c.path) /\ ClimbRight(s2, c.path, noise[t], tree', faults')
      BY <1>5, <2>2, <2>5 DEF Climbed, ClimbRight
    <2>7. TaskInv(s2, c, noise[t], before'[t], tree', data', faults')
      BY <1>2, <2>2, <2>6 DEF TaskInv, DirInv
    <2> QED
      BY <1>1, <1>2, <2>4, <2>7, QuietEffect, Keeps DEF FsInv
  <1> QED
    BY <1>4, <1>5

(* The directories that are missing.                                       *)
LEMMA NeedFacts ==
  ASSUME NEW s, NEW p \in Paths, Climbed(s, p), NEW k, k = Len(s.need)
  PROVE  /\ k \in 0..Len(p) /\ Len(p) \in Nat /\ s.need \in Seq(Paths) /\ p \in Seq(STRING)
         /\ Above(p, k) \in Paths
         /\ s.need = <<>> <=> k = 0
         /\ s.need # <<>> => /\ Last(s.need) = Above(p, k - 1) /\ Last(s.need) \in Paths
                             /\ Last(s.need) # <<>> /\ Front(Last(s.need)) = Above(p, k)
  <1>1. p \in Seq(STRING) /\ Len(p) \in Nat
    BY FsAssumption
  <1>2. /\ s.need \in Seq(Paths) /\ k \in Nat /\ k <= Len(p)
        /\ \A j \in 1..k : s.need[j] = Above(p, j - 1)
    BY DEF Climbed
  <1>3. s.need = <<>> <=> k = 0
    BY <1>2, EmptySeq
  <1>4. Above(p, k) \in Paths
    BY <1>1, <1>2, AboveFacts
  <1>5. ASSUME s.need # <<>>
        PROVE  /\ Last(s.need) = Above(p, k - 1) /\ Last(s.need) \in Paths
               /\ Last(s.need) # <<>> /\ Front(Last(s.need)) = Above(p, k)
    <2>1. k \in 1..k /\ k - 1 \in 0..Len(p) /\ k - 1 < Len(p) /\ (k - 1) + 1 = k
      BY <1>1, <1>2, <1>3, <1>5
    <2>2. Last(s.need) = Above(p, k - 1)
      BY <1>2, <2>1 DEF Last
    <2>3. Above(p, k - 1) # <<>> /\ Front(Above(p, k - 1)) = Above(p, k)
      BY <1>1, <2>1, AboveParts
    <2>4. Above(p, k - 1) \in Paths
      BY <2>1, AboveFacts
    <2> QED
      BY <2>2, <2>3, <2>4
  <1> QED
    BY <1>1, <1>2, <1>3, <1>4, <1>5

(* Going on downwards, or having arrived.                                  *)
LEMMA DescendsRight ==
  ASSUME NEW c, c.path \in Paths, c.name = "create_dir_all", NEW no, NEW b, NEW tr, NEW d, NEW f,
         NEW s2, DOMAIN s2 = Fields, Climbed(s2, c.path),
         s2.pc = (IF s2.need = <<>> THEN "done" ELSE "descend"),
         s2.need = <<>> => s2.res = "Ok",
         "cut" \notin no => KindIn(tr, Above(c.path, Len(s2.need))) = "dir",
         no = {} /\ s2.need # <<>> /\ RealIn(tr, Last(s2.need)) \in Paths
           => tr[RealIn(tr, Last(s2.need))] = None
  PROVE  TaskInv(s2, c, no, b, tr, d, f)
  <1>1. CASE s2.need = <<>>
    <2>1. Len(s2.need) = 0 /\ Above(c.path, 0) = c.path
      BY <1>1, FsAssumption, AboveParts
    <2> QED
      BY <1>1, <2>1 DEF TaskInv, DirInv, DirDone
  <1>2. CASE s2.need # <<>>
    BY <1>2 DEF TaskInv, DirInv, DescendRight
  <1> QED
    BY <1>1, <1>2

(* The record that Descend makes.                                          *)
LEMMA DescendFacts ==
  ASSUME FsInv, NEW t \in Tasks, NEW need, st' = [st EXCEPT ![t] = Descend(t, need)]
  PROVE  /\ DOMAIN st' = Tasks /\ \A u \in Tasks : u # t => st'[u] = st[u]
         /\ DOMAIN st'[t] = Fields /\ st'[t].need = need
         /\ st'[t].pc = (IF need = <<>> THEN "done" ELSE "descend")
         /\ need = <<>> => st'[t].res = "Ok"
  <1>1. DOMAIN st = Tasks /\ DOMAIN st[t] = Fields
    BY DEF FsInv, TaskInv
  <1>2. PICK s : s = st[t]
    OBVIOUS
  <1>3. PICK s2 : s2 = Descend(t, need)
    OBVIOUS
  <1>4. s2 = [s EXCEPT !.need = need, !.pc = IF need = <<>> THEN "done" ELSE "descend",
                       !.res = IF need = <<>> THEN "Ok" ELSE @]
    BY <1>2, <1>3 DEF Descend
  <1>5. /\ DOMAIN s2 = Fields /\ s2.need = need
        /\ s2.pc = (IF need = <<>> THEN "done" ELSE "descend")
        /\ need = <<>> => s2.res = "Ok"
    BY <1>1, <1>2, <1>4 DEF Fields
  <1> QED
    BY <1>1, <1>3, <1>5

(* One more directory upwards.                                             *)
LEMMA ClimbStep ==
  ASSUME FsInv, NEW t \in Tasks, Climb(t)
  PROVE  FsInv'
  <1>1. PICK s, c, p, k, q : s = st[t] /\ c = call[t] /\ p = c.path /\ k = Len(s.need) /\ q = s.path
    OBVIOUS
  <1>2. /\ s.pc = "climb" /\ Within(q) /\ UNCHANGED <<data, call, before, faults>>
        /\ TaskInv(s, c, noise[t], before[t], tree, data, faults) /\ p \in Paths
    BY <1>1 DEF FsInv, CallOK, Climb
  <1>3. /\ DOMAIN s = Fields /\ c.name = "create_dir_all" /\ Climbed(s, p)
        /\ ClimbRight(s, p, noise[t], tree, faults)
    BY <1>1, <1>2 DEF TaskInv, DirInv
  <1>4. /\ k \in 0..Len(p) /\ Len(p) \in Nat /\ s.need \in Seq(Paths) /\ p \in Seq(STRING)
        /\ Above(p, k) \in Paths /\ (s.need = <<>> <=> k = 0) /\ q = Above(p, k)
        /\ s.need # <<>> => /\ Last(s.need) = Above(p, k - 1) /\ Last(s.need) \in Paths
                            /\ Last(s.need) # <<>> /\ Front(Last(s.need)) = Above(p, k)
    BY <1>1, <1>2, <1>3, NeedFacts DEF ClimbRight
  <1>5. q \in Paths /\ KernelMkdir(q) \in {"NotFound", "NotADirectory", "AlreadyExists", "Ok"}
    BY <1>4, MkdirFacts
  <1>6. q # <<>> => k < Len(p) /\ Front(q) = Above(p, k + 1) /\ Front(q) \in Paths
    BY <1>4, AboveParts, FsAssumption
  <1>7. Shape(tree) /\ KindIn(tree, <<>>) = tree[<<>>].kind
    BY TreeShape, RealEmpty DEF FsInv, Shape
  <1>8. CASE KernelMkdir(q) = "Ok"
    <2>1. /\ tree' = [tree EXCEPT ![Real(q)] = Dir] /\ Disturbs(t, {"add"})
          /\ st' = [st EXCEPT ![t] = Descend(t, s.need)]
      BY <1>1, <1>8 DEF Climb
    <2>2. Dir \in Entries /\ Dir.kind # "file"
      BY DEF Entries, Dir
    <2>3. /\ IsTree(tree', data') /\ Grows(tree, tree') /\ KindIn(tree', q) = "dir"
          /\ EmptyAt(tree', q)
      BY <1>2, <1>5, <1>8, <2>1, <2>2, MkdirMakes
    <2>4. PICK s2 : s2 = st'[t]
      OBVIOUS
    <2>5. /\ DOMAIN st' = Tasks /\ \A u \in Tasks : u # t => st'[u] = st[u]
          /\ DOMAIN s2 = Fields /\ s2.need = s.need
          /\ s2.pc = (IF s2.need = <<>> THEN "done" ELSE "descend")
          /\ s2.need = <<>> => s2.res = "Ok"
      BY <2>1, <2>4, DescendFacts
    <2>6. Climbed(s2, p)
      BY <1>3, <2>5 DEF Climbed
    <2>7. KindIn(tree', Above(p, Len(s2.need))) = "dir"
      BY <1>1, <1>4, <2>3, <2>5
    <2>8. s2.need # <<>> /\ RealIn(tree', Last(s2.need)) \in Paths
            => tree'[RealIn(tree', Last(s2.need))] = None
      BY <1>4, <2>3, <2>5 DEF EmptyAt
    <2>9. TaskInv(s2, c, noise[t], before'[t], tree', data', faults')
      BY <1>1, <1>2, <1>3, <2>5, <2>6, <2>7, <2>8, DescendsRight
    <2>10. Effect(t)
      BY <1>2, <2>1, <2>3, <2>5, TreeEffect DEF FsInv
    <2> QED
      BY <1>1, <2>4, <2>9, <2>10, Keeps
  <1>9. CASE KernelMkdir(q) = "NotFound" /\ q = <<>>
    <2>1. UNCHANGED <<tree, noise>> /\ Ends(t, "WholeTree")
      BY <1>1, <1>9 DEF Climb
    <2>2. /\ DOMAIN st' = Tasks /\ \A u \in Tasks : u # t => st'[u] = st[u]
          /\ DOMAIN st'[t] = Fields /\ st'[t].pc = "done" /\ st'[t].res = "WholeTree"
      BY <2>1, EndFacts
    <2>3. "cut" \in noise[t] \/ tree'[<<>>] = None
      BY <1>1, <1>2, <1>3, <1>9, <2>1 DEF ClimbRight
    <2>4. TaskInv(st'[t], c, noise[t], before'[t], tree', data', faults')
      BY <1>3, <2>2, <2>3 DEF TaskInv, DirInv, DirDone
    <2> QED
      BY <1>1, <1>2, <2>1, <2>2, <2>4, QuietEffect, Keeps DEF FsInv
  <1>10. CASE KernelMkdir(q) = "NotFound" /\ q # <<>>
    <2>1. /\ UNCHANGED <<tree, noise>>
          /\ st' = [st EXCEPT ![t].need = Append(@, q), ![t].path = Front(@)]
      BY <1>1, <1>10 DEF Climb
    <2>2. PICK s2 : s2 = [s EXCEPT !.need = Append(@, q), !.path = Front(@)]
      OBVIOUS
    <2>3. /\ DOMAIN s2 = Fields /\ s2.need = Append(s.need, q) /\ s2.path = Front(q)
          /\ s2.pc = "climb"
      BY <1>1, <1>2, <1>3, <2>2 DEF Fields
    <2>4. st' = [st EXCEPT ![t] = s2]
      BY <1>1, <2>1, <2>2 DEF FsInv
    <2>5. DOMAIN st' = Tasks /\ st'[t] = s2 /\ \A u \in Tasks : u # t => st'[u] = st[u]
      BY <2>4 DEF FsInv
    <2>6. KindIn(tree, Front(q)) = "none"
      BY <1>5, <1>10, MkdirFacts
    <2>7. s2.need \in Seq(Paths) /\ Len(s2.need) = k + 1
      BY <1>1, <1>4, <1>5, <2>3
    <2>8. Climbed(s2, p)
      <3>1. ASSUME NEW j \in 1..(k + 1)
            PROVE  s2.need[j] = Above(p, j - 1)
        <4>1. CASE j = k + 1
          <5>1. s2.need[j] = q /\ j - 1 = k
            BY <1>1, <1>4, <1>5, <2>3, <4>1
          <5> QED
            BY <1>4, <5>1
        <4>2. CASE j # k + 1
          <5>1. j \in 1..k /\ s2.need[j] = s.need[j]
            BY <1>1, <1>4, <1>5, <2>3, <4>2
          <5> QED
            BY <1>1, <1>3, <5>1 DEF Climbed
        <4> QED
          BY <4>1, <4>2
      <3> QED
        BY <1>3, <1>4, <1>6, <1>10, <2>7, <3>1 DEF Climbed
    <2>9. tree[<<>>].kind = "none" => tree[<<>>] = None
      BY <1>7, EntryKinds, FsAssumption DEF Shape
    <2>10. ClimbRight(s2, p, noise[t], tree, faults)
      BY <1>6, <1>7, <1>10, <2>3, <2>6, <2>7, <2>9 DEF ClimbRight
    <2>11. TaskInv(s2, c, noise[t], before'[t], tree', data', faults')
      BY <1>1, <1>2, <1>3, <2>1, <2>3, <2>8, <2>10 DEF TaskInv, DirInv
    <2> QED
      BY <1>1, <1>2, <2>1, <2>5, <2>11, QuietEffect, Keeps DEF FsInv
  <1>11. CASE KernelMkdir(q) \in {"NotADirectory", "AlreadyExists"}
    <2>1. PICK r : r = KernelMkdir(q)
      OBVIOUS
    <2>2. UNCHANGED <<tree, noise>> /\ st' = [st EXCEPT ![t].pc = "is_dir", ![t].res = r]
      BY <1>1, <1>11, <2>1 DEF Climb
    <2>3. PICK s2 : s2 = [s EXCEPT !.pc = "is_dir", !.res = r]
      OBVIOUS
    <2>4. /\ DOMAIN s2 = Fields /\ s2.need = s.need /\ s2.path = q /\ s2.pc = "is_dir" /\ s2.res = r
      BY <1>1, <1>3, <2>3 DEF Fields
    <2>5. st' = [st EXCEPT ![t] = s2]
      BY <1>1, <2>2, <2>3 DEF FsInv
    <2>6. DOMAIN st' = Tasks /\ st'[t] = s2 /\ \A u \in Tasks : u # t => st'[u] = st[u]
      BY <2>5 DEF FsInv
    <2>7. r = "AlreadyExists" => /\ q # <<>> /\ RealIn(tree, q) \in Paths
                                 /\ tree[RealIn(tree, q)] # None
      BY <1>2, <1>5, <2>1, MkdirFacts
    <2>8. ASSUME r = "NotADirectory"
          PROVE  BlockedIn(tree, p)
      <3>1. q # <<>> /\ KindIn(tree, Front(q)) \in {"file", "link"}
        BY <1>5, <2>1, <2>8, MkdirFacts
      <3>2. Front(q) # <<>>
        BY <1>7, <3>1 DEF Shape, None, Dir
      <3>3. Front(q) \in Prefixes(p)
        BY <1>4, <1>6, <3>1, AboveParts
      <3>4. RealIn(tree, Front(q)) \in Paths /\ tree[RealIn(tree, Front(q))] # None
        BY <1>6, <1>7, <3>1, KindThere
      <3> QED
        BY <3>1, <3>2, <3>3, <3>4 DEF BlockedIn
    <2>9. Climbed(s2, p)
      BY <1>3, <2>4 DEF Climbed
    <2>10. ClimbRight(s2, p, noise[t], tree, faults)
      BY <1>1, <1>3, <1>11, <2>1, <2>4, <2>7, <2>8 DEF ClimbRight
    <2>11. TaskInv(s2, c, noise[t], before'[t], tree', data', faults')
      BY <1>1, <1>2, <1>3, <2>2, <2>4, <2>9, <2>10 DEF TaskInv, DirInv
    <2> QED
      BY <1>1, <1>2, <2>2, <2>6, <2>11, QuietEffect, Keeps DEF FsInv
  <1> QED
    BY <1>5, <1>8, <1>9, <1>10, <1>11

(* mkdir that fails.                                                       *)
LEMMA MkdirFailsStep ==
  ASSUME FsInv, NEW t \in Tasks, MkdirFails(t)
  PROVE  FsInv'
  <1>1. PICK s, c, p : s = st[t] /\ c = call[t] /\ p = c.path
    OBVIOUS
  <1>2. /\ s.pc \in {"climb", "descend"} /\ UNCHANGED <<tree, data, call, noise, before>>
        /\ TaskInv(s, c, noise[t], before[t], tree, data, faults)
    BY <1>1 DEF FsInv, MkdirFails
  <1>3. faults' \in Nat /\ faults' >= faults /\ faults' > 0
    BY DEF FsInv, MkdirFails
  <1>4. DOMAIN s = Fields /\ c.name = "create_dir_all" /\ DirInv(s, c, noise[t], tree, faults)
    BY <1>2 DEF TaskInv
  <1>5. PICK s2 : s2 = [s EXCEPT !.pc = IF @ = "climb" THEN "is_dir" ELSE "done", !.res = "Failed"]
    OBVIOUS
  <1>6. /\ DOMAIN s2 = Fields /\ s2.need = s.need /\ s2.path = s.path /\ s2.res = "Failed"
        /\ s2.pc = IF s.pc = "climb" THEN "is_dir" ELSE "done"
    BY <1>4, <1>5 DEF Fields
  <1>7. st' = [st EXCEPT ![t] = s2]
    BY <1>1, <1>5 DEF FsInv, MkdirFails
  <1>8. DOMAIN st' = Tasks /\ st'[t] = s2 /\ \A u \in Tasks : u # t => st'[u] = st[u]
    BY <1>7 DEF FsInv
  <1>9. DirInv(s2, c, noise[t], tree, faults')
    <2>1. CASE s.pc = "climb"
      <3>1. Climbed(s, p) /\ ClimbRight(s, p, noise[t], tree, faults) /\ s2.pc = "is_dir"
        BY <1>1, <1>4, <1>6, <2>1 DEF DirInv
      <3>2. Climbed(s2, p)
        BY <1>6, <3>1 DEF Climbed
      <3>3. ClimbRight(s2, p, noise[t], tree, faults')
        BY <1>3, <1>6, <3>1 DEF ClimbRight
      <3> QED
        BY <1>1, <3>1, <3>2, <3>3 DEF DirInv
    <2>2. CASE s.pc = "descend"
      BY <1>3, <1>6, <2>2 DEF DirInv, DirDone
    <2> QED
      BY <1>2, <2>1, <2>2
  <1>10. TaskInv(s2, c, noise[t], before'[t], tree', data', faults')
    BY <1>2, <1>4, <1>6, <1>9 DEF TaskInv
  <1>11. Effect(t)
    BY <1>2, <1>3, <1>8, QuietEffect DEF FsInv
  <1> QED
    BY <1>1, <1>8, <1>10, <1>11, Keeps

(* The look after an error.                                                *)
LEMMA IsDirStep ==
  ASSUME FsInv, NEW t \in Tasks, is_dir(t)
  PROVE  FsInv'
  <1>1. PICK s, c, p, k : s = st[t] /\ c = call[t] /\ p = c.path /\ k = Len(s.need)
    OBVIOUS
  <1>2. /\ s.pc = "is_dir" /\ UNCHANGED <<tree, data, call, noise, before, faults>>
        /\ TaskInv(s, c, noise[t], before[t], tree, data, faults) /\ p \in Paths
    BY <1>1 DEF FsInv, CallOK, is_dir
  <1>3. /\ DOMAIN s = Fields /\ c.name = "create_dir_all" /\ Climbed(s, p)
        /\ ClimbRight(s, p, noise[t], tree, faults)
    BY <1>1, <1>2 DEF TaskInv, DirInv
  <1>4. k \in 0..Len(p) /\ p \in Seq(STRING) /\ s.path = Above(p, k)
    BY <1>1, <1>2, <1>3, NeedFacts DEF ClimbRight
  <1>5. CASE KindIn(tree, s.path) = "dir"
    <2>1. st' = [st EXCEPT ![t] = Descend(t, s.need)]
      BY <1>1, <1>5, TreeOps DEF is_dir
    <2>2. PICK s2 : s2 = st'[t]
      OBVIOUS
    <2>3. /\ DOMAIN st' = Tasks /\ \A u \in Tasks : u # t => st'[u] = st[u]
          /\ DOMAIN s2 = Fields /\ s2.need = s.need
          /\ s2.pc = (IF s2.need = <<>> THEN "done" ELSE "descend")
          /\ s2.need = <<>> => s2.res = "Ok"
      BY <2>1, <2>2, DescendFacts
    <2>4. Climbed(s2, p)
      BY <1>3, <2>3 DEF Climbed
    <2>5. KindIn(tree', Above(p, Len(s2.need))) = "dir"
      BY <1>1, <1>2, <1>4, <1>5, <2>3
    <2>6. ~(noise[t] = {} /\ s2.need # <<>>)
      BY <1>3, <1>5, <2>3 DEF ClimbRight
    <2>7. TaskInv(s2, c, noise[t], before'[t], tree', data', faults')
      BY <1>1, <1>2, <1>3, <2>3, <2>4, <2>5, <2>6, DescendsRight
    <2>8. Effect(t)
      BY <1>2, <2>3, QuietEffect DEF FsInv
    <2> QED
      BY <1>1, <2>2, <2>7, <2>8, Keeps
  <1>6. CASE KindIn(tree, s.path) # "dir"
    <2>1. st' = [st EXCEPT ![t].pc = "done"]
      BY <1>1, <1>6, TreeOps DEF is_dir
    <2>2. PICK s2 : s2 = [s EXCEPT !.pc = "done"]
      OBVIOUS
    <2>3. DOMAIN s2 = Fields /\ s2.pc = "done" /\ s2.res = s.res
      BY <1>3, <2>2 DEF Fields
    <2>4. st' = [st EXCEPT ![t] = s2]
      BY <1>1, <2>1, <2>2 DEF FsInv
    <2>5. DOMAIN st' = Tasks /\ st'[t] = s2 /\ \A u \in Tasks : u # t => st'[u] = st[u]
      BY <2>4 DEF FsInv
    <2>6. Above(p, k) \in Prefixes(p)
      BY <1>4, AboveParts
    <2>7. noise[t] = {} /\ s.res = "AlreadyExists" => BlockedIn(tree, p)
      BY <1>2, <1>3, <1>4, <1>6, <2>6 DEF ClimbRight, BlockedIn
    <2>8. DirDone(s2, p, noise[t], tree, faults)
      BY <1>2, <1>3, <2>3, <2>7 DEF ClimbRight, DirDone
    <2>9. TaskInv(s2, c, noise[t], before'[t], tree', data', faults')
      BY <1>1, <1>2, <1>3, <2>3, <2>8 DEF TaskInv, DirInv
    <2>10. Effect(t)
      BY <1>2, <2>5, QuietEffect DEF FsInv
    <2> QED
      BY <1>1, <2>5, <2>9, <2>10, Keeps
  <1> QED
    BY <1>5, <1>6

(* One more directory downwards.                                           *)
LEMMA DownStep ==
  ASSUME FsInv, NEW t \in Tasks, Down(t)
  PROVE  FsInv'
  <1>1. PICK s, c, p, k, q : s = st[t] /\ c = call[t] /\ p = c.path /\ k = Len(s.need)
                             /\ q = Last(s.need)
    OBVIOUS
  <1>2. /\ s.pc = "descend" /\ Within(q) /\ UNCHANGED <<data, call, before, faults>>
        /\ TaskInv(s, c, noise[t], before[t], tree, data, faults) /\ p \in Paths
    BY <1>1 DEF FsInv, CallOK, Down, NextMissing
  <1>3. /\ DOMAIN s = Fields /\ c.name = "create_dir_all" /\ Climbed(s, p)
        /\ DescendRight(s, p, noise[t], tree) /\ s.need # <<>>
    BY <1>1, <1>2 DEF TaskInv, DirInv, DescendRight
  <1>4. /\ k \in 1..Len(p) /\ Len(p) \in Nat /\ s.need \in Seq(Paths) /\ p \in Seq(STRING)
        /\ q = Above(p, k - 1) /\ q \in Paths /\ q # <<>> /\ Front(q) = Above(p, k)
    BY <1>1, <1>2, <1>3, NeedFacts
  <1>5. KernelMkdir(q) \in {"NotFound", "NotADirectory", "AlreadyExists", "Ok"}
    BY <1>4, MkdirFacts
  <1>6. CASE KernelMkdir(q) = "Ok"
    <2>0. PICK rest : rest = Front(s.need)
      OBVIOUS
    <2>1. /\ tree' = [tree EXCEPT ![Real(q)] = Dir] /\ Disturbs(t, {"add"})
          /\ st' = [st EXCEPT ![t] = Descend(t, rest)]
      BY <1>1, <1>6, <2>0 DEF Down, NextMissing
    <2>2. Dir \in Entries /\ Dir.kind # "file"
      BY DEF Entries, Dir
    <2>3. /\ IsTree(tree', data') /\ Grows(tree, tree') /\ KindIn(tree', q) = "dir"
          /\ EmptyAt(tree', q)
      BY <1>2, <1>4, <1>6, <2>1, <2>2, MkdirMakes
    <2>4. PICK s2 : s2 = st'[t]
      OBVIOUS
    <2>5. /\ DOMAIN st' = Tasks /\ \A u \in Tasks : u # t => st'[u] = st[u]
          /\ DOMAIN s2 = Fields /\ s2.need = rest
          /\ s2.pc = (IF s2.need = <<>> THEN "done" ELSE "descend")
          /\ s2.need = <<>> => s2.res = "Ok"
      BY <2>1, <2>4, DescendFacts
    <2>6. /\ rest \in Seq(Paths) /\ Len(rest) = k - 1 /\ \A j \in 1..(k - 1) : rest[j] = s.need[j]
      <3>1. PICK need \in Seq(Paths) : need = s.need /\ k = Len(need) /\ rest = SubSeq(need, 1, k - 1)
        BY <1>1, <1>4, <2>0 DEF Front
      <3>2. k \in Nat /\ k >= 1
        BY <1>4
      <3> QED
        BY <3>1, <3>2
    <2>7. Climbed(s2, p)
      <3>1. \A j \in 1..(k - 1) : rest[j] = Above(p, j - 1)
        BY <1>1, <1>3, <1>4, <2>6 DEF Climbed
      <3> QED
        BY <1>3, <1>4, <2>5, <2>6, <3>1 DEF Climbed
    <2>8. KindIn(tree', Above(p, Len(s2.need))) = "dir"
      BY <1>4, <2>3, <2>5, <2>6
    <2>9. s2.need # <<>> => /\ Last(s2.need) \in Paths /\ Last(s2.need) # <<>>
                            /\ Front(Last(s2.need)) = q
      BY <1>2, <1>4, <2>5, <2>6, <2>7, NeedFacts
    <2>10. s2.need # <<>> /\ RealIn(tree', Last(s2.need)) \in Paths
            => tree'[RealIn(tree', Last(s2.need))] = None
      BY <2>3, <2>9 DEF EmptyAt
    <2>11. TaskInv(s2, c, noise[t], before'[t], tree', data', faults')
      BY <1>1, <1>2, <1>3, <2>5, <2>7, <2>8, <2>10, DescendsRight
    <2>12. Effect(t)
      BY <1>2, <2>1, <2>3, <2>5, TreeEffect DEF FsInv
    <2> QED
      BY <1>1, <2>4, <2>11, <2>12, Keeps
  <1>7. CASE KernelMkdir(q) # "Ok"
    <2>1. PICK r : r = KernelMkdir(q)
      OBVIOUS
    <2>2. Ends(t, r) /\ UNCHANGED <<tree, noise>>
      BY <1>1, <1>7, <2>1 DEF Down, NextMissing
    <2>3. /\ DOMAIN st' = Tasks /\ \A u \in Tasks : u # t => st'[u] = st[u]
          /\ DOMAIN st'[t] = Fields /\ st'[t].pc = "done" /\ st'[t].res = r
      BY <2>2, EndFacts
    <2>4. "cut" \notin noise[t] => KindIn(tree, Front(q)) = "dir"
      BY <1>1, <1>3, <1>4 DEF DescendRight
    <2>5. r \in {"NotFound", "NotADirectory"} => "cut" \in noise[t]
      BY <1>4, <2>1, <2>4, MkdirFacts
    <2>6. r = "AlreadyExists" => noise[t] # {}
      BY <1>1, <1>2, <1>3, <1>4, <2>1, MkdirFacts DEF DescendRight
    <2>7. DirDone(st'[t], p, noise[t], tree', faults')
      BY <1>5, <1>7, <2>1, <2>3, <2>5, <2>6 DEF DirDone
    <2>8. TaskInv(st'[t], c, noise[t], before'[t], tree', data', faults')
      BY <1>1, <1>3, <2>3, <2>7 DEF TaskInv, DirInv
    <2> QED
      BY <1>1, <1>2, <2>2, <2>3, <2>8, QuietEffect, Keeps DEF FsInv
  <1> QED
    BY <1>6, <1>7

-----------------------------------------------------------------------------
(* The flags that the options stand for.                                   *)
LEMMA FlagFacts ==
  ASSUME NEW o
  PROVE  /\ "EXCL" \in flags(o) <=> "create_new" \in o
         /\ "TRUNC" \in flags(o) <=> "truncate" \in o /\ "create_new" \notin o
         /\ "CREAT" \in flags(o) <=> o \cap {"create", "create_new"} # {}
  <1>1. access_mode(o) \subseteq {"RDWR", "WRONLY", "RDONLY", "APPEND"}
    BY DEF access_mode
  <1>2. /\ "EXCL" \in creation_mode(o) <=> "create_new" \in o
        /\ "TRUNC" \in creation_mode(o) <=> "truncate" \in o /\ "create_new" \notin o
        /\ "CREAT" \in creation_mode(o) <=> "create" \in o \/ "create_new" \in o
    BY DEF creation_mode
  <1>3. "EXCL" \notin access_mode(o) /\ "TRUNC" \notin access_mode(o) /\ "CREAT" \notin access_mode(o)
    BY <1>1
  <1> QED
    BY <1>2, <1>3 DEF flags

(* open, by its answers.                                                   *)
LEMMA OpenFacts ==
  ASSUME FsInv, NEW p \in Paths, NEW o, NEW r, r = KernelOpen(p, flags(o))
  PROVE  /\ r = "Ok" => "create_new" \notin o /\ KindIn(tree, p) = "file"
         /\ r = "Created" => /\ TargetIn(tree, p) \in Paths /\ tree[TargetIn(tree, p)] = None
                             /\ tree[Front(TargetIn(tree, p))] = Dir
                             /\ FreeInodes # {} /\ o \cap {"create", "create_new"} # {}
  <1>1. PICK f, entry, target, exists :
             /\ f = flags(o) /\ target = TargetIn(tree, p)
             /\ entry = (IF "EXCL" \in f THEN RealIn(tree, p) ELSE TargetIn(tree, p))
             /\ exists = (entry \in Paths /\ tree[entry].kind # "none")
    OBVIOUS
  <1>2. r = CASE ~exists /\ "CREAT" \notin f -> "NotFound"
              [] ~exists /\ (entry \notin Paths \/ tree[Front(entry)] # Dir) -> "NotFound"
              [] exists /\ "EXCL" \in f -> "AlreadyExists"
              [] exists /\ "EXCL" \notin f /\ tree[entry].kind # "file" -> "IsADirectory"
              [] OTHER -> IF exists THEN "Ok" ELSE IF FreeInodes # {} THEN "Created" ELSE "Failed"
    BY <1>1, TreeOps DEF KernelOpen
  <1>3. r = "Ok" => exists /\ "EXCL" \notin f /\ tree[entry].kind = "file"
    BY <1>1, <1>2
  <1>4. r = "Created" => /\ ~exists /\ "CREAT" \in f /\ entry \in Paths /\ tree[Front(entry)] = Dir
                         /\ FreeInodes # {}
    BY <1>1, <1>2
  <1>5. r = "Ok" => "create_new" \notin o /\ KindIn(tree, p) = "file"
    BY <1>1, <1>3, FlagFacts DEF KindIn
  <1>6. ASSUME r = "Created"
        PROVE  entry = target /\ tree[entry] = None
    <2>1. tree[entry].kind = "none" /\ entry \in Paths
      BY <1>1, <1>4, <1>6
    <2>2. tree[entry] = None
      BY <2>1, EntryKinds DEF FsInv, IsTree
    <2> QED
      BY <1>1, <2>1, <2>2 DEF TargetIn, FollowIn
  <1> QED
    BY <1>1, <1>4, <1>5, <1>6, FlagFacts

(* Nothing written yet.                                                    *)
LEMMA WrittenNothing ==
  ASSUME NEW o, NEW b \in Seq(Nat) \cup {Missing}
  PROVE  Written(o, b, <<>>) =
           IF b = Missing \/ ("truncate" \in o /\ "create_new" \notin o) THEN <<>> ELSE b
  <1>1. PICK kept : kept = IF b = Missing \/ ("truncate" \in o /\ "create_new" \notin o) THEN <<>> ELSE b
    OBVIOUS
  <1>2. kept \in Seq(Nat)
    BY <1>1
  <1>3. kept \o <<>> = kept
    BY <1>2
  <1>4. <<>> \o SubSeq(kept, 1, Len(kept)) = kept
    BY <1>2
  <1>5. Written(o, b, <<>>) =
          IF "append" \in o THEN kept \o <<>> ELSE <<>> \o SubSeq(kept, Len(<<>>) + 1, Len(kept))
    BY <1>1 DEF Written
  <1>6. Len(<<>>) + 1 = 1
    OBVIOUS
  <1> QED
    BY <1>1, <1>3, <1>4, <1>5, <1>6

(* What is at a path is what is in a file, or nothing.                     *)
LEMMA ContentsFacts ==
  ASSUME FsInv, NEW p \in Paths
  PROVE  /\ Contents(p) = ContentsIn(tree, data, p) /\ Contents(p) \in Seq(Nat) \cup {Missing}
         /\ KindIn(tree, p) = "file" => /\ TargetIn(tree, p) \in Paths
                                        /\ tree[TargetIn(tree, p)].ino \in Inodes
                                        /\ Contents(p) = data[tree[TargetIn(tree, p)].ino]
                                        /\ Contents(p) # Missing
         /\ KindIn(tree, p) # "file" => Contents(p) = Missing
  <1>1. Contents(p) = ContentsIn(tree, data, p)
    BY TreeOps DEF Contents, ContentsIn
  <1>2. ASSUME KindIn(tree, p) = "file"
        PROVE  /\ TargetIn(tree, p) \in Paths /\ tree[TargetIn(tree, p)].ino \in Inodes
               /\ data[tree[TargetIn(tree, p)].ino] # Missing
               /\ data[tree[TargetIn(tree, p)].ino] \in Seq(Nat) \cup {Missing}
    <2>1. TargetIn(tree, p) \in Paths /\ tree[TargetIn(tree, p)].kind = "file"
      BY <1>2 DEF KindIn
    <2>2. tree[TargetIn(tree, p)].ino \in Inodes
      BY <2>1, EntryKinds DEF FsInv, IsTree
    <2> QED
      BY <2>1, <2>2 DEF FsInv, IsTree
  <1> QED
    BY <1>1, <1>2 DEF ContentsIn

(* A file that was opened, to be read or written from its start.           *)
LEMMA Opened ==
  ASSUME NEW c, c.name \in {"read", "write"}, CallOK(c), NEW no, NEW b \in Seq(Nat) \cup {Missing},
         NEW s2, DOMAIN s2 = Fields, s2.pc = (IF c.name = "read" THEN "size" ELSE "write"),
         s2.ino \in Inodes, s2.n = 0, s2.buf = <<>>, s2.len = Default, NEW tr, NEW d, NEW f,
         OpenRight(c.options, b), d[s2.ino] = Written(c.options, b, <<>>)
  PROVE  TaskInv(s2, c, no, b, tr, d, f)
  <1>1. d[s2.ino] \in Seq(Nat) /\ d[s2.ino] # Missing
    BY WrittenNothing, FsAssumption
  <1>2. IoRight(s2, c, b, d)
    <2>1. c.name = "write" => SubSeq(c.contents, 1, 0) = <<>>
      BY DEF CallOK
    <2> QED
      BY <2>1 DEF IoRight
  <1>3. FileInv(s2, c, no, b, tr, d)
    BY <1>1, <1>2, FsAssumption DEF FileInv
  <1> QED
    BY <1>3 DEF TaskInv

(* open.                                                                   *)
LEMMA OpenStep ==
  ASSUME FsInv, NEW t \in Tasks, open(t)
  PROVE  FsInv'
  <1>1. PICK s, c, p, o, b, r, ino :
             /\ s = st[t] /\ c = call[t] /\ p = c.path /\ o = c.options /\ b = Contents(p)
             /\ p = call[t].path /\ r = OpenAnswer(t) /\ ino = OpenedInode(t)
    OBVIOUS
  <1>0. /\ st[t].pc = "start" /\ call[t].name \in {"read", "write"}
        /\ before' = [before EXCEPT ![t] = Contents(p)]
        /\ UNCHANGED <<call, faults>>
        /\ r \notin {"Ok", "Created"} => Ends(t, r) /\ UNCHANGED <<tree, data, noise>>
        /\ r \in {"Ok", "Created"} =>
             st' = [st EXCEPT ![t].pc = NextIo(t), ![t].ino = ino, ![t].len = Default]
        /\ r = "Ok" => /\ tree' = tree
                       /\ data' = [data EXCEPT ![ino] = IF Truncates(t) THEN <<>> ELSE @]
                       /\ Disturbs(t, IF Truncates(t) THEN {"data"} ELSE {})
        /\ r = "Created" =>
             /\ tree' = [tree EXCEPT ![Target(p)] = [kind |-> "file", ino |-> ino]]
             /\ data' = [data EXCEPT ![ino] = <<>>]
             /\ \E what : what # {} /\ "cut" \notin what /\ Disturbs(t, what)
    <2>1. /\ st[t].pc = "start" /\ call[t].name \in {"read", "write"}
          /\ before' = [before EXCEPT ![t] = Contents(p)]
          /\ UNCHANGED <<call, faults>>
      BY <1>1, Zenon DEF open
    <2>2. r \notin {"Ok", "Created"} => Ends(t, r) /\ UNCHANGED <<tree, data, noise>>
      BY <1>1, Zenon DEF open
    <2>3. r \in {"Ok", "Created"} =>
             /\ st' = [st EXCEPT ![t].pc = NextIo(t), ![t].ino = ino, ![t].len = Default]
             /\ tree' = IF r = "Created"
                        THEN [tree EXCEPT ![Target(p)] = [kind |-> "file", ino |-> ino]]
                        ELSE tree
             /\ data' = [data EXCEPT ![ino] = IF r = "Created" \/ Truncates(t) THEN <<>> ELSE @]
             /\ Disturbs(t, (IF r = "Created" THEN {"add"} ELSE {})
                            \cup (IF Truncates(t) THEN {"data"} ELSE {}))
      BY <1>1, Zenon DEF open
    <2>4. ASSUME r = "Ok"
          PROVE  /\ tree' = tree
                 /\ data' = [data EXCEPT ![ino] = IF Truncates(t) THEN <<>> ELSE @]
                 /\ Disturbs(t, IF Truncates(t) THEN {"data"} ELSE {})
      <3>1. /\ r \in {"Ok", "Created"} /\ (r = "Created") = FALSE
            /\ (IF r = "Created" THEN {"add"} ELSE {}) \cup (IF Truncates(t) THEN {"data"} ELSE {})
                 = IF Truncates(t) THEN {"data"} ELSE {}
        BY <2>4
      <3>2. tree' = tree
        BY <2>3, <3>1, Zenon
      <3>3. data' = [data EXCEPT ![ino] = IF Truncates(t) THEN <<>> ELSE @]
        BY <2>3, <3>1, Zenon
      <3>4. Disturbs(t, IF Truncates(t) THEN {"data"} ELSE {})
        BY <2>3, <3>1, Zenon
      <3> QED
        BY <3>2, <3>3, <3>4
    <2>5. ASSUME r = "Created"
          PROVE  /\ tree' = [tree EXCEPT ![Target(p)] = [kind |-> "file", ino |-> ino]]
                 /\ data' = [data EXCEPT ![ino] = <<>>]
                 /\ \E what : what # {} /\ "cut" \notin what /\ Disturbs(t, what)
      <3>1. PICK what : what = (IF r = "Created" THEN {"add"} ELSE {})
                               \cup (IF Truncates(t) THEN {"data"} ELSE {})
        OBVIOUS
      <3>2. what # {} /\ "cut" \notin what
        BY <2>5, <3>1
      <3>3. r \in {"Ok", "Created"}
        BY <2>5
      <3>4. Disturbs(t, what)
        BY <2>3, <3>1, <3>3, Zenon
      <3>5. tree' = [tree EXCEPT ![Target(p)] = [kind |-> "file", ino |-> ino]]
        BY <2>3, <2>5, <3>3, Zenon
      <3>6. data' = [data EXCEPT ![ino] = <<>>]
        BY <2>3, <2>5, <3>3, Zenon
      <3> QED
        BY <3>2, <3>4, <3>5, <3>6
    <2> QED
      BY <2>1, <2>2, <2>3, <2>4, <2>5
  <1>2. /\ Target(p) = TargetIn(tree, p) /\ (Truncates(t) <=> "TRUNC" \in flags(o))
        /\ ino = IF r = "Created" THEN NewInode ELSE tree[TargetIn(tree, p)].ino
    BY <1>1, TreeOps DEF Truncates, OptionsOf, OpenedInode
  <1>3. r \in {"Ok", "Created"} => r = KernelOpen(p, flags(o))
    BY <1>1 DEF OpenAnswer, OptionsOf
  <1>4. /\ s.pc = "start" /\ c.name \in {"read", "write"} /\ UNCHANGED <<call, faults>>
        /\ TaskInv(s, c, noise[t], before[t], tree, data, faults) /\ p \in Paths /\ CallOK(c)
    BY <1>0, <1>1 DEF FsInv, CallOK
  <1>5. before' = [before EXCEPT ![t] = b]
    BY <1>0, <1>1
  <1>6. before'[t] = b /\ DOMAIN before' = Tasks /\ \A u \in Tasks : u # t => before'[u] = before[u]
    BY <1>5 DEF FsInv
  <1>7. DOMAIN s = Fields /\ s.n = 0 /\ s.buf = <<>> /\ s.ino = Missing
    BY <1>4 DEF TaskInv, FileInv
  <1>8. /\ b = ContentsIn(tree, data, p) /\ b \in Seq(Nat) \cup {Missing}
        /\ KindIn(tree, p) = "file" => /\ TargetIn(tree, p) \in Paths
                                       /\ tree[TargetIn(tree, p)].ino \in Inodes
                                       /\ b = data[tree[TargetIn(tree, p)].ino]
                                       /\ b # Missing
        /\ KindIn(tree, p) # "file" => b = Missing
    BY <1>1, <1>4, ContentsFacts
  <1>9. /\ r = "Ok" => "create_new" \notin o /\ KindIn(tree, p) = "file"
        /\ r = "Created" => /\ TargetIn(tree, p) \in Paths /\ tree[TargetIn(tree, p)] = None
                            /\ tree[Front(TargetIn(tree, p))] = Dir
                            /\ FreeInodes # {} /\ o \cap {"create", "create_new"} # {}
    BY <1>3, <1>4, OpenFacts
  <1>10. CASE r \notin {"Ok", "Created"}
    <2>1. Ends(t, r) /\ UNCHANGED <<tree, data, noise>>
      BY <1>0, <1>1, <1>10
    <2>2. PICK s2 : s2 = st'[t]
      OBVIOUS
    <2>3. /\ DOMAIN st' = Tasks /\ \A u \in Tasks : u # t => st'[u] = st[u]
          /\ DOMAIN s2 = Fields /\ s2.pc = "done" /\ s2.res = r /\ s2.ino = Missing
      BY <1>1, <1>7, <2>1, <2>2, EndFacts DEF Fields
    <2>4. FileDone(s2, c, b, tree, data)
      BY <1>1, <1>8, <1>10, <2>3 DEF FileDone
    <2>5. TaskInv(s2, c, noise[t], b, tree', data', faults')
      BY <1>4, <1>8, <2>1, <2>3, <2>4 DEF TaskInv, FileInv
    <2>6. Effect(t)
      BY <1>4, <1>6, <2>1, <2>3, QuietEffect DEF FsInv
    <2> QED
      BY <1>1, <1>6, <2>2, <2>5, <2>6, Keeps
  <1>11. PICK s2 : s2 = [s EXCEPT !.pc = NextIo(t), !.ino = ino, !.len = Default]
    OBVIOUS
  <1>12. /\ DOMAIN s2 = Fields /\ s2.pc = (IF c.name = "read" THEN "size" ELSE "write")
         /\ s2.ino = ino /\ s2.n = 0 /\ s2.buf = <<>> /\ s2.len = Default
    BY <1>1, <1>7, <1>11 DEF Fields, NextIo
  <1>13. ASSUME r \in {"Ok", "Created"}
         PROVE  DOMAIN st' = Tasks /\ st'[t] = s2 /\ \A u \in Tasks : u # t => st'[u] = st[u]
    <2>1. st' = [st EXCEPT ![t].pc = NextIo(t), ![t].ino = ino, ![t].len = Default]
      BY <1>0, <1>1, <1>13
    <2>2. st' = [st EXCEPT ![t] = s2]
      BY <1>1, <1>11, <2>1 DEF FsInv
    <2> QED
      BY <2>2 DEF FsInv
  <1>14. "TRUNC" \in flags(o) <=> "truncate" \in o /\ "create_new" \notin o
    BY FlagFacts
  <1>15. CASE r = "Ok"
    <2>1. ino = tree[TargetIn(tree, p)].ino /\ ino \in Inodes /\ b = data[ino] /\ b # Missing
      BY <1>2, <1>8, <1>9, <1>15
    <2>2. tree' = tree
      BY <1>0, <1>1, <1>15
    <2>3. data' = [data EXCEPT ![ino] = IF Truncates(t) THEN <<>> ELSE @]
      BY <1>0, <1>1, <1>15
    <2>4. data'[ino] = Written(o, b, <<>>)
      <3>1. data'[ino] = IF "TRUNC" \in flags(o) THEN <<>> ELSE b
        BY <1>2, <2>1, <2>3 DEF FsInv, IsTree
      <3> QED
        BY <1>8, <1>14, <2>1, <3>1, WrittenNothing
    <2>5. OpenRight(o, b)
      BY <1>9, <1>15, <2>1 DEF OpenRight
    <2>6. TaskInv(s2, c, noise[t], b, tree', data', faults')
      BY <1>1, <1>4, <1>8, <1>12, <2>1, <2>4, <2>5, Opened
    <2>7. CASE "TRUNC" \in flags(o)
      <3>1. Disturbs(t, {"data"})
        <4>1. Disturbs(t, IF Truncates(t) THEN {"data"} ELSE {})
          BY <1>0, <1>1, <1>15
        <4>2. (IF Truncates(t) THEN {"data"} ELSE {}) = {"data"}
          BY <1>2, <2>7
        <4> QED
          BY <4>1, <4>2
      <3>2. data' = [data EXCEPT ![ino] = <<>>] /\ <<>> \in Seq(Nat) /\ <<>> # Missing
        <4>1. Truncates(t)
          BY <1>2, <2>7
        <4>2. data' = [data EXCEPT ![ino] = <<>>]
          BY <2>3, <4>1, Zenon
        <4> QED
          BY <4>2, FsAssumption
      <3>3. /\ data' \in [Inodes -> Seq(Nat) \cup {Missing}]
            /\ \A i \in Inodes : data[i] # Missing => data'[i] # Missing
        BY <3>2 DEF FsInv, IsTree
      <3>4. IsTree(tree', data')
        <4>1. \A q \in Paths : tree[q].kind = "file" => tree[q].ino \in Inodes
          BY EntryKinds DEF FsInv, IsTree
        <4> QED
          BY <2>2, <3>3, <4>1 DEF FsInv, IsTree
      <3>5. Grows(tree, tree')
        BY <2>2 DEF Grows
      <3>6. Effect(t)
        BY <1>4, <1>6, <1>13, <1>15, <3>1, <3>3, <3>4, <3>5, TreeEffect
      <3> QED
        BY <1>1, <1>6, <1>13, <1>15, <2>6, <3>6, Keeps
    <2>8. CASE "TRUNC" \notin flags(o)
      <3>1. Disturbs(t, {})
        <4>1. Disturbs(t, IF Truncates(t) THEN {"data"} ELSE {})
          BY <1>0, <1>1, <1>15
        <4>2. (IF Truncates(t) THEN {"data"} ELSE {}) = {}
          BY <1>2, <2>8
        <4> QED
          BY <4>1, <4>2
      <3>2. data' = data
        BY <1>2, <2>3, <2>8 DEF FsInv, IsTree
      <3>3. Effect(t)
        BY <1>4, <1>6, <1>13, <1>15, <2>2, <3>1, <3>2, StillEffect
      <3> QED
        BY <1>1, <1>6, <1>13, <1>15, <2>6, <3>3, Keeps
    <2> QED
      BY <2>7, <2>8
  <1>16. CASE r = "Created"
    <2>1. ino \in Inodes /\ data[ino] = Missing
      BY <1>2, <1>9, <1>16 DEF FreeInodes, NewInode
    <2>2. PICK e, v : e = TargetIn(tree, p) /\ v = [kind |-> "file", ino |-> ino]
      OBVIOUS
    <2>3. tree' = [tree EXCEPT ![e] = v]
      BY <1>0, <1>1, <1>2, <1>16, <2>2
    <2>4. data' = [data EXCEPT ![ino] = <<>>]
      BY <1>0, <1>1, <1>16
    <2>5. /\ data' \in [Inodes -> Seq(Nat) \cup {Missing}] /\ data'[ino] = <<>> /\ <<>> # Missing
          /\ \A i \in Inodes : data[i] # Missing => data'[i] = data[i]
      BY <2>1, <2>4, FsAssumption DEF FsInv, IsTree
    <2>6. /\ e \in Paths /\ tree[e] = None /\ tree[Front(e)] = Dir
          /\ v \in Entries /\ Shape(tree) /\ o \cap {"create", "create_new"} # {}
      BY <1>9, <1>16, <2>1, <2>2, TreeShape DEF FsInv, Entries
    <2>7. Shape(tree') /\ Grows(tree, tree')
      <3>1. PICK tr, tr2 : tr = tree /\ tr2 = tree'
        OBVIOUS
      <3>2. Shape(tr2) /\ Grows(tr, tr2)
        BY <2>3, <2>6, <3>1, Added
      <3> QED
        BY <3>1, <3>2
    <2>8. b = Missing
      BY <1>8, <2>2, <2>6 DEF KindIn, None
    <2>9. OpenRight(o, b)
      BY <2>6, <2>8 DEF OpenRight
    <2>10. data'[ino] = Written(o, b, <<>>)
      BY <1>8, <2>5, <2>8, WrittenNothing
    <2>11. TaskInv(s2, c, noise[t], b, tree', data', faults')
      BY <1>1, <1>4, <1>8, <1>12, <2>1, <2>9, <2>10, Opened
    <2>12. IsTree(tree', data')
      <3>1. ASSUME NEW q \in Paths, tree'[q].kind = "file"
            PROVE  data'[tree'[q].ino] # Missing
        <4>1. CASE q = e
          BY <2>2, <2>3, <2>5, <2>6, <4>1 DEF Shape
        <4>2. CASE q # e
          <5>1. tree'[q] = tree[q]
            BY <2>3, <2>6, <4>2 DEF Shape
          <5>2. tree[q].ino \in Inodes /\ data[tree[q].ino] # Missing
            BY <3>1, <5>1, EntryKinds DEF FsInv, IsTree
          <5> QED
            BY <2>5, <5>1, <5>2
        <4> QED
          BY <4>1, <4>2
      <3> QED
        BY <2>5, <2>7, <3>1 DEF IsTree, Shape
    <2>13. PICK what : what # {} /\ "cut" \notin what /\ Disturbs(t, what)
      BY <1>0, <1>1, <1>16
    <2>14. Effect(t)
      BY <1>4, <1>6, <1>13, <1>16, <2>5, <2>7, <2>12, <2>13, TreeEffect
    <2> QED
      BY <1>1, <1>6, <1>13, <1>16, <2>11, <2>14, Keeps
  <1> QED
    BY <1>10, <1>15, <1>16

(* The end of a read or a write that failed.                               *)
LEMMA FileFails ==
  ASSUME FsInv, NEW t \in Tasks, st[t].pc \in {"read", "write"},
         NEW r, r \in {"Failed", "WriteZero"}, Ends(t, r),
         UNCHANGED <<tree, data, call, noise, before>>, faults' \in Nat, faults' >= faults
  PROVE  FsInv'
  <1>1. PICK s, s2, c, b : s = st[t] /\ s2 = st'[t] /\ c = call[t] /\ b = before[t]
    OBVIOUS
  <1>2. /\ DOMAIN st' = Tasks /\ \A u \in Tasks : u # t => st'[u] = st[u]
        /\ DOMAIN s2 = Fields /\ s2.pc = "done" /\ s2.res = r /\ s2.ino = s.ino
    BY <1>1, EndFacts DEF Fields
  <1>3. c.name \in {"read", "write"} /\ FileInv(s, c, noise[t], b, tree, data)
    BY <1>1 DEF FsInv, TaskInv
  <1>4. s.ino \in Inodes /\ b \in Seq(Nat) \cup {Missing} /\ (noise[t] = {} => OpenRight(c.options, b))
    BY <1>1, <1>3 DEF FileInv, IoRight
  <1>5. noise[t] = {} => FileDone(s2, c, b, tree, data)
    BY <1>2, <1>4, FsAssumption DEF FileDone
  <1>6. TaskInv(s2, c, noise[t], b, tree', data', faults')
    BY <1>2, <1>3, <1>4, <1>5 DEF TaskInv, FileInv
  <1>7. Effect(t)
    BY <1>2, QuietEffect DEF FsInv
  <1> QED
    BY <1>1, <1>6, <1>7, Keeps

(* A file that was not opened to be written.                               *)
LEMMA NotWritableStep ==
  ASSUME FsInv, NEW t \in Tasks, NotWritable(t)
  PROVE  FsInv'
  <1>1. /\ st[t].pc \in {"read", "write"} /\ Ends(t, "Failed")
        /\ UNCHANGED <<tree, data, call, noise, before>> /\ faults' = faults /\ faults \in Nat
    BY DEF NotWritable, FsInv
  <1> QED
    BY <1>1, FileFails

(* A read or write that is interrupted or fails.                           *)
LEMMA IoFailsStep ==
  ASSUME FsInv, NEW t \in Tasks, IoFails(t)
  PROVE  FsInv'
  <1>1. /\ st[t].pc \in {"read", "write"} /\ UNCHANGED <<tree, data, call, noise, before>>
        /\ faults' \in Nat /\ faults' >= faults
        /\ st' = st \/ Ends(t, "WriteZero") \/ Ends(t, "Failed")
    BY DEF IoFails, FsInv
  <1>2. CASE st' = st
    <2>1. PICK s, c : s = st[t] /\ c = call[t]
      OBVIOUS
    <2>2. TaskInv(s, c, noise[t], before[t], tree, data, faults) /\ c.name \in {"read", "write"}
      BY <1>1, <2>1 DEF FsInv, TaskInv
    <2>3. TaskInv(s, c, noise[t], before[t], tree, data, faults')
      BY <2>2 DEF TaskInv
    <2>4. Effect(t)
      BY <1>1, <1>2, QuietEffect DEF FsInv
    <2> QED
      BY <1>1, <1>2, <2>1, <2>3, <2>4, Keeps
  <1>3. CASE Ends(t, "WriteZero")
    BY <1>1, <1>3, FileFails
  <1>4. CASE Ends(t, "Failed")
    BY <1>1, <1>4, FileFails
  <1> QED
    BY <1>1, <1>2, <1>3, <1>4

(* The length is taken from the open file.                                 *)
LEMMA SizeStep ==
  ASSUME FsInv, NEW t \in Tasks, size(t)
  PROVE  FsInv'
  <1>1. PICK s, c, b, n : /\ s = st[t] /\ c = call[t] /\ b = before[t] /\ n = Len(data[s.ino])
    OBVIOUS
  <1>2. /\ s.pc = "size" /\ UNCHANGED <<tree, data, call, noise, before, faults>>
        /\ TaskInv(s, c, noise[t], b, tree, data, faults)
    BY <1>1 DEF FsInv, size
  <1>3. DOMAIN s = Fields /\ FileInv(s, c, noise[t], b, tree, data) /\ c.name = "read"
    BY <1>2 DEF TaskInv, FileInv
  <1>4. /\ s.ino \in Inodes /\ data[s.ino] # Missing /\ s.n = 0 /\ s.buf = <<>>
        /\ b \in Seq(Nat) \cup {Missing} /\ (noise[t] = {} => OpenRight(c.options, b))
    BY <1>2, <1>3 DEF FileInv, IoRight
  <1>5. PICK v \in Seq(Nat) : v = data[s.ino]
    BY <1>4 DEF FsInv, IsTree
  <1>6. n \in Nat /\ n = Len(v)
    BY <1>1, <1>5
  <1>7. PICK s2 : s2 = [s EXCEPT !.len = n, !.pc = IF n = 0 THEN "done" ELSE "read",
                                 !.res = IF n = 0 THEN "Ok" ELSE @]
    OBVIOUS
  <1>8. /\ DOMAIN s2 = Fields /\ s2.len = n /\ s2.pc = (IF n = 0 THEN "done" ELSE "read")
        /\ n = 0 => s2.res = "Ok"
        /\ s2.ino = s.ino /\ s2.n = 0 /\ s2.buf = <<>>
    BY <1>3, <1>4, <1>7 DEF Fields
  <1>9. st' = [st EXCEPT ![t] = s2]
    <2>1. st' = [st EXCEPT ![t].len = n, ![t].pc = IF n = 0 THEN "done" ELSE "read",
                           ![t].res = IF n = 0 THEN "Ok" ELSE @]
      BY <1>1 DEF size, FdStatx
    <2> QED
      BY <1>1, <1>7, <2>1 DEF FsInv
  <1>10. DOMAIN st' = Tasks /\ st'[t] = s2 /\ \A u \in Tasks : u # t => st'[u] = st[u]
    BY <1>9 DEF FsInv
  <1>11. FileInv(s2, c, noise[t], b, tree, data)
    <2>1. CASE n = 0
      <3>1. v = <<>>
        BY <1>5, <1>6, <2>1, EmptySeq
      <3>2. noise[t] = {} => FileDone(s2, c, b, tree, data)
        BY <1>3, <1>4, <1>5, <1>8, <2>1, <3>1, FsAssumption DEF FileDone
      <3> QED
        BY <1>3, <1>4, <1>8, <2>1, <3>2 DEF FileInv
    <2>2. CASE n # 0
      <3>1. SubSeq(v, 1, 0) = <<>>
        BY <1>5
      <3>2. noise[t] = {} => IoRight(s2, c, b, data)
        BY <1>4, <1>5, <1>6, <1>8, <2>2, <3>1 DEF IoRight
      <3> QED
        BY <1>3, <1>4, <1>6, <1>8, <2>2, <3>2 DEF FileInv
    <2> QED
      BY <2>1, <2>2
  <1>12. TaskInv(s2, c, noise[t], b, tree', data', faults')
    BY <1>2, <1>3, <1>8, <1>11 DEF TaskInv
  <1>13. Effect(t)
    BY <1>2, <1>10, QuietEffect DEF FsInv
  <1> QED
    BY <1>1, <1>2, <1>10, <1>12, <1>13, Keeps

(* A read or a write goes on where the last one ended.                     *)
LEMMA GoesOn ==
  ASSUME NEW v \in Seq(Nat), NEW n \in Nat, NEW k \in Nat, n + k <= Len(v)
  PROVE  /\ SubSeq(v, 1, n) \in Seq(Nat) /\ Len(SubSeq(v, 1, n)) = n
         /\ \A i \in 1..n : SubSeq(v, 1, n)[i] = v[i]
         /\ SubSeq(v, n + 1, n + k) \in Seq(Nat) /\ Len(SubSeq(v, n + 1, n + k)) = k
         /\ \A i \in 1..k : SubSeq(v, n + 1, n + k)[i] = v[n + i]
         /\ SubSeq(v, 1, n) \o SubSeq(v, n + 1, n + k) = SubSeq(v, 1, n + k)
  <1>1. PICK m \in Nat : m = Len(v)
    OBVIOUS
  <1>2. \A i \in 1..m : v[i] \in Nat
    BY <1>1
  <1>3. /\ SubSeq(v, 1, n) \in Seq(Nat) /\ Len(SubSeq(v, 1, n)) = n
        /\ \A i \in 1..n : SubSeq(v, 1, n)[i] = v[i]
    BY <1>1
  <1>4. /\ SubSeq(v, n + 1, n + k) \in Seq(Nat) /\ Len(SubSeq(v, n + 1, n + k)) = k
        /\ \A i \in 1..k : SubSeq(v, n + 1, n + k)[i] = v[n + i]
    <2>1. PICK lo \in Int, hi \in Int : lo = n + 1 /\ hi = n + k
      OBVIOUS
    <2>2. \A i \in lo..hi : v[i] \in Nat
      BY <1>1, <1>2, <2>1
    <2>3. /\ SubSeq(v, lo, hi) \in Seq(Nat)
          /\ Len(SubSeq(v, lo, hi)) = IF lo <= hi THEN hi - lo + 1 ELSE 0
          /\ \A i \in 1..(hi - lo + 1) : SubSeq(v, lo, hi)[i] = v[lo + i - 1]
      BY <2>2, SubSeqProperties
    <2>4. /\ hi - lo + 1 = k /\ (lo <= hi <=> k # 0)
          /\ \A i \in 1..k : lo + i - 1 = n + i
      BY <2>1
    <2> QED
      BY <2>1, <2>3, <2>4
  <1>5. SubSeq(v, 1, n) \o SubSeq(v, n + 1, n + k) = SubSeq(v, 1, n + k)
    <2>1. 1 \in 1..(Len(v) + 1) /\ n \in (1 - 1)..Len(v) /\ n + k \in n..Len(v)
      BY <1>1
    <2> QED
      BY <2>1, ConcatAdjacentSubSeq
  <1> QED
    BY <1>3, <1>4, <1>5

(* The loop of reads.                                                      *)
LEMMA ReadStep ==
  ASSUME FsInv, NEW t \in Tasks, read_exact_at(t)
  PROVE  FsInv'
  <1>1. PICK s, c, b : s = st[t] /\ c = call[t] /\ b = before[t]
    OBVIOUS
  <1>2. /\ s.pc = "read" /\ UNCHANGED <<tree, data, call, noise, before, faults>>
        /\ TaskInv(s, c, noise[t], b, tree, data, faults)
    BY <1>1 DEF FsInv, read_exact_at
  <1>3. DOMAIN s = Fields /\ FileInv(s, c, noise[t], b, tree, data) /\ c.name = "read"
    BY <1>2 DEF TaskInv, FileInv
  <1>4. /\ s.ino \in Inodes /\ data[s.ino] # Missing /\ s.n \in Nat /\ s.len \in Nat
        /\ b \in Seq(Nat) \cup {Missing}
        /\ noise[t] = {} => OpenRight(c.options, b) /\ s.len = Len(data[s.ino])
                            /\ s.n \in 0..(s.len - 1) /\ s.buf = SubSeq(data[s.ino], 1, s.n)
    BY <1>2, <1>3 DEF FileInv, IoRight
  <1>5. PICK v \in Seq(Nat) : v = data[s.ino]
    BY <1>4 DEF FsInv, IsTree
  <1>6. PICK n \in Nat : n = s.n
    BY <1>4
  <1>7. CASE n >= Len(v)
    <2>1. Ends(t, "UnexpectedEof")
      BY <1>1, <1>5, <1>6, <1>7 DEF read_exact_at
    <2>2. PICK s2 : s2 = st'[t]
      OBVIOUS
    <2>3. /\ DOMAIN st' = Tasks /\ \A u \in Tasks : u # t => st'[u] = st[u]
          /\ DOMAIN s2 = Fields /\ s2.pc = "done"
      BY <1>1, <2>1, <2>2, EndFacts DEF Fields
    <2>4. noise[t] # {}
      BY <1>4, <1>5, <1>6, <1>7
    <2>5. TaskInv(s2, c, noise[t], b, tree', data', faults')
      BY <1>2, <1>3, <1>4, <2>3, <2>4 DEF TaskInv, FileInv
    <2>6. Effect(t)
      BY <1>2, <2>3, QuietEffect DEF FsInv
    <2> QED
      BY <1>1, <1>2, <2>2, <2>5, <2>6, Keeps
  <1>8. CASE n < Len(v)
    <2>1. PICK k \in 1..(s.len - s.n) :
            /\ read_at(t, k)
            /\ st' = [st EXCEPT ![t].n = @ + k, ![t].buf = @ \o KernelRead(data[s.ino], s.n, k),
                                ![t].pc = IF s.n + k = s.len THEN "done" ELSE @,
                                ![t].res = IF s.n + k = s.len THEN "Ok" ELSE @]
      <3>1. ~(s.n >= Len(data[s.ino]))
        BY <1>5, <1>6, <1>8
      <3> QED
        BY <1>1, <3>1, Zenon DEF read_exact_at
    <2>2. k \in Nat /\ k > 0 /\ n + k <= Len(v) /\ n + k <= s.len
      BY <1>1, <1>4, <1>5, <1>6, <2>1 DEF read_at
    <2>3. PICK s2 : s2 = [s EXCEPT !.n = @ + k, !.buf = @ \o KernelRead(data[s.ino], s.n, k),
                                   !.pc = IF s.n + k = s.len THEN "done" ELSE @,
                                   !.res = IF s.n + k = s.len THEN "Ok" ELSE @]
      OBVIOUS
    <2>4. PICK read : read = KernelRead(data[s.ino], s.n, k)
      OBVIOUS
    <2>5. /\ DOMAIN s2 = Fields /\ s2.n = n + k /\ s2.buf = s.buf \o read /\ s2.len = s.len
          /\ s2.pc = (IF n + k = s.len THEN "done" ELSE "read")
          /\ n + k = s.len => s2.res = "Ok"
          /\ s2.ino = s.ino
      BY <1>2, <1>3, <1>6, <2>3, <2>4 DEF Fields
    <2>6. st' = [st EXCEPT ![t] = s2]
      BY <1>1, <2>1, <2>3 DEF FsInv
    <2>7. DOMAIN st' = Tasks /\ st'[t] = s2 /\ \A u \in Tasks : u # t => st'[u] = st[u]
      BY <2>6 DEF FsInv
    <2>8. noise[t] = {} => s2.buf = SubSeq(v, 1, n + k)
      <3>1. SubSeq(v, 1, n) \o SubSeq(v, n + 1, n + k) = SubSeq(v, 1, n + k)
        BY <2>2, GoesOn
      <3>2. read = SubSeq(v, n + 1, n + k)
        BY <1>5, <1>6, <2>4 DEF KernelRead
      <3> QED
        BY <1>4, <1>5, <1>6, <2>5, <3>1, <3>2
    <2>9. FileInv(s2, c, noise[t], b, tree, data)
      <3>1. CASE n + k = s.len
        <4>1. noise[t] = {} => s2.buf = v
          BY <1>4, <1>5, <2>8, <3>1, SubSeqFull
        <4>2. noise[t] = {} => FileDone(s2, c, b, tree, data)
          BY <1>3, <1>4, <1>5, <2>5, <3>1, <4>1, FsAssumption DEF FileDone
        <4> QED
          BY <1>3, <1>4, <2>5, <3>1, <4>2 DEF FileInv
      <3>2. CASE n + k # s.len
        <4>1. noise[t] = {} => IoRight(s2, c, b, data)
          <5> SUFFICES ASSUME noise[t] = {}
                       PROVE  IoRight(s2, c, b, data)
            OBVIOUS
          <5>1. s2.pc = "read" /\ OpenRight(c.options, b) /\ s2.len = Len(data[s2.ino])
            BY <1>4, <2>5, <3>2
          <5>2. s2.n \in 0..(s2.len - 1)
            <6>1. s2.n = n + k /\ s2.len = s.len
              BY <2>5
            <6>2. PICK len \in Nat : len = s.len
              BY <1>4
            <6>3. n + k \in 0..(len - 1)
              BY <2>2, <3>2, <6>2
            <6> QED
              BY <6>1, <6>2, <6>3
          <5>3. s2.buf = SubSeq(data[s2.ino], 1, s2.n)
            BY <1>5, <2>5, <2>8
          <5> QED
            BY <5>1, <5>2, <5>3 DEF IoRight
        <4> QED
          BY <1>3, <1>4, <1>6, <2>2, <2>5, <3>2, <4>1, SMTT(30) DEF FileInv
      <3> QED
        BY <3>1, <3>2
    <2>10. TaskInv(s2, c, noise[t], b, tree', data', faults')
      BY <1>2, <1>3, <2>5, <2>9 DEF TaskInv
    <2>11. Effect(t)
      BY <1>2, <2>7, QuietEffect DEF FsInv
    <2> QED
      BY <1>1, <1>2, <2>7, <2>10, <2>11, Keeps
  <1> QED
    BY <1>5, <1>6, <1>7, <1>8

(* What is written over the start of a file.                               *)
Overwritten(kept, a) == a \o SubSeq(kept, Len(a) + 1, Len(kept))

(* It is what was written, and then what was there.                        *)
LEMMA Over ==
  ASSUME NEW kept \in Seq(Nat), NEW a \in Seq(Nat)
  PROVE  /\ Overwritten(kept, a) \in Seq(Nat)
         /\ Len(Overwritten(kept, a)) = IF Len(a) < Len(kept) THEN Len(kept) ELSE Len(a)
         /\ \A j \in 1..Len(Overwritten(kept, a)) :
               Overwritten(kept, a)[j] = IF j <= Len(a) THEN a[j] ELSE kept[j]
  <1> SUFFICES ASSUME NEW n \in Nat, n = Len(a), NEW w, w = a \o SubSeq(kept, n + 1, Len(kept))
               PROVE  /\ w \in Seq(Nat) /\ Len(w) = IF n < Len(kept) THEN Len(kept) ELSE n
                      /\ \A j \in 1..Len(w) : w[j] = IF j <= n THEN a[j] ELSE kept[j]
    <2>1. Len(a) \in Nat
      OBVIOUS
    <2> QED
      BY <2>1, Zenon DEF Overwritten
  <1>0. PICK m \in Nat : m = Len(kept)
    OBVIOUS
  <1>1. PICK z : m = Len(kept) /\ z = SubSeq(kept, n + 1, m)
    BY <1>0
  <1>2. CASE n < m
    <2>1. PICK k \in Nat : n + k = m
      <3>1. m - n \in Nat /\ n + (m - n) = m
        BY <1>2
      <3> QED
        BY <3>1
    <2>2. z \in Seq(Nat) /\ Len(z) = k /\ \A i \in 1..k : z[i] = kept[n + i]
      <3>1. n + k <= Len(kept) /\ z = SubSeq(kept, n + 1, n + k)
        <4>1. n + k <= Len(kept)
          BY <1>1, <2>1
        <4>2. z = SubSeq(kept, n + 1, n + k)
          BY <1>1, <2>1, Zenon
        <4> QED
          BY <4>1, <4>2
      <3>2. /\ SubSeq(kept, n + 1, n + k) \in Seq(Nat) /\ Len(SubSeq(kept, n + 1, n + k)) = k
            /\ \A i \in 1..k : SubSeq(kept, n + 1, n + k)[i] = kept[n + i]
        BY <3>1, GoesOn
      <3> QED
        BY <3>1, <3>2
    <2>3. /\ w \in Seq(Nat) /\ Len(w) = n + k
          /\ \A j \in 1..(n + k) : w[j] = IF j <= n THEN a[j] ELSE z[j - n]
      <3>1. z \in Seq(Nat) /\ Len(z) = k /\ Len(a) = n /\ w = a \o z
        BY <1>1, <2>2
      <3>2. /\ a \o z \in Seq(Nat) /\ Len(a \o z) = Len(a) + Len(z)
            /\ \A j \in 1..(Len(a) + Len(z)) :
                  (a \o z)[j] = IF j <= Len(a) THEN a[j] ELSE z[j - Len(a)]
        BY <3>1, ConcatProperties
      <3> QED
        BY <3>1, <3>2
    <2>4. \A j \in 1..(n + k) : j > n => j - n \in 1..k /\ n + (j - n) = j
      OBVIOUS
    <2>5. \A j \in 1..(n + k) : w[j] = IF j <= n THEN a[j] ELSE kept[j]
      BY <2>2, <2>3, <2>4
    <2> QED
      BY <1>1, <1>2, <2>1, <2>3, <2>5
  <1>3. CASE n >= m
    <2>1. z = <<>>
      <3>1. n + 1 \in Int /\ m \in Int /\ m < n + 1
        BY <1>3
      <3> QED
        BY <1>1, <3>1, SubSeqEmpty
    <2>2. w = a
      BY <1>1, <2>1, ConcatEmptySeq
    <2> QED
      BY <1>1, <1>3, <2>2
  <1>4. n < m \/ n >= m
    BY <1>0
  <1> QED
    BY <1>2, <1>3, <1>4, Zenon

(* Joining sequences of bytes.                                             *)
LEMMA ConcatBytes ==
  \A x, y, z \in Seq(Nat) : (x \o y) \o z = x \o (y \o z)
  BY ConcatAssociative, SMTT(30)

(* A write goes on where the last one ended: two in a row are one.         *)
LEMMA WritesOn ==
  ASSUME NEW o, NEW b \in Seq(Nat) \cup {Missing}, NEW v \in Seq(Nat),
         NEW n \in Nat, NEW k \in Nat, n + k <= Len(v)
  PROVE  /\ KernelWrite(Written(o, b, SubSeq(v, 1, n)), SubSeq(v, n + 1, n + k), n, "append" \in o)
              = Written(o, b, SubSeq(v, 1, n + k))
         /\ Written(o, b, SubSeq(v, 1, n + k)) \in Seq(Nat)
  <1>0. PICK kept : kept = IF b = Missing \/ ("truncate" \in o /\ "create_new" \notin o) THEN <<>> ELSE b
    OBVIOUS
  <1>1. kept \in Seq(Nat)
    BY <1>0
  <1>2. PICK x, y, z : x = SubSeq(v, 1, n) /\ y = SubSeq(v, n + 1, n + k) /\ z = SubSeq(v, 1, n + k)
    OBVIOUS
  <1>3. /\ x \in Seq(Nat) /\ Len(x) = n /\ \A i \in 1..n : x[i] = v[i]
        /\ y \in Seq(Nat) /\ Len(y) = k /\ \A i \in 1..k : y[i] = v[n + i]
        /\ x \o y = z
    <2>1. /\ SubSeq(v, 1, n) \in Seq(Nat) /\ Len(SubSeq(v, 1, n)) = n
          /\ \A i \in 1..n : SubSeq(v, 1, n)[i] = v[i]
      BY GoesOn
    <2>2. /\ SubSeq(v, n + 1, n + k) \in Seq(Nat) /\ Len(SubSeq(v, n + 1, n + k)) = k
          /\ \A i \in 1..k : SubSeq(v, n + 1, n + k)[i] = v[n + i]
      BY GoesOn
    <2>3. SubSeq(v, 1, n) \o SubSeq(v, n + 1, n + k) = SubSeq(v, 1, n + k)
      BY GoesOn
    <2> QED
      BY <1>2, <2>1, <2>2, <2>3, Zenon
  <1>4. z \in Seq(Nat) /\ Len(z) = n + k /\ \A i \in 1..(n + k) : z[i] = v[i]
    <2>1. n + k \in Nat /\ 0 \in Nat /\ (n + k) + 0 <= Len(v)
      OBVIOUS
    <2> QED
      BY <1>2, <2>1, GoesOn
  <1>5. /\ Written(o, b, x) = IF "append" \in o THEN kept \o x
                              ELSE x \o SubSeq(kept, Len(x) + 1, Len(kept))
        /\ Written(o, b, z) = IF "append" \in o THEN kept \o z
                              ELSE z \o SubSeq(kept, Len(z) + 1, Len(kept))
    BY <1>0 DEF Written
  <1>6. CASE "append" \in o
    <2>1. Written(o, b, x) = kept \o x /\ Written(o, b, z) = kept \o z
      BY <1>5, <1>6
    <2>2. (kept \o x) \o y = kept \o (x \o y)
      <3>1. x \in Seq(Nat) /\ y \in Seq(Nat) /\ kept \in Seq(Nat)
        BY <1>1, <1>3
      <3> QED
        BY <3>1, ConcatBytes, Zenon
    <2>3. KernelWrite(kept \o x, y, n, "append" \in o) = (kept \o x) \o y
      BY <1>6 DEF KernelWrite
    <2>4. kept \o z \in Seq(Nat)
      BY <1>1, <1>4, ConcatProperties
    <2> QED
      BY <1>2, <1>3, <2>1, <2>2, <2>3, <2>4
  <1>7. CASE "append" \notin o
    <2>0. PICK m \in Nat : m = Len(kept)
      BY <1>1
    <2>1. PICK d, w : d = Written(o, b, x) /\ w = Written(o, b, z)
      OBVIOUS
    <2>2. d = Overwritten(kept, x) /\ w = Overwritten(kept, z)
      BY <1>5, <1>7, <2>1 DEF Overwritten
    <2>3. /\ d \in Seq(Nat) /\ Len(d) = IF n < m THEN m ELSE n
          /\ \A j \in 1..Len(d) : d[j] = IF j <= n THEN x[j] ELSE kept[j]
      <3>1. /\ d \in Seq(Nat) /\ Len(d) = IF Len(x) < Len(kept) THEN Len(kept) ELSE Len(x)
            /\ \A j \in 1..Len(d) : d[j] = IF j <= Len(x) THEN x[j] ELSE kept[j]
        BY <1>1, <1>3, <2>2, Over, ZenonT(40)
      <3> QED
        BY <1>3, <2>0, <3>1
    <2>4. /\ w \in Seq(Nat) /\ Len(w) = IF n + k < m THEN m ELSE n + k
          /\ \A j \in 1..Len(w) : w[j] = IF j <= n + k THEN z[j] ELSE kept[j]
      <3>1. /\ w \in Seq(Nat) /\ Len(w) = IF Len(z) < Len(kept) THEN Len(kept) ELSE Len(z)
            /\ \A j \in 1..Len(w) : w[j] = IF j <= Len(z) THEN z[j] ELSE kept[j]
        BY <1>1, <1>4, <2>2, Over
      <3> QED
        BY <1>4, <2>0, <3>1
    <2>5. PICK l \in Nat : l = Len(w)
      BY <2>4
    <2>6. (IF n + Len(y) > Len(d) THEN n + Len(y) ELSE Len(d)) = l
      <3>1. PICK ld \in Nat : ld = Len(d)
        BY <2>3
      <3>2. ld = (IF n < m THEN m ELSE n) /\ l = IF n + k < m THEN m ELSE n + k
        BY <2>3, <2>4, <2>5, <3>1
      <3>3. (IF n + k > ld THEN n + k ELSE ld) = l
        BY <3>2
      <3> QED
        BY <1>3, <3>1, <3>3
    <2>7. PICK u : u = KernelWrite(d, y, n, FALSE)
      OBVIOUS
    <2>8. u = [j \in 1..l |-> IF j \in (n + 1)..(n + k) THEN y[j - n] ELSE IF j <= Len(d) THEN d[j] ELSE 0]
      BY <1>3, <2>6, <2>7 DEF KernelWrite
    <2>9. ASSUME NEW j \in 1..l
          PROVE  u[j] = w[j]
      <3>1. CASE j <= n
        <4>1. j \in 1..Len(d) /\ j \in 1..n /\ j \in 1..(n + k) /\ j \notin (n + 1)..(n + k)
          <5>1. Len(d) \in Nat /\ Len(d) >= n
            BY <2>3
          <5> QED
            BY <3>1, <5>1
        <4>2. u[j] = x[j] /\ w[j] = z[j]
          BY <2>3, <2>4, <2>5, <2>8, <3>1, <4>1
        <4> QED
          BY <1>3, <1>4, <4>1, <4>2
      <3>2. CASE n < j /\ j <= n + k
        <4>1. /\ j \in (n + 1)..(n + k) /\ j - n \in 1..k /\ n + (j - n) = j /\ j \in 1..(n + k)
          BY <3>2
        <4>2. u[j] = y[j - n] /\ w[j] = z[j]
          BY <2>4, <2>5, <2>8, <3>2, <4>1
        <4> QED
          BY <1>3, <1>4, <4>1, <4>2
      <3>3. CASE n + k < j
        <4>1. j \in 1..Len(d) /\ j > n /\ j \notin (n + 1)..(n + k)
          <5>1. Len(d) = (IF n < m THEN m ELSE n) /\ l = IF n + k < m THEN m ELSE n + k
            BY <2>3, <2>4, <2>5
          <5> QED
            BY <3>3, <5>1
        <4>2. u[j] = d[j] /\ d[j] = kept[j] /\ w[j] = kept[j]
          BY <2>3, <2>4, <2>5, <2>8, <3>3, <4>1
        <4> QED
          BY <4>2
      <3> QED
        BY <3>1, <3>2, <3>3
    <2>10. u \in Seq(Nat) /\ Len(u) = l
      <3>1. \A j \in 1..l : u[j] \in Nat
        <4>1. \A j \in 1..l : w[j] \in Nat
          BY <2>4, <2>5
        <4> QED
          BY <2>9, <4>1
      <3>2. u = [j \in 1..l |-> u[j]]
        BY <2>8
      <3>3. u \in [1..l -> Nat]
        BY <3>1, <3>2
      <3> QED
        BY <3>3, IsASeq, LenProperties
    <2>11. u = w
      BY <2>4, <2>5, <2>9, <2>10, SeqEqual
    <2>12. ("append" \in o) = FALSE
      BY <1>7
    <2> QED
      BY <1>2, <2>1, <2>4, <2>7, <2>11, <2>12
  <1> QED
    BY <1>6, <1>7

(* What a write leaves are bytes.                                          *)
LEMMA WriteType ==
  ASSUME NEW d \in Seq(Nat), NEW y \in Seq(Nat), NEW n \in Nat, NEW a
  PROVE  KernelWrite(d, y, n, a) \in Seq(Nat)
  <1>1. CASE a
    <2>1. KernelWrite(d, y, n, a) = d \o y
      BY <1>1 DEF KernelWrite
    <2> QED
      BY <2>1, ConcatProperties
  <1>2. CASE ~a
    <2>1. PICK k \in Nat, m \in Nat : k = Len(y) /\ m = Len(d)
      OBVIOUS
    <2>2. PICK l : l = IF n + k > m THEN n + k ELSE m
      OBVIOUS
    <2>3. l \in Nat
      BY <2>2
    <2>4. PICK u : u = KernelWrite(d, y, n, a)
      OBVIOUS
    <2>5. u = [j \in 1..l |-> IF j \in (n + 1)..(n + k) THEN y[j - n] ELSE IF j <= m THEN d[j] ELSE 0]
      BY <1>2, <2>1, <2>2, <2>4 DEF KernelWrite
    <2>6. ASSUME NEW j \in 1..l
          PROVE  u[j] \in Nat
      <3>1. j \in (n + 1)..(n + k) => j - n \in 1..k
        BY <2>3
      <3>2. \A i \in 1..k : y[i] \in Nat
        BY <2>1
      <3>3. \A i \in 1..m : d[i] \in Nat
        BY <2>1
      <3>4. j <= m => j \in 1..m
        BY <2>3
      <3>5. u[j] = IF j \in (n + 1)..(n + k) THEN y[j - n] ELSE IF j <= m THEN d[j] ELSE 0
        BY <2>5
      <3> QED
        BY <3>1, <3>2, <3>3, <3>4, <3>5
    <2>7. u \in [1..l -> Nat]
      <3>1. u = [j \in 1..l |-> u[j]]
        BY <2>5
      <3> QED
        BY <2>6, <3>1
    <2> QED
      BY <2>3, <2>4, <2>7
  <1> QED
    BY <1>1, <1>2

(* The loop of writes.                                                     *)
LEMMA WriteStep ==
  ASSUME FsInv, NEW t \in Tasks, write_all_at(t)
  PROVE  FsInv'
  <1>1. PICK s, c, b, o, v : /\ s = st[t] /\ c = call[t] /\ b = before[t] /\ o = c.options
                             /\ v = c.contents
    OBVIOUS
  <1>2. /\ s.pc = "write" /\ UNCHANGED <<tree, call, before, faults>> /\ Disturbs(t, {"data"})
        /\ TaskInv(s, c, noise[t], b, tree, data, faults) /\ CallOK(c)
    BY <1>1 DEF FsInv, write_all_at
  <1>3. DOMAIN s = Fields /\ FileInv(s, c, noise[t], b, tree, data) /\ c.name = "write"
    BY <1>2 DEF TaskInv, FileInv
  <1>4. /\ s.ino \in Inodes /\ data[s.ino] # Missing /\ s.n \in Nat /\ s.len = Default
        /\ s.n <= Default /\ b \in Seq(Nat) \cup {Missing}
        /\ noise[t] = {} => OpenRight(o, b) /\ data[s.ino] = Written(o, b, SubSeq(v, 1, s.n))
    BY <1>1, <1>2, <1>3 DEF FileInv, IoRight
  <1>5. PICK i, n : i = s.ino /\ n = s.n
    OBVIOUS
  <1>6. /\ i \in Inodes /\ n \in Nat /\ Default \in Nat /\ data[i] \in Seq(Nat)
        /\ v \in Seq(Nat) /\ Len(v) = Default
    BY <1>1, <1>2, <1>3, <1>4, <1>5, FsAssumption DEF FsInv, IsTree, CallOK
  <1>7. PICK k \in 1..(s.len - s.n) :
          /\ write_at(t, k)
          /\ st' = [st EXCEPT ![t].n = @ + k,
                              ![t].pc = IF s.n + k = s.len THEN "done" ELSE @,
                              ![t].res = IF s.n + k = s.len THEN "Ok" ELSE @]
    BY <1>1, Zenon DEF write_all_at
  <1>8. k \in Nat /\ n + k <= Default
    BY <1>4, <1>5, <1>6, <1>7
  <1>9. PICK s2 : s2 = [s EXCEPT !.n = @ + k,
                                 !.pc = IF s.n + k = s.len THEN "done" ELSE @,
                                 !.res = IF s.n + k = s.len THEN "Ok" ELSE @]
    OBVIOUS
  <1>10. /\ DOMAIN s2 = Fields /\ s2.n = n + k /\ s2.len = Default
         /\ s2.pc = (IF n + k = Default THEN "done" ELSE "write")
         /\ n + k = Default => s2.res = "Ok"
         /\ s2.ino = i
    BY <1>2, <1>3, <1>4, <1>5, <1>9 DEF Fields
  <1>11. st' = [st EXCEPT ![t] = s2]
    BY <1>1, <1>7, <1>9 DEF FsInv
  <1>12. DOMAIN st' = Tasks /\ st'[t] = s2 /\ \A u \in Tasks : u # t => st'[u] = st[u]
    BY <1>11 DEF FsInv
  <1>13. PICK y, w : y = SubSeq(v, n + 1, n + k) /\ w = KernelWrite(data[i], y, n, "append" \in o)
    OBVIOUS
  <1>14. data' = [data EXCEPT ![i] = w]
    BY <1>1, <1>5, <1>7, <1>13 DEF write_at, Position, OptionsOf
  <1>15. y \in Seq(Nat) /\ n + k <= Len(v)
    BY <1>6, <1>8, <1>13, GoesOn
  <1>16. w \in Seq(Nat) /\ w # Missing
    BY <1>6, <1>13, <1>15, WriteType, FsAssumption
  <1>17. /\ data' \in [Inodes -> Seq(Nat) \cup {Missing}] /\ data'[i] = w
         /\ \A j \in Inodes : data[j] # Missing => data'[j] # Missing
    BY <1>6, <1>14, <1>16 DEF FsInv, IsTree
  <1>18. noise[t] = {} => w = Written(o, b, SubSeq(v, 1, n + k))
    <2>1. KernelWrite(Written(o, b, SubSeq(v, 1, n)), SubSeq(v, n + 1, n + k), n, "append" \in o)
            = Written(o, b, SubSeq(v, 1, n + k))
      <3>1. /\ b \in Seq(Nat) \cup {Missing} /\ v \in Seq(Nat) /\ n \in Nat /\ k \in Nat
            /\ n + k <= Len(v)
        BY <1>4, <1>6, <1>8, <1>15
      <3> QED
        BY <3>1, WritesOn, Zenon
    <2>2. noise[t] = {} => data[i] = Written(o, b, SubSeq(v, 1, n))
      BY <1>4, <1>5
    <2> QED
      BY <1>13, <2>1, <2>2, Zenon
  <1>19. FileInv(s2, c, noise[t], b, tree, data')
    <2>1. CASE n + k = Default
      <3>1. SubSeq(v, 1, n + k) = v
        BY <1>6, <2>1, SubSeqFull
      <3>2. noise[t] = {} => FileDone(s2, c, b, tree, data')
        BY <1>1, <1>3, <1>4, <1>6, <1>10, <1>17, <1>18, <2>1, <3>1, FsAssumption DEF FileDone
      <3> QED
        BY <1>3, <1>4, <1>10, <2>1, <3>2 DEF FileInv
    <2>2. CASE n + k # Default
      <3>1. noise[t] = {} => IoRight(s2, c, b, data')
        BY <1>1, <1>4, <1>10, <1>17, <1>18, <2>2 DEF IoRight
      <3> QED
        BY <1>3, <1>4, <1>6, <1>8, <1>10, <1>16, <1>17, <2>2, <3>1 DEF FileInv
    <2> QED
      BY <2>1, <2>2
  <1>20. TaskInv(s2, c, noise[t], b, tree', data', faults')
    BY <1>2, <1>3, <1>10, <1>19 DEF TaskInv
  <1>21. IsTree(tree', data')
    <2>1. \A q \in Paths : tree[q].kind = "file" => tree[q].ino \in Inodes
      BY EntryKinds DEF FsInv, IsTree
    <2> QED
      BY <1>2, <1>17, <2>1 DEF FsInv, IsTree
  <1>22. Grows(tree, tree')
    BY <1>2 DEF Grows
  <1>23. Effect(t)
    BY <1>2, <1>12, <1>17, <1>21, <1>22, TreeEffect DEF FsInv
  <1> QED
    BY <1>1, <1>2, <1>12, <1>20, <1>23, Keeps

-----------------------------------------------------------------------------
(* A call that the kernel answers at once.                                 *)
LEMMA AnswersStep ==
  ASSUME FsInv, NEW t \in Tasks, call[t].name \notin {"create_dir_all", "read", "write"},
         NEW ok \in BOOLEAN, NEW tr, NEW what, Answers(t, ok, tr, what), what # {},
         ok => IsTree(tr, data) /\ ("cut" \notin what => Grows(tree, tr))
  PROVE  FsInv'
  <1>1. /\ UNCHANGED <<data, call, before, faults>>
        /\ Ends(t, IF ok THEN "Ok" ELSE "Failed")
        /\ Disturbs(t, IF ok THEN what ELSE {}) /\ tree' = IF ok THEN tr ELSE tree
    BY DEF Answers
  <1>2. /\ DOMAIN st' = Tasks /\ \A u \in Tasks : u # t => st'[u] = st[u]
        /\ DOMAIN st'[t] = Fields /\ st'[t].pc = "done"
    BY <1>1, EndFacts
  <1>3. TaskInv(st'[t], call[t], noise[t], before'[t], tree', data', faults')
    BY <1>2, PlainEnd
  <1>4. CASE ok
    <2>1. Disturbs(t, what) /\ tree' = tr
      BY <1>1, <1>4
    <2>2. Effect(t)
      BY <1>1, <1>2, <1>4, <2>1, TreeEffect DEF FsInv
    <2> QED
      BY <1>3, <2>2, Keeps
  <1>5. CASE ~ok
    <2>1. Disturbs(t, {}) /\ tree' = tree
      BY <1>1, <1>5
    <2>2. Effect(t)
      BY <1>1, <1>2, <2>1, StillEffect DEF FsInv
    <2> QED
      BY <1>3, <2>2, Keeps
  <1> QED
    BY <1>4, <1>5

(* An entry is taken out.                                                  *)
LEMMA TakenOut ==
  ASSUME FsInv, NEW e \in Paths, \A q \in Paths : q # <<>> /\ Front(q) = e => tree[q] = None
  PROVE  IsTree([tree EXCEPT ![e] = None], data)
  <1>1. PICK tr, tr2 : tr = tree /\ tr2 = [tr EXCEPT ![e] = None]
    OBVIOUS
  <1>2. Shape(tr) /\ \A q \in Paths : q # <<>> /\ Front(q) = e => tr[q] = None
    BY <1>1, TreeShape DEF FsInv
  <1>3. Shape(tr2)
    BY <1>1, <1>2, Removed
  <1>4. \A q \in Paths : tr2[q].kind = "file" => tr2[q] = tree[q]
    BY <1>1, <1>2 DEF Shape, None
  <1>5. IsTree(tr2, data)
    BY <1>3, <1>4 DEF FsInv, IsTree, Shape
  <1> QED
    BY <1>1, <1>5

(* Nothing is in a file, a link, or a directory without children.          *)
LEMMA Childless ==
  ASSUME FsInv, NEW e \in Paths, KernelUnlink(e) \/ KernelRmdir(e)
  PROVE  \A q \in Paths : q # <<>> /\ Front(q) = e => tree[q] = None
  <1> SUFFICES ASSUME NEW q \in Paths, q # <<>>, Front(q) = e
               PROVE  tree[q] = None
    OBVIOUS
  <1>1. tree[q] # None => tree[e] = Dir
    BY DEF FsInv, IsTree
  <1>2. tree[q].kind = "none" <=> tree[q] = None
    BY EntryKinds DEF FsInv, IsTree
  <1>3. CASE KernelUnlink(e)
    BY <1>1, <1>3 DEF KernelUnlink, Dir
  <1>4. CASE KernelRmdir(e)
    BY <1>2, <1>4 DEF KernelRmdir, Children
  <1> QED
    BY <1>3, <1>4

(* remove_file.                                                            *)
LEMMA RemoveFileStep ==
  ASSUME FsInv, NEW t \in Tasks, remove_file(t)
  PROVE  FsInv'
  <1>1. PICK e, tr, ok : /\ e = Real(call[t].path) /\ tr = [tree EXCEPT ![e] = None]
                         /\ ok = KernelUnlink(e)
    OBVIOUS
  <1>2. call[t].name = "remove_file" /\ Answers(t, ok, tr, {"cut"})
    BY <1>1 DEF remove_file, Makes
  <1>3. ok \in BOOLEAN
    BY <1>1 DEF KernelUnlink
  <1>4. ok => IsTree(tr, data)
    <2> SUFFICES ASSUME ok
                 PROVE  IsTree(tr, data)
      OBVIOUS
    <2>1. e \in Paths /\ KernelUnlink(e)
      BY <1>1 DEF KernelUnlink
    <2> QED
      BY <1>1, <2>1, Childless, TakenOut
  <1> QED
    BY <1>2, <1>3, <1>4, AnswersStep

(* remove_dir.                                                             *)
LEMMA RemoveDirStep ==
  ASSUME FsInv, NEW t \in Tasks, remove_dir(t)
  PROVE  FsInv'
  <1>1. PICK e, tr, ok : /\ e = Real(call[t].path) /\ tr = [tree EXCEPT ![e] = None]
                         /\ ok = KernelRmdir(e)
    OBVIOUS
  <1>2. call[t].name = "remove_dir" /\ Answers(t, ok, tr, {"cut"})
    BY <1>1 DEF remove_dir, Makes
  <1>3. ok \in BOOLEAN
    BY <1>1 DEF KernelRmdir
  <1>4. ok => IsTree(tr, data)
    <2> SUFFICES ASSUME ok
                 PROVE  IsTree(tr, data)
      OBVIOUS
    <2>1. e \in Paths /\ KernelRmdir(e)
      BY <1>1 DEF KernelRmdir
    <2> QED
      BY <1>1, <2>1, Childless, TakenOut
  <1> QED
    BY <1>2, <1>3, <1>4, AnswersStep

(* rename.                                                                 *)
LEMMA RenameStep ==
  ASSUME FsInv, NEW t \in Tasks, rename(t)
  PROVE  FsInv'
  <1>1. PICK p, q, tr, ok : /\ p = Real(call[t].path) /\ q = Real(call[t].to)
                            /\ tr = Renamed(p, q) /\ ok = KernelRename(p, q)
    OBVIOUS
  <1>2. call[t].name = "rename" /\ Answers(t, ok, tr, {"add", "cut"})
    BY <1>1 DEF rename, Makes
  <1>3. ok \in BOOLEAN
    BY <1>1 DEF KernelRename
  <1>4. ok => IsTree(tr, data)
    <2> SUFFICES ASSUME ok
                 PROVE  IsTree(tr, data)
      OBVIOUS
    <2>1. p \in Paths /\ p # <<>> /\ q \in Paths /\ q # <<>> /\ tree[Front(q)] = Dir
      BY <1>1 DEF KernelRename
    <2>2. PICK old : old = tree
      OBVIOUS
    <2>3. tr = RenamedIn(old, p, q) /\ Shape(old) /\ old[Front(q)] = Dir
      BY <1>1, <2>1, <2>2, TreeShape DEF Renamed, RenamedIn, FsInv
    <2>4. Shape(tr) /\ \A e \in Paths : tr[e] = None \/ \E f \in Paths : tr[e] = old[f]
      BY <2>1, <2>3, RenamedShape
    <2>5. \A e \in Paths : tr[e].kind = "file" => data[tr[e].ino] # Missing
      BY <2>2, <2>4 DEF FsInv, IsTree, None
    <2> QED
      BY <2>4, <2>5 DEF FsInv, IsTree, Shape
  <1> QED
    BY <1>2, <1>3, <1>4, AnswersStep

(* symlink.                                                                *)
LEMMA SymlinkStep ==
  ASSUME FsInv, NEW t \in Tasks, symlink(t)
  PROVE  FsInv'
  <1>1. PICK p, e, v, tr, ok :
             /\ p = call[t].path /\ e = RealIn(tree, p) /\ v = [kind |-> "link", to |-> call[t].to]
             /\ tr = [tree EXCEPT ![e] = v] /\ ok = (KernelMkdir(p) = "Ok")
    OBVIOUS
  <1>2. call[t].name = "symlink" /\ Answers(t, ok, tr, {"add"}) /\ Within(p)
    BY <1>1, TreeOps DEF symlink, Makes, KernelSymlink
  <1>3. ok \in BOOLEAN /\ p \in Paths /\ v \in Entries /\ v.kind = "link"
    BY <1>1 DEF FsInv, CallOK, Entries
  <1>4. ok => IsTree(tr, data) /\ Grows(tree, tr)
    <2> SUFFICES ASSUME ok
                 PROVE  IsTree(tr, data) /\ Grows(tree, tr)
      OBVIOUS
    <2>1. /\ p # <<>> /\ KindIn(tree, Front(p)) = "dir" /\ e \in Paths /\ tree[e] = None
      BY <1>1, <1>2, <1>3, MkdirFacts
    <2>2. PICK old : old = tree /\ Shape(old)
      BY TreeShape DEF FsInv
    <2>3. Shape(tr) /\ Grows(old, tr)
      BY <1>1, <1>3, <2>1, <2>2, MadeAt
    <2>4. \A x \in Paths : tr[x].kind = "file" => tr[x] = tree[x]
      BY <1>1, <1>3, <2>1, <2>2 DEF Shape
    <2> QED
      BY <2>2, <2>3, <2>4 DEF FsInv, IsTree, Shape
  <1> QED
    BY <1>2, <1>3, <1>4, AnswersStep

(* metadata and symlink_metadata.                                          *)
LEMMA MetadataStep ==
  ASSUME FsInv, NEW t \in Tasks, metadata(t) \/ symlink_metadata(t)
  PROVE  FsInv'
  <1>1. /\ call[t].name \in {"metadata", "symlink_metadata"} /\ \E r : Ends(t, r)
        /\ UNCHANGED <<tree, data, call, noise, before, faults>>
    BY DEF metadata, symlink_metadata, Makes
  <1>2. /\ DOMAIN st' = Tasks /\ \A u \in Tasks : u # t => st'[u] = st[u]
        /\ DOMAIN st'[t] = Fields /\ st'[t].pc = "done"
    BY <1>1, EndFacts
  <1>3. TaskInv(st'[t], call[t], noise[t], before'[t], tree', data', faults')
    BY <1>1, <1>2, PlainEnd
  <1>4. Effect(t)
    BY <1>1, <1>2, QuietEffect DEF FsInv
  <1> QED
    BY <1>3, <1>4, Keeps

-----------------------------------------------------------------------------
(* The invariant holds at the start.                                       *)
LEMMA FsInvInit ==
  FsInit => FsInv
  <1> SUFFICES ASSUME NEW s \in Scenes, FsStart(s)
               PROVE  FsInv
    BY DEF FsInit
  <1>1. /\ tree = s.tree /\ data = s.data /\ call = s.call /\ faults = 0
        /\ st = [t \in Tasks |-> Fresh(s.call[t].path)]
        /\ noise = [t \in Tasks |-> {}] /\ before = [t \in Tasks |-> Missing]
    BY DEF FsStart
  <1>2. IsTree(tree, data)
    BY <1>1, FsAssumption
  <1>3. ASSUME NEW t \in Tasks
        PROVE  /\ CallOK(call[t])
               /\ TaskInv(st[t], call[t], noise[t], before[t], tree, data, faults)
    <2>1. PICK c, f : c = call[t] /\ f = st[t]
      OBVIOUS
    <2>2. CallOK(c)
      BY <1>1, <2>1, FsAssumption DEF CallOK
    <2>3. /\ DOMAIN f = Fields /\ f.pc = "start" /\ f.path = c.path /\ f.need = <<>>
          /\ f.ino = Missing /\ f.n = 0 /\ f.buf = <<>>
      BY <1>1, <2>1 DEF Fresh, Fields
    <2>4. DirInv(f, c, {}, tree, 0) /\ FileInv(f, c, {}, Missing, tree, data)
      BY <2>3 DEF DirInv, FileInv
    <2>5. noise[t] = {} /\ before[t] = Missing
      BY <1>1
    <2> QED
      BY <1>1, <2>1, <2>2, <2>3, <2>4, <2>5 DEF TaskInv
  <1> QED
    BY <1>1, <1>2, <1>3 DEF FsInv

(* Every step keeps it.                                                    *)
LEMMA FsInvNext ==
  ASSUME FsInv, [FsNext]_fsVars
  PROVE  FsInv'
  <1>1. CASE UNCHANGED fsVars
    BY <1>1 DEF fsVars, FsInv
  <1>2. CASE FsNext
    <2>1. PICK t \in Tasks : Step(t)
      BY <1>2 DEF FsNext
    <2>2. CASE create_dir(t) \/ create_dir_all(t) \/ Climb(t) \/ MkdirFails(t) \/ is_dir(t) \/ Down(t)
      BY <2>2, CreateDirStep, CreateDirAllStep, ClimbStep, MkdirFailsStep, IsDirStep, DownStep
    <2>3. CASE open(t) \/ size(t) \/ read_exact_at(t) \/ write_all_at(t) \/ NotWritable(t) \/ IoFails(t)
      BY <2>3, OpenStep, SizeStep, ReadStep, WriteStep, NotWritableStep, IoFailsStep
    <2>4. CASE remove_file(t) \/ remove_dir(t) \/ rename(t) \/ symlink(t)
      BY <2>4, RemoveFileStep, RemoveDirStep, RenameStep, SymlinkStep
    <2>5. CASE metadata(t) \/ symlink_metadata(t)
      BY <2>5, MetadataStep
    <2> QED
      BY <2>1, <2>2, <2>3, <2>4, <2>5 DEF Step
  <1> QED
    BY <1>1, <1>2

(* The invariant, of any number of tasks and any initial trees and calls.  *)
THEOREM FsInvariance ==
  FsSpec => []FsInv
  <1>1. FsInv /\ [FsNext]_fsVars => FsInv'
    BY FsInvNext
  <1> QED
    BY <1>1, FsInvInit, PTL DEF FsSpec

(* What the invariant says of create_dir_all that has ended.               *)
LEMMA TreeMadeThen ==
  FsInv => TreeMade
  <1> SUFFICES ASSUME FsInv, NEW t \in Tasks, call[t].name = "create_dir_all", st[t].pc = "done"
               PROVE  LET p == call[t].path
                      IN  CASE st[t].res = "Ok" -> noise[t] \cap {"cut"} = {} /\ p # <<>> => Kind(p) = "dir"
                            [] st[t].res \in {"AlreadyExists", "NotADirectory"} -> noise[t] # {} \/ Blocked(p)
                            [] st[t].res = "NotFound" -> "cut" \in noise[t]
                            [] st[t].res = "WholeTree" -> "cut" \in noise[t] \/ tree[<<>>].kind = "none"
                            [] OTHER -> st[t].res = "Failed" /\ faults > 0
    BY DEF TreeMade
  <1>1. PICK s, p : s = st[t] /\ p = call[t].path
    OBVIOUS
  <1>2. DirDone(s, p, noise[t], tree, faults) /\ p \in Paths
    BY <1>1 DEF FsInv, TaskInv, DirInv, CallOK
  <1>3. Kind(p) = KindIn(tree, p)
    BY TreeOps
  <1>4. BlockedIn(tree, p) => Blocked(p)
    <2>1. \A q : Real(q) = RealIn(tree, q) /\ Kind(q) = KindIn(tree, q)
      BY TreeOps
    <2>2. \A q \in Paths : tree[q] # None => tree[q].kind # "none"
      BY EntryKinds DEF FsInv, IsTree
    <2> QED
      BY <2>1, <2>2 DEF BlockedIn, Blocked
  <1>5. tree[<<>>] = None => tree[<<>>].kind = "none"
    BY DEF None
  <1>6. s.res \in {"Ok", "AlreadyExists", "NotADirectory", "NotFound", "WholeTree", "Failed"}
    BY <1>2 DEF DirDone
  <1>7. CASE s.res = "Ok"
    BY <1>1, <1>2, <1>3, <1>7 DEF DirDone
  <1>8. CASE s.res \in {"AlreadyExists", "NotADirectory"}
    BY <1>1, <1>2, <1>4, <1>8 DEF DirDone
  <1>9. CASE s.res = "NotFound"
    BY <1>1, <1>2, <1>9 DEF DirDone
  <1>10. CASE s.res = "WholeTree"
    BY <1>1, <1>2, <1>5, <1>10 DEF DirDone
  <1>11. CASE s.res = "Failed"
    BY <1>1, <1>2, <1>11 DEF DirDone
  <1> QED
    BY <1>6, <1>7, <1>8, <1>9, <1>10, <1>11

(* What it says of a file that was read or written.                        *)
LEMMA FilesRightThen ==
  FsInv => FilesRight
  <1> SUFFICES ASSUME FsInv, NEW t \in Tasks, st[t].pc = "done", noise[t] = {},
                      call[t].name \in {"read", "write"}
               PROVE  LET o == call[t].options
                          old == before[t]
                      IN  IF st[t].ino = Missing
                          THEN st[t].res \notin {"Ok", "Created"} /\ Contents(call[t].path) = old
                          ELSE /\ old # Missing => "create_new" \notin o
                               /\ old = Missing => o \cap {"create", "create_new"} # {}
                               /\ st[t].res = "UnexpectedEof" => FALSE
                               /\ st[t].res = "Ok" =>
                                    data[st[t].ino] = IF call[t].name = "read" THEN st[t].buf
                                                      ELSE Written(o, old, call[t].contents)
    BY DEF FilesRight
  <1>1. FileDone(st[t], call[t], before[t], tree, data) /\ call[t].path \in Paths
    BY DEF FsInv, TaskInv, FileInv, CallOK
  <1>2. Contents(call[t].path) = ContentsIn(tree, data, call[t].path)
    BY <1>1, ContentsFacts
  <1>3. CASE st[t].ino = Missing
    BY <1>1, <1>2, <1>3 DEF FileDone
  <1>4. CASE st[t].ino # Missing
    BY <1>1, <1>4, Zenon DEF FileDone, OpenRight
  <1> QED
    BY <1>3, <1>4

(* create_dir_all made the directory if it says so, and fails only for a   *)
(* reason, whatever other tasks and processes do meanwhile.                *)
THEOREM DirectoriesMade ==
  FsSpec => []TreeMade
  BY FsInvariance, TreeMadeThen, PTL

(* A file that was opened, and written or read with no other call in       *)
(* between, holds what the options promise, short and interrupted calls    *)
(* notwithstanding; and it is as it was if it could not be opened.         *)
THEOREM FilesAsPromised ==
  FsSpec => []FilesRight
  BY FsInvariance, FilesRightThen, PTL

=============================================================================
