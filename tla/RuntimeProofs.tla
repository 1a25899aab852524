---------------------------- MODULE RuntimeProofs ---------------------------
(***************************************************************************)
(* The loop of block_on never sleeps on work, and every task is in one     *)
(* place from which it is going to be run or woken, for every set of tasks,*)
(* both drivers, with and without a thread pool. The second part is about  *)
(* what those tasks most often do: between two applications that read and  *)
(* write a connection through the stacks of monoio's io traits, with or    *)
(* without a relay, no byte is lost, doubled or moved.                     *)
(***************************************************************************)
EXTENDS Runtime, Stream, SequenceTheorems, WellFoundedInduction, TLAPS

(* Some task runs exactly while block_on is in the call of its run().      *)
RunInv ==
  /\ pc = "run" <=> cur # NoTask
  /\ \A t \in Tasks : st[t] = "running" <=> cur = t

(* The queue holds every task that is to run, once.                        *)
QueueInv ==
  /\ \A t \in Tasks : st[t] = "queued" <=> \E i \in 1..Len(queue) : queue[i] = t
  /\ \A i, j \in 1..Len(queue) : queue[i] = queue[j] => i = j

(* A task that waits is where somebody is going to wake it from: its       *)
(* operation is in one of the queues of the driver, its expired timer is   *)
(* registered, its closure is with the pool or its waker in the channel.   *)
WaitInv ==
  /\ \A t \in Tasks : st[t] = "io" <=> t \in sq \cup kernel \cup cq
  /\ sq \cap kernel = {} /\ sq \cap cq = {} /\ kernel \cap cq = {}
  /\ \A t \in due : st[t] = "timer"
  /\ \A t \in chan : st[t] = "job"
  /\ \A t \in Tasks : st[t] = "job" => job[t] \in {"pool", "running", "lost"} \/ t \in chan

(* The output of the main task is fetched: the flag is up once it is done, *)
(* which needs the dummy waker whenever the flag is down.                  *)
MainInv ==
  pc # "idle" => /\ flag \/ joinWaker
                 /\ st[Main] = "done" => flag

(* On the way to the wait the flag is down, and a task is queued only if   *)
(* the tick of a busy kernel woke it.                                      *)
ParkInv ==
  /\ pc \in {"drain", "enter", "busy", "sleep"} => ~flag
  /\ pc \in {"drain", "enter", "busy", "sleep"} /\ mode = "park" /\ needWait =>
       \A t \in Tasks : st[t] = "queued" => t \in missed
  /\ pc = "sleep" => mode = "park" /\ needWait
  /\ pc = "busy" /\ mode = "park" => needWait
  /\ missed # {} => pc \in {"busy", "sleep"} /\ mode = "park"

RuntimeInv == TypeOK /\ RunInv /\ QueueInv /\ WaitInv /\ MainInv /\ ParkInv

-----------------------------------------------------------------------------
(* The run queue.                                                          *)

(* A task that is not queued goes to the back, and is queued once.         *)
LEMMA PushKeepsQueueInv ==
  ASSUME TypeOK, QueueInv, NEW t \in Tasks, st[t] # "queued", Push(t)
  PROVE  /\ queue' \in Seq(Tasks) /\ QueueInv'
         /\ st' \in [Tasks -> {"none", "queued", "running", "done"} \cup Waits]
         /\ st'[t] = "queued" /\ \A u \in Tasks : u # t => st'[u] = st[u]
  <1>1. queue' = Append(queue, t) /\ st' = [st EXCEPT ![t] = "queued"] /\ queue \in Seq(Tasks)
    BY DEF Push, TypeOK
  <1>2. /\ queue' \in Seq(Tasks) /\ Len(queue) \in Nat /\ Len(queue') = Len(queue) + 1
        /\ \A i \in 1..Len(queue) : queue'[i] = queue[i]
        /\ queue'[Len(queue) + 1] = t
    BY <1>1
  <1>3. /\ st' \in [Tasks -> {"none", "queued", "running", "done"} \cup Waits]
        /\ st'[t] = "queued" /\ \A u \in Tasks : u # t => st'[u] = st[u]
    BY <1>1 DEF TypeOK
  <1>4. \A i \in 1..Len(queue) : queue[i] # t
    BY DEF QueueInv
  <1>5. \A u \in Tasks : (\E i \in 1..Len(queue') : queue'[i] = u)
                           <=> (u = t \/ \E i \in 1..Len(queue) : queue[i] = u)
    BY <1>2
  <1>6. \A i, j \in 1..Len(queue') : queue'[i] = queue'[j] => i = j
    BY <1>2, <1>4 DEF QueueInv
  <1>7. QueueInv'
    BY <1>3, <1>5, <1>6 DEF QueueInv
  <1> QED
    BY <1>2, <1>3, <1>7

(* The front of the queue leaves it.                                       *)
LEMMA PopKeepsQueueInv ==
  ASSUME TypeOK, QueueInv, Pop
  PROVE  /\ queue' \in Seq(Tasks) /\ QueueInv' /\ cur' \in Tasks /\ st[cur'] = "queued"
         /\ st' = [st EXCEPT ![cur'] = "running"]
  <1>1. /\ queue \in Seq(Tasks) /\ queue # <<>> /\ queue' = Tail(queue) /\ cur' = Head(queue)
        /\ st' = [st EXCEPT ![Head(queue)] = "running"]
    BY DEF Pop, TypeOK
  <1>2. /\ queue' \in Seq(Tasks) /\ Len(queue) \in Nat /\ Len(queue) > 0
        /\ Len(queue') = Len(queue) - 1 /\ cur' = queue[1] /\ cur' \in Tasks
        /\ \A i \in 1..Len(queue') : queue'[i] = queue[i + 1]
    BY <1>1
  <1>3. st[cur'] = "queued"
    BY <1>2 DEF QueueInv
  <1>4. \A i, j \in 1..Len(queue') : queue'[i] = queue'[j] => i = j
    BY <1>2 DEF QueueInv
  <1>5. \A u \in Tasks : (\E i \in 1..Len(queue') : queue'[i] = u)
                           <=> (u # cur' /\ \E i \in 1..Len(queue) : queue[i] = u)
    <2> SUFFICES ASSUME NEW u \in Tasks
                 PROVE  (\E i \in 1..Len(queue') : queue'[i] = u)
                          <=> (u # cur' /\ \E i \in 1..Len(queue) : queue[i] = u)
      OBVIOUS
    <2>1. ASSUME NEW i \in 1..Len(queue'), queue'[i] = u
          PROVE  u # cur' /\ \E k \in 1..Len(queue) : queue[k] = u
      <3>1. i + 1 \in 1..Len(queue) /\ i + 1 # 1 /\ queue[i + 1] = u /\ 1 \in 1..Len(queue)
        BY <1>2, <2>1
      <3> QED
        BY <1>2, <3>1 DEF QueueInv
    <2>2. ASSUME NEW i \in 1..Len(queue), queue[i] = u, u # cur'
          PROVE  \E k \in 1..Len(queue') : queue'[k] = u
      <3>1. i - 1 \in 1..Len(queue') /\ queue'[i - 1] = u
        BY <1>2, <2>2
      <3> QED
        BY <3>1
    <2> QED
      BY <2>1, <2>2
  <1>6. QueueInv'
    BY <1>1, <1>2, <1>4, <1>5 DEF QueueInv, TypeOK
  <1> QED
    BY <1>1, <1>2, <1>3, <1>6

-----------------------------------------------------------------------------
(* The runtime starts outside of block_on.                                 *)
LEMMA InitRuntimeInv == Init => RuntimeInv
  <1> SUFFICES ASSUME Init
               PROVE  RuntimeInv
    OBVIOUS
  <1>1. TypeOK
    <2>1. queue \in Seq(Tasks)
      BY EmptySeq DEF Init
    <2> QED
      BY <2>1 DEF Init, TypeOK, Waits
  <1>2. RunInv /\ WaitInv /\ MainInv /\ ParkInv
    BY RuntimeAssumption DEF Init, RunInv, WaitInv, MainInv, ParkInv
  <1>3. QueueInv
    BY DEF Init, QueueInv
  <1> QED
    BY <1>1, <1>2, <1>3 DEF RuntimeInv

(* block_on is entered with a future that is not a task yet, or whose task *)
(* of an earlier call is done.                                             *)
LEMMA BlockOnKeepsRuntimeInv ==
  ASSUME RuntimeInv, BlockOn, UNCHANGED <<legacy, pooled>>
  PROVE  RuntimeInv'
  <1> USE DEF RuntimeInv
  <1>1. /\ pc = "idle" /\ st[Main] \in {"none", "done"} /\ Push(Main)
        /\ flag' = TRUE /\ joinWaker' = FALSE /\ pc' = "start"
        /\ UNCHANGED <<mode, needWait, missed, round, cur, sq, kernel, cq, due, job, chan>>
    BY DEF BlockOn, ops, visit
  <1>2. Main \in Tasks /\ NoTask \notin Tasks
    BY RuntimeAssumption
  <1>3. /\ queue' \in Seq(Tasks) /\ QueueInv'
        /\ st' \in [Tasks -> {"none", "queued", "running", "done"} \cup Waits]
        /\ st'[Main] = "queued" /\ \A u \in Tasks : u # Main => st'[u] = st[u]
    BY <1>1, <1>2, PushKeepsQueueInv
  <1>4. TypeOK'
    BY <1>1, <1>3 DEF TypeOK
  <1>5. RunInv'
    BY <1>1, <1>2, <1>3 DEF RunInv, TypeOK
  <1>6. WaitInv'
    BY <1>1, <1>2, <1>3 DEF WaitInv, TypeOK
  <1>7. MainInv' /\ ParkInv'
    BY <1>1, <1>3 DEF MainInv, ParkInv
  <1> QED
    BY <1>3, <1>4, <1>5, <1>6, <1>7

(* block_on takes a task out of the queue.                                 *)
LEMMA PopKeepsRuntimeInv ==
  ASSUME RuntimeInv, Pop, UNCHANGED <<legacy, pooled>>
  PROVE  RuntimeInv'
  <1> USE DEF RuntimeInv
  <1>1. /\ pc = "pop" /\ pc' = "run"
        /\ UNCHANGED <<mode, needWait, missed, round, flag, joinWaker, sq, kernel, cq, due, job, chan>>
    BY DEF Pop, ops, visit
  <1>2. NoTask \notin Tasks /\ Main \in Tasks
    BY RuntimeAssumption
  <1>3. /\ queue' \in Seq(Tasks) /\ QueueInv' /\ cur' \in Tasks /\ st[cur'] = "queued"
        /\ st' = [st EXCEPT ![cur'] = "running"]
    BY PopKeepsQueueInv
  <1>4. st'[cur'] = "running" /\ \A u \in Tasks : u # cur' => st'[u] = st[u]
    BY <1>3 DEF TypeOK
  <1>5. TypeOK'
    BY <1>1, <1>3 DEF TypeOK
  <1>6. RunInv'
    BY <1>1, <1>2, <1>3, <1>4 DEF RunInv
  <1>7. WaitInv'
    BY <1>1, <1>3, <1>4 DEF WaitInv, TypeOK
  <1>8. MainInv' /\ ParkInv'
    BY <1>1, <1>2, <1>3, <1>4 DEF MainInv, ParkInv
  <1> QED
    BY <1>3, <1>5, <1>6, <1>7, <1>8

(* The task that runs puts another one into the queue.                     *)
LEMMA SpawnKeepsRuntimeInv ==
  ASSUME RuntimeInv, NEW t \in Tasks, Spawn(t) \/ WakePeer(t), UNCHANGED <<legacy, pooled>>
  PROVE  RuntimeInv'
  <1> USE DEF RuntimeInv
  <1>1. /\ pc = "run" /\ st[t] \in {"none", "peer"} /\ Push(t)
        /\ UNCHANGED <<pc, mode, needWait, missed, round, cur, flag, joinWaker, sq, kernel, cq, due, job, chan>>
    BY DEF Spawn, WakePeer, ops, loop, visit
  <1>2. /\ queue' \in Seq(Tasks) /\ QueueInv'
        /\ st' \in [Tasks -> {"none", "queued", "running", "done"} \cup Waits]
        /\ st'[t] = "queued" /\ \A u \in Tasks : u # t => st'[u] = st[u]
    BY <1>1, PushKeepsQueueInv
  <1>3. TypeOK'
    BY <1>1, <1>2 DEF TypeOK
  <1>4. RunInv'
    BY <1>1, <1>2 DEF RunInv
  <1>5. WaitInv'
    BY <1>1, <1>2 DEF WaitInv, TypeOK
  <1>6. MainInv' /\ ParkInv'
    BY <1>1, <1>2, RuntimeAssumption DEF MainInv, ParkInv
  <1> QED
    BY <1>2, <1>3, <1>4, <1>5, <1>6

(* How a run ends.                                                         *)
LEMMA EndRunFacts ==
  ASSUME RuntimeInv, EndRun
  PROVE  /\ pc = "run" /\ cur \in Tasks /\ st[cur] = "running"
         /\ cur' = NoTask /\ pc' \in {"main", "pop"} /\ round' \in Nat
         /\ UNCHANGED <<mode, needWait, missed>>
  <1>1. pc = "run" /\ cur' = NoTask /\ pc' \in {"main", "pop"} /\ UNCHANGED <<mode, needWait, missed>>
    BY DEF EndRun, visit
  <1>2. round' \in Nat
    BY DEF EndRun, RuntimeInv, TypeOK
  <1>3. cur \in Tasks /\ st[cur] = "running"
    BY <1>1 DEF RuntimeInv, TypeOK, RunInv
  <1> QED
    BY <1>1, <1>2, <1>3

(* A task that yields goes to the end of the queue.                        *)
LEMMA YieldKeepsRuntimeInv ==
  ASSUME RuntimeInv, Yield, UNCHANGED <<legacy, pooled>>
  PROVE  RuntimeInv'
  <1> USE DEF RuntimeInv
  <1>1. /\ pc = "run" /\ cur \in Tasks /\ st[cur] = "running"
        /\ cur' = NoTask /\ pc' \in {"main", "pop"} /\ round' \in Nat /\ Push(cur)
        /\ UNCHANGED <<mode, needWait, missed, flag, joinWaker, sq, kernel, cq, due, job, chan>>
    BY EndRunFacts DEF Yield, ops
  <1>2. /\ queue' \in Seq(Tasks) /\ QueueInv'
        /\ st' \in [Tasks -> {"none", "queued", "running", "done"} \cup Waits]
        /\ st'[cur] = "queued" /\ \A u \in Tasks : u # cur => st'[u] = st[u]
    BY <1>1, PushKeepsQueueInv
  <1>3. TypeOK'
    BY <1>1, <1>2 DEF TypeOK
  <1>4. RunInv'
    BY <1>1, <1>2, RuntimeAssumption DEF RunInv
  <1>5. WaitInv'
    BY <1>1, <1>2 DEF WaitInv, TypeOK
  <1>6. MainInv' /\ ParkInv'
    BY <1>1, <1>2, RuntimeAssumption DEF MainInv, ParkInv
  <1> QED
    BY <1>2, <1>3, <1>4, <1>5, <1>6

(* The run ends with a wait, or for good; the main task, when it is done,  *)
(* raises the flag through the dummy waker.                                *)
LEMMA WaitKeepsRuntimeInv ==
  ASSUME RuntimeInv, AwaitIo \/ Await \/ Finish, UNCHANGED <<legacy, pooled>>
  PROVE  RuntimeInv'
  <1> USE DEF RuntimeInv
  <1>1. /\ pc = "run" /\ cur \in Tasks /\ st[cur] = "running"
        /\ cur' = NoTask /\ pc' \in {"main", "pop"} /\ round' \in Nat
        /\ UNCHANGED <<mode, needWait, missed, joinWaker, queue, cq, due, job, chan>>
    BY EndRunFacts DEF AwaitIo, Await, Finish, ops
  <1>2. PICK s \in {"done", "io", "timer", "peer", "job"} :
          /\ st' = [st EXCEPT ![cur] = s]
          /\ s = "done" => flag' = (flag \/ (cur = Main /\ joinWaker)) /\ UNCHANGED <<sq, kernel>>
          /\ s = "io" => /\ UNCHANGED flag
                         /\ \/ kernel' = kernel \cup {cur} /\ UNCHANGED sq
                            \/ sq' = sq \cup {cur} /\ UNCHANGED kernel
          /\ s \in {"timer", "peer", "job"} => UNCHANGED <<flag, sq, kernel>>
          /\ s = "job" => job[cur] \in {"pool", "running", "lost"}
    BY DEF AwaitIo, Await, Finish, ops
  <1>3. /\ st' \in [Tasks -> {"none", "queued", "running", "done"} \cup Waits]
        /\ st'[cur] = s /\ \A u \in Tasks : u # cur => st'[u] = st[u]
    BY <1>1, <1>2 DEF TypeOK, Waits
  <1>4. flag' \in BOOLEAN /\ sq' \subseteq Tasks /\ kernel' \subseteq Tasks
    BY <1>1, <1>2 DEF TypeOK
  <1>5. TypeOK'
    BY <1>1, <1>3, <1>4 DEF TypeOK
  <1>6. RunInv'
    BY <1>1, <1>3, RuntimeAssumption DEF RunInv
  <1>7. QueueInv'
    BY <1>1, <1>3 DEF QueueInv
  <1>8. WaitInv'
    <2>1. \A u \in Tasks : st'[u] = "io" <=> u \in (sq \cup kernel \cup cq)'
      BY <1>1, <1>2, <1>3 DEF WaitInv
    <2>2. (sq \cap kernel = {} /\ sq \cap cq = {} /\ kernel \cap cq = {})'
      BY <1>1, <1>2 DEF WaitInv
    <2>3. \A u \in due : st'[u] = "timer"
      BY <1>1, <1>3 DEF WaitInv, TypeOK
    <2>4. \A u \in chan : st'[u] = "job"
      BY <1>1, <1>3 DEF WaitInv, TypeOK
    <2>5. \A u \in Tasks : st'[u] = "job" => job[u] \in {"pool", "running", "lost"} \/ u \in chan
      BY <1>1, <1>2, <1>3 DEF WaitInv
    <2> QED
      BY <1>1, <2>1, <2>2, <2>3, <2>4, <2>5 DEF WaitInv
  <1>9. MainInv' /\ ParkInv'
    <2>1. flag => flag'
      BY <1>2
    <2>2. st'[Main] = "done" => flag'
      BY <1>1, <1>2, <1>3, <2>1, RuntimeAssumption DEF MainInv
    <2> QED
      BY <1>1, <2>1, <2>2 DEF MainInv, ParkInv
  <1> QED
    BY <1>5, <1>6, <1>7, <1>8, <1>9

(* The steps of block_on and of the driver that leave the tasks alone.     *)
LEMMA LoopKeepsRuntimeInv ==
  ASSUME RuntimeInv, UNCHANGED <<legacy, pooled>>,
         \/ StartRound \/ PopNone \/ PollMain \/ CallDriver \/ DriverTrouble
         \/ DrainEnds \/ Enter \/ WakeUp \/ TickEnds \/ TimersEnd
  PROVE  RuntimeInv'
  <1> USE DEF RuntimeInv
  <1> USE DEF StartRound, PopNone, PollMain, CallDriver, DriverTrouble, KernelBusy, TickUnpark,
      DriverFails, WakeUpEarly, DrainEnds, Enter, WakeUp, TickEnds, TimersEnd
  <1>1. UNCHANGED <<cur, queue, st, cq, due, job, chan>>
    BY DEF ops
  <1>2. /\ pc # "run" /\ pc' # "run" /\ pc # "idle"
        /\ pc' \in {"idle", "pop", "main", "drain", "enter", "busy", "sleep", "tick", "timers", "start"}
        /\ mode' \in {"submit", "park"} /\ needWait' \in BOOLEAN
        /\ flag' \in BOOLEAN /\ joinWaker' \in BOOLEAN
    BY DEF ops, visit, TypeOK
  <1>3. round' \in Nat /\ missed' \subseteq Tasks
    <2>1. round' = round \/ round' = 2 * Len(queue) \/ round' = 0
      OBVIOUS
    <2>2. queue \in Seq(Tasks) /\ round \in Nat /\ missed \subseteq Tasks /\ chan \subseteq Tasks
      BY DEF TypeOK
    <2>3. Len(queue) \in Nat
      BY <2>2
    <2>4. missed' = missed \/ missed' = {} \/ missed' = missed \cup chan
      BY DEF visit
    <2> QED
      BY <2>1, <2>2, <2>3, <2>4
  <1>4. UNCHANGED <<sq, kernel>> \/ (kernel' = kernel \cup sq /\ sq' = {})
    BY DEF ops
  <1>5. TypeOK'
    BY <1>1, <1>2, <1>3, <1>4 DEF TypeOK
  <1>6. RunInv' /\ QueueInv'
    BY <1>1, <1>2 DEF RunInv, QueueInv
  <1>7. WaitInv'
    BY <1>1, <1>4 DEF WaitInv, TypeOK
  <1>8. MainInv'
    BY <1>1, <1>2 DEF MainInv, TypeOK
  <1>9. ParkInv'
    <2>1. CASE CallDriver
      <3>1. queue = <<>> => \A t \in Tasks : st[t] # "queued"
        BY DEF QueueInv
      <3> QED
        BY <1>1, <2>1, <3>1 DEF ParkInv
    <2>2. CASE KernelBusy \/ DrainEnds \/ Enter
      BY <1>1, <2>2 DEF ParkInv, TypeOK, visit
    <2>3. CASE TickUnpark
      BY <1>1, <2>3 DEF ParkInv
    <2>4. CASE StartRound \/ PopNone \/ PollMain \/ DriverFails \/ WakeUpEarly \/ WakeUp \/ TickEnds
               \/ TimersEnd
      <3>1. pc' \notin {"drain", "enter", "busy", "sleep"} /\ missed' = {}
        BY <2>4 DEF ParkInv, visit
      <3> QED
        BY <3>1 DEF ParkInv
    <2> QED
      BY <2>1, <2>2, <2>3, <2>4 DEF DriverTrouble
  <1> QED
    BY <1>5, <1>6, <1>7, <1>8, <1>9

(* The driver wakes a task: a completion, a timer or a foreign waker.      *)
LEMMA ServeKeepsRuntimeInv ==
  ASSUME RuntimeInv, NEW t \in Tasks, Drain(t) \/ TickIo(t) \/ FireTimer(t),
         UNCHANGED <<legacy, pooled>>
  PROVE  RuntimeInv'
  <1> USE DEF RuntimeInv
  <1>1. /\ t \in chan => st[t] = "job"
        /\ t \in due => st[t] = "timer"
        /\ t \in cq => st[t] = "io"
    BY DEF WaitInv
  <1>2. /\ st[t] \in {"job", "timer", "io"} /\ Push(t)
        /\ cq' = cq \ {t} \/ (cq' = cq /\ st[t] # "io")
        /\ due' = due \ {t} \/ (due' = due /\ st[t] # "timer")
        /\ chan' = chan \ {t} \/ (chan' = chan /\ st[t] # "job")
        /\ UNCHANGED <<pc, mode, round, cur, flag, joinWaker, sq, kernel, job>>
        /\ missed' = IF pc = "busy" /\ mode = "park" THEN missed \cup {t} ELSE missed
    BY <1>1 DEF Drain, TickIo, FireTimer, Wake, Waits, ops, loop, visit
  <1>3. /\ pc \in {"drain", "tick", "busy", "timers"}
        /\ needWait' \in BOOLEAN /\ (pc = "drain" => ~needWait') /\ (pc # "drain" => needWait' = needWait)
        /\ st[t] = "io" => t \in cq
    BY <1>1 DEF Drain, TickIo, FireTimer, TypeOK, loop, visit
  <1>4. /\ queue' \in Seq(Tasks) /\ QueueInv'
        /\ st' \in [Tasks -> {"none", "queued", "running", "done"} \cup Waits]
        /\ st'[t] = "queued" /\ \A u \in Tasks : u # t => st'[u] = st[u]
    BY <1>2, PushKeepsQueueInv
  <1>5. TypeOK'
    BY <1>2, <1>3, <1>4 DEF TypeOK
  <1>6. RunInv'
    BY <1>2, <1>4 DEF RunInv
  <1>7. WaitInv'
    <2>1. t \notin sq \cup kernel
      BY <1>3 DEF WaitInv
    <2> QED
      BY <1>2, <1>3, <1>4, <2>1 DEF WaitInv, TypeOK
  <1>8. MainInv' /\ ParkInv'
    BY <1>2, <1>3, <1>4, RuntimeAssumption DEF MainInv, ParkInv
  <1> QED
    BY <1>4, <1>5, <1>6, <1>7, <1>8

(* Closures, and everything outside of the thread.                         *)
LEMMA OutsideKeepsRuntimeInv ==
  ASSUME RuntimeInv, SpawnBlocking \/ TakeResult \/ Environment, UNCHANGED <<legacy, pooled>>
  PROVE  RuntimeInv'
  <1> USE DEF RuntimeInv
  <1>1. UNCHANGED <<pc, mode, needWait, missed, round, cur, flag, joinWaker, queue, st, sq>>
    BY DEF SpawnBlocking, TakeResult, Environment, IoCompletes, TimerExpires, PoolRuns, JobEnds,
       JobPanics, loop, visit, ops
  <1>2. RunInv' /\ QueueInv' /\ MainInv' /\ ParkInv'
    BY <1>1 DEF RunInv, QueueInv, MainInv, ParkInv
  <1>3. CASE SpawnBlocking \/ TakeResult
    <2>1. cur \in Tasks /\ st[cur] = "running"
      BY <1>3 DEF SpawnBlocking, TakeResult, RunInv, TypeOK
    <2>2. /\ job' \in [Tasks -> {"none", "pool", "running", "ended", "lost"}]
          /\ \A u \in Tasks : u # cur => job'[u] = job[u]
          /\ UNCHANGED <<kernel, cq, due, chan>>
      BY <1>3, <2>1 DEF SpawnBlocking, TakeResult, TypeOK, ops
    <2>3. TypeOK'
      BY <1>1, <2>2 DEF TypeOK
    <2>4. WaitInv'
      BY <1>1, <2>1, <2>2 DEF WaitInv
    <2> QED
      BY <1>2, <2>3, <2>4
  <1>4. ASSUME NEW t \in Tasks, IoCompletes(t) \/ TimerExpires(t)
        PROVE  RuntimeInv'
    <2>1. TypeOK'
      BY <1>1, <1>4 DEF IoCompletes, TimerExpires, TypeOK, ops
    <2>2. WaitInv'
      BY <1>1, <1>4 DEF IoCompletes, TimerExpires, WaitInv, TypeOK, ops
    <2> QED
      BY <1>2, <2>1, <2>2
  <1>5. ASSUME NEW t \in Tasks, PoolRuns(t) \/ JobEnds(t) \/ JobPanics(t)
        PROVE  RuntimeInv'
    <2>1. /\ job' \in [Tasks -> {"none", "pool", "running", "ended", "lost"}]
          /\ \A u \in Tasks : u # t => job'[u] = job[u]
          /\ UNCHANGED <<kernel, cq, due>>
      BY <1>5 DEF PoolRuns, JobEnds, JobPanics, TypeOK, ops
    <2>2. \/ job'[t] \in {"pool", "running", "lost"} /\ chan' = chan
          \/ chan' = IF st[t] = "job" THEN chan \cup {t} ELSE chan
      BY <1>5 DEF PoolRuns, JobEnds, JobPanics, TypeOK
    <2>3. TypeOK'
      BY <1>1, <2>1, <2>2 DEF TypeOK
    <2>4. WaitInv'
      BY <1>1, <2>1, <2>2 DEF WaitInv
    <2> QED
      BY <1>2, <2>3, <2>4
  <1> QED
    BY <1>3, <1>4, <1>5 DEF Environment

-----------------------------------------------------------------------------
(* The inductive invariant of the runtime thread.                          *)
THEOREM RuntimeInvariant == Spec => []RuntimeInv
  <1>1. Init => RuntimeInv
    BY InitRuntimeInv
  <1>2. RuntimeInv /\ [Next /\ UNCHANGED <<legacy, pooled>>]_<<vars, legacy, pooled>> => RuntimeInv'
    <2> SUFFICES ASSUME RuntimeInv, [Next /\ UNCHANGED <<legacy, pooled>>]_<<vars, legacy, pooled>>
                 PROVE  RuntimeInv'
      OBVIOUS
    <2>1. CASE Next /\ UNCHANGED <<legacy, pooled>>
      BY <2>1, BlockOnKeepsRuntimeInv, PopKeepsRuntimeInv, SpawnKeepsRuntimeInv,
         YieldKeepsRuntimeInv, WaitKeepsRuntimeInv, LoopKeepsRuntimeInv, ServeKeepsRuntimeInv,
         OutsideKeepsRuntimeInv DEF Next, LoopStep, TaskStep
    <2>2. CASE UNCHANGED <<vars, legacy, pooled>>
      BY <2>2 DEF vars, loop, visit, ops, RuntimeInv, TypeOK, RunInv, QueueInv, WaitInv, MainInv, ParkInv
    <2> QED
      BY <2>1, <2>2
  <1> QED
    BY <1>1, <1>2, PTL DEF Spec

(* The thread never blocks in its driver while the output of the main task *)
(* waits to be returned by block_on, nor while a task is queued that the   *)
(* tick of a busy kernel has not woken on the way to this very wait.       *)
THEOREM RuntimeNoSleepOnWork == Spec => []NoSleepOnWork
  <1>1. ASSUME RuntimeInv
        PROVE  NoSleepOnWork
    <2>1. ASSUME pc = "sleep", NEW i \in 1..Len(queue)
          PROVE  SleepsOn(queue[i])
      <3>1. queue[i] \in Tasks
        BY <1>1 DEF RuntimeInv, TypeOK
      <3>2. st[queue[i]] = "queued"
        BY <1>1, <3>1 DEF RuntimeInv, QueueInv
      <3> QED
        BY <1>1, <2>1, <3>1, <3>2 DEF RuntimeInv, ParkInv, SleepsOn
    <2> QED
      BY <1>1, <2>1 DEF RuntimeInv, NoSleepOnWork, MainInv, ParkInv
  <1> QED
    BY <1>1, RuntimeInvariant, PTL

(* No task is forgotten, doubled or woken for nothing: while it is queued  *)
(* it is in the queue once, a wait for an operation is a wait for exactly  *)
(* one entry of the driver, and when the closure a task waits for ends     *)
(* its waker is in the channel.                                            *)
TasksAccounted ==
  /\ \A t \in Tasks : st[t] = "queued" <=> \E i \in 1..Len(queue) : queue[i] = t
  /\ \A i, j \in 1..Len(queue) : queue[i] = queue[j] => i = j
  /\ \A t \in Tasks : st[t] = "io" <=> t \in sq \cup kernel \cup cq
  /\ sq \cap kernel = {} /\ sq \cap cq = {} /\ kernel \cap cq = {}
  /\ \A t \in due : st[t] = "timer"
  /\ \A t \in Tasks : st[t] = "job" /\ job[t] = "ended" => t \in chan

(* The run queue, the queues of the driver, the timers and the channel     *)
(* between them hold every task that is neither running nor done nor left  *)
(* to a peer or a closure that goes on.                                    *)
THEOREM RuntimeTasksAccounted == Spec => []TasksAccounted
  <1>1. RuntimeInv => TasksAccounted
    BY DEF RuntimeInv, QueueInv, WaitInv, TasksAccounted
  <1> QED
    BY <1>1, RuntimeInvariant, PTL

-----------------------------------------------------------------------------
(* A nonempty set of natural numbers has a least element.                  *)
LEMMA LeastNat ==
  ASSUME NEW T, T \subseteq Nat, T # {}
  PROVE  \E x \in T : \A y \in T : x <= y
  <1>1. \E x \in T : \A y \in T : ~(<<y, x>> \in OpToRel(<, Nat))
    BY NatLessThanWellFounded, WFMin, Zenon
  <1>2. PICK x \in T : \A y \in T : ~(y < x)
    BY <1>1 DEF OpToRel
  <1>3. \A y \in T : x <= y
    BY <1>2
  <1> QED
    BY <1>3

(* Induction, up to a bound.                                               *)
LEMMA CountUp ==
  ASSUME NEW n \in Nat, NEW S, 0 \in S, \A i \in 0..(n - 1) : i \in S => i + 1 \in S
  PROVE  0..n \subseteq S
  <1> SUFFICES ASSUME NEW k \in 0..n, k \notin S
               PROVE  FALSE
    OBVIOUS
  <1> DEFINE T == {i \in 0..n : i \notin S}
  <1>1. PICK x \in T : \A y \in T : x <= y
    <2>1. T \subseteq Nat /\ T # {}
      OBVIOUS
    <2> HIDE DEF T
    <2> QED
      BY <2>1, LeastNat
  <1>2. x # 0 /\ x - 1 \in 0..(n - 1) /\ x - 1 \notin T /\ (x - 1) + 1 = x
    BY <1>1
  <1> QED
    BY <1>1, <1>2

-----------------------------------------------------------------------------
(* Runs: bytes that follow one another, from the one after a.              *)

(* The strings of bytes.                                                   *)
Bytes == Seq(Int)
IsRun(s, a) == \A k \in 1..Len(s) : s[k] = a + k

(* What the bytes of a concatenation are.                                  *)
LEMMA BytesConcat ==
  ASSUME NEW s \in Bytes, NEW t \in Bytes
  PROVE  /\ s \o t \in Bytes /\ Len(s \o t) = Len(s) + Len(t)
         /\ \A k \in 1..(Len(s) + Len(t)) :
              (s \o t)[k] = IF k <= Len(s) THEN s[k] ELSE t[k - Len(s)]
  BY ConcatProperties DEF Bytes

(* What the bytes of a part are.                                           *)
LEMMA BytesSub ==
  ASSUME NEW s \in Bytes, NEW a \in Nat, NEW n \in Nat, a + n <= Len(s)
  PROVE  /\ SubSeq(s, a + 1, a + n) \in Bytes /\ Len(SubSeq(s, a + 1, a + n)) = n
         /\ \A k \in 1..n : SubSeq(s, a + 1, a + n)[k] = s[a + k]
  <1>1. \A i \in (a + 1)..(a + n) : s[i] \in Int
    BY DEF Bytes
  <1>2. PICK b \in Int, c \in Int : b = a + 1 /\ c = a + n
    OBVIOUS
  <1>3. PICK t : t = SubSeq(s, b, c)
    OBVIOUS
  <1>4. \A i \in b..c : s[i] \in Int
    BY <1>1, <1>2
  <1>5. /\ t \in Seq(Int) /\ Len(t) = IF b <= c THEN c - b + 1 ELSE 0
        /\ \A k \in 1..(c - b + 1) : t[k] = s[b + k - 1]
    BY <1>3, <1>4, SubSeqProperties
  <1>6. c - b + 1 = n /\ (b > c => n = 0) /\ \A k \in 1..n : b + k - 1 = a + k
    BY <1>2
  <1> QED
    BY <1>2, <1>3, <1>5, <1>6 DEF Bytes

(* The first n bytes of a string are its bytes 1 to n.                     *)
LEMMA BytesHead ==
  ASSUME NEW s \in Bytes, NEW n \in 0..Len(s)
  PROVE  /\ SubSeq(s, 1, n) \in Bytes /\ Len(SubSeq(s, 1, n)) = n
         /\ \A k \in 1..n : SubSeq(s, 1, n)[k] = s[k]
  <1>1. PICK m \in Nat : m = Len(s)
    BY DEF Bytes
  <1> QED
    BY <1>1 DEF Bytes

(* A run that goes on with the next one is a run.                          *)
LEMMA RunConcat ==
  ASSUME NEW s \in Bytes, NEW t \in Bytes, NEW a \in Int, IsRun(s, a), IsRun(t, a + Len(s))
  PROVE  s \o t \in Bytes /\ Len(s \o t) = Len(s) + Len(t) /\ IsRun(s \o t, a)
  <1>1. PICK n \in Nat : n = Len(s)
    BY DEF Bytes
  <1>2. PICK m \in Nat : m = Len(t)
    BY DEF Bytes
  <1>3. /\ s \o t \in Bytes /\ Len(s \o t) = n + m
        /\ \A k \in 1..(n + m) : (s \o t)[k] = IF k <= n THEN s[k] ELSE t[k - n]
    BY <1>1, <1>2 DEF Bytes
  <1>4. \A k \in 1..n : s[k] = a + k
    BY <1>1 DEF IsRun
  <1>5. \A k \in 1..m : t[k] = (a + n) + k
    BY <1>1, <1>2 DEF IsRun
  <1>6. ASSUME NEW k \in 1..(n + m)
        PROVE  (s \o t)[k] = a + k
    <2>1. CASE k <= n
      BY <1>3, <1>4, <2>1
    <2>2. CASE ~(k <= n)
      <3>1. k - n \in 1..m /\ (a + n) + (k - n) = a + k
        BY <2>2
      <3> QED
        BY <1>3, <1>5, <2>2, <3>1
    <2> QED
      BY <2>1, <2>2
  <1> QED
    BY <1>1, <1>2, <1>3, <1>6 DEF IsRun

(* So are its beginning and what follows it.                               *)
LEMMA RunHead ==
  ASSUME NEW s \in Bytes, NEW a \in Int, IsRun(s, a), NEW n \in 0..Len(s)
  PROVE  SubSeq(s, 1, n) \in Bytes /\ Len(SubSeq(s, 1, n)) = n /\ IsRun(SubSeq(s, 1, n), a)
  <1>1. PICK m \in Nat : m = Len(s)
    BY DEF Bytes
  <1>2. /\ SubSeq(s, 1, n) \in Bytes /\ Len(SubSeq(s, 1, n)) = n
        /\ \A k \in 1..n : SubSeq(s, 1, n)[k] = s[k]
    BY BytesHead
  <1> QED
    BY <1>1, <1>2 DEF IsRun

(* What is left of a run when its first n bytes are gone starts n later.   *)
LEMMA RunTail ==
  ASSUME NEW s \in Bytes, NEW a \in Int, IsRun(s, a), NEW n \in 0..Len(s)
  PROVE  /\ SubSeq(s, n + 1, Len(s)) \in Bytes /\ Len(SubSeq(s, n + 1, Len(s))) = Len(s) - n
         /\ IsRun(SubSeq(s, n + 1, Len(s)), a + n)
  <1>1. PICK m \in Nat : m = Len(s)
    BY DEF Bytes
  <1>2. PICK u : u = SubSeq(s, n + 1, m)
    OBVIOUS
  <1>3. /\ u \in Bytes /\ Len(u) = m - n
        /\ \A k \in 1..(m - n) : u[k] = s[n + k]
    <2>1. /\ n + 1 \in Int /\ (n + 1 > m => u = <<>>)
          /\ n + 1 <= m => Len(u) = m - (n + 1) + 1
      BY <1>1, <1>2 DEF Bytes
    <2>2. u \in Bytes
      BY <1>1, <1>2 DEF Bytes
    <2>3. Len(u) = m - n
      BY <1>1, <2>1
    <2>4. \A k \in 1..(m - n) : u[k] = s[n + k]
      <3> SUFFICES ASSUME NEW k \in 1..(m - n)
                   PROVE  u[k] = s[n + k]
        OBVIOUS
      <3>1. (n + 1) + k - 1 = n + k /\ n + 1 <= m /\ k \in 1..Len(u)
        BY <2>3
      <3>2. u[k] = s[(n + 1) + k - 1]
        BY <1>1, <1>2, <3>1, SubSeqProperties DEF Bytes
      <3> QED
        BY <3>1, <3>2
    <2> QED
      BY <2>2, <2>3, <2>4
  <1>4. ASSUME NEW k \in 1..(m - n)
        PROVE  u[k] = (a + n) + k
    <2>1. n + k \in 1..m /\ a + (n + k) = (a + n) + k
      BY <1>1
    <2> QED
      BY <1>1, <1>3, <2>1 DEF IsRun
  <1> QED
    BY <1>1, <1>2, <1>3, <1>4 DEF IsRun

(* No bytes are a run, and so are new ones of the sender.                  *)
LEMMA RunNone == <<>> \in Bytes /\ Len(<<>>) = 0 /\ \A a : IsRun(<<>>, a)
  <1>1. <<>> \in Bytes /\ Len(<<>>) = 0
    BY DEF Bytes
  <1> QED
    BY <1>1 DEF IsRun

(* The bytes a + 1, a + 2, ... a writer makes up are a run from a.         *)
LEMMA RunNew ==
  ASSUME NEW n \in Nat, NEW a \in Nat, NEW s, s = [i \in 1..n |-> a + i]
  PROVE  s \in Bytes /\ Len(s) = n /\ IsRun(s, a)
  <1>1. s \in Bytes /\ Len(s) = n
    BY DEF Bytes
  <1> QED
    BY <1>1 DEF IsRun

(* The run from the first byte.                                            *)
LEMMA RunUpTo ==
  ASSUME NEW s \in Bytes, IsRun(s, 0)
  PROVE  s = UpTo(Len(s))
  <1>1. PICK n \in Nat : n = Len(s)
    BY DEF Bytes
  <1>2. s = [i \in 1..n |-> s[i]]
    BY <1>1 DEF Bytes
  <1>3. \A i \in 1..n : s[i] = i
    BY <1>1 DEF IsRun
  <1> QED
    BY <1>1, <1>2, <1>3 DEF UpTo
-----------------------------------------------------------------------------
(* The vectors of a readv.                                                 *)

(* How much room the first k buffers of a vector have.                     *)
VecSums(vb) ==
  LET sum[k \in 0..Len(vb)] == IF k = 0 THEN 0 ELSE sum[k - 1] + Len(vb[k].mem)
  IN  sum

(* The recursive function of Before is one.                                *)
LEMMA VecSumsFacts ==
  ASSUME NEW vb, NEW n \in Nat, n = Len(vb), \A k \in 1..n : Len(vb[k].mem) \in Nat
  PROVE  /\ VecSums(vb)[0] = 0
         /\ \A k \in 0..n : VecSums(vb)[k] \in Nat
         /\ \A k \in 1..n : VecSums(vb)[k] = VecSums(vb)[k - 1] + Len(vb[k].mem)
         /\ \A i \in 1..(n + 1) : Before(vb, i) = VecSums(vb)[i - 1]
         /\ vec_total(vb) = VecSums(vb)[n]
  <1> DEFINE Def(g, m) == [k \in 0..m |-> IF k = 0 THEN 0 ELSE g[k - 1] + Len(vb[k].mem)]
             S == {m \in 0..n : \E g : g = Def(g, m)}
  <1>1. 0 \in S
    <2>1. PICK g : g = [k \in 0..0 |-> 0]
      OBVIOUS
    <2>2. g = Def(g, 0)
      BY <2>1
    <2> QED
      BY <2>2
  <1>2. ASSUME NEW m \in 0..(n - 1), m \in S
        PROVE  m + 1 \in S
    <2>1. PICK g : g = Def(g, m)
      BY <1>2
    <2>2. PICK h : h = [k \in 0..(m + 1) |->
                          IF k <= m THEN g[k] ELSE g[m] + Len(vb[m + 1].mem)]
      OBVIOUS
    <2>3. \A k \in 0..(m + 1) : h[k] = IF k = 0 THEN 0 ELSE h[k - 1] + Len(vb[k].mem)
      BY <2>1, <2>2
    <2>4. h = Def(h, m + 1)
      BY <2>2, <2>3
    <2>5. m + 1 \in 0..n
      OBVIOUS
    <2> QED
      BY <2>4, <2>5
  <1> HIDE DEF S
  <1>3. n \in S
    <2>1. \A m \in 0..(n - 1) : m \in S => m + 1 \in S
      BY <1>2
    <2>2. 0..n \subseteq S
      BY <1>1, <2>1, CountUp
    <2> QED
      BY <2>2
  <1>4. \E g : g = Def(g, n)
    BY <1>3 DEF S
  <1>5. VecSums(vb) = Def(VecSums(vb), n)
    BY <1>4, Zenon DEF VecSums
  <1>6. PICK f : f = VecSums(vb)
    OBVIOUS
  <1>7. f[0] = 0 /\ \A k \in 1..n : f[k] = f[k - 1] + Len(vb[k].mem)
    BY <1>5, <1>6
  <1> DEFINE T == {k \in 0..n : f[k] \in Nat}
  <1>8. 0 \in T
    BY <1>7
  <1>9. ASSUME NEW k \in 0..(n - 1), k \in T
        PROVE  k + 1 \in T
    <2>1. k + 1 \in 1..n /\ (k + 1) - 1 = k
      OBVIOUS
    <2>2. f[k + 1] = f[k] + Len(vb[k + 1].mem)
      BY <1>7, <2>1
    <2> QED
      BY <1>9, <2>1, <2>2
  <1> HIDE DEF T
  <1>10. 0..n \subseteq T
    BY <1>8, <1>9, CountUp
  <1>11. \A k \in 0..n : f[k] \in Nat
    BY <1>10 DEF T
  <1>12. \A i : Before(vb, i) = VecSums(vb)[i - 1]
    BY Zenon DEF Before, VecSums
  <1>13. vec_total(vb) = VecSums(vb)[n]
    <2>1. (n + 1) - 1 = n
      OBVIOUS
    <2> QED
      BY <1>12, <2>1 DEF vec_total
  <1> QED
    BY <1>6, <1>7, <1>11, <1>12, <1>13

(* They depend on the lengths alone.                                       *)
LEMMA VecSumsSame ==
  ASSUME NEW vb, NEW wb, NEW n \in Nat, n = Len(vb), n = Len(wb),
         \A k \in 1..n : Len(vb[k].mem) \in Nat /\ Len(wb[k].mem) = Len(vb[k].mem)
  PROVE  \A k \in 0..n : VecSums(wb)[k] = VecSums(vb)[k]
  <1>1. PICK f, g : f = VecSums(vb) /\ g = VecSums(wb)
    OBVIOUS
  <1>2. f[0] = 0 /\ \A k \in 1..n : f[k] = f[k - 1] + Len(vb[k].mem)
    BY <1>1, VecSumsFacts
  <1>3. g[0] = 0 /\ \A k \in 1..n : g[k] = g[k - 1] + Len(wb[k].mem)
    <2>1. \A k \in 1..n : Len(wb[k].mem) \in Nat
      OBVIOUS
    <2> QED
      BY <1>1, <2>1, VecSumsFacts
  <1> DEFINE S == {k \in 0..n : g[k] = f[k]}
  <1>4. 0 \in S
    BY <1>2, <1>3
  <1>5. ASSUME NEW k \in 0..(n - 1), k \in S
        PROVE  k + 1 \in S
    <2>1. k + 1 \in 1..n /\ (k + 1) - 1 = k
      OBVIOUS
    <2>2. f[k + 1] = f[k] + Len(vb[k + 1].mem) /\ g[k + 1] = g[k] + Len(wb[k + 1].mem)
      BY <1>2, <1>3, <2>1
    <2> QED
      BY <1>5, <2>1, <2>2
  <1> HIDE DEF S
  <1>6. 0..n \subseteq S
    BY <1>4, <1>5, CountUp
  <1> QED
    BY <1>1, <1>6 DEF S

(* The recursive function of FlattenSeq is one.                            *)
Joined(ss) ==
  LET flatten[i \in 1..Len(ss)] == IF i = 1 THEN ss[i] ELSE flatten[i - 1] \o ss[i]
  IN  flatten

(* FlattenSeq is the last value of the function that joins strings.        *)
LEMMA JoinedFacts ==
  ASSUME NEW ss, NEW n \in Nat \ {0}, n = Len(ss)
  PROVE  /\ FlattenSeq(ss) = Joined(ss)[n]
         /\ \A i \in 1..n : Joined(ss)[i] = IF i = 1 THEN ss[i] ELSE Joined(ss)[i - 1] \o ss[i]
  <1> DEFINE Def(g, m) == [i \in 1..m |-> IF i = 1 THEN ss[i] ELSE g[i - 1] \o ss[i]]
             S == {m \in 0..n : \E g : g = Def(g, m)}
  <1>1. 0 \in S
    <2>1. PICK g : g = [i \in 1..0 |-> 0]
      OBVIOUS
    <2>2. g = Def(g, 0) /\ 0 \in 0..n
      BY <2>1
    <2> QED
      BY <2>2, Zenon
  <1>2. ASSUME NEW m \in 0..(n - 1), m \in S
        PROVE  m + 1 \in S
    <2>1. PICK g : g = Def(g, m)
      BY <1>2
    <2>2. PICK x : x = IF m = 0 THEN ss[1] ELSE g[m] \o ss[m + 1]
      OBVIOUS
    <2>3. PICK h : h = [i \in 1..(m + 1) |-> IF i <= m THEN g[i] ELSE x]
      OBVIOUS
    <2>4. ASSUME NEW i \in 1..(m + 1)
          PROVE  h[i] = IF i = 1 THEN ss[i] ELSE h[i - 1] \o ss[i]
      <3>1. CASE i <= m
        <4>1. h[i] = g[i] /\ (i # 1 => h[i - 1] = g[i - 1])
          BY <2>3, <3>1
        <4>2. g[i] = IF i = 1 THEN ss[i] ELSE g[i - 1] \o ss[i]
          <5>1. i \in 1..m
            BY <3>1
          <5> QED
            BY <2>1, <5>1, Zenon
        <4> QED
          BY <4>1, <4>2
      <3>2. CASE i = m + 1
        <4>1. h[i] = x /\ (i # 1 => h[i - 1] = g[m] /\ m # 0) /\ (i = 1 => m = 0)
          BY <2>3, <3>2
        <4> QED
          BY <2>2, <3>2, <4>1
      <3> QED
        BY <3>1, <3>2
    <2>5. h = Def(h, m + 1)
      <3>1. h = [i \in 1..(m + 1) |-> h[i]]
        BY <2>3
      <3> QED
        BY <2>4, <3>1, Zenon
    <2>6. m + 1 \in 0..n
      OBVIOUS
    <2> QED
      BY <2>5, <2>6
  <1> HIDE DEF S
  <1>3. n \in S
    <2>1. \A m \in 0..(n - 1) : m \in S => m + 1 \in S
      BY <1>2
    <2>2. 0..n \subseteq S
      BY <1>1, <2>1, CountUp
    <2> QED
      BY <2>2
  <1>4. \E g : g = Def(g, n)
    BY <1>3 DEF S
  <1>5. Joined(ss) = Def(Joined(ss), n)
    BY <1>4, Zenon DEF Joined
  <1>6. Len(ss) # 0
    OBVIOUS
  <1>7. FlattenSeq(ss) = Joined(ss)[Len(ss)]
    BY <1>6, Zenon DEF FlattenSeq, Joined
  <1>8. PICK f : f = Joined(ss)
    OBVIOUS
  <1>9. f = Def(f, n)
    BY <1>5, <1>8
  <1>10. \A i \in 1..n : f[i] = IF i = 1 THEN ss[i] ELSE f[i - 1] \o ss[i]
    BY <1>9, Zenon
  <1> QED
    BY <1>7, <1>8, <1>10

(* The beginning of the bytes, as far as the first vectors hold it: sum is *)
(* the capacity of those.                                                  *)
Begins(s, bytes, m, sum) ==
  /\ s \in Bytes
  /\ sum <= m => Len(s) = sum
  /\ sum > m => Len(s) >= m
  /\ \A k \in 1..Len(s) : k <= m => s[k] = bytes[k]

(* One more vector.                                                        *)
LEMMA BeginsMore ==
  ASSUME NEW s, NEW bytes \in Bytes, NEW m \in Nat, m = Len(bytes), NEW sum \in Nat,
         Begins(s, bytes, m, sum),
         NEW mem \in Bytes, NEW len \in Nat, len <= Len(mem),
         sum + Len(mem) <= m => len = Len(mem),
         sum < m /\ sum + Len(mem) > m => len = m - sum,
         \A j \in 1..Len(mem) : sum + j <= m => mem[j] = bytes[sum + j]
  PROVE  Begins(s \o SubSeq(mem, 1, len), bytes, m, sum + Len(mem))
  <1>1. PICK c \in Nat : c = Len(mem)
    BY DEF Bytes
  <1>2. PICK t : t = SubSeq(mem, 1, len)
    OBVIOUS
  <1>3. t \in Bytes /\ Len(t) = len /\ \A k \in 1..len : t[k] = mem[k]
    BY <1>1, <1>2 DEF Bytes
  <1>4. PICK l \in Nat : /\ l = Len(s) /\ s \in Bytes
                         /\ sum <= m => l = sum
                         /\ sum > m => l >= m
    BY DEF Begins, Bytes
  <1>5. /\ s \o t \in Bytes /\ Len(s \o t) = l + len
        /\ \A k \in 1..(l + len) : (s \o t)[k] = IF k <= l THEN s[k] ELSE t[k - l]
    BY <1>3, <1>4, BytesConcat
  <1>6. sum + c <= m => l + len = sum + c
    <2>1. sum + c <= m => len = c
      BY <1>1
    <2>2. sum + c <= m => sum <= m
      OBVIOUS
    <2> QED
      BY <1>4, <2>1, <2>2
  <1>7. sum + c > m => l + len >= m
    BY <1>1, <1>4
  <1>8. ASSUME NEW k \in 1..(l + len), k <= m
        PROVE  (s \o t)[k] = bytes[k]
    <2>1. CASE k <= l
      BY <1>4, <1>5, <1>8, <2>1 DEF Begins
    <2>2. CASE ~(k <= l)
      <3>1. l = sum
        BY <1>4, <1>8, <2>2 DEF Begins
      <3>2. k - l \in 1..len /\ k - l \in 1..c /\ sum + (k - l) = k
        BY <1>1, <2>2, <3>1
      <3>3. mem[k - l] = bytes[k]
        BY <1>1, <1>8, <3>2
      <3> QED
        BY <1>3, <1>5, <2>2, <3>2, <3>3
    <2> QED
      BY <2>1, <2>2
  <1> QED
    BY <1>1, <1>2, <1>5, <1>6, <1>7, <1>8 DEF Begins

(* Vectored buffers.                                                       *)
Vecs == Seq([kind : {"vec"}, mem : Bytes, len : Nat])

(* The bytes in the memory of the vectors are those their owner finds.     *)
LEMMA VecBytes ==
  ASSUME NEW n \in Nat \ {0}, NEW vb \in Vecs, n = Len(vb),
         \A k \in 1..n : vb[k].len = Len(vb[k].mem),
         NEW bytes \in Bytes, NEW m \in Nat, m = Len(bytes), m <= vec_total(vb),
         \A k \in 1..n : \A j \in 1..Len(vb[k].mem) :
            VecSums(vb)[k - 1] + j <= m => vb[k].mem[j] = bytes[VecSums(vb)[k - 1] + j]
  PROVE  vec_bytes(vec_set_init(vb, m), m) = bytes
  <1>1. PICK f : f = VecSums(vb)
    OBVIOUS
  <1>2. \A k \in 1..n : vb[k].mem \in Bytes /\ Len(vb[k].mem) \in Nat /\ vb[k].len \in Nat
                        /\ vb[k] \in [kind : {"vec"}, mem : Bytes, len : Nat]
    <2>1. \A k \in 1..n : vb[k] \in [kind : {"vec"}, mem : Bytes, len : Nat]
      BY ElementOfSeq, Zenon DEF Vecs
    <2>2. \A s \in Bytes : Len(s) \in Nat
      BY DEF Bytes
    <2> QED
      BY <2>1, <2>2
  <1>3. /\ f[0] = 0 /\ \A k \in 0..n : f[k] \in Nat
        /\ \A k \in 1..n : f[k] = f[k - 1] + Len(vb[k].mem)
        /\ \A i \in 1..(n + 1) : Before(vb, i) = f[i - 1]
        /\ vec_total(vb) = f[n]
    <2>1. n \in Nat /\ \A k \in 1..n : Len(vb[k].mem) \in Nat
      BY <1>2
    <2> QED
      BY <1>1, <2>1, VecSumsFacts
  <1>4. PICK wb : wb = vec_set_init(vb, m)
    OBVIOUS
  <1>5. DOMAIN vb = 1..n
    BY DEF Vecs
  <1>6. /\ DOMAIN wb = 1..n
        /\ \A i \in 1..n : wb[i] = IF m - f[i - 1] <= 0 THEN vb[i]
                                   ELSE [vb[i] EXCEPT !.len =
                                           IF Len(vb[i].mem) <= m - f[i - 1]
                                           THEN Len(vb[i].mem) ELSE m - f[i - 1]]
    <2>1. wb = [i \in 1..n |-> IF m - Before(vb, i) <= 0 THEN vb[i]
                               ELSE [vb[i] EXCEPT !.len =
                                       IF Len(vb[i].mem) <= m - Before(vb, i)
                                       THEN Len(vb[i].mem) ELSE m - Before(vb, i)]]
      BY <1>4, <1>5, Zenon DEF vec_set_init
    <2>2. \A i \in 1..n : Before(vb, i) = f[i - 1]
      BY <1>3
    <2> QED
      BY <2>1, <2>2
  <1>7. ASSUME NEW i \in 1..n
        PROVE  /\ wb[i].kind = "vec" /\ wb[i].mem = vb[i].mem /\ wb[i].len \in Nat
               /\ wb[i].len <= Len(vb[i].mem)
               /\ f[i - 1] + Len(vb[i].mem) <= m => wb[i].len = Len(vb[i].mem)
               /\ f[i - 1] < m /\ f[i - 1] + Len(vb[i].mem) > m => wb[i].len = m - f[i - 1]
    <2>1. i - 1 \in 0..n
      OBVIOUS
    <2>2. f[i - 1] \in Nat
      BY <1>3, <2>1
    <2> QED
      BY <1>2, <1>6, <2>2
  <1>8. PICK ss : ss = [i \in 1..n |-> as_slice(wb[i])]
    OBVIOUS
  <1>9. Len(ss) = n
    BY <1>8
  <1>10. \A i \in 1..n : ss[i] = SubSeq(vb[i].mem, 1, wb[i].len)
    BY <1>7, <1>8 DEF as_slice, bytes_init
  <1>11. PICK g : g = Joined(ss)
    OBVIOUS
  <1>12. /\ FlattenSeq(ss) = g[n]
         /\ \A i \in 1..n : g[i] = IF i = 1 THEN ss[i] ELSE g[i - 1] \o ss[i]
    BY <1>9, <1>11, JoinedFacts
  <1>13. ASSUME NEW s, NEW i \in 1..n, Begins(s, bytes, m, f[i - 1])
         PROVE  Begins(s \o ss[i], bytes, m, f[i])
    <2>1. i - 1 \in 0..n /\ f[i - 1] \in Nat
      BY <1>3
    <2>2. \A j \in 1..Len(vb[i].mem) : f[i - 1] + j <= m => vb[i].mem[j] = bytes[f[i - 1] + j]
      BY <1>1
    <2>3. PICK mem \in Bytes, len \in Nat, sum \in Nat :
            mem = vb[i].mem /\ len = wb[i].len /\ sum = f[i - 1]
      BY <1>2, <1>7, <2>1
    <2>4. /\ len <= Len(mem) /\ (sum + Len(mem) <= m => len = Len(mem))
          /\ sum < m /\ sum + Len(mem) > m => len = m - sum
      BY <1>7, <2>3
    <2>5. \A j \in 1..Len(mem) : sum + j <= m => mem[j] = bytes[sum + j]
      BY <2>2, <2>3
    <2>6. Begins(s, bytes, m, sum)
      BY <1>13, <2>3
    <2>7. Begins(s \o SubSeq(mem, 1, len), bytes, m, sum + Len(mem))
      BY <2>4, <2>5, <2>6, BeginsMore
    <2> QED
      BY <1>3, <1>10, <2>3, <2>7
  <1> DEFINE S == {i \in 0..n : i # 0 => Begins(g[i], bytes, m, f[i])}
  <1>14. 0 \in S
    OBVIOUS
  <1>15. \A i \in 0..(n - 1) : i \in S => i + 1 \in S
    <2> SUFFICES ASSUME NEW i \in 0..(n - 1), i \in S
                 PROVE  i + 1 \in S
      OBVIOUS
    <2>0. i + 1 \in 1..n /\ (i + 1) - 1 = i /\ i + 1 \in 0..n
      OBVIOUS
    <2>1. CASE i = 0
      <3>1. Begins(<<>>, bytes, m, f[0])
        BY <1>3, RunNone DEF Begins
      <3>2. g[1] = ss[1]
        BY <1>12
      <3>3. Begins(<<>> \o ss[1], bytes, m, f[1])
        <4>1. 1 \in 1..n /\ 1 - 1 = 0
          OBVIOUS
        <4> QED
          BY <1>13, <3>1, <4>1
      <3>4. <<>> \o ss[1] = ss[1]
        <4>1. ss[1] \in Bytes
          <5>1. PICK mem \in Bytes, len \in Nat :
                  mem = vb[1].mem /\ len = wb[1].len /\ len <= Len(mem)
            BY <1>2, <1>7
          <5>2. SubSeq(mem, 1, len) \in Bytes
            BY <5>1 DEF Bytes
          <5>3. 1 \in 1..n
            OBVIOUS
          <5> QED
            BY <1>10, <5>1, <5>2, <5>3
        <4> QED
          BY <4>1, ConcatEmptySeq DEF Bytes
      <3> QED
        BY <2>0, <2>1, <3>2, <3>3, <3>4
    <2>2. CASE i # 0
      <3>1. g[i + 1] = g[i] \o ss[i + 1]
        <4>1. i + 1 # 1
          BY <2>2
        <4> QED
          BY <1>12, <2>0, <4>1
      <3>2. Begins(g[i] \o ss[i + 1], bytes, m, f[i + 1])
        BY <1>13, <2>0, <2>2
      <3> QED
        BY <2>0, <3>1, <3>2
    <2> QED
      BY <2>1, <2>2
  <1> HIDE DEF S
  <1>16. n \in S
    <2>1. 0..n \subseteq S
      BY <1>14, <1>15, CountUp
    <2> QED
      BY <2>1
  <1>17. Begins(g[n], bytes, m, f[n])
    BY <1>16 DEF S
  <1>18. vec_bytes(wb, m) = SubSeq(g[n], 1, m)
    <2>1. [i \in DOMAIN wb |-> as_slice(wb[i])] = ss
      BY <1>6, <1>8, Zenon
    <2> QED
      BY <1>12, <2>1, Zenon DEF vec_bytes
  <1>19. PICK s \in Bytes : s = g[n] /\ Len(s) >= m /\ \A k \in 1..Len(s) : k <= m => s[k] = bytes[k]
    BY <1>3, <1>17 DEF Begins
  <1>20. /\ SubSeq(s, 1, m) \in Bytes /\ Len(SubSeq(s, 1, m)) = m
         /\ \A k \in 1..m : SubSeq(s, 1, m)[k] = s[k]
    BY <1>19 DEF Bytes
  <1>21. \A k \in 1..m : SubSeq(s, 1, m)[k] = bytes[k]
    <2>1. PICK l \in Nat : l = Len(s)
      BY DEF Bytes
    <2>2. \A k \in 1..m : k \in 1..l /\ k <= m
      BY <1>19, <2>1
    <2> QED
      BY <1>19, <1>20, <2>1, <2>2
  <1>22. SubSeq(s, 1, m) = bytes
    BY <1>20, <1>21, SeqEqual DEF Bytes
  <1> QED
    BY <1>4, <1>18, <1>19, <1>22

-----------------------------------------------------------------------------
(* The state of an operation, and of the two sides and the relay.          *)

(* What an operation of the driver can be.                                 *)
Ops == [st : {"idle", "flight", "done"}, data : Bytes, room : Nat, res : Int, cancel : BOOLEAN]

(* Where a call can be, and the calls that are finished by a count or by a *)
(* delimiter.                                                              *)
Opening == {"new", "connect", "writable", "take_error", "refused"}
Broken == {"failed", "dropped"}
Exact == {"read_exact", "read_int"}
Until == {"read_until", "read_line"}

(* Buffers of the caller, and views into them.                             *)
UserBuffers == [kind : BufferKinds, mem : Bytes, len : Nat]
UserViews == [buf : UserBuffers, begin : Nat, end : Nat]

(* The states of the receiving side.                                       *)
Receivers ==
  [pc : {"idle", "loop"} \cup Broken, call : Calls \cup {"none"}, u : UserViews, vb : Vecs,
   read : Nat, dst : {"none", "user", "own", "vec"}, own : Bytes, line : Bytes, got : Bytes,
   prefix : Bytes, finished : BOOLEAN, eof : BOOLEAN]

(* The bytes that an operation has moved.                                  *)
Moved(o) == IF o.st = "done" /\ o.res > 0 THEN o.res ELSE 0

(* A view lies inside its buffer.                                          *)
SliceOK(u) ==
  /\ u.end <= Len(u.buf.mem)
  /\ u.begin <= u.end
  /\ u.buf.kind # "box" => u.begin <= u.buf.len /\ u.buf.len <= Len(u.buf.mem)

-----------------------------------------------------------------------------
(* The buffers below a read.                                               *)

(* A view with n bytes written at its start.                               *)
FilledView(u, bytes, n) == slice_set_init(slice_fill(u, bytes), n)

(* Where the bytes of a read land: from begin on, and nowhere else.        *)
LEMMA FilledFacts ==
  ASSUME NEW u \in UserViews, SliceOK(u), NEW bytes \in Bytes, NEW n \in Nat, n = Len(bytes),
         n <= u.end - u.begin
  PROVE  LET v == FilledView(u, bytes, n)
         IN  /\ v \in UserViews /\ SliceOK(v)
             /\ v.begin = u.begin /\ v.end = u.end
             /\ v.buf.kind = u.buf.kind /\ Len(v.buf.mem) = Len(u.buf.mem)
             /\ \A i \in 1..Len(u.buf.mem) :
                  v.buf.mem[i] = IF i - u.begin \in 1..n THEN bytes[i - u.begin] ELSE u.buf.mem[i]
             /\ v.buf.kind = "vec" => v.buf.len = u.begin + n
             /\ v.buf.kind = "bytes" => v.buf.len >= u.begin + n
  <1>1. PICK m \in Nat : m = Len(u.buf.mem)
    BY DEF UserViews, UserBuffers, Bytes
  <1>2. DOMAIN u.buf.mem = 1..m /\ DOMAIN bytes = 1..n
    BY <1>1 DEF UserViews, UserBuffers, Bytes
  <1>3. PICK w : w = [i \in 1..m |-> IF i - u.begin \in 1..n THEN bytes[i - u.begin]
                                     ELSE u.buf.mem[i]]
    OBVIOUS
  <1>4. w \in Bytes /\ Len(w) = m
    <2>1. \A i \in 1..m : u.buf.mem[i] \in Int
      BY <1>1 DEF UserViews, UserBuffers, Bytes
    <2>2. \A i \in 1..n : bytes[i] \in Int
      BY DEF Bytes
    <2> QED
      BY <1>3, <2>1, <2>2 DEF Bytes
  <1>5. slice_fill(u, bytes) = [u EXCEPT !.buf = [@ EXCEPT !.mem = w]]
    <2>1. slice_fill(u, bytes) = [u EXCEPT !.buf.mem =
             [i \in DOMAIN u.buf.mem |-> IF i - u.begin \in DOMAIN bytes THEN bytes[i - u.begin]
                                         ELSE u.buf.mem[i]]]
      BY DEF slice_fill, UserViews, UserBuffers
    <2>2. slice_fill(u, bytes) = [u EXCEPT !.buf.mem = w]
      BY <1>2, <1>3, <2>1
    <2> QED
      BY <2>2 DEF UserViews
  <1>6. PICK b \in UserBuffers : b = [u.buf EXCEPT !.mem = w]
    BY <1>4 DEF UserViews, UserBuffers
  <1>7. b.kind = u.buf.kind /\ b.mem = w /\ b.len = u.buf.len /\ b.kind \in BufferKinds
    BY <1>6 DEF UserViews, UserBuffers
  <1>8. PICK d \in UserBuffers : d = set_init(b, u.begin + n)
    <2>1. u.begin + n \in Nat
      BY DEF UserViews
    <2>2. \A k \in Nat : set_init(b, k) \in UserBuffers
      BY <1>7 DEF set_init, UserBuffers, BufferKinds
    <2> QED
      BY <2>1, <2>2
  <1>9. /\ d.kind = b.kind /\ d.mem = w
        /\ b.kind = "vec" => d.len = u.begin + n
        /\ b.kind = "bytes" => d.len = IF b.len < u.begin + n THEN u.begin + n ELSE b.len
        /\ b.kind = "box" => d.len = b.len
    BY <1>7, <1>8 DEF set_init, UserBuffers, UserViews, BufferKinds
  <1>10. PICK v : v = FilledView(u, bytes, n)
    OBVIOUS
  <1>11. v = [u EXCEPT !.buf = d]
    <2>1. PICK f : f = slice_fill(u, bytes)
      OBVIOUS
    <2>2. f = [u EXCEPT !.buf = b]
      BY <1>5, <1>6, <2>1 DEF UserViews
    <2>3. f.buf = b /\ f.begin = u.begin /\ f.end = u.end
      BY <2>2 DEF UserViews
    <2>4. v = [f EXCEPT !.buf = set_init(f.buf, f.begin + n)]
      BY <1>10, <2>1 DEF FilledView, slice_set_init
    <2> QED
      BY <1>8, <2>2, <2>3, <2>4 DEF UserViews
  <1>12. v \in UserViews /\ v.buf = d /\ v.begin = u.begin /\ v.end = u.end
    BY <1>11 DEF UserViews
  <1>13. u.begin \in Nat /\ u.end \in Nat /\ u.buf.len \in Nat
    BY DEF UserViews, UserBuffers
  <1>14. SliceOK(v)
    BY <1>1, <1>4, <1>7, <1>9, <1>12, <1>13 DEF SliceOK, BufferKinds
  <1> QED
    BY <1>1, <1>3, <1>4, <1>7, <1>9, <1>10, <1>12, <1>13, <1>14 DEF BufferKinds

(* What the owner of a buffer sees is the beginning of its memory.         *)
LEMMA AsSlice ==
  ASSUME NEW v \in UserViews, SliceOK(v)
  PROVE  /\ bytes_init(v.buf) \in Nat /\ v.begin <= bytes_init(v.buf)
         /\ bytes_init(v.buf) <= Len(v.buf.mem)
         /\ as_slice(v.buf) \in Bytes /\ Len(as_slice(v.buf)) = bytes_init(v.buf)
         /\ \A i \in 1..bytes_init(v.buf) : as_slice(v.buf)[i] = v.buf.mem[i]
         /\ v.buf.kind = "box" => as_slice(v.buf) = v.buf.mem
  <1>1. PICK m \in Nat, mem \in Bytes : mem = v.buf.mem /\ m = Len(mem)
    BY DEF UserViews, UserBuffers, Bytes
  <1>2. PICK l \in Nat : l = bytes_init(v.buf) /\ l <= m /\ v.begin <= l
    BY <1>1 DEF SliceOK, UserViews, UserBuffers, bytes_init
  <1>3. as_slice(v.buf) = SubSeq(mem, 1, l)
    BY <1>1, <1>2 DEF as_slice
  <1>4. SubSeq(mem, 1, l) \in Bytes /\ Len(SubSeq(mem, 1, l)) = l
        /\ \A i \in 1..l : SubSeq(mem, 1, l)[i] = mem[i]
    BY <1>1, <1>2 DEF Bytes
  <1>5. l = m => SubSeq(mem, 1, l) = mem
    BY <1>1, <1>4, SeqEqual DEF Bytes
  <1>6. v.buf.kind = "box" => l = m
    BY <1>1, <1>2 DEF bytes_init
  <1> QED
    BY <1>1, <1>2, <1>3, <1>4, <1>5, <1>6

(* The bytes that a read of a slice has got.                               *)
LEMMA FilledSlice ==
  ASSUME NEW u \in UserViews, SliceOK(u), NEW bytes \in Bytes, NEW n \in Nat, n = Len(bytes),
         n <= u.end - u.begin
  PROVE  SubSeq(as_slice(FilledView(u, bytes, n).buf), u.begin + 1, u.begin + n) = bytes
  <1>1. PICK v : v = FilledView(u, bytes, n)
    OBVIOUS
  <1>2. /\ v \in UserViews /\ SliceOK(v)
        /\ v.begin = u.begin /\ v.end = u.end
        /\ v.buf.kind = u.buf.kind /\ Len(v.buf.mem) = Len(u.buf.mem)
        /\ \A i \in 1..Len(u.buf.mem) :
             v.buf.mem[i] = IF i - u.begin \in 1..n THEN bytes[i - u.begin] ELSE u.buf.mem[i]
        /\ v.buf.kind = "vec" => v.buf.len = u.begin + n
        /\ v.buf.kind = "bytes" => v.buf.len >= u.begin + n
    BY <1>1, FilledFacts
  <1>3. PICK b \in Nat, m \in Nat, e \in Nat : /\ b = u.begin /\ m = Len(u.buf.mem) /\ e = u.end
                                               /\ b <= e /\ e <= m /\ n <= e - b
    BY DEF UserViews, UserBuffers, Bytes, SliceOK
  <1>4. PICK l \in Nat, s \in Bytes : /\ l = bytes_init(v.buf) /\ s = as_slice(v.buf) /\ Len(s) = l
                                      /\ l <= m
                                      /\ \A i \in 1..l : s[i] = v.buf.mem[i]
    BY <1>2, <1>3, AsSlice
  <1>5. b + n <= l
    <2>1. CASE v.buf.kind = "box"
      BY <1>2, <1>3, <1>4, <2>1 DEF bytes_init
    <2>2. CASE v.buf.kind # "box"
      BY <1>2, <1>3, <1>4, <2>2 DEF bytes_init, UserViews, UserBuffers, BufferKinds
    <2> QED
      BY <2>1, <2>2
  <1>6. PICK t : t = SubSeq(s, b + 1, b + n)
    OBVIOUS
  <1>7. t \in Bytes /\ Len(t) = n /\ \A k \in 1..n : t[k] = s[b + k]
    <2>1. b + n <= Len(s)
      BY <1>4, <1>5
    <2> QED
      BY <1>6, <2>1, BytesSub
  <1>8. ASSUME NEW k \in 1..n
        PROVE  t[k] = bytes[k]
    <2>1. b + k \in 1..l /\ b + k \in 1..m /\ (b + k) - b = k
      BY <1>4, <1>5
    <2>2. v.buf.mem[b + k] = bytes[k]
      BY <1>2, <1>3, <2>1
    <2> QED
      BY <1>4, <1>7, <2>1, <2>2
  <1>9. t = bytes
    BY <1>7, <1>8, SeqEqual DEF Bytes
  <1> QED
    BY <1>1, <1>3, <1>4, <1>6, <1>9

(* The bytes that read_exact has got so far, and these after them.         *)
LEMMA FilledPart ==
  ASSUME NEW u \in UserViews, SliceOK(u), NEW bytes \in Bytes, NEW n \in Nat, n = Len(bytes),
         n <= u.end - u.begin, NEW a \in Int,
         IsRun(SubSeq(u.buf.mem, 1, u.begin), a), IsRun(bytes, a + u.begin)
  PROVE  LET s == SubSeq(FilledView(u, bytes, n).buf.mem, 1, u.begin + n)
         IN  s \in Bytes /\ Len(s) = u.begin + n /\ IsRun(s, a)
  <1>1. PICK v : v = FilledView(u, bytes, n)
    OBVIOUS
  <1>2. /\ v \in UserViews /\ Len(v.buf.mem) = Len(u.buf.mem)
        /\ \A i \in 1..Len(u.buf.mem) :
             v.buf.mem[i] = IF i - u.begin \in 1..n THEN bytes[i - u.begin] ELSE u.buf.mem[i]
    BY <1>1, FilledFacts
  <1>3. PICK b \in Nat, m \in Nat : b = u.begin /\ m = Len(u.buf.mem) /\ b + n <= m
    BY DEF UserViews, UserBuffers, Bytes, SliceOK
  <1>4. PICK mem \in Bytes, old \in Bytes : mem = v.buf.mem /\ old = u.buf.mem
    BY <1>2 DEF UserViews, UserBuffers
  <1>5. PICK s : s = SubSeq(mem, 1, b + n)
    OBVIOUS
  <1>6. s \in Bytes /\ Len(s) = b + n /\ \A k \in 1..(b + n) : s[k] = mem[k]
    <2>1. PICK c \in 0..Len(mem) : c = b + n
      BY <1>2, <1>3, <1>4
    <2> QED
      BY <1>5, <2>1, BytesHead
  <1>7. \A k \in 1..b : old[k] = a + k
    <2>1. PICK t : t = SubSeq(old, 1, b)
      OBVIOUS
    <2>2. Len(t) = b /\ \A k \in 1..b : t[k] = old[k]
      BY <1>3, <1>4, <2>1 DEF Bytes
    <2>3. IsRun(t, a)
      BY <1>3, <1>4, <2>1
    <2> QED
      BY <2>2, <2>3 DEF IsRun
  <1>8. \A k \in 1..n : bytes[k] = (a + b) + k
    BY <1>3 DEF IsRun
  <1>9. ASSUME NEW k \in 1..(b + n)
        PROVE  s[k] = a + k
    <2>1. k \in 1..m /\ mem[k] = IF k - b \in 1..n THEN bytes[k - b] ELSE old[k]
      BY <1>2, <1>3, <1>4
    <2>2. CASE k <= b
      <3>1. k \in 1..b /\ ~(k - b \in 1..n)
        BY <2>2
      <3> QED
        BY <1>6, <1>7, <2>1, <3>1
    <2>3. CASE ~(k <= b)
      <3>1. k - b \in 1..n /\ (a + b) + (k - b) = a + k
        BY <2>3
      <3> QED
        BY <1>6, <1>8, <2>1, <3>1
    <2> QED
      BY <2>2, <2>3
  <1>10. IsRun(s, a)
    BY <1>6, <1>9 DEF IsRun
  <1> QED
    BY <1>1, <1>3, <1>4, <1>5, <1>6, <1>10

-----------------------------------------------------------------------------
(* The receiving side.                                                     *)

(* What read_exact, read_int and read_until have so far.                   *)
Partial(r) == IF r.call \in Exact THEN SubSeq(as_slice(r.u.buf), 1, r.read) ELSE r.line
ParLen(r) == IF r.call \in Exact THEN r.read ELSE Len(r.line)

(* What holds of the buffers in every state of the receiver.               *)
Kept(c, r) ==
  /\ SliceOK(r.u)
  /\ c.rx \in {"raw", "prefixed"} => r.own = <<>>
  /\ r.prefix # <<>> => c.rx = "prefixed" /\ ~r.finished
  /\ r.line # <<>> => r.call \in Until
  /\ r.call \in Until => c.rx = "bufr"
  /\ r.read # 0 => r.call \in Exact

(* A call in its loop, and the buffer that it was lent.                    *)
InLoop(c, r) ==
  /\ r.call \in Calls
  /\ r.call \in Exact =>
       /\ r.u.begin = r.read /\ r.u.end = Len(r.u.buf.mem) /\ r.read < Len(r.u.buf.mem)
       /\ r.call = "read_exact" => r.u.buf.kind = "vec" /\ r.u.buf.len = r.read
       /\ r.call = "read_int" => r.u.buf.kind = "box"
  /\ r.call = "readv" =>
       /\ r.vb = VecBuf(VecLens)
       /\ c.rx # "raw" => /\ r.u.buf.kind = "box" /\ r.u.begin = 0
                          /\ r.u.end = VecLens[1] /\ Len(r.u.buf.mem) = VecLens[1]
  /\ r.call \in {"read", "poll_read"} => r.u.begin < r.u.end

(* The operation of such a call fits what it fills.                        *)
Filling(c, r, o) ==
  /\ r.dst \in {"user", "vec", "own"}
  /\ r.dst = "user" => /\ r.call \notin Until /\ ~(r.call = "readv" /\ c.rx = "raw")
                       /\ o.room <= slice_total(r.u)
  /\ r.dst = "vec" => /\ r.call = "readv" /\ c.rx = "raw"
                      /\ o.room <= vec_total(r.vb)
  /\ r.dst = "own" => c.rx \in {"bufr", "compat"}

ReaderRight(c, r, o) ==
  /\ Kept(c, r)
  /\ r.pc \in {"idle", "failed"} => o.st = "idle" /\ r.call = "none"
  /\ r.pc = "loop" => InLoop(c, r)
  /\ o.st # "idle" => r.prefix = <<>> /\ r.own = <<>>
  /\ r.pc = "loop" /\ o.st # "idle" => Filling(c, r, o)

(* The bytes that the receiver has follow one another: got, the part of a  *)
(* call under way, more, the prefix and its own buffer, up to e.           *)
RunsTo(r, more, e) ==
  /\ Partial(r) \in Bytes /\ Len(Partial(r)) = ParLen(r)
  /\ IsRun(Partial(r), Len(r.got))
  /\ IsRun(more, Len(r.got) + ParLen(r))
  /\ IsRun(r.prefix, Len(r.got) + ParLen(r) + Len(more))
  /\ IsRun(r.own, Len(r.got) + ParLen(r) + Len(more) + Len(r.prefix))
  /\ e = Len(r.got) + ParLen(r) + Len(more) + Len(r.prefix) + Len(r.own)

(* The receiver r2 that a read of n bytes leads to from r.                 *)
ReadTo(c, r, n, e, r2) ==
  /\ r2 \in Receivers
  /\ ReaderRight(c, r2, Idle)
  /\ IsRun(r2.got, 0)
  /\ r2.pc \in {"idle", "loop", "failed"}
  /\ r2.pc # "failed" => RunsTo(r2, <<>>, e)
  /\ r2.eof => r2.pc # "loop" /\ n = 0
  /\ r2.prefix = r.prefix /\ r2.own = r.own

(* The receiver after a call that returned b.                              *)
Back(r, b, place) ==
  [r EXCEPT !.pc = place, !.call = "none", !.got = @ \o b, !.read = 0, !.vb = <<>>,
            !.line = <<>>, !.dst = "none", !.u = IF r.call = "read" THEN @ ELSE NoSlice]

(* The view a call without a buffer of the caller holds is a view.         *)
LEMMA NoSliceFacts == NoSlice \in UserViews /\ SliceOK(NoSlice)
  <1>1. PICK m : m = [i \in 1..0 |-> Uninit]
    OBVIOUS
  <1>2. m \in Bytes /\ Len(m) = 0
    BY <1>1 DEF Bytes
  <1>3. NoSlice = [buf |-> [kind |-> "vec", mem |-> m, len |-> 0], begin |-> 0, end |-> 0]
    BY <1>1 DEF NoSlice, SliceMut, Buffer
  <1> QED
    BY <1>2, <1>3 DEF UserViews, UserBuffers, BufferKinds, SliceOK

(* A call of r ends, with these bytes for its caller: v is its buffer by   *)
(* then, and x tells whether it has seen the end.                          *)
Ending(c, r, v, x, b, place, more, e) ==
  /\ r \in Receivers /\ v \in UserViews /\ SliceOK(v) /\ x \in BOOLEAN /\ b \in Bytes
  /\ place \in {"idle", "failed"} /\ more \in Bytes
  /\ Kept(c, r) /\ IsRun(r.got, 0) /\ IsRun(b, Len(r.got))
  /\ place # "failed" => Len(b) = ParLen(r) + Len(more) /\ RunsTo(r, more, e)

(* The receiver r2 after it.                                               *)
Ended(c, r, x, place, e, r2) ==
  /\ r2 \in Receivers /\ ReaderRight(c, r2, Idle) /\ IsRun(r2.got, 0)
  /\ r2.pc = place /\ (place # "failed" => RunsTo(r2, <<>>, e))
  /\ r2.eof = x /\ r2.prefix = r.prefix /\ r2.own = r.own

(* The receiver after it, field by field.                                  *)
BackTo(r, q, h, u, x) ==
  [r EXCEPT !.pc = q, !.call = "none", !.got = h, !.read = 0, !.vb = <<>>,
            !.line = <<>>, !.dst = "none", !.u = u, !.eof = x]

BackIn(r, q, h, u, x, r2) ==
  /\ r2 \in Receivers
  /\ r2.pc = q /\ r2.call = "none" /\ r2.got = h /\ r2.read = 0 /\ r2.line = <<>>
  /\ r2.u = u /\ r2.eof = x /\ r2.prefix = r.prefix /\ r2.own = r.own
  /\ r2.finished = r.finished

(* What a call that returns leaves in the receiver, field by field.        *)
LEMMA BackFields ==
  ASSUME NEW r \in Receivers, NEW h \in Bytes, NEW q \in {"idle", "failed"}, NEW u \in UserViews,
         NEW x \in BOOLEAN
  PROVE  BackIn(r, q, h, u, x, BackTo(r, q, h, u, x))
  <1>1. <<>> \in Vecs
    BY DEF Vecs
  <1> QED
    BY <1>1, RunNone, Zenon DEF Receivers, Broken, BackTo, BackIn

(* A receiver that is right as it ends its call is right once it returned. *)
LEMMA BackRight ==
  ASSUME NEW c, NEW r, NEW v, NEW x, NEW b, NEW place, NEW more, NEW e,
         Ending(c, r, v, x, b, place, more, e),
         NEW r2, r2 = Back([r EXCEPT !.u = v, !.eof = x], b, place)
  PROVE  Ended(c, r, x, place, e, r2)
  <1> /\ r \in Receivers /\ v \in UserViews /\ SliceOK(v) /\ x \in BOOLEAN /\ b \in Bytes
      /\ place \in {"idle", "failed"} /\ more \in Bytes
      /\ Kept(c, r) /\ IsRun(r.got, 0) /\ IsRun(b, Len(r.got))
      /\ place # "failed" => Len(b) = ParLen(r) + Len(more) /\ RunsTo(r, more, e)
    BY DEF Ending
  <1>1. r.got \in Bytes /\ r.prefix \in Bytes /\ r.own \in Bytes
    BY DEF Receivers
  <1>2. PICK g : g = r.got \o b
    OBVIOUS
  <1>3. g \in Bytes /\ Len(g) = Len(r.got) + Len(b) /\ IsRun(g, 0)
    <2>1. 0 \in Int /\ Len(r.got) \in Nat /\ 0 + Len(r.got) = Len(r.got)
      BY <1>1 DEF Bytes
    <2>2. IsRun(b, 0 + Len(r.got))
      BY <2>1
    <2> QED
      BY <1>1, <1>2, <2>1, <2>2, RunConcat
  <1>4. PICK u \in UserViews : u = (IF r.call = "read" THEN v ELSE NoSlice) /\ SliceOK(u)
    BY NoSliceFacts
  <1>6. r2 = [r EXCEPT !.pc = place, !.call = "none", !.got = g, !.read = 0, !.vb = <<>>,
                       !.line = <<>>, !.dst = "none", !.u = u, !.eof = x]
    BY <1>2, <1>4 DEF Back, Receivers
  <1>8. /\ r2 \in Receivers
        /\ r2.pc = place /\ r2.call = "none" /\ r2.got = g /\ r2.read = 0 /\ r2.line = <<>>
        /\ r2.u = u /\ r2.eof = x /\ r2.prefix = r.prefix /\ r2.own = r.own
        /\ r2.finished = r.finished
    <2>1. r2 = BackTo(r, place, g, u, x)
      BY <1>6 DEF BackTo
    <2>2. BackIn(r, place, g, u, x, BackTo(r, place, g, u, x))
      BY <1>3, BackFields
    <2> QED
      BY <2>1, <2>2 DEF BackIn
  <1>9. ReaderRight(c, r2, Idle)
    BY <1>4, <1>8 DEF ReaderRight, Kept, Until, Exact, Idle
  <1>10. Partial(r2) = <<>> /\ ParLen(r2) = 0
    BY <1>8, RunNone DEF Partial, ParLen, Exact
  <1>11. ASSUME place # "failed"
         PROVE  RunsTo(r2, <<>>, e)
    <2>1. PICK a \in Nat, p \in Int, m \in Nat, z \in Nat, y \in Nat :
            /\ a = Len(r.got) /\ p = ParLen(r) /\ m = Len(more) /\ z = Len(r.prefix)
            /\ y = Len(r.own)
      <3>1. ParLen(r) \in Int
        BY DEF ParLen, Receivers, Bytes
      <3>2. Len(r.got) \in Nat /\ Len(more) \in Nat /\ Len(r.prefix) \in Nat /\ Len(r.own) \in Nat
        BY <1>1 DEF Bytes
      <3> QED
        BY <3>1, <3>2, Zenon
    <2>2. /\ Len(b) = p + m /\ IsRun(r.prefix, a + p + m) /\ IsRun(r.own, a + p + m + z)
          /\ e = a + p + m + z + y
      BY <1>11, <2>1 DEF RunsTo
    <2>3. Len(g) = a + (p + m)
      BY <1>3, <2>1, <2>2
    <2>4. /\ a + (p + m) + 0 + 0 = a + p + m /\ a + (p + m) + 0 + 0 + z = a + p + m + z
          /\ a + (p + m) + 0 + 0 + z + y = a + p + m + z + y
      BY <2>1
    <2> QED
      BY <1>8, <1>10, <2>1, <2>2, <2>3, <2>4, RunNone DEF RunsTo
  <1> QED
    BY <1>3, <1>8, <1>9, <1>11 DEF Ended

(* A part of what the owner sees is a part of the memory.                  *)
LEMMA AsSlicePart ==
  ASSUME NEW v \in UserViews, SliceOK(v), NEW k \in Nat, k <= bytes_init(v.buf)
  PROVE  /\ SubSeq(as_slice(v.buf), 1, k) = SubSeq(v.buf.mem, 1, k)
         /\ k = bytes_init(v.buf) => as_slice(v.buf) = SubSeq(v.buf.mem, 1, k)
  <1>1. PICK s \in Bytes, mem \in Bytes, l \in Nat :
          /\ s = as_slice(v.buf) /\ mem = v.buf.mem /\ l = bytes_init(v.buf)
          /\ Len(s) = l /\ l <= Len(mem) /\ \A i \in 1..l : s[i] = mem[i]
    BY AsSlice DEF UserViews, UserBuffers
  <1>2. k \in 0..Len(s) /\ k \in 0..Len(mem)
    <2>1. PICK m \in Nat : m = Len(mem)
      BY DEF Bytes
    <2> QED
      BY <1>1, <2>1
  <1>3. PICK t, w : t = SubSeq(s, 1, k) /\ w = SubSeq(mem, 1, k)
    OBVIOUS
  <1>4. t \in Bytes /\ Len(t) = k /\ \A i \in 1..k : t[i] = s[i]
    BY <1>2, <1>3, BytesHead
  <1>5. w \in Bytes /\ Len(w) = k /\ \A i \in 1..k : w[i] = mem[i]
    BY <1>2, <1>3, BytesHead
  <1>6. t = w
    <2>1. \A i \in 1..k : s[i] = mem[i]
      BY <1>1
    <2>2. \A i \in 1..k : t[i] = w[i]
      BY <1>4, <1>5, <2>1
    <2> QED
      BY <1>4, <1>5, <2>2, SeqEqual DEF Bytes
  <1>7. k = l => s = w
    BY <1>1, <1>5, SeqEqual DEF Bytes
  <1> QED
    BY <1>1, <1>3, <1>6, <1>7

(* What makes a sequence.                                                  *)
LEMMA SeqByElements ==
  ASSUME NEW S, NEW n \in Nat, NEW w, w = [i \in 1..n |-> w[i]], \A i \in 1..n : w[i] \in S
  PROVE  w \in Seq(S) /\ Len(w) = n
  <1>1. w \in [1..n -> S]
    BY Zenon
  <1>2. w \in Seq(S)
    BY <1>1
  <1> QED
    BY <1>1, <1>2

(* The vectors of a readv.                                                 *)
LEMMA VecBufFacts ==
  /\ VecBuf(VecLens) \in Vecs /\ Len(VecBuf(VecLens)) = Len(VecLens)
  /\ Len(VecLens) \in Nat \ {0}
  /\ \A k \in 1..Len(VecLens) :
       /\ VecLens[k] \in Nat \ {0}
       /\ Len(VecBuf(VecLens)[k].mem) = VecLens[k]
       /\ VecBuf(VecLens)[k].len = VecLens[k] /\ VecBuf(VecLens)[k].kind = "vec"
       /\ VecBuf(VecLens)[k].mem \in Bytes
  <1>1. PICK n \in Nat \ {0} : n = Len(VecLens)
    BY ReaderAssumption, EmptySeq, LenProperties
  <1>2. DOMAIN VecLens = 1..n /\ \A k \in 1..n : VecLens[k] \in Nat \ {0}
    BY <1>1, ReaderAssumption
  <1>3. PICK vb : vb = VecBuf(VecLens)
    OBVIOUS
  <1>4. vb = [i \in 1..n |-> [kind |-> "vec", mem |-> [j \in 1..VecLens[i] |-> Uninit],
                              len |-> VecLens[i]]]
    BY <1>2, <1>3 DEF VecBuf
  <1>5. ASSUME NEW k \in 1..n
        PROVE  /\ vb[k].mem \in Bytes /\ Len(vb[k].mem) = VecLens[k]
               /\ vb[k].len = VecLens[k] /\ vb[k].kind = "vec"
               /\ vb[k] \in [kind : {"vec"}, mem : Bytes, len : Nat]
    <2>0. PICK l \in Nat : l = VecLens[k]
      BY <1>2
    <2>1. PICK m : l = VecLens[k] /\ m = [j \in 1..l |-> Uninit]
      BY <2>0
    <2>2. m \in Bytes /\ Len(m) = l
      BY <2>1 DEF Bytes, Uninit
    <2>3. vb[k] = [kind |-> "vec", mem |-> m, len |-> l]
      BY <1>4, <2>1
    <2> QED
      BY <2>1, <2>2, <2>3
  <1>6. vb \in Vecs /\ Len(vb) = n
    BY <1>4, <1>5 DEF Vecs
  <1> QED
    BY <1>1, <1>2, <1>3, <1>5, <1>6

(* The vectors before one hold at least the first.                         *)
LEMMA VecSumsGrow ==
  ASSUME NEW vb, NEW n \in Nat \ {0}, n = Len(vb), \A k \in 1..n : Len(vb[k].mem) \in Nat
  PROVE  \A k \in 1..n : VecSums(vb)[k] >= Len(vb[1].mem)
  <1>1. PICK f : f = VecSums(vb)
    OBVIOUS
  <1>2. /\ f[0] = 0 /\ \A k \in 0..n : f[k] \in Nat
        /\ \A k \in 1..n : f[k] = f[k - 1] + Len(vb[k].mem)
    BY <1>1, VecSumsFacts
  <1>3. PICK l \in Nat : l = Len(vb[1].mem)
    OBVIOUS
  <1> DEFINE S == {k \in 0..n : k # 0 => f[k] >= l}
  <1>4. 0 \in S
    OBVIOUS
  <1>5. \A k \in 0..(n - 1) : k \in S => k + 1 \in S
    <2> SUFFICES ASSUME NEW k \in 0..(n - 1), k \in S
                 PROVE  k + 1 \in S
      OBVIOUS
    <2>1. k + 1 \in 1..n /\ (k + 1) - 1 = k /\ k \in 0..n /\ k + 1 \in 0..n
      OBVIOUS
    <2>2. f[k + 1] = f[k] + Len(vb[k + 1].mem) /\ f[k] \in Nat /\ Len(vb[k + 1].mem) \in Nat
      BY <1>2, <2>1
    <2>3. k = 0 => f[k + 1] = l
      BY <1>2, <1>3, <2>2
    <2> QED
      BY <2>1, <2>2, <2>3
  <1> HIDE DEF S
  <1>6. 0..n \subseteq S
    BY <1>4, <1>5, CountUp
  <1>7. \A k \in 1..n : f[k] >= l
    BY <1>6 DEF S
  <1> QED
    BY <1>1, <1>3, <1>7

(* What scattered bytes are to the owner of the vectors,                   *)
LEMMA VecRead ==
  ASSUME NEW bytes \in Bytes, NEW m \in Nat, m = Len(bytes), m <= vec_total(VecBuf(VecLens))
  PROVE  vec_bytes(vec_set_init(vec_fill(VecBuf(VecLens), bytes), m), m) = bytes
  <1>1. PICK n \in Nat \ {0}, vb \in Vecs : /\ n = Len(VecLens) /\ vb = VecBuf(VecLens)
                                            /\ Len(vb) = n
    BY VecBufFacts
  <1>2. \A k \in 1..n : /\ vb[k].mem \in Bytes /\ Len(vb[k].mem) \in Nat
                        /\ vb[k].len = Len(vb[k].mem) /\ vb[k].kind = "vec"
                        /\ vb[k] \in [kind : {"vec"}, mem : Bytes, len : Nat]
    <2>1. \A k \in 1..n : vb[k] \in [kind : {"vec"}, mem : Bytes, len : Nat]
      BY <1>1, ElementOfSeq, Zenon DEF Vecs
    <2> QED
      BY <1>1, <2>1, VecBufFacts
  <1>3. PICK f : f = VecSums(vb)
    OBVIOUS
  <1>4. /\ \A k \in 0..n : f[k] \in Nat
        /\ \A i \in 1..(n + 1) : Before(vb, i) = f[i - 1]
        /\ vec_total(vb) = f[n]
    BY <1>1, <1>2, <1>3, VecSumsFacts
  <1>5. PICK wb : wb = vec_fill(vb, bytes)
    OBVIOUS
  <1>6. DOMAIN vb = 1..n /\ DOMAIN bytes = 1..m
    BY <1>1 DEF Vecs, Bytes
  <1>7. wb = [i \in 1..n |-> [vb[i] EXCEPT !.mem = [j \in DOMAIN @ |->
                IF Before(vb, i) + j \in 1..m THEN bytes[Before(vb, i) + j] ELSE @[j]]]]
    BY <1>5, <1>6, Zenon DEF vec_fill
  <1>8. ASSUME NEW i \in 1..n
        PROVE  /\ wb[i].mem \in Bytes /\ Len(wb[i].mem) = Len(vb[i].mem)
               /\ wb[i].len = Len(wb[i].mem)
               /\ wb[i] \in [kind : {"vec"}, mem : Bytes, len : Nat]
               /\ \A j \in 1..Len(wb[i].mem) : f[i - 1] + j <= m => wb[i].mem[j] = bytes[f[i - 1] + j]
    <2>1. PICK mem \in Bytes, l \in Nat, a \in Nat :
            mem = vb[i].mem /\ l = Len(mem) /\ a = f[i - 1] /\ Before(vb, i) = a
      <3>1. i - 1 \in 0..n
        OBVIOUS
      <3> QED
        BY <1>2, <1>4, <3>1
    <2>2. DOMAIN mem = 1..l
      BY <2>1 DEF Bytes
    <2>3. PICK w : w = [j \in 1..l |-> IF a + j \in 1..m THEN bytes[a + j] ELSE mem[j]]
      OBVIOUS
    <2>4. w \in Bytes /\ Len(w) = l
      <3>1. \A j \in 1..m : bytes[j] \in Int
        BY DEF Bytes
      <3>2. \A j \in 1..l : mem[j] \in Int
        BY <2>1 DEF Bytes
      <3> QED
        BY <2>3, <3>1, <3>2 DEF Bytes
    <2>5. wb[i] = [vb[i] EXCEPT !.mem = w]
      BY <1>7, <2>1, <2>2, <2>3
    <2>6. /\ wb[i].mem = w /\ wb[i].len = l /\ wb[i].kind = "vec"
          /\ wb[i] \in [kind : {"vec"}, mem : Bytes, len : Nat]
      BY <1>2, <2>1, <2>4, <2>5
    <2>7. \A j \in 1..l : a + j <= m => w[j] = bytes[a + j]
      BY <2>3
    <2> QED
      BY <2>1, <2>4, <2>6, <2>7
  <1>9. wb \in Vecs /\ Len(wb) = n
    <2>1. wb = [i \in 1..n |-> wb[i]]
      BY <1>7
    <2>2. \A i \in 1..n : wb[i] \in [kind : {"vec"}, mem : Bytes, len : Nat]
      BY <1>8
    <2>3. PICK N \in Nat : N = n
      OBVIOUS
    <2>4. PICK S : S = [kind : {"vec"}, mem : Bytes, len : Nat]
      OBVIOUS
    <2>5. wb = [i \in 1..N |-> wb[i]] /\ \A i \in 1..N : wb[i] \in S
      BY <2>1, <2>2, <2>3, <2>4
    <2>6. wb \in Seq(S) /\ Len(wb) = N
      BY <2>5, SeqByElements, Zenon
    <2> QED
      BY <2>3, <2>4, <2>6 DEF Vecs
  <1>10. \A k \in 0..n : VecSums(wb)[k] = f[k]
    <2>1. \A k \in 1..n : Len(vb[k].mem) \in Nat /\ Len(wb[k].mem) = Len(vb[k].mem)
      BY <1>2, <1>8
    <2> QED
      BY <1>1, <1>3, <1>9, <2>1, VecSumsSame
  <1>11. vec_total(wb) = f[n]
    <2>1. \A k \in 1..n : Len(wb[k].mem) \in Nat
      BY <1>2, <1>8
    <2>2. vec_total(wb) = VecSums(wb)[n]
      BY <1>9, <2>1, VecSumsFacts
    <2> QED
      BY <1>10, <2>2
  <1>12. \A k \in 1..n : wb[k].len = Len(wb[k].mem)
    BY <1>8
  <1>13. \A k \in 1..n : \A j \in 1..Len(wb[k].mem) :
           VecSums(wb)[k - 1] + j <= m => wb[k].mem[j] = bytes[VecSums(wb)[k - 1] + j]
    <2>1. \A k \in 1..n : VecSums(wb)[k - 1] = f[k - 1]
      BY <1>10
    <2> QED
      BY <1>8, <2>1
  <1>14. m <= vec_total(wb)
    BY <1>1, <1>4, <1>11
  <1>15. vec_bytes(vec_set_init(wb, m), m) = bytes
    BY <1>9, <1>12, <1>13, <1>14, VecBytes, ZenonT(40)
  <1> QED
    BY <1>1, <1>5, <1>15

(* and bytes that were read into the first one.                            *)
LEMMA VecFirst ==
  ASSUME NEW bytes \in Bytes, NEW m \in Nat, m = Len(bytes), NEW mem \in Bytes,
         Len(mem) = VecLens[1], m <= VecLens[1], \A j \in 1..m : mem[j] = bytes[j]
  PROVE  vec_bytes(vec_set_init([VecBuf(VecLens) EXCEPT ![1].mem = mem], m), m) = bytes
  <1>1. PICK n \in Nat \ {0}, vb \in Vecs : /\ n = Len(VecLens) /\ vb = VecBuf(VecLens)
                                            /\ Len(vb) = n
    BY VecBufFacts
  <1>2. PICK l \in Nat : l = VecLens[1]
    BY VecBufFacts
  <1>3. \A k \in 1..n : /\ vb[k].mem \in Bytes /\ Len(vb[k].mem) \in Nat
                        /\ vb[k].len = Len(vb[k].mem) /\ vb[k].kind = "vec"
                        /\ vb[k] \in [kind : {"vec"}, mem : Bytes, len : Nat]
    <2>1. \A k \in 1..n : vb[k] \in [kind : {"vec"}, mem : Bytes, len : Nat]
      BY <1>1, ElementOfSeq, Zenon DEF Vecs
    <2> QED
      BY <1>1, <2>1, VecBufFacts
  <1>4. DOMAIN vb = 1..n
    BY <1>1 DEF Vecs
  <1>5. PICK wb : wb = [vb EXCEPT ![1].mem = mem]
    OBVIOUS
  <1>6. PICK w : w = [vb[1] EXCEPT !.mem = mem]
    OBVIOUS
  <1>7. 1 \in 1..n /\ Len(vb[1].mem) = l /\ vb[1].len = l
    BY <1>1, <1>2, <1>3, VecBufFacts
  <1>8. w \in [kind : {"vec"}, mem : Bytes, len : Nat] /\ w.mem = mem /\ w.len = l
    BY <1>3, <1>6, <1>7
  <1>9. wb = [i \in 1..n |-> IF i = 1 THEN w ELSE vb[i]]
    BY <1>1, <1>4, <1>5, <1>6, <1>7 DEF Vecs
  <1>10. wb \in Vecs /\ Len(wb) = n
    <2>1. \A i \in 1..n : (IF i = 1 THEN w ELSE vb[i]) \in [kind : {"vec"}, mem : Bytes, len : Nat]
      BY <1>3, <1>8
    <2> QED
      BY <1>9, <2>1 DEF Vecs
  <1>11. \A i \in 1..n : wb[i].len = Len(wb[i].mem) /\ Len(wb[i].mem) \in Nat
    BY <1>2, <1>3, <1>8, <1>9
  <1>12. wb[1].mem = mem /\ Len(wb[1].mem) = l
    BY <1>2, <1>7, <1>8, <1>9
  <1>13. PICK f : f = VecSums(wb)
    OBVIOUS
  <1>14. /\ f[0] = 0 /\ \A k \in 0..n : f[k] \in Nat /\ vec_total(wb) = f[n]
         /\ \A k \in 1..n : f[k] >= l
    BY <1>10, <1>11, <1>12, <1>13, VecSumsFacts, VecSumsGrow
  <1>15. m <= vec_total(wb)
    <2>1. n \in 1..n /\ n \in 0..n
      OBVIOUS
    <2> QED
      BY <1>2, <1>14, <2>1
  <1>16. ASSUME NEW k \in 1..n, NEW j \in 1..Len(wb[k].mem), f[k - 1] + j <= m
         PROVE  wb[k].mem[j] = bytes[f[k - 1] + j]
    <2>1. CASE k = 1
      <3>1. f[k - 1] + j = j /\ j \in 1..m
        BY <1>12, <1>14, <1>16, <2>1
      <3> QED
        BY <1>12, <2>1, <3>1
    <2>2. CASE k # 1
      <3>1. k - 1 \in 1..n
        BY <2>2
      <3>2. f[k - 1] >= l /\ f[k - 1] \in Nat /\ j \in Nat \ {0}
        BY <1>11, <1>14, <3>1
      <3> QED
        BY <1>2, <1>16, <3>2
    <2> QED
      BY <2>1, <2>2
  <1>17. vec_bytes(vec_set_init(wb, m), m) = bytes
    <2>1. \A k \in 1..n : \A j \in 1..Len(wb[k].mem) :
            VecSums(wb)[k - 1] + j <= m => wb[k].mem[j] = bytes[VecSums(wb)[k - 1] + j]
      BY <1>13, <1>16
    <2>2. \A k \in 1..n : wb[k].len = Len(wb[k].mem)
      BY <1>11
    <2> QED
      BY <1>10, <1>15, <2>1, <2>2, VecBytes, ZenonT(40)
  <1> QED
    BY <1>1, <1>5, <1>17

-----------------------------------------------------------------------------
(* What a read means to the call: the cases of ReadOk.                     *)

(* The read is under way: r had this much before it got these bytes.       *)
Reading(c, r, bytes, n, e) ==
  /\ r \in Receivers /\ r.pc = "loop" /\ ~r.eof
  /\ Kept(c, r) /\ InLoop(c, r)
  /\ r.call \notin Until /\ ~(r.call = "readv" /\ c.rx = "raw")
  /\ bytes \in Bytes /\ n \in Nat /\ n = Len(bytes) /\ n <= slice_total(r.u)
  /\ IsRun(r.got, 0) /\ RunsTo(r, bytes, e)

(* The buffer by then.                                                     *)
LEMMA ReadView ==
  ASSUME NEW c, NEW r, NEW bytes, NEW n, NEW e, Reading(c, r, bytes, n, e),
         NEW v, v = FilledView(r.u, bytes, n)
  PROVE  /\ v \in UserViews /\ SliceOK(v) /\ v.begin = r.u.begin /\ v.end = r.u.end
         /\ v.buf.kind = r.u.buf.kind /\ Len(v.buf.mem) = Len(r.u.buf.mem)
         /\ \A i \in 1..Len(r.u.buf.mem) :
              v.buf.mem[i] = IF i - r.u.begin \in 1..n THEN bytes[i - r.u.begin]
                             ELSE r.u.buf.mem[i]
         /\ v.buf.kind = "vec" => v.buf.len = r.u.begin + n
         /\ v.buf.kind = "bytes" => v.buf.len >= r.u.begin + n
         /\ SubSeq(as_slice(v.buf), r.u.begin + 1, r.u.begin + n) = bytes
         /\ Filled(r, bytes) = [r EXCEPT !.u = v]
         /\ r.u \in UserViews /\ SliceOK(r.u) /\ n <= r.u.end - r.u.begin
  <1>1. r.u \in UserViews /\ SliceOK(r.u) /\ n <= r.u.end - r.u.begin
    BY DEF Reading, Receivers, Kept, slice_total
  <1>2. bytes \in Bytes /\ n \in Nat /\ n = Len(bytes)
    BY DEF Reading
  <1>3. /\ v \in UserViews /\ SliceOK(v) /\ v.begin = r.u.begin /\ v.end = r.u.end
        /\ v.buf.kind = r.u.buf.kind /\ Len(v.buf.mem) = Len(r.u.buf.mem)
        /\ \A i \in 1..Len(r.u.buf.mem) :
             v.buf.mem[i] = IF i - r.u.begin \in 1..n THEN bytes[i - r.u.begin]
                            ELSE r.u.buf.mem[i]
        /\ v.buf.kind = "vec" => v.buf.len = r.u.begin + n
        /\ v.buf.kind = "bytes" => v.buf.len >= r.u.begin + n
    BY <1>1, <1>2, FilledFacts
  <1>4. SubSeq(as_slice(v.buf), r.u.begin + 1, r.u.begin + n) = bytes
    BY <1>1, <1>2, FilledSlice
  <1>5. Filled(r, bytes) = [r EXCEPT !.u = v]
    BY <1>2 DEF Filled, FilledView, Reading, Receivers
  <1> QED
    BY <1>1, <1>3, <1>4, <1>5

(* read_exact and read_int: what they have once these bytes are there.     *)
LEMMA ExactPart ==
  ASSUME NEW c, NEW r, NEW bytes, NEW n, NEW e, Reading(c, r, bytes, n, e), r.call \in Exact,
         NEW v, v = FilledView(r.u, bytes, n)
  PROVE  LET s == SubSeq(v.buf.mem, 1, r.read + n)
         IN  /\ s \in Bytes /\ Len(s) = r.read + n /\ IsRun(s, Len(r.got))
             /\ r.read \in Nat /\ r.read + n \in Nat
             /\ Len(v.buf.mem) \in Nat /\ r.read + n <= Len(v.buf.mem)
             /\ SubSeq(as_slice(v.buf), 1, r.read + n) = s
             /\ r.read + n = bytes_init(v.buf) => as_slice(v.buf) = s
             /\ r.read + n <= bytes_init(v.buf)
             /\ r.call = "read_exact" => r.read + n = bytes_init(v.buf)
             /\ r.call = "read_int" => Len(v.buf.mem) = bytes_init(v.buf)
             /\ set_init(v.buf, r.read + n) = v.buf
  <1>1. /\ v \in UserViews /\ SliceOK(v) /\ v.begin = r.u.begin /\ v.end = r.u.end
        /\ v.buf.kind = r.u.buf.kind /\ Len(v.buf.mem) = Len(r.u.buf.mem)
        /\ v.buf.kind = "vec" => v.buf.len = r.u.begin + n
        /\ r.u \in UserViews /\ SliceOK(r.u) /\ n <= r.u.end - r.u.begin
    BY ReadView
  <1>2. bytes \in Bytes /\ n \in Nat /\ n = Len(bytes) /\ r.read \in Nat /\ r.got \in Bytes
    BY DEF Reading, Receivers
  <1>3. /\ r.u.begin = r.read /\ r.u.end = Len(r.u.buf.mem)
        /\ r.call = "read_exact" => r.u.buf.kind = "vec" /\ r.u.buf.len = r.read
        /\ r.call = "read_int" => r.u.buf.kind = "box"
    BY DEF Reading, InLoop
  <1>4. PICK a \in Nat : a = Len(r.got)
    BY <1>2 DEF Bytes
  <1>5. PICK l \in Nat : l = bytes_init(r.u.buf) /\ r.read <= l
    BY <1>1, <1>3, AsSlice
  <1>6. SubSeq(as_slice(r.u.buf), 1, r.read) = SubSeq(r.u.buf.mem, 1, r.read)
    BY <1>1, <1>2, <1>5, AsSlicePart
  <1>7. IsRun(SubSeq(r.u.buf.mem, 1, r.u.begin), a) /\ IsRun(bytes, a + r.u.begin)
    BY <1>3, <1>4, <1>6 DEF Reading, RunsTo, Partial, ParLen
  <1>8. PICK s : s = SubSeq(v.buf.mem, 1, r.u.begin + n)
    OBVIOUS
  <1>9. s \in Bytes /\ Len(s) = r.u.begin + n /\ IsRun(s, a)
    <2>1. PICK u \in UserViews : u = r.u
      BY <1>1
    <2>2. /\ SliceOK(u) /\ n <= u.end - u.begin /\ v = FilledView(u, bytes, n) /\ a \in Int
          /\ IsRun(SubSeq(u.buf.mem, 1, u.begin), a) /\ IsRun(bytes, a + u.begin)
      BY <1>1, <1>7, <2>1
    <2>3. LET t == SubSeq(FilledView(u, bytes, n).buf.mem, 1, u.begin + n)
          IN  t \in Bytes /\ Len(t) = u.begin + n /\ IsRun(t, a)
      BY <1>2, <2>2, FilledPart
    <2> QED
      BY <1>8, <2>1, <2>2, <2>3
  <1>10. PICK k \in Nat, m \in Nat, mem \in Bytes :
           k = r.read + n /\ mem = v.buf.mem /\ m = Len(mem) /\ k <= m
    <2>1. PICK mem \in Bytes : mem = v.buf.mem
      BY <1>1 DEF UserViews, UserBuffers
    <2>2. PICK m \in Nat : m = Len(mem)
      BY DEF Bytes
    <2>3. PICK k \in Nat : k = r.read + n
      BY <1>2
    <2>4. k <= m
      BY <1>1, <1>2, <1>3, <2>1, <2>2, <2>3
    <2> QED
      BY <2>1, <2>2, <2>3, <2>4
  <1>11. /\ r.call = "read_exact" => k = bytes_init(v.buf)
         /\ r.call = "read_int" => m = bytes_init(v.buf)
         /\ k <= bytes_init(v.buf)
    BY <1>1, <1>3, <1>10 DEF bytes_init, Exact
  <1>12. /\ SubSeq(as_slice(v.buf), 1, k) = SubSeq(mem, 1, k)
         /\ k = bytes_init(v.buf) => as_slice(v.buf) = SubSeq(mem, 1, k)
    BY <1>1, <1>10, <1>11, AsSlicePart
  <1>13. set_init(v.buf, k) = v.buf
    <2>1. PICK b \in UserBuffers : b = v.buf
      BY <1>1 DEF UserViews
    <2>2. b.kind = "vec" => b.len = k
      BY <1>1, <1>3, <1>10, <2>1
    <2>3. b.kind \in {"vec", "box"}
      BY <1>1, <1>3, <2>1 DEF Exact
    <2> QED
      BY <2>1, <2>2, <2>3 DEF set_init, UserBuffers
  <1> QED
    BY <1>2, <1>3, <1>4, <1>8, <1>9, <1>10, <1>11, <1>12, <1>13

(* They go round again,                                                    *)
LEMMA ExactAgain ==
  ASSUME NEW c, NEW r, NEW bytes, NEW n, NEW e, Reading(c, r, bytes, n, e), r.call \in Exact,
         NEW v, v = FilledView(r.u, bytes, n), r.read + n < Len(v.buf.mem)
  PROVE  ReadTo(c, r, n, e, [r EXCEPT !.u = SliceMut(v.buf, r.read + n, Len(v.buf.mem)),
                                      !.pc = "loop", !.read = r.read + n])
  <1>1. /\ v \in UserViews /\ SliceOK(v) /\ v.buf.kind = r.u.buf.kind
        /\ v.buf.kind = "vec" => v.buf.len = r.u.begin + n
    BY ReadView
  <1>2. PICK s \in Bytes, k \in Nat, m \in Nat :
          /\ k = r.read + n /\ m = Len(v.buf.mem)
          /\ s = SubSeq(as_slice(v.buf), 1, k) /\ Len(s) = k
          /\ IsRun(s, Len(r.got))
          /\ k <= bytes_init(v.buf)
    <2>1. PICK t, k, m : t = SubSeq(v.buf.mem, 1, k) /\ k = r.read + n /\ m = Len(v.buf.mem)
      OBVIOUS
    <2>2. /\ t \in Bytes /\ Len(t) = k /\ IsRun(t, Len(r.got)) /\ k \in Nat /\ m \in Nat
          /\ SubSeq(as_slice(v.buf), 1, k) = t /\ k <= bytes_init(v.buf)
      BY <2>1, ExactPart
    <2> QED
      BY <2>1, <2>2
  <1>3. r \in Receivers /\ r.pc = "loop" /\ ~r.eof /\ IsRun(r.got, 0) /\ n \in Nat
    BY DEF Reading
  <1>4. PICK u \in UserViews : u = SliceMut(v.buf, k, m)
    BY <1>1, <1>2 DEF SliceMut, UserViews
  <1>5. u.buf = v.buf /\ u.begin = k /\ u.end = m
    BY <1>4 DEF SliceMut
  <1>6. /\ r.u.begin = r.read
        /\ r.call = "read_exact" => r.u.buf.kind = "vec" /\ r.u.buf.len = r.read
        /\ r.call = "read_int" => r.u.buf.kind = "box"
    BY DEF Reading, InLoop
  <1>7. PICK r2 : r2 = [r EXCEPT !.u = u, !.pc = "loop", !.read = k]
    OBVIOUS
  <1>8. /\ r2 \in Receivers /\ r2.pc = "loop" /\ r2.u = u /\ r2.read = k
        /\ r2.call = r.call /\ r2.got = r.got /\ r2.line = r.line /\ r2.prefix = r.prefix
        /\ r2.own = r.own /\ r2.finished = r.finished /\ r2.eof = r.eof /\ r2.vb = r.vb
    BY <1>3, <1>7 DEF Receivers
  <1>9. SliceOK(u)
    BY <1>1, <1>2, <1>5, <1>6 DEF SliceOK, bytes_init, Exact
  <1>10. Kept(c, r2)
    BY <1>8, <1>9 DEF Kept, Reading
  <1>11. InLoop(c, r2)
    BY <1>1, <1>2, <1>5, <1>6, <1>8 DEF InLoop, Reading, Exact, Calls
  <1>12. RunsTo(r2, <<>>, e)
    <2>1. Partial(r2) = s /\ ParLen(r2) = k
      BY <1>2, <1>5, <1>8 DEF Partial, ParLen
    <2>2. /\ r.got \in Bytes /\ r.read \in Nat /\ r.prefix \in Bytes /\ r.own \in Bytes
      BY <1>3 DEF Receivers
    <2>3. PICK a \in Nat, p \in Nat, z \in Nat, y \in Nat :
            a = Len(r.got) /\ p = r.read /\ z = Len(r.prefix) /\ y = Len(r.own)
      BY <2>2 DEF Bytes
    <2>4. /\ IsRun(r.prefix, a + p + n) /\ IsRun(r.own, a + p + n + z)
          /\ e = a + p + n + z + y
      BY <2>3 DEF Reading, RunsTo, ParLen
    <2>5. a + k + 0 = a + p + n
      <3>1. k = p + n
        BY <1>2, <2>3
      <3> QED
        BY <1>3, <2>3, <3>1
    <2> QED
      BY <1>2, <1>8, <2>1, <2>3, <2>4, <2>5, RunNone DEF RunsTo
  <1>13. ReadTo(c, r, n, e, r2)
    BY <1>3, <1>8, <1>10, <1>11, <1>12 DEF ReadTo, ReaderRight, Idle
  <1> QED
    BY <1>2, <1>4, <1>7, <1>13

(* or return what they have.                                               *)
LEMMA ReadReturns ==
  ASSUME NEW c, NEW r, NEW bytes, NEW n, NEW e, Reading(c, r, bytes, n, e),
         NEW v \in UserViews, SliceOK(v), NEW b \in Bytes, IsRun(b, Len(r.got)),
         NEW place \in {"idle", "failed"}, place # "failed" => Len(b) = ParLen(r) + n,
         NEW x \in BOOLEAN, x => n = 0
  PROVE  ReadTo(c, r, n, e, Back([r EXCEPT !.u = v, !.eof = x], b, place))
  <1>1. /\ r \in Receivers /\ Kept(c, r) /\ IsRun(r.got, 0) /\ RunsTo(r, bytes, e)
        /\ bytes \in Bytes /\ n = Len(bytes)
    BY DEF Reading
  <1>2. PICK r2 : r2 = Back([r EXCEPT !.u = v, !.eof = x], b, place)
    OBVIOUS
  <1>3. Ending(c, r, v, x, b, place, bytes, e)
    BY <1>1 DEF Ending
  <1>4. Ended(c, r, x, place, e, r2)
    BY <1>2, <1>3, BackRight, Zenon
  <1> QED
    BY <1>2, <1>4 DEF ReadTo, Ended

(* Every case of ReadOk: the operation is gone and the bytes are kept.     *)
LEMMA ReadOkRight ==
  ASSUME NEW c, NEW r, NEW bytes, NEW n, NEW e, Reading(c, r, bytes, n, e),
         ReadOk(Filled(r, bytes), n)
  PROVE  op' = [op EXCEPT !["rx"] = Idle] /\ ReadTo(c, r, n, e, rx')
  <1>1. PICK v \in UserViews : v = FilledView(r.u, bytes, n)
    BY ReadView
  <1>2. /\ SliceOK(v) /\ v.begin = r.u.begin /\ v.end = r.u.end
        /\ Len(v.buf.mem) = Len(r.u.buf.mem)
        /\ \A i \in 1..Len(r.u.buf.mem) :
             v.buf.mem[i] = IF i - r.u.begin \in 1..n THEN bytes[i - r.u.begin]
                            ELSE r.u.buf.mem[i]
        /\ SubSeq(as_slice(v.buf), r.u.begin + 1, r.u.begin + n) = bytes
        /\ Filled(r, bytes) = [r EXCEPT !.u = v]
        /\ n <= r.u.end - r.u.begin
    BY <1>1, ReadView
  <1>3. /\ r \in Receivers /\ r.pc = "loop" /\ r.eof = FALSE /\ r.call \in Calls
        /\ r.call \notin Until /\ ~(r.call = "readv" /\ c.rx = "raw")
        /\ bytes \in Bytes /\ n \in Nat /\ n = Len(bytes) /\ IsRun(r.got, 0)
        /\ RunsTo(r, bytes, e) /\ InLoop(c, r) /\ Kept(c, r)
    BY DEF Reading, InLoop, Receivers
  <1>4. PICK f \in Receivers : f = [r EXCEPT !.u = v]
    BY <1>3 DEF Receivers
  <1>5. /\ f.u = v /\ f.call = r.call /\ f.read = r.read /\ f.vb = r.vb /\ f.eof = FALSE
        /\ \A x \in BOOLEAN : [f EXCEPT !.eof = x] = [r EXCEPT !.u = v, !.eof = x]
        /\ f = [r EXCEPT !.u = v, !.eof = FALSE]
    BY <1>3, <1>4 DEF Receivers
  <1>6. ReadOk(f, n)
    BY <1>2, <1>4
  <1>7. r.call \notin Exact =>
          /\ IsRun(bytes, Len(r.got)) /\ ParLen(r) = 0 /\ n = ParLen(r) + n
    <2> SUFFICES ASSUME r.call \notin Exact
                 PROVE  IsRun(bytes, Len(r.got)) /\ ParLen(r) = 0 /\ n = ParLen(r) + n
      OBVIOUS
    <2>1. ParLen(r) = 0
      BY <1>3, RunNone DEF ParLen, Kept
    <2>2. PICK a \in Nat : a = Len(r.got)
      BY <1>3 DEF Receivers, Bytes
    <2> QED
      BY <1>3, <2>1, <2>2 DEF RunsTo
  <1>8. (n = 0) \in BOOLEAN /\ (r.read = 0) \in BOOLEAN
    OBVIOUS
  <1>9. ASSUME NEW b \in Bytes, IsRun(b, Len(r.got)), NEW place \in {"idle", "failed"},
               place # "failed" => Len(b) = ParLen(r) + n, NEW x \in BOOLEAN, x => n = 0,
               Return([r EXCEPT !.u = v, !.eof = x], b, place)
        PROVE  op' = [op EXCEPT !["rx"] = Idle] /\ ReadTo(c, r, n, e, rx')
    <2>1. /\ rx' = Back([r EXCEPT !.u = v, !.eof = x], b, place)
          /\ op' = [op EXCEPT !["rx"] = Idle]
      BY <1>9, Zenon DEF Return, Goes, Back
    <2>2. ReadTo(c, r, n, e, Back([r EXCEPT !.u = v, !.eof = x], b, place))
      BY <1>2, <1>9, ReadReturns, Zenon
    <2> QED
      BY <2>1, <2>2
  <1>10. CASE r.call \in Exact /\ n # 0
    <2>1. PICK s \in Bytes, k \in Nat, m \in Nat :
            /\ s = SubSeq(v.buf.mem, 1, k) /\ k = r.read + n /\ m = Len(v.buf.mem)
            /\ Len(s) = k /\ IsRun(s, Len(r.got)) /\ k <= m
            /\ k = bytes_init(v.buf) => as_slice(v.buf) = s
            /\ r.call = "read_exact" => k = bytes_init(v.buf)
            /\ r.call = "read_int" => m = bytes_init(v.buf)
            /\ set_init(v.buf, k) = v.buf
      <3>1. PICK s, k, m : s = SubSeq(v.buf.mem, 1, k) /\ k = r.read + n /\ m = Len(v.buf.mem)
        OBVIOUS
      <3>2. /\ s \in Bytes /\ k \in Nat /\ m \in Nat /\ Len(s) = k /\ IsRun(s, Len(r.got))
            /\ k <= m
            /\ k = bytes_init(v.buf) => as_slice(v.buf) = s
            /\ r.call = "read_exact" => k = bytes_init(v.buf)
            /\ r.call = "read_int" => m = bytes_init(v.buf)
            /\ set_init(v.buf, k) = v.buf
        BY <1>1, <1>10, <3>1, ExactPart
      <3> QED
        BY <3>1, <3>2
    <2>2. CASE k < m
      <3>1. Goes([f EXCEPT !.pc = "loop", !.read = k, !.u = SliceMut(v.buf, k, m)])
        <4>1. r.call \in {"read_exact", "read_int"} /\ n # 0
          BY <1>10 DEF Exact
        <4>2. k < bytes_total(v.buf) /\ m = bytes_total(v.buf)
          BY <2>1, <2>2 DEF bytes_total
        <4> QED
          BY <1>5, <1>6, <2>1, <4>1, <4>2, Zenon DEF ReadOk
      <3>2. [f EXCEPT !.pc = "loop", !.read = k, !.u = SliceMut(v.buf, k, m)]
              = [r EXCEPT !.u = SliceMut(v.buf, k, m), !.pc = "loop", !.read = k]
        BY <1>3, <1>4 DEF Receivers
      <3>3. ReadTo(c, r, n, e, [r EXCEPT !.u = SliceMut(v.buf, k, m), !.pc = "loop", !.read = k])
        BY <1>1, <1>10, <2>1, <2>2, ExactAgain, Zenon
      <3> QED
        BY <3>1, <3>2, <3>3 DEF Goes
    <2>3. CASE ~(k < m)
      <3>1. k = m
        BY <2>1, <2>3
      <3>2. Return(f, as_slice(v.buf), "idle")
        <4>1. r.call \in {"read_exact", "read_int"} /\ n # 0
          BY <1>10 DEF Exact
        <4>2. ~(k < bytes_total(v.buf))
          BY <2>1, <2>3 DEF bytes_total
        <4> QED
          BY <1>5, <1>6, <2>1, <4>1, <4>2, Zenon DEF ReadOk
      <3>3. as_slice(v.buf) = s
        BY <1>10, <2>1, <3>1 DEF Exact
      <3>4. Len(s) = ParLen(r) + n
        BY <1>10, <2>1 DEF ParLen
      <3>5. Return([r EXCEPT !.u = v, !.eof = FALSE], s, "idle")
        BY <1>5, <3>2, <3>3, Zenon
      <3> QED
        BY <1>9, <2>1, <3>4, <3>5, Zenon
    <2> QED
      BY <2>2, <2>3
  <1>11. CASE r.call = "read_exact" /\ n = 0
    <2>0. r.call \in Exact
      BY <1>11 DEF Exact
    <2>1. PICK s \in Bytes, k \in Nat :
            /\ s = SubSeq(v.buf.mem, 1, k) /\ k = r.read + n
            /\ Len(s) = k /\ IsRun(s, Len(r.got))
            /\ as_slice(v.buf) = s
      <3>1. PICK s, k : s = SubSeq(v.buf.mem, 1, k) /\ k = r.read + n
        OBVIOUS
      <3>2. /\ s \in Bytes /\ k \in Nat /\ Len(s) = k /\ IsRun(s, Len(r.got))
            /\ k = bytes_init(v.buf) => as_slice(v.buf) = s
            /\ k = bytes_init(v.buf)
        BY <1>1, <1>11, <2>0, <3>1, ExactPart
      <3> QED
        BY <3>1, <3>2
    <2>2. Return([f EXCEPT !.eof = TRUE], as_slice(v.buf), "idle")
      <3>1. ~(r.call \in {"read_exact", "read_int"} /\ n # 0)
        BY <1>11
      <3> QED
        BY <1>5, <1>6, <1>11, <3>1, Zenon DEF ReadOk
    <2>3. Return([r EXCEPT !.u = v, !.eof = TRUE], s, "idle")
      BY <1>5, <2>1, <2>2, Zenon
    <2>4. Len(s) = ParLen(r) + n
      BY <2>0, <2>1 DEF ParLen
    <2> QED
      BY <1>9, <1>11, <2>1, <2>3, <2>4, Zenon
  <1>12. CASE r.call = "read_int" /\ n = 0
    <2>1. PICK x \in BOOLEAN, place \in {"idle", "failed"} :
            x = (r.read = 0) /\ place = (IF r.read = 0 THEN "idle" ELSE "failed")
      BY <1>8
    <2>2. Return([f EXCEPT !.eof = x], <<>>, place)
      <3>1. /\ ~(r.call \in {"read_exact", "read_int"} /\ n # 0)
            /\ ~(r.call = "read_exact" /\ n = 0)
        BY <1>12
      <3> QED
        BY <1>5, <1>6, <1>12, <2>1, <3>1, Zenon DEF ReadOk
    <2>3. Return([r EXCEPT !.u = v, !.eof = x], <<>>, place)
      BY <1>5, <2>2, Zenon
    <2>4. place # "failed" => Len(<<>>) = ParLen(r) + n
      BY <1>12, <2>1 DEF ParLen, Exact
    <2> QED
      BY <1>9, <1>12, <2>1, <2>3, <2>4, RunNone, Zenon
  <1>13. CASE r.call = "readv"
    <2>0. r.call \notin Exact
      BY <1>13 DEF Exact
    <2>1. PICK x \in BOOLEAN : x = (n = 0)
      BY <1>8
    <2>2. PICK vb : vb = [VecBuf(VecLens) EXCEPT ![1].mem = v.buf.mem]
      OBVIOUS
    <2>3. Return([f EXCEPT !.eof = x], vec_bytes(vec_set_init(vb, n), n), "idle")
      <3>1. /\ ~(r.call \in {"read_exact", "read_int"} /\ n # 0)
            /\ ~(r.call = "read_exact" /\ n = 0) /\ ~(r.call = "read_int" /\ n = 0)
        BY <1>13
      <3>2. f.vb = VecBuf(VecLens)
        BY <1>3, <1>5, <1>13, Zenon DEF InLoop
      <3> QED
        BY <1>5, <1>6, <1>13, <2>1, <2>2, <3>1, <3>2, Zenon DEF ReadOk
    <2>4. /\ r.u.begin = 0 /\ r.u.end = VecLens[1] /\ Len(r.u.buf.mem) = VecLens[1]
      BY <1>3, <1>13 DEF InLoop
    <2>5. PICK mem \in Bytes, l \in Nat : /\ mem = v.buf.mem /\ l = VecLens[1] /\ Len(mem) = l
                                          /\ n <= l
      <3>1. v.buf.mem \in Bytes
        BY DEF UserViews, UserBuffers
      <3>2. VecLens[1] \in Nat
        BY <1>3, <2>4 DEF Receivers, UserViews
      <3> QED
        BY <1>2, <1>3, <2>4, <3>1, <3>2
    <2>6. \A j \in 1..n : mem[j] = bytes[j]
      <3> SUFFICES ASSUME NEW j \in 1..n
                   PROVE  mem[j] = bytes[j]
        OBVIOUS
      <3>1. j \in 1..Len(r.u.buf.mem) /\ j - r.u.begin \in 1..n /\ j - r.u.begin = j
        BY <1>3, <2>4, <2>5
      <3> QED
        BY <1>2, <2>5, <3>1
    <2>7. vec_bytes(vec_set_init(vb, n), n) = bytes
      <3>1. vb = [VecBuf(VecLens) EXCEPT ![1].mem = mem]
        BY <2>2, <2>5
      <3>2. Len(mem) = VecLens[1] /\ n <= VecLens[1]
        BY <2>5
      <3>3. vec_bytes(vec_set_init([VecBuf(VecLens) EXCEPT ![1].mem = mem], n), n) = bytes
        BY <1>3, <2>6, <3>2, VecFirst
      <3> QED
        BY <3>1, <3>3
    <2>8. Return([r EXCEPT !.u = v, !.eof = x], bytes, "idle")
      BY <1>5, <2>3, <2>7, Zenon
    <2> QED
      BY <1>3, <1>7, <1>9, <2>0, <2>1, <2>8, Zenon
  <1>14. CASE r.call \notin Exact /\ r.call # "readv"
    <2>1. PICK x \in BOOLEAN : x = (n = 0)
      BY <1>8
    <2>2. Return([f EXCEPT !.eof = x], bytes, "idle")
      <3>1. /\ ~(r.call \in {"read_exact", "read_int"} /\ n # 0)
            /\ ~(r.call = "read_exact" /\ n = 0) /\ ~(r.call = "read_int" /\ n = 0)
            /\ ~(r.call = "readv")
        BY <1>14 DEF Exact
      <3>2. SubSeq(as_slice(f.u.buf), f.u.begin + 1, f.u.begin + n) = bytes
        BY <1>2, <1>5, Zenon
      <3> QED
        BY <1>5, <1>6, <1>14, <2>1, <3>1, <3>2, Zenon DEF ReadOk
    <2>3. Return([r EXCEPT !.u = v, !.eof = x], bytes, "idle")
      BY <1>5, <2>2, Zenon
    <2> QED
      BY <1>3, <1>7, <1>9, <1>14, <2>1, <2>3, Zenon
  <1> QED
    BY <1>3, <1>10, <1>11, <1>12, <1>13, <1>14 DEF Exact

-----------------------------------------------------------------------------
(* The steps of the receiving side.                                        *)

(* The configurations a connection can have.                               *)
Stacks ==
  [bytes : Nat, tx : {"raw", "bufw", "compat"}, rx : {"raw", "prefixed", "bufr", "compat"},
   hop : {"none", "copy", "splice"}, sock : {"tcp", "unix"}, legacy : BOOLEAN,
   cancel : BOOLEAN, drop : BOOLEAN, fast : BOOLEAN]

(* An operation that receives holds what it has moved.                     *)
ReceiverOp(o) ==
  /\ o \in Ops
  /\ o.st = "idle" => o = Idle
  /\ o.st = "flight" => o.data = <<>>
  /\ o.st = "done" => Len(o.data) = Moved(o) /\ Moved(o) <= o.room

(* A reader that has seen the end has nothing left of its own.             *)
EofRight(r) ==
  r.eof => /\ r.pc \notin {"loop", "dropped"}
           /\ r.pc = "idle" => r.own = <<>> /\ r.prefix = <<>>

(* A receiver and its operation, as they must be.                          *)
ReaderState(c, r, o) ==
  /\ c \in Stacks /\ r \in Receivers /\ ReceiverOp(o)
  /\ ReaderRight(c, r, o) /\ IsRun(r.got, 0) /\ EofRight(r)

(* Before a step of the reader, and after it: r2 and o2 are its next       *)
(* values, and the bytes run to the same e.                                *)
ReaderAt(c, r, o, e) == ReaderState(c, r, o) /\ r.pc # "failed" /\ RunsTo(r, o.data, e)

(* A step of the receiver that moves no byte past it.                      *)
ReaderTo(c, r, o, e, r2, o2) ==
  /\ ReaderState(c, r2, o2)
  /\ r2.pc # "failed" => RunsTo(r2, o2.data, e)
  /\ r2.eof => r.eof \/ (o.st = "done" /\ o.res = 0)
  /\ o2.st = "done" => o2.res < 0 \/ o2 = o

ReaderStep(e) ==
  /\ op' = [op EXCEPT !["rx"] = op'["rx"]]
  /\ ReaderTo(cfg, rx, op["rx"], e, rx', op'["rx"])

(* An idle operation holds no bytes.                                       *)
LEMMA IdleFacts == Idle \in Ops /\ Idle.st = "idle" /\ Idle.data = <<>> /\ ReceiverOp(Idle)
  BY RunNone DEF Idle, Ops, ReceiverOp, Moved

(* The call has returned.                                                  *)
LEMMA EndedTo ==
  ASSUME NEW c, NEW r, NEW o, NEW e, ReaderAt(c, r, o, e),
         NEW x, NEW place \in {"idle", "failed"}, NEW r2, Ended(c, r, x, place, e, r2),
         x => o.st = "done" /\ o.res = 0
  PROVE  ReaderTo(c, r, o, e, r2, Idle)
  <1>1. /\ r2 \in Receivers /\ ReaderRight(c, r2, Idle) /\ IsRun(r2.got, 0)
        /\ r2.pc = place /\ (place # "failed" => RunsTo(r2, <<>>, e))
        /\ r2.eof = x /\ r2.prefix = r.prefix /\ r2.own = r.own
    BY DEF Ended
  <1>2. /\ c \in Stacks /\ (o.st # "idle" => r.prefix = <<>> /\ r.own = <<>>)
    BY DEF ReaderAt, ReaderState, ReaderRight
  <1>3. EofRight(r2)
    BY <1>1, <1>2 DEF EofRight
  <1>4. ReaderState(c, r2, Idle)
    BY <1>1, <1>2, <1>3, IdleFacts DEF ReaderState
  <1> QED
    BY <1>1, <1>4, IdleFacts DEF ReaderTo

(* A read that has some bytes.                                             *)
LEMMA ReadToRight ==
  ASSUME NEW c, NEW r, NEW o, NEW e, ReaderAt(c, r, o, e), r.eof = FALSE,
         NEW r1, r1.prefix = <<>> \/ o.st = "idle", r1.own = <<>> \/ o.st = "idle",
         NEW n, n = 0 => o.st = "done" /\ o.res = 0,
         NEW r2, ReadTo(c, r1, n, e, r2)
  PROVE  ReaderTo(c, r, o, e, r2, Idle)
  <1>1. /\ r2 \in Receivers /\ ReaderRight(c, r2, Idle) /\ IsRun(r2.got, 0)
        /\ r2.pc \in {"idle", "loop", "failed"}
        /\ r2.pc # "failed" => RunsTo(r2, <<>>, e)
        /\ r2.eof => r2.pc # "loop" /\ n = 0
        /\ r2.prefix = r1.prefix /\ r2.own = r1.own
    BY DEF ReadTo
  <1>2. c \in Stacks
    BY DEF ReaderAt, ReaderState
  <1>3. EofRight(r2)
    BY <1>1 DEF EofRight
  <1>4. ReaderState(c, r2, Idle)
    BY <1>1, <1>2, <1>3, IdleFacts DEF ReaderState
  <1> QED
    BY <1>1, <1>4, IdleFacts DEF ReaderTo

(* An operation of the reader is submitted, or its handle was cancelled.   *)
LEMMA SocketReadRight ==
  ASSUME op \in [Ends -> Ops], NEW o, o = op["rx"], o.st = "idle",
         NEW c, NEW r, NEW e, ReaderAt(c, r, o, e), r.pc = "loop",
         r.prefix = <<>>, r.own = <<>>,
         NEW y \in BOOLEAN, NEW dst \in {"user", "vec", "own"}, NEW room \in Nat,
         dst = "user" => /\ r.call \notin Until /\ ~(r.call = "readv" /\ c.rx = "raw")
                         /\ room <= slice_total(r.u) /\ 0 <= slice_total(r.u),
         dst = "vec" => /\ r.call = "readv" /\ c.rx = "raw" /\ room <= vec_total(r.vb)
                        /\ 0 <= vec_total(r.vb),
         dst = "own" => c.rx \in {"bufr", "compat"},
         NEW r1, r1 = [r EXCEPT !.finished = y], SocketRead(r1, dst, room)
  PROVE  /\ op' = [op EXCEPT !["rx"] = op'["rx"]]
         /\ ReaderTo(c, r, o, e, rx', op'["rx"])
  <1>1. /\ c \in Stacks /\ r \in Receivers /\ Kept(c, r) /\ InLoop(c, r)
        /\ IsRun(r.got, 0) /\ r.eof = FALSE /\ RunsTo(r, <<>>, e) /\ o = Idle
    BY IdleFacts DEF ReaderAt, ReaderState, ReaderRight, ReceiverOp, EofRight, Receivers
  <1>2. PICK o2 : o2 = IF canceled["rx"] THEN [Idle EXCEPT !.st = "done", !.res = ECANCELED]
                       ELSE Recv(room)
    OBVIOUS
  <1>3. /\ o2 \in Ops /\ o2.data = <<>> /\ o2.st \in {"flight", "done"}
        /\ o2.st = "done" => o2.res < 0
        /\ o2.room \in {0, room}
    <2>1. CASE canceled["rx"]
      <3>1. o2 = [st |-> "done", data |-> <<>>, room |-> 0, res |-> -125, cancel |-> FALSE]
        BY <1>2, <2>1 DEF Idle, ECANCELED
      <3> QED
        BY <3>1, RunNone DEF Ops
    <2>2. CASE ~canceled["rx"]
      <3>1. o2 = [st |-> "flight", data |-> <<>>, room |-> room, res |-> 0, cancel |-> FALSE]
        BY <1>2, <2>2 DEF Idle, Recv
      <3> QED
        BY <3>1, RunNone DEF Ops
    <2> QED
      BY <2>1, <2>2
  <1>4. PICK r2 : r2 = [r1 EXCEPT !.dst = dst]
    OBVIOUS
  <1>5. /\ r2 \in Receivers /\ r2.pc = "loop" /\ r2.call = r.call /\ r2.u = r.u /\ r2.vb = r.vb
        /\ r2.read = r.read /\ r2.own = <<>> /\ r2.line = r.line /\ r2.got = r.got
        /\ r2.prefix = <<>> /\ r2.eof = FALSE /\ r2.dst = dst
    BY <1>1, <1>4 DEF Receivers
  <1>6. op' = [op EXCEPT !["rx"] = o2] /\ rx' = r2
    BY <1>2, <1>4 DEF SocketRead
  <1>7. op'["rx"] = o2 /\ op' = [op EXCEPT !["rx"] = op'["rx"]]
    BY <1>6 DEF Ends
  <1>8. ReceiverOp(o2)
    BY <1>3, RunNone DEF ReceiverOp, Moved, Ops
  <1>9. Kept(c, r2)
    BY <1>1, <1>5 DEF Kept
  <1>10. InLoop(c, r2)
    BY <1>1, <1>5 DEF InLoop
  <1>11. Filling(c, r2, o2)
    BY <1>3, <1>5 DEF Filling
  <1>12. ReaderRight(c, r2, o2)
    BY <1>3, <1>5, <1>9, <1>10, <1>11 DEF ReaderRight
  <1>13. EofRight(r2)
    BY <1>5 DEF EofRight
  <1>14. ReaderState(c, r2, o2)
    BY <1>1, <1>5, <1>8, <1>12, <1>13 DEF ReaderState
  <1>15. RunsTo(r2, o2.data, e)
    BY <1>1, <1>3, <1>5 DEF RunsTo, Partial, ParLen
  <1> QED
    BY <1>3, <1>5, <1>6, <1>7, <1>14, <1>15 DEF ReaderTo

(* A fresh buffer.                                                         *)
LEMMA FreshFacts ==
  ASSUME NEW k \in BufferKinds, NEW n \in Nat, NEW u, u = SliceMut(Buffer(k, n), 0, n)
  PROVE  /\ u \in UserViews /\ SliceOK(u) /\ u.begin = 0 /\ u.end = n
         /\ u.buf.kind = k /\ Len(u.buf.mem) = n
         /\ k # "box" => u.buf.len = 0
  <1>1. PICK m : m = [i \in 1..n |-> Uninit]
    OBVIOUS
  <1>2. m \in Bytes /\ Len(m) = n
    BY <1>1 DEF Bytes, Uninit
  <1>3. PICK l \in Nat : l = IF k = "box" THEN n ELSE 0
    OBVIOUS
  <1>4. u = [buf |-> [kind |-> k, mem |-> m, len |-> l], begin |-> 0, end |-> n]
    BY <1>1, <1>3 DEF SliceMut, Buffer
  <1> QED
    BY <1>2, <1>3, <1>4 DEF UserViews, UserBuffers, BufferKinds, SliceOK

(* The buffers that the application lends.                                 *)
LEMMA LentFacts ==
  ASSUME rx \in Receivers, SliceOK(rx.u), NEW u \in UserSlices
  PROVE  u \in UserViews /\ SliceOK(u) /\ u.begin < u.end
  <1>1. CASE u \in {SliceMut(Buffer(kind, n), 0, n) : kind \in {"vec", "bytes"}, n \in 1..UserCap}
    <2>1. PICK k \in {"vec", "bytes"}, n \in 1..UserCap : u = SliceMut(Buffer(k, n), 0, n)
      BY <1>1
    <2>2. k \in BufferKinds /\ n \in Nat /\ 0 < n
      BY ReaderAssumption DEF BufferKinds
    <2> QED
      BY <2>1, <2>2, FreshFacts
  <1>2. CASE ~(u \in {SliceMut(Buffer(kind, n), 0, n) : kind \in {"vec", "bytes"}, n \in 1..UserCap})
    <2>1. /\ u = slice_mut(rx.u.buf, bytes_init(rx.u.buf), None)
          /\ bytes_init(rx.u.buf) < bytes_total(rx.u.buf)
      <3>1. u \in (IF bytes_init(rx.u.buf) < bytes_total(rx.u.buf)
                   THEN {slice_mut(rx.u.buf, bytes_init(rx.u.buf), None)} ELSE {})
        BY <1>2 DEF UserSlices
      <3> QED
        BY <3>1
    <2>2. PICK v \in UserViews : v = rx.u /\ SliceOK(v)
      BY DEF Receivers
    <2>3. PICK l \in Nat, m \in Nat : l = bytes_init(v.buf) /\ m = Len(v.buf.mem) /\ l < m
      <3>1. bytes_init(v.buf) \in Nat
        BY <2>2, AsSlice
      <3>2. Len(v.buf.mem) \in Nat
        BY DEF UserViews, UserBuffers, Bytes
      <3> QED
        BY <2>1, <2>2, <3>1, <3>2 DEF bytes_total
    <2>4. u = SliceMut(v.buf, l, m)
      BY <2>1, <2>2, <2>3 DEF slice_mut, parse_range, None, bytes_total
    <2>5. v.buf.kind # "box" => l = v.buf.len
      BY <2>3 DEF bytes_init
    <2> QED
      BY <2>2, <2>3, <2>4, <2>5 DEF SliceMut, UserViews, SliceOK
  <1> QED
    BY <1>1, <1>2

(* A new call of the receiver starts with nothing read.                    *)
LEMMA BeginReadRight ==
  ASSUME op \in [Ends -> Ops], NEW e, ReaderAt(cfg, rx, op["rx"], e), BeginRead
  PROVE  ReaderStep(e)
  <1>1. PICK o \in Ops : o = op["rx"]
    BY DEF Ends
  <1>2. /\ cfg \in Stacks /\ rx \in Receivers /\ Kept(cfg, rx) /\ IsRun(rx.got, 0)
        /\ RunsTo(rx, o.data, e) /\ rx.pc = "idle" /\ rx.eof = FALSE
        /\ o.st = "idle" /\ rx.call = "none" /\ ReceiverOp(o) /\ o = Idle
    BY <1>1 DEF ReaderAt, ReaderState, ReaderRight, ReceiverOp, BeginRead, Receivers
  <1>3. PICK call, u :
          /\ call \in Offered
          /\ BufferFor(call, u)
          /\ rx' = [rx EXCEPT !.pc = "loop", !.call = call, !.u = u,
                              !.vb = IF call = "readv" THEN VecBuf(VecLens) ELSE <<>>]
    BY Zenon DEF BeginRead
  <1>4. op' = op
    BY DEF BeginRead
  <1>5. call \in Calls /\ (call \in Until => cfg.rx = "bufr")
    BY <1>2, <1>3 DEF Offered, Calls, Until, Stacks
  <1>6. PICK cap \in Nat \ {0}, l \in Nat \ {0} : cap = UserCap /\ l = VecLens[1]
    <2>1. PICK n \in Nat \ {0} : n = Len(VecLens) /\ \A k \in 1..n : VecLens[k] \in Nat \ {0}
      BY VecBufFacts
    <2>2. VecLens[1] \in Nat \ {0}
      BY <2>1
    <2>3. UserCap \in Nat \ {0}
      BY ReaderAssumption
    <2> QED
      BY <2>2, <2>3
  <1>7. /\ u \in UserViews /\ SliceOK(u)
        /\ call = "read_exact" => /\ u.begin = 0 /\ u.end = Len(u.buf.mem)
                                  /\ 0 < Len(u.buf.mem) /\ u.buf.kind = "vec" /\ u.buf.len = 0
        /\ call = "read_int" => /\ u.begin = 0 /\ u.end = Len(u.buf.mem)
                                /\ 0 < Len(u.buf.mem) /\ u.buf.kind = "box"
        /\ call = "readv" /\ cfg.rx # "raw" =>
             /\ u.buf.kind = "box" /\ u.begin = 0 /\ u.end = l /\ Len(u.buf.mem) = l
        /\ call \in {"read", "poll_read"} => u.begin < u.end
    <2>1. CASE call = "read"
      <3>1. u \in UserSlices
        BY <1>3, <2>1 DEF BufferFor
      <3> QED
        BY <1>2, <2>1, <3>1, LentFacts DEF Kept
    <2>2. CASE call = "read_exact"
      <3>1. u = SliceMut(Buffer("vec", cap), 0, cap)
        BY <1>3, <1>6, <2>2 DEF BufferFor
      <3> QED
        BY <2>2, <3>1, FreshFacts DEF BufferKinds
    <2>3. CASE call = "read_int"
      <3>1. u = SliceMut(Buffer("box", 2), 0, 2)
        BY <1>3, <2>3 DEF BufferFor
      <3> QED
        BY <2>3, <3>1, FreshFacts DEF BufferKinds
    <2>4. CASE call = "poll_read"
      <3>1. u = SliceMut(Buffer("box", 1), 0, 1)
        BY <1>3, <2>4 DEF BufferFor
      <3> QED
        BY <2>4, <3>1, FreshFacts DEF BufferKinds
    <2>5. CASE call = "readv" /\ cfg.rx # "raw"
      <3>1. u = SliceMut(Buffer("box", l), 0, l)
        BY <1>3, <1>6, <2>5 DEF BufferFor
      <3> QED
        BY <2>5, <3>1, FreshFacts DEF BufferKinds
    <2>6. CASE ~(call = "readv" /\ cfg.rx # "raw")
               /\ call \notin {"read", "read_exact", "read_int", "poll_read"}
      <3>1. u = NoSlice
        BY <1>3, <2>6 DEF BufferFor
      <3> QED
        BY <2>6, <3>1, NoSliceFacts
    <2> QED
      BY <2>1, <2>2, <2>3, <2>4, <2>5, <2>6
  <1>8. PICK vb \in Vecs : /\ vb = IF call = "readv" THEN VecBuf(VecLens) ELSE <<>>
    <2>1. VecBuf(VecLens) \in Vecs /\ <<>> \in Vecs
      BY VecBufFacts DEF Vecs
    <2> QED
      BY <2>1
  <1>9. PICK r2 : r2 = [rx EXCEPT !.pc = "loop", !.call = call, !.u = u, !.vb = vb]
    OBVIOUS
  <1>10. /\ r2 \in Receivers /\ r2.pc = "loop" /\ r2.call = call /\ r2.u = u /\ r2.vb = vb
         /\ r2.read = rx.read /\ r2.own = rx.own /\ r2.line = rx.line /\ r2.got = rx.got
         /\ r2.prefix = rx.prefix /\ r2.eof = FALSE /\ r2.finished = rx.finished
    <2>1. PICK r \in Receivers, f \in Calls, w \in UserViews :
            r = rx /\ f = call /\ w = u /\ r.eof = FALSE
      BY <1>2, <1>5, <1>7
    <2>2. r2 = [r EXCEPT !.pc = "loop", !.call = f, !.u = w, !.vb = vb]
      BY <1>9, <2>1
    <2>3. r2 \in Receivers
      BY <2>2 DEF Receivers
    <2>4. /\ r2.pc = "loop" /\ r2.call = f /\ r2.u = w /\ r2.vb = vb
          /\ r2.read = r.read /\ r2.own = r.own /\ r2.line = r.line /\ r2.got = r.got
          /\ r2.prefix = r.prefix /\ r2.eof = r.eof /\ r2.finished = r.finished
      BY <2>2 DEF Receivers
    <2> QED
      BY <2>1, <2>3, <2>4
  <1>11. rx.line = <<>> /\ rx.read = 0
    BY <1>2 DEF Kept, Until, Exact
  <1>12. Kept(cfg, r2)
    BY <1>2, <1>5, <1>7, <1>10, <1>11 DEF Kept
  <1>13. InLoop(cfg, r2)
    BY <1>5, <1>6, <1>7, <1>8, <1>10, <1>11 DEF InLoop, Exact
  <1>14. ReaderRight(cfg, r2, o)
    BY <1>2, <1>10, <1>12, <1>13 DEF ReaderRight
  <1>15. EofRight(r2)
    BY <1>10 DEF EofRight
  <1>16. ReaderState(cfg, r2, o)
    BY <1>2, <1>10, <1>14, <1>15 DEF ReaderState
  <1>17. Partial(r2) = <<>> /\ ParLen(r2) = 0
    <2>1. CASE call \in Exact
      <3>1. as_slice(u.buf) \in Bytes
        BY <1>7, AsSlice
      <3>2. PICK s \in Bytes : s = as_slice(u.buf)
        BY <3>1
      <3>3. SubSeq(s, 1, 0) = <<>>
        BY DEF Bytes
      <3> QED
        BY <1>10, <1>11, <2>1, <3>2, <3>3 DEF Partial, ParLen
    <2>2. CASE call \notin Exact
      BY <1>10, <1>11, <2>2, RunNone DEF Partial, ParLen
    <2> QED
      BY <2>1, <2>2
  <1>18. Partial(rx) = <<>> /\ ParLen(rx) = 0
    BY <1>2, <1>11, RunNone DEF Partial, ParLen, Exact
  <1>19. RunsTo(r2, o.data, e)
    <2>1. PICK a \in Nat : a = Len(rx.got)
      BY <1>2 DEF Receivers, Bytes
    <2> QED
      BY <1>2, <1>10, <1>17, <1>18, <2>1, RunNone DEF RunsTo
  <1>20. ReaderTo(cfg, rx, o, e, r2, o)
    BY <1>2, <1>10, <1>16, <1>19 DEF ReaderTo
  <1>21. rx' = r2 /\ op'["rx"] = o /\ op' = [op EXCEPT !["rx"] = op'["rx"]]
    BY <1>1, <1>3, <1>4, <1>8, <1>9 DEF Ends
  <1> QED
    BY <1>1, <1>20, <1>21 DEF ReaderStep

(* A reader that asks for something has room for it.                       *)
LEMMA RoomFacts ==
  ASSUME NEW c, NEW r \in Receivers, Kept(c, r), InLoop(c, r), r.call \notin Until,
         ~(r.call = "readv" /\ c.rx = "raw")
  PROVE  slice_total(r.u) \in Nat \ {0}
  <1>1. /\ r.u.begin \in Nat /\ r.u.end \in Nat /\ Len(r.u.buf.mem) \in Nat /\ r.read \in Nat
    BY DEF Receivers, UserViews, UserBuffers, Bytes
  <1>2. r.u.begin < r.u.end
    <2>1. CASE r.call \in Exact
      BY <1>1, <2>1 DEF InLoop
    <2>2. CASE r.call = "readv"
      <3>1. r.u.begin = 0 /\ r.u.end = VecLens[1]
        BY <2>2 DEF InLoop
      <3> QED
        BY <3>1, VecBufFacts
    <2>3. CASE r.call \in {"read", "poll_read"}
      BY <2>3 DEF InLoop
    <2> QED
      BY <2>1, <2>2, <2>3 DEF InLoop, Calls, Exact, Until
  <1> QED
    BY <1>1, <1>2 DEF slice_total

(* What a copy leaves is what follows it.                                  *)
LEMMA RestRun ==
  ASSUME NEW s \in Bytes, NEW a \in Int, IsRun(s, a), NEW n \in 0..Len(s)
  PROVE  /\ SubSeq(s, 1, n) \in Bytes /\ Len(SubSeq(s, 1, n)) = n /\ IsRun(SubSeq(s, 1, n), a)
         /\ Rest(s, n) \in Bytes /\ Len(Rest(s, n)) = Len(s) - n /\ IsRun(Rest(s, n), a + n)
  BY RunHead, RunTail DEF Rest

(* The lengths of what a receiver has.                                     *)
LEMMA LenFacts ==
  ASSUME NEW r \in Receivers
  PROVE  /\ r.got \in Bytes /\ r.prefix \in Bytes /\ r.own \in Bytes /\ r.line \in Bytes
         /\ Len(r.got) \in Nat /\ Len(r.prefix) \in Nat /\ Len(r.own) \in Nat
         /\ Len(r.line) \in Nat /\ ParLen(r) \in Nat
  <1>1. /\ r.got \in Bytes /\ r.prefix \in Bytes /\ r.own \in Bytes /\ r.line \in Bytes
        /\ r.read \in Nat
    BY DEF Receivers
  <1>2. \A s \in Bytes : Len(s) \in Nat
    BY DEF Bytes
  <1> QED
    BY <1>1, <1>2 DEF ParLen

(* Some bytes of the prefix, or of the reader's own buffer.                *)
LEMMA PrefixReading ==
  ASSUME NEW c, NEW r, NEW o, NEW e, ReaderAt(c, r, o, e), r.pc = "loop", o.st = "idle",
         r.call \notin Until, ~(r.call = "readv" /\ c.rx = "raw"),
         NEW n \in Nat, n <= Len(r.prefix), n <= slice_total(r.u),
         NEW f, f = [r EXCEPT !.prefix = Rest(r.prefix, n)]
  PROVE  Reading(c, f, SubSeq(r.prefix, 1, n), n, e)
  <1>1. /\ r \in Receivers /\ Kept(c, r) /\ InLoop(c, r) /\ IsRun(r.got, 0) /\ r.eof = FALSE
        /\ RunsTo(r, <<>>, e)
    BY IdleFacts DEF ReaderAt, ReaderState, ReaderRight, ReceiverOp, EofRight, Receivers
  <1>2. PICK a \in Nat, p \in Nat, z \in Nat, y \in Nat :
          a = Len(r.got) /\ p = ParLen(r) /\ z = Len(r.prefix) /\ y = Len(r.own)
    BY <1>1, LenFacts
  <1>3. /\ Partial(r) \in Bytes /\ Len(Partial(r)) = p /\ IsRun(Partial(r), a)
        /\ IsRun(r.prefix, a + p) /\ IsRun(r.own, a + p + z) /\ e = a + p + z + y
    <2>1. a + p + 0 = a + p
      OBVIOUS
    <2> QED
      BY <1>1, <1>2, <2>1, RunNone DEF RunsTo
  <1>4. PICK s, t : s = SubSeq(r.prefix, 1, n) /\ t = Rest(r.prefix, n)
    OBVIOUS
  <1>5. /\ s \in Bytes /\ Len(s) = n /\ IsRun(s, a + p)
        /\ t \in Bytes /\ Len(t) = z - n /\ IsRun(t, a + p + n)
    <2>1. r.prefix \in Bytes /\ n \in 0..Len(r.prefix) /\ a + p \in Int
      BY <1>1, <1>2 DEF Receivers
    <2> QED
      BY <1>2, <1>3, <1>4, <2>1, RestRun
  <1>6. /\ f \in Receivers /\ f.pc = r.pc /\ f.call = r.call /\ f.u = r.u /\ f.vb = r.vb
        /\ f.read = r.read /\ f.own = r.own /\ f.line = r.line /\ f.got = r.got
        /\ f.prefix = t /\ f.eof = r.eof /\ f.finished = r.finished
    BY <1>1, <1>4, <1>5 DEF Receivers
  <1>7. t # <<>> => r.prefix # <<>>
    BY <1>2, <1>5, RunNone
  <1>8. Kept(c, f)
    BY <1>1, <1>6, <1>7 DEF Kept
  <1>9. InLoop(c, f)
    BY <1>1, <1>6 DEF InLoop
  <1>10. Partial(f) = Partial(r) /\ ParLen(f) = p
    BY <1>2, <1>6 DEF Partial, ParLen
  <1>11. RunsTo(f, s, e)
    <2>1. a + p + n + (z - n) = a + p + z /\ a + p + n + (z - n) + y = a + p + z + y
      BY <1>2
    <2> QED
      BY <1>2, <1>3, <1>5, <1>6, <1>10, <2>1 DEF RunsTo
  <1> QED
    BY <1>1, <1>4, <1>5, <1>6, <1>8, <1>9, <1>11 DEF Reading

(* The bytes BufReader hands out of its own buffer are next in the stream. *)
LEMMA OwnReading ==
  ASSUME NEW c, NEW r, NEW o, NEW e, ReaderAt(c, r, o, e), r.pc = "loop", o.st = "idle",
         r.call \notin Until, c.rx \in {"bufr", "compat"},
         NEW n \in Nat, n <= Len(r.own), n <= slice_total(r.u),
         NEW f, f = [r EXCEPT !.own = Rest(r.own, n)]
  PROVE  Reading(c, f, SubSeq(r.own, 1, n), n, e)
  <1>1. /\ r \in Receivers /\ Kept(c, r) /\ InLoop(c, r) /\ IsRun(r.got, 0) /\ r.eof = FALSE
        /\ RunsTo(r, <<>>, e)
    BY IdleFacts DEF ReaderAt, ReaderState, ReaderRight, ReceiverOp, EofRight, Receivers
  <1>2. PICK a \in Nat, p \in Nat, y \in Nat :
          a = Len(r.got) /\ p = ParLen(r) /\ y = Len(r.own)
    BY <1>1, LenFacts
  <1>3. r.prefix = <<>>
    BY <1>1 DEF Kept
  <1>4. /\ Partial(r) \in Bytes /\ Len(Partial(r)) = p /\ IsRun(Partial(r), a)
        /\ IsRun(r.own, a + p) /\ e = a + p + y
    <2>1. a + p + 0 = a + p /\ a + p + 0 + 0 = a + p
      OBVIOUS
    <2> QED
      BY <1>1, <1>2, <1>3, <2>1, RunNone DEF RunsTo
  <1>5. PICK s, t : s = SubSeq(r.own, 1, n) /\ t = Rest(r.own, n)
    OBVIOUS
  <1>6. /\ s \in Bytes /\ Len(s) = n /\ IsRun(s, a + p)
        /\ t \in Bytes /\ Len(t) = y - n /\ IsRun(t, a + p + n)
    <2>1. r.own \in Bytes /\ n \in 0..Len(r.own) /\ a + p \in Int
      BY <1>1, <1>2 DEF Receivers
    <2> QED
      BY <1>2, <1>4, <1>5, <2>1, RestRun
  <1>7. /\ f \in Receivers /\ f.pc = r.pc /\ f.call = r.call /\ f.u = r.u /\ f.vb = r.vb
        /\ f.read = r.read /\ f.own = t /\ f.line = r.line /\ f.got = r.got
        /\ f.prefix = r.prefix /\ f.eof = r.eof /\ f.finished = r.finished
    BY <1>1, <1>5, <1>6 DEF Receivers
  <1>8. Kept(c, f)
    BY <1>1, <1>7 DEF Kept
  <1>9. InLoop(c, f)
    BY <1>1, <1>7 DEF InLoop
  <1>10. Partial(f) = Partial(r) /\ ParLen(f) = p
    BY <1>2, <1>7 DEF Partial, ParLen
  <1>11. RunsTo(f, s, e)
    <2>1. /\ a + p + n + 0 = a + p + n /\ a + p + n + 0 + (y - n) = a + p + y
          /\ \A i : IsRun(f.prefix, i)
      BY <1>2, <1>3, <1>7, RunNone
    <2> QED
      BY <1>2, <1>3, <1>4, <1>6, <1>7, <1>10, <2>1, RunNone DEF RunsTo
  <1> QED
    BY <1>1, <1>5, <1>6, <1>7, <1>8, <1>9, <1>11 DEF Reading

(* The state of a call that is in its loop with no operation under way.    *)
LEMMA LoopFacts ==
  ASSUME NEW c, NEW r, NEW o, NEW e, ReaderAt(c, r, o, e), r.pc = "loop"
  PROVE  /\ c \in Stacks /\ r \in Receivers /\ Kept(c, r) /\ InLoop(c, r) /\ r.eof = FALSE
         /\ IsRun(r.got, 0) /\ RunsTo(r, o.data, e) /\ ReceiverOp(o)
         /\ o.st = "idle" => o = Idle
         /\ o.st # "idle" => r.prefix = <<>> /\ r.own = <<>> /\ Filling(c, r, o)
  BY DEF ReaderAt, ReaderState, ReaderRight, ReceiverOp, EofRight, Receivers

(* PrefixedReadIo serves its prefix first, then the stream.                *)
LEMMA PrefixedReadRight ==
  ASSUME op \in [Ends -> Ops], NEW o, o = op["rx"], o.st = "idle",
         NEW e, ReaderAt(cfg, rx, o, e), rx.pc = "loop", rx.call \notin Until,
         cfg.rx = "prefixed", PrefixedRead(rx)
  PROVE  ReaderStep(e)
  <1>1. /\ rx \in Receivers /\ Kept(cfg, rx) /\ InLoop(cfg, rx) /\ rx.eof = FALSE
    BY LoopFacts
  <1>2. rx.own = <<>> /\ (rx.prefix # <<>> => rx.finished = FALSE)
    BY <1>1 DEF Kept, Receivers
  <1>3. PICK k \in Nat \ {0}, z \in Nat : k = slice_total(rx.u) /\ z = Len(rx.prefix)
    <2>1. slice_total(rx.u) \in Nat \ {0}
      BY <1>1, RoomFacts
    <2> QED
      BY <1>1, <2>1 DEF Receivers, Bytes
  <1>4. CASE ~rx.finished /\ rx.prefix # <<>>
    <2>1. PICK n \in Nat \ {0} : n = Min2(z, k) /\ n <= z /\ n <= k
      <3>1. z # 0
        BY <1>1, <1>3, <1>4, EmptySeq DEF Receivers, Bytes
      <3> QED
        BY <1>3, <3>1 DEF Min2
    <2>2. PICK f : f = [rx EXCEPT !.prefix = Rest(rx.prefix, n)]
      OBVIOUS
    <2>3. ReadOk(Filled(f, SubSeq(rx.prefix, 1, n)), n)
      BY <1>3, <1>4, <2>1, <2>2 DEF PrefixedRead
    <2>4. Reading(cfg, f, SubSeq(rx.prefix, 1, n), n, e)
      <3>1. ~(rx.call = "readv" /\ cfg.rx = "raw") /\ n <= Len(rx.prefix) /\ n <= slice_total(rx.u)
        BY <1>3, <2>1
      <3> QED
        BY <2>2, <3>1, PrefixReading
    <2>5. op' = [op EXCEPT !["rx"] = Idle] /\ ReadTo(cfg, f, n, e, rx')
      BY <2>3, <2>4, ReadOkRight
    <2>6. op'["rx"] = Idle /\ op' = [op EXCEPT !["rx"] = op'["rx"]]
      BY <2>5 DEF Ends
    <2>7. ReaderTo(cfg, rx, o, e, rx', Idle)
      <3>1. n # 0
        OBVIOUS
      <3> QED
        BY <1>1, <2>5, <3>1, ReadToRight
    <2> QED
      BY <2>6, <2>7 DEF ReaderStep
  <1>5. CASE ~(~rx.finished /\ rx.prefix # <<>>)
    <2>1. rx.prefix = <<>>
      BY <1>2, <1>5
    <2>2. PICK f : f = [rx EXCEPT !.finished = TRUE]
      OBVIOUS
    <2>3. SocketRead(f, "user", k)
      BY <1>3, <1>5, <2>2 DEF PrefixedRead
    <2>4. ~(rx.call = "readv" /\ cfg.rx = "raw") /\ k <= slice_total(rx.u) /\ 0 <= slice_total(rx.u)
      BY <1>3
    <2>5. /\ op' = [op EXCEPT !["rx"] = op'["rx"]]
          /\ ReaderTo(cfg, rx, o, e, rx', op'["rx"])
      BY <1>2, <2>1, <2>2, <2>3, <2>4, SocketReadRight
    <2> QED
      BY <2>5 DEF ReaderStep
  <1> QED
    BY <1>4, <1>5

(* BufReader fills its buffer only when it is empty, and serves from it.   *)
LEMMA BufReaderReadRight ==
  ASSUME op \in [Ends -> Ops], NEW o, o = op["rx"], o.st = "idle",
         NEW e, ReaderAt(cfg, rx, o, e), rx.pc = "loop", rx.call \notin Until,
         cfg.rx \in {"bufr", "compat"}, BufReaderRead(rx)
  PROVE  ReaderStep(e)
  <1>1. /\ rx \in Receivers /\ Kept(cfg, rx) /\ InLoop(cfg, rx) /\ rx.eof = FALSE
    BY LoopFacts
  <1>2. rx.prefix = <<>> /\ ~(rx.call = "readv" /\ cfg.rx = "raw")
    BY <1>1 DEF Kept
  <1>3. PICK k \in Nat \ {0}, z \in Nat : k = slice_total(rx.u) /\ z = Len(rx.own)
    <2>1. slice_total(rx.u) \in Nat \ {0}
      BY <1>1, <1>2, RoomFacts
    <2> QED
      BY <1>1, <2>1 DEF Receivers, Bytes
  <1>4. CASE rx.own # <<>>
    <2>1. PICK n \in Nat \ {0} : n = Min2(z, k) /\ n <= z /\ n <= k
      <3>1. z # 0
        BY <1>1, <1>3, <1>4, EmptySeq DEF Receivers, Bytes
      <3> QED
        BY <1>3, <3>1 DEF Min2
    <2>2. PICK f : f = [rx EXCEPT !.own = Rest(rx.own, n)]
      OBVIOUS
    <2>3. ReadOk(Filled(f, SubSeq(rx.own, 1, n)), n)
      BY <1>3, <1>4, <2>1, <2>2 DEF BufReaderRead, CopyOwn
    <2>4. Reading(cfg, f, SubSeq(rx.own, 1, n), n, e)
      <3>1. n <= Len(rx.own) /\ n <= slice_total(rx.u)
        BY <1>3, <2>1
      <3> QED
        BY <2>2, <3>1, OwnReading
    <2>5. op' = [op EXCEPT !["rx"] = Idle] /\ ReadTo(cfg, f, n, e, rx')
      BY <2>3, <2>4, ReadOkRight
    <2>6. op'["rx"] = Idle /\ op' = [op EXCEPT !["rx"] = op'["rx"]]
      BY <2>5 DEF Ends
    <2>7. ReaderTo(cfg, rx, o, e, rx', Idle)
      <3>1. n # 0
        OBVIOUS
      <3> QED
        BY <1>1, <2>5, <3>1, ReadToRight
    <2> QED
      BY <2>6, <2>7 DEF ReaderStep
  <1>5. CASE rx.own = <<>>
    <2>1. rx = [rx EXCEPT !.finished = rx.finished] /\ rx.finished \in BOOLEAN
      BY <1>1 DEF Receivers
    <2>2. PICK dst \in {"user", "own"}, room \in Nat :
            SocketRead(rx, dst, room) /\ (dst = "user" => room = k)
      BY <1>3, <1>5, SocketAssumption DEF BufReaderRead
    <2>3. /\ dst = "user" => /\ rx.call \notin Until /\ ~(rx.call = "readv" /\ cfg.rx = "raw")
                             /\ room <= slice_total(rx.u) /\ 0 <= slice_total(rx.u)
          /\ dst = "vec" => /\ rx.call = "readv" /\ cfg.rx = "raw" /\ room <= vec_total(rx.vb)
                            /\ 0 <= vec_total(rx.vb)
      BY <1>2, <1>3, <2>2
    <2>4. /\ op' = [op EXCEPT !["rx"] = op'["rx"]]
          /\ ReaderTo(cfg, rx, o, e, rx', op'["rx"])
      <3>1. dst \in {"user", "vec", "own"} /\ (dst = "own" => cfg.rx \in {"bufr", "compat"})
        OBVIOUS
      <3> QED
        BY <1>2, <1>5, <2>1, <2>2, <2>3, <3>1, SocketReadRight
    <2> QED
      BY <2>4 DEF ReaderStep
  <1> QED
    BY <1>4, <1>5

(* The room of a vectored buffer is a number.                              *)
LEMMA VecTotalFacts == vec_total(VecBuf(VecLens)) \in Nat
  <1>1. PICK n \in Nat \ {0}, vb \in Vecs : n = Len(VecLens) /\ vb = VecBuf(VecLens) /\ Len(vb) = n
    BY VecBufFacts
  <1>2. \A k \in 1..n : Len(vb[k].mem) \in Nat
    BY <1>1, VecBufFacts
  <1>3. vec_total(vb) = VecSums(vb)[n] /\ \A k \in 0..n : VecSums(vb)[k] \in Nat
    BY <1>1, <1>2, VecSumsFacts
  <1>4. n \in 0..n
    OBVIOUS
  <1> QED
    BY <1>1, <1>3, <1>4

(* One turn of the loop of a read, for every call and every stack.         *)
LEMMA ReadLoopRight ==
  ASSUME op \in [Ends -> Ops], NEW e, ReaderAt(cfg, rx, op["rx"], e), ReadLoop
  PROVE  ReaderStep(e)
  <1>1. PICK o \in Ops : o = op["rx"]
    BY DEF Ends
  <1>2. /\ o.st = "idle" /\ ReaderAt(cfg, rx, o, e) /\ rx.pc = "loop" /\ rx.call \notin Until
    BY <1>1 DEF ReadLoop, Until
  <1>3. /\ cfg \in Stacks /\ rx \in Receivers /\ Kept(cfg, rx) /\ InLoop(cfg, rx) /\ rx.eof = FALSE
    BY <1>2, LoopFacts
  <1>4. rx = [rx EXCEPT !.finished = rx.finished] /\ rx.finished \in BOOLEAN
    BY <1>3 DEF Receivers
  <1>5. CASE cfg.rx = "raw"
    <2>1. rx.own = <<>> /\ rx.prefix = <<>>
      BY <1>3, <1>5 DEF Kept
    <2>2. CASE rx.call = "readv"
      <3>1. PICK room \in Nat : room = vec_total(rx.vb)
        BY <1>3, <2>2, VecTotalFacts DEF InLoop
      <3>2. SocketRead(rx, "vec", room)
        BY <1>5, <2>2, <3>1 DEF ReadLoop
      <3>3. room <= vec_total(rx.vb) /\ 0 <= vec_total(rx.vb)
        BY <3>1
      <3>4. /\ op' = [op EXCEPT !["rx"] = op'["rx"]]
            /\ ReaderTo(cfg, rx, o, e, rx', op'["rx"])
        BY <1>1, <1>2, <1>4, <1>5, <2>1, <2>2, <3>2, <3>3, SocketReadRight
      <3> QED
        BY <1>1, <3>4 DEF ReaderStep
    <2>3. CASE rx.call # "readv"
      <3>1. PICK room \in Nat : room = slice_total(rx.u)
        <4>1. slice_total(rx.u) \in Nat \ {0}
          BY <1>2, <1>3, <2>3, RoomFacts
        <4> QED
          BY <4>1
      <3>2. SocketRead(rx, "user", room)
        BY <1>5, <2>3, <3>1 DEF ReadLoop
      <3>3. room <= slice_total(rx.u) /\ 0 <= slice_total(rx.u)
        BY <3>1
      <3>4. /\ op' = [op EXCEPT !["rx"] = op'["rx"]]
            /\ ReaderTo(cfg, rx, o, e, rx', op'["rx"])
        BY <1>1, <1>2, <1>4, <1>5, <2>1, <2>3, <3>2, <3>3, SocketReadRight
      <3> QED
        BY <1>1, <3>4 DEF ReaderStep
    <2> QED
      BY <2>2, <2>3
  <1>6. CASE cfg.rx = "prefixed"
    <2>1. PrefixedRead(rx)
      BY <1>6 DEF ReadLoop
    <2> QED
      BY <1>1, <1>2, <1>6, <2>1, PrefixedReadRight
  <1>7. CASE cfg.rx \in {"bufr", "compat"}
    <2>1. BufReaderRead(rx)
      BY <1>7 DEF ReadLoop
    <2> QED
      BY <1>1, <1>2, <1>7, <2>1, BufReaderReadRight
  <1> QED
    BY <1>3, <1>5, <1>6, <1>7 DEF Stacks

(* read_until and read_line return what they have of a line.               *)
LEMMA LineRight ==
  ASSUME op \in [Ends -> Ops], NEW o, o = op["rx"], o.data = <<>>,
         NEW c, NEW r, NEW e, ReaderAt(c, r, o, e), r.pc = "loop", r.call \in Until,
         NEW x \in BOOLEAN, x => o.st = "done" /\ o.res = 0,
         NEW place \in {"idle", "failed"},
         NEW r1, r1 = [r EXCEPT !.eof = x], LineDone(r1, place)
  PROVE  /\ op' = [op EXCEPT !["rx"] = op'["rx"]]
         /\ ReaderTo(c, r, o, e, rx', op'["rx"])
  <1>1. /\ r \in Receivers /\ Kept(c, r) /\ InLoop(c, r) /\ r.eof = FALSE
        /\ IsRun(r.got, 0) /\ RunsTo(r, <<>>, e)
    BY LoopFacts
  <1>2. PICK v \in UserViews : v = r.u /\ SliceOK(v)
    BY <1>1 DEF Receivers, Kept
  <1>3. r1 = [r EXCEPT !.u = v, !.eof = x] /\ r1.line = r.line
    BY <1>1, <1>2 DEF Receivers
  <1>4. PICK b \in Bytes, q \in {"idle", "failed"} :
          /\ Return(r1, b, q) /\ IsRun(b, Len(r.got))
          /\ q # "failed" => b = r.line
    <2>1. IsRun(r.line, Len(r.got)) /\ r.line \in Bytes
      <3>1. Partial(r) = r.line
        BY DEF Partial, Until, Exact
      <3> QED
        BY <1>1, <3>1 DEF RunsTo
    <2>2. Return(r1, <<>>, "failed") \/ Return(r1, r.line, place)
      BY <1>3 DEF LineDone
    <2> QED
      BY <2>1, <2>2, RunNone
  <1>5. Ending(c, r, v, x, b, q, o.data, e)
    <2>1. ASSUME q # "failed"
          PROVE  Len(b) = ParLen(r) + Len(<<>>)
      <3>1. ParLen(r) = Len(b) /\ Len(b) \in Nat
        BY <1>1, <1>4, <2>1, LenFacts DEF ParLen, Until, Exact
      <3> QED
        BY <3>1, RunNone
    <2> QED
      BY <1>1, <1>2, <1>4, <2>1, RunNone DEF Ending
  <1>6. /\ op' = [op EXCEPT !["rx"] = Idle] /\ op'["rx"] = Idle
        /\ ReaderTo(c, r, o, e, rx', op'["rx"])
    <2>1. /\ rx' = Back([r EXCEPT !.u = v, !.eof = x], b, q)
          /\ op' = [op EXCEPT !["rx"] = Idle]
      BY <1>3, <1>4, Zenon DEF Return, Goes, Back
    <2>2. op'["rx"] = Idle
      BY <2>1 DEF Ends
    <2>3. Ended(c, r, x, q, e, rx')
      BY <1>5, <2>1, BackRight, Zenon
    <2> QED
      BY <2>1, <2>2, <2>3, EndedTo
  <1> QED
    BY <1>6

(* The bytes of a line are taken from the reader's own buffer.             *)
LineTook(r, n) == [r EXCEPT !.line = r.line \o SubSeq(r.own, 1, n), !.own = Rest(r.own, n)]

(* read_until moves n bytes of the reader's buffer to the end of the line. *)
LEMMA LineTakes ==
  ASSUME NEW c, NEW r, NEW o, NEW e, ReaderAt(c, r, o, e), r.pc = "loop", r.call \in Until,
         o.st = "idle", NEW n \in 0..Len(r.own),
         NEW f, f = LineTook(r, n)
  PROVE  ReaderAt(c, f, o, e) /\ f.pc = "loop" /\ f.call \in Until /\ f.eof = FALSE
  <1>1. /\ c \in Stacks /\ r \in Receivers /\ Kept(c, r) /\ InLoop(c, r) /\ r.eof = FALSE
        /\ IsRun(r.got, 0) /\ RunsTo(r, <<>>, e) /\ ReceiverOp(o) /\ o.data = <<>>
    <2>1. /\ c \in Stacks /\ r \in Receivers /\ Kept(c, r) /\ InLoop(c, r) /\ r.eof = FALSE
          /\ IsRun(r.got, 0) /\ RunsTo(r, o.data, e) /\ ReceiverOp(o)
      BY LoopFacts
    <2>2. o.st = "idle" => o = Idle
      BY <2>1 DEF ReceiverOp
    <2>3. o.data = <<>>
      BY <2>2, IdleFacts
    <2> QED
      BY <2>1, <2>3
  <1>2. PICK a \in Nat, p \in Nat, y \in Nat, k \in Nat :
          a = Len(r.got) /\ p = Len(r.line) /\ y = Len(r.own) /\ k = n /\ k <= y
    BY <1>1, LenFacts
  <1>3. r.prefix = <<>> /\ r.call \notin Exact
    BY <1>1 DEF Kept, Until, Exact
  <1>4. Partial(r) = r.line /\ ParLen(r) = p /\ r.line \in Bytes /\ r.own \in Bytes
    BY <1>1, <1>2, <1>3, LenFacts DEF Partial, ParLen
  <1>5. IsRun(r.line, a) /\ IsRun(r.own, a + p) /\ e = a + p + y
    <2>1. a + p + 0 + 0 = a + p /\ a + p + 0 + 0 + y = a + p + y
      OBVIOUS
    <2> QED
      BY <1>1, <1>2, <1>3, <1>4, <2>1, RunNone DEF RunsTo
  <1>6. PICK s, t, l : s = SubSeq(r.own, 1, n) /\ t = Rest(r.own, n) /\ l = r.line \o s
    OBVIOUS
  <1>7. /\ s \in Bytes /\ Len(s) = k /\ IsRun(s, a + p)
        /\ t \in Bytes /\ Len(t) = y - k /\ IsRun(t, a + p + k)
    <2>1. a + p \in Int
      BY <1>2
    <2> QED
      BY <1>2, <1>4, <1>5, <1>6, <2>1, RestRun
  <1>8. l \in Bytes /\ Len(l) = p + k /\ IsRun(l, a)
    <2>1. PICK h \in Bytes : h = r.line /\ Len(h) = p /\ l = h \o s
      BY <1>2, <1>4, <1>6
    <2>2. IsRun(h, a) /\ IsRun(s, a + Len(h)) /\ a \in Int
      BY <1>5, <1>7, <2>1
    <2>3. h \o s \in Bytes /\ Len(h \o s) = Len(h) + Len(s) /\ IsRun(h \o s, a)
      BY <1>7, <2>2, RunConcat
    <2> QED
      BY <1>7, <2>1, <2>3
  <1>9. /\ f \in Receivers /\ f.pc = r.pc /\ f.call = r.call /\ f.u = r.u /\ f.vb = r.vb
        /\ f.read = r.read /\ f.own = t /\ f.line = l /\ f.got = r.got
        /\ f.prefix = r.prefix /\ f.eof = r.eof /\ f.finished = r.finished
    BY <1>1, <1>6, <1>7, <1>8 DEF Receivers, LineTook
  <1>10. Kept(c, f)
    <2>1. c.rx = "bufr"
      BY <1>1 DEF Kept
    <2> QED
      BY <1>1, <1>9, <2>1 DEF Kept
  <1>11. InLoop(c, f)
    BY <1>1, <1>9 DEF InLoop
  <1>12. ReaderRight(c, f, o)
    BY <1>1, <1>9, <1>10, <1>11 DEF ReaderRight
  <1>13. EofRight(f)
    BY <1>1, <1>9 DEF EofRight
  <1>14. RunsTo(f, o.data, e)
    <2>1. Partial(f) = l /\ ParLen(f) = p + k
      BY <1>3, <1>8, <1>9 DEF Partial, ParLen
    <2>2. /\ a + (p + k) + 0 + 0 = a + p + k /\ a + (p + k) + 0 + 0 + (y - k) = a + p + y
      OBVIOUS
    <2> QED
      BY <1>1, <1>2, <1>3, <1>5, <1>7, <1>8, <1>9, <2>1, <2>2, RunNone DEF RunsTo
  <1> QED
    BY <1>1, <1>9, <1>12, <1>13, <1>14 DEF ReaderAt, ReaderState

(* One turn of read_until: look, take up to the delimiter, or fill.        *)
LEMMA UntilLoopRight ==
  ASSUME op \in [Ends -> Ops], NEW e, ReaderAt(cfg, rx, op["rx"], e), UntilLoop
  PROVE  ReaderStep(e)
  <1>1. PICK o \in Ops : o = op["rx"]
    BY DEF Ends
  <1>2. /\ o.st = "idle" /\ ReaderAt(cfg, rx, o, e) /\ rx.pc = "loop" /\ rx.call \in Until
    BY <1>1 DEF UntilLoop, Until
  <1>3. /\ cfg \in Stacks /\ rx \in Receivers /\ Kept(cfg, rx) /\ InLoop(cfg, rx) /\ rx.eof = FALSE
        /\ o = Idle /\ rx.prefix = <<>> /\ cfg.rx = "bufr"
    BY <1>2, LoopFacts DEF Kept
  <1>4. rx = [rx EXCEPT !.finished = rx.finished] /\ rx.finished \in BOOLEAN
    BY <1>3 DEF Receivers
  <1>5. PICK y \in Nat : y = Len(rx.own)
    BY <1>3, LenFacts
  <1> DEFINE hits == {i \in DOMAIN rx.own : rx.own[i] \in Delim}
             used == IF hits = {} THEN Len(rx.own) ELSE CHOOSE i \in hits : \A j \in hits : i <= j
             f == [rx EXCEPT !.line = @ \o SubSeq(rx.own, 1, used), !.own = Rest(@, used)]
  <1>6. used \in 0..y
    <2>1. hits \subseteq 1..y
      BY <1>3, <1>5 DEF Receivers, Bytes
    <2>2. CASE hits = {}
      BY <1>5, <2>2
    <2>3. CASE hits # {}
      <3>1. hits \subseteq Nat
        BY <2>1
      <3>2. \E i \in hits : \A j \in hits : i <= j
        <4> HIDE DEF hits
        <4> QED
          BY <2>3, <3>1, LeastNat
      <3>3. (CHOOSE i \in hits : \A j \in hits : i <= j) \in hits
        <4> HIDE DEF hits
        <4> QED
          BY <3>2
      <3>4. used \in hits
        BY <2>3, <3>3
      <3> HIDE DEF hits, used
      <3>5. used \in 1..y
        BY <2>1, <3>4
      <3> QED
        BY <3>5
    <2> QED
      BY <2>2, <2>3
  <1>7. CASE rx.own = <<>>
    <2>1. SocketRead(rx, "own", BufCap)
      BY <1>7 DEF UntilLoop
    <2>2. /\ op' = [op EXCEPT !["rx"] = op'["rx"]]
          /\ ReaderTo(cfg, rx, o, e, rx', op'["rx"])
      <3>1. PICK room \in Nat : room = BufCap
        BY SocketAssumption
      <3>2. SocketRead(rx, "own", room) /\ "own" \in {"user", "vec", "own"}
        BY <2>1, <3>1
      <3>3. cfg.rx \in {"bufr", "compat"}
        BY <1>3
      <3> QED
        BY <1>1, <1>2, <1>3, <1>4, <1>7, <3>2, <3>3, SocketReadRight
    <2> QED
      BY <1>1, <2>2 DEF ReaderStep
  <1>8. CASE rx.own # <<>>
    <2>1. IF hits # {} THEN LineDone(f, "idle") ELSE Goes(f)
      BY <1>8, Zenon DEF UntilLoop
    <2>2. PICK k, g :
            /\ k \in 0..Len(rx.own)
            /\ k = used /\ g = f
            /\ g = LineTook(rx, k)
      <3>1. used \in 0..Len(rx.own)
        BY <1>5, <1>6
      <3>2. f = LineTook(rx, used)
        <4> HIDE DEF hits
        <4> QED
          BY <1>3 DEF Receivers, LineTook
      <3> HIDE DEF used, f
      <3> QED
        BY <3>1, <3>2, Zenon
    <2>3. LineDone(g, "idle") \/ Goes(g)
      <3> HIDE DEF hits, f
      <3> QED
        BY <2>1, <2>2
    <2> HIDE DEF hits, used, f
    <2>4. ReaderAt(cfg, g, o, e) /\ g.pc = "loop" /\ g.call \in Until /\ g.eof = FALSE
      BY <1>2, <2>2, LineTakes, ZenonT(40)
    <2>5. g \in Receivers
      BY <2>4 DEF ReaderAt, ReaderState
    <2>6. CASE LineDone(g, "idle")
      <3>1. PICK x \in BOOLEAN : x = FALSE
        OBVIOUS
      <3>2. g = [g EXCEPT !.eof = x]
        BY <2>4, <2>5, <3>1 DEF Receivers
      <3>3. /\ op' = [op EXCEPT !["rx"] = op'["rx"]]
            /\ ReaderTo(cfg, g, o, e, rx', op'["rx"])
        BY <1>1, <1>3, <2>4, <2>6, <3>1, <3>2, IdleFacts, LineRight
      <3> QED
        BY <1>1, <1>3, <2>4, <3>3 DEF ReaderStep, ReaderTo
    <2>7. CASE Goes(g)
      <3>1. rx' = g /\ op' = [op EXCEPT !["rx"] = Idle] /\ op'["rx"] = Idle
        BY <2>7 DEF Goes, Ends
      <3>2. ReaderTo(cfg, rx, o, e, g, Idle)
        BY <1>3, <2>4, IdleFacts DEF ReaderTo, ReaderAt
      <3> QED
        BY <1>1, <3>1, <3>2 DEF ReaderStep
    <2> QED
      BY <2>3, <2>6, <2>7
  <1> QED
    BY <1>7, <1>8

(* A read through the operation, or of nothing.                            *)
LEMMA ReadOkStep ==
  ASSUME op \in [Ends -> Ops], NEW o, o = op["rx"],
         NEW e, ReaderAt(cfg, rx, o, e), rx.pc = "loop", o.st = "done",
         NEW bytes, NEW n, Reading(cfg, rx, bytes, n, e), n = 0 => o.res = 0,
         ReadOk(Filled(rx, bytes), n)
  PROVE  ReaderStep(e)
  <1>1. op' = [op EXCEPT !["rx"] = Idle] /\ ReadTo(cfg, rx, n, e, rx')
    BY ReadOkRight
  <1>2. op'["rx"] = Idle /\ op' = [op EXCEPT !["rx"] = op'["rx"]]
    BY <1>1 DEF Ends
  <1>3. rx.eof = FALSE /\ rx.prefix = <<>> /\ rx.own = <<>>
    BY LoopFacts
  <1>4. ReaderTo(cfg, rx, o, e, rx', Idle)
    BY <1>1, <1>3, ReadToRight
  <1> QED
    BY <1>2, <1>4 DEF ReaderStep

(* A call that returns b with the operation that is done.                  *)
LEMMA ReturnStep ==
  ASSUME op \in [Ends -> Ops], NEW o, o = op["rx"],
         NEW e, ReaderAt(cfg, rx, o, e), rx.pc = "loop",
         NEW b \in Bytes, IsRun(b, Len(rx.got)), NEW place \in {"idle", "failed"},
         place # "failed" => Len(b) = ParLen(rx) + Len(o.data),
         NEW x \in BOOLEAN, x => o.st = "done" /\ o.res = 0,
         NEW r1, r1 = [rx EXCEPT !.eof = x], Return(r1, b, place)
  PROVE  ReaderStep(e)
  <1>1. /\ rx \in Receivers /\ Kept(cfg, rx) /\ rx.eof = FALSE
        /\ IsRun(rx.got, 0) /\ RunsTo(rx, o.data, e) /\ o \in Ops
    BY LoopFacts DEF ReceiverOp
  <1>2. PICK v \in UserViews : v = rx.u /\ SliceOK(v)
    BY <1>1 DEF Receivers, Kept
  <1>3. r1 = [rx EXCEPT !.u = v, !.eof = x]
    BY <1>1, <1>2 DEF Receivers
  <1>4. o.data \in Bytes
    BY <1>1 DEF Ops
  <1>5. Ending(cfg, rx, v, x, b, place, o.data, e)
    BY <1>1, <1>2, <1>4 DEF Ending
  <1>6. /\ rx' = Back([rx EXCEPT !.u = v, !.eof = x], b, place)
        /\ op' = [op EXCEPT !["rx"] = Idle]
    BY <1>3, Zenon DEF Return, Goes, Back
  <1>7. op'["rx"] = Idle /\ op' = [op EXCEPT !["rx"] = op'["rx"]]
    BY <1>6 DEF Ends
  <1>8. Ended(cfg, rx, x, place, e, rx')
    BY <1>5, <1>6, BackRight, Zenon
  <1>9. ReaderTo(cfg, rx, o, e, rx', Idle)
    BY <1>8, EndedTo
  <1> QED
    BY <1>7, <1>9 DEF ReaderStep

(* The bytes of a read that is done land behind those already there.       *)
LEMMA ReadDoneRight ==
  ASSUME op \in [Ends -> Ops], NEW e, ReaderAt(cfg, rx, op["rx"], e), ReadDone
  PROVE  ReaderStep(e)
  <1>1. PICK o \in Ops : o = op["rx"]
    BY DEF Ends
  <1>2. PICK res \in Nat, bytes \in Bytes : res = o.res /\ bytes = o.data
    BY <1>1 DEF ReadDone, Ops
  <1>3. /\ o.st = "done" /\ ReaderAt(cfg, rx, o, e) /\ rx.pc = "loop"
    BY <1>1 DEF ReadDone
  <1>4. /\ cfg \in Stacks /\ rx \in Receivers /\ Kept(cfg, rx) /\ InLoop(cfg, rx) /\ rx.eof = FALSE
        /\ IsRun(rx.got, 0) /\ RunsTo(rx, bytes, e) /\ ReceiverOp(o)
        /\ rx.prefix = <<>> /\ rx.own = <<>> /\ Filling(cfg, rx, o)
    BY <1>2, <1>3, LoopFacts
  <1>5. Len(bytes) = res /\ res <= o.room
    BY <1>2, <1>3, <1>4 DEF ReceiverOp, Moved
  <1>6. res = 0 => bytes = <<>>
    BY <1>5, EmptySeq DEF Bytes
  <1>7. IsRun(bytes, Len(rx.got) + ParLen(rx))
    BY <1>4 DEF RunsTo
  <1>8. rx.dst \in {"user", "vec", "own"}
    BY <1>4 DEF Filling
  <1>9. CASE rx.dst = "user"
    <2>1. ReadOk(Filled(rx, bytes), res)
      BY <1>1, <1>2, <1>9 DEF ReadDone
    <2>2. /\ rx.call \notin Until /\ ~(rx.call = "readv" /\ cfg.rx = "raw")
          /\ o.room <= slice_total(rx.u)
      BY <1>4, <1>9 DEF Filling
    <2>3. res <= slice_total(rx.u)
      <3>1. slice_total(rx.u) \in Nat /\ o.room \in Nat
        BY <1>1, <1>4, <2>2, RoomFacts DEF Ops
      <3> QED
        BY <1>5, <2>2, <3>1
    <2>4. Reading(cfg, rx, bytes, res, e)
      BY <1>3, <1>4, <1>5, <2>2, <2>3 DEF Reading
    <2> QED
      BY <1>1, <1>2, <1>3, <2>1, <2>4, ReadOkStep
  <1>10. CASE rx.dst = "vec"
    <2>1. PICK x \in BOOLEAN : x = (res = 0)
      OBVIOUS
    <2>2. PICK b : b = vec_bytes(vec_set_init(vec_fill(rx.vb, bytes), res), res)
      OBVIOUS
    <2>3. Return([rx EXCEPT !.eof = x], b, "idle")
      BY <1>1, <1>2, <1>10, <2>1, <2>2, Zenon DEF ReadDone
    <2>4. rx.call = "readv" /\ rx.vb = VecBuf(VecLens) /\ o.room <= vec_total(rx.vb)
      BY <1>4, <1>10 DEF Filling, InLoop
    <2>5. res <= vec_total(VecBuf(VecLens))
      <3>1. vec_total(VecBuf(VecLens)) \in Nat /\ o.room \in Nat
        BY <1>1, VecTotalFacts DEF Ops
      <3> QED
        BY <1>5, <2>4, <3>1
    <2>6. b = bytes
      BY <1>5, <2>2, <2>4, <2>5, VecRead
    <2>7. rx.line = <<>> /\ ParLen(rx) = 0
      <3>1. rx.line = <<>>
        BY <1>4, <2>4 DEF Kept, Until
      <3> QED
        BY <2>4, <3>1, RunNone DEF ParLen, Exact
    <2>8. IsRun(bytes, Len(rx.got)) /\ Len(bytes) = ParLen(rx) + Len(bytes)
      <3>1. Len(rx.got) \in Nat
        BY <1>4, LenFacts
      <3> QED
        BY <1>5, <1>7, <2>7, <3>1
    <2> QED
      BY <1>1, <1>2, <1>3, <2>1, <2>3, <2>6, <2>8, ReturnStep
  <1>11. CASE rx.dst = "own" /\ res > 0
    <2>1. PICK r2 : r2 = [rx EXCEPT !.own = bytes]
      OBVIOUS
    <2>2. Goes(r2)
      BY <1>1, <1>2, <1>11, <2>1 DEF ReadDone
    <2>3. /\ r2 \in Receivers /\ r2.pc = "loop" /\ r2.call = rx.call /\ r2.u = rx.u
          /\ r2.vb = rx.vb /\ r2.read = rx.read /\ r2.own = bytes /\ r2.line = rx.line
          /\ r2.got = rx.got /\ r2.prefix = <<>> /\ r2.eof = FALSE
          /\ r2.finished = rx.finished
      BY <1>3, <1>4, <2>1 DEF Receivers
    <2>4. Kept(cfg, r2)
      <3>1. cfg.rx \notin {"raw", "prefixed"}
        BY <1>4, <1>11 DEF Filling
      <3> QED
        BY <1>4, <2>3, <3>1 DEF Kept
    <2>5. InLoop(cfg, r2)
      BY <1>4, <2>3 DEF InLoop
    <2>6. ReaderRight(cfg, r2, Idle)
      BY <2>3, <2>4, <2>5, IdleFacts DEF ReaderRight
    <2>7. ReaderState(cfg, r2, Idle)
      BY <1>4, <2>3, <2>6, IdleFacts DEF ReaderState, EofRight
    <2>8. RunsTo(r2, <<>>, e)
      <3>1. PICK a \in Nat, p \in Nat : a = Len(rx.got) /\ p = ParLen(rx)
        BY <1>4, LenFacts
      <3>2. Partial(r2) = Partial(rx) /\ ParLen(r2) = p
        BY <2>3, <3>1 DEF Partial, ParLen
      <3>3. /\ Partial(rx) \in Bytes /\ Len(Partial(rx)) = p /\ IsRun(Partial(rx), a)
            /\ IsRun(bytes, a + p) /\ e = a + p + res
        <4>1. a + p + res + 0 + 0 = a + p + res
          OBVIOUS
        <4> QED
          BY <1>4, <1>5, <3>1, <4>1, RunNone DEF RunsTo
      <3>4. a + p + 0 = a + p /\ a + p + 0 + 0 = a + p /\ a + p + 0 + 0 + res = a + p + res
        OBVIOUS
      <3> QED
        BY <1>5, <2>3, <3>1, <3>2, <3>3, <3>4, RunNone DEF RunsTo
    <2>9. rx' = r2 /\ op'["rx"] = Idle /\ op' = [op EXCEPT !["rx"] = op'["rx"]]
      BY <2>2 DEF Goes, Ends
    <2>10. ReaderTo(cfg, rx, o, e, r2, Idle)
      BY <2>3, <2>7, <2>8, IdleFacts DEF ReaderTo
    <2> QED
      BY <1>1, <2>9, <2>10 DEF ReaderStep
  <1>12. CASE rx.dst = "own" /\ res = 0 /\ rx.call \in Until
    <2>1. PICK x \in BOOLEAN : x = (rx.line = <<>>)
      OBVIOUS
    <2>2. LineDone([rx EXCEPT !.eof = x], "idle")
      BY <1>1, <1>2, <1>12, <2>1 DEF ReadDone, Until
    <2>3. /\ op' = [op EXCEPT !["rx"] = op'["rx"]]
          /\ ReaderTo(cfg, rx, o, e, rx', op'["rx"])
      BY <1>1, <1>2, <1>3, <1>6, <1>12, <2>2, LineRight
    <2> QED
      BY <1>1, <2>3 DEF ReaderStep
  <1>13. CASE rx.dst = "own" /\ res = 0 /\ rx.call \notin Until
    <2>1. ReadOk(Filled(rx, <<>>), 0)
      BY <1>1, <1>2, <1>13 DEF ReadDone, Until
    <2>2. ~(rx.call = "readv" /\ cfg.rx = "raw")
      BY <1>4, <1>13 DEF Filling
    <2>3. 0 <= slice_total(rx.u)
      BY <1>4, <1>13, <2>2, RoomFacts
    <2>4. Reading(cfg, rx, <<>>, 0, e)
      BY <1>3, <1>4, <1>6, <1>13, <2>2, <2>3, RunNone DEF Reading
    <2> QED
      BY <1>1, <1>2, <1>3, <1>13, <2>1, <2>4, ReadOkStep
  <1> QED
    BY <1>8, <1>9, <1>10, <1>11, <1>12, <1>13

(* A read that failed ends the call with what it had.                      *)
LEMMA ReadErrRight ==
  ASSUME op \in [Ends -> Ops], NEW e, ReaderAt(cfg, rx, op["rx"], e), ReadErr
  PROVE  ReaderStep(e)
  <1>1. PICK o \in Ops : o = op["rx"]
    BY DEF Ends
  <1>2. PICK res \in Int : res = o.res /\ res < 0
    BY <1>1 DEF ReadErr, Ops
  <1>3. o.st = "done" /\ ReaderAt(cfg, rx, o, e) /\ rx.pc = "loop"
    BY <1>1 DEF ReadErr
  <1>4. /\ cfg \in Stacks /\ rx \in Receivers /\ Kept(cfg, rx) /\ InLoop(cfg, rx) /\ rx.eof = FALSE
        /\ IsRun(rx.got, 0) /\ RunsTo(rx, o.data, e) /\ ReceiverOp(o)
        /\ rx.prefix = <<>> /\ rx.own = <<>>
    BY <1>3, LoopFacts
  <1>5. o.data = <<>>
    <2>1. Len(o.data) = 0 /\ o.data \in Bytes
      BY <1>1, <1>2, <1>3, <1>4 DEF ReceiverOp, Moved, Ops
    <2> QED
      BY <2>1, EmptySeq DEF Bytes
  <1>6. PICK place \in {"idle", "failed"} : place = IF res = EIO THEN "failed" ELSE "idle"
    OBVIOUS
  <1>7. PICK x, r1 : x \in BOOLEAN /\ x = FALSE /\ r1 = rx /\ r1 = [rx EXCEPT !.eof = x]
    BY <1>4 DEF Receivers
  <1>7a. x \in BOOLEAN /\ r1 = [rx EXCEPT !.eof = x] /\ (x => o.st = "done" /\ o.res = 0)
    BY <1>7
  <1>8. ParLen(rx) + Len(o.data) = ParLen(rx) /\ ParLen(rx) \in Nat
    BY <1>4, <1>5, LenFacts, RunNone
  <1>9. CASE Goes(rx)
    <2>1. rx' = rx /\ op'["rx"] = Idle /\ op' = [op EXCEPT !["rx"] = op'["rx"]]
      BY <1>9 DEF Goes, Ends
    <2>2. ReaderRight(cfg, rx, Idle)
      BY <1>3, <1>4, IdleFacts DEF ReaderRight
    <2>3. ReaderState(cfg, rx, Idle)
      BY <1>4, <2>2, IdleFacts DEF ReaderState, EofRight
    <2>4. ReaderTo(cfg, rx, o, e, rx, Idle)
      BY <1>4, <1>5, <2>3, IdleFacts DEF ReaderTo
    <2> QED
      BY <1>1, <2>1, <2>4 DEF ReaderStep
  <1>10. CASE rx.call \in Until /\ LineDone(rx, place)
    <2>1. LineDone(r1, place)
      BY <1>7, <1>10
    <2>2. /\ op' = [op EXCEPT !["rx"] = op'["rx"]]
          /\ ReaderTo(cfg, rx, o, e, rx', op'["rx"])
      BY <1>1, <1>3, <1>5, <1>7a, <1>10, <2>1, LineRight
    <2> QED
      BY <1>1, <2>2 DEF ReaderStep
  <1>11. CASE rx.call = "read_exact" /\ Return(rx, as_slice(rx.u.buf), place)
    <2>1. PICK v \in UserViews : v = rx.u /\ SliceOK(v)
      BY <1>4 DEF Receivers, Kept
    <2>2. v.buf.kind = "vec" /\ v.buf.len = rx.read /\ rx.read \in Nat
      BY <1>4, <1>11, <2>1 DEF InLoop, Exact, Receivers
    <2>3. PICK k \in Nat : k = bytes_init(v.buf) /\ k = rx.read
      BY <2>2 DEF bytes_init
    <2>4. as_slice(v.buf) = SubSeq(as_slice(v.buf), 1, k)
      <3>1. PICK w : w = SubSeq(v.buf.mem, 1, k)
        OBVIOUS
      <3>2. k <= bytes_init(v.buf) /\ k = bytes_init(v.buf)
        BY <2>3
      <3>3. SubSeq(as_slice(v.buf), 1, k) = SubSeq(v.buf.mem, 1, k)
        BY <2>1, <3>2, AsSlicePart
      <3>4. as_slice(v.buf) = SubSeq(v.buf.mem, 1, k)
        BY <2>1, <3>2, AsSlicePart
      <3> QED
        BY <3>3, <3>4, Zenon
    <2>5. PICK b \in Bytes : b = as_slice(rx.u.buf) /\ b = Partial(rx)
      <3>1. as_slice(rx.u.buf) = Partial(rx)
        BY <1>11, <2>1, <2>3, <2>4 DEF Partial, Exact
      <3> QED
        BY <1>4, <3>1 DEF RunsTo
    <2>6. IsRun(b, Len(rx.got)) /\ Len(b) = ParLen(rx)
      BY <1>4, <2>5 DEF RunsTo
    <2>7. Return(r1, b, place)
      BY <1>7, <1>11, <2>5
    <2>8. place # "failed" => Len(b) = ParLen(rx) + Len(o.data)
      BY <1>8, <2>6
    <2> QED
      BY <1>1, <1>3, <1>7a, <2>6, <2>7, <2>8, ReturnStep
  <1>12. ASSUME NEW q \in {"idle", "failed"}, q # "failed" => ParLen(rx) = 0, Return(rx, <<>>, q)
         PROVE  ReaderStep(e)
    <2>1. Return(r1, <<>>, q)
      BY <1>7, <1>12
    <2>2. q # "failed" => Len(<<>>) = ParLen(rx) + Len(o.data)
      BY <1>8, <1>12, RunNone
    <2> QED
      BY <1>1, <1>3, <1>7a, <2>1, <2>2, RunNone, ReturnStep
  <1>13. CASE rx.call = "read_int" /\ Return(rx, <<>>, IF rx.read = 0 THEN place ELSE "failed")
    <2>1. PICK q \in {"idle", "failed"} : q = IF rx.read = 0 THEN place ELSE "failed"
      OBVIOUS
    <2>2. q # "failed" => ParLen(rx) = 0
      BY <1>13, <2>1 DEF ParLen, Exact
    <2> QED
      BY <1>12, <1>13, <2>1, <2>2
  <1>14. CASE rx.call \notin Until \cup Exact /\ Return(rx, <<>>, place)
    <2>1. ParLen(rx) = 0
      BY <1>4, <1>14, RunNone DEF ParLen, Kept
    <2> QED
      BY <1>12, <1>14, <2>1
  <1>15. \/ Goes(rx)
         \/ rx.call \in Until /\ LineDone(rx, place)
         \/ rx.call = "read_exact" /\ Return(rx, as_slice(rx.u.buf), place)
         \/ rx.call = "read_int" /\ Return(rx, <<>>, IF rx.read = 0 THEN place ELSE "failed")
         \/ rx.call \notin Until \cup Exact /\ Return(rx, <<>>, place)
    BY <1>1, <1>2, <1>6 DEF ReadErr, Until, Exact
  <1> QED
    BY <1>9, <1>10, <1>11, <1>13, <1>14, <1>15

(* Dropping the future of a read leaves the operation to the driver.       *)
LEMMA DropReadRight ==
  ASSUME op \in [Ends -> Ops], NEW e, ReaderAt(cfg, rx, op["rx"], e), DropRead
  PROVE  ReaderStep(e)
  <1>1. PICK o \in Ops : o = op["rx"]
    BY DEF Ends
  <1>2. ReaderAt(cfg, rx, o, e) /\ rx.pc = "loop" /\ o.st = "flight" /\ op' = op
    BY <1>1 DEF DropRead, socketVars
  <1>3. /\ cfg \in Stacks /\ rx \in Receivers /\ Kept(cfg, rx) /\ rx.eof = FALSE
        /\ IsRun(rx.got, 0) /\ RunsTo(rx, o.data, e) /\ ReceiverOp(o)
        /\ rx.prefix = <<>> /\ rx.own = <<>>
    BY <1>2, LoopFacts
  <1>4. PICK r2 : r2 = rx' /\ r2 = [rx EXCEPT !.pc = "dropped"]
    BY DEF DropRead
  <1>5. /\ r2 \in Receivers /\ r2.pc = "dropped" /\ r2.call = rx.call /\ r2.u = rx.u
        /\ r2.read = rx.read /\ r2.own = <<>> /\ r2.line = rx.line /\ r2.got = rx.got
        /\ r2.prefix = <<>> /\ r2.eof = FALSE /\ r2.finished = rx.finished
    BY <1>3, <1>4 DEF Receivers, Broken
  <1>6. Kept(cfg, r2)
    BY <1>3, <1>5 DEF Kept
  <1>7. ReaderState(cfg, r2, o)
    BY <1>3, <1>5, <1>6 DEF ReaderState, EofRight, ReaderRight
  <1>8. RunsTo(r2, o.data, e)
    BY <1>3, <1>5 DEF RunsTo, Partial, ParLen
  <1>9. ReaderTo(cfg, rx, o, e, r2, o)
    BY <1>2, <1>5, <1>7, <1>8 DEF ReaderTo
  <1>10. op'["rx"] = o /\ op' = [op EXCEPT !["rx"] = op'["rx"]]
    BY <1>1, <1>2 DEF Ends
  <1> QED
    BY <1>1, <1>4, <1>9, <1>10 DEF ReaderStep

-----------------------------------------------------------------------------
(* The sending side.                                                       *)

(* The states of the sending side.                                         *)
Senders ==
  [pc : Opening \cup Broken \cup {"idle", "write", "write_all", "flush_buf", "flush", "shutdown",
                                  "closed"},
   call : {"none", "write", "write_all", "flush", "shutdown"},
   data : Bytes, buf : Bytes, pos : Nat, given : Nat]

(* An operation that sends holds nothing once it is done.                  *)
SenderOp(o) ==
  /\ o \in Ops
  /\ o.st = "idle" => o = Idle
  /\ o.st = "done" => o.data = <<>>

(* The operation sends from the buffer, or from the bytes of the call.     *)
InBuf(c, t) == t.pc \in {"write_all", "flush_buf"} \/ c.tx = "compat"
ToSend(c, t) == IF InBuf(c, t) THEN Slice(t.buf, t.pos, Len(t.buf)) ELSE t.data

(* The buffer and the operation in every state of a writer that works.     *)
SenderBuffers(c, t, o) ==
  /\ o.st = "flight" => o.data = ToSend(c, t)
  /\ Moved(o) <= Len(ToSend(c, t))
  /\ t.pos <= Len(t.buf)
  /\ t.pc \in {"write_all", "flush_buf"} => t.pos < Len(t.buf)
  /\ ~InBuf(c, t) => t.pos = 0
  /\ o.st # "idle" => InBuf(c, t) \/ (t.pc = "write" /\ t.buf = <<>>)
  /\ c.tx = "raw" /\ t.pc # "write_all" => t.buf = <<>>
  /\ t.pc \in Opening \cup {"flush", "shutdown", "closed"} => t.buf = <<>>

(* What it is doing.                                                       *)
SenderCalls(c, t, o) ==
  /\ c.tx = "compat" => /\ t.data = <<>> /\ t.call = "none"
                        /\ t.pc \in Opening \cup {"idle", "closed"}
                        /\ t.buf = <<>> => o.st = "idle"
                        /\ t.buf # <<>> => o.st # "idle" /\ t.pos < Len(t.buf)
  /\ t.pc = "write_all" => c.tx = "raw" /\ t.data = <<>>
  /\ t.pc = "write" => t.call \in {"write", "write_all"}
  /\ t.pc = "flush_buf" => c.tx = "bufw" /\ t.call \in {"write", "write_all", "flush", "shutdown"}
  /\ t.pc = "flush_buf" /\ t.call \in {"flush", "shutdown"} => t.data = <<>>
  /\ t.pc \in Opening \cup {"idle", "flush", "shutdown", "closed"} => t.data = <<>>

SenderState(c, t, o) ==
  /\ c \in Stacks /\ t \in Senders /\ SenderOp(o)
  /\ t.pc = "failed" => o.st = "idle"
  /\ t.pc \notin Broken => SenderBuffers(c, t, o) /\ SenderCalls(c, t, o)

(* The bytes of the sender follow those on the wire, which end at w.       *)
Base(t) == t.given - (IF t.pc = "write_all" THEN 0 ELSE Len(t.buf))
RunsFrom(t, o, w) ==
  /\ o.st = "flight" => IsRun(o.data, w)
  /\ t.pc \notin Broken => /\ w = Base(t) + t.pos + Moved(o)
                           /\ IsRun(t.buf, Base(t)) /\ IsRun(t.data, t.given)

(* A step of the writer, with what it leaves of the operation.             *)
SenderTo(c, t, o, t2, o2) ==
  /\ SenderState(c, t2, o2)
  /\ \A w \in Int : RunsFrom(t, o, w) => RunsFrom(t2, o2, w)

SenderStep ==
  /\ op' = [op EXCEPT !["tx"] = op'["tx"]]
  /\ SenderTo(cfg, tx, op["tx"], tx', op'["tx"])

(* The two fields of a writer that runs, and the operation it starts.      *)
LEMMA SenderFacts ==
  ASSUME NEW t \in Senders
  PROVE  /\ t.data \in Bytes /\ t.buf \in Bytes /\ t.pos \in Nat /\ t.given \in Nat
         /\ Len(t.data) \in Nat /\ Len(t.buf) \in Nat
         /\ Base(t) \in Int
  <1>1. \A s \in Bytes : Len(s) \in Nat
    BY DEF Bytes
  <1> QED
    BY <1>1 DEF Senders, Base

(* A writer whose call is over has sent all it was given but its buffer.   *)
LEMMA QuietFacts ==
  ASSUME NEW c, NEW t, NEW o, SenderState(c, t, o), t.pc \in Opening \cup {"idle", "flush", "shutdown"}
  PROVE  /\ c.tx # "compat" => /\ o = Idle /\ t.pos = 0 /\ Moved(o) = 0 /\ o.st = "idle"
         /\ t.data = <<>> /\ t.pc \notin Broken
         /\ SenderBuffers(c, t, o) /\ SenderCalls(c, t, o)
  <1>1. t.pc \notin Broken
    BY DEF Opening, Broken
  <1>2. SenderBuffers(c, t, o) /\ SenderCalls(c, t, o) /\ SenderOp(o)
    BY <1>1 DEF SenderState
  <1>3. t.data = <<>>
    BY <1>2 DEF SenderCalls
  <1>4. ASSUME c.tx # "compat"
        PROVE  o = Idle /\ t.pos = 0 /\ Moved(o) = 0 /\ o.st = "idle"
    <2>1. ~InBuf(c, t) /\ t.pc # "write"
      BY <1>4 DEF InBuf, Opening
    <2>2. o.st = "idle" /\ t.pos = 0
      BY <1>2, <2>1 DEF SenderBuffers
    <2> QED
      BY <1>2, <2>2 DEF SenderOp, Moved
  <1> QED
    BY <1>1, <1>2, <1>3, <1>4

(* connect: nothing but the pc changes.                                    *)
LEMMA OpeningTo ==
  ASSUME NEW c, NEW t, NEW o, SenderState(c, t, o), t.pc \in Opening,
         NEW q \in Opening \cup {"idle"}, NEW t2, t2 = [t EXCEPT !.pc = q]
  PROVE  SenderTo(c, t, o, t2, o)
  <1>1. t \in Senders /\ c \in Stacks /\ SenderOp(o)
    BY DEF SenderState
  <1>2. /\ t.data = <<>> /\ SenderBuffers(c, t, o) /\ SenderCalls(c, t, o) /\ t.pc \notin Broken
    BY QuietFacts
  <1>3. /\ t2 \in Senders /\ t2.pc = q /\ t2.call = t.call /\ t2.data = t.data /\ t2.buf = t.buf
        /\ t2.pos = t.pos /\ t2.given = t.given
    BY <1>1 DEF Senders
  <1>4. q \notin Broken /\ q \notin {"write", "write_all", "flush_buf", "flush", "shutdown", "closed"}
    BY DEF Opening, Broken
  <1>5. t.pc \notin {"write", "write_all", "flush_buf", "flush", "shutdown", "closed"}
    BY DEF Opening
  <1>6. InBuf(c, t2) = InBuf(c, t) /\ ToSend(c, t2) = ToSend(c, t)
    BY <1>3, <1>4, <1>5 DEF InBuf, ToSend
  <1>7. SenderBuffers(c, t2, o)
    BY <1>2, <1>3, <1>4, <1>5, <1>6 DEF SenderBuffers
  <1>8. SenderCalls(c, t2, o)
    BY <1>2, <1>3, <1>4, <1>5 DEF SenderCalls
  <1>9. SenderState(c, t2, o)
    BY <1>1, <1>3, <1>4, <1>7, <1>8 DEF SenderState, Broken
  <1>10. Base(t2) = Base(t)
    BY <1>3, <1>4, <1>5 DEF Base
  <1>11. ASSUME NEW w \in Int, RunsFrom(t, o, w)
         PROVE  RunsFrom(t2, o, w)
    BY <1>2, <1>3, <1>10, <1>11 DEF RunsFrom
  <1> QED
    BY <1>9, <1>11 DEF SenderTo

(* A call that fails, and a writer that is dropped.                        *)
LEMMA BrokenTo ==
  ASSUME NEW c, NEW t, NEW o, SenderState(c, t, o),
         NEW q \in Broken, NEW t2, t2 = [t EXCEPT !.pc = q],
         NEW o2, o2 = Idle \/ (q = "dropped" /\ o2 = o)
  PROVE  SenderTo(c, t, o, t2, o2)
  <1>1. t \in Senders /\ c \in Stacks /\ SenderOp(o)
    BY DEF SenderState
  <1>2. t2 \in Senders /\ t2.pc = q
    BY <1>1 DEF Senders
  <1>3. SenderOp(o2) /\ (q = "failed" => o2.st = "idle")
    BY <1>1, IdleFacts DEF SenderOp, Broken
  <1>4. SenderState(c, t2, o2)
    BY <1>1, <1>2, <1>3 DEF SenderState
  <1>5. ASSUME NEW w \in Int, RunsFrom(t, o, w)
        PROVE  RunsFrom(t2, o2, w)
    BY <1>2, <1>5, IdleFacts DEF RunsFrom
  <1> QED
    BY <1>4, <1>5 DEF SenderTo

(* What is left of some bytes.                                             *)
LEMMA SliceFacts ==
  ASSUME NEW s \in Bytes, NEW n \in 0..Len(s)
  PROVE  /\ Slice(s, n, Len(s)) \in Bytes /\ Len(Slice(s, n, Len(s))) = Len(s) - n
         /\ \A a \in Int : IsRun(s, a) => IsRun(Slice(s, n, Len(s)), a + n)
  <1>1. PICK l \in Nat, k \in Nat, m \in Nat : l = Len(s) /\ k = n /\ m = l - k
    <2>1. Len(s) \in Nat
      BY DEF Bytes
    <2> QED
      BY <2>1
  <1>2. k + m <= Len(s) /\ k + m = l
    BY <1>1
  <1>3. SubSeq(s, k + 1, k + m) \in Bytes /\ Len(SubSeq(s, k + 1, k + m)) = m
    BY <1>2, BytesSub
  <1>4. Slice(s, n, Len(s)) = SubSeq(s, k + 1, k + m)
    BY <1>1, <1>2 DEF Slice
  <1>5. ASSUME NEW a \in Int, IsRun(s, a)
        PROVE  IsRun(Slice(s, n, Len(s)), a + n)
    BY <1>5, RunTail DEF Slice
  <1> QED
    BY <1>1, <1>3, <1>4, <1>5

(* What an operation of the writer has to send.                            *)
LEMMA ToSendFacts ==
  ASSUME NEW c, NEW t \in Senders, t.pos <= Len(t.buf)
  PROVE  /\ ToSend(c, t) \in Bytes
         /\ Len(ToSend(c, t)) = IF InBuf(c, t) THEN Len(t.buf) - t.pos ELSE Len(t.data)
         /\ Len(ToSend(c, t)) \in Nat
         /\ \A a \in Int : IsRun(t.buf, a) /\ InBuf(c, t) => IsRun(ToSend(c, t), a + t.pos)
  <1>1. /\ t.data \in Bytes /\ t.buf \in Bytes /\ t.pos \in 0..Len(t.buf)
        /\ Len(t.data) \in Nat /\ Len(t.buf) - t.pos \in Nat
    BY SenderFacts
  <1>2. CASE InBuf(c, t)
    <2>1. ToSend(c, t) = Slice(t.buf, t.pos, Len(t.buf))
      BY <1>2 DEF ToSend
    <2> QED
      BY <1>1, <1>2, <2>1, SliceFacts
  <1>3. CASE ~InBuf(c, t)
    <2>1. ToSend(c, t) = t.data
      BY <1>3 DEF ToSend
    <2> QED
      BY <1>1, <1>3, <2>1
  <1> QED
    BY <1>2, <1>3

(* write and write_all begin.                                              *)
LEMMA BeginWriteTo ==
  ASSUME NEW c, NEW t, NEW o, SenderState(c, t, o), t.pc = "idle", c.tx # "compat",
         NEW call \in {"write", "write_all"}, NEW d \in Bytes, d # <<>>, IsRun(d, t.given),
         NEW t2, t2 = IF c.tx = "raw" /\ call = "write_all"
                      THEN [t EXCEPT !.call = call, !.pc = "write_all", !.buf = d, !.data = <<>>]
                      ELSE [t EXCEPT !.call = call, !.pc = "write", !.data = d]
  PROVE  SenderTo(c, t, o, t2, o)
  <1>1. t \in Senders /\ c \in Stacks /\ SenderOp(o)
    BY DEF SenderState
  <1>2. /\ t.data = <<>> /\ SenderBuffers(c, t, o) /\ SenderCalls(c, t, o)
        /\ o.st = "idle" /\ t.pos = 0 /\ Moved(o) = 0
    BY QuietFacts
  <1>3. PICK l \in Nat \ {0}, g \in Nat, k \in Nat : l = Len(d) /\ g = t.given /\ k = Len(t.buf)
    <2>1. Len(d) \in Nat \ {0}
      BY EmptySeq DEF Bytes
    <2> QED
      BY <1>1, <2>1, SenderFacts
  <1>4. CASE c.tx = "raw" /\ call = "write_all"
    <2>1. /\ t2 \in Senders /\ t2.pc = "write_all" /\ t2.call = call /\ t2.data = <<>>
          /\ t2.buf = d /\ t2.pos = 0 /\ t2.given = g
      BY <1>1, <1>2, <1>3, <1>4, RunNone DEF Senders
    <2>2. t.buf = <<>>
      BY <1>2, <1>4 DEF SenderBuffers
    <2>3. InBuf(c, t2) /\ Len(ToSend(c, t2)) \in Nat
      BY <1>3, <2>1, ToSendFacts DEF InBuf
    <2>4. SenderBuffers(c, t2, o)
      BY <1>2, <1>3, <1>4, <2>1, <2>3 DEF SenderBuffers, Opening
    <2>5. SenderCalls(c, t2, o)
      BY <1>4, <2>1 DEF SenderCalls, Opening
    <2>6. SenderState(c, t2, o)
      BY <1>1, <2>1, <2>4, <2>5 DEF SenderState
    <2>7. Base(t2) = g /\ Base(t) = g
      BY <1>3, <2>1, <2>2, RunNone DEF Base
    <2>8. \A w \in Int : RunsFrom(t, o, w) => RunsFrom(t2, o, w)
      BY <1>2, <1>3, <2>1, <2>7, RunNone DEF RunsFrom, Broken
    <2> QED
      BY <2>6, <2>8 DEF SenderTo
  <1>5. CASE ~(c.tx = "raw" /\ call = "write_all")
    <2>1. /\ t2 \in Senders /\ t2.pc = "write" /\ t2.call = call /\ t2.data = d
          /\ t2.buf = t.buf /\ t2.pos = 0 /\ t2.given = g
      BY <1>1, <1>2, <1>3, <1>5 DEF Senders
    <2>2. ~InBuf(c, t2) /\ Len(ToSend(c, t2)) \in Nat
      BY <1>2, <1>3, <2>1, ToSendFacts DEF InBuf
    <2>3. SenderBuffers(c, t2, o)
      BY <1>2, <1>3, <2>1, <2>2 DEF SenderBuffers, Opening
    <2>4. SenderCalls(c, t2, o)
      BY <2>1 DEF SenderCalls, Opening
    <2>5. SenderState(c, t2, o)
      BY <1>1, <2>1, <2>3, <2>4 DEF SenderState
    <2>6. Base(t2) = Base(t)
      BY <1>3, <2>1 DEF Base
    <2>7. \A w \in Int : RunsFrom(t, o, w) => RunsFrom(t2, o, w)
      BY <1>2, <1>3, <2>1, <2>6 DEF RunsFrom, Broken
    <2> QED
      BY <2>5, <2>7 DEF SenderTo
  <1> QED
    BY <1>4, <1>5

(* An operation of the writer is submitted, or its handle was cancelled.   *)
LEMMA SubmitTo ==
  ASSUME NEW c, NEW t, NEW o, SenderState(c, t, o), o.st = "idle",
         t.pc \in {"write_all", "flush_buf"} \/ (t.pc = "write" /\ t.buf = <<>>),
         NEW o2, o2 = Send(ToSend(c, t)) \/ o2 = [Idle EXCEPT !.st = "done", !.res = ECANCELED]
  PROVE  SenderTo(c, t, o, t, o2)
  <1>1. t \in Senders /\ c \in Stacks /\ SenderOp(o) /\ o = Idle /\ t.pc \notin Broken
    BY DEF SenderState, SenderOp, Broken
  <1>2. SenderBuffers(c, t, o) /\ SenderCalls(c, t, o)
    BY <1>1 DEF SenderState
  <1>3. c.tx # "compat"
    BY <1>2 DEF SenderCalls, Opening
  <1>4. t.pos <= Len(t.buf) /\ t.pos \in Nat /\ Len(t.buf) \in Nat /\ t.given \in Nat /\ Base(t) \in Int
    BY <1>1, <1>2, SenderFacts DEF SenderBuffers
  <1>5. /\ ToSend(c, t) \in Bytes /\ Len(ToSend(c, t)) \in Nat
        /\ \A a \in Int : IsRun(t.buf, a) /\ InBuf(c, t) => IsRun(ToSend(c, t), a + t.pos)
    BY <1>1, <1>4, ToSendFacts
  <1>6. /\ o2 \in Ops /\ Moved(o2) = 0 /\ Moved(o) = 0 /\ o2.st \in {"flight", "done"}
        /\ o2.st = "flight" => o2.data = ToSend(c, t)
        /\ o2.st = "done" => o2.data = <<>>
    <2>1. CASE o2 = Send(ToSend(c, t))
      <3>1. o2 = [st |-> "flight", data |-> ToSend(c, t), room |-> 0, res |-> 0, cancel |-> FALSE]
        BY <2>1 DEF Send, Idle
      <3> QED
        BY <1>1, <1>5, <3>1, IdleFacts DEF Ops, Moved
    <2>2. CASE o2 = [Idle EXCEPT !.st = "done", !.res = ECANCELED]
      <3>1. o2 = [st |-> "done", data |-> <<>>, room |-> 0, res |-> -125, cancel |-> FALSE]
        BY <2>2 DEF Idle, ECANCELED
      <3> QED
        BY <1>1, <3>1, IdleFacts, RunNone DEF Ops, Moved
    <2> QED
      BY <2>1, <2>2
  <1>7. SenderOp(o2)
    BY <1>6 DEF SenderOp
  <1>8. SenderBuffers(c, t, o2)
    BY <1>2, <1>5, <1>6 DEF SenderBuffers, InBuf
  <1>9. SenderCalls(c, t, o2)
    BY <1>2, <1>3 DEF SenderCalls
  <1>10. SenderState(c, t, o2)
    BY <1>1, <1>7, <1>8, <1>9 DEF SenderState, Broken
  <1>11. ASSUME NEW w \in Int, RunsFrom(t, o, w)
         PROVE  RunsFrom(t, o2, w)
    <2>1. /\ w = Base(t) + t.pos /\ IsRun(t.buf, Base(t)) /\ IsRun(t.data, t.given)
      BY <1>1, <1>4, <1>6, <1>11 DEF RunsFrom
    <2>2. IsRun(ToSend(c, t), w)
      <3>1. CASE InBuf(c, t)
        BY <1>4, <1>5, <2>1, <3>1
      <3>2. CASE ~InBuf(c, t)
        <4>1. t.pc = "write" /\ t.buf = <<>> /\ t.pos = 0
          BY <1>2, <3>2 DEF InBuf, SenderBuffers
        <4>2. w = t.given
          BY <1>4, <2>1, <4>1, RunNone DEF Base
        <4> QED
          BY <2>1, <3>2, <4>2 DEF ToSend
      <3> QED
        BY <3>1, <3>2
    <2> QED
      BY <1>4, <1>6, <2>1, <2>2 DEF RunsFrom
  <1> QED
    BY <1>10, <1>11 DEF SenderTo

(* The fields of a writer.                                                 *)
SenderIs(t, place, call, data, buf, pos, given) ==
  /\ t \in Senders
  /\ t.pc = place /\ t.call = call /\ t.data = data /\ t.buf = buf /\ t.pos = pos /\ t.given = given

(* A step that leaves a writer at work, and the operation of it.           *)
LEMMA SenderToWorks ==
  ASSUME NEW c \in Stacks, NEW t, NEW o, NEW t2 \in Senders, NEW o2, SenderOp(o2),
         t2.pc \notin Broken, SenderBuffers(c, t2, o2), SenderCalls(c, t2, o2),
         \A w \in Int : RunsFrom(t, o, w) =>
            /\ o2.st = "flight" => IsRun(o2.data, w)
            /\ w = Base(t2) + t2.pos + Moved(o2)
            /\ IsRun(t2.buf, Base(t2)) /\ IsRun(t2.data, t2.given)
  PROVE  SenderTo(c, t, o, t2, o2)
  <1>1. SenderState(c, t2, o2)
    BY DEF SenderState, Broken
  <1>2. ASSUME NEW w \in Int, RunsFrom(t, o, w)
        PROVE  RunsFrom(t2, o2, w)
    BY <1>2 DEF RunsFrom
  <1> QED
    BY <1>1, <1>2 DEF SenderTo

(* The idle operation of a writer, and one that has just been submitted.   *)
LEMMA SenderOps ==
  /\ SenderOp(Idle) /\ Moved(Idle) = 0 /\ Idle.st = "idle"
  /\ \A s \in Bytes : /\ SenderOp(Send(s)) /\ Moved(Send(s)) = 0
                      /\ Send(s).st = "flight" /\ Send(s).data = s
  <1>1. SenderOp(Idle) /\ Moved(Idle) = 0 /\ Idle.st = "idle"
    BY IdleFacts DEF SenderOp, Moved
  <1>2. ASSUME NEW s \in Bytes
        PROVE  /\ SenderOp(Send(s)) /\ Moved(Send(s)) = 0
               /\ Send(s).st = "flight" /\ Send(s).data = s
    <2>1. PICK x : x = Send(s)
      OBVIOUS
    <2>2. x = [st |-> "flight", data |-> s, room |-> 0, res |-> 0, cancel |-> FALSE]
      BY <2>1 DEF Send, Idle
    <2>3. SenderOp(x) /\ Moved(x) = 0 /\ x.st = "flight" /\ x.data = s
      BY <2>2 DEF SenderOp, Ops, Moved
    <2> QED
      BY <2>1, <2>3
  <1> QED
    BY <1>1, <1>2

(* flush_buf begins: the buffer is not empty, and none of it was sent.     *)
LEMMA FlushTo ==
  ASSUME NEW c, NEW t, NEW o, SenderState(c, t, o), c.tx = "bufw", t.buf # <<>>, o.st = "idle",
         NEW call, \/ t.pc = "idle" /\ call \in {"flush", "shutdown"}
                   \/ t.pc = "write" /\ call = t.call,
         NEW t2, SenderIs(t2, "flush_buf", call, t.data, t.buf, 0, t.given)
  PROVE  SenderTo(c, t, o, t2, Idle)
  <1>1. t \in Senders /\ c \in Stacks /\ o = Idle /\ t.pc \notin Broken
    BY DEF SenderState, SenderOp, Broken
  <1>2. SenderBuffers(c, t, o) /\ SenderCalls(c, t, o)
    BY <1>1 DEF SenderState
  <1>3. PICK k \in Nat, g \in Nat : k = Len(t.buf) /\ g = t.given /\ k > 0
    <2>1. Len(t.buf) # 0
      BY <1>1, SenderFacts, EmptySeq DEF Bytes
    <2> QED
      BY <1>1, <2>1, SenderFacts
  <1>4. /\ t2 \in Senders /\ t2.pc = "flush_buf" /\ t2.call = call /\ t2.data = t.data
        /\ t2.buf = t.buf /\ t2.pos = 0 /\ t2.given = g
    BY <1>3 DEF SenderIs
  <1>5. t.pos = 0 /\ ~InBuf(c, t) /\ InBuf(c, t2)
    <2>1. ~InBuf(c, t)
      BY DEF InBuf
    <2> QED
      BY <1>2, <1>4, <2>1 DEF InBuf, SenderBuffers
  <1>6. Len(ToSend(c, t2)) \in Nat
    BY <1>3, <1>4, ToSendFacts
  <1>7. SenderBuffers(c, t2, Idle)
    BY <1>3, <1>4, <1>5, <1>6, SenderOps DEF SenderBuffers, Opening
  <1>8. SenderCalls(c, t2, Idle)
    BY <1>2, <1>4 DEF SenderCalls, Opening
  <1>9. Base(t2) = Base(t)
    BY <1>3, <1>4 DEF Base
  <1>10. \A w \in Int : RunsFrom(t, o, w) =>
            /\ Idle.st = "flight" => IsRun(Idle.data, w)
            /\ w = Base(t2) + t2.pos + Moved(Idle)
            /\ IsRun(t2.buf, Base(t2)) /\ IsRun(t2.data, t2.given)
    BY <1>1, <1>3, <1>4, <1>5, <1>9, SenderOps DEF RunsFrom
  <1>11. t2.pc \notin Broken
    BY <1>4 DEF Broken
  <1> QED
    BY <1>1, <1>4, <1>7, <1>8, <1>10, <1>11, SenderOps, SenderToWorks

(* BufWriter::write copies the bytes.                                      *)
LEMMA BufferedTo ==
  ASSUME NEW c, NEW t, NEW o, SenderState(c, t, o), c.tx = "bufw", t.pc = "write", o.st = "idle",
         NEW t2, SenderIs(t2, "idle", "none", <<>>, t.buf \o t.data, t.pos, t.given + Len(t.data))
  PROVE  SenderTo(c, t, o, t2, Idle)
  <1>1. t \in Senders /\ c \in Stacks /\ o = Idle /\ t.pc \notin Broken
    BY DEF SenderState, SenderOp, Broken
  <1>2. SenderBuffers(c, t, o) /\ SenderCalls(c, t, o)
    BY <1>1 DEF SenderState
  <1>3. PICK k \in Nat, g \in Nat, l \in Nat : k = Len(t.buf) /\ g = t.given /\ l = Len(t.data)
    BY <1>1, SenderFacts
  <1>4. /\ t2 \in Senders /\ t2.pc = "idle" /\ t2.call = "none" /\ t2.data = <<>>
        /\ t2.pos = t.pos /\ t2.given = g + l
    BY <1>3 DEF SenderIs
  <1>5. t.pos = 0 /\ ~InBuf(c, t) /\ ~InBuf(c, t2)
    <2>1. ~InBuf(c, t)
      BY DEF InBuf
    <2> QED
      BY <1>2, <1>4, <2>1 DEF InBuf, SenderBuffers
  <1>6. Len(t2.buf) = k + l /\ t.buf \in Bytes /\ t.data \in Bytes
    <2>1. t2.buf = t.buf \o t.data
      BY DEF SenderIs
    <2> QED
      BY <1>1, <1>3, <2>1, SenderFacts, BytesConcat
  <1>7. Len(ToSend(c, t2)) \in Nat
    BY <1>4, <1>5, <1>6, ToSendFacts
  <1>8. SenderBuffers(c, t2, Idle)
    <2>1. t2.pos = 0 /\ 0 <= Len(t2.buf) /\ Moved(Idle) <= Len(ToSend(c, t2)) /\ Idle.st = "idle"
      <3>1. t2.pos = 0
        BY <1>4, <1>5
      <3>2. 0 <= Len(t2.buf)
        <4>1. Len(t2.buf) \in Nat
          BY <1>4, SenderFacts
        <4> QED
          BY <4>1
      <3> QED
        BY <1>7, <3>1, <3>2, SenderOps
    <2>2. t2.pc \notin Opening \cup {"flush", "shutdown", "closed", "write_all", "flush_buf"}
      BY <1>4 DEF Opening
    <2>3. c.tx # "raw"
      OBVIOUS
    <2> QED
      BY <2>1, <2>2, <2>3 DEF SenderBuffers
  <1>9. SenderCalls(c, t2, Idle)
    BY <1>2, <1>4 DEF SenderCalls, Opening
  <1>10. PICK b \in Int : b = Base(t) /\ b = Base(t2) /\ b = g - k
    <2>1. Base(t) = g - k
      BY <1>3 DEF Base
    <2>2. Base(t2) = (g + l) - (k + l)
      BY <1>4, <1>6 DEF Base
    <2> QED
      BY <2>1, <2>2
  <1>11. \A w \in Int : RunsFrom(t, o, w) =>
            /\ Idle.st = "flight" => IsRun(Idle.data, w)
            /\ w = Base(t2) + t2.pos + Moved(Idle)
            /\ IsRun(t2.buf, Base(t2)) /\ IsRun(t2.data, t2.given)
    <2> SUFFICES ASSUME NEW w \in Int, RunsFrom(t, o, w)
                 PROVE  /\ w = Base(t2) + t2.pos + Moved(Idle)
                        /\ IsRun(t2.buf, Base(t2)) /\ IsRun(t2.data, t2.given)
      BY SenderOps
    <2>1. w = b + t.pos + 0 /\ IsRun(t.buf, b) /\ IsRun(t.data, g)
      BY <1>1, <1>3, <1>10, SenderOps DEF RunsFrom
    <2>2. g = b + Len(t.buf)
      BY <1>3, <1>10
    <2>3. IsRun(t2.buf, b)
      <3>1. t2.buf = t.buf \o t.data
        BY DEF SenderIs
      <3> QED
        BY <1>6, <2>1, <2>2, <3>1, RunConcat
    <2> QED
      BY <1>4, <1>5, <1>10, <2>1, <2>3, SenderOps, RunNone
  <1>12. t2.pc \notin Broken
    BY <1>4 DEF Broken
  <1> QED
    BY <1>1, <1>4, <1>8, <1>9, <1>11, <1>12, SenderOps, SenderToWorks

(* A part of the buffer was sent, or the write was interrupted.            *)
LEMMA AdvanceTo ==
  ASSUME NEW c, NEW t, NEW o, SenderState(c, t, o), o.st = "done", t.pc \notin Broken,
         InBuf(c, t), t.pos + Moved(o) < Len(t.buf),
         NEW t2, SenderIs(t2, t.pc, t.call, t.data, t.buf, t.pos + Moved(o), t.given),
         NEW o2, o2 = IF c.tx = "compat" THEN Send(Slice(t.buf, t2.pos, Len(t.buf))) ELSE Idle
  PROVE  SenderTo(c, t, o, t2, o2)
  <1>1. t \in Senders /\ c \in Stacks /\ SenderOp(o)
    BY DEF SenderState
  <1>2. SenderBuffers(c, t, o) /\ SenderCalls(c, t, o)
    BY DEF SenderState
  <1>3. PICK k \in Nat, g \in Nat, p \in Nat, m \in Nat :
            k = Len(t.buf) /\ g = t.given /\ p = t.pos /\ m = Moved(o)
    <2>1. Moved(o) \in Nat
      BY <1>1 DEF Moved, SenderOp, Ops
    <2> QED
      BY <1>1, <2>1, SenderFacts
  <1>4. /\ t2 \in Senders /\ t2.pc = t.pc /\ t2.call = t.call /\ t2.data = t.data
        /\ t2.buf = t.buf /\ t2.pos = p + m /\ t2.given = g /\ p + m < k
    BY <1>3 DEF SenderIs
  <1>5. InBuf(c, t2) /\ Base(t2) = Base(t) /\ Base(t) \in Int
    BY <1>1, <1>3, <1>4, SenderFacts DEF InBuf, Base
  <1>6. /\ ToSend(c, t2) \in Bytes /\ Len(ToSend(c, t2)) \in Nat
        /\ ToSend(c, t2) = Slice(t.buf, t2.pos, Len(t.buf))
        /\ \A a \in Int : IsRun(t2.buf, a) => IsRun(ToSend(c, t2), a + t2.pos)
    <2>1. t2.pos <= Len(t2.buf)
      BY <1>3, <1>4
    <2> QED
      BY <1>4, <1>5, <2>1, ToSendFacts DEF ToSend
  <1>7. /\ SenderOp(o2) /\ Moved(o2) = 0 /\ (c.tx # "compat" => o2.st = "idle")
        /\ c.tx = "compat" => o2.st = "flight" /\ o2.data = ToSend(c, t2)
    BY <1>6, SenderOps
  <1>8. SenderBuffers(c, t2, o2)
    BY <1>2, <1>3, <1>4, <1>5, <1>6, <1>7 DEF SenderBuffers, Opening
  <1>9. t.buf # <<>>
    BY <1>3, <1>4, RunNone
  <1>10. SenderCalls(c, t2, o2)
    BY <1>2, <1>3, <1>4, <1>7, <1>9 DEF SenderCalls
  <1>11. \A w \in Int : RunsFrom(t, o, w) =>
            /\ o2.st = "flight" => IsRun(o2.data, w)
            /\ w = Base(t2) + t2.pos + Moved(o2)
            /\ IsRun(t2.buf, Base(t2)) /\ IsRun(t2.data, t2.given)
    <2> SUFFICES ASSUME NEW w \in Int, RunsFrom(t, o, w)
                 PROVE  /\ o2.st = "flight" => IsRun(o2.data, w)
                        /\ w = Base(t2) + t2.pos + Moved(o2)
                        /\ IsRun(t2.buf, Base(t2)) /\ IsRun(t2.data, t2.given)
      OBVIOUS
    <2>1. w = Base(t) + p + m /\ IsRun(t.buf, Base(t)) /\ IsRun(t.data, g)
      BY <1>3 DEF RunsFrom
    <2>2. w = Base(t2) + t2.pos + 0 /\ w = Base(t2) + t2.pos
      BY <1>4, <1>5, <2>1
    <2>3. IsRun(t2.buf, Base(t2)) /\ IsRun(t2.data, t2.given)
      BY <1>3, <1>4, <1>5, <2>1
    <2>4. IsRun(ToSend(c, t2), w)
      BY <1>5, <1>6, <2>2, <2>3
    <2> QED
      BY <1>7, <2>2, <2>3, <2>4
  <1> QED
    BY <1>1, <1>4, <1>7, <1>8, <1>10, <1>11, SenderToWorks

(* The whole buffer was sent.  What write_all lent to the socket counts as *)
(* given from now on; what flush_buf or a stored write sent did already.   *)
LEMMA AllSentFacts ==
  ASSUME NEW c, NEW t, NEW o, SenderState(c, t, o), t.pc \notin Broken,
         t.pos + Moved(o) = Len(t.buf)
  PROVE  \A w \in Int : RunsFrom(t, o, w) =>
            /\ w = IF t.pc = "write_all" THEN t.given + Len(t.buf) ELSE t.given
            /\ IsRun(t.data, t.given)
  <1>1. t \in Senders /\ SenderOp(o)
    BY DEF SenderState
  <1>2. PICK k \in Nat, g \in Nat, p \in Nat, m \in Nat :
            k = Len(t.buf) /\ g = t.given /\ p = t.pos /\ m = Moved(o)
    <2>1. Moved(o) \in Nat
      BY <1>1 DEF Moved, SenderOp, Ops
    <2> QED
      BY <1>1, <2>1, SenderFacts
  <1>3. Base(t) = g - (IF t.pc = "write_all" THEN 0 ELSE k)
    BY <1>2 DEF Base
  <1> SUFFICES ASSUME NEW w \in Int, RunsFrom(t, o, w)
               PROVE  /\ w = IF t.pc = "write_all" THEN g + k ELSE g
                      /\ IsRun(t.data, g)
    BY <1>2
  <1>4. w = Base(t) + p + m /\ IsRun(t.data, g)
    BY <1>2 DEF RunsFrom
  <1>5. p + m = k
    BY <1>2
  <1> QED
    BY <1>3, <1>4, <1>5

(* write_all returns once everything it was given is in the wire.          *)
LEMMA WriteAllSentTo ==
  ASSUME NEW c, NEW t, NEW o, SenderState(c, t, o), t.pc = "write_all",
         t.pos + Moved(o) = Len(t.buf),
         NEW t2, SenderIs(t2, "idle", "none", <<>>, <<>>, 0, t.given + Len(t.buf))
  PROVE  SenderTo(c, t, o, t2, Idle)
  <1>1. t \in Senders /\ c \in Stacks /\ t.pc \notin Broken
    BY DEF SenderState, Broken
  <1>2. SenderCalls(c, t, o)
    BY <1>1 DEF SenderState
  <1>3. PICK k \in Nat, g \in Nat : k = Len(t.buf) /\ g = t.given
    BY <1>1, SenderFacts
  <1>4. /\ t2 \in Senders /\ t2.pc = "idle" /\ t2.call = "none" /\ t2.data = <<>>
        /\ t2.buf = <<>> /\ t2.pos = 0 /\ t2.given = g + k /\ Len(t2.buf) = 0
    BY <1>3, RunNone DEF SenderIs
  <1>5. c.tx = "raw"
    BY <1>2 DEF SenderCalls
  <1>6. Len(ToSend(c, t2)) \in Nat
    BY <1>4, ToSendFacts
  <1>7. SenderBuffers(c, t2, Idle)
    BY <1>4, <1>6, SenderOps DEF SenderBuffers, Opening
  <1>8. SenderCalls(c, t2, Idle)
    BY <1>4, <1>5 DEF SenderCalls, Opening
  <1>9. Base(t2) = g + k
    BY <1>4 DEF Base
  <1>10. \A w \in Int : RunsFrom(t, o, w) => w = g + k
    BY <1>1, <1>3, AllSentFacts
  <1>11. \A w \in Int : RunsFrom(t, o, w) =>
            /\ Idle.st = "flight" => IsRun(Idle.data, w)
            /\ w = Base(t2) + t2.pos + Moved(Idle)
            /\ IsRun(t2.buf, Base(t2)) /\ IsRun(t2.data, t2.given)
    BY <1>4, <1>9, <1>10, SenderOps, RunNone
  <1>12. t2.pc \notin Broken
    BY <1>4 DEF Broken
  <1> QED
    BY <1>1, <1>4, <1>7, <1>8, <1>11, <1>12, SenderOps, SenderToWorks

(* flush_buf has emptied the buffer, and the call goes on.                 *)
LEMMA FlushSentTo ==
  ASSUME NEW c, NEW t, NEW o, SenderState(c, t, o), t.pc = "flush_buf",
         t.pos + Moved(o) = Len(t.buf),
         NEW t2, SenderIs(t2, IF t.call = "write_all" THEN "write" ELSE t.call,
                          t.call, t.data, <<>>, 0, t.given)
  PROVE  SenderTo(c, t, o, t2, Idle)
  <1>1. t \in Senders /\ c \in Stacks /\ t.pc \notin Broken
    BY DEF SenderState, Broken
  <1>2. SenderCalls(c, t, o)
    BY <1>1 DEF SenderState
  <1>3. PICK g \in Nat : g = t.given
    BY <1>1, SenderFacts
  <1>4. /\ t2 \in Senders /\ t2.pc = (IF t.call = "write_all" THEN "write" ELSE t.call)
        /\ t2.call = t.call /\ t2.data = t.data
        /\ t2.buf = <<>> /\ t2.pos = 0 /\ t2.given = g /\ Len(t2.buf) = 0
    BY <1>3, RunNone DEF SenderIs
  <1>5. /\ c.tx = "bufw" /\ t.call \in {"write", "write_all", "flush", "shutdown"}
        /\ t.call \in {"flush", "shutdown"} => t.data = <<>>
    BY <1>2 DEF SenderCalls
  <1>6. Len(ToSend(c, t2)) \in Nat
    BY <1>4, ToSendFacts
  <1>7. SenderBuffers(c, t2, Idle)
    BY <1>4, <1>5, <1>6, SenderOps DEF SenderBuffers, Opening
  <1>8. SenderCalls(c, t2, Idle)
    BY <1>4, <1>5 DEF SenderCalls, Opening
  <1>9. Base(t2) = g
    BY <1>4 DEF Base
  <1>10. \A w \in Int : RunsFrom(t, o, w) => w = g /\ IsRun(t.data, g)
    BY <1>1, <1>3, AllSentFacts
  <1>11. \A w \in Int : RunsFrom(t, o, w) =>
            /\ Idle.st = "flight" => IsRun(Idle.data, w)
            /\ w = Base(t2) + t2.pos + Moved(Idle)
            /\ IsRun(t2.buf, Base(t2)) /\ IsRun(t2.data, t2.given)
    BY <1>4, <1>9, <1>10, SenderOps, RunNone
  <1>12. t2.pc \notin Broken
    BY <1>4, <1>5 DEF Broken
  <1> QED
    BY <1>1, <1>4, <1>7, <1>8, <1>11, <1>12, SenderOps, SenderToWorks

(* A stored write of a StreamWrapper is done, or there was none: the next  *)
(* write is stored, or none is.                                            *)
LEMMA StoredTo ==
  ASSUME NEW c, NEW t, NEW o, SenderState(c, t, o), t.pc = "idle", c.tx = "compat",
         t.pos + Moved(o) = Len(t.buf),
         NEW q \in {"idle", "closed"}, NEW b \in Bytes, IsRun(b, t.given),
         b # <<>> => q = "idle",
         NEW t2, SenderIs(t2, q, "none", <<>>, b, 0, t.given + Len(b)),
         NEW o2, o2 = IF b = <<>> THEN Idle ELSE Send(b)
  PROVE  SenderTo(c, t, o, t2, o2)
  <1>1. t \in Senders /\ c \in Stacks /\ t.pc \notin Broken
    BY DEF SenderState, Broken
  <1>2. PICK g \in Nat, l \in Nat : g = t.given /\ l = Len(b) /\ (l = 0 <=> b = <<>>)
    <2>1. Len(b) \in Nat /\ (Len(b) = 0 <=> b = <<>>)
      BY EmptySeq DEF Bytes
    <2> QED
      BY <1>1, <2>1, SenderFacts
  <1>3. /\ t2 \in Senders /\ t2.pc = q /\ t2.call = "none" /\ t2.data = <<>>
        /\ t2.buf = b /\ t2.pos = 0 /\ t2.given = g + l /\ Len(t2.buf) = l
    BY <1>2 DEF SenderIs
  <1>4. /\ SenderOp(o2) /\ Moved(o2) = 0
        /\ IF b = <<>> THEN o2.st = "idle" ELSE o2.st = "flight" /\ o2.data = b
    BY SenderOps
  <1>5. InBuf(c, t2) /\ ToSend(c, t2) = b
    <2>1. InBuf(c, t2)
      BY DEF InBuf
    <2>2. Slice(b, 0, l) = b
      <3>1. 1..l = DOMAIN b /\ b = [i \in DOMAIN b |-> b[i]]
        BY <1>2 DEF Bytes
      <3>2. SubSeq(b, 1, l) = b
        BY <1>2, <3>1, SubSeqFull DEF Bytes
      <3> QED
        BY <3>2 DEF Slice
    <2> QED
      BY <1>2, <1>3, <2>1, <2>2 DEF ToSend
  <1>6. SenderBuffers(c, t2, o2)
    BY <1>2, <1>3, <1>4, <1>5 DEF SenderBuffers, Opening
  <1>7. SenderCalls(c, t2, o2)
    BY <1>2, <1>3, <1>4 DEF SenderCalls, Opening
  <1>8. Base(t2) = g
    BY <1>2, <1>3 DEF Base
  <1>9. \A w \in Int : RunsFrom(t, o, w) => w = g
    BY <1>1, <1>2, AllSentFacts
  <1>10. \A w \in Int : RunsFrom(t, o, w) =>
            /\ o2.st = "flight" => IsRun(o2.data, w)
            /\ w = Base(t2) + t2.pos + Moved(o2)
            /\ IsRun(t2.buf, Base(t2)) /\ IsRun(t2.data, t2.given)
    BY <1>2, <1>3, <1>4, <1>8, <1>9, RunNone
  <1>11. t2.pc \notin Broken
    BY <1>3 DEF Broken
  <1> QED
    BY <1>1, <1>3, <1>4, <1>6, <1>7, <1>10, <1>11, SenderToWorks

(* A write that went to the socket is done: the call returns, or goes on   *)
(* with what is left of its bytes.                                         *)
LEMMA WroteTo ==
  ASSUME NEW c, NEW t, NEW o, SenderState(c, t, o), t.pc = "write", o.st = "done",
         NEW q \in {"idle", "write"}, NEW call, NEW d,
         IF q = "idle" THEN call = "none" /\ d = <<>>
                       ELSE call = t.call /\ d = SubSeq(t.data, Moved(o) + 1, Len(t.data)),
         NEW t2, SenderIs(t2, q, call, d, t.buf, t.pos, t.given + Moved(o))
  PROVE  SenderTo(c, t, o, t2, Idle)
  <1>1. t \in Senders /\ c \in Stacks /\ SenderOp(o) /\ t.pc \notin Broken
    BY DEF SenderState, Broken
  <1>2. SenderBuffers(c, t, o) /\ SenderCalls(c, t, o)
    BY <1>1 DEF SenderState
  <1>3. c.tx # "compat" /\ t.call \in {"write", "write_all"}
    BY <1>2 DEF SenderCalls, Opening
  <1>4. ~InBuf(c, t)
    BY <1>3 DEF InBuf
  <1>5. t.buf = <<>> /\ t.pos = 0
    BY <1>2, <1>4 DEF SenderBuffers
  <1>6. PICK g \in Nat, m \in Nat, l \in Nat : g = t.given /\ m = Moved(o) /\ l = Len(t.data) /\ m <= l
    <2>1. Moved(o) \in Nat
      BY <1>1 DEF Moved, SenderOp, Ops
    <2>2. ToSend(c, t) = t.data
      BY <1>4 DEF ToSend
    <2>3. Moved(o) <= Len(t.data)
      BY <1>2, <2>2 DEF SenderBuffers
    <2> QED
      BY <1>1, <2>1, <2>3, SenderFacts
  <1>7. /\ t2 \in Senders /\ t2.pc = q /\ t2.call = call /\ t2.data = d
        /\ t2.buf = <<>> /\ t2.pos = 0 /\ t2.given = g + m /\ Len(t2.buf) = 0
    BY <1>5, <1>6, RunNone DEF SenderIs
  <1>8. Len(ToSend(c, t2)) \in Nat
    BY <1>7, ToSendFacts
  <1>9. SenderBuffers(c, t2, Idle)
    BY <1>7, <1>8, SenderOps DEF SenderBuffers, Opening
  <1>10. SenderCalls(c, t2, Idle)
    BY <1>3, <1>7 DEF SenderCalls, Opening
  <1>11. Base(t2) = g + m /\ Base(t) = g
    BY <1>5, <1>6, <1>7, RunNone DEF Base
  <1>12. \A w \in Int : RunsFrom(t, o, w) =>
            /\ Idle.st = "flight" => IsRun(Idle.data, w)
            /\ w = Base(t2) + t2.pos + Moved(Idle)
            /\ IsRun(t2.buf, Base(t2)) /\ IsRun(t2.data, t2.given)
    <2> SUFFICES ASSUME NEW w \in Int, RunsFrom(t, o, w)
                 PROVE  /\ w = g + m /\ IsRun(d, g + m)
      BY <1>7, <1>11, SenderOps, RunNone
    <2>1. w = g + 0 + m /\ IsRun(t.data, g)
      BY <1>1, <1>5, <1>6, <1>11 DEF RunsFrom
    <2>2. IsRun(SubSeq(t.data, m + 1, Len(t.data)), g + m)
      <3>1. t.data \in Bytes /\ m \in 0..Len(t.data) /\ g \in Int
        BY <1>1, <1>6, SenderFacts
      <3> QED
        BY <2>1, <3>1, RunTail
    <2>3. IsRun(d, g + m)
      <3>1. CASE q = "idle"
        BY <3>1, RunNone
      <3>2. CASE q # "idle"
        <4>1. d = SubSeq(t.data, m + 1, Len(t.data))
          BY <1>6, <3>2
        <4> QED
          BY <2>2, <4>1
      <3> QED
        BY <3>1, <3>2
    <2> QED
      BY <1>6, <2>1, <2>3
  <1>13. t2.pc \notin Broken
    BY <1>7 DEF Broken
  <1> QED
    BY <1>1, <1>7, <1>9, <1>10, <1>12, <1>13, SenderOps, SenderToWorks

(* The steps of a flush or a shutdown with nothing under way.              *)
LEMMA QuietTo ==
  ASSUME NEW c, NEW t, NEW o, SenderState(c, t, o), t.pc \in {"idle", "flush", "shutdown"},
         c.tx # "compat", NEW q \in {"idle", "shutdown", "closed"}, q # "idle" => t.buf = <<>>,
         NEW call, NEW t2, SenderIs(t2, q, call, <<>>, t.buf, t.pos, t.given)
  PROVE  SenderTo(c, t, o, t2, Idle) /\ o = Idle
  <1>1. t \in Senders /\ c \in Stacks
    BY DEF SenderState
  <1>2. /\ o = Idle /\ t.pos = 0 /\ t.data = <<>> /\ t.pc \notin Broken /\ SenderBuffers(c, t, o)
    BY QuietFacts
  <1>3. PICK g \in Nat, k \in Nat : g = t.given /\ k = Len(t.buf)
    BY <1>1, SenderFacts
  <1>4. /\ t2 \in Senders /\ t2.pc = q /\ t2.call = call /\ t2.data = <<>>
        /\ t2.buf = t.buf /\ t2.pos = 0 /\ t2.given = g
    BY <1>2, <1>3 DEF SenderIs
  <1>5. Len(ToSend(c, t2)) \in Nat
    BY <1>3, <1>4, ToSendFacts
  <1>6. SenderBuffers(c, t2, Idle)
    BY <1>2, <1>3, <1>4, <1>5, SenderOps DEF SenderBuffers, Opening
  <1>7. SenderCalls(c, t2, Idle)
    BY <1>4 DEF SenderCalls, Opening
  <1>8. Base(t2) = Base(t)
    BY <1>3, <1>4 DEF Base
  <1>9. \A w \in Int : RunsFrom(t, o, w) =>
            /\ Idle.st = "flight" => IsRun(Idle.data, w)
            /\ w = Base(t2) + t2.pos + Moved(Idle)
            /\ IsRun(t2.buf, Base(t2)) /\ IsRun(t2.data, t2.given)
    BY <1>2, <1>4, <1>8, SenderOps, RunNone DEF RunsFrom
  <1>10. t2.pc \notin Broken
    BY <1>4 DEF Broken
  <1> QED
    BY <1>1, <1>2, <1>4, <1>6, <1>7, <1>9, <1>10, SenderOps, SenderToWorks

(* How a step of the writer changes the operations.                        *)
LEMMA SenderStepBy ==
  ASSUME op \in [Ends -> Ops], NEW x, op' = [op EXCEPT !["tx"] = x],
         SenderTo(cfg, tx, op["tx"], tx', x)
  PROVE  SenderStep
  <1>1. op'["tx"] = x /\ op' = [op EXCEPT !["tx"] = op'["tx"]]
    BY DEF Ends
  <1> QED
    BY <1>1 DEF SenderStep

(* A step of the sender that leaves its operation as it is.                *)
LEMMA SenderStepSame ==
  ASSUME op \in [Ends -> Ops], op' = op, SenderTo(cfg, tx, op["tx"], tx', op["tx"])
  PROVE  SenderStep
  <1>1. op'["tx"] = op["tx"] /\ op' = [op EXCEPT !["tx"] = op'["tx"]]
    BY DEF Ends
  <1> QED
    BY <1>1 DEF SenderStep

(* The steps of connect.                                                   *)
LEMMA OpeningRight ==
  ASSUME op \in [Ends -> Ops], SenderState(cfg, tx, op["tx"]),
         Connect \/ ConnectDone \/ Writable \/ TakeError
  PROVE  SenderStep
  <1>1. op' = op
    BY DEF Connect, ConnectDone, Writable, TakeError, socketVars
  <1>2. PICK q \in Opening \cup {"idle"} : tx' = [tx EXCEPT !.pc = q]
    <2>1. CASE Connect
      BY <2>1 DEF Connect, Opening
    <2>2. CASE ConnectDone
      BY <2>2 DEF ConnectDone, Opening
    <2>3. CASE Writable
      BY <2>3 DEF Writable, Opening
    <2>4. CASE TakeError
      BY <2>4 DEF TakeError, Opening
    <2> QED
      BY <2>1, <2>2, <2>3, <2>4
  <1>3. tx.pc \in Opening
    BY DEF Connect, ConnectDone, Writable, TakeError, Opening
  <1>4. SenderTo(cfg, tx, op["tx"], tx', op["tx"])
    BY <1>2, <1>3, OpeningTo
  <1> QED
    BY <1>1, <1>4, SenderStepSame

(* The bytes of the next write.                                            *)
LEMMA NextBytesFacts ==
  ASSUME tx \in Senders, NEW n \in Nat \ {0}
  PROVE  /\ NextBytes(n) \in Bytes /\ Len(NextBytes(n)) = n /\ NextBytes(n) # <<>>
         /\ IsRun(NextBytes(n), tx.given)
  <1>1. tx.given \in Nat
    BY SenderFacts
  <1>2. PICK s : s = NextBytes(n)
    OBVIOUS
  <1>3. s = [i \in 1..n |-> tx.given + i]
    BY <1>2 DEF NextBytes
  <1>4. s \in Bytes /\ Len(s) = n /\ IsRun(s, tx.given)
    BY <1>1, <1>3, RunNew
  <1>5. s # <<>>
    BY <1>4, RunNone
  <1> QED
    BY <1>2, <1>4, <1>5

(* A new call of the sender takes the next bytes of the stream.            *)
LEMMA BeginWriteRight ==
  ASSUME op \in [Ends -> Ops], SenderState(cfg, tx, op["tx"]), BeginWrite
  PROVE  SenderStep
  <1>1. tx.pc = "idle" /\ cfg.tx # "compat" /\ op' = op
    BY DEF BeginWrite
  <1>2. PICK n \in 1..MaxWrite, call \in {"write", "write_all"} :
          LET t == [tx EXCEPT !.call = call, !.data = NextBytes(n)]
          IN  tx' = IF cfg.tx = "raw" /\ call = "write_all"
                    THEN [t EXCEPT !.pc = "write_all", !.buf = t.data, !.data = <<>>]
                    ELSE [t EXCEPT !.pc = "write"]
    BY Zenon DEF BeginWrite
  <1>3. tx \in Senders /\ n \in Nat \ {0}
    BY WriterAssumption DEF SenderState
  <1>4. PICK d \in Bytes : d = NextBytes(n) /\ d # <<>> /\ IsRun(d, tx.given)
    BY <1>3, NextBytesFacts
  <1>5. tx' = IF cfg.tx = "raw" /\ call = "write_all"
              THEN [tx EXCEPT !.call = call, !.pc = "write_all", !.buf = d, !.data = <<>>]
              ELSE [tx EXCEPT !.call = call, !.pc = "write", !.data = d]
    BY <1>2, <1>3, <1>4 DEF Senders
  <1>6. SenderTo(cfg, tx, op["tx"], tx', op["tx"])
    BY <1>1, <1>4, <1>5, BeginWriteTo, Zenon
  <1> QED
    BY <1>1, <1>6, SenderStepSame

(* A write on the socket of what the operation of the call is to send.     *)
LEMMA SocketWriteRight ==
  ASSUME op \in [Ends -> Ops], SenderState(cfg, tx, op["tx"]), op["tx"].st = "idle",
         tx.pc \in {"write_all", "flush_buf"} \/ (tx.pc = "write" /\ tx.buf = <<>>),
         SocketWrite(tx, ToSend(cfg, tx)) \/ Awaits(tx, ToSend(cfg, tx))
  PROVE  SenderStep
  <1>1. PICK x : /\ x = Send(ToSend(cfg, tx)) \/ x = [Idle EXCEPT !.st = "done", !.res = ECANCELED]
                 /\ tx' = tx /\ op' = [op EXCEPT !["tx"] = x]
    BY DEF SocketWrite, Awaits
  <1>2. SenderTo(cfg, tx, op["tx"], tx, x)
    BY <1>1, SubmitTo
  <1>3. SenderTo(cfg, tx, op["tx"], tx', x)
    BY <1>1, <1>2
  <1> QED
    BY <1>1, <1>3, SenderStepBy

(* One turn of write_all submits what is not written yet.                  *)
LEMMA WriteAllLoopRight ==
  ASSUME op \in [Ends -> Ops], SenderState(cfg, tx, op["tx"]), WriteAllLoop
  PROVE  SenderStep
  <1>1. /\ tx.pc \in {"write_all", "flush_buf"} /\ op["tx"].st = "idle"
        /\ SocketWrite(tx, Slice(tx.buf, tx.pos, Len(tx.buf)))
    BY DEF WriteAllLoop
  <1>2. ToSend(cfg, tx) = Slice(tx.buf, tx.pos, Len(tx.buf))
    BY <1>1 DEF ToSend, InBuf
  <1> QED
    BY <1>1, <1>2, SocketWriteRight

(* The fields of a writer whose call returns.                              *)
LEMMA ReturnsIs ==
  ASSUME NEW t \in Senders, NEW n \in Nat, NEW y,
         y = [t EXCEPT !.pc = "idle", !.call = "none", !.data = <<>>, !.given = @ + n]
  PROVE  SenderIs(y, "idle", "none", <<>>, t.buf, t.pos, t.given + n)
  <1>1. PICK g \in Nat : g = t.given
    BY SenderFacts
  <1>2. /\ y.pc = "idle" /\ y.call = "none" /\ y.data = <<>> /\ y.buf = t.buf
        /\ y.pos = t.pos /\ y.given = g + n
    BY <1>1 DEF Senders
  <1>3. y \in Senders
    <2>1. <<>> \in Bytes /\ g + n \in Nat
      BY RunNone
    <2>2. y = [t EXCEPT !.pc = "idle", !.call = "none", !.data = <<>>, !.given = g + n]
      BY <1>1
    <2> QED
      BY <2>1, <2>2 DEF Senders
  <1> QED
    BY <1>1, <1>2, <1>3 DEF SenderIs

(* One turn of write submits its buffer, or a buffered writer keeps it.    *)
LEMMA WriteLoopRight ==
  ASSUME op \in [Ends -> Ops], SenderState(cfg, tx, op["tx"]), WriteLoop
  PROVE  SenderStep
  <1>1. tx.pc = "write" /\ op["tx"].st = "idle"
    BY DEF WriteLoop
  <1>2. tx \in Senders /\ cfg \in Stacks /\ SenderOp(op["tx"])
    BY DEF SenderState
  <1>3. SenderBuffers(cfg, tx, op["tx"]) /\ SenderCalls(cfg, tx, op["tx"])
    BY <1>1 DEF SenderState, Broken
  <1>4. cfg.tx # "compat"
    BY <1>1, <1>3 DEF SenderCalls, Opening
  <1>5. ToSend(cfg, tx) = tx.data
    BY <1>1, <1>4 DEF ToSend, InBuf
  <1>6. CASE cfg.tx = "raw"
    <2>1. SocketWrite(tx, tx.data)
      BY <1>6 DEF WriteLoop
    <2>2. tx.buf = <<>>
      BY <1>1, <1>3, <1>6 DEF SenderBuffers
    <2> QED
      BY <1>1, <1>5, <2>1, <2>2, SocketWriteRight
  <1>7. CASE cfg.tx # "raw"
    <2>1. BufWriterWrite(tx)
      BY <1>7 DEF WriteLoop
    <2>2. cfg.tx = "bufw"
      BY <1>2, <1>4, <1>7 DEF Stacks
    <2>3. PICK k \in Nat, l \in Nat : k = Len(tx.buf) /\ l = Len(tx.data)
      BY <1>2, SenderFacts
    <2>4. BufCap \in Nat
      BY SocketAssumption
    <2>5. \/ /\ tx.buf # <<>>
             /\ tx' = [tx EXCEPT !.pc = "flush_buf", !.pos = 0] /\ UNCHANGED op
          \/ tx.buf = <<>> /\ Awaits(tx, tx.data)
          \/ Returns([tx EXCEPT !.buf = @ \o tx.data], Len(tx.data))
      <3>1. CASE Len(tx.buf) + Len(tx.data) > BufCap /\ tx.buf # <<>>
        BY <2>1, <3>1, Zenon DEF BufWriterWrite
      <3>2. CASE Len(tx.data) > BufCap /\ tx.buf = <<>>
        BY <2>1, <3>2, Zenon DEF BufWriterWrite
      <3>3. CASE /\ ~(Len(tx.buf) + Len(tx.data) > BufCap /\ tx.buf # <<>>)
                 /\ ~(Len(tx.data) > BufCap /\ tx.buf = <<>>)
        BY <2>1, <3>3, Zenon DEF BufWriterWrite
      <3> QED
        BY <3>1, <3>2, <3>3
    <2>6. CASE tx.buf # <<>> /\ tx' = [tx EXCEPT !.pc = "flush_buf", !.pos = 0] /\ UNCHANGED op
      <3>1. SenderIs(tx', "flush_buf", tx.call, tx.data, tx.buf, 0, tx.given)
        BY <1>2, <2>6 DEF SenderIs, Senders
      <3>2. SenderTo(cfg, tx, op["tx"], tx', Idle)
        BY <1>1, <2>2, <2>6, <3>1, FlushTo
      <3>3. op["tx"] = Idle
        BY <1>1, <1>2 DEF SenderOp
      <3> QED
        BY <2>6, <3>2, <3>3, SenderStepSame
    <2>7. CASE tx.buf = <<>> /\ Awaits(tx, tx.data)
      BY <1>1, <1>5, <2>7, SocketWriteRight
    <2>8. CASE Returns([tx EXCEPT !.buf = @ \o tx.data], Len(tx.data))
      <3>1. PICK b \in Bytes : b = tx.buf \o tx.data
        BY <1>2, SenderFacts, BytesConcat
      <3>2. tx' = [[tx EXCEPT !.buf = b] EXCEPT !.pc = "idle", !.call = "none", !.data = <<>>,
                                                !.given = @ + Len(tx.data)]
        BY <2>8, <3>1 DEF Returns
      <3>3. SenderIs(tx', "idle", "none", <<>>, b, tx.pos, tx.given + Len(tx.data))
        <4>1. PICK t : t = [tx EXCEPT !.buf = b]
          OBVIOUS
        <4>2. t \in Senders /\ t.buf = b /\ t.pos = tx.pos /\ t.given = tx.given
          BY <1>2, <4>1 DEF Senders
        <4>3. tx' = [t EXCEPT !.pc = "idle", !.call = "none", !.data = <<>>, !.given = @ + l]
          BY <2>3, <3>2, <4>1
        <4>4. SenderIs(tx', "idle", "none", <<>>, t.buf, t.pos, t.given + l)
          BY <4>2, <4>3, ReturnsIs, Zenon
        <4> QED
          BY <2>3, <4>2, <4>4
      <3>4. SenderTo(cfg, tx, op["tx"], tx', Idle)
        BY <1>1, <2>2, <3>1, <3>3, BufferedTo
      <3>5. op' = [op EXCEPT !["tx"] = Idle]
        BY <2>8 DEF Returns
      <3> QED
        BY <3>4, <3>5, SenderStepBy
    <2> QED
      BY <2>5, <2>6, <2>7, <2>8
  <1> QED
    BY <1>6, <1>7

(* What write_all makes of a result that is no error.                      *)
LEMMA WriteAllResultFacts ==
  ASSUME NEW t \in Senders, t.pc \notin Broken, NEW o \in Ops, o.st = "done"
  PROVE  /\ WriteAllResult(t, o.res).buf = t.buf
         /\ \/ WriteAllResult(t, o.res).pc = "failed" /\ WriteAllResult(t, o.res).pos = t.pos
            \/ /\ WriteAllResult(t, o.res).pc # "failed"
               /\ SenderIs(WriteAllResult(t, o.res), t.pc, t.call, t.data, t.buf,
                           t.pos + Moved(o), t.given)
  <1>1. PICK x : x = WriteAllResult(t, o.res)
    OBVIOUS
  <1>2. PICK res \in Int, m \in Nat : res = o.res /\ m = Moved(o) /\ m = (IF res > 0 THEN res ELSE 0)
    BY DEF Ops, Moved
  <1>3. t.pos \in Nat /\ t.pos + 0 = t.pos /\ t.pc # "failed"
    BY SenderFacts DEF Broken
  <1>4. CASE res >= 0
    <2>1. x = [t EXCEPT !.pos = @ + m]
      BY <1>1, <1>2, <1>4 DEF WriteAllResult, EINTR
    <2>2. SenderIs(x, t.pc, t.call, t.data, t.buf, t.pos + m, t.given)
      BY <1>2, <1>3, <2>1 DEF SenderIs, Senders
    <2>3. x.buf = t.buf /\ x.pc # "failed"
      BY <1>3, <2>2 DEF SenderIs
    <2> QED
      BY <1>1, <1>2, <2>2, <2>3
  <1>5. CASE res = EINTR
    <2>1. x = t /\ m = 0
      BY <1>1, <1>2, <1>5 DEF WriteAllResult, EINTR
    <2>2. SenderIs(x, t.pc, t.call, t.data, t.buf, t.pos + m, t.given)
      BY <1>3, <2>1 DEF SenderIs
    <2> QED
      BY <1>1, <1>2, <1>3, <2>1, <2>2
  <1>6. CASE res < 0 /\ res # EINTR
    <2>1. x = [t EXCEPT !.pc = "failed"]
      BY <1>1, <1>2, <1>6 DEF WriteAllResult, EINTR
    <2>2. x.pc = "failed" /\ x.pos = t.pos /\ x.buf = t.buf
      BY <2>1 DEF Senders
    <2> QED
      BY <1>1, <2>2
  <1> QED
    BY <1>4, <1>5, <1>6

(* A sender that fails never writes again.                                 *)
LEMMA FailsRight ==
  ASSUME op \in [Ends -> Ops], SenderState(cfg, tx, op["tx"]), Fails(tx)
  PROVE  SenderStep
  <1>1. tx' = [tx EXCEPT !.pc = "failed"] /\ op' = [op EXCEPT !["tx"] = Idle]
    BY DEF Fails
  <1>2. SenderTo(cfg, tx, op["tx"], tx', Idle)
    BY <1>1, BrokenTo DEF Broken
  <1> QED
    BY <1>1, <1>2, SenderStepBy

(* write_all goes on behind the bytes that were written.                   *)
LEMMA WriteAllDoneRight ==
  ASSUME op \in [Ends -> Ops], SenderState(cfg, tx, op["tx"]), WriteAllDone
  PROVE  SenderStep
  <1>1. tx.pc \in {"write_all", "flush_buf"} /\ op["tx"].st = "done"
    BY DEF WriteAllDone
  <1>2. tx \in Senders /\ tx.pc \notin Broken /\ op["tx"] \in Ops
    BY <1>1 DEF SenderState, SenderOp, Broken
  <1>3. SenderBuffers(cfg, tx, op["tx"]) /\ SenderCalls(cfg, tx, op["tx"])
    BY <1>1, <1>2 DEF SenderState
  <1>4. PICK t : t = WriteAllResult(tx, op["tx"].res)
    OBVIOUS
  <1>5. /\ t.buf = tx.buf
        /\ \/ t.pc = "failed"
           \/ /\ t.pc # "failed"
              /\ SenderIs(t, tx.pc, tx.call, tx.data, tx.buf, tx.pos + Moved(op["tx"]), tx.given)
    BY <1>1, <1>2, <1>4, WriteAllResultFacts
  <1>6. CASE t.pc = "failed"
    <2>1. Fails(tx)
      BY <1>1, <1>4, <1>6, Zenon DEF WriteAllDone
    <2> QED
      BY <2>1, FailsRight
  <1>7. CASE t.pc # "failed"
    <2>1. SenderIs(t, tx.pc, tx.call, tx.data, tx.buf, tx.pos + Moved(op["tx"]), tx.given)
      BY <1>5, <1>7
    <2>2. /\ t \in Senders /\ t.pc = tx.pc /\ t.call = tx.call /\ t.data = tx.data
          /\ t.buf = tx.buf /\ t.pos = tx.pos + Moved(op["tx"]) /\ t.given = tx.given
      BY <2>1 DEF SenderIs
    <2>3. InBuf(cfg, tx)
      BY <1>1 DEF InBuf
    <2>4. cfg.tx # "compat"
      BY <1>1, <1>3 DEF SenderCalls, Opening
    <2>5. CASE ~AllSent(t)
      <3>1. tx' = t /\ op' = [op EXCEPT !["tx"] = Idle]
        BY <1>1, <1>4, <1>7, <2>5, Zenon DEF WriteAllDone
      <3>2. tx.pos + Moved(op["tx"]) < Len(tx.buf)
        <4>1. PICK k \in Nat, p \in Nat, m \in Nat, s \in Nat :
                 /\ k = Len(tx.buf) /\ p = tx.pos /\ m = Moved(op["tx"])
                 /\ s = Len(ToSend(cfg, tx)) /\ s = k - p /\ m <= s
          <5>1. tx.pos <= Len(tx.buf) /\ Moved(op["tx"]) <= Len(ToSend(cfg, tx))
            BY <1>3 DEF SenderBuffers
          <5>2. Moved(op["tx"]) \in Nat
            BY <1>2 DEF Moved, Ops
          <5>3. Len(ToSend(cfg, tx)) = Len(tx.buf) - tx.pos /\ Len(ToSend(cfg, tx)) \in Nat
            BY <1>2, <2>3, <5>1, ToSendFacts
          <5> QED
            BY <1>2, <5>1, <5>2, <5>3, SenderFacts
        <4>2. p + m # k
          BY <2>2, <2>5, <4>1 DEF AllSent
        <4> QED
          BY <4>1, <4>2
      <3>3. SenderTo(cfg, tx, op["tx"], t, Idle)
        BY <1>1, <1>2, <2>1, <2>3, <2>4, <3>2, AdvanceTo
      <3>4. SenderTo(cfg, tx, op["tx"], tx', Idle)
        BY <3>1, <3>3
      <3> QED
        BY <3>1, <3>4, SenderStepBy
    <2>6. CASE AllSent(t)
      <3>1. tx.pos + Moved(op["tx"]) = Len(tx.buf)
        BY <2>2, <2>6 DEF AllSent
      <3>2. PICK x : x = [t EXCEPT !.buf = <<>>, !.pos = 0]
        OBVIOUS
      <3>3. /\ x \in Senders /\ x.pc = tx.pc /\ x.call = tx.call /\ x.data = tx.data
            /\ x.buf = <<>> /\ x.pos = 0 /\ x.given = tx.given
        BY <2>2, <3>2, RunNone DEF Senders
      <3>4. CASE tx.pc = "write_all"
        <4>1. Returns(x, Len(tx.buf))
          <5>1. t.pc = "write_all" /\ t.pc # "flush_buf"
            BY <2>2, <3>4
          <5>2. Returns(x, Len(t.buf))
            BY <1>1, <1>4, <1>7, <2>6, <3>2, <5>1, Zenon DEF WriteAllDone
          <5> QED
            BY <2>2, <5>2
        <4>2. Len(tx.buf) \in Nat
          BY <1>2, SenderFacts
        <4>3. SenderIs(tx', "idle", "none", <<>>, x.buf, x.pos, x.given + Len(tx.buf))
          BY <3>3, <4>1, <4>2, ReturnsIs, Zenon DEF Returns
        <4>4. SenderIs(tx', "idle", "none", <<>>, <<>>, 0, tx.given + Len(tx.buf))
          BY <3>3, <4>3
        <4>5. SenderTo(cfg, tx, op["tx"], tx', Idle)
          BY <3>1, <3>4, <4>4, WriteAllSentTo
        <4> QED
          BY <4>1, <4>5, SenderStepBy DEF Returns
      <3>5. CASE tx.pc = "flush_buf"
        <4>1. /\ tx' = [x EXCEPT !.pc = IF t.call = "write_all" THEN "write" ELSE t.call]
              /\ op' = [op EXCEPT !["tx"] = Idle]
          <5>1. t.pc = "flush_buf" /\ t.pc # "write_all"
            BY <2>2, <3>5
          <5> QED
            BY <1>1, <1>4, <1>7, <2>6, <3>2, <5>1, Zenon DEF WriteAllDone
        <4>2. PICK q : q = (IF tx.call = "write_all" THEN "write" ELSE tx.call)
          OBVIOUS
        <4>3. q \in {"write", "flush", "shutdown"}
          BY <1>3, <3>5, <4>2 DEF SenderCalls
        <4>4. tx' = [x EXCEPT !.pc = q]
          BY <2>2, <4>1, <4>2
        <4>5. SenderIs(tx', q, tx.call, tx.data, <<>>, 0, tx.given)
          BY <3>3, <4>3, <4>4 DEF SenderIs, Senders
        <4>6. SenderTo(cfg, tx, op["tx"], tx', Idle)
          BY <3>1, <3>5, <4>2, <4>5, FlushSentTo
        <4> QED
          BY <4>1, <4>6, SenderStepBy
      <3> QED
        BY <1>1, <3>4, <3>5
    <2> QED
      BY <2>5, <2>6
  <1> QED
    BY <1>6, <1>7

(* write returns the number of bytes that were written.                    *)
LEMMA WriteDoneRight ==
  ASSUME op \in [Ends -> Ops], SenderState(cfg, tx, op["tx"]), WriteDone
  PROVE  SenderStep
  <1>1. tx.pc = "write" /\ op["tx"].st = "done"
    BY DEF WriteDone
  <1>2. tx \in Senders /\ op["tx"] \in Ops
    BY DEF SenderState, SenderOp
  <1>3. PICK n \in Nat : n = Moved(op["tx"]) /\ n = (IF op["tx"].res >= 0 THEN op["tx"].res ELSE 0)
    BY <1>1, <1>2 DEF Moved, Ops
  <1>4. PICK rest : rest = SubSeq(tx.data, n + 1, Len(tx.data))
    OBVIOUS
  <1>5. \/ Fails(tx)
        \/ Returns(tx, n)
        \/ /\ tx' = [tx EXCEPT !.data = rest, !.given = @ + n]
           /\ op' = [op EXCEPT !["tx"] = Idle]
    BY <1>3, <1>4 DEF WriteDone
  <1>6. CASE Fails(tx)
    BY <1>6, FailsRight
  <1>7. CASE Returns(tx, n)
    <2>1. SenderIs(tx', "idle", "none", <<>>, tx.buf, tx.pos, tx.given + n)
      BY <1>2, <1>7, ReturnsIs, Zenon DEF Returns
    <2>2. SenderTo(cfg, tx, op["tx"], tx', Idle)
      BY <1>1, <1>3, <2>1, WroteTo
    <2> QED
      BY <1>7, <2>2, SenderStepBy DEF Returns
  <1>8. CASE /\ tx' = [tx EXCEPT !.data = rest, !.given = @ + n]
             /\ op' = [op EXCEPT !["tx"] = Idle]
    <2>1. rest \in Bytes
      BY <1>2, <1>4, SenderFacts DEF Bytes
    <2>2. tx.given + n \in Nat
      BY <1>2, SenderFacts
    <2>3. SenderIs(tx', "write", tx.call, rest, tx.buf, tx.pos, tx.given + n)
      BY <1>1, <1>2, <1>8, <2>1, <2>2 DEF SenderIs, Senders
    <2>4. SenderTo(cfg, tx, op["tx"], tx', Idle)
      BY <1>1, <1>3, <1>4, <2>3, WroteTo
    <2> QED
      BY <1>8, <2>4, SenderStepBy
  <1> QED
    BY <1>5, <1>6, <1>7, <1>8

(* flush and shutdown.                                                     *)
LEMMA BeginFlushRight ==
  ASSUME op \in [Ends -> Ops], SenderState(cfg, tx, op["tx"]), BeginFlush
  PROVE  SenderStep
  <1>1. /\ tx.pc = "idle" /\ cfg.tx = "bufw" /\ tx.buf # <<>> /\ op' = op
        /\ tx' = [tx EXCEPT !.call = "flush", !.pc = "flush_buf"]
    BY DEF BeginFlush, socketVars
  <1>2. tx \in Senders /\ op["tx"] = Idle /\ op["tx"].st = "idle" /\ tx.pos = 0
    BY <1>1, QuietFacts DEF SenderState
  <1>3. SenderIs(tx', "flush_buf", "flush", tx.data, tx.buf, 0, tx.given)
    BY <1>1, <1>2 DEF SenderIs, Senders
  <1>4. SenderTo(cfg, tx, op["tx"], tx', Idle)
    BY <1>1, <1>2, <1>3, FlushTo
  <1> QED
    BY <1>1, <1>2, <1>4, SenderStepSame

(* shutdown of a buffered writer flushes first.                            *)
LEMMA BeginShutdownRight ==
  ASSUME op \in [Ends -> Ops], SenderState(cfg, tx, op["tx"]), BeginShutdown
  PROVE  SenderStep
  <1>1. /\ tx.pc = "idle" /\ cfg.tx # "compat" /\ op' = op
        /\ tx' = [tx EXCEPT !.call = "shutdown",
                            !.pc = IF tx.buf = <<>> THEN "shutdown" ELSE "flush_buf"]
    BY DEF BeginShutdown, socketVars
  <1>2. /\ tx \in Senders /\ cfg \in Stacks /\ op["tx"] = Idle /\ op["tx"].st = "idle"
        /\ tx.pos = 0 /\ tx.data = <<>> /\ SenderBuffers(cfg, tx, op["tx"])
    BY <1>1, QuietFacts DEF SenderState
  <1>3. CASE tx.buf = <<>>
    <2>1. SenderIs(tx', "shutdown", "shutdown", <<>>, tx.buf, tx.pos, tx.given)
      BY <1>1, <1>2, <1>3 DEF SenderIs, Senders
    <2>2. SenderTo(cfg, tx, op["tx"], tx', Idle)
      BY <1>1, <1>3, <2>1, QuietTo
    <2> QED
      BY <1>1, <1>2, <2>2, SenderStepSame
  <1>4. CASE tx.buf # <<>>
    <2>1. cfg.tx = "bufw"
      BY <1>1, <1>2, <1>4 DEF SenderBuffers, Stacks
    <2>2. SenderIs(tx', "flush_buf", "shutdown", tx.data, tx.buf, 0, tx.given)
      BY <1>1, <1>2, <1>4 DEF SenderIs, Senders
    <2>3. SenderTo(cfg, tx, op["tx"], tx', Idle)
      BY <1>1, <1>2, <1>4, <2>1, <2>2, FlushTo
    <2> QED
      BY <1>1, <1>2, <2>3, SenderStepSame
  <1> QED
    BY <1>3, <1>4

(* A flush that wrote everything leaves the buffer empty.                  *)
LEMMA FlushedRight ==
  ASSUME op \in [Ends -> Ops], SenderState(cfg, tx, op["tx"]), Flushed
  PROVE  SenderStep
  <1>1. tx.pc = "flush" /\ Returns(tx, 0)
    BY DEF Flushed
  <1>2. tx \in Senders /\ cfg.tx # "compat"
    <2>1. SenderCalls(cfg, tx, op["tx"])
      BY <1>1, QuietFacts
    <2> QED
      BY <1>1, <2>1 DEF SenderState, SenderCalls, Opening
  <1>3. SenderIs(tx', "idle", "none", <<>>, tx.buf, tx.pos, tx.given)
    <2>1. SenderIs(tx', "idle", "none", <<>>, tx.buf, tx.pos, tx.given + 0)
      BY <1>1, <1>2, ReturnsIs, Zenon DEF Returns
    <2>2. tx.given + 0 = tx.given
      BY <1>2, SenderFacts
    <2> QED
      BY <2>1, <2>2
  <1>4. SenderTo(cfg, tx, op["tx"], tx', Idle)
    BY <1>1, <1>2, <1>3, QuietTo
  <1> QED
    BY <1>1, <1>4, SenderStepBy DEF Returns

(* A sender shuts its direction down with no byte left in a buffer.        *)
LEMMA ShutdownRight ==
  ASSUME op \in [Ends -> Ops], SenderState(cfg, tx, op["tx"]), Shutdown
  PROVE  SenderStep
  <1>1. tx.pc = "shutdown" /\ op' = op /\ tx' = [tx EXCEPT !.pc = "closed", !.call = "none"]
    BY DEF Shutdown
  <1>2. /\ tx \in Senders /\ cfg.tx # "compat" /\ tx.buf = <<>> /\ tx.data = <<>>
    <2>1. SenderCalls(cfg, tx, op["tx"]) /\ SenderBuffers(cfg, tx, op["tx"]) /\ tx.data = <<>>
      BY <1>1, QuietFacts
    <2> QED
      BY <1>1, <2>1 DEF SenderState, SenderCalls, SenderBuffers, Opening
  <1>3. SenderIs(tx', "closed", "none", <<>>, tx.buf, tx.pos, tx.given)
    BY <1>1, <1>2 DEF SenderIs, Senders
  <1>4. SenderTo(cfg, tx, op["tx"], tx', Idle) /\ op["tx"] = Idle
    BY <1>1, <1>2, <1>3, QuietTo
  <1> QED
    BY <1>1, <1>4, SenderStepSame

(* The polls of a StreamWrapper.                                           *)
LEMMA WriteFutReadyFacts ==
  ASSUME SenderState(cfg, tx, op["tx"]), tx.pc = "idle", cfg.tx = "compat", WriteFutReady
  PROVE  tx.pos + Moved(op["tx"]) = Len(tx.buf)
  <1>1. tx \in Senders /\ SenderOp(op["tx"]) /\ tx.pc \notin Broken
    BY DEF SenderState, Broken
  <1>2. SenderBuffers(cfg, tx, op["tx"]) /\ SenderCalls(cfg, tx, op["tx"])
    BY <1>1 DEF SenderState
  <1>3. CASE tx.buf = <<>>
    <2>1. op["tx"] = Idle
      BY <1>1, <1>2, <1>3 DEF SenderCalls, SenderOp
    <2>2. tx.pos <= 0 /\ tx.pos \in Nat
      BY <1>1, <1>2, <1>3, SenderFacts, RunNone DEF SenderBuffers
    <2>3. Moved(op["tx"]) = 0 /\ Len(tx.buf) = 0
      BY <1>3, <2>1, SenderOps, RunNone
    <2> QED
      BY <2>2, <2>3
  <1>4. CASE tx.buf # <<>>
    <2>1. PICK t : t = WriteAllResult(tx, op["tx"].res)
      OBVIOUS
    <2>2. op["tx"].st = "done" /\ AllSent(t)
      BY <1>4, <2>1 DEF WriteFutReady, Armed, Polled
    <2>3. /\ t.buf = tx.buf
          /\ \/ t.pc = "failed" /\ t.pos = tx.pos
             \/ /\ t.pc # "failed"
                /\ SenderIs(t, tx.pc, tx.call, tx.data, tx.buf,
                            tx.pos + Moved(op["tx"]), tx.given)
      BY <1>1, <2>1, <2>2, WriteAllResultFacts DEF SenderOp
    <2>4. tx.pos < Len(tx.buf) /\ tx.pos \in Nat /\ Len(tx.buf) \in Nat
      BY <1>1, <1>2, <1>4, SenderFacts DEF SenderCalls
    <2>5. t.pos = Len(tx.buf)
      BY <2>2, <2>3 DEF AllSent
    <2>6. t.pos # tx.pos
      BY <2>4, <2>5
    <2> QED
      BY <2>3, <2>5, <2>6 DEF SenderIs
  <1> QED
    BY <1>3, <1>4

(* poll_write of the compatible stream copies into its buffer.             *)
LEMMA PollWriteRight ==
  ASSUME op \in [Ends -> Ops], SenderState(cfg, tx, op["tx"]), PollWrite
  PROVE  SenderStep
  <1>1. tx.pc = "idle" /\ cfg.tx = "compat" /\ WriteFutReady
    BY DEF PollWrite
  <1>2. /\ tx \in Senders /\ tx.pos + Moved(op["tx"]) = Len(tx.buf)
        /\ tx.data = <<>> /\ tx.call = "none"
    BY <1>1, WriteFutReadyFacts, QuietFacts DEF SenderState, SenderCalls
  <1>3. PICK n \in 1..MaxWrite :
          LET len == IF n < BufCap THEN n ELSE BufCap
          IN  Awaits([tx EXCEPT !.buf = NextBytes(len), !.pos = 0, !.given = @ + len],
                     NextBytes(len))
    BY Zenon DEF PollWrite
  <1>4. PICK len \in Nat \ {0} : len = IF n < BufCap THEN n ELSE BufCap
    BY WriterAssumption, SocketAssumption
  <1>5. PICK b \in Bytes : b = NextBytes(len) /\ Len(b) = len /\ b # <<>> /\ IsRun(b, tx.given)
    BY <1>2, NextBytesFacts
  <1>6. Awaits([tx EXCEPT !.buf = b, !.pos = 0, !.given = @ + len], b)
    BY <1>3, <1>4, <1>5
  <1>7. tx' = [tx EXCEPT !.buf = b, !.pos = 0, !.given = @ + len] /\ op' = [op EXCEPT !["tx"] = Send(b)]
    BY <1>6 DEF Awaits
  <1>8. SenderIs(tx', "idle", "none", <<>>, b, 0, tx.given + len)
    <2>1. PICK g \in Nat, k \in Nat : g = tx.given /\ k = g + len
      BY <1>2, SenderFacts
    <2>2. tx' = [tx EXCEPT !.buf = b, !.pos = 0, !.given = k]
      BY <1>7, <2>1
    <2> QED
      BY <1>1, <1>2, <2>1, <2>2 DEF SenderIs, Senders
  <1>9. SenderTo(cfg, tx, op["tx"], tx', Send(b))
    BY <1>1, <1>2, <1>5, <1>8, StoredTo
  <1> QED
    BY <1>7, <1>9, SenderStepBy

(* A poll that finds a write in flight changes nothing.                    *)
LEMMA PollPendingRight ==
  ASSUME op \in [Ends -> Ops], SenderState(cfg, tx, op["tx"]), PollPending
  PROVE  SenderStep
  <1>1. /\ tx.pc = "idle" /\ cfg.tx = "compat" /\ tx.buf # <<>> /\ op["tx"].st = "done"
        /\ tx.pc \notin Broken
    BY DEF PollPending, Armed, Broken
  <1>2. tx \in Senders /\ op["tx"] \in Ops /\ SenderBuffers(cfg, tx, op["tx"]) /\ InBuf(cfg, tx)
    BY <1>1, QuietFacts DEF SenderState, SenderOp, InBuf
  <1>3. PICK t : t = WriteAllResult(tx, op["tx"].res)
    OBVIOUS
  <1>4. t = Polled
    BY <1>1, <1>3 DEF Polled, Armed
  <1>5. /\ t.buf = tx.buf
        /\ \/ t.pc = "failed"
           \/ /\ t.pc # "failed"
              /\ SenderIs(t, tx.pc, tx.call, tx.data, tx.buf, tx.pos + Moved(op["tx"]), tx.given)
    BY <1>1, <1>2, <1>3, WriteAllResultFacts
  <1>6. /\ ~AllSent(t)
        /\ IF t.pc = "failed" THEN Fails(tx) ELSE Awaits(t, Slice(tx.buf, t.pos, Len(tx.buf)))
    BY <1>4 DEF PollPending
  <1>7. CASE t.pc = "failed"
    BY <1>6, <1>7, FailsRight
  <1>8. CASE t.pc # "failed"
    <2>1. SenderIs(t, tx.pc, tx.call, tx.data, tx.buf, tx.pos + Moved(op["tx"]), tx.given)
      BY <1>5, <1>8
    <2>2. t.pos = tx.pos + Moved(op["tx"]) /\ t.buf = tx.buf
      BY <2>1 DEF SenderIs
    <2>3. tx' = t /\ op' = [op EXCEPT !["tx"] = Send(Slice(tx.buf, t.pos, Len(tx.buf)))]
      BY <1>6, <1>8 DEF Awaits
    <2>4. tx.pos + Moved(op["tx"]) < Len(tx.buf)
      <3>1. PICK k \in Nat, p \in Nat, m \in Nat, s \in Nat :
               /\ k = Len(tx.buf) /\ p = tx.pos /\ m = Moved(op["tx"])
               /\ s = Len(ToSend(cfg, tx)) /\ s = k - p /\ m <= s
        <4>1. tx.pos <= Len(tx.buf) /\ Moved(op["tx"]) <= Len(ToSend(cfg, tx))
          BY <1>2 DEF SenderBuffers
        <4>2. Moved(op["tx"]) \in Nat
          BY <1>2 DEF Moved, Ops
        <4>3. Len(ToSend(cfg, tx)) = Len(tx.buf) - tx.pos /\ Len(ToSend(cfg, tx)) \in Nat
          BY <1>2, <4>1, ToSendFacts
        <4> QED
          BY <1>2, <4>1, <4>2, <4>3, SenderFacts
      <3>2. p + m # k
        BY <1>6, <2>2, <3>1 DEF AllSent
      <3> QED
        BY <3>1, <3>2
    <2>5. PICK x : x = Send(Slice(tx.buf, t.pos, Len(tx.buf)))
      OBVIOUS
    <2>6. x = IF cfg.tx = "compat" THEN Send(Slice(tx.buf, t.pos, Len(tx.buf))) ELSE Idle
      BY <1>1, <2>5
    <2>7. SenderTo(cfg, tx, op["tx"], t, x)
      BY <1>1, <1>2, <2>1, <2>4, <2>6, AdvanceTo
    <2>8. SenderTo(cfg, tx, op["tx"], tx', x) /\ op' = [op EXCEPT !["tx"] = x]
      BY <2>3, <2>5, <2>7
    <2> QED
      BY <2>8, SenderStepBy
  <1> QED
    BY <1>7, <1>8

(* poll_flush submits the bytes poll_write kept.                           *)
LEMMA PollFlushRight ==
  ASSUME op \in [Ends -> Ops], SenderState(cfg, tx, op["tx"]), PollFlush
  PROVE  SenderStep
  <1>1. /\ tx.pc = "idle" /\ cfg.tx = "compat" /\ WriteFutReady
        /\ Returns([tx EXCEPT !.buf = <<>>, !.pos = 0], 0)
    BY DEF PollFlush
  <1>2. tx \in Senders /\ tx.pos + Moved(op["tx"]) = Len(tx.buf) /\ tx.given \in Nat
    BY <1>1, WriteFutReadyFacts, SenderFacts DEF SenderState
  <1>3. PICK t : t = [tx EXCEPT !.buf = <<>>, !.pos = 0]
    OBVIOUS
  <1>4. t \in Senders /\ t.buf = <<>> /\ t.pos = 0 /\ t.given = tx.given
    BY <1>2, <1>3, RunNone DEF Senders
  <1>5. SenderIs(tx', "idle", "none", <<>>, <<>>, 0, tx.given + 0)
    <2>1. Returns(t, 0)
      BY <1>1, <1>3
    <2>2. SenderIs(tx', "idle", "none", <<>>, t.buf, t.pos, t.given + 0)
      <3>1. tx' = [t EXCEPT !.pc = "idle", !.call = "none", !.data = <<>>, !.given = @ + 0]
        BY <2>1 DEF Returns
      <3>2. 0 \in Nat
        OBVIOUS
      <3> QED
        BY <1>4, <3>1, <3>2, ReturnsIs, Zenon
    <2> QED
      BY <1>4, <2>2
  <1>6. SenderTo(cfg, tx, op["tx"], tx', Idle)
    <2>1. SenderIs(tx', "idle", "none", <<>>, <<>>, 0, tx.given + Len(<<>>))
      BY <1>5, RunNone
    <2> QED
      BY <1>1, <1>2, <2>1, RunNone, StoredTo
  <1> QED
    BY <1>1, <1>6, SenderStepBy DEF Returns

(* poll_shutdown waits for the bytes poll_write kept.                      *)
LEMMA PollShutdownRight ==
  ASSUME op \in [Ends -> Ops], SenderState(cfg, tx, op["tx"]), PollShutdown
  PROVE  SenderStep
  <1>1. /\ tx.pc = "idle" /\ cfg.tx = "compat" /\ WriteFutReady
        /\ tx' = [tx EXCEPT !.pc = "closed", !.buf = <<>>, !.pos = 0]
        /\ op' = [op EXCEPT !["tx"] = Idle]
    BY DEF PollShutdown
  <1>2. /\ tx \in Senders /\ tx.pos + Moved(op["tx"]) = Len(tx.buf) /\ tx.given \in Nat
        /\ tx.data = <<>> /\ tx.call = "none"
    BY <1>1, WriteFutReadyFacts, SenderFacts, QuietFacts DEF SenderState, SenderCalls
  <1>3. SenderIs(tx', "closed", "none", <<>>, <<>>, 0, tx.given + Len(<<>>))
    <2>1. tx.given + Len(<<>>) = tx.given
      BY <1>2, RunNone
    <2> QED
      BY <1>1, <1>2, <2>1, RunNone DEF SenderIs, Senders
  <1>4. SenderTo(cfg, tx, op["tx"], tx', Idle)
    BY <1>1, <1>2, <1>3, RunNone, StoredTo
  <1> QED
    BY <1>1, <1>4, SenderStepBy

(* Dropping a write half leaves its operation to the driver.               *)
LEMMA DropWriteHalfRight ==
  ASSUME op \in [Ends -> Ops], SenderState(cfg, tx, op["tx"]), DropWriteHalf
  PROVE  SenderStep
  <1>1. tx' = [tx EXCEPT !.pc = "dropped"] /\ op' = op
    BY DEF DropWriteHalf
  <1>2. SenderTo(cfg, tx, op["tx"], tx', op["tx"])
    BY <1>1, BrokenTo DEF Broken
  <1> QED
    BY <1>1, <1>2, SenderStepSame

(* Every step of the writer.  It changes the wire only by shutting it down *)
(* as it closes or is dropped, which it does once.                         *)
LEMMA WriterRight ==
  ASSUME op \in [Ends -> Ops], SenderState(cfg, tx, op["tx"]), WriterTask \/ WriterApp
  PROVE  /\ SenderStep /\ cfg' = cfg /\ tx.pc \notin {"closed", "dropped"}
         /\ \/ wire' = wire
            \/ shutdown_stream /\ tx'.pc \in {"closed", "dropped"}
  <1>1. tx \in Senders
    BY DEF SenderState
  <1>2. CASE Connect \/ ConnectDone \/ Writable \/ TakeError
    <2>1. SenderStep
      BY <1>2, OpeningRight
    <2>2. /\ cfg' = cfg /\ wire' = wire /\ tx.pc \in Opening
      BY <1>2 DEF Connect, ConnectDone, Writable, TakeError, socketVars, Opening
    <2> QED
      BY <2>1, <2>2 DEF Opening
  <1>3. CASE BeginWrite
    BY <1>3, BeginWriteRight, Zenon DEF BeginWrite
  <1>4. CASE WriteAllLoop
    BY <1>4, WriteAllLoopRight DEF WriteAllLoop
  <1>5. CASE WriteLoop
    BY <1>5, WriteLoopRight DEF WriteLoop
  <1>6. CASE WriteAllDone
    <2>1. SenderStep
      BY <1>6, WriteAllDoneRight
    <2>2. tx.pc \in {"write_all", "flush_buf"} /\ cfg' = cfg /\ wire' = wire
      BY <1>6 DEF WriteAllDone
    <2> QED
      BY <2>1, <2>2
  <1>7. CASE WriteDone
    <2>1. SenderStep
      BY <1>7, WriteDoneRight
    <2>2. tx.pc = "write" /\ cfg' = cfg /\ wire' = wire
      BY <1>7 DEF WriteDone
    <2> QED
      BY <2>1, <2>2
  <1>8. CASE BeginFlush
    BY <1>8, BeginFlushRight DEF BeginFlush, socketVars
  <1>9. CASE Flushed
    BY <1>9, FlushedRight DEF Flushed
  <1>10. CASE BeginShutdown
    BY <1>10, BeginShutdownRight DEF BeginShutdown, socketVars
  <1>11. CASE Shutdown
    <2>1. SenderStep
      BY <1>11, ShutdownRight
    <2>2. tx.pc = "shutdown" /\ tx' = [tx EXCEPT !.pc = "closed", !.call = "none"] /\ shutdown_stream /\ cfg' = cfg
      BY <1>11 DEF Shutdown
    <2>3. tx'.pc = "closed"
      BY <1>1, <2>2 DEF Senders
    <2> QED
      BY <2>1, <2>2, <2>3
  <1>12. CASE PollWrite
    BY <1>12, PollWriteRight, Zenon DEF PollWrite
  <1>13. CASE PollPending
    BY <1>13, PollPendingRight DEF PollPending
  <1>14. CASE PollFlush
    BY <1>14, PollFlushRight DEF PollFlush
  <1>15. CASE PollShutdown
    <2>1. SenderStep
      BY <1>15, PollShutdownRight
    <2>2. tx.pc = "idle" /\ tx' = [tx EXCEPT !.pc = "closed", !.buf = <<>>, !.pos = 0] /\ shutdown_stream /\ cfg' = cfg
      BY <1>15 DEF PollShutdown
    <2>3. tx'.pc = "closed"
      BY <1>1, <2>2 DEF Senders
    <2> QED
      BY <2>1, <2>2, <2>3
  <1>16. CASE DropWriteHalf
    <2>1. SenderStep
      BY <1>16, DropWriteHalfRight
    <2>2. /\ tx.pc \notin {"closed", "dropped"} /\ tx' = [tx EXCEPT !.pc = "dropped"] /\ cfg' = cfg
          /\ shutdown_stream \/ (wire' = wire /\ peer' = peer)
      BY <1>16 DEF DropWriteHalf
    <2>3. tx'.pc = "dropped"
      BY <1>1, <2>2 DEF Senders
    <2> QED
      BY <2>1, <2>2, <2>3
  <1> QED
    BY <1>2, <1>3, <1>4, <1>5, <1>6, <1>7, <1>8, <1>9, <1>10, <1>11, <1>12, <1>13, <1>14, <1>15,
       <1>16 DEF WriterTask, WriterApp
-----------------------------------------------------------------------------
(* The relay, and the bytes that are between the two sides.                *)

(* The states of a relay between two connections.                          *)
Hops == [pc : {"none", "read", "write", "end", "failed"}, buf : Bytes, pos : Nat]

(* The relay h with its operations i and o, and the wire x it writes to.   *)
HopRight(c, h, i, o, x) ==
  /\ c \in Stacks /\ h \in Hops /\ ReceiverOp(i) /\ SenderOp(o)
  /\ h.pc = "none" <=> c.hop = "none"
  /\ c.hop = "none" => x.q = <<>> /\ ~x.shut
  /\ h.pc # "read" => i.st = "idle"
  /\ h.pc # "write" => o.st = "idle"
  /\ h.pc \in {"none", "read", "end"} => h.buf = <<>> /\ h.pos = 0
  /\ h.pos + Moved(o) <= Len(h.buf)
  /\ o.st = "flight" => o.data = Slice(h.buf, h.pos, Len(h.buf))
  /\ x.shut => h.pc \in {"end", "failed"}

(* What of its buffer is not on the wire, and the bytes that follow one    *)
(* another from e to w: the second wire, the relay, the first wire.        *)
HopLeft(h, o) == Len(h.buf) - h.pos - Moved(o)
MidRuns(q2, h, i, o, q1, e, w) ==
  /\ IsRun(q2, e)
  /\ IsRun(h.buf, e + Len(q2) + HopLeft(h, o) - Len(h.buf))
  /\ IsRun(i.data, e + Len(q2) + HopLeft(h, o))
  /\ IsRun(q1, e + Len(q2) + HopLeft(h, o) + Len(i.data))
  /\ w = e + Len(q2) + HopLeft(h, o) + Len(i.data) + Len(q1)

(* Nothing more comes out of a wire.                                       *)
Drained(x) == x.shut /\ x.q = <<>>

-----------------------------------------------------------------------------
(* What the kernel makes of an operation: its fields when it is done.      *)
DoneWith(o, n, b) == [o EXCEPT !.st = "done", !.res = n, !.data = b]

(* An operation that is done is an operation still.                        *)
LEMMA DoneOp ==
  ASSUME NEW o \in Ops, NEW n \in Int, NEW b \in Bytes
  PROVE  /\ DoneWith(o, n, b) \in Ops /\ DoneWith(o, n, b).st = "done"
         /\ DoneWith(o, n, b).data = b /\ DoneWith(o, n, b).res = n
         /\ DoneWith(o, n, b).room = o.room
  BY DEF Ops, DoneWith

(* A write that is done keeps no bytes.                                    *)
LEMMA DoneEmpty ==
  ASSUME NEW o \in Ops, NEW n \in Int
  PROVE  /\ DoneWith(o, n, <<>>) \in Ops /\ DoneWith(o, n, <<>>).st = "done"
         /\ DoneWith(o, n, <<>>).data = <<>> /\ DoneWith(o, n, <<>>).res = n
  <1>1. PICK b \in Bytes : b = <<>>
    BY RunNone
  <1>2. /\ DoneWith(o, n, b) \in Ops /\ DoneWith(o, n, b).st = "done"
        /\ DoneWith(o, n, b).data = b /\ DoneWith(o, n, b).res = n
    BY DoneOp
  <1> QED
    BY <1>1, <1>2, Zenon

(* A write moves n of its bytes.                                           *)
LEMMA SentRight ==
  ASSUME NEW c, NEW t, NEW o, SenderState(c, t, o), o.st = "flight",
         NEW n \in 1..Len(o.data), NEW o2, o2 = DoneWith(o, n, <<>>)
  PROVE  /\ SenderState(c, t, o2)
         /\ \A w \in Int : RunsFrom(t, o, w) => IsRun(o.data, w) /\ RunsFrom(t, o2, w + n)
  <1>1. t \in Senders /\ c \in Stacks /\ SenderOp(o) /\ o \in Ops /\ o.data \in Bytes /\ n \in Nat
    BY DEF SenderState, SenderOp, Ops
  <1>2. /\ o2 \in Ops /\ o2.st = "done" /\ o2.data = <<>> /\ Moved(o2) = n /\ Moved(o) = 0
    <2>1. n \in Int
      BY <1>1
    <2>2. /\ o2 \in Ops /\ o2.st = "done" /\ o2.data = <<>> /\ o2.res = n
      BY <1>1, <2>1, DoneEmpty, Zenon
    <2> QED
      BY <1>1, <2>2 DEF Moved
  <1>3. SenderOp(o2)
    BY <1>2 DEF SenderOp
  <1>4. t.pc # "failed"
    BY DEF SenderState
  <1>5. ASSUME t.pc \notin Broken
        PROVE  SenderBuffers(c, t, o2) /\ SenderCalls(c, t, o2)
    <2>1. SenderBuffers(c, t, o) /\ SenderCalls(c, t, o)
      BY <1>5 DEF SenderState
    <2>2. o.data = ToSend(c, t)
      BY <2>1 DEF SenderBuffers
    <2>3. n <= Len(ToSend(c, t))
      BY <2>2
    <2>4. SenderBuffers(c, t, o2)
      BY <1>2, <2>1, <2>3 DEF SenderBuffers
    <2>5. SenderCalls(c, t, o2)
      BY <1>2, <2>1 DEF SenderCalls
    <2> QED
      BY <2>4, <2>5
  <1>6. SenderState(c, t, o2)
    BY <1>1, <1>3, <1>4, <1>5 DEF SenderState
  <1>7. ASSUME NEW w \in Int, RunsFrom(t, o, w)
        PROVE  IsRun(o.data, w) /\ RunsFrom(t, o2, w + n)
    <2>1. IsRun(o.data, w)
      BY <1>7 DEF RunsFrom
    <2>2. ASSUME t.pc \notin Broken
          PROVE  /\ w + n = Base(t) + t.pos + Moved(o2)
                 /\ IsRun(t.buf, Base(t)) /\ IsRun(t.data, t.given)
      <3>1. PICK b \in Int, p \in Nat : b = Base(t) /\ p = t.pos
        BY <1>1, SenderFacts
      <3>2. w = b + p + 0 /\ IsRun(t.buf, Base(t)) /\ IsRun(t.data, t.given)
        BY <1>2, <1>7, <2>2, <3>1 DEF RunsFrom
      <3>3. w + n = b + p + n
        BY <1>1, <3>1, <3>2
      <3> QED
        BY <1>2, <3>1, <3>2, <3>3
    <2> QED
      BY <1>2, <2>1, <2>2 DEF RunsFrom
  <1> QED
    BY <1>6, <1>7

(* A write fails.                                                          *)
LEMMA SendFailRight ==
  ASSUME NEW c, NEW t, NEW o, SenderState(c, t, o), o.st = "flight",
         NEW n \in Int, n <= 0, NEW o2, o2 = DoneWith(o, n, <<>>)
  PROVE  SenderTo(c, t, o, t, o2)
  <1>1. t \in Senders /\ c \in Stacks /\ SenderOp(o) /\ o \in Ops
    BY DEF SenderState, SenderOp
  <1>2. /\ o2 \in Ops /\ o2.st = "done" /\ o2.data = <<>> /\ Moved(o2) = 0 /\ Moved(o) = 0
    <2>1. n \in Int
      BY <1>1
    <2>2. /\ o2 \in Ops /\ o2.st = "done" /\ o2.data = <<>> /\ o2.res = n
      BY <1>1, <2>1, DoneEmpty, Zenon
    <2> QED
      BY <1>1, <2>2 DEF Moved
  <1>3. SenderOp(o2)
    BY <1>2 DEF SenderOp
  <1>4. t.pc # "failed"
    BY DEF SenderState
  <1>5. ASSUME t.pc \notin Broken
        PROVE  SenderBuffers(c, t, o2) /\ SenderCalls(c, t, o2)
    <2>1. SenderBuffers(c, t, o) /\ SenderCalls(c, t, o)
      BY <1>5 DEF SenderState
    <2>2. SenderBuffers(c, t, o2)
      BY <1>2, <2>1 DEF SenderBuffers
    <2>3. SenderCalls(c, t, o2)
      BY <1>2, <2>1 DEF SenderCalls
    <2> QED
      BY <2>2, <2>3
  <1>6. SenderState(c, t, o2)
    BY <1>1, <1>3, <1>4, <1>5 DEF SenderState
  <1>7. ASSUME NEW w \in Int, RunsFrom(t, o, w)
        PROVE  RunsFrom(t, o2, w)
    BY <1>2, <1>7 DEF RunsFrom
  <1> QED
    BY <1>6, <1>7 DEF SenderTo

(* A read is done, with n bytes or none.                                   *)
LEMMA ReceivedRight ==
  ASSUME NEW c, NEW r, NEW o, ReaderState(c, r, o), o.st = "flight",
         NEW b \in Bytes, NEW n \in Int, Len(b) = (IF n > 0 THEN n ELSE 0), n <= o.room,
         NEW o2, o2 = DoneWith(o, n, b)
  PROVE  /\ ReaderState(c, r, o2) /\ o2.data = b /\ o2.st = "done" /\ o2.res = n
         /\ r.pc # "failed"
         /\ \A e \in Int : RunsTo(r, o.data, e) /\ IsRun(b, e) => RunsTo(r, b, e + Len(b))
  <1>1. /\ c \in Stacks /\ r \in Receivers /\ ReceiverOp(o) /\ o \in Ops /\ o.data = <<>>
        /\ ReaderRight(c, r, o) /\ IsRun(r.got, 0) /\ EofRight(r)
    BY DEF ReaderState, ReceiverOp
  <1>2. PICK l \in Nat : l = Len(b)
    BY DEF Bytes
  <1>3. /\ o2 \in Ops /\ o2.st = "done" /\ o2.data = b /\ o2.res = n /\ o2.room = o.room
        /\ Moved(o2) = Len(b)
    BY <1>1, DoneOp DEF Moved
  <1>4. ReceiverOp(o2)
    BY <1>1, <1>3 DEF ReceiverOp, Ops
  <1>5. r.pc \notin {"idle", "failed"} /\ r.prefix = <<>> /\ r.own = <<>>
    BY <1>1 DEF ReaderRight
  <1>6. ReaderRight(c, r, o2)
    BY <1>1, <1>3, <1>5 DEF ReaderRight, Filling
  <1>7. ReaderState(c, r, o2)
    BY <1>1, <1>4, <1>6 DEF ReaderState
  <1>8. ASSUME NEW e \in Int, RunsTo(r, o.data, e), IsRun(b, e)
        PROVE  RunsTo(r, b, e + Len(b))
    <2>1. PICK g \in Nat, p \in Nat : g = Len(r.got) /\ p = ParLen(r)
      <3>1. Len(r.got) \in Nat
        BY <1>1 DEF Receivers, Bytes
      <3>2. Len(Partial(r)) \in Nat /\ Len(Partial(r)) = ParLen(r)
        BY <1>8 DEF RunsTo, Bytes
      <3> QED
        BY <3>1, <3>2
    <2>2. e = g + p
      BY <1>1, <1>5, <1>8, <2>1, RunNone DEF RunsTo
    <2>3. Partial(r) \in Bytes /\ Len(Partial(r)) = ParLen(r) /\ IsRun(Partial(r), Len(r.got))
      BY <1>8 DEF RunsTo
    <2>4. e + l = g + p + l + 0 + 0
      BY <2>2
    <2> QED
      BY <1>2, <1>5, <1>8, <2>1, <2>2, <2>3, <2>4, RunNone DEF RunsTo
  <1> QED
    BY <1>3, <1>5, <1>7, <1>8

(* What asking to cancel it changes of an operation.                       *)
LEMMA CancelFacts ==
  ASSUME NEW o \in Ops, o.st = "idle" => o = Idle, NEW a \in BOOLEAN,
         NEW o2, o2 = [o EXCEPT !.cancel = @ \/ (a /\ o.st = "flight")]
  PROVE  /\ o2 \in Ops /\ o2.st = o.st /\ o2.data = o.data /\ o2.room = o.room /\ o2.res = o.res
         /\ Moved(o2) = Moved(o) /\ (o2.st = "idle" => o2 = Idle)
  <1>1. PICK b \in BOOLEAN : b = (o.cancel \/ (a /\ o.st = "flight")) /\ (o.st = "idle" => b = o.cancel)
    BY DEF Ops
  <1>2. o2 = [o EXCEPT !.cancel = b]
    BY <1>1
  <1>3. o2 \in Ops /\ o2.st = o.st /\ o2.data = o.data /\ o2.room = o.room /\ o2.res = o.res
    BY <1>2 DEF Ops
  <1>4. o.st = "idle" => o2 = o
    BY <1>1, <1>2 DEF Ops
  <1> QED
    BY <1>3, <1>4 DEF Moved

(* A request to cancel disturbs neither side.                              *)
LEMMA CancelRight ==
  ASSUME NEW a \in BOOLEAN, NEW o, NEW o2, o2 = [o EXCEPT !.cancel = @ \/ (a /\ o.st = "flight")]
  PROVE  /\ \A c, t : SenderState(c, t, o) => SenderTo(c, t, o, t, o2)
         /\ \A c, r : ReaderState(c, r, o) =>
              ReaderState(c, r, o2) /\ o2.data = o.data /\ o2.st = o.st /\ o2.res = o.res
  <1>1. ASSUME NEW c, NEW t, SenderState(c, t, o)
        PROVE  SenderTo(c, t, o, t, o2)
    <2>1. SenderOp(o) /\ t \in Senders /\ c \in Stacks
      BY <1>1 DEF SenderState
    <2>2. /\ o2 \in Ops /\ o2.st = o.st /\ o2.data = o.data
          /\ Moved(o2) = Moved(o) /\ (o2.st = "idle" => o2 = Idle)
      BY <2>1, CancelFacts DEF SenderOp
    <2>3. SenderOp(o2)
      BY <2>1, <2>2 DEF SenderOp
    <2>4. SenderBuffers(c, t, o) => SenderBuffers(c, t, o2)
      BY <2>2 DEF SenderBuffers
    <2>5. SenderCalls(c, t, o) => SenderCalls(c, t, o2)
      BY <2>2 DEF SenderCalls
    <2>6. SenderState(c, t, o2)
      BY <1>1, <2>1, <2>2, <2>3, <2>4, <2>5 DEF SenderState
    <2>7. \A w \in Int : RunsFrom(t, o, w) => RunsFrom(t, o2, w)
      BY <2>2 DEF RunsFrom
    <2> QED
      BY <2>6, <2>7 DEF SenderTo
  <1>2. ASSUME NEW c, NEW r, ReaderState(c, r, o)
        PROVE  ReaderState(c, r, o2) /\ o2.data = o.data /\ o2.st = o.st /\ o2.res = o.res
    <2>1. /\ c \in Stacks /\ r \in Receivers /\ ReceiverOp(o)
          /\ ReaderRight(c, r, o) /\ IsRun(r.got, 0) /\ EofRight(r)
      BY <1>2 DEF ReaderState
    <2>2. /\ o2 \in Ops /\ o2.st = o.st /\ o2.data = o.data /\ o2.room = o.room /\ o2.res = o.res
          /\ Moved(o2) = Moved(o) /\ (o2.st = "idle" => o2 = Idle)
      BY <2>1, CancelFacts DEF ReceiverOp
    <2>3. ReceiverOp(o2)
      BY <2>1, <2>2 DEF ReceiverOp
    <2>4. ReaderRight(c, r, o2)
      BY <2>1, <2>2 DEF ReaderRight, Filling
    <2> QED
      BY <2>1, <2>2, <2>3, <2>4 DEF ReaderState
  <1> QED
    BY <1>1, <1>2
-----------------------------------------------------------------------------
(* The steps between the two sides.                                        *)

(* The relay holds what it read and did not yet write, and it is a number. *)
LEMMA HopFacts ==
  ASSUME NEW h \in Hops, NEW o \in Ops
  PROVE  /\ h.buf \in Bytes /\ h.pos \in Nat /\ Len(h.buf) \in Nat
         /\ o.data \in Bytes /\ Len(o.data) \in Nat
         /\ Moved(o) \in Nat /\ HopLeft(h, o) \in Int
         /\ HopLeft(h, o) = Len(h.buf) - h.pos - Moved(o)
  <1>1. \A s \in Bytes : Len(s) \in Nat
    BY DEF Bytes
  <1>2. Moved(o) \in Nat
    BY DEF Ops, Moved
  <1> QED
    BY <1>1, <1>2 DEF Hops, Ops, HopLeft

(* A step of the relay, which leaves the bytes in their place.             *)
HopTo(c, h, i, o, x, h2, i2, o2) ==
  /\ HopRight(c, h2, i2, o2, x)
  /\ \A q2, q1 \in Bytes, e, w \in Int :
        MidRuns(q2, h, i, o, q1, e, w) => MidRuns(q2, h2, i2, o2, q1, e, w)

(* The step of a relay that keeps or moves the bytes of its buffer.        *)
LEMMA HopMoves ==
  ASSUME NEW c, NEW h, NEW i, NEW o, NEW x, HopRight(c, h, i, o, x),
         NEW h2, NEW i2, NEW o2, HopRight(c, h2, i2, o2, x),
         h2.buf = h.buf \/ (Len(h2.buf) = 0 /\ HopLeft(h2, o2) = 0), Len(i2.data) = Len(i.data),
         \A a \in Int : IsRun(i.data, a) => IsRun(i2.data, a),
         HopLeft(h2, o2) = HopLeft(h, o)
  PROVE  HopTo(c, h, i, o, x, h2, i2, o2)
  <1> SUFFICES ASSUME NEW q2 \in Bytes, NEW q1 \in Bytes, NEW e \in Int, NEW w \in Int,
                      MidRuns(q2, h, i, o, q1, e, w)
               PROVE  MidRuns(q2, h2, i2, o2, q1, e, w)
    BY DEF HopTo
  <1>1. h \in Hops /\ i \in Ops /\ o \in Ops /\ h2 \in Hops
    BY DEF HopRight, ReceiverOp, SenderOp
  <1>2. PICK l \in Int, m \in Nat, d \in Nat, k \in Nat :
          l = HopLeft(h, o) /\ m = Len(q2) /\ d = Len(i.data) /\ k = Len(q1)
    <2>1. Len(q2) \in Nat /\ Len(q1) \in Nat
      BY DEF Bytes
    <2> QED
      BY <1>1, <2>1, HopFacts
  <1>3. /\ IsRun(q2, e) /\ IsRun(h.buf, e + m + l - Len(h.buf)) /\ IsRun(i.data, e + m + l)
        /\ IsRun(q1, e + m + l + d) /\ w = e + m + l + d + k
    BY <1>2 DEF MidRuns
  <1>4. IsRun(i2.data, e + m + l)
    BY <1>2, <1>3
  <1>5. IsRun(h2.buf, e + m + l - Len(h2.buf))
    <2>1. CASE h2.buf = h.buf
      BY <1>3, <2>1
    <2>2. CASE Len(h2.buf) = 0
      BY <2>2 DEF IsRun
    <2> QED
      BY <2>1, <2>2
  <1> QED
    BY <1>2, <1>3, <1>4, <1>5 DEF MidRuns

(* The relay has read some bytes, and goes on to write them.               *)
LEMMA HopFills ==
  ASSUME NEW c, NEW h, NEW i, NEW o, NEW x, HopRight(c, h, i, o, x),
         h.pc = "read", i.st = "done", NEW h2, h2 = [h EXCEPT !.pc = "write", !.pos = 0, !.buf = i.data]
  PROVE  HopTo(c, h, i, o, x, h2, Idle, o)
  <1>1. /\ c \in Stacks /\ h \in Hops /\ ReceiverOp(i) /\ SenderOp(o) /\ i \in Ops /\ o \in Ops
        /\ h.buf = <<>> /\ h.pos = 0 /\ o = Idle /\ c.hop # "none" /\ ~x.shut
    BY DEF HopRight, ReceiverOp, SenderOp
  <1>2. PICK d \in Nat : d = Len(i.data) /\ i.data \in Bytes
    BY <1>1, HopFacts
  <1>3. h2 \in Hops /\ h2.pc = "write" /\ h2.pos = 0 /\ h2.buf = i.data
    BY <1>1, <1>2 DEF Hops
  <1>4. Moved(o) = 0 /\ o.st = "idle" /\ Idle.st = "idle" /\ ReceiverOp(Idle) /\ Len(Idle.data) = 0
    BY <1>1, SenderOps, IdleFacts, RunNone
  <1>5. HopRight(c, h2, Idle, o, x)
    BY <1>1, <1>2, <1>3, <1>4 DEF HopRight
  <1>6. HopLeft(h, o) = 0 /\ HopLeft(h2, o) = d
    BY <1>1, <1>2, <1>3, <1>4, RunNone DEF HopLeft
  <1>7. ASSUME NEW q2 \in Bytes, NEW q1 \in Bytes, NEW e \in Int, NEW w \in Int,
               MidRuns(q2, h, i, o, q1, e, w)
        PROVE  MidRuns(q2, h2, Idle, o, q1, e, w)
    <2>1. PICK m \in Nat, k \in Nat : m = Len(q2) /\ k = Len(q1)
      BY DEF Bytes
    <2>2. /\ IsRun(q2, e) /\ IsRun(i.data, e + m + 0)
          /\ IsRun(q1, e + m + 0 + d) /\ w = e + m + 0 + d + k
      BY <1>2, <1>6, <1>7, <2>1 DEF MidRuns
    <2>3. e + m + 0 = e + m + d - d /\ e + m + 0 + d = e + m + d + 0
      OBVIOUS
    <2>4. w = e + m + d + 0 + k
      BY <2>2
    <2>5. IsRun(Idle.data, e + m + d)
      BY IdleFacts, RunNone
    <2>6. IsRun(h2.buf, e + m + d - Len(h2.buf))
      BY <1>2, <1>3, <2>2, <2>3
    <2>7. IsRun(q1, e + m + d + 0)
      BY <2>2, <2>3
    <2> QED
      BY <1>4, <1>6, <2>1, <2>2, <2>4, <2>5, <2>6, <2>7 DEF MidRuns
  <1> QED
    BY <1>5, <1>7 DEF HopTo

(* The kernel takes bytes from a write of the relay.                       *)
LEMMA HopSends ==
  ASSUME NEW c, NEW h, NEW i, NEW o, NEW x, HopRight(c, h, i, o, x), o.st = "flight", x.q \in Bytes,
         NEW n \in 1..Len(o.data), NEW x2, x2.shut = x.shut,
         NEW y, y = x.q \o SubSeq(o.data, 1, n)
  PROVE  /\ HopRight(c, h, i, DoneWith(o, n, <<>>), x2)
         /\ \A q1 \in Bytes, e, w \in Int : MidRuns(x.q, h, i, o, q1, e, w) =>
              MidRuns(y, h, i, DoneWith(o, n, <<>>), q1, e, w)
  <1>1. /\ c \in Stacks /\ h \in Hops /\ ReceiverOp(i) /\ SenderOp(o) /\ i \in Ops /\ o \in Ops
        /\ h.pc = "write" /\ c.hop # "none" /\ o.data = Slice(h.buf, h.pos, Len(h.buf))
        /\ h.pos + Moved(o) <= Len(h.buf) /\ Moved(o) = 0 /\ i.st = "idle" /\ ~x.shut
    <2>1. Moved(o) = 0
      BY DEF Moved
    <2> QED
      BY <2>1 DEF HopRight, ReceiverOp, SenderOp
  <1>2. PICK o2 : o2 = DoneWith(o, n, <<>>)
    OBVIOUS
  <1>3. o2 \in Ops /\ o2.st = "done" /\ o2.data = <<>> /\ o2.res = n /\ n \in Nat /\ n > 0
    <2>1. n \in Nat /\ n > 0
      BY <1>1, HopFacts
    <2>2. n \in Int
      BY <2>1
    <2>3. o2 \in Ops /\ o2.st = "done" /\ o2.data = <<>> /\ o2.res = n
      BY <1>1, <1>2, <2>2, DoneEmpty, Zenon
    <2> QED
      BY <2>1, <2>3
  <1>4. Moved(o2) = n
    BY <1>3 DEF Moved
  <1>5. PICK l \in Nat, p \in Nat : /\ l = Len(h.buf) /\ p = h.pos /\ p <= l /\ h.buf \in Bytes
                                    /\ Len(o.data) = l - p /\ p + n <= l
    <2>1. h.buf \in Bytes /\ Len(h.buf) \in Nat /\ h.pos \in 0..Len(h.buf)
      BY <1>1, HopFacts
    <2>2. Len(o.data) = Len(h.buf) - h.pos
      BY <1>1, <2>1, SliceFacts
    <2> QED
      BY <1>3, <2>1, <2>2
  <1>6. SenderOp(o2)
    BY <1>3 DEF SenderOp
  <1>7. HopRight(c, h, i, o2, x2)
    <2>1. h.pos + Moved(o2) <= Len(h.buf)
      BY <1>4, <1>5
    <2> QED
      BY <1>1, <1>3, <1>6, <2>1 DEF HopRight
  <1>8. HopLeft(h, o) = l - p /\ HopLeft(h, o2) = l - p - n
    BY <1>1, <1>4, <1>5 DEF HopLeft
  <1>9. ASSUME NEW q1 \in Bytes, NEW e \in Int, NEW w \in Int, MidRuns(x.q, h, i, o, q1, e, w)
        PROVE  MidRuns(y, h, i, o2, q1, e, w)
    <2>1. PICK m \in Nat, k \in Nat, d \in Nat : m = Len(x.q) /\ k = Len(q1) /\ d = Len(i.data)
      <3>1. Len(x.q) \in Nat /\ Len(q1) \in Nat
        BY DEF Bytes
      <3> QED
        BY <1>1, <3>1, HopFacts
    <2>2. /\ IsRun(x.q, e) /\ IsRun(h.buf, e + m + (l - p) - l) /\ IsRun(i.data, e + m + (l - p))
          /\ IsRun(q1, e + m + (l - p) + d) /\ w = e + m + (l - p) + d + k
      BY <1>5, <1>8, <1>9, <2>1 DEF MidRuns
    <2>3. IsRun(o.data, e + m)
      <3>1. e + m + (l - p) - l \in Int /\ e + m + (l - p) - l + p = e + m
        OBVIOUS
      <3>2. p \in 0..Len(h.buf)
        BY <1>5
      <3>3. IsRun(Slice(h.buf, p, Len(h.buf)), e + m + (l - p) - l + p)
        BY <1>5, <2>2, <3>1, <3>2, SliceFacts
      <3> QED
        BY <1>1, <1>5, <3>1, <3>3
    <2>4. PICK s \in Bytes : s = SubSeq(o.data, 1, n) /\ Len(s) = n /\ IsRun(s, e + m)
      <3>1. o.data \in Bytes
        BY <1>1, HopFacts
      <3>2. e + m \in Int
        OBVIOUS
      <3>3. n \in 0..Len(o.data)
        BY <1>3, <1>5
      <3> QED
        BY <2>3, <3>1, <3>2, <3>3, RunHead
    <2>5. PICK q \in Bytes : q = x.q \o s /\ Len(q) = m + n /\ IsRun(q, e)
      <3>1. IsRun(x.q, e) /\ IsRun(s, e + Len(x.q))
        BY <2>1, <2>2, <2>4
      <3>2. x.q \o s \in Bytes /\ Len(x.q \o s) = Len(x.q) + Len(s) /\ IsRun(x.q \o s, e)
        BY <3>1, RunConcat
      <3> QED
        BY <2>1, <2>4, <3>2
    <2>6. /\ e + m + (l - p) - l = e + (m + n) + (l - p - n) - l
          /\ e + m + (l - p) = e + (m + n) + (l - p - n)
          /\ e + m + (l - p) + d = e + (m + n) + (l - p - n) + d
          /\ e + m + (l - p) + d + k = e + (m + n) + (l - p - n) + d + k
      BY <1>3
    <2>7. MidRuns(q, h, i, o2, q1, e, w)
      BY <1>5, <1>8, <2>1, <2>2, <2>5, <2>6 DEF MidRuns
    <2> QED
      BY <2>4, <2>5, <2>7
  <1> QED
    BY <1>2, <1>7, <1>9

(* The kernel fills a read of the relay, or one fails or sees the end.     *)
LEMMA HopReceives ==
  ASSUME NEW c, NEW h, NEW i, NEW o, NEW x, HopRight(c, h, i, o, x), i.st = "flight",
         NEW n \in Int, NEW b \in Bytes, Len(b) = (IF n > 0 THEN n ELSE 0), n <= i.room
  PROVE  /\ HopRight(c, h, DoneWith(i, n, b), o, x)
         /\ \A q2, q1, r1 \in Bytes, e, w \in Int :
              /\ MidRuns(q2, h, i, o, q1, e, w)
              /\ Len(q1) = Len(b) + Len(r1)
              /\ \A a \in Int : IsRun(q1, a) => IsRun(b, a) /\ IsRun(r1, a + Len(b))
              => MidRuns(q2, h, DoneWith(i, n, b), o, r1, e, w)
  <1>1. /\ c \in Stacks /\ h \in Hops /\ ReceiverOp(i) /\ SenderOp(o) /\ i \in Ops /\ o \in Ops
        /\ h.pc = "read" /\ i.data = <<>>
    BY DEF HopRight, ReceiverOp, SenderOp
  <1>2. PICK i2 : i2 = DoneWith(i, n, b)
    OBVIOUS
  <1>3. i2 \in Ops /\ i2.st = "done" /\ i2.data = b /\ i2.res = n /\ i2.room = i.room
    <2>1. i \in Ops
      BY <1>1
    <2> QED
      BY <1>2, <2>1 DEF DoneWith, Ops
  <1>4. ReceiverOp(i2)
    <2>1. Moved(i2) = Len(b) /\ i.room \in Nat
      BY <1>1, <1>3 DEF Moved, Ops
    <2>2. Len(i2.data) = Moved(i2) /\ Moved(i2) <= i2.room
      BY <1>3, <2>1
    <2> QED
      BY <1>3, <2>2 DEF ReceiverOp
  <1>5. HopRight(c, h, i2, o, x)
    BY <1>1, <1>3, <1>4 DEF HopRight
  <1>6. ASSUME NEW q2 \in Bytes, NEW q1 \in Bytes, NEW r1 \in Bytes, NEW e \in Int, NEW w \in Int,
               MidRuns(q2, h, i, o, q1, e, w), Len(q1) = Len(b) + Len(r1),
               \A a \in Int : IsRun(q1, a) => IsRun(b, a) /\ IsRun(r1, a + Len(b))
        PROVE  MidRuns(q2, h, i2, o, r1, e, w)
    <2>1. PICK m \in Nat, k \in Nat, d \in Nat, l \in Int :
            m = Len(q2) /\ k = Len(r1) /\ d = Len(b) /\ l = HopLeft(h, o)
      <3>1. Len(q2) \in Nat /\ Len(r1) \in Nat /\ Len(b) \in Nat
        BY DEF Bytes
      <3> QED
        BY <1>1, <3>1, HopFacts
    <2>2. /\ IsRun(q2, e) /\ IsRun(h.buf, e + m + l - Len(h.buf))
          /\ IsRun(q1, e + m + l + 0) /\ w = e + m + l + 0 + (d + k)
      BY <1>1, <1>6, <2>1, RunNone DEF MidRuns
    <2>3. e + m + l + 0 = e + m + l /\ e + m + l \in Int /\ e + m + l + 0 + (d + k) = e + m + l + d + k
      OBVIOUS
    <2>4. IsRun(b, e + m + l) /\ IsRun(r1, e + m + l + d)
      BY <1>6, <2>1, <2>2, <2>3
    <2> QED
      BY <1>3, <2>1, <2>2, <2>3, <2>4 DEF MidRuns
  <1> QED
    BY <1>2, <1>5, <1>6

(* A write of the relay fails, and the flag of its operations is set.      *)
LEMMA HopOpsChange ==
  ASSUME NEW c, NEW h, NEW i, NEW o, NEW x, HopRight(c, h, i, o, x),
         NEW i2, NEW o2, i2.data = i.data, i2.st = i.st, ReceiverOp(i2), SenderOp(o2),
         Moved(o2) = Moved(o), o2.st = "flight" => o.st = "flight" /\ o2.data = o.data,
         o.st = "idle" => o2.st = "idle"
  PROVE  HopTo(c, h, i, o, x, h, i2, o2)
  <1>1. HopRight(c, h, i2, o2, x)
    BY DEF HopRight
  <1>2. HopLeft(h, o2) = HopLeft(h, o)
    BY DEF HopLeft
  <1> QED
    BY <1>1, <1>2, HopMoves

(* A write of the relay that failed moves nothing.                         *)
LEMMA HopSendFails ==
  ASSUME NEW c, NEW h, NEW i, NEW o, NEW x, HopRight(c, h, i, o, x), o.st = "flight",
         NEW n \in Int, n <= 0
  PROVE  HopTo(c, h, i, o, x, h, i, DoneWith(o, n, <<>>))
  <1>1. SenderOp(o) /\ o \in Ops /\ ReceiverOp(i)
    BY DEF HopRight, SenderOp
  <1>2. PICK o2 : o2 = DoneWith(o, n, <<>>)
    OBVIOUS
  <1>3. o2 \in Ops /\ o2.st = "done" /\ o2.data = <<>> /\ o2.res = n
    BY <1>1, <1>2, DoneEmpty, Zenon
  <1>4. SenderOp(o2) /\ Moved(o2) = 0 /\ Moved(o) = 0
    BY <1>3 DEF SenderOp, Moved
  <1>5. HopTo(c, h, i, o, x, h, i, o2)
    BY <1>1, <1>3, <1>4, HopOpsChange
  <1> QED
    BY <1>2, <1>5

(* The same, where the second wire and what is left in the relay end at z. *)
MidAt(q2, h, i, q1, e, z, w) ==
  /\ IsRun(q2, e)
  /\ IsRun(h.buf, z - Len(h.buf))
  /\ IsRun(i.data, z)
  /\ IsRun(q1, z + Len(i.data))
  /\ w = z + Len(i.data) + Len(q1)

(* Two ways to say it.                                                     *)
LEMMA MidIsAt ==
  ASSUME NEW h \in Hops, NEW i, NEW o \in Ops, NEW q2 \in Bytes, NEW q1,
         NEW e \in Int, NEW w, NEW z \in Int, z = e + Len(q2) + HopLeft(h, o)
  PROVE  MidRuns(q2, h, i, o, q1, e, w) <=> MidAt(q2, h, i, q1, e, z, w)
  <1>1. PICK y \in Int : /\ y = z - Len(h.buf)
                         /\ y = e + Len(q2) + HopLeft(h, o) - Len(h.buf)
    <2>1. PICK g \in Nat, m \in Nat, l \in Int : g = Len(h.buf) /\ m = Len(q2) /\ l = HopLeft(h, o)
      <3>1. Len(q2) \in Nat
        BY DEF Bytes
      <3> QED
        BY <3>1, HopFacts
    <2>2. PICK y \in Int : y = z - g
      OBVIOUS
    <2>3. z = e + m + l
      BY <2>1
    <2>4. y = e + m + l - g
      BY <2>2, <2>3
    <2> QED
      BY <2>1, <2>2, <2>4
  <1>2. IsRun(h.buf, z - Len(h.buf)) <=> IsRun(h.buf, y)
    BY <1>1, Zenon
  <1>3. IsRun(h.buf, e + Len(q2) + HopLeft(h, o) - Len(h.buf)) <=> IsRun(h.buf, y)
    BY <1>1, Zenon
  <1>4. MidRuns(q2, h, i, o, q1, e, w) <=>
          /\ IsRun(q2, e)
          /\ IsRun(h.buf, e + Len(q2) + HopLeft(h, o) - Len(h.buf))
          /\ IsRun(i.data, z)
          /\ IsRun(q1, z + Len(i.data))
          /\ w = z + Len(i.data) + Len(q1)
    BY Zenon DEF MidRuns
  <1> QED
    BY <1>2, <1>3, <1>4, Zenon DEF MidAt

(* The receiver takes bytes from the end of all these.                     *)
LEMMA MidPulled ==
  ASSUME NEW h \in Hops, NEW i \in Ops, NEW o \in Ops, NEW q2 \in Bytes, NEW q1 \in Bytes,
         NEW e \in Int, NEW w \in Int, MidRuns(q2, h, i, o, q1, e, w), NEW n \in 0..Len(q2)
  PROVE  /\ IsRun(SubSeq(q2, 1, n), e)
         /\ MidRuns(SubSeq(q2, n + 1, Len(q2)), h, i, o, q1, e + n, w)
  <1>1. PICK m \in Nat, l \in Int : m = Len(q2) /\ l = HopLeft(h, o)
    <2>1. Len(q2) \in Nat
      BY DEF Bytes
    <2> QED
      BY <2>1, HopFacts
  <1>2. PICK z \in Int : z = e + Len(q2) + HopLeft(h, o)
    BY <1>1
  <1>3. MidAt(q2, h, i, q1, e, z, w)
    BY <1>2, MidIsAt
  <1>4. IsRun(q2, e)
    BY <1>3 DEF MidAt
  <1>5. IsRun(SubSeq(q2, 1, n), e)
    BY <1>4, RunHead
  <1>6. PICK r \in Bytes : /\ r = SubSeq(q2, n + 1, Len(q2))
                           /\ Len(r) = Len(q2) - n /\ IsRun(r, e + n)
    BY <1>4, RunTail
  <1>7. PICK f \in Int : f = e + n
    BY <1>1
  <1>8. z = f + Len(r) + HopLeft(h, o)
    <2>1. n \in Nat /\ Len(r) = m - n /\ z = e + m + l
      BY <1>1, <1>2, <1>6
    <2>2. z = f + (m - n) + l
      BY <1>7, <2>1
    <2> QED
      BY <1>1, <2>1, <2>2
  <1>9. MidAt(r, h, i, q1, f, z, w)
    <2>1. IsRun(r, f)
      BY <1>6, <1>7
    <2> QED
      BY <1>3, <2>1 DEF MidAt
  <1>10. MidRuns(r, h, i, o, q1, f, w)
    BY <1>8, <1>9, MidIsAt
  <1> QED
    BY <1>5, <1>6, <1>7, <1>10

(* Without a relay, it takes them from the wire of the sender.             *)
LEMMA MidPulledNoHop ==
  ASSUME NEW c, NEW h, NEW i, NEW o, NEW x, HopRight(c, h, i, o, x), c.hop = "none",
         NEW q1 \in Bytes, NEW e \in Int, NEW w \in Int, MidRuns(x.q, h, i, o, q1, e, w),
         NEW n \in 0..Len(q1)
  PROVE  /\ IsRun(SubSeq(q1, 1, n), e)
         /\ MidRuns(x.q, h, i, o, SubSeq(q1, n + 1, Len(q1)), e + n, w)
  <1>1. /\ h.pc = "none" /\ x.q = <<>> /\ h.buf = <<>> /\ h.pos = 0
        /\ i.st = "idle" /\ o.st = "idle" /\ ReceiverOp(i) /\ SenderOp(o)
    BY DEF HopRight
  <1>2. i.data = <<>> /\ Moved(o) = 0
    BY <1>1, IdleFacts, SenderOps DEF ReceiverOp, SenderOp
  <1>3. HopLeft(h, o) = 0 /\ Len(x.q) = 0 /\ Len(i.data) = 0 /\ Len(h.buf) = 0
    BY <1>1, <1>2, RunNone DEF HopLeft
  <1>4. PICK k \in Nat : k = Len(q1)
    BY DEF Bytes
  <1>5. IsRun(q1, e + 0 + 0 + 0) /\ w = e + 0 + 0 + 0 + k
    BY <1>3, <1>4 DEF MidRuns
  <1>6. e + 0 + 0 + 0 = e
    OBVIOUS
  <1>7. IsRun(q1, e) /\ w = e + k
    BY <1>5, <1>6
  <1>8. IsRun(SubSeq(q1, 1, n), e)
    BY <1>7, RunHead
  <1>9. PICK r \in Bytes : /\ r = SubSeq(q1, n + 1, Len(q1))
                           /\ Len(r) = Len(q1) - n /\ IsRun(r, e + n)
    BY <1>7, RunTail
  <1>10. PICK f \in Int : f = e + n /\ f + 0 + 0 + 0 = f /\ w = f + 0 + 0 + 0 + Len(r)
    BY <1>4, <1>7, <1>9
  <1>11. MidRuns(x.q, h, i, o, r, f, w)
    <2>1. IsRun(x.q, f) /\ IsRun(h.buf, f + 0 + 0 - 0) /\ IsRun(i.data, f + 0 + 0)
      BY <1>1, <1>2, RunNone
    <2> QED
      BY <1>3, <1>9, <1>10, <2>1 DEF MidRuns
  <1> QED
    BY <1>8, <1>9, <1>10, <1>11

(* The sender puts bytes at the beginning of them.                         *)
LEMMA MidPushed ==
  ASSUME NEW h \in Hops, NEW i \in Ops, NEW o \in Ops, NEW q2 \in Bytes, NEW q1 \in Bytes,
         NEW e \in Int, NEW w \in Int, MidRuns(q2, h, i, o, q1, e, w), NEW b \in Bytes, IsRun(b, w)
  PROVE  q1 \o b \in Bytes /\ MidRuns(q2, h, i, o, q1 \o b, e, w + Len(b))
  <1>1. PICK m \in Nat, k \in Nat, d \in Nat, l \in Int, j \in Nat :
          /\ m = Len(q2) /\ k = Len(q1) /\ d = Len(i.data) /\ l = HopLeft(h, o) /\ j = Len(b)
    <2>1. Len(q2) \in Nat /\ Len(q1) \in Nat /\ Len(b) \in Nat
      BY DEF Bytes
    <2> QED
      BY <2>1, HopFacts
  <1>2. /\ IsRun(q2, e) /\ IsRun(h.buf, e + m + l - Len(h.buf)) /\ IsRun(i.data, e + m + l)
        /\ IsRun(q1, e + m + l + d) /\ w = e + m + l + d + k
    BY <1>1 DEF MidRuns
  <1>3. PICK a \in Int : a = e + m + l + d /\ w = a + Len(q1)
    <2>1. e + m + l + d \in Int
      OBVIOUS
    <2> QED
      BY <1>1, <1>2, <2>1
  <1>4. PICK q \in Bytes : q = q1 \o b /\ Len(q) = k + j /\ IsRun(q, a)
    <2>1. IsRun(q1, a) /\ IsRun(b, a + Len(q1))
      BY <1>2, <1>3
    <2>2. q1 \o b \in Bytes /\ Len(q1 \o b) = Len(q1) + Len(b) /\ IsRun(q1 \o b, a)
      BY <2>1, RunConcat
    <2> QED
      BY <1>1, <2>2
  <1>5. w + j = e + m + l + d + (k + j)
    BY <1>2
  <1>6. MidRuns(q2, h, i, o, q, e, w + j)
    BY <1>1, <1>2, <1>3, <1>4, <1>5 DEF MidRuns
  <1> QED
    BY <1>1, <1>4, <1>6
-----------------------------------------------------------------------------
(* The inductive invariant.                                                *)

(* The states of one direction of a connection.                            *)
WireStates == [q : Bytes, shut : BOOLEAN]

(* A reader that has seen the end of a wire, and the relay when it has.    *)
EndRight(c, r, ro, h, i, x1, x2) ==
  /\ h.pc = "end" \/ (i.st = "done" /\ i.res = 0) => Drained(x1)
  /\ r.eof \/ (ro.st = "done" /\ ro.res = 0) => Drained(IF c.hop = "none" THEN x1 ELSE x2)

(* From the first byte to the last, those of the receiver, of the relay    *)
(* and of the sender follow one another.                                   *)
Joins(r, ro, x2, h, i, o, x1, t, to) ==
  r.pc # "failed" => \E e, w \in Int : /\ RunsTo(r, ro.data, e)
                                       /\ MidRuns(x2.q, h, i, o, x1.q, e, w)
                                       /\ RunsFrom(t, to, w)

(* The wires W, the operations O, the sender t, the receiver r and the     *)
(* relay h of a stack c.                                                   *)
BytesRight(c, W, O, t, r, h) ==
  /\ W \in [Wires -> WireStates] /\ O \in [Ends -> Ops]
  /\ SenderState(c, t, O["tx"])
  /\ W[1].shut => t.pc \in {"closed", "dropped"}
  /\ HopRight(c, h, O["in"], O["out"], W[2])
  /\ ReaderState(c, r, O["rx"])
  /\ EndRight(c, r, O["rx"], h, O["in"], W[1], W[2])
  /\ Joins(r, O["rx"], W[2], h, O["in"], O["out"], W[1], t, O["tx"])

(* Something was written to a wire, or it was shut down.                   *)
Used(x) == x.q # <<>> \/ x.shut

(* A connection is made before it is used, or, with fast open, by its use. *)
PeerRight(c, p, place, x) ==
  /\ p \in {"listening", "connecting", "deferred", "established", "refused"}
  /\ place = "new" => p = "listening"
  /\ place \in {"connect", "writable"} => p # "listening"
  /\ place = "take_error" => p \in {"deferred", "established", "refused"}
  /\ p = "deferred" => c.fast
  /\ p \in {"listening", "deferred"} => ~Used(x)
  /\ place \notin Opening => \/ p = "established"
                             \/ c.fast /\ (p = "deferred" \/ (Used(x) /\ p # "listening"))

StreamInv ==
  /\ cfg \in Configs /\ canceled \in [Ends -> BOOLEAN]
  /\ PeerRight(cfg, peer, tx.pc, wire[1])
  /\ BytesRight(cfg, wire, op, tx, rx, hop)

(* One operation, and one wire, changes.                                   *)
LEMMA OpChanges ==
  ASSUME NEW O \in [Ends -> Ops], NEW e \in Ends, NEW o \in Ops, NEW O2, O2 = [O EXCEPT ![e] = o]
  PROVE  O2 \in [Ends -> Ops] /\ O2[e] = o /\ \A f \in Ends \ {e} : O2[f] = O[f]
  OBVIOUS

ShutDown(W, k) == [W EXCEPT ![k].shut = TRUE]

(* Shutting one wire down leaves its bytes and the other wires alone.      *)
LEMMA WireShuts ==
  ASSUME NEW W \in [Wires -> WireStates], NEW k \in Wires, NEW W2, W2 = ShutDown(W, k)
  PROVE  /\ W2 \in [Wires -> WireStates] /\ W2[k].q = W[k].q /\ W2[k].shut
         /\ \A j \in Wires \ {k} : W2[j] = W[j]
  <1>1. PICK x : x = [W[k] EXCEPT !.shut = TRUE]
    OBVIOUS
  <1>2. x \in WireStates /\ x.q = W[k].q /\ x.shut
    BY <1>1 DEF WireStates
  <1>3. W2 = [W EXCEPT ![k] = x]
    BY <1>1 DEF ShutDown
  <1> QED
    BY <1>2, <1>3

Fill(W, k, s) == [W EXCEPT ![k].q = s]

(* Changing the bytes of one wire leaves the other wires alone.            *)
LEMMA WireFills ==
  ASSUME NEW W \in [Wires -> WireStates], NEW k \in Wires, NEW s \in Bytes,
         NEW W2, W2 = Fill(W, k, s)
  PROVE  /\ W2 \in [Wires -> WireStates] /\ W2[k].q = s /\ W2[k].shut = W[k].shut
         /\ W2[k] = [W[k] EXCEPT !.q = s]
         /\ \A j \in Wires \ {k} : W2[j] = W[j]
  <1>1. PICK x : x = [W[k] EXCEPT !.q = s]
    OBVIOUS
  <1>2. x \in WireStates /\ x.q = s /\ x.shut = W[k].shut
    BY <1>1 DEF WireStates
  <1>3. W2 = [W EXCEPT ![k] = x]
    BY <1>1 DEF Fill
  <1> QED
    BY <1>1, <1>2, <1>3

(* The same of the wire of the sender.                                     *)
LEMMA FirstFills ==
  ASSUME NEW W \in [Wires -> WireStates], NEW s \in Bytes, NEW W2, W2 = Fill(W, 1, s)
  PROVE  /\ W2 \in [Wires -> WireStates] /\ W2[1].q = s
         /\ W2[1].shut = W[1].shut /\ W2[2] = W[2]
  <1>1. 1 \in Wires /\ 2 \in Wires \ {1}
    BY DEF Wires
  <1>2. PICK x : x = [W[1] EXCEPT !.q = s]
    OBVIOUS
  <1>3. x \in WireStates /\ x.q = s /\ x.shut = W[1].shut
    BY <1>1, <1>2 DEF WireStates
  <1>4. W2 = [W EXCEPT ![1] = x]
    BY <1>2 DEF Fill
  <1> QED
    BY <1>1, <1>3, <1>4

(* The same of the wire of a relay.                                        *)
LEMMA SecondFills ==
  ASSUME NEW W \in [Wires -> WireStates], NEW s \in Bytes, NEW W2, W2 = Fill(W, 2, s)
  PROVE  /\ W2 \in [Wires -> WireStates] /\ W2[2].q = s
         /\ W2[2].shut = W[2].shut /\ W2[1] = W[1]
  <1>1. 2 \in Wires /\ 1 \in Wires \ {2}
    BY DEF Wires
  <1>2. PICK x : x = [W[2] EXCEPT !.q = s]
    OBVIOUS
  <1>3. x \in WireStates /\ x.q = s /\ x.shut = W[2].shut
    BY <1>1, <1>2 DEF WireStates
  <1>4. W2 = [W EXCEPT ![2] = x]
    BY <1>2 DEF Fill
  <1> QED
    BY <1>1, <1>3, <1>4

(* What the sender does, and what the kernel does with its operation when  *)
(* it moves nothing.                                                       *)
LEMMA SenderKeeps ==
  ASSUME NEW c, NEW W, NEW O, NEW t, NEW r, NEW h, BytesRight(c, W, O, t, r, h),
         NEW t2, NEW o2, SenderTo(c, t, O["tx"], t2, o2), NEW O2, O2 = [O EXCEPT !["tx"] = o2],
         NEW W2, W2 = W \/ W2 = ShutDown(W, 1),
         W2[1].shut => t2.pc \in {"closed", "dropped"}
  PROVE  BytesRight(c, W2, O2, t2, r, h)
  <1>1. SenderState(c, t2, o2) /\ o2 \in Ops
    BY DEF SenderTo, SenderState, SenderOp
  <1>2. O \in [Ends -> Ops] /\ W \in [Wires -> WireStates]
    BY DEF BytesRight
  <1>3. /\ O2 \in [Ends -> Ops] /\ O2["tx"] = o2 /\ O2["rx"] = O["rx"]
        /\ O2["in"] = O["in"] /\ O2["out"] = O["out"]
    BY <1>1, <1>2, OpChanges DEF Ends
  <1>4. /\ W2 \in [Wires -> WireStates] /\ W2[1].q = W[1].q /\ W2[2] = W[2]
        /\ W[1].shut => W2[1].shut
    <2>1. CASE W2 = W
      BY <1>2, <2>1
    <2>2. CASE W2 = ShutDown(W, 1)
      <3>1. 1 \in Wires /\ 2 \in Wires \ {1}
        BY DEF Wires
      <3> QED
        BY <1>2, <2>2, <3>1, WireShuts
    <2> QED
      BY <2>1, <2>2
  <1>5. HopRight(c, h, O2["in"], O2["out"], W2[2]) /\ ReaderState(c, r, O2["rx"])
    BY <1>3, <1>4 DEF BytesRight
  <1>6. EndRight(c, r, O2["rx"], h, O2["in"], W2[1], W2[2])
    <2>1. EndRight(c, r, O["rx"], h, O["in"], W[1], W[2])
      BY DEF BytesRight
    <2> QED
      BY <1>3, <1>4, <2>1 DEF EndRight, Drained
  <1>7. Joins(r, O2["rx"], W2[2], h, O2["in"], O2["out"], W2[1], t2, O2["tx"])
    <2> SUFFICES ASSUME r.pc # "failed"
                 PROVE  \E e, w \in Int : /\ RunsTo(r, O["rx"].data, e)
                                          /\ MidRuns(W[2].q, h, O["in"], O["out"], W[1].q, e, w)
                                          /\ RunsFrom(t2, o2, w)
      BY <1>3, <1>4 DEF Joins
    <2>1. PICK e \in Int, w \in Int : /\ RunsTo(r, O["rx"].data, e)
                                      /\ MidRuns(W[2].q, h, O["in"], O["out"], W[1].q, e, w)
                                      /\ RunsFrom(t, O["tx"], w)
      BY DEF BytesRight, Joins
    <2>2. RunsFrom(t2, o2, w)
      BY <2>1 DEF SenderTo
    <2> QED
      BY <2>1, <2>2
  <1> QED
    BY <1>1, <1>3, <1>4, <1>5, <1>6, <1>7 DEF BytesRight

(* What the receiver does.                                                 *)
LEMMA ReaderKeeps ==
  ASSUME NEW c, NEW W, NEW O, NEW t, NEW r, NEW h, BytesRight(c, W, O, t, r, h),
         NEW e \in Int, NEW w \in Int, MidRuns(W[2].q, h, O["in"], O["out"], W[1].q, e, w),
         RunsFrom(t, O["tx"], w),
         NEW r2, NEW o2, ReaderTo(c, r, O["rx"], e, r2, o2), NEW O2, O2 = [O EXCEPT !["rx"] = o2]
  PROVE  BytesRight(c, W, O2, t, r2, h)
  <1>1. ReaderState(c, r2, o2) /\ o2 \in Ops
    BY DEF ReaderTo, ReaderState, ReceiverOp
  <1>2. O \in [Ends -> Ops] /\ W \in [Wires -> WireStates]
    BY DEF BytesRight
  <1>3. /\ O2 \in [Ends -> Ops] /\ O2["rx"] = o2 /\ O2["tx"] = O["tx"]
        /\ O2["in"] = O["in"] /\ O2["out"] = O["out"]
    BY <1>1, <1>2, OpChanges DEF Ends
  <1>4. EndRight(c, r2, o2, h, O["in"], W[1], W[2])
    <2>1. EndRight(c, r, O["rx"], h, O["in"], W[1], W[2])
      BY DEF BytesRight
    <2>2. /\ r2.eof => r.eof \/ (O["rx"].st = "done" /\ O["rx"].res = 0)
          /\ o2.st = "done" /\ o2.res = 0 => O["rx"].st = "done" /\ O["rx"].res = 0
      BY DEF ReaderTo
    <2> QED
      BY <2>1, <2>2 DEF EndRight
  <1>5. Joins(r2, o2, W[2], h, O["in"], O["out"], W[1], t, O["tx"])
    BY DEF ReaderTo, Joins
  <1> QED
    BY <1>1, <1>2, <1>3, <1>4, <1>5 DEF BytesRight

(* What the relay does, and what the kernel does with its operations when  *)
(* it moves nothing.                                                       *)
LEMMA HopKeeps ==
  ASSUME NEW c, NEW W, NEW O, NEW t, NEW r, NEW h, BytesRight(c, W, O, t, r, h),
         NEW h2, NEW i2, NEW o2, HopTo(c, h, O["in"], O["out"], W[2], h2, i2, o2),
         NEW O2 \in [Ends -> Ops], O2["in"] = i2, O2["out"] = o2,
         O2["tx"] = O["tx"], O2["rx"] = O["rx"],
         h2.pc = "end" \/ (i2.st = "done" /\ i2.res = 0) => Drained(W[1])
  PROVE  BytesRight(c, W, O2, t, r, h2)
  <1>1. O \in [Ends -> Ops] /\ W \in [Wires -> WireStates] /\ HopRight(c, h2, i2, o2, W[2])
    BY DEF BytesRight, HopTo
  <1>2. EndRight(c, r, O["rx"], h2, i2, W[1], W[2])
    BY DEF BytesRight, EndRight
  <1>3. Joins(r, O["rx"], W[2], h2, i2, o2, W[1], t, O["tx"])
    <2> SUFFICES ASSUME r.pc # "failed"
                 PROVE  \E e, w \in Int : /\ RunsTo(r, O["rx"].data, e)
                                          /\ MidRuns(W[2].q, h2, i2, o2, W[1].q, e, w)
                                          /\ RunsFrom(t, O["tx"], w)
      BY DEF Joins
    <2>1. PICK e \in Int, w \in Int : /\ RunsTo(r, O["rx"].data, e)
                                      /\ MidRuns(W[2].q, h, O["in"], O["out"], W[1].q, e, w)
                                      /\ RunsFrom(t, O["tx"], w)
      BY DEF BytesRight, Joins
    <2>2. W[2].q \in Bytes /\ W[1].q \in Bytes
      BY <1>1 DEF Wires, WireStates
    <2>3. MidRuns(W[2].q, h2, i2, o2, W[1].q, e, w)
      BY <2>1, <2>2 DEF HopTo
    <2> QED
      BY <2>1, <2>3
  <1> QED
    BY <1>1, <1>2, <1>3 DEF BytesRight

(* It shuts down the wire it wrote to.                                     *)
LEMMA HopEndKeeps ==
  ASSUME NEW c, NEW W, NEW O, NEW t, NEW r, NEW h, BytesRight(c, W, O, t, r, h),
         h.pc \in {"end", "failed"}, NEW W2, W2 = ShutDown(W, 2)
  PROVE  BytesRight(c, W2, O, t, r, h)
  <1>1. W \in [Wires -> WireStates] /\ HopRight(c, h, O["in"], O["out"], W[2])
    BY DEF BytesRight
  <1>2. W2 \in [Wires -> WireStates] /\ W2[2].q = W[2].q /\ W2[1] = W[1] /\ W2[2].shut
    <2>1. 2 \in Wires /\ 1 \in Wires \ {2}
      BY DEF Wires
    <2> QED
      BY <1>1, <2>1, WireShuts
  <1>3. HopRight(c, h, O["in"], O["out"], W2[2])
    BY <1>1, <1>2 DEF HopRight
  <1>4. EndRight(c, r, O["rx"], h, O["in"], W2[1], W2[2])
    <2>1. EndRight(c, r, O["rx"], h, O["in"], W[1], W[2])
      BY DEF BytesRight
    <2> QED
      BY <1>2, <2>1 DEF EndRight, Drained
  <1>5. Joins(r, O["rx"], W2[2], h, O["in"], O["out"], W2[1], t, O["tx"])
    BY <1>2 DEF BytesRight, Joins
  <1> QED
    BY <1>2, <1>3, <1>4, <1>5 DEF BytesRight

(* The kernel moves bytes of the sender to its wire.                       *)
LEMMA SentKeeps ==
  ASSUME NEW c, NEW W, NEW O, NEW t, NEW r, NEW h, BytesRight(c, W, O, t, r, h),
         O["tx"].st = "flight", ~W[1].shut, NEW n \in 1..Len(O["tx"].data),
         NEW O2, O2 = [O EXCEPT !["tx"] = DoneWith(O["tx"], n, <<>>)],
         NEW W2, W2 = Fill(W, 1, W[1].q \o SubSeq(O["tx"].data, 1, n))
  PROVE  BytesRight(c, W2, O2, t, r, h)
  <1>1. /\ O \in [Ends -> Ops] /\ W \in [Wires -> WireStates] /\ SenderState(c, t, O["tx"])
        /\ HopRight(c, h, O["in"], O["out"], W[2])
    BY DEF BytesRight
  <1>2. PICK o \in Ops : o = O["tx"] /\ o.data \in Bytes
    BY <1>1 DEF Ends, Ops
  <1>3. PICK o2 : o2 = DoneWith(o, n, <<>>)
    OBVIOUS
  <1>4. /\ SenderState(c, t, o2)
        /\ \A w \in Int : RunsFrom(t, o, w) => IsRun(o.data, w) /\ RunsFrom(t, o2, w + n)
    BY <1>1, <1>2, <1>3, SentRight
  <1>5. /\ O2 \in [Ends -> Ops] /\ O2["tx"] = o2 /\ O2["rx"] = O["rx"]
        /\ O2["in"] = O["in"] /\ O2["out"] = O["out"]
    <2>1. o2 \in Ops
      BY <1>4 DEF SenderState, SenderOp
    <2> QED
      BY <1>1, <1>2, <1>3, <2>1, OpChanges DEF Ends
  <1>6. PICK b \in Bytes : /\ b = SubSeq(o.data, 1, n) /\ Len(b) = n
                           /\ \A a \in Int : IsRun(o.data, a) => IsRun(b, a)
    <2>1. Len(o.data) \in Nat
      BY <1>2 DEF Bytes
    <2>2. n \in 0..Len(o.data)
      BY <1>2, <2>1
    <2>3. SubSeq(o.data, 1, n) \in Bytes /\ Len(SubSeq(o.data, 1, n)) = n
      BY <1>2, <2>2, BytesHead
    <2> QED
      BY <1>2, <2>2, <2>3, RunHead
  <1>7. W[1].q \in Bytes /\ W[2].q \in Bytes /\ 1 \in Wires /\ 2 \in Wires \ {1}
    BY <1>1 DEF Wires, WireStates
  <1>8. PICK q \in Bytes : q = W[1].q \o b
    BY <1>7, BytesConcat
  <1>9. /\ W2 \in [Wires -> WireStates] /\ W2[1].q = q /\ ~W2[1].shut /\ W2[2] = W[2]
    <2>1. W2 = Fill(W, 1, q)
      BY <1>2, <1>6, <1>8
    <2>2. W2 \in [Wires -> WireStates] /\ W2[1].q = q /\ W2[1].shut = W[1].shut /\ W2[2] = W[2]
      BY <1>1, <2>1, FirstFills
    <2> QED
      BY <2>2
  <1>10. EndRight(c, r, O["rx"], h, O["in"], W2[1], W2[2])
    <2>1. EndRight(c, r, O["rx"], h, O["in"], W[1], W[2])
      BY DEF BytesRight
    <2> QED
      BY <1>9, <2>1 DEF EndRight, Drained
  <1>11. Joins(r, O["rx"], W2[2], h, O["in"], O["out"], W2[1], t, o2)
    <2> SUFFICES ASSUME r.pc # "failed"
                 PROVE  \E e, w \in Int : /\ RunsTo(r, O["rx"].data, e)
                                          /\ MidRuns(W[2].q, h, O["in"], O["out"], q, e, w)
                                          /\ RunsFrom(t, o2, w)
      BY <1>9 DEF Joins
    <2>1. PICK e \in Int, w \in Int : /\ RunsTo(r, O["rx"].data, e)
                                      /\ MidRuns(W[2].q, h, O["in"], O["out"], W[1].q, e, w)
                                      /\ RunsFrom(t, o, w)
      BY <1>2 DEF BytesRight, Joins
    <2>2. IsRun(b, w) /\ RunsFrom(t, o2, w + n)
      BY <1>4, <1>6, <2>1
    <2>3. h \in Hops /\ O["in"] \in Ops /\ O["out"] \in Ops
      BY <1>1 DEF HopRight, ReceiverOp, SenderOp
    <2>4. MidRuns(W[2].q, h, O["in"], O["out"], q, e, w + n)
      BY <1>6, <1>7, <1>8, <2>1, <2>2, <2>3, MidPushed
    <2>5. w + n \in Int
      BY <1>6
    <2> QED
      BY <2>1, <2>2, <2>4, <2>5
  <1> QED
    BY <1>1, <1>4, <1>5, <1>9, <1>10, <1>11 DEF BytesRight

(* It moves bytes of the relay to the other wire.                          *)
LEMMA HopSentKeeps ==
  ASSUME NEW c, NEW W, NEW O, NEW t, NEW r, NEW h, BytesRight(c, W, O, t, r, h),
         O["out"].st = "flight", NEW n \in 1..Len(O["out"].data),
         NEW O2, O2 = [O EXCEPT !["out"] = DoneWith(O["out"], n, <<>>)],
         NEW W2, W2 = Fill(W, 2, W[2].q \o SubSeq(O["out"].data, 1, n))
  PROVE  BytesRight(c, W2, O2, t, r, h)
  <1>1. /\ O \in [Ends -> Ops] /\ W \in [Wires -> WireStates]
        /\ HopRight(c, h, O["in"], O["out"], W[2])
    BY DEF BytesRight
  <1>2. PICK o \in Ops : o = O["out"] /\ o.data \in Bytes
    BY <1>1 DEF Ends, Ops
  <1>3. PICK o2 : o2 = DoneWith(o, n, <<>>)
    OBVIOUS
  <1>4. W[1].q \in Bytes /\ W[2].q \in Bytes /\ 2 \in Wires /\ 1 \in Wires \ {2}
    BY <1>1 DEF Wires, WireStates
  <1>5. PICK q \in Bytes : q = W[2].q \o SubSeq(o.data, 1, n)
    <2>1. Len(o.data) \in Nat
      BY <1>2 DEF Bytes
    <2>2. n \in 0..Len(o.data)
      BY <1>2, <2>1
    <2>3. SubSeq(o.data, 1, n) \in Bytes
      BY <1>2, <2>2, BytesHead
    <2> QED
      BY <1>4, <2>3, BytesConcat
  <1>6. /\ W2 \in [Wires -> WireStates] /\ W2[2].q = q /\ W2[2].shut = W[2].shut /\ W2[1] = W[1]
        /\ W2[2] = [W[2] EXCEPT !.q = q]
    <2>1. W2 = Fill(W, 2, q)
      BY <1>2, <1>5
    <2> QED
      BY <1>1, <1>4, <2>1, WireFills
  <1>7. /\ HopRight(c, h, O["in"], o2, W2[2])
        /\ \A q1 \in Bytes, e, w \in Int : MidRuns(W[2].q, h, O["in"], o, q1, e, w) =>
              MidRuns(q, h, O["in"], o2, q1, e, w)
    BY <1>1, <1>2, <1>3, <1>4, <1>5, <1>6, HopSends
  <1>8. /\ O2 \in [Ends -> Ops] /\ O2["out"] = o2 /\ O2["rx"] = O["rx"]
        /\ O2["in"] = O["in"] /\ O2["tx"] = O["tx"]
    <2>1. o2 \in Ops
      BY <1>7 DEF HopRight, SenderOp
    <2> QED
      BY <1>1, <1>2, <1>3, <2>1, OpChanges DEF Ends
  <1>9. EndRight(c, r, O["rx"], h, O["in"], W2[1], W2[2])
    <2>1. EndRight(c, r, O["rx"], h, O["in"], W[1], W[2])
      BY DEF BytesRight
    <2>2. ~W[2].shut /\ c.hop # "none"
      BY <1>1 DEF HopRight
    <2> QED
      BY <1>6, <2>1, <2>2 DEF EndRight, Drained
  <1>10. Joins(r, O["rx"], W2[2], h, O["in"], o2, W2[1], t, O["tx"])
    <2> SUFFICES ASSUME r.pc # "failed"
                 PROVE  \E e, w \in Int : /\ RunsTo(r, O["rx"].data, e)
                                          /\ MidRuns(q, h, O["in"], o2, W[1].q, e, w)
                                          /\ RunsFrom(t, O["tx"], w)
      BY <1>6 DEF Joins
    <2>1. PICK e \in Int, w \in Int : /\ RunsTo(r, O["rx"].data, e)
                                      /\ MidRuns(W[2].q, h, O["in"], o, W[1].q, e, w)
                                      /\ RunsFrom(t, O["tx"], w)
      BY <1>2 DEF BytesRight, Joins
    <2>2. MidRuns(q, h, O["in"], o2, W[1].q, e, w)
      BY <1>4, <1>7, <2>1
    <2> QED
      BY <2>1, <2>2
  <1>11. SenderState(c, t, O["tx"]) /\ (W2[1].shut => t.pc \in {"closed", "dropped"})
         /\ ReaderState(c, r, O["rx"])
    BY <1>6 DEF BytesRight
  <1> QED
    BY <1>6, <1>7, <1>8, <1>9, <1>10, <1>11 DEF BytesRight

(* The bytes of a wire that a read takes, and those it leaves.             *)
Taken(q, n, b, s) ==
  /\ b \in Bytes /\ s \in Bytes /\ Len(b) = n /\ Len(q) = Len(b) + Len(s)
  /\ \A a \in Int : IsRun(q, a) => IsRun(b, a) /\ IsRun(s, a + Len(b))
  /\ n \in 0..Len(q)

(* Taking n bytes off the front splits a string in two.                    *)
LEMMA TakenFacts ==
  ASSUME NEW q \in Bytes, NEW n \in Nat, n <= Len(q)
  PROVE  Taken(q, n, SubSeq(q, 1, n), SubSeq(q, n + 1, Len(q)))
  <1>1. Len(q) \in Nat
    BY DEF Bytes
  <1>2. n \in 0..Len(q)
    BY <1>1
  <1>3. SubSeq(q, 1, n) \in Bytes /\ Len(SubSeq(q, 1, n)) = n
    BY <1>2, BytesHead
  <1>4. SubSeq(q, n + 1, Len(q)) \in Bytes /\ Len(SubSeq(q, n + 1, Len(q))) = Len(q) - n
    <2>1. PICK l \in Nat, m \in Nat : l = Len(q) /\ n + m = l
      BY <1>1, <1>2
    <2>2. SubSeq(q, n + 1, n + m) \in Bytes /\ Len(SubSeq(q, n + 1, n + m)) = m
      <3>1. n + m <= Len(q)
        BY <2>1
      <3> QED
        BY <3>1, BytesSub
    <2> QED
      BY <2>1, <2>2
  <1>5. ASSUME NEW a \in Int, IsRun(q, a)
        PROVE  IsRun(SubSeq(q, 1, n), a) /\ IsRun(SubSeq(q, n + 1, Len(q)), a + n)
    BY <1>2, <1>5, RunHead, RunTail
  <1>6. Len(q) = n + (Len(q) - n)
    BY <1>1
  <1>7. PICK b, s : b = SubSeq(q, 1, n) /\ s = SubSeq(q, n + 1, Len(q))
    BY Zenon
  <1>8. Taken(q, n, b, s)
    BY <1>2, <1>3, <1>4, <1>5, <1>6, <1>7, Zenon DEF Taken
  <1> QED
    BY <1>7, <1>8

(* The kernel fills a read of the relay from the wire of the sender.       *)
LEMMA HopReceivedKeeps ==
  ASSUME NEW c, NEW W, NEW O, NEW t, NEW r, NEW h, BytesRight(c, W, O, t, r, h),
         O["in"].st = "flight", NEW n \in Nat \ {0}, n <= Len(W[1].q), n <= O["in"].room,
         NEW O2, O2 = [O EXCEPT !["in"] = DoneWith(O["in"], n, SubSeq(W[1].q, 1, n))],
         NEW W2, W2 = Fill(W, 1, SubSeq(W[1].q, n + 1, Len(W[1].q)))
  PROVE  BytesRight(c, W2, O2, t, r, h)
  <1>1. /\ O \in [Ends -> Ops] /\ W \in [Wires -> WireStates]
        /\ HopRight(c, h, O["in"], O["out"], W[2])
    BY DEF BytesRight
  <1>2. PICK q1 \in Bytes : q1 = W[1].q /\ W[2].q \in Bytes /\ 1 \in Wires /\ 2 \in Wires \ {1}
    BY <1>1 DEF Wires, WireStates
  <1>3. PICK b \in Bytes, s \in Bytes :
          /\ b = SubSeq(q1, 1, n) /\ s = SubSeq(q1, n + 1, Len(q1)) /\ Len(b) = n
          /\ Len(q1) = Len(b) + Len(s)
          /\ \A a \in Int : IsRun(q1, a) => IsRun(b, a) /\ IsRun(s, a + Len(b))
    <2>1. n \in Nat /\ n <= Len(q1)
      BY <1>2
    <2>2. PICK b, s : b = SubSeq(q1, 1, n) /\ s = SubSeq(q1, n + 1, Len(q1))
      OBVIOUS
    <2>3. Taken(q1, n, b, s)
      BY <2>1, <2>2, TakenFacts
    <2> QED
      BY <2>2, <2>3 DEF Taken
  <1>4. PICK i2 : i2 = DoneWith(O["in"], n, b)
    OBVIOUS
  <1>5. /\ HopRight(c, h, i2, O["out"], W[2])
        /\ \A e, w \in Int : MidRuns(W[2].q, h, O["in"], O["out"], q1, e, w) =>
              MidRuns(W[2].q, h, i2, O["out"], s, e, w)
    <2>1. n \in Int /\ Len(b) = (IF n > 0 THEN n ELSE 0)
      BY <1>3
    <2> QED
      BY <1>1, <1>2, <1>3, <1>4, <2>1, HopReceives
  <1>6. W2 \in [Wires -> WireStates] /\ W2[1].q = s /\ W2[1].shut = W[1].shut /\ W2[2] = W[2]
    <2>1. W2 = Fill(W, 1, s)
      BY <1>2, <1>3
    <2> QED
      BY <1>1, <2>1, FirstFills
  <1>7. /\ O2 \in [Ends -> Ops] /\ O2["in"] = i2 /\ O2["rx"] = O["rx"]
        /\ O2["out"] = O["out"] /\ O2["tx"] = O["tx"]
    <2>1. i2 \in Ops
      BY <1>5 DEF HopRight, ReceiverOp
    <2> QED
      BY <1>1, <1>2, <1>3, <1>4, <2>1, OpChanges DEF Ends
  <1>8. i2.res = n
    <2>1. O["in"] \in Ops
      BY <1>1 DEF Ends
    <2> QED
      BY <1>4, <2>1, DoneOp
  <1>9. ~Drained(W[1])
    <2>1. Len(q1) # 0
      BY <1>2
    <2> QED
      BY <1>2, <2>1, RunNone DEF Drained
  <1>10. EndRight(c, r, O["rx"], h, i2, W2[1], W2[2])
    <2>1. EndRight(c, r, O["rx"], h, O["in"], W[1], W[2])
      BY DEF BytesRight
    <2>2. c.hop # "none"
      BY <1>1 DEF HopRight
    <2> QED
      BY <1>6, <1>8, <1>9, <2>1, <2>2 DEF EndRight
  <1>11. Joins(r, O["rx"], W2[2], h, i2, O["out"], W2[1], t, O["tx"])
    <2> SUFFICES ASSUME r.pc # "failed"
                 PROVE  \E e, w \in Int : /\ RunsTo(r, O["rx"].data, e)
                                          /\ MidRuns(W[2].q, h, i2, O["out"], s, e, w)
                                          /\ RunsFrom(t, O["tx"], w)
      BY <1>6 DEF Joins
    <2>1. PICK e \in Int, w \in Int : /\ RunsTo(r, O["rx"].data, e)
                                      /\ MidRuns(W[2].q, h, O["in"], O["out"], q1, e, w)
                                      /\ RunsFrom(t, O["tx"], w)
      BY <1>2 DEF BytesRight, Joins
    <2>2. MidRuns(W[2].q, h, i2, O["out"], s, e, w)
      BY <1>5, <2>1
    <2> QED
      BY <2>1, <2>2
  <1>12. SenderState(c, t, O["tx"]) /\ (W2[1].shut => t.pc \in {"closed", "dropped"})
         /\ ReaderState(c, r, O["rx"])
    BY <1>6 DEF BytesRight
  <1> QED
    BY <1>5, <1>6, <1>7, <1>10, <1>11, <1>12 DEF BytesRight

(* The wire the receiver reads from.                                       *)
LastWire(c) == IF c.hop = "none" THEN 1 ELSE 2

(* What is between the receiver and the sender when the receiver has taken *)
(* the first bytes of its wire.                                            *)
LEMMA MidTaken ==
  ASSUME NEW c, NEW W \in [Wires -> WireStates], NEW h, NEW i, NEW o, HopRight(c, h, i, o, W[2]),
         NEW n \in Nat, n <= Len(W[LastWire(c)].q),
         NEW W2, W2 = Fill(W, LastWire(c), SubSeq(W[LastWire(c)].q, n + 1, Len(W[LastWire(c)].q))),
         NEW e \in Int, NEW w \in Int, MidRuns(W[2].q, h, i, o, W[1].q, e, w)
  PROVE  /\ IsRun(SubSeq(W[LastWire(c)].q, 1, n), e)
         /\ MidRuns(W2[2].q, h, i, o, W2[1].q, e + n, w)
  <1>1. W[1].q \in Bytes /\ W[2].q \in Bytes /\ 1 \in Wires \ {2} /\ 2 \in Wires \ {1}
    BY DEF Wires, WireStates
  <1>2. h \in Hops /\ i \in Ops /\ o \in Ops
    BY DEF HopRight, ReceiverOp, SenderOp
  <1>3. CASE c.hop = "none"
    <2>1. LastWire(c) = 1
      BY <1>3 DEF LastWire
    <2>2. PICK q \in Bytes : q = W[1].q
      BY <1>1
    <2>3. n \in 0..Len(q)
      <3>1. Len(q) \in Nat
        BY DEF Bytes
      <3> QED
        BY <2>1, <2>2, <3>1
    <2>4. IsRun(SubSeq(q, 1, n), e) /\ MidRuns(W[2].q, h, i, o, SubSeq(q, n + 1, Len(q)), e + n, w)
      BY <1>3, <2>2, <2>3, MidPulledNoHop
    <2>5. PICK s \in Bytes : s = SubSeq(q, n + 1, Len(q))
      <3>1. n \in Nat /\ n <= Len(q)
        BY <2>1, <2>2
      <3>2. PICK b, s : b = SubSeq(q, 1, n) /\ s = SubSeq(q, n + 1, Len(q))
        OBVIOUS
      <3>3. Taken(q, n, b, s)
        BY <3>1, <3>2, TakenFacts
      <3> QED
        BY <3>2, <3>3 DEF Taken
    <2>6. W2[1].q = s /\ W2[2] = W[2]
      <3>1. W2 = Fill(W, 1, s)
        BY <2>1, <2>2, <2>5
      <3> QED
        BY <3>1, FirstFills
    <2> QED
      BY <2>1, <2>2, <2>4, <2>5, <2>6
  <1>4. CASE c.hop # "none"
    <2>1. LastWire(c) = 2
      BY <1>4 DEF LastWire
    <2>2. PICK q \in Bytes : q = W[2].q
      BY <1>1
    <2>3. n \in 0..Len(q)
      <3>1. Len(q) \in Nat
        BY DEF Bytes
      <3> QED
        BY <2>1, <2>2, <3>1
    <2>4. IsRun(SubSeq(q, 1, n), e) /\ MidRuns(SubSeq(q, n + 1, Len(q)), h, i, o, W[1].q, e + n, w)
      BY <1>1, <1>2, <2>2, <2>3, MidPulled
    <2>5. PICK s \in Bytes : s = SubSeq(q, n + 1, Len(q))
      <3>1. n \in Nat /\ n <= Len(q)
        BY <2>1, <2>2
      <3>2. PICK b, s : b = SubSeq(q, 1, n) /\ s = SubSeq(q, n + 1, Len(q))
        OBVIOUS
      <3>3. Taken(q, n, b, s)
        BY <3>1, <3>2, TakenFacts
      <3> QED
        BY <3>2, <3>3 DEF Taken
    <2>6. W2[2].q = s /\ W2[1] = W[1]
      <3>1. W2 = Fill(W, 2, s)
        BY <2>1, <2>2, <2>5
      <3> QED
        BY <3>1, SecondFills
    <2> QED
      BY <2>1, <2>2, <2>4, <2>5, <2>6
  <1> QED
    BY <1>3, <1>4

(* The kernel fills a read of the receiver.                                *)
LEMMA ReceivedKeeps ==
  ASSUME NEW c, NEW W, NEW O, NEW t, NEW r, NEW h, BytesRight(c, W, O, t, r, h),
         O["rx"].st = "flight", NEW n \in Nat \ {0}, NEW k, k = LastWire(c),
         n <= Len(W[k].q), n <= O["rx"].room,
         NEW O2, O2 = [O EXCEPT !["rx"] = DoneWith(O["rx"], n, SubSeq(W[k].q, 1, n))],
         NEW W2, W2 = Fill(W, k, SubSeq(W[k].q, n + 1, Len(W[k].q)))
  PROVE  BytesRight(c, W2, O2, t, r, h)
  <1>1. /\ O \in [Ends -> Ops] /\ W \in [Wires -> WireStates] /\ ReaderState(c, r, O["rx"])
        /\ HopRight(c, h, O["in"], O["out"], W[2])
    BY DEF BytesRight
  <1>2. k \in Wires /\ 1 \in Wires /\ 2 \in Wires
    BY DEF LastWire, Wires
  <1>3. PICK q \in Bytes : q = W[k].q /\ Len(q) # 0
    <2>1. W[k].q \in Bytes
      BY <1>1, <1>2 DEF WireStates
    <2>2. Len(W[k].q) \in Nat
      BY <2>1 DEF Bytes
    <2> QED
      BY <2>1, <2>2
  <1>4. PICK b \in Bytes, s \in Bytes :
          b = SubSeq(q, 1, n) /\ s = SubSeq(q, n + 1, Len(q)) /\ Len(b) = n
    <2>1. n \in Nat /\ n <= Len(q)
      BY <1>3
    <2>2. PICK b, s : b = SubSeq(q, 1, n) /\ s = SubSeq(q, n + 1, Len(q))
      OBVIOUS
    <2>3. Taken(q, n, b, s)
      BY <2>1, <2>2, TakenFacts
    <2> QED
      BY <2>2, <2>3 DEF Taken
  <1>5. PICK o2 : o2 = DoneWith(O["rx"], n, b)
    OBVIOUS
  <1>6. /\ ReaderState(c, r, o2) /\ o2.data = b /\ o2.st = "done" /\ o2.res = n
        /\ r.pc # "failed"
        /\ \A e \in Int : RunsTo(r, O["rx"].data, e) /\ IsRun(b, e) => RunsTo(r, b, e + Len(b))
    <2>1. n \in Int /\ Len(b) = (IF n > 0 THEN n ELSE 0)
      BY <1>4
    <2> QED
      BY <1>1, <1>5, <2>1, ReceivedRight
  <1>7. W2 = Fill(W, k, s)
    BY <1>3, <1>4
  <1>8. /\ W2 \in [Wires -> WireStates] /\ W2[k].q = s /\ W2[k].shut = W[k].shut
        /\ W2[k] = [W[k] EXCEPT !.q = s]
        /\ \A j \in Wires \ {k} : W2[j] = W[j]
    BY <1>1, <1>2, <1>7, WireFills
  <1>9. /\ O2 \in [Ends -> Ops] /\ O2["rx"] = o2 /\ O2["in"] = O["in"]
        /\ O2["out"] = O["out"] /\ O2["tx"] = O["tx"]
    <2>1. o2 \in Ops
      BY <1>6 DEF ReaderState, ReceiverOp
    <2> QED
      BY <1>1, <1>3, <1>4, <1>5, <2>1, OpChanges DEF Ends
  <1>10. ~Drained(W[k])
    BY <1>3, RunNone DEF Drained
  <1>11. W2[1].shut = W[1].shut /\ W2[2].shut = W[2].shut
    BY <1>2, <1>8
  <1>12. c.hop = "none" => k = 1 /\ W2[2] = W[2] /\ h.pc = "none" /\ O["in"].st = "idle"
    BY <1>1, <1>2, <1>8 DEF LastWire, HopRight
  <1>13. c.hop # "none" => k = 2 /\ W2[1] = W[1]
    BY <1>2, <1>8 DEF LastWire
  <1>14. HopRight(c, h, O["in"], O["out"], W2[2])
    BY <1>1, <1>11, <1>12 DEF HopRight
  <1>15. EndRight(c, r, o2, h, O["in"], W2[1], W2[2])
    <2>1. EndRight(c, r, O["rx"], h, O["in"], W[1], W[2])
      BY DEF BytesRight
    <2>2. ~r.eof
      BY <1>10, <1>12, <1>13, <2>1 DEF EndRight
    <2>3. h.pc = "end" \/ (O["in"].st = "done" /\ O["in"].res = 0) => Drained(W2[1])
      BY <1>12, <1>13, <2>1 DEF EndRight
    <2> QED
      BY <1>6, <2>2, <2>3 DEF EndRight
  <1>16. Joins(r, o2, W2[2], h, O["in"], O["out"], W2[1], t, O["tx"])
    <2>1. PICK e \in Int, w \in Int : /\ RunsTo(r, O["rx"].data, e)
                                      /\ MidRuns(W[2].q, h, O["in"], O["out"], W[1].q, e, w)
                                      /\ RunsFrom(t, O["tx"], w)
      BY <1>6 DEF BytesRight, Joins
    <2>2. n \in Nat /\ n <= Len(W[LastWire(c)].q)
      OBVIOUS
    <2>3. W2 = Fill(W, LastWire(c), SubSeq(W[LastWire(c)].q, n + 1, Len(W[LastWire(c)].q)))
      OBVIOUS
    <2>4. /\ IsRun(SubSeq(W[LastWire(c)].q, 1, n), e)
          /\ MidRuns(W2[2].q, h, O["in"], O["out"], W2[1].q, e + n, w)
      BY <1>1, <2>1, <2>2, <2>3, MidTaken
    <2>5. RunsTo(r, b, e + n)
      BY <1>3, <1>4, <1>6, <2>1, <2>4
    <2>6. e + n \in Int
      OBVIOUS
    <2> QED
      BY <1>6, <2>1, <2>4, <2>5, <2>6 DEF Joins
  <1>17. SenderState(c, t, O["tx"]) /\ (W2[1].shut => t.pc \in {"closed", "dropped"})
    BY <1>11 DEF BytesRight
  <1> QED
    BY <1>6, <1>8, <1>9, <1>14, <1>15, <1>16, <1>17 DEF BytesRight

(* It fails, or has seen the end of the wire.                              *)
LEMMA ReceivedNothingKeeps ==
  ASSUME NEW c, NEW W, NEW O, NEW t, NEW r, NEW h, BytesRight(c, W, O, t, r, h),
         O["rx"].st = "flight", NEW n \in Int, n <= 0, n = 0 => Drained(W[LastWire(c)]),
         NEW O2, O2 = [O EXCEPT !["rx"] = DoneWith(O["rx"], n, <<>>)]
  PROVE  BytesRight(c, W, O2, t, r, h)
  <1>1. /\ O \in [Ends -> Ops] /\ W \in [Wires -> WireStates] /\ ReaderState(c, r, O["rx"])
        /\ O["rx"] \in Ops /\ O["rx"].room \in Nat
    BY DEF BytesRight, ReaderState, ReceiverOp, Ops
  <1>2. PICK b \in Bytes : b = <<>> /\ Len(b) = 0 /\ \A a : IsRun(b, a)
    BY RunNone
  <1>3. PICK o2 : o2 = DoneWith(O["rx"], n, b)
    OBVIOUS
  <1>4. /\ ReaderState(c, r, o2) /\ o2.data = b /\ o2.st = "done" /\ o2.res = n
        /\ r.pc # "failed"
        /\ \A e \in Int : RunsTo(r, O["rx"].data, e) /\ IsRun(b, e) => RunsTo(r, b, e + Len(b))
    <2>1. n <= O["rx"].room /\ Len(b) = (IF n > 0 THEN n ELSE 0)
      BY <1>1, <1>2
    <2> QED
      BY <1>1, <1>3, <2>1, ReceivedRight
  <1>5. /\ O2 \in [Ends -> Ops] /\ O2["rx"] = o2 /\ O2["in"] = O["in"]
        /\ O2["out"] = O["out"] /\ O2["tx"] = O["tx"]
    <2>1. o2 \in Ops
      BY <1>4 DEF ReaderState, ReceiverOp
    <2> QED
      BY <1>1, <1>2, <1>3, <2>1, OpChanges DEF Ends
  <1>6. EndRight(c, r, o2, h, O["in"], W[1], W[2])
    <2>1. EndRight(c, r, O["rx"], h, O["in"], W[1], W[2])
      BY DEF BytesRight
    <2>2. n = 0 => Drained(IF c.hop = "none" THEN W[1] ELSE W[2])
      BY DEF LastWire
    <2> QED
      BY <1>4, <2>1, <2>2 DEF EndRight
  <1>7. Joins(r, o2, W[2], h, O["in"], O["out"], W[1], t, O["tx"])
    <2>1. PICK e \in Int, w \in Int : /\ RunsTo(r, O["rx"].data, e)
                                      /\ MidRuns(W[2].q, h, O["in"], O["out"], W[1].q, e, w)
                                      /\ RunsFrom(t, O["tx"], w)
      BY <1>4 DEF BytesRight, Joins
    <2>2. RunsTo(r, b, e)
      <3>1. e + 0 = e
        OBVIOUS
      <3> QED
        BY <1>2, <1>4, <2>1, <3>1
    <2> QED
      BY <1>4, <2>1, <2>2 DEF Joins
  <1> QED
    BY <1>4, <1>5, <1>6, <1>7 DEF BytesRight

(* The same of a read of the relay.                                        *)
LEMMA HopReceivedNothingKeeps ==
  ASSUME NEW c, NEW W, NEW O, NEW t, NEW r, NEW h, BytesRight(c, W, O, t, r, h),
         O["in"].st = "flight", NEW n \in Int, n <= 0, n = 0 => Drained(W[1]),
         NEW O2, O2 = [O EXCEPT !["in"] = DoneWith(O["in"], n, <<>>)]
  PROVE  BytesRight(c, W, O2, t, r, h)
  <1>1. /\ O \in [Ends -> Ops] /\ HopRight(c, h, O["in"], O["out"], W[2])
        /\ O["in"] \in Ops /\ O["in"].room \in Nat
    BY DEF BytesRight, HopRight, ReceiverOp, Ops
  <1>2. PICK b \in Bytes : b = <<>> /\ Len(b) = 0 /\ \A a : IsRun(b, a)
    BY RunNone
  <1>3. PICK i2 : i2 = DoneWith(O["in"], n, b)
    OBVIOUS
  <1>4. /\ HopRight(c, h, i2, O["out"], W[2])
        /\ \A q2, q1, r1 \in Bytes, e, w \in Int :
              /\ MidRuns(q2, h, O["in"], O["out"], q1, e, w)
              /\ Len(q1) = Len(b) + Len(r1)
              /\ \A a \in Int : IsRun(q1, a) => IsRun(b, a) /\ IsRun(r1, a + Len(b))
              => MidRuns(q2, h, i2, O["out"], r1, e, w)
    <2>1. n <= O["in"].room /\ Len(b) = (IF n > 0 THEN n ELSE 0)
      BY <1>1, <1>2
    <2> QED
      BY <1>1, <1>3, <2>1, HopReceives
  <1>5. HopTo(c, h, O["in"], O["out"], W[2], h, i2, O["out"])
    <2> SUFFICES ASSUME NEW q2 \in Bytes, NEW q1 \in Bytes, NEW e \in Int, NEW w \in Int,
                        MidRuns(q2, h, O["in"], O["out"], q1, e, w)
                 PROVE  MidRuns(q2, h, i2, O["out"], q1, e, w)
      BY <1>4 DEF HopTo
    <2>1. Len(q1) \in Nat
      BY DEF Bytes
    <2>2. Len(q1) = Len(b) + Len(q1)
      BY <1>2, <2>1
    <2>3. \A a \in Int : a + Len(b) = a
      BY <1>2
    <2>4. \A a \in Int : IsRun(q1, a) => IsRun(b, a) /\ IsRun(q1, a + Len(b))
      BY <1>2, <2>3
    <2> QED
      BY <1>4, <2>2, <2>4
  <1>6. /\ O2 \in [Ends -> Ops] /\ O2["in"] = i2 /\ O2["rx"] = O["rx"]
        /\ O2["out"] = O["out"] /\ O2["tx"] = O["tx"]
    <2>1. i2 \in Ops
      BY <1>4 DEF HopRight, ReceiverOp
    <2> QED
      BY <1>1, <1>2, <1>3, <2>1, OpChanges DEF Ends
  <1>7. i2.res = n /\ h.pc # "end"
    <2>1. i2.res = n
      BY <1>1, <1>3, DoneOp
    <2>2. h.pc # "end"
      BY <1>1 DEF HopRight
    <2> QED
      BY <2>1, <2>2
  <1> QED
    BY <1>5, <1>6, <1>7, HopKeeps
-----------------------------------------------------------------------------
(* The steps of the relay.                                                 *)

(* A read that is submitted.                                               *)
LEMMA ReceiverOps ==
  ASSUME NEW n \in Nat
  PROVE  ReceiverOp(Recv(n)) /\ Recv(n).st = "flight" /\ Recv(n).data = <<>>
  <1>1. PICK x : x = Recv(n)
    OBVIOUS
  <1>2. x = [st |-> "flight", data |-> <<>>, room |-> n, res |-> 0, cancel |-> FALSE]
    BY <1>1 DEF Recv, Idle
  <1>3. x \in Ops /\ x.st = "flight" /\ x.data = <<>>
    BY <1>2, RunNone DEF Ops
  <1>4. ReceiverOp(x)
    BY <1>3 DEF ReceiverOp
  <1> QED
    BY <1>1, <1>3, <1>4

(* It starts to read.                                                      *)
LEMMA HopReads ==
  ASSUME NEW c, NEW h, NEW i, NEW o, NEW x, HopRight(c, h, i, o, x), h.pc = "read",
         i.st = "idle", NEW n \in Nat, NEW i2, i2 = Recv(n)
  PROVE  HopTo(c, h, i, o, x, h, i2, o)
  <1>1. ReceiverOp(i2) /\ i2.st = "flight" /\ i2.data = <<>>
    BY ReceiverOps
  <1>2. i.data = <<>>
    BY IdleFacts DEF HopRight, ReceiverOp
  <1>3. HopRight(c, h, i2, o, x)
    BY <1>1 DEF HopRight
  <1> QED
    BY <1>1, <1>2, <1>3, HopMoves

(* It has read nothing: it ends, fails or tries again.                     *)
LEMMA HopReadsNothing ==
  ASSUME NEW c, NEW h, NEW i, NEW o, NEW x, HopRight(c, h, i, o, x), h.pc = "read",
         i.st = "done", i.res <= 0, NEW p \in {"read", "end", "failed"},
         NEW h2, h2 = [h EXCEPT !.pc = p]
  PROVE  HopTo(c, h, i, o, x, h2, Idle, o)
  <1>1. /\ c \in Stacks /\ h \in Hops /\ ReceiverOp(i) /\ SenderOp(o) /\ i \in Ops /\ o \in Ops
        /\ h.buf = <<>> /\ h.pos = 0 /\ o.st = "idle" /\ c.hop # "none" /\ ~x.shut
        /\ h.pos + Moved(o) <= Len(h.buf)
    BY DEF HopRight, ReceiverOp, SenderOp
  <1>2. h2 \in Hops /\ h2.pc = p /\ h2.buf = h.buf /\ h2.pos = h.pos
    BY <1>1 DEF Hops
  <1>3. Len(i.data) = 0
    <2>1. i.res \in Int
      BY <1>1 DEF Ops
    <2>2. Moved(i) = 0
      BY <2>1 DEF Moved
    <2> QED
      BY <1>1, <2>2 DEF ReceiverOp
  <1>4. HopRight(c, h2, Idle, o, x)
    <2>1. ReceiverOp(Idle) /\ Idle.st = "idle"
      BY IdleFacts
    <2> QED
      BY <1>1, <1>2, <2>1 DEF HopRight
  <1>5. HopLeft(h2, o) = HopLeft(h, o)
    BY <1>2 DEF HopLeft
  <1>6. Len(Idle.data) = Len(i.data) /\ \A a \in Int : IsRun(Idle.data, a)
    BY <1>3, IdleFacts, RunNone
  <1> QED
    BY <1>2, <1>4, <1>5, <1>6, HopMoves

(* It starts to write what is left in its buffer.                          *)
LEMMA HopWrites ==
  ASSUME NEW c, NEW h, NEW i, NEW o, NEW x, HopRight(c, h, i, o, x), h.pc = "write",
         o.st = "idle", NEW o2, o2 = Send(Slice(h.buf, h.pos, Len(h.buf)))
  PROVE  HopTo(c, h, i, o, x, h, i, o2)
  <1>1. /\ h \in Hops /\ SenderOp(o) /\ h.pos + Moved(o) <= Len(h.buf) /\ Moved(o) = 0
    BY DEF HopRight, Moved
  <1>2. Slice(h.buf, h.pos, Len(h.buf)) \in Bytes
    <2>1. h.buf \in Bytes /\ h.pos \in 0..Len(h.buf)
      <3>1. h.buf \in Bytes /\ Len(h.buf) \in Nat /\ h.pos \in Nat
        BY <1>1 DEF Hops, Bytes
      <3> QED
        BY <1>1, <3>1
    <2> QED
      BY <2>1, SliceFacts
  <1>3. SenderOp(o2) /\ Moved(o2) = 0 /\ o2.st = "flight" /\ o2.data = Slice(h.buf, h.pos, Len(h.buf))
    BY <1>2, SenderOps
  <1>4. HopRight(c, h, i, o2, x)
    BY <1>1, <1>3 DEF HopRight
  <1>5. HopLeft(h, o2) = HopLeft(h, o)
    BY <1>1, <1>3 DEF HopLeft
  <1> QED
    BY <1>4, <1>5, HopMoves

(* A write has taken some bytes, or none: it goes on, or fails.            *)
LEMMA HopWrote ==
  ASSUME NEW c, NEW h, NEW i, NEW o, NEW x, HopRight(c, h, i, o, x), h.pc = "write",
         NEW p \in {"write", "failed"}, NEW h2, h2 = [h EXCEPT !.pc = p, !.pos = h.pos + Moved(o)]
  PROVE  HopTo(c, h, i, o, x, h2, i, Idle)
  <1>1. /\ c \in Stacks /\ h \in Hops /\ ReceiverOp(i) /\ SenderOp(o) /\ i \in Ops /\ o \in Ops
        /\ i.st = "idle" /\ c.hop # "none" /\ ~x.shut
        /\ h.pos + Moved(o) <= Len(h.buf)
    BY DEF HopRight, ReceiverOp, SenderOp
  <1>2. PICK l \in Nat, k \in Nat, m \in Nat : l = Len(h.buf) /\ k = h.pos /\ m = Moved(o)
    BY <1>1, HopFacts
  <1>3. h2 \in Hops /\ h2.pc = p /\ h2.buf = h.buf /\ h2.pos = k + m
    <2>1. PICK j \in Nat : j = k + m
      OBVIOUS
    <2>2. h2 = [h EXCEPT !.pc = p, !.pos = j]
      BY <1>2, <2>1
    <2>3. h2 \in Hops /\ h2.pc = p /\ h2.buf = h.buf /\ h2.pos = j
      BY <1>1, <2>2 DEF Hops
    <2> QED
      BY <2>1, <2>3
  <1>4. SenderOp(Idle) /\ Moved(Idle) = 0 /\ Idle.st = "idle"
    BY SenderOps
  <1>5. h2.pos + Moved(Idle) <= Len(h2.buf)
    BY <1>1, <1>2, <1>3, <1>4
  <1>6. HopRight(c, h2, i, Idle, x)
    BY <1>1, <1>3, <1>4, <1>5 DEF HopRight
  <1>7. HopLeft(h2, Idle) = HopLeft(h, o)
    BY <1>2, <1>3, <1>4 DEF HopLeft
  <1> QED
    BY <1>3, <1>6, <1>7, HopMoves

(* It has taken them all.                                                  *)
HopEmptied(h) == [h EXCEPT !.pc = "read", !.buf = <<>>, !.pos = 0]

(* A relay that wrote its whole buffer reads again.                        *)
LEMMA HopWroteAll ==
  ASSUME NEW c, NEW h, NEW i, NEW o, NEW x, HopRight(c, h, i, o, x), h.pc = "write",
         h.pos + Moved(o) = Len(h.buf),
         NEW h2, h2 = HopEmptied(h)
  PROVE  HopTo(c, h, i, o, x, h2, i, Idle)
  <1>1. /\ c \in Stacks /\ h \in Hops /\ ReceiverOp(i) /\ SenderOp(o) /\ i \in Ops /\ o \in Ops
        /\ i.st = "idle" /\ c.hop # "none" /\ ~x.shut
    BY DEF HopRight, ReceiverOp, SenderOp
  <1>2. PICK l \in Nat, k \in Nat, m \in Nat : l = Len(h.buf) /\ k = h.pos /\ m = Moved(o) /\ k + m = l
    BY <1>1, HopFacts
  <1>3. PICK b \in Bytes : b = <<>> /\ Len(b) = 0
    BY RunNone
  <1>4. h2 = [h EXCEPT !.pc = "read", !.buf = b, !.pos = 0]
    BY <1>3 DEF HopEmptied
  <1>5. h2 \in Hops /\ h2.pc = "read" /\ h2.buf = b /\ h2.pos = 0
    <2>1. h2 = [pc |-> "read", buf |-> b, pos |-> 0]
      BY <1>1, <1>4 DEF Hops
    <2>2. b \in Bytes
      BY <1>3
    <2>3. [pc |-> "read", buf |-> b, pos |-> 0] \in Hops
      BY <2>2, Zenon DEF Hops
    <2>4. h2 \in Hops
      BY <2>1, <2>3, Zenon
    <2>5. h2.pc = "read" /\ h2.buf = b /\ h2.pos = 0
      BY <2>1
    <2> QED
      BY <2>4, <2>5
  <1>6. SenderOp(Idle) /\ Moved(Idle) = 0 /\ Idle.st = "idle"
    BY SenderOps
  <1>7. h2.pos + Moved(Idle) <= Len(h2.buf)
    BY <1>3, <1>5, <1>6
  <1>8. HopRight(c, h2, i, Idle, x)
    BY <1>1, <1>3, <1>5, <1>6, <1>7 DEF HopRight
  <1>9. HopLeft(h2, Idle) = 0 /\ HopLeft(h, o) = 0
    BY <1>2, <1>3, <1>5, <1>6 DEF HopLeft
  <1> QED
    BY <1>3, <1>5, <1>8, <1>9, HopMoves

(* HopKeeps when only one operation changes.                               *)
LEMMA HopInKeeps ==
  ASSUME NEW c, NEW W, NEW O, NEW t, NEW r, NEW h, BytesRight(c, W, O, t, r, h),
         NEW h2, NEW i2, HopTo(c, h, O["in"], O["out"], W[2], h2, i2, O["out"]),
         NEW O2, O2 = [O EXCEPT !["in"] = i2],
         h2.pc = "end" \/ (i2.st = "done" /\ i2.res = 0) => Drained(W[1])
  PROVE  BytesRight(c, W, O2, t, r, h2)
  <1>1. O \in [Ends -> Ops] /\ i2 \in Ops
    BY DEF BytesRight, HopTo, HopRight, ReceiverOp
  <1>2. /\ O2 \in [Ends -> Ops] /\ O2["in"] = i2 /\ O2["rx"] = O["rx"]
        /\ O2["out"] = O["out"] /\ O2["tx"] = O["tx"]
    BY <1>1, OpChanges DEF Ends
  <1> QED
    BY <1>2, HopKeeps

(* The same of the operation that writes.                                  *)
LEMMA HopOutKeeps ==
  ASSUME NEW c, NEW W, NEW O, NEW t, NEW r, NEW h, BytesRight(c, W, O, t, r, h),
         NEW h2, NEW o2, HopTo(c, h, O["in"], O["out"], W[2], h2, O["in"], o2),
         NEW O2, O2 = [O EXCEPT !["out"] = o2], h2.pc # "end"
  PROVE  BytesRight(c, W, O2, t, r, h2)
  <1>1. O \in [Ends -> Ops] /\ o2 \in Ops
    BY DEF BytesRight, HopTo, HopRight, SenderOp
  <1>2. /\ O2 \in [Ends -> Ops] /\ O2["out"] = o2 /\ O2["rx"] = O["rx"]
        /\ O2["in"] = O["in"] /\ O2["tx"] = O["tx"]
    BY <1>1, OpChanges DEF Ends
  <1>3. O["in"].st = "done" /\ O["in"].res = 0 => Drained(W[1])
    BY DEF BytesRight, EndRight
  <1> QED
    BY <1>2, <1>3, HopKeeps

(* RelayRead.                                                              *)
LEMMA RelayReadRight ==
  ASSUME BytesRight(cfg, wire, op, tx, rx, hop), RelayRead
  PROVE  BytesRight(cfg, wire', op', tx, rx, hop')
  <1>1. PICK i2 : i2 = Recv(RelayCap)
    OBVIOUS
  <1>2. /\ hop.pc = "read" /\ op["in"].st = "idle" /\ op' = [op EXCEPT !["in"] = i2]
        /\ wire' = wire /\ hop' = hop
    BY <1>1 DEF RelayRead
  <1>3. HopTo(cfg, hop, op["in"], op["out"], wire[2], hop, i2, op["out"])
    <2>1. RelayCap \in Nat /\ HopRight(cfg, hop, op["in"], op["out"], wire[2])
      BY RelayAssumption DEF BytesRight
    <2> QED
      BY <1>1, <1>2, <2>1, HopReads
  <1>4. i2.st = "flight"
    BY <1>1, RelayAssumption, ReceiverOps
  <1>5. BytesRight(cfg, wire, op', tx, rx, hop)
    BY <1>2, <1>3, <1>4, HopInKeeps
  <1> QED
    BY <1>2, <1>5

(* RelayReadDone.                                                          *)
LEMMA RelayReadDoneRight ==
  ASSUME BytesRight(cfg, wire, op, tx, rx, hop), RelayReadDone
  PROVE  BytesRight(cfg, wire', op', tx, rx, hop')
  <1>1. /\ HopRight(cfg, hop, op["in"], op["out"], wire[2])
        /\ EndRight(cfg, rx, op["rx"], hop, op["in"], wire[1], wire[2])
        /\ hop \in Hops /\ op["in"] \in Ops
    BY DEF BytesRight, HopRight, ReceiverOp
  <1>2. PICK res \in Int : res = op["in"].res
    BY <1>1 DEF Ops
  <1>3. /\ hop.pc = "read" /\ op["in"].st = "done" /\ wire' = wire
        /\ op' = [op EXCEPT !["in"] = Idle]
    BY DEF RelayReadDone, HopGoes
  <1>4. Idle.st = "idle"
    BY IdleFacts
  <1>5. CASE res > 0
    <2>1. hop' = [hop EXCEPT !.pc = "write", !.pos = 0, !.buf = op["in"].data]
      BY <1>2, <1>5 DEF RelayReadDone, HopGoes, EINTR
    <2>2. PICK h2 : h2 = hop'
      OBVIOUS
    <2>3. HopTo(cfg, hop, op["in"], op["out"], wire[2], h2, Idle, op["out"])
      BY <1>1, <1>3, <2>1, <2>2, HopFills, Zenon
    <2>4. h2.pc = "write"
      BY <1>1, <2>1, <2>2 DEF Hops
    <2>5. BytesRight(cfg, wire, op', tx, rx, h2)
      BY <1>3, <1>4, <2>3, <2>4, HopInKeeps
    <2> QED
      BY <1>3, <2>2, <2>5
  <1>6. CASE res <= 0
    <2>1. PICK p \in {"read", "end", "failed"} :
            hop' = [hop EXCEPT !.pc = p] /\ (p = "end" => res = 0)
      <3>1. CASE res = 0
        <4>1. hop' = [hop EXCEPT !.pc = "end"]
          BY <1>2, <3>1 DEF RelayReadDone, HopGoes, EINTR
        <4> QED
          BY <3>1, <4>1
      <3>2. CASE res = EINTR /\ cfg.hop = "copy"
        <4>1. res # 0 /\ ~(res > 0)
          BY <3>2 DEF EINTR
        <4>2. hop' = hop
          BY <1>2, <3>2, <4>1 DEF RelayReadDone, HopGoes
        <4>3. hop = [hop EXCEPT !.pc = "read"]
          BY <1>1, <1>3 DEF Hops
        <4> QED
          BY <4>2, <4>3
      <3>3. CASE res # 0 /\ ~(res = EINTR /\ cfg.hop = "copy")
        <4>1. hop' = [hop EXCEPT !.pc = "failed"]
          BY <1>2, <1>6, <3>3 DEF RelayReadDone, HopGoes
        <4> QED
          BY <4>1
      <3> QED
        BY <3>1, <3>2, <3>3
    <2>2. PICK h2 : h2 = hop'
      OBVIOUS
    <2>3. HopTo(cfg, hop, op["in"], op["out"], wire[2], h2, Idle, op["out"])
      BY <1>1, <1>2, <1>3, <1>6, <2>1, <2>2, HopReadsNothing
    <2>4. h2.pc = p
      BY <1>1, <2>1, <2>2 DEF Hops
    <2>5. h2.pc = "end" => Drained(wire[1])
      BY <1>1, <1>2, <1>3, <2>1, <2>4 DEF EndRight
    <2>6. BytesRight(cfg, wire, op', tx, rx, h2)
      BY <1>3, <1>4, <2>3, <2>5, HopInKeeps
    <2> QED
      BY <1>3, <2>2, <2>6
  <1> QED
    BY <1>5, <1>6

(* RelayWrite.                                                             *)
LEMMA RelayWriteRight ==
  ASSUME BytesRight(cfg, wire, op, tx, rx, hop), RelayWrite
  PROVE  BytesRight(cfg, wire', op', tx, rx, hop')
  <1>1. PICK o2 : o2 = Send(Slice(hop.buf, hop.pos, Len(hop.buf)))
    OBVIOUS
  <1>2. /\ hop.pc = "write" /\ op["out"].st = "idle" /\ op' = [op EXCEPT !["out"] = o2]
        /\ wire' = wire /\ hop' = hop
    BY <1>1 DEF RelayWrite
  <1>3. HopTo(cfg, hop, op["in"], op["out"], wire[2], hop, op["in"], o2)
    <2>1. HopRight(cfg, hop, op["in"], op["out"], wire[2])
      BY DEF BytesRight
    <2> QED
      BY <1>1, <1>2, <2>1, HopWrites
  <1>4. BytesRight(cfg, wire, op', tx, rx, hop)
    BY <1>2, <1>3, HopOutKeeps
  <1> QED
    BY <1>2, <1>4

(* RelayWriteDone.                                                         *)
LEMMA RelayWriteDoneRight ==
  ASSUME BytesRight(cfg, wire, op, tx, rx, hop), RelayWriteDone
  PROVE  BytesRight(cfg, wire', op', tx, rx, hop')
  <1>1. /\ HopRight(cfg, hop, op["in"], op["out"], wire[2])
        /\ hop \in Hops /\ op["out"] \in Ops
    BY DEF BytesRight, HopRight, SenderOp
  <1>2. PICK res \in Int, l \in Nat, k \in Nat, m \in Nat :
          /\ res = op["out"].res /\ l = Len(hop.buf) /\ k = hop.pos
          /\ m = Moved(op["out"]) /\ k + m <= l
    <2>1. op["out"].res \in Int
      BY <1>1 DEF Ops
    <2>2. hop.pos + Moved(op["out"]) <= Len(hop.buf)
      BY <1>1 DEF HopRight
    <2> QED
      BY <1>1, <2>1, <2>2, HopFacts
  <1>3. /\ hop.pc = "write" /\ op["out"].st = "done" /\ wire' = wire
        /\ op' = [op EXCEPT !["out"] = Idle]
    BY DEF RelayWriteDone, HopGoes
  <1>4. m = IF res > 0 THEN res ELSE 0
    BY <1>2, <1>3 DEF Moved
  <1>5. CASE res > 0 /\ k + res = l
    <2>1. hop' = HopEmptied(hop)
      BY <1>2, <1>5 DEF RelayWriteDone, HopGoes, HopEmptied, EINTR
    <2>2. PICK h2 : h2 = hop'
      OBVIOUS
    <2>3. HopTo(cfg, hop, op["in"], op["out"], wire[2], h2, op["in"], Idle)
      <3>1. hop.pos + Moved(op["out"]) = Len(hop.buf)
        BY <1>2, <1>4, <1>5
      <3> QED
        BY <1>1, <1>3, <2>1, <2>2, <3>1, HopWroteAll
    <2>4. h2.pc # "end"
      <3>1. hop'.pc = "read"
        BY <1>1, <2>1 DEF HopEmptied, Hops
      <3> QED
        BY <2>2, <3>1
    <2>5. BytesRight(cfg, wire, op', tx, rx, h2)
      BY <1>3, <2>3, <2>4, HopOutKeeps
    <2> QED
      BY <1>3, <2>2, <2>5
  <1>6. CASE ~(res > 0 /\ k + res = l)
    <2>1. PICK p \in {"write", "failed"} : hop' = [hop EXCEPT !.pc = p, !.pos = k + m]
      <3>1. CASE res > 0
        <4>1. k + res < l /\ m = res
          BY <1>2, <1>4, <1>6, <3>1
        <4>2. hop' = [hop EXCEPT !.pos = k + res]
          BY <1>2, <3>1, <4>1 DEF RelayWriteDone, HopGoes, EINTR
        <4>3. hop' = [hop EXCEPT !.pc = "write", !.pos = k + m]
          BY <1>1, <1>3, <4>1, <4>2 DEF Hops
        <4> QED
          BY <4>3
      <3>2. CASE res = EINTR /\ cfg.hop = "copy"
        <4>1. ~(res > 0) /\ k + m = k
          BY <1>4, <3>2 DEF EINTR
        <4>2. hop' = hop
          BY <1>2, <3>2, <4>1 DEF RelayWriteDone, HopGoes
        <4>3. hop = [hop EXCEPT !.pc = "write", !.pos = k]
          BY <1>1, <1>2, <1>3 DEF Hops
        <4> QED
          BY <4>1, <4>2, <4>3
      <3>3. CASE ~(res > 0) /\ ~(res = EINTR /\ cfg.hop = "copy")
        <4>1. k + m = k
          BY <1>4, <3>3
        <4>2. hop' = [hop EXCEPT !.pc = "failed"]
          BY <1>2, <3>3 DEF RelayWriteDone, HopGoes
        <4>3. hop' = [hop EXCEPT !.pc = "failed", !.pos = k]
          BY <1>1, <1>2, <4>2 DEF Hops
        <4> QED
          BY <4>1, <4>3
      <3> QED
        BY <3>1, <3>2, <3>3
    <2>2. PICK h2 : h2 = hop'
      OBVIOUS
    <2>3. HopTo(cfg, hop, op["in"], op["out"], wire[2], h2, op["in"], Idle)
      BY <1>1, <1>2, <1>3, <2>1, <2>2, HopWrote, Zenon
    <2>4. h2.pc # "end"
      BY <1>1, <2>1, <2>2 DEF Hops
    <2>5. BytesRight(cfg, wire, op', tx, rx, h2)
      BY <1>3, <2>3, <2>4, HopOutKeeps
    <2> QED
      BY <1>3, <2>2, <2>5
  <1> QED
    BY <1>5, <1>6

(* RelayEnd, and with it every step of the relay.                          *)
LEMMA RelayRight ==
  ASSUME BytesRight(cfg, wire, op, tx, rx, hop), RelayTask
  PROVE  BytesRight(cfg, wire', op', tx, rx, hop')
  <1>1. ASSUME RelayEnd
        PROVE  BytesRight(cfg, wire', op', tx, rx, hop')
    <2>1. PICK W2 : W2 = ShutDown(wire, 2)
      OBVIOUS
    <2>2. hop.pc \in {"end", "failed"} /\ wire' = W2 /\ op' = op /\ hop' = hop
      BY <1>1, <2>1 DEF RelayEnd, shutdown, ShutDown
    <2>3. BytesRight(cfg, W2, op, tx, rx, hop)
      BY <2>1, <2>2, HopEndKeeps
    <2> QED
      BY <2>2, <2>3
  <1> QED
    BY <1>1, RelayReadRight, RelayReadDoneRight, RelayWriteRight, RelayWriteDoneRight DEF RelayTask
-----------------------------------------------------------------------------
(* The kernel.                                                             *)

(* What Complete makes of an operation.                                    *)
LEMMA CompleteIs ==
  ASSUME op \in [Ends -> Ops], NEW e \in Ends, NEW n, NEW b, Complete(e, n, b)
  PROVE  op' = [op EXCEPT ![e] = DoneWith(op[e], n, b)]
  BY DEF Complete, DoneWith

(* SenderKeeps when the wire stays as it is.                               *)
LEMMA SenderOpKeeps ==
  ASSUME NEW c, NEW W, NEW O, NEW t, NEW r, NEW h, BytesRight(c, W, O, t, r, h),
         NEW o2, SenderTo(c, t, O["tx"], t, o2), NEW O2, O2 = [O EXCEPT !["tx"] = o2]
  PROVE  BytesRight(c, W, O2, t, r, h)
  <1>1. W[1].shut => t.pc \in {"closed", "dropped"}
    BY DEF BytesRight
  <1> QED
    BY <1>1, SenderKeeps

(* A write fails, of the sender or of the relay.                           *)
LEMMA SendFails ==
  ASSUME NEW c, NEW W, NEW O, NEW t, NEW r, NEW h, BytesRight(c, W, O, t, r, h),
         NEW e \in {"tx", "out"}, O[e].st = "flight", NEW n \in Int, n <= 0,
         NEW O2, O2 = [O EXCEPT ![e] = DoneWith(O[e], n, <<>>)]
  PROVE  BytesRight(c, W, O2, t, r, h)
  <1>1. /\ SenderState(c, t, O["tx"]) /\ HopRight(c, h, O["in"], O["out"], W[2])
        /\ (W[1].shut => t.pc \in {"closed", "dropped"})
    BY DEF BytesRight
  <1>2. PICK o2 : o2 = DoneWith(O[e], n, <<>>)
    OBVIOUS
  <1>3. O2 = [O EXCEPT ![e] = o2]
    BY <1>2
  <1>4. CASE e = "tx"
    <2>1. SenderTo(c, t, O["tx"], t, o2)
      BY <1>1, <1>2, <1>4, SendFailRight
    <2>2. O2 = [O EXCEPT !["tx"] = o2]
      BY <1>3, <1>4
    <2> QED
      BY <2>1, <2>2, SenderOpKeeps
  <1>5. CASE e = "out"
    <2>1. HopTo(c, h, O["in"], O["out"], W[2], h, O["in"], o2)
      BY <1>1, <1>2, <1>5, HopSendFails
    <2>2. O2 = [O EXCEPT !["out"] = o2]
      BY <1>3, <1>5
    <2>3. h.pc # "end"
      BY <1>1, <1>5 DEF HopRight
    <2> QED
      BY <2>1, <2>2, <2>3, HopOutKeeps
  <1> QED
    BY <1>4, <1>5

(* Bytes or an error for a write.                                          *)
LEMMA KernelSendRight ==
  ASSUME BytesRight(cfg, wire, op, tx, rx, hop), NEW e \in {"tx", "out"}, KernelSend(e)
  PROVE  BytesRight(cfg, wire', op', tx, rx, hop)
  <1>1. op \in [Ends -> Ops] /\ e \in Ends /\ op[e].st = "flight"
    BY DEF BytesRight, Ends, KernelSend
  <1>2. PICK k \in {1, 2} : k = WireOf(e) /\ (e = "tx" => k = 1) /\ (e = "out" => k = 2)
    BY DEF WireOf
  <1> DEFINE fails == Complete(e, EPIPE, <<>>) /\ wire' = wire
  <1>3. CASE ~wire[k].shut /\ ~fails
    <2>1. PICK n \in 1..Len(op[e].data) :
            /\ wire' = Fill(wire, k, wire[k].q \o SubSeq(op[e].data, 1, n))
            /\ Complete(e, n, <<>>)
      BY <1>2, <1>3 DEF KernelSend, Fill
    <2>2. op' = [op EXCEPT ![e] = DoneWith(op[e], n, <<>>)]
      BY <1>1, <2>1, CompleteIs
    <2>3. CASE e = "tx"
      BY <1>1, <1>2, <1>3, <2>1, <2>2, <2>3, SentKeeps
    <2>4. CASE e = "out"
      BY <1>1, <1>2, <2>1, <2>2, <2>4, HopSentKeeps
    <2> QED
      BY <2>3, <2>4
  <1>4. CASE wire[k].shut \/ fails
    <2>1. wire' = wire /\ Complete(e, EPIPE, <<>>)
      BY <1>2, <1>4 DEF KernelSend
    <2>2. PICK n \in Int : n = EPIPE /\ n <= 0
      BY DEF EPIPE
    <2>3. op' = [op EXCEPT ![e] = DoneWith(op[e], n, <<>>)]
      BY <1>1, <2>1, <2>2, CompleteIs
    <2>4. BytesRight(cfg, wire, op', tx, rx, hop)
      BY <1>1, <2>2, <2>3, SendFails
    <2> QED
      BY <2>1, <2>4
  <1> QED
    BY <1>3, <1>4

(* Bytes, or the end of the stream, for a read.                            *)
LEMMA KernelRecvRight ==
  ASSUME BytesRight(cfg, wire, op, tx, rx, hop), NEW e \in {"rx", "in"}, KernelRecv(e)
  PROVE  BytesRight(cfg, wire', op', tx, rx, hop)
  <1>1. op \in [Ends -> Ops] /\ e \in Ends /\ op[e].st = "flight" /\ op[e].room \in Nat
    <2>1. op \in [Ends -> Ops] /\ e \in Ends /\ op[e].st = "flight"
      BY DEF BytesRight, Ends, KernelRecv
    <2>2. op[e] \in Ops
      BY <2>1
    <2> QED
      BY <2>1, <2>2 DEF Ops
  <1>2. PICK k \in {1, 2} : /\ k = WireOf(e) /\ (e = "in" => k = 1)
                            /\ (e = "rx" => k = LastWire(cfg))
    BY DEF WireOf, LastWire
  <1>3. ASSUME NEW n \in 1..op[e].room, n <= Len(wire[k].q),
               wire' = Fill(wire, k, SubSeq(wire[k].q, n + 1, Len(wire[k].q))),
               Complete(e, n, SubSeq(wire[k].q, 1, n))
        PROVE  BytesRight(cfg, wire', op', tx, rx, hop)
    <2>1. op' = [op EXCEPT ![e] = DoneWith(op[e], n, SubSeq(wire[k].q, 1, n))]
      BY <1>1, <1>3, CompleteIs
    <2>2. n \in Nat \ {0} /\ n <= op[e].room
      BY <1>1
    <2>3. CASE e = "rx"
      BY <1>1, <1>2, <1>3, <2>1, <2>2, <2>3, ReceivedKeeps
    <2>4. CASE e = "in"
      BY <1>1, <1>2, <1>3, <2>1, <2>2, <2>4, HopReceivedKeeps
    <2> QED
      BY <2>3, <2>4
  <1>4. ASSUME Drained(wire[k]), Complete(e, 0, <<>>), wire' = wire
        PROVE  BytesRight(cfg, wire', op', tx, rx, hop)
    <2>1. PICK n \in Int : n = 0
      OBVIOUS
    <2>2. op' = [op EXCEPT ![e] = DoneWith(op[e], n, <<>>)]
      BY <1>1, <1>4, <2>1, CompleteIs
    <2>3. CASE e = "rx"
      <3>1. op["rx"].st = "flight" /\ n <= 0 /\ Drained(wire[LastWire(cfg)])
        BY <1>1, <1>2, <1>4, <2>1, <2>3
      <3>2. op' = [op EXCEPT !["rx"] = DoneWith(op["rx"], n, <<>>)]
        BY <2>2, <2>3
      <3>3. BytesRight(cfg, wire, op', tx, rx, hop)
        BY <3>1, <3>2, ReceivedNothingKeeps
      <3> QED
        BY <1>4, <3>3
    <2>4. CASE e = "in"
      <3>1. op["in"].st = "flight" /\ n <= 0 /\ Drained(wire[1])
        BY <1>1, <1>2, <1>4, <2>1, <2>4
      <3>2. op' = [op EXCEPT !["in"] = DoneWith(op["in"], n, <<>>)]
        BY <2>2, <2>4
      <3>3. BytesRight(cfg, wire, op', tx, rx, hop)
        BY <3>1, <3>2, HopReceivedNothingKeeps
      <3> QED
        BY <1>4, <3>3
    <2> QED
      BY <2>3, <2>4
  <1> QED
    BY <1>2, <1>3, <1>4 DEF KernelRecv, Fill, Drained

(* An operation fails, or its cancellation reaches it.                     *)
LEMMA KernelFailRight ==
  ASSUME BytesRight(cfg, wire, op, tx, rx, hop), NEW e \in Ends, KernelFail(e)
  PROVE  BytesRight(cfg, wire', op', tx, rx, hop)
  <1>1. op \in [Ends -> Ops] /\ op[e].st = "flight" /\ wire' = wire
    BY DEF BytesRight, KernelFail
  <1>2. PICK n \in Int : n < 0 /\ Complete(e, n, <<>>)
    BY DEF KernelFail, EINTR, EIO, ECANCELED
  <1>3. op' = [op EXCEPT ![e] = DoneWith(op[e], n, <<>>)]
    BY <1>1, <1>2, CompleteIs
  <1>4. n <= 0 /\ n # 0
    BY <1>2
  <1>5. CASE e \in {"tx", "out"}
    BY <1>1, <1>3, <1>4, <1>5, SendFails
  <1>6. CASE e = "rx"
    BY <1>1, <1>3, <1>4, <1>6, ReceivedNothingKeeps
  <1>7. CASE e = "in"
    BY <1>1, <1>3, <1>4, <1>7, HopReceivedNothingKeeps
  <1> QED
    BY <1>5, <1>6, <1>7 DEF Ends

(* Canceller::cancel.                                                      *)
LEMMA CancelKeeps ==
  ASSUME BytesRight(cfg, wire, op, tx, rx, hop), canceled \in [Ends -> BOOLEAN],
         NEW C \in SUBSET Ends, cancel(C)
  PROVE  BytesRight(cfg, wire', op', tx, rx, hop) /\ canceled' \in [Ends -> BOOLEAN]
  <1>1. /\ wire' = wire
        /\ op' = [e \in Ends |-> [op[e] EXCEPT !.cancel = @ \/ (e \in C /\ op[e].st = "flight")]]
        /\ canceled' = [e \in Ends |-> canceled[e] \/ e \in C]
    BY DEF cancel
  <1>2. PICK O2 : O2 = op'
    OBVIOUS
  <1>3. op \in [Ends -> Ops]
    BY DEF BytesRight
  <1>4. ASSUME NEW e \in Ends
        PROVE  \E a \in BOOLEAN :
                 O2[e] = [op[e] EXCEPT !.cancel = @ \/ (a /\ op[e].st = "flight")]
    <2>1. PICK a \in BOOLEAN : a <=> e \in C
      <3>1. CASE e \in C
        BY <3>1
      <3>2. CASE e \notin C
        BY <3>2
      <3> QED
        BY <3>1, <3>2
    <2>2. O2[e] = [op[e] EXCEPT !.cancel = @ \/ (a /\ op[e].st = "flight")]
      BY <1>1, <1>2, <2>1
    <2> QED
      BY <2>2
  <1>5. /\ SenderState(cfg, tx, op["tx"]) /\ ReaderState(cfg, rx, op["rx"])
        /\ HopRight(cfg, hop, op["in"], op["out"], wire[2])
        /\ EndRight(cfg, rx, op["rx"], hop, op["in"], wire[1], wire[2])
    BY DEF BytesRight
  <1>6. \A e \in Ends : op[e] \in Ops /\ (op[e].st = "idle" => op[e] = Idle)
    <2>1. SenderOp(op["tx"]) /\ ReceiverOp(op["rx"]) /\ ReceiverOp(op["in"]) /\ SenderOp(op["out"])
      BY <1>5 DEF SenderState, ReaderState, HopRight
    <2> QED
      BY <2>1 DEF SenderOp, ReceiverOp, Ends
  <1>7. ASSUME NEW e \in Ends
        PROVE  /\ O2[e] \in Ops /\ O2[e].st = op[e].st /\ O2[e].data = op[e].data
               /\ O2[e].room = op[e].room /\ O2[e].res = op[e].res
               /\ Moved(O2[e]) = Moved(op[e]) /\ (O2[e].st = "idle" => O2[e] = Idle)
    <2>1. PICK a, o2 : a \in BOOLEAN /\ o2 = O2[e]
             /\ o2 = [op[e] EXCEPT !.cancel = @ \/ (a /\ op[e].st = "flight")]
      BY <1>4
    <2>2. op[e] \in Ops /\ (op[e].st = "idle" => op[e] = Idle)
      BY <1>6
    <2> QED
      BY <2>1, <2>2, CancelFacts
  <1>8. O2 \in [Ends -> Ops]
    <2>1. \A e \in Ends : O2[e] \in Ops
      BY <1>7
    <2>2. DOMAIN O2 = Ends /\ O2 = [e \in Ends |-> O2[e]]
      BY <1>1, <1>2
    <2> QED
      BY <2>1, <2>2
  <1>9. SenderTo(cfg, tx, op["tx"], tx, O2["tx"])
    <2>1. PICK a, o2 : a \in BOOLEAN /\ o2 = O2["tx"]
             /\ o2 = [op["tx"] EXCEPT !.cancel = @ \/ (a /\ op["tx"].st = "flight")]
      BY <1>4 DEF Ends
    <2> QED
      BY <1>5, <2>1, CancelRight
  <1>10. /\ ReaderState(cfg, rx, O2["rx"]) /\ O2["rx"].data = op["rx"].data
         /\ O2["rx"].st = op["rx"].st /\ O2["rx"].res = op["rx"].res
    <2>1. PICK a, o2 : a \in BOOLEAN /\ o2 = O2["rx"]
             /\ o2 = [op["rx"] EXCEPT !.cancel = @ \/ (a /\ op["rx"].st = "flight")]
      BY <1>4 DEF Ends
    <2> QED
      BY <1>5, <2>1, CancelRight
  <1>11. HopTo(cfg, hop, op["in"], op["out"], wire[2], hop, O2["in"], O2["out"])
    <2>1. PICK i2, o2 : i2 = O2["in"] /\ o2 = O2["out"]
      OBVIOUS
    <2>2. ReceiverOp(op["in"]) /\ SenderOp(op["out"])
      BY <1>5 DEF HopRight
    <2>3. /\ i2.data = op["in"].data /\ i2.st = op["in"].st /\ ReceiverOp(i2)
      BY <1>7, <2>1, <2>2 DEF Ends, ReceiverOp
    <2>4. /\ SenderOp(o2) /\ Moved(o2) = Moved(op["out"]) /\ o2.st = op["out"].st
          /\ o2.data = op["out"].data
      BY <1>7, <2>1, <2>2 DEF Ends, SenderOp
    <2> QED
      BY <1>5, <2>1, <2>3, <2>4, HopOpsChange
  <1>12. EndRight(cfg, rx, O2["rx"], hop, O2["in"], wire[1], wire[2])
    <2>1. O2["in"].st = op["in"].st /\ O2["in"].res = op["in"].res
      BY <1>7 DEF Ends
    <2> QED
      BY <1>5, <1>10, <2>1 DEF EndRight
  <1>13. Joins(rx, O2["rx"], wire[2], hop, O2["in"], O2["out"], wire[1], tx, O2["tx"])
    <2> SUFFICES ASSUME rx.pc # "failed"
                 PROVE  \E e, w \in Int :
                          /\ RunsTo(rx, O2["rx"].data, e)
                          /\ MidRuns(wire[2].q, hop, O2["in"], O2["out"], wire[1].q, e, w)
                          /\ RunsFrom(tx, O2["tx"], w)
      BY DEF Joins
    <2>1. PICK e \in Int, w \in Int :
            /\ RunsTo(rx, op["rx"].data, e)
            /\ MidRuns(wire[2].q, hop, op["in"], op["out"], wire[1].q, e, w)
            /\ RunsFrom(tx, op["tx"], w)
      BY DEF BytesRight, Joins
    <2>2. wire[1].q \in Bytes /\ wire[2].q \in Bytes
      BY DEF BytesRight, Wires, WireStates
    <2>3. MidRuns(wire[2].q, hop, O2["in"], O2["out"], wire[1].q, e, w)
      BY <1>11, <2>1, <2>2 DEF HopTo
    <2>4. RunsFrom(tx, O2["tx"], w)
      BY <1>9, <2>1 DEF SenderTo
    <2>5. RunsTo(rx, O2["rx"].data, e)
      BY <1>10, <2>1
    <2> QED
      BY <2>3, <2>4, <2>5
  <1>14. HopRight(cfg, hop, O2["in"], O2["out"], wire[2]) /\ SenderState(cfg, tx, O2["tx"])
    BY <1>9, <1>11 DEF HopTo, SenderTo
  <1>15. BytesRight(cfg, wire, O2, tx, rx, hop)
    BY <1>8, <1>10, <1>12, <1>13, <1>14 DEF BytesRight
  <1>16. canceled' \in [Ends -> BOOLEAN]
    BY <1>1
  <1> QED
    BY <1>1, <1>2, <1>15, <1>16
-----------------------------------------------------------------------------
(* The steps of the whole.                                                 *)

(* The writer's side.                                                      *)
LEMMA WriterKeeps ==
  ASSUME BytesRight(cfg, wire, op, tx, rx, hop), WriterTask \/ WriterApp
  PROVE  BytesRight(cfg, wire', op', tx', rx, hop) /\ cfg' = cfg
  <1>1. /\ op \in [Ends -> Ops] /\ SenderState(cfg, tx, op["tx"])
        /\ (wire[1].shut => tx.pc \in {"closed", "dropped"})
    BY DEF BytesRight
  <1>2. /\ SenderStep /\ cfg' = cfg /\ tx.pc \notin {"closed", "dropped"}
        /\ \/ wire' = wire
           \/ shutdown_stream /\ tx'.pc \in {"closed", "dropped"}
    BY <1>1, WriterRight
  <1>3. PICK t2, o2, W2, O2 : t2 = tx' /\ o2 = op'["tx"] /\ W2 = wire' /\ O2 = op'
    OBVIOUS
  <1>4. SenderTo(cfg, tx, op["tx"], t2, o2) /\ O2 = [op EXCEPT !["tx"] = o2]
    BY <1>2, <1>3 DEF SenderStep
  <1>5. W2 = wire \/ W2 = ShutDown(wire, 1)
    BY <1>2, <1>3 DEF shutdown_stream, shutdown, ShutDown
  <1>6. W2[1].shut => t2.pc \in {"closed", "dropped"}
    <2>1. CASE wire' = wire
      BY <1>1, <1>2, <1>3, <2>1
    <2>2. CASE tx'.pc \in {"closed", "dropped"}
      BY <1>3, <2>2
    <2> QED
      BY <1>2, <2>1, <2>2
  <1>7. BytesRight(cfg, W2, O2, t2, rx, hop)
    BY <1>4, <1>5, <1>6, SenderKeeps
  <1> QED
    BY <1>2, <1>3, <1>7

(* The reader's side.                                                      *)
LEMMA ReaderTaskKeeps ==
  ASSUME BytesRight(cfg, wire, op, tx, rx, hop), ReaderTask \/ ReaderApp
  PROVE  BytesRight(cfg, wire', op', tx, rx', hop)
  <1>1. op \in [Ends -> Ops] /\ ReaderState(cfg, rx, op["rx"])
    BY DEF BytesRight
  <1>2. rx.pc # "failed" /\ wire' = wire
    BY Zenon DEF ReaderTask, ReaderApp, ReadLoop, UntilLoop, ReadDone, ReadErr, BeginRead, DropRead,
           socketVars
  <1>3. PICK e \in Int, w \in Int :
          /\ RunsTo(rx, op["rx"].data, e)
          /\ MidRuns(wire[2].q, hop, op["in"], op["out"], wire[1].q, e, w)
          /\ RunsFrom(tx, op["tx"], w)
    BY <1>2 DEF BytesRight, Joins
  <1>4. ReaderAt(cfg, rx, op["rx"], e)
    BY <1>1, <1>2, <1>3 DEF ReaderAt
  <1>5. ReaderStep(e)
    BY <1>1, <1>4, BeginReadRight, ReadLoopRight, UntilLoopRight, ReadDoneRight, ReadErrRight,
       DropReadRight DEF ReaderTask, ReaderApp
  <1>6. PICK r2, o2, O2 : r2 = rx' /\ o2 = op'["rx"] /\ O2 = op'
    OBVIOUS
  <1>7. ReaderTo(cfg, rx, op["rx"], e, r2, o2) /\ O2 = [op EXCEPT !["rx"] = o2]
    BY <1>5, <1>6 DEF ReaderStep
  <1>8. BytesRight(cfg, wire, O2, tx, r2, hop)
    BY <1>3, <1>7, ReaderKeeps
  <1> QED
    BY <1>2, <1>6, <1>8

(* The actions of a writer that has its stream.                            *)
WriterCalls == \/ BeginWrite \/ WriteAllLoop \/ WriteLoop \/ WriteAllDone \/ WriteDone
               \/ BeginFlush \/ Flushed \/ BeginShutdown \/ Shutdown
               \/ PollWrite \/ PollPending \/ PollFlush \/ PollShutdown \/ DropWriteHalf

(* A writer that has its stream keeps it.                                  *)
LEMMA WriterStays ==
  ASSUME tx \in Senders, WriterCalls
  PROVE  tx.pc \notin Opening /\ tx'.pc \notin Opening
  <1>1. tx.pc \notin Opening
    BY Zenon DEF WriterCalls, Opening,
           WriteAllLoop, WriteLoop, WriteAllDone, WriteDone, Flushed, Shutdown, BeginWrite,
           BeginFlush, BeginShutdown, PollWrite, PollPending, PollFlush, PollShutdown,
           DropWriteHalf
  <1> SUFFICES tx'.pc \notin Opening
    BY <1>1
  <1>2. ASSUME NEW t, NEW s, SocketWrite(t, s) \/ Awaits(t, s)
        PROVE  tx' = t
    BY <1>2 DEF SocketWrite, Awaits
  <1>3. ASSUME NEW t, NEW n, Returns(t, n), DOMAIN t = DOMAIN tx
        PROVE  tx'.pc \notin Opening
    <2>1. PICK g : g = t.given + n
      OBVIOUS
    <2>2. tx' = [t EXCEPT !.pc = "idle", !.call = "none", !.data = <<>>, !.given = g]
      BY <1>3, <2>1, Zenon DEF Returns
    <2>3. "pc" \in DOMAIN t
      BY <1>3 DEF Senders
    <2>4. tx'.pc = "idle"
      BY <2>2, <2>3
    <2> QED
      BY <2>4 DEF Opening
  <1>4. Fails(tx) => tx'.pc \notin Opening
    BY DEF Fails, Senders, Opening
  <1>5. CASE BeginWrite
    <2>1. PICK d, k : \/ tx' = [[tx EXCEPT !.call = k, !.data = d] EXCEPT !.pc = "write"]
                      \/ tx' = [[tx EXCEPT !.call = k, !.data = d] EXCEPT
                                    !.pc = "write_all", !.buf = d, !.data = <<>>]
      <3>1. PICK n \in 1..MaxWrite, k \in {"write", "write_all"} :
              tx' = IF cfg.tx = "raw" /\ k = "write_all"
                    THEN [[tx EXCEPT !.call = k, !.data = NextBytes(n)] EXCEPT
                             !.pc = "write_all", !.buf = [tx EXCEPT !.call = k, !.data = NextBytes(n)].data,
                             !.data = <<>>]
                    ELSE [[tx EXCEPT !.call = k, !.data = NextBytes(n)] EXCEPT !.pc = "write"]
        BY <1>5, Zenon DEF BeginWrite
      <3>2. [tx EXCEPT !.call = k, !.data = NextBytes(n)].data = NextBytes(n)
        BY DEF Senders
      <3> QED
        BY <3>1, <3>2, Zenon
    <2>2. tx'.pc \in {"write", "write_all"}
      <3>1. [[tx EXCEPT !.call = k, !.data = d] EXCEPT !.pc = "write"].pc = "write"
        BY DEF Senders
      <3>2. [[tx EXCEPT !.call = k, !.data = d] EXCEPT
                !.pc = "write_all", !.buf = d, !.data = <<>>].pc = "write_all"
        BY DEF Senders
      <3> QED
        BY <2>1, <3>1, <3>2, Zenon
    <2> QED
      BY <2>2 DEF Opening
  <1>6. CASE WriteAllLoop
    BY <1>1, <1>2, <1>6 DEF WriteAllLoop
  <1>7. CASE WriteLoop
    <2>1. CASE cfg.tx = "raw"
      BY <1>1, <1>2, <1>7, <2>1 DEF WriteLoop
    <2>2. CASE cfg.tx # "raw"
      <3>1. \/ tx' = [tx EXCEPT !.pc = "flush_buf", !.pos = 0]
            \/ Awaits(tx, tx.data)
            \/ Returns([tx EXCEPT !.buf = @ \o tx.data], Len(tx.data))
        BY <1>7, <2>2, Zenon DEF WriteLoop, BufWriterWrite
      <3>2. CASE tx' = [tx EXCEPT !.pc = "flush_buf", !.pos = 0]
        <4>1. tx'.pc = "flush_buf"
          BY <3>2 DEF Senders
        <4> QED
          BY <4>1 DEF Opening
      <3>3. CASE Awaits(tx, tx.data)
        BY <1>1, <1>2, <3>3
      <3>4. CASE Returns([tx EXCEPT !.buf = @ \o tx.data], Len(tx.data))
        <4>1. PICK t : t = [tx EXCEPT !.buf = @ \o tx.data]
          OBVIOUS
        <4>2. DOMAIN t = DOMAIN tx
          BY <4>1
        <4> QED
          BY <1>3, <3>4, <4>1, <4>2
      <3> QED
        BY <3>1, <3>2, <3>3, <3>4
    <2> QED
      BY <2>1, <2>2
  <1>8. CASE WriteAllDone
    <2>1. PICK t : t = WriteAllResult(tx, op["tx"].res)
      OBVIOUS
    <2>2. t.pc \in {tx.pc, "failed"} /\ t.call = tx.call /\ DOMAIN t = DOMAIN tx
      BY <2>1 DEF WriteAllResult, Senders
    <2>3. tx.pc \in {"write_all", "flush_buf"}
      BY <1>8 DEF WriteAllDone
    <2>4. \/ Fails(tx)
          \/ tx' = t /\ t.pc # "failed"
          \/ Returns([t EXCEPT !.buf = <<>>, !.pos = 0], Len(t.buf))
          \/ tx' = [[t EXCEPT !.buf = <<>>, !.pos = 0] EXCEPT !.pc =
                       IF t.call = "write_all" THEN "write" ELSE t.call]
      <3>1. \/ t.pc = "failed"
            \/ t.pc # "failed" /\ ~AllSent(t)
            \/ t.pc = "write_all" /\ AllSent(t)
            \/ t.pc = "flush_buf" /\ AllSent(t)
        BY <2>2, <2>3
      <3>2. CASE t.pc = "failed"
        BY <1>8, <2>1, <3>2, Zenon DEF WriteAllDone
      <3>3. CASE t.pc # "failed" /\ ~AllSent(t)
        BY <1>8, <2>1, <3>3, Zenon DEF WriteAllDone
      <3>4. CASE t.pc = "write_all" /\ AllSent(t)
        <4>1. t.pc # "failed" /\ t.pc # "flush_buf"
          BY <3>4
        <4> QED
          BY <1>8, <2>1, <3>4, <4>1, Zenon DEF WriteAllDone
      <3>5. CASE t.pc = "flush_buf" /\ AllSent(t)
        <4>1. t.pc # "failed" /\ t.pc # "write_all"
          BY <3>5
        <4> QED
          BY <1>8, <2>1, <3>5, <4>1, Zenon DEF WriteAllDone
      <3> QED
        BY <3>1, <3>2, <3>3, <3>4, <3>5
    <2>5. CASE tx' = t /\ t.pc # "failed"
      BY <1>1, <2>2, <2>5
    <2>6. CASE Returns([t EXCEPT !.buf = <<>>, !.pos = 0], Len(t.buf))
      <3>1. PICK t2 : t2 = [t EXCEPT !.buf = <<>>, !.pos = 0]
        OBVIOUS
      <3>2. DOMAIN t2 = DOMAIN tx
        BY <2>2, <3>1
      <3> QED
        BY <1>3, <2>6, <3>1, <3>2
    <2>7. CASE tx' = [[t EXCEPT !.buf = <<>>, !.pos = 0] EXCEPT !.pc =
                       IF t.call = "write_all" THEN "write" ELSE t.call]
      <3>1. PICK q : q = IF tx.call = "write_all" THEN "write" ELSE tx.call
        OBVIOUS
      <3>2. q \notin Opening
        <4>1. q \in {"none", "write", "flush", "shutdown"}
          BY <3>1 DEF Senders
        <4> QED
          BY <4>1 DEF Opening
      <3>3. tx' = [[t EXCEPT !.buf = <<>>, !.pos = 0] EXCEPT !.pc = q]
        BY <2>2, <2>7, <3>1, Zenon
      <3>4. "pc" \in DOMAIN [t EXCEPT !.buf = <<>>, !.pos = 0]
        BY <2>2 DEF Senders
      <3>5. tx'.pc = q
        BY <3>3, <3>4
      <3> QED
        BY <3>2, <3>5
    <2> QED
      BY <1>4, <2>4, <2>5, <2>6, <2>7, Zenon
  <1>9. CASE WriteDone
    <2>1. PICK n, d : \/ Fails(tx) \/ Returns(tx, n)
                      \/ tx' = [tx EXCEPT !.data = d, !.given = @ + n]
      BY <1>9, Zenon DEF WriteDone
    <2>2. CASE Returns(tx, n)
      BY <1>3, <2>2
    <2>3. CASE tx' = [tx EXCEPT !.data = d, !.given = @ + n]
      <3>1. PICK g : g = tx.given + n
        OBVIOUS
      <3>2. tx' = [tx EXCEPT !.data = d, !.given = g]
        BY <2>3, <3>1, Zenon
      <3>3. tx'.pc = tx.pc
        BY <3>2 DEF Senders
      <3> QED
        BY <1>1, <3>3
    <2> QED
      BY <1>4, <2>1, <2>2, <2>3, Zenon
  <1>10. CASE BeginFlush
    BY <1>10 DEF BeginFlush, Senders, Opening
  <1>11. CASE Flushed
    BY <1>11 DEF Flushed, Returns, Senders, Opening
  <1>12. CASE BeginShutdown
    BY <1>12 DEF BeginShutdown, Senders, Opening
  <1>13. CASE Shutdown
    BY <1>13 DEF Shutdown, Senders, Opening
  <1>14. CASE PollWrite
    <2>1. PICK b, g : tx' = [tx EXCEPT !.buf = b, !.pos = 0, !.given = g]
      BY <1>14, Zenon DEF PollWrite, Awaits
    <2> QED
      BY <1>1, <2>1 DEF Senders
  <1>15. CASE PollPending
    <2>1. Polled.pc \in {tx.pc, "failed"}
      BY DEF Polled, WriteAllResult, Senders
    <2>2. Fails(tx) \/ (Polled.pc # "failed" /\ tx' = Polled)
      BY <1>2, <1>15, Zenon DEF PollPending
    <2> QED
      BY <1>1, <1>4, <2>1, <2>2
  <1>16. CASE PollFlush
    BY <1>16 DEF PollFlush, Returns, Senders, Opening
  <1>17. CASE PollShutdown
    BY <1>17 DEF PollShutdown, Senders, Opening
  <1>18. CASE DropWriteHalf
    BY <1>18 DEF DropWriteHalf, Senders, Opening
  <1> QED
    BY <1>1, <1>5, <1>6, <1>7, <1>8, <1>9, <1>10, <1>11, <1>12, <1>13, <1>14, <1>15, <1>16, <1>17,
       <1>18 DEF WriterCalls

(* The two cases of a stream that is handed out.                           *)
LEMMA PeerFits ==
  ASSUME NEW c, NEW p, NEW place, NEW x,
         place # "new", p = "established" \/ (p = "deferred" /\ c.fast /\ ~Used(x))
  PROVE  PeerRight(c, p, place, x)
  <1>1. p \in {"listening", "connecting", "deferred", "established", "refused"}
    OBVIOUS
  <1>2. place \in {"connect", "writable"} => p # "listening"
    OBVIOUS
  <1>3. place = "take_error" => p \in {"deferred", "established", "refused"}
    OBVIOUS
  <1>4. p = "deferred" => c.fast /\ ~Used(x)
    OBVIOUS
  <1>5. p # "listening"
    OBVIOUS
  <1>6. p \in {"listening", "deferred"} => ~Used(x)
    BY <1>4, <1>5
  <1>7. place \notin Opening => \/ p = "established"
                                \/ c.fast /\ (p = "deferred" \/ (Used(x) /\ p # "listening"))
    BY Zenon
  <1>8. place = "new" => p = "listening"
    OBVIOUS
  <1>9. p = "deferred" => c.fast
    BY <1>4
  <1> QED
    BY <1>1, <1>2, <1>3, <1>6, <1>7, <1>8, <1>9, Zenon DEF PeerRight

(* A connection that is made stays right.                                  *)
LEMMA PeerMade ==
  ASSUME NEW c, NEW place, place # "new", NEW x
  PROVE  PeerRight(c, "established", place, x)
  BY PeerFits

(* What the writer sees and does of the connection.                        *)
LEMMA PeerKeeps ==
  ASSUME PeerRight(cfg, peer, tx.pc, wire[1]), tx \in Senders, WriterTask \/ WriterApp,
         BytesRight(cfg, wire, op, tx, rx, hop)
  PROVE  PeerRight(cfg, peer', tx'.pc, wire'[1])
  <1>1. wire \in [Wires -> WireStates] /\ 1 \in Wires
    BY DEF BytesRight, Wires
  <1>2. CASE WriterCalls
    <2>1. tx.pc \notin Opening /\ tx'.pc \notin Opening
      BY <1>2, WriterStays
    <2>2. (wire' = wire /\ peer' = peer) \/ shutdown_stream
      BY <1>2, Zenon DEF WriterCalls,
             WriteAllLoop, WriteLoop, WriteAllDone, WriteDone, Flushed, Shutdown, BeginWrite,
             BeginFlush, BeginShutdown, PollWrite, PollPending, PollFlush, PollShutdown,
             DropWriteHalf, socketVars
    <2>3. CASE wire' = wire /\ peer' = peer
      BY <2>1, <2>3 DEF PeerRight, Opening
    <2>4. CASE shutdown_stream
      <3>1. PICK x, y : x = wire[1] /\ y = wire'[1]
        OBVIOUS
      <3>2. /\ wire' = [wire EXCEPT ![1].shut = TRUE]
            /\ peer' = IF peer \in {"deferred", "connecting"} THEN "refused" ELSE peer
        BY <2>4 DEF shutdown_stream, shutdown
      <3>3. x \in WireStates /\ y = [x EXCEPT !.shut = TRUE]
        BY <1>1, <3>1, <3>2
      <3>4. Used(y)
        BY <3>3 DEF Used, WireStates
      <3>5. peer # "listening"
        BY <2>1 DEF PeerRight
      <3> QED
        BY <2>1, <3>1, <3>2, <3>4, <3>5 DEF PeerRight, Opening
    <2> QED
      BY <2>2, <2>3, <2>4
  <1>3. CASE Connect \/ ConnectDone \/ Writable \/ TakeError
    <2>1. wire' = wire
      BY <1>3 DEF Connect, ConnectDone, Writable, TakeError, socketVars
    <2>2. CASE Connect
      <3>1. /\ tx.pc = "new" /\ tx'.pc = "connect"
            /\ peer' = "connecting" \/ (cfg.fast /\ peer' = "deferred")
        BY <2>2 DEF Connect, Senders
      <3> QED
        BY <2>1, <3>1 DEF PeerRight, Opening
    <2>3. CASE ConnectDone
      <3>1. PICK p : p = tx'.pc
        OBVIOUS
      <3>2. /\ tx.pc = "connect" /\ peer' = peer /\ (cfg.legacy \/ peer # "connecting")
            /\ p = IF cfg.legacy THEN "writable"
                                ELSE IF peer = "refused" THEN "refused"
                                ELSE IF cfg.sock = "unix" THEN "take_error"
                                ELSE "idle"
        BY <2>3, <3>1 DEF ConnectDone, Senders, socketVars
      <3>3. /\ peer # "listening"
            /\ peer \in {"listening", "connecting", "deferred", "established", "refused"}
        BY <3>2 DEF PeerRight
      <3>4. PeerRight(cfg, peer, p, wire[1])
        <4>1. /\ peer = "deferred" => cfg.fast
              /\ peer \in {"listening", "deferred"} => ~Used(wire[1])
          BY DEF PeerRight
        <4>2. CASE p = "writable"
          BY <3>3, <4>1, <4>2 DEF PeerRight, Opening
        <4>3. CASE p = "refused"
          BY <3>3, <4>1, <4>3 DEF PeerRight, Opening
        <4>4. CASE p \in {"take_error", "idle"} /\ peer \in {"deferred", "established"}
          <5>1. p # "new"
            BY <4>4
          <5>2. peer = "established" \/ (peer = "deferred" /\ cfg.fast /\ ~Used(wire[1]))
            BY <4>1, <4>4
          <5> QED
            BY <5>1, <5>2, PeerFits
        <4> QED
          BY <3>2, <3>3, <4>2, <4>3, <4>4
      <3> QED
        BY <2>1, <3>1, <3>2, <3>4
    <2>4. CASE Writable
      <3>1. tx.pc = "writable" /\ peer # "connecting" /\ tx'.pc = "take_error" /\ peer' = peer
        BY <2>4 DEF Writable, Senders, socketVars
      <3> QED
        BY <2>1, <3>1 DEF PeerRight, Opening
    <2>5. CASE TakeError
      <3>1. /\ tx.pc = "take_error" /\ peer' = peer
            /\ tx'.pc = IF peer = "refused" THEN "refused" ELSE "idle"
        BY <2>5 DEF TakeError, Senders, socketVars
      <3>2. /\ peer \in {"deferred", "established", "refused"}
            /\ peer = "deferred" => cfg.fast
            /\ peer \in {"listening", "deferred"} => ~Used(wire[1])
        BY <3>1 DEF PeerRight
      <3>3. PeerRight(cfg, peer, tx'.pc, wire[1])
        <4>1. CASE peer = "refused"
          BY <3>1, <4>1 DEF PeerRight, Opening
        <4>2. CASE peer # "refused"
          <5>1. tx'.pc # "new"
            BY <3>1, <4>2
          <5>2. peer = "established" \/ (peer = "deferred" /\ cfg.fast /\ ~Used(wire[1]))
            BY <3>2, <4>2
          <5> QED
            BY <5>1, <5>2, PeerFits
        <4> QED
          BY <4>1, <4>2
      <3> QED
        BY <2>1, <3>1, <3>3
    <2> QED
      BY <1>3, <2>2, <2>3, <2>4, <2>5, Zenon
  <1> QED
    BY <1>2, <1>3, Zenon DEF WriterTask, WriterApp, WriterCalls

(* What the kernel makes of it: the first bytes of a stream with fast open *)
(* begin the connection, and only one that is made delivers.               *)
LEMMA KernelPeer ==
  ASSUME PeerRight(cfg, peer, tx.pc, wire[1]), Kernel,
         BytesRight(cfg, wire, op, tx, rx, hop)
  PROVE  PeerRight(cfg, peer', tx.pc, wire'[1])
  <1>1. /\ wire \in [Wires -> WireStates] /\ 1 \in Wires /\ 2 \in Wires
        /\ SenderState(cfg, tx, op["tx"])
    BY DEF BytesRight, Wires
  <1>2. CASE wire'[1] = wire[1] /\ peer' = peer
    BY <1>2
  <1>3. ASSUME NEW e \in {"tx", "out"}, KernelSend(e)
        PROVE  PeerRight(cfg, peer', tx.pc, wire'[1])
    <2>1. CASE wire' = wire /\ peer' = peer
      BY <2>1
    <2>2. CASE e = "tx" /\ ~(wire' = wire /\ peer' = peer)
      <3>1. WireOf(e) = 1
        BY <2>2 DEF WireOf
      <3>2. PICK n \in 1..Len(op["tx"].data) :
              /\ op["tx"].st = "flight" /\ peer \in {"deferred", "established"}
              /\ wire' = [wire EXCEPT ![1].q = @ \o SubSeq(op["tx"].data, 1, n)]
              /\ peer' = IF peer = "deferred" THEN "connecting" ELSE peer
        BY <1>3, <2>2, <3>1 DEF KernelSend
      <3>3. tx.pc \notin Opening
        <4>1. ASSUME tx.pc \in Opening
              PROVE  FALSE
          <5>1. SenderBuffers(cfg, tx, op["tx"]) /\ SenderCalls(cfg, tx, op["tx"]) /\ cfg \in Stacks
            BY <1>1, <4>1 DEF SenderState, Opening, Broken
          <5>2. tx.buf = <<>>
            BY <4>1, <5>1 DEF SenderBuffers
          <5>3. op["tx"].st # "idle"
            BY <3>2
          <5>4. CASE cfg.tx = "compat"
            BY <5>1, <5>2, <5>3, <5>4 DEF SenderCalls
          <5>5. CASE cfg.tx # "compat"
            BY <4>1, <5>1, <5>3, <5>5 DEF SenderBuffers, InBuf, Opening
          <5> QED
            BY <5>4, <5>5
        <4> QED
          BY <4>1
      <3>4. CASE peer = "established"
        BY <3>2, <3>3, <3>4, PeerMade DEF Opening
      <3>5. CASE peer = "deferred"
        <4>1. PICK s, d, x : s = wire[1].q /\ d = SubSeq(op["tx"].data, 1, n) /\ x = wire'[1]
          OBVIOUS
        <4>2. s \in Bytes /\ x.q = s \o d
          BY <1>1, <3>2, <4>1 DEF WireStates
        <4>3. op["tx"].data \in Bytes
          BY <1>1 DEF SenderState, SenderOp, Ops
        <4>4. d \in Bytes /\ Len(d) = n
          BY <4>1, <4>3, SubSeqProperties DEF Bytes
        <4>5. x.q # <<>>
          <5>1. Len(s \o d) = Len(s) + Len(d) /\ Len(s) \in Nat
            <6>1. s \in Seq(Int) /\ d \in Seq(Int)
              BY <4>2, <4>4 DEF Bytes
            <6> QED
              BY <6>1, ConcatProperties
          <5>2. Len(x.q) >= 1
            BY <4>2, <4>4, <5>1
          <5> QED
            BY <5>2, RunNone
        <4>6. peer' = "connecting" /\ cfg.fast /\ Used(x)
          BY <3>2, <3>5, <4>5 DEF PeerRight, Used
        <4> QED
          BY <3>3, <4>1, <4>6 DEF PeerRight, Opening
      <3> QED
        BY <3>2, <3>4, <3>5
    <2>3. CASE e = "out" /\ ~(wire' = wire /\ peer' = peer)
      <3>1. WireOf(e) = 2
        BY <2>3 DEF WireOf
      <3>2. PICK n \in 1..Len(op[e].data) :
              /\ wire' = [wire EXCEPT ![WireOf(e)].q = @ \o SubSeq(op[e].data, 1, n)]
              /\ peer' = IF WireOf(e) = 1 /\ peer = "deferred" THEN "connecting" ELSE peer
        BY <1>3, <2>3, Zenon DEF KernelSend
      <3>3. wire'[1] = wire[1] /\ peer' = peer
        BY <1>1, <3>1, <3>2
      <3> QED
        BY <3>3
    <2> QED
      BY <2>1, <2>2, <2>3
  <1>4. ASSUME NEW e \in {"rx", "in"}, KernelRecv(e)
        PROVE  PeerRight(cfg, peer', tx.pc, wire'[1])
    <2>1. peer' = peer
      BY <1>4 DEF KernelRecv
    <2>2. CASE WireOf(e) = 1
      <3>1. peer = "established"
        BY <1>4, <2>2 DEF KernelRecv
      <3>2. tx.pc # "new"
        BY <3>1 DEF PeerRight
      <3> QED
        BY <2>1, <3>1, <3>2, PeerMade
    <2>3. CASE WireOf(e) # 1
      <3>1. \/ wire' = wire
            \/ \E n : wire' = [wire EXCEPT ![WireOf(e)].q = SubSeq(@, n + 1, Len(@))]
        BY <1>4, Zenon DEF KernelRecv
      <3>2. wire'[1] = wire[1]
        BY <1>1, <2>3, <3>1
      <3> QED
        BY <2>1, <3>2
    <2> QED
      BY <2>2, <2>3
  <1>5. ASSUME NEW e, KernelFail(e)
        PROVE  PeerRight(cfg, peer', tx.pc, wire'[1])
    <2>1. wire' = wire /\ peer' = peer
      BY <1>5 DEF KernelFail
    <2> QED
      BY <2>1
  <1> QED
    BY <1>3, <1>4, <1>5 DEF Kernel

(* The flags of the Canceller, which a new call sets back.                 *)
LEMMA FlagsKept ==
  ASSUME canceled \in [Ends -> BOOLEAN],
         WriterTask \/ WriterApp \/ ReaderTask \/ ReaderApp \/ RelayTask
  PROVE  canceled' \in [Ends -> BOOLEAN]
  <1>1. \/ canceled' = canceled
        \/ canceled' = [canceled EXCEPT !["tx"] = FALSE]
        \/ canceled' = [canceled EXCEPT !["rx"] = FALSE]
    BY Zenon DEF WriterTask, WriterApp, ReaderTask, ReaderApp, RelayTask, Connect, ConnectDone,
           Writable, TakeError, WriteAllLoop, WriteLoop, WriteAllDone, WriteDone, Flushed, Shutdown,
           BeginWrite, BeginFlush, BeginShutdown, PollWrite, PollPending, PollFlush, PollShutdown,
           DropWriteHalf, socketVars, ReadLoop, UntilLoop, ReadDone, ReadErr, BeginRead, DropRead,
           RelayRead, RelayReadDone, RelayWrite, RelayWriteDone, RelayEnd
  <1> QED
    BY <1>1, Zenon

(* Every step keeps the invariant.                                         *)
LEMMA StreamInvKept ==
  ASSUME StreamInv, [StreamNext]_streamVars
  PROVE  StreamInv'
  <1>1. /\ cfg \in Configs /\ canceled \in [Ends -> BOOLEAN] /\ PeerRight(cfg, peer, tx.pc, wire[1])
        /\ BytesRight(cfg, wire, op, tx, rx, hop) /\ tx \in Senders
    BY DEF StreamInv, BytesRight, SenderState
  <1> SUFFICES /\ cfg' = cfg /\ canceled' \in [Ends -> BOOLEAN]
               /\ PeerRight(cfg, peer', tx'.pc, wire'[1])
               /\ BytesRight(cfg, wire', op', tx', rx', hop')
    BY <1>1 DEF StreamInv
  <1>2. CASE (WriterTask \/ WriterApp) /\ UNCHANGED <<rx, hop>>
    <2>1. rx' = rx /\ hop' = hop
      BY <1>2
    <2>2. BytesRight(cfg, wire', op', tx', rx, hop) /\ cfg' = cfg
      BY <1>1, <1>2, WriterKeeps
    <2>3. PeerRight(cfg, peer', tx'.pc, wire'[1])
      BY <1>1, <1>2, PeerKeeps
    <2>4. canceled' \in [Ends -> BOOLEAN]
      BY <1>1, <1>2, FlagsKept
    <2> QED
      BY <2>1, <2>2, <2>3, <2>4
  <1>3. CASE (ReaderTask \/ ReaderApp) /\ UNCHANGED <<tx, hop>>
    <2>1. tx' = tx /\ hop' = hop
      BY <1>3
    <2>2. BytesRight(cfg, wire', op', tx, rx', hop)
      BY <1>1, <1>3, ReaderTaskKeeps
    <2>3. cfg' = cfg /\ peer' = peer /\ wire' = wire
      BY <1>3, Zenon DEF ReaderTask, ReaderApp, ReadLoop, UntilLoop, ReadDone, ReadErr, BeginRead,
             DropRead, socketVars
    <2>4. canceled' \in [Ends -> BOOLEAN]
      BY <1>1, <1>3, FlagsKept
    <2> QED
      BY <1>1, <2>1, <2>2, <2>3, <2>4
  <1>4. CASE RelayTask /\ UNCHANGED <<tx, rx>>
    <2>1. tx' = tx /\ rx' = rx
      BY <1>4
    <2>2. BytesRight(cfg, wire', op', tx, rx, hop')
      BY <1>1, <1>4, RelayRight
    <2>3. cfg' = cfg /\ peer' = peer /\ (wire' = wire \/ shutdown(2))
      BY <1>4 DEF RelayTask, RelayRead, RelayReadDone, RelayWrite, RelayWriteDone, RelayEnd
    <2>5. wire'[1] = wire[1]
      <3>1. wire \in [Wires -> WireStates]
        BY <1>1 DEF BytesRight
      <3> QED
        BY <2>3, <3>1 DEF shutdown, Wires
    <2>4. canceled' \in [Ends -> BOOLEAN]
      BY <1>1, <1>4, FlagsKept
    <2> QED
      BY <1>1, <2>1, <2>2, <2>3, <2>4, <2>5
  <1>5. CASE Kernel /\ UNCHANGED <<tx, rx, hop>>
    <2>1. tx' = tx /\ rx' = rx /\ hop' = hop
      BY <1>5
    <2>2. BytesRight(cfg, wire', op', tx, rx, hop)
      BY <1>1, <1>5, KernelSendRight, KernelRecvRight, KernelFailRight DEF Kernel, Ends
    <2>3. cfg' = cfg /\ canceled' = canceled
      BY <1>5 DEF Kernel, KernelSend, KernelRecv, KernelFail
    <2>4. PeerRight(cfg, peer', tx.pc, wire'[1])
      BY <1>1, <1>5, KernelPeer
    <2> QED
      BY <1>1, <2>1, <2>2, <2>3, <2>4
  <1>6. CASE KernelConnects /\ UNCHANGED <<tx, rx, hop>>
    <2>1. /\ tx' = tx /\ rx' = rx /\ hop' = hop /\ wire' = wire /\ op' = op /\ cfg' = cfg
          /\ canceled' = canceled /\ peer = "connecting" /\ peer' \in {"established", "refused"}
      BY <1>6 DEF KernelConnects
    <2>2. PeerRight(cfg, peer', tx.pc, wire[1])
      BY <1>1, <2>1 DEF PeerRight, Opening
    <2> QED
      BY <1>1, <2>1, <2>2
  <1>7. CASE cancel(Cancelable) /\ UNCHANGED <<tx, rx, hop>>
    <2>1. tx' = tx /\ rx' = rx /\ hop' = hop
      BY <1>7
    <2>2. Cancelable \in SUBSET Ends
      BY DEF Cancelable, Ends
    <2>3. BytesRight(cfg, wire', op', tx, rx, hop) /\ canceled' \in [Ends -> BOOLEAN]
      BY <1>1, <1>7, <2>2, CancelKeeps
    <2>4. cfg' = cfg /\ peer' = peer /\ wire' = wire
      BY <1>7 DEF cancel
    <2> QED
      BY <1>1, <2>1, <2>3, <2>4
  <1>8. CASE UNCHANGED streamVars
    BY <1>1, <1>8 DEF streamVars, socketVars
  <1> QED
    BY <1>2, <1>3, <1>4, <1>5, <1>6, <1>7, <1>8 DEF StreamNext

(* The prefix of a PrefixedReadIo.                                         *)
LEMMA RunOne == <<1>> \in Bytes /\ Len(<<1>>) = 1 /\ IsRun(<<1>>, 0)
  <1>1. PICK s : s = <<1>>
    OBVIOUS
  <1>2. s \in Seq(Int) /\ Len(s) = 1 /\ s[1] = 1
    BY <1>1
  <1>3. \A k \in 1..Len(s) : s[k] = 0 + k
    <2>1. \A k \in 1..Len(s) : k = 1
      BY <1>2
    <2> QED
      BY <1>2, <2>1
  <1> QED
    BY <1>1, <1>2, <1>3 DEF Bytes, IsRun

(* The program starts with nothing, or with the prefix, read ahead.        *)
LEMMA StreamStarts ==
  ASSUME StreamInit
  PROVE  StreamInv
  <1>1. /\ cfg \in Configs /\ cfg \in Stacks /\ peer = "listening"
        /\ wire = [w \in Wires |-> [q |-> <<>>, shut |-> FALSE]]
        /\ op = [e \in Ends |-> Idle] /\ canceled = [e \in Ends |-> FALSE]
    BY StreamAssumption DEF StreamInit, SocketInit, Stacks
  <1>2. PICK b \in Bytes : b = <<>> /\ Len(b) = 0 /\ \A a : IsRun(b, a)
    BY RunNone
  <1>3. PICK pre \in Bytes, g \in Nat :
          /\ pre = IF cfg.rx = "prefixed" THEN <<1>> ELSE <<>>
          /\ g = IF cfg.rx = "prefixed" THEN 1 ELSE 0
          /\ Len(pre) = g /\ IsRun(pre, 0)
    <2>1. CASE cfg.rx = "prefixed"
      <3>1. PICK one \in Bytes : one = <<1>> /\ Len(one) = 1 /\ IsRun(one, 0)
        BY RunOne
      <3>2. PICK n \in Nat : n = 1
        OBVIOUS
      <3> QED
        BY <2>1, <3>1, <3>2
    <2>2. CASE cfg.rx # "prefixed"
      BY <1>2, <2>2
    <2> QED
      BY <2>1, <2>2
  <1>4. Idle \in Ops /\ Idle.st = "idle" /\ Idle.data = b /\ ReceiverOp(Idle)
        /\ SenderOp(Idle) /\ Moved(Idle) = 0
    BY <1>2, IdleFacts, SenderOps
  <1>5. /\ op \in [Ends -> Ops] /\ op["tx"] = Idle /\ op["rx"] = Idle /\ op["in"] = Idle
        /\ op["out"] = Idle
    BY <1>1, <1>4 DEF Ends
  <1>6. wire \in [Wires -> WireStates] /\ \A k \in Wires : wire[k].q = b /\ ~wire[k].shut
    <2>1. PICK x : x = [q |-> b, shut |-> FALSE]
      OBVIOUS
    <2>2. x \in WireStates /\ x.q = b /\ ~x.shut
      BY <2>1 DEF WireStates
    <2>3. wire = [w \in Wires |-> x]
      BY <1>1, <1>2, <2>1
    <2> QED
      BY <2>2, <2>3
  <1>7. 1 \in Wires /\ 2 \in Wires
    BY DEF Wires
  <1>8. /\ tx \in Senders /\ tx.pc = "new" /\ tx.call = "none" /\ tx.data = b /\ tx.buf = b
        /\ tx.pos = 0 /\ tx.given = g
    <2>1. tx = [pc |-> "new", call |-> "none", data |-> b, buf |-> b, pos |-> 0, given |-> g]
      BY <1>2, <1>3 DEF StreamInit, WriterInit
    <2> QED
      BY <2>1 DEF Senders, Opening
  <1>9. SenderState(cfg, tx, Idle)
    <2>1. tx.pc \notin Broken /\ tx.pc \in Opening
      BY <1>8 DEF Broken, Opening
    <2>2. ToSend(cfg, tx) \in Bytes /\ Len(ToSend(cfg, tx)) \in Nat
      <3>1. Slice(b, 0, Len(b)) \in Bytes
        <4>1. 0 \in 0..Len(b)
          BY <1>2
        <4> QED
          BY <4>1, SliceFacts
      <3>2. ToSend(cfg, tx) \in Bytes
        BY <1>8, <3>1 DEF ToSend
      <3> QED
        BY <3>2 DEF Bytes
    <2>3. SenderBuffers(cfg, tx, Idle)
      BY <1>2, <1>4, <1>8, <2>2 DEF SenderBuffers
    <2>4. SenderCalls(cfg, tx, Idle)
      BY <1>2, <1>4, <1>8, <2>1 DEF SenderCalls
    <2> QED
      BY <1>1, <1>4, <1>8, <2>1, <2>3, <2>4 DEF SenderState
  <1>10. RunsFrom(tx, Idle, g)
    <2>1. Base(tx) = g /\ g + 0 + 0 = g
      BY <1>2, <1>8 DEF Base
    <2> QED
      BY <1>2, <1>4, <1>8, <2>1 DEF RunsFrom
  <1>11. PICK p \in {"none", "read"} : /\ hop = [pc |-> p, buf |-> b, pos |-> 0]
                                       /\ p = IF cfg.hop = "none" THEN "none" ELSE "read"
    BY <1>2 DEF StreamInit, RelayInit
  <1>12. hop \in Hops /\ hop.pc = p /\ hop.buf = b /\ hop.pos = 0
    BY <1>11 DEF Hops
  <1>13. HopRight(cfg, hop, Idle, Idle, wire[2])
    BY <1>1, <1>2, <1>4, <1>6, <1>7, <1>11, <1>12 DEF HopRight
  <1>14. HopLeft(hop, Idle) = 0
    BY <1>2, <1>4, <1>12 DEF HopLeft
  <1>15. MidRuns(wire[2].q, hop, Idle, Idle, wire[1].q, g, g)
    <2>1. g = g + 0 + 0 + 0 + 0
      OBVIOUS
    <2> QED
      BY <1>2, <1>4, <1>6, <1>7, <1>12, <1>14, <2>1 DEF MidRuns
  <1>16. PICK u : u = NoSlice /\ u \in UserViews /\ SliceOK(u)
    <2>1. NoSlice = SliceMut(Buffer("vec", 0), 0, 0) /\ "vec" \in BufferKinds /\ 0 \in Nat
      BY DEF NoSlice, BufferKinds
    <2> QED
      BY <2>1, FreshFacts
  <1>17. /\ rx \in Receivers /\ rx.pc = "idle" /\ rx.call = "none" /\ rx.u = u /\ rx.read = 0
         /\ rx.own = b /\ rx.line = b /\ rx.got = b /\ rx.prefix = pre
         /\ rx.finished = FALSE /\ rx.eof = FALSE
    <2>1. rx = [pc |-> "idle", call |-> "none", u |-> u, vb |-> <<>>,
                read |-> 0, dst |-> "none", own |-> b, line |-> b, got |-> b,
                prefix |-> pre, finished |-> FALSE, eof |-> FALSE]
      BY <1>2, <1>3, <1>16 DEF StreamInit, ReaderInit
    <2>2. PICK v \in Vecs : v = <<>>
      <3>1. <<>> \in Vecs
        BY DEF Vecs
      <3> QED
        BY <3>1
    <2>3. rx = [pc |-> "idle", call |-> "none", u |-> u, vb |-> v,
                read |-> 0, dst |-> "none", own |-> b, line |-> b, got |-> b,
                prefix |-> pre, finished |-> FALSE, eof |-> FALSE]
      BY <2>1, <2>2
    <2> QED
      BY <1>16, <2>3 DEF Receivers
  <1>18. rx.call \notin Exact /\ rx.call \notin Until
    BY <1>17 DEF Exact, Until
  <1>19. ReaderState(cfg, rx, Idle)
    <2>1. Kept(cfg, rx)
      BY <1>2, <1>3, <1>16, <1>17, <1>18 DEF Kept
    <2>2. ReaderRight(cfg, rx, Idle)
      BY <1>4, <1>17, <2>1 DEF ReaderRight
    <2> QED
      BY <1>1, <1>2, <1>4, <1>17, <2>2 DEF ReaderState, EofRight
  <1>20. RunsTo(rx, Idle.data, g)
    <2>1. Partial(rx) = b /\ ParLen(rx) = 0
      BY <1>2, <1>17, <1>18 DEF Partial, ParLen
    <2>2. g = 0 + 0 + 0 + g + 0 /\ 0 + 0 + 0 = 0
      OBVIOUS
    <2> QED
      BY <1>2, <1>3, <1>4, <1>17, <2>1, <2>2 DEF RunsTo
  <1>21. EndRight(cfg, rx, Idle, hop, Idle, wire[1], wire[2])
    BY <1>4, <1>11, <1>12, <1>17 DEF EndRight
  <1>22. Joins(rx, Idle, wire[2], hop, Idle, Idle, wire[1], tx, Idle)
    BY <1>10, <1>15, <1>20 DEF Joins
  <1>23. BytesRight(cfg, wire, op, tx, rx, hop)
    BY <1>5, <1>6, <1>7, <1>9, <1>13, <1>19, <1>21, <1>22 DEF BytesRight
  <1>24. PeerRight(cfg, peer, tx.pc, wire[1])
    BY <1>1, <1>2, <1>6, <1>7, <1>8 DEF PeerRight, Opening, Used
  <1>25. canceled \in [Ends -> BOOLEAN]
    BY <1>1
  <1> QED
    BY <1>1, <1>23, <1>24, <1>25 DEF StreamInv

(* The invariant holds in every state of a stream.                         *)
THEOREM StreamInvariance == StreamSpec => []StreamInv
  <1>1. StreamInit => StreamInv
    BY StreamStarts
  <1>2. StreamInv /\ [StreamNext]_streamVars => StreamInv'
    BY StreamInvKept
  <1> QED
    BY <1>1, <1>2, PTL DEF StreamSpec

(* ConnectHonest (Stream.tla): no stream is handed out before the          *)
(* connection is established, but with fast open, which leaves it to the   *)
(* first write.                                                            *)
THEOREM StreamConnects == StreamSpec => []ConnectHonest
  <1>1. StreamInv => ConnectHonest
    BY DEF StreamInv, PeerRight, ConnectHonest, Opening, Used
  <1> QED
    BY <1>1, StreamInvariance, PTL
-----------------------------------------------------------------------------
(* From the chain of runs to the properties of Stream.                     *)

(* The bytes of s are the ones after a, up to b.                           *)
RunsOver(s, a, b) == s \in Bytes /\ a \in Int /\ IsRun(s, a) /\ b = a + Len(s)

(* Two runs that meet are one run.                                         *)
LEMMA RunsJoin ==
  ASSUME NEW s, NEW t, NEW a, NEW b, NEW d, RunsOver(s, a, b), RunsOver(t, b, d)
  PROVE  RunsOver(s \o t, a, d)
  <1>1. /\ s \in Bytes /\ a \in Int /\ IsRun(s, a) /\ b = a + Len(s)
        /\ t \in Bytes /\ IsRun(t, b) /\ d = b + Len(t)
    BY DEF RunsOver
  <1>2. PICK n \in Nat, m \in Nat : n = Len(s) /\ m = Len(t)
    BY <1>1 DEF Bytes
  <1>3. s \o t \in Bytes /\ Len(s \o t) = Len(s) + Len(t) /\ IsRun(s \o t, a)
    BY <1>1, RunConcat
  <1>4. PICK q : q = s \o t
    OBVIOUS
  <1>5. d = a + (n + m)
    BY <1>1, <1>2
  <1>6. RunsOver(q, a, d)
    BY <1>1, <1>2, <1>3, <1>4, <1>5 DEF RunsOver
  <1> QED
    BY <1>4, <1>6

(* The bytes of the receiver that the application has not got.             *)
LEMMA HeldRuns ==
  ASSUME ReaderState(cfg, rx, op["rx"]), NEW e \in Int, RunsTo(rx, op["rx"].data, e)
  PROVE  RunsOver(Held, Len(rx.got), e)
  <1>1. /\ rx \in Receivers /\ ReceiverOp(op["rx"]) /\ ReaderRight(cfg, rx, op["rx"])
        /\ op["rx"] \in Ops
    BY DEF ReaderState, ReceiverOp
  <1>2. PICK part \in Bytes, pre \in Bytes, own \in Bytes, more \in Bytes :
          part = Partial(rx) /\ pre = rx.prefix /\ own = rx.own /\ more = op["rx"].data
    BY <1>1 DEF RunsTo, Receivers, Ops
  <1>3. PICK g \in Nat, p \in Nat, q \in Nat, l \in Nat, m \in Nat :
          g = Len(rx.got) /\ p = Len(part) /\ q = Len(pre) /\ l = Len(own) /\ m = Len(more)
    <2>1. rx.got \in Bytes
      BY <1>1 DEF Receivers
    <2> QED
      BY <1>2, <2>1 DEF Bytes
  <1>4. /\ IsRun(part, g) /\ IsRun(more, g + p) /\ IsRun(pre, g + p + m)
        /\ IsRun(own, g + p + m + q) /\ e = g + p + m + q + l
    BY <1>2, <1>3 DEF RunsTo
  <1>5. IsRun(pre, g + p) /\ IsRun(own, g + p + q) /\ IsRun(more, g + p + q + l)
    <2>1. CASE op["rx"].st = "idle"
      <3>1. more = <<>> /\ m = 0
        BY <1>1, <1>2, <1>3, <2>1, IdleFacts, RunNone DEF ReceiverOp
      <3>2. g + p + m = g + p
        BY <3>1
      <3> QED
        BY <1>4, <3>1, <3>2, RunNone
    <2>2. CASE op["rx"].st # "idle"
      <3>1. pre = <<>> /\ own = <<>> /\ q = 0 /\ l = 0
        BY <1>1, <1>2, <1>3, <2>2, RunNone DEF ReaderRight
      <3>2. g + p + q + l = g + p
        BY <3>1
      <3> QED
        BY <1>4, <3>1, <3>2, RunNone
    <2> QED
      BY <2>1, <2>2
  <1>6. e = g + p + q + l + m
    BY <1>4
  <1>7. RunsOver(part, g, g + p) /\ RunsOver(pre, g + p, g + p + q)
    BY <1>3, <1>4, <1>5 DEF RunsOver
  <1>8. RunsOver(own, g + p + q, g + p + q + l) /\ RunsOver(more, g + p + q + l, e)
    BY <1>3, <1>5, <1>6 DEF RunsOver
  <1>9. RunsOver(part \o pre, g, g + p + q)
    BY <1>7, RunsJoin
  <1>10. RunsOver(part \o pre \o own, g, g + p + q + l)
    BY <1>8, <1>9, RunsJoin
  <1>11. RunsOver(part \o pre \o own \o more, g, e)
    BY <1>8, <1>10, RunsJoin
  <1>12. Held = part \o pre \o own \o more
    BY <1>2, Zenon DEF Held, Partial, Exact
  <1> QED
    BY <1>3, <1>11, <1>12

(* The bytes that the relay has, and the second wire.                      *)
BetweenWires == IF cfg.hop = "none" THEN <<>> ELSE wire[2].q \o InRelay

(* All that is under way between the wires is one run.                     *)
LEMMA MidOver ==
  ASSUME wire \in [Wires -> WireStates], HopRight(cfg, hop, op["in"], op["out"], wire[2]),
         NEW e \in Int, NEW w \in Int,
         MidRuns(wire[2].q, hop, op["in"], op["out"], wire[1].q, e, w)
  PROVE  \E a : RunsOver(BetweenWires, e, a) /\ RunsOver(wire[1].q, a, w)
  <1>1. /\ hop \in Hops /\ ReceiverOp(op["in"]) /\ op["in"] \in Ops /\ op["out"] \in Ops
        /\ hop.pos + Moved(op["out"]) <= Len(hop.buf)
    BY DEF HopRight, ReceiverOp, SenderOp
  <1>2. PICK q2 \in Bytes, q1 \in Bytes, b \in Bytes, more \in Bytes :
          q2 = wire[2].q /\ q1 = wire[1].q /\ b = hop.buf /\ more = op["in"].data
    BY <1>1 DEF Wires, WireStates, Hops, Ops
  <1>3. PICK m \in Nat, k \in Nat, d \in Nat, n \in Nat, j \in Nat :
          /\ m = Len(q2) /\ k = Len(q1) /\ d = Len(more) /\ n = Len(b)
          /\ j = hop.pos + Moved(op["out"]) /\ j <= n
    <2>1. Len(q2) \in Nat /\ Len(q1) \in Nat /\ Len(more) \in Nat /\ Len(b) \in Nat
      BY DEF Bytes
    <2>2. hop.pos \in Nat /\ Moved(op["out"]) \in Nat
      BY <1>1, HopFacts
    <2>3. PICK j \in Nat : j = hop.pos + Moved(op["out"])
      BY <2>2
    <2>4. j <= Len(b)
      BY <1>1, <1>2, <2>3
    <2> QED
      BY <2>1, <2>3, <2>4
  <1>4. HopLeft(hop, op["out"]) = n - j
    <2>1. hop.pos \in Nat /\ Moved(op["out"]) \in Nat
      BY <1>1, HopFacts
    <2> QED
      BY <1>2, <1>3, <2>1 DEF HopLeft
  <1>5. /\ IsRun(q2, e) /\ IsRun(b, e + m + (n - j) - n) /\ IsRun(more, e + m + (n - j))
        /\ IsRun(q1, e + m + (n - j) + d) /\ w = e + m + (n - j) + d + k
    BY <1>2, <1>3, <1>4 DEF MidRuns
  <1>6. PICK a \in Int : a = e + m + (n - j) + d
    OBVIOUS
  <1>7. RunsOver(q1, a, w)
    BY <1>3, <1>5, <1>6 DEF RunsOver
  <1>8. CASE cfg.hop = "none"
    <2>1. q2 = <<>> /\ b = <<>> /\ more = <<>>
      BY <1>1, <1>2, <1>8, IdleFacts DEF HopRight, ReceiverOp
    <2>2. m = 0 /\ n = 0 /\ d = 0
      BY <1>3, <2>1, RunNone
    <2>3. a = e + 0
      BY <1>3, <1>6, <2>2
    <2>4. RunsOver(q2, e, a)
      BY <1>3, <1>5, <2>2, <2>3 DEF RunsOver
    <2>5. BetweenWires = q2
      BY <1>8, <2>1 DEF BetweenWires
    <2> QED
      BY <1>2, <1>7, <2>4, <2>5
  <1>9. CASE cfg.hop # "none"
    <2>1. PICK s \in Bytes : /\ s = Slice(b, j, n) /\ Len(s) = n - j
                             /\ IsRun(s, e + m)
      <3>1. j \in 0..Len(b)
        BY <1>3
      <3>2. e + m + (n - j) - n \in Int /\ e + m + (n - j) - n + j = e + m
        OBVIOUS
      <3>3. IsRun(Slice(b, j, Len(b)), e + m + (n - j) - n + j)
        BY <1>5, <3>1, <3>2, SliceFacts
      <3>4. Slice(b, j, Len(b)) \in Bytes /\ Len(Slice(b, j, Len(b))) = Len(b) - j
        BY <3>1, SliceFacts
      <3> QED
        BY <1>3, <3>2, <3>3, <3>4
    <2>2. RunsOver(q2, e, e + m)
      BY <1>3, <1>5 DEF RunsOver
    <2>3. RunsOver(s, e + m, e + m + (n - j))
      <3>1. PICK f \in Int : f = e + m
        OBVIOUS
      <3>2. f + (n - j) = f + Len(s)
        BY <2>1
      <3>3. RunsOver(s, f, f + (n - j))
        BY <2>1, <3>1, <3>2 DEF RunsOver
      <3> QED
        BY <3>1, <3>3
    <2>4. RunsOver(more, e + m + (n - j), a)
      BY <1>3, <1>5, <1>6 DEF RunsOver
    <2>5. RunsOver(q2 \o (s \o more), e, a)
      BY <2>2, <2>3, <2>4, RunsJoin
    <2>6. InRelay = s \o more
      <3>1. InRelay = Slice(hop.buf, j, Len(hop.buf)) \o op["in"].data
        BY <1>3 DEF InRelay, Moved
      <3> QED
        BY <1>2, <1>3, <2>1, <3>1
    <2>7. BetweenWires = q2 \o (s \o more)
      BY <1>2, <1>9, <2>6 DEF BetweenWires
    <2> QED
      BY <1>2, <1>7, <2>5, <2>7
  <1> QED
    BY <1>8, <1>9

(* The bytes of the sender that are not on its wire.                       *)
LEMMA UnsentRuns ==
  ASSUME SenderState(cfg, tx, op["tx"]), tx.pc \notin Broken, NEW w \in Int,
         RunsFrom(tx, op["tx"], w)
  PROVE  \E z \in Int : RunsOver(Unsent, w, z) /\ z >= tx.given
                        /\ (tx.pc = "closed" => z = w /\ z = tx.given)
  <1>1. /\ tx \in Senders /\ SenderOp(op["tx"]) /\ SenderBuffers(cfg, tx, op["tx"])
        /\ SenderCalls(cfg, tx, op["tx"]) /\ op["tx"] \in Ops
    BY DEF SenderState, SenderOp
  <1>2. PICK buf \in Bytes, data \in Bytes, pos \in Nat, g \in Nat, n \in Nat, d \in Nat, m \in Nat :
          /\ buf = tx.buf /\ data = tx.data /\ pos = tx.pos /\ g = tx.given /\ n = Len(buf)
          /\ d = Len(data) /\ m = Moved(op["tx"])
    <2>1. Moved(op["tx"]) \in Nat
      BY <1>1 DEF Moved, Ops
    <2> QED
      BY <1>1, <2>1, SenderFacts
  <1>3. PICK b \in Int : b = Base(tx)
    BY <1>1, SenderFacts
  <1>4. w = b + pos + m /\ IsRun(buf, b) /\ IsRun(data, g)
    BY <1>2, <1>3 DEF RunsFrom
  <1>5. pos <= n
    BY <1>1, <1>2 DEF SenderBuffers
  <1>6. CASE InBuf(cfg, tx)
    <2>1. pos + m <= n
      <3>1. m <= Len(Slice(buf, pos, Len(buf)))
        BY <1>1, <1>2, <1>6 DEF SenderBuffers, ToSend
      <3>2. pos \in 0..Len(buf)
        BY <1>2, <1>5
      <3>3. Len(Slice(buf, pos, Len(buf))) = Len(buf) - pos
        BY <3>2, SliceFacts
      <3> QED
        BY <1>2, <3>1, <3>3
    <2>2. PICK s \in Bytes : s = Slice(buf, pos + m, n) /\ Len(s) = n - (pos + m) /\ IsRun(s, w)
      <3>1. PICK j \in Nat : j = pos + m /\ w = b + j
        BY <1>4
      <3>2. j \in 0..Len(buf)
        BY <1>2, <2>1, <3>1
      <3>3. Slice(buf, j, Len(buf)) \in Bytes /\ Len(Slice(buf, j, Len(buf))) = Len(buf) - j
        BY <3>2, SliceFacts
      <3>4. IsRun(Slice(buf, j, Len(buf)), b + j)
        BY <1>3, <1>4, <3>2, SliceFacts
      <3> QED
        BY <1>2, <3>1, <3>3, <3>4
    <2>3. RunsOver(s, w, b + n)
      <3>1. b + n = w + (n - (pos + m))
        BY <1>4
      <3> QED
        BY <2>2, <3>1 DEF RunsOver
    <2>4. IsRun(data, b + n) /\ b + n + d >= g
      <3>1. CASE tx.pc = "write_all"
        <4>1. data = <<>> /\ d = 0 /\ b = g
          BY <1>1, <1>2, <1>3, <3>1, RunNone DEF SenderCalls, Base
        <4> QED
          BY <4>1, RunNone
      <3>2. CASE tx.pc # "write_all"
        <4>1. b + n = g
          BY <1>2, <1>3, <3>2 DEF Base
        <4> QED
          BY <1>4, <4>1
      <3> QED
        BY <3>1, <3>2
    <2>5. RunsOver(data, b + n, b + n + d)
      BY <1>2, <1>3, <2>4 DEF RunsOver
    <2>6. RunsOver(s \o data, w, b + n + d)
      BY <2>3, <2>5, RunsJoin
    <2>7. Unsent = s \o data
      <3>1. Unsent = Slice(tx.buf, tx.pos + m, Len(tx.buf)) \o tx.data
        BY <1>2, <1>6 DEF Unsent, InBuf, Moved
      <3> QED
        BY <1>2, <2>2, <3>1
    <2>8. tx.pc = "closed" => b + n + d = w /\ b + n + d = g
      <3> SUFFICES ASSUME tx.pc = "closed"
                   PROVE  b + n + d = w /\ b + n + d = g
        OBVIOUS
      <3>1. n = 0 /\ d = 0
        BY <1>1, <1>2, RunNone DEF SenderBuffers, SenderCalls
      <3>2. b + n = g
        BY <1>2, <1>3 DEF Base
      <3>3. pos = 0 /\ m = 0
        BY <2>1, <3>1
      <3> QED
        BY <1>4, <3>1, <3>2, <3>3
    <2>9. PICK z \in Int : z = b + n + d
      OBVIOUS
    <2>10. RunsOver(Unsent, w, z) /\ z >= tx.given /\ (tx.pc = "closed" => z = w /\ z = tx.given)
      BY <1>2, <2>4, <2>6, <2>7, <2>8, <2>9
    <2> QED
      BY <2>10
  <1>7. CASE ~InBuf(cfg, tx)
    <2>1. pos = 0 /\ m <= d
      BY <1>1, <1>2, <1>7 DEF SenderBuffers, ToSend
    <2>2. b + n = g
      BY <1>2, <1>3, <1>7 DEF Base, InBuf
    <2>3. m = 0 \/ n = 0
      <3> SUFFICES ASSUME m # 0
                   PROVE  n = 0
        OBVIOUS
      <3>1. op["tx"].st # "idle"
        BY <1>2 DEF Moved
      <3>2. buf = <<>>
        BY <1>1, <1>2, <1>7, <3>1 DEF SenderBuffers
      <3> QED
        BY <1>2, <3>2, RunNone
    <2>4. IsRun(buf, w) /\ w + n = g + m
      <3>1. w + n = g + m
        BY <1>4, <2>1, <2>2
      <3>2. CASE m = 0
        <4>1. w = b
          BY <1>4, <2>1, <3>2
        <4> QED
          BY <1>4, <3>1, <4>1
      <3>3. CASE n = 0
        <4>1. IsRun(buf, w)
          BY <1>2, <3>3 DEF IsRun
        <4> QED
          BY <3>1, <4>1
      <3> QED
        BY <2>3, <3>2, <3>3
    <2>5. PICK s \in Bytes : s = Slice(data, m, d) /\ Len(s) = d - m /\ IsRun(s, g + m)
      <3>1. m \in 0..Len(data)
        BY <1>2, <2>1
      <3>2. Slice(data, m, Len(data)) \in Bytes /\ Len(Slice(data, m, Len(data))) = Len(data) - m
        BY <3>1, SliceFacts
      <3>3. IsRun(Slice(data, m, Len(data)), g + m)
        BY <1>4, <3>1, SliceFacts
      <3> QED
        BY <1>2, <3>2, <3>3
    <2>6. RunsOver(buf, w, g + m)
      BY <1>2, <2>4 DEF RunsOver
    <2>7. RunsOver(s, g + m, g + d)
      <3>1. g + d = g + m + (d - m)
        OBVIOUS
      <3> QED
        BY <2>5, <3>1 DEF RunsOver
    <2>8. RunsOver(buf \o s, w, g + d)
      BY <2>6, <2>7, RunsJoin
    <2>9. Unsent = buf \o s
      <3>1. Unsent = tx.buf \o Slice(tx.data, m, Len(tx.data))
        BY <1>2, <1>7 DEF Unsent, InBuf, Moved
      <3> QED
        BY <1>2, <2>5, <3>1
    <2>10. tx.pc = "closed" => g + d = w /\ g + d = g
      <3> SUFFICES ASSUME tx.pc = "closed"
                   PROVE  g + d = w /\ g + d = g
        OBVIOUS
      <3>1. n = 0 /\ d = 0
        BY <1>1, <1>2, RunNone DEF SenderBuffers, SenderCalls
      <3> QED
        BY <2>1, <2>4, <3>1
    <2>11. PICK z \in Int : z = g + d
      OBVIOUS
    <2>12. RunsOver(Unsent, w, z) /\ z >= tx.given /\ (tx.pc = "closed" => z = w /\ z = tx.given)
      BY <1>2, <2>8, <2>9, <2>10, <2>11
    <2> QED
      BY <2>12
  <1> QED
    BY <1>6, <1>7

(* All the bytes, from those of the application that reads to those of the *)
(* one that writes.                                                        *)
LEMMA PipelineRuns ==
  ASSUME BytesRight(cfg, wire, op, tx, rx, hop), ~Lost
  PROVE  Pipeline = UpTo(Len(Pipeline)) /\ Len(Pipeline) >= tx.given
  <1>1. tx.pc \notin Broken /\ rx.pc \notin Broken /\ hop.pc # "failed"
    BY DEF Lost, Broken
  <1>2. /\ wire \in [Wires -> WireStates] /\ SenderState(cfg, tx, op["tx"])
        /\ HopRight(cfg, hop, op["in"], op["out"], wire[2]) /\ ReaderState(cfg, rx, op["rx"])
        /\ rx \in Receivers
    BY DEF BytesRight, ReaderState
  <1>3. PICK e \in Int, w \in Int :
          /\ RunsTo(rx, op["rx"].data, e)
          /\ MidRuns(wire[2].q, hop, op["in"], op["out"], wire[1].q, e, w)
          /\ RunsFrom(tx, op["tx"], w)
    BY <1>1 DEF BytesRight, Joins, Broken
  <1>4. RunsOver(rx.got, 0, Len(rx.got))
    <2>1. rx.got \in Bytes /\ IsRun(rx.got, 0)
      BY <1>2 DEF ReaderState, Receivers
    <2>2. Len(rx.got) \in Nat
      BY <2>1 DEF Bytes
    <2>3. 0 + Len(rx.got) = Len(rx.got)
      BY <2>2
    <2> QED
      BY <2>1, <2>3 DEF RunsOver
  <1>5. RunsOver(Held, Len(rx.got), e)
    BY <1>2, <1>3, HeldRuns
  <1>6. PICK a : RunsOver(BetweenWires, e, a) /\ RunsOver(wire[1].q, a, w)
    BY <1>2, <1>3, MidOver
  <1>7. PICK z \in Int : RunsOver(Unsent, w, z) /\ z >= tx.given
    BY <1>1, <1>2, <1>3, UnsentRuns
  <1>8. RunsOver(rx.got \o Held, 0, e)
    BY <1>4, <1>5, RunsJoin
  <1>9. RunsOver(rx.got \o Held \o BetweenWires, 0, a)
    BY <1>6, <1>8, RunsJoin
  <1>10. RunsOver(rx.got \o Held \o BetweenWires \o wire[1].q, 0, w)
    BY <1>6, <1>9, RunsJoin
  <1>11. RunsOver(rx.got \o Held \o BetweenWires \o wire[1].q \o Unsent, 0, z)
    BY <1>7, <1>10, RunsJoin
  <1>12. PICK p : p = Pipeline
    OBVIOUS
  <1>13. RunsOver(p, 0, z)
    <2>1. Pipeline = rx.got \o Held \o BetweenWires \o wire[1].q \o Unsent
      BY Zenon DEF Pipeline, BetweenWires
    <2> QED
      BY <1>11, <1>12, <2>1
  <1>14. p \in Bytes /\ IsRun(p, 0) /\ Len(p) = z
    <2>1. p \in Bytes /\ IsRun(p, 0) /\ z = 0 + Len(p)
      BY <1>13 DEF RunsOver
    <2>2. Len(p) \in Nat
      BY <2>1 DEF Bytes
    <2> QED
      BY <2>1, <2>2
  <1>15. p = UpTo(Len(p))
    BY <1>14, RunUpTo
  <1> QED
    BY <1>7, <1>12, <1>14, <1>15

(* Conserved (Stream.tla): no byte is lost, doubled or moved between the   *)
(* two applications, in any stack, and no read gets to a slice that        *)
(* SliceMut::new refuses.                                                  *)
THEOREM StreamConserves == StreamSpec => []Conserved
  <1>1. ASSUME StreamInv
        PROVE  Conserved
    <2>1. BytesRight(cfg, wire, op, tx, rx, hop)
      BY <1>1 DEF StreamInv
    <2>2. rx \in Receivers /\ IsRun(rx.got, 0) /\ SliceOK(rx.u)
      BY <2>1 DEF BytesRight, ReaderState, ReaderRight, Kept
    <2>3. SliceMutAsserts(rx.u.buf, rx.u.begin, rx.u.end)
      <3>1. PICK u \in UserViews : u = rx.u
        BY <2>2 DEF Receivers
      <3>2. /\ u.begin \in Nat /\ u.end \in Nat /\ u.buf.len \in Nat
            /\ u.buf.kind \in {"vec", "bytes", "box"} /\ u.buf.mem \in Bytes
        BY DEF UserViews, UserBuffers, BufferKinds
      <3>3. Len(u.buf.mem) \in Nat
        BY <3>2 DEF Bytes
      <3>4. u.end <= Len(u.buf.mem) /\ u.begin <= bytes_init(u.buf) /\ u.begin <= u.end
        BY <2>2, <3>1, <3>2, <3>3 DEF SliceOK, bytes_init
      <3> QED
        BY <3>1, <3>4 DEF SliceMutAsserts, bytes_total
    <2>4. rx.got = UpTo(Len(rx.got))
      <3>1. rx.got \in Bytes
        BY <2>2 DEF Receivers
      <3> QED
        BY <2>2, <3>1, RunUpTo
    <2>5. ~Lost => Pipeline = UpTo(Len(Pipeline)) /\ Len(Pipeline) >= tx.given
      BY <2>1, PipelineRuns
    <2> QED
      BY <2>3, <2>4, <2>5, Zenon DEF Conserved
  <1>2. StreamInv => Conserved
    BY <1>1
  <1> QED
    BY <1>2, StreamInvariance, PTL

(* EofIsFinal (Stream.tla): the end of the stream is reported when every   *)
(* byte that was handed over before the shutdown has been read.            *)
THEOREM StreamEndsLast == StreamSpec => []EofIsFinal
  <1>1. ASSUME StreamInv, rx.eof, ~Lost
        PROVE  tx.pc = "closed" /\ Len(rx.got) = tx.given
    <2>1. /\ BytesRight(cfg, wire, op, tx, rx, hop)
          /\ tx.pc \notin Broken /\ rx.pc \notin Broken /\ hop.pc # "failed"
      BY <1>1 DEF StreamInv, Lost, Broken
    <2>2. /\ wire \in [Wires -> WireStates] /\ SenderState(cfg, tx, op["tx"])
          /\ HopRight(cfg, hop, op["in"], op["out"], wire[2])
          /\ ReaderRight(cfg, rx, op["rx"]) /\ EofRight(rx) /\ ReceiverOp(op["rx"])
          /\ EndRight(cfg, rx, op["rx"], hop, op["in"], wire[1], wire[2])
          /\ (wire[1].shut => tx.pc \in {"closed", "dropped"})
          /\ rx \in Receivers
      BY <2>1 DEF BytesRight, ReaderState
    <2>3. PICK e \in Int, w \in Int :
            /\ RunsTo(rx, op["rx"].data, e)
            /\ MidRuns(wire[2].q, hop, op["in"], op["out"], wire[1].q, e, w)
            /\ RunsFrom(tx, op["tx"], w)
      BY <2>1 DEF BytesRight, Joins, Broken
    <2>4. rx.pc = "idle" /\ rx.own = <<>> /\ rx.prefix = <<>>
      BY <1>1, <2>1, <2>2 DEF EofRight, Receivers
    <2>5. op["rx"].data = <<>> /\ rx.call = "none"
      BY <2>2, <2>4, IdleFacts DEF ReaderRight, ReceiverOp
    <2>6. rx.line = <<>> /\ ParLen(rx) = 0
      <3>1. rx.call \notin Exact /\ rx.call \notin Until
        BY <2>5 DEF Exact, Until
      <3>2. rx.line = <<>>
        BY <2>2, <3>1 DEF ReaderRight, Kept
      <3> QED
        BY <3>1, <3>2, RunNone DEF ParLen
    <2>7. PICK g \in Nat : g = Len(rx.got)
      <3>1. rx.got \in Bytes
        BY <2>2 DEF Receivers
      <3> QED
        BY <3>1 DEF Bytes
    <2>8. e = g
      BY <2>3, <2>4, <2>5, <2>6, <2>7, RunNone DEF RunsTo
    <2>9. /\ Drained(wire[1]) /\ wire[2].q = <<>> /\ hop.pc \in {"none", "end"}
      <3>1. CASE cfg.hop = "none"
        BY <1>1, <2>2, <3>1 DEF HopRight, EndRight
      <3>2. CASE cfg.hop # "none"
        <4>1. Drained(wire[2])
          BY <1>1, <2>2, <3>2 DEF EndRight
        <4>2. hop.pc = "end"
          BY <2>1, <2>2, <4>1 DEF HopRight, Drained
        <4> QED
          BY <2>2, <4>1, <4>2 DEF EndRight, Drained
      <3> QED
        BY <3>1, <3>2
    <2>10. /\ hop.buf = <<>> /\ hop.pos = 0 /\ op["in"].data = <<>> /\ Moved(op["out"]) = 0
      BY <2>2, <2>9, IdleFacts DEF HopRight, ReceiverOp, Moved
    <2>11. w = g
      <3>1. HopLeft(hop, op["out"]) = 0
        BY <2>10, RunNone DEF HopLeft
      <3>2. Len(wire[2].q) = 0 /\ Len(op["in"].data) = 0 /\ Len(wire[1].q) = 0
        BY <2>9, <2>10, RunNone DEF Drained
      <3>3. w = e + 0 + 0 + 0 + 0
        BY <2>3, <3>1, <3>2 DEF MidRuns
      <3> QED
        BY <2>8, <3>3
    <2>12. tx.pc = "closed"
      BY <2>1, <2>2, <2>9 DEF Drained, Broken
    <2>13. w = tx.given
      BY <2>1, <2>2, <2>3, <2>12, UnsentRuns
    <2> QED
      BY <2>7, <2>11, <2>12, <2>13
  <1>2. StreamInv => EofIsFinal
    BY <1>1, Zenon DEF EofIsFinal
  <1> QED
    BY <1>2, StreamInvariance, PTL

=============================================================================
