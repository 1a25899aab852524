------------------------------ MODULE Runtime -------------------------------
(***************************************************************************)
(* A whole runtime thread: Runtime::block_on of runtime.rs with its run    *)
(* queue (scheduler.rs), the flag of the main future (task/waker_fn.rs),   *)
(* the driver it submits to or parks on, the timers of TimeDriver and the  *)
(* pool that runs blocking closures (blocking.rs).                         *)
(*                                                                         *)
(* Task, Park, UringOps and Wheel show what a wake, an unpark, an          *)
(* operation and a timer do; here each is a step, and the question is      *)
(* whether the loop serves them all.                                       *)
(***************************************************************************)
EXTENDS Naturals, Sequences

CONSTANTS
  Tasks,    \* the tasks ever spawned
  Main,     \* the one block_on makes of its future
  NoTask    \* no task is running

ASSUME RuntimeAssumption == Main \in Tasks /\ NoTask \notin Tasks

VARIABLES
  legacy,     \* the driver is the epoll one
  pooled,     \* a thread pool is attached, or blocking closures run locally
  pc,         \* where block_on is; "idle" outside of it
  mode,       \* what it calls the driver for: "submit" or "park"
  needWait,   \* need_wait of inner_park
  missed,     \* tasks that the park under way is going to sleep on, see KernelBusy
  queue,      \* TaskQueue
  round,      \* max_round
  cur,        \* the task that runs
  st,         \* what a task does or waits for
  flag,       \* SHOULD_POLL
  joinWaker,  \* the JoinHandle of the main task holds the dummy waker
  sq,         \* tasks whose operation is in the submission queue
  kernel,     \* ... with the kernel
  cq,         \* ... completed, the completion not yet processed
  due,        \* tasks whose timer has expired and not fired
  job,        \* the blocking closure of a task
  chan        \* tasks whose foreign waker is in the channel

visit == <<mode, needWait, missed>>
loop == <<pc, visit, round, cur, flag, joinWaker>>
ops == <<sq, kernel, cq>>
vars == <<loop, queue, st, ops, due, job, chan>>

Waits == {"io", "timer", "job", "peer"}

(* The type invariant. *)
TypeOK ==
  /\ legacy \in BOOLEAN /\ pooled \in BOOLEAN
  /\ pc \in {"idle", "start", "pop", "run", "main", "drain", "enter", "busy", "sleep", "tick", "timers"}
  /\ mode \in {"submit", "park"}
  /\ needWait \in BOOLEAN /\ missed \subseteq Tasks
  /\ queue \in Seq(Tasks)
  /\ round \in Nat
  /\ cur \in Tasks \cup {NoTask}
  /\ st \in [Tasks -> {"none", "queued", "running", "done"} \cup Waits]
  /\ flag \in BOOLEAN /\ joinWaker \in BOOLEAN
  /\ sq \subseteq Tasks /\ kernel \subseteq Tasks /\ cq \subseteq Tasks
  /\ due \subseteq Tasks
  /\ job \in [Tasks -> {"none", "pool", "running", "ended", "lost"}]
  /\ chan \subseteq Tasks

Init ==
  /\ legacy \in BOOLEAN /\ pooled \in BOOLEAN
  /\ pc = "idle"
  /\ mode = "submit"
  /\ needWait = FALSE /\ missed = {}
  /\ queue = <<>>
  /\ round = 0
  /\ cur = NoTask
  /\ st = [t \in Tasks |-> "none"]
  /\ flag = TRUE
  /\ joinWaker = FALSE
  /\ sq = {} /\ kernel = {} /\ cq = {}
  /\ due = {}
  /\ job = [t \in Tasks |-> "none"]
  /\ chan = {}

-----------------------------------------------------------------------------
(* The run queue.                                                          *)

(* Mutant: the newest task runs first.                                     *)
PushFront(t) ==
  /\ queue' = <<t>> \o queue
  /\ st' = [st EXCEPT ![t] = "queued"]

(* A task that was woken, spawned or yielded goes to the back.             *)
Push(t) ==
  /\ queue' = Append(queue, t)
  /\ st' = [st EXCEPT ![t] = "queued"]

(* block_on is entered, for the first time or again: the future becomes a  *)
(* task, whatever earlier calls left in the queue.                         *)
BlockOn ==
  /\ pc = "idle" /\ st[Main] \in {"none", "done"}
  /\ Push(Main)
  /\ flag' = TRUE
  /\ joinWaker' = FALSE
  /\ pc' = "start"
  /\ UNCHANGED <<visit, round, cur, ops, due, job, chan>>

StartRound ==
  /\ pc = "start"
  /\ pc' = "pop"
  /\ round' = 2 * Len(queue)
  /\ UNCHANGED <<visit, cur, flag, joinWaker, queue, st, ops, due, job, chan>>

Pop ==
  /\ pc = "pop" /\ queue # <<>>
  /\ queue' = Tail(queue)
  /\ cur' = Head(queue)
  /\ st' = [st EXCEPT ![Head(queue)] = "running"]
  /\ pc' = "run"
  /\ UNCHANGED <<visit, round, flag, joinWaker, ops, due, job, chan>>

PopNone ==
  /\ pc = "pop" /\ queue = <<>>
  /\ pc' = "main"
  /\ round' = 0
  /\ UNCHANGED <<visit, cur, flag, joinWaker, queue, st, ops, due, job, chan>>

(* Mutant: the round lasts as long as there are tasks to run.              *)
EndRunUnbounded ==
  /\ pc = "run"
  /\ cur' = NoTask
  /\ pc' = "pop"
  /\ UNCHANGED <<visit, round>>

(* After a task has run: the round goes on unless it is used up.           *)
EndRun ==
  /\ pc = "run"
  /\ cur' = NoTask
  /\ pc' = IF round = 0 THEN "main" ELSE "pop"
  /\ round' = IF round = 0 THEN 0 ELSE round - 1
  /\ UNCHANGED visit

-----------------------------------------------------------------------------
(* What a running task may do ...                                          *)

Spawn(t) ==
  /\ pc = "run" /\ t # Main /\ st[t] = "none"
  /\ Push(t)
  /\ UNCHANGED <<loop, ops, due, job, chan>>

WakePeer(t) ==
  /\ pc = "run" /\ st[t] = "peer"
  /\ Push(t)
  /\ UNCHANGED <<loop, ops, due, job, chan>>

(* spawn_blocking hands the closure to the pool, or runs it here and now.  *)
SpawnBlocking ==
  /\ pc = "run" /\ job[cur] = "none"
  /\ job' = [job EXCEPT ![cur] = IF pooled THEN "pool" ELSE "ended"]
  /\ UNCHANGED <<loop, queue, st, ops, due, chan>>

(* It polls the JoinHandle of a closure that has ended.                    *)
TakeResult ==
  /\ pc = "run" /\ job[cur] = "ended"
  /\ job' = [job EXCEPT ![cur] = "none"]
  /\ UNCHANGED <<loop, queue, st, ops, due, chan>>

(* ... and how its run may end: it yields, waits or finishes.              *)
Yield ==
  /\ EndRun
  /\ Push(cur)
  /\ UNCHANGED <<flag, joinWaker, ops, due, job, chan>>

AwaitIo ==
  /\ EndRun
  /\ st' = [st EXCEPT ![cur] = "io"]
  /\ IF legacy
     THEN kernel' = kernel \cup {cur} /\ UNCHANGED sq
     ELSE sq' = sq \cup {cur} /\ UNCHANGED kernel
  /\ UNCHANGED <<flag, joinWaker, queue, cq, due, job, chan>>

Await ==
  /\ EndRun
  /\ \/ st' = [st EXCEPT ![cur] = "timer"]
     \/ st' = [st EXCEPT ![cur] = "peer"]
     \/ job[cur] \in {"pool", "running", "lost"} /\ st' = [st EXCEPT ![cur] = "job"]
  /\ UNCHANGED <<flag, joinWaker, queue, ops, due, job, chan>>

(* Mutant: nobody tells block_on that its future is ready.                 *)
FinishSilent ==
  /\ EndRun
  /\ st' = [st EXCEPT ![cur] = "done"]
  /\ UNCHANGED <<flag, joinWaker, queue, ops, due, job, chan>>

Finish ==
  /\ EndRun
  /\ st' = [st EXCEPT ![cur] = "done"]
  /\ flag' = (flag \/ (cur = Main /\ joinWaker))
  /\ UNCHANGED <<joinWaker, queue, ops, due, job, chan>>

-----------------------------------------------------------------------------
(* The main future, and the calls of the driver.                           *)

(* should_poll takes the flag; the poll of the JoinHandle returns the      *)
(* output or leaves the dummy waker.                                       *)
PollMain ==
  /\ pc = "main" /\ flag
  /\ flag' = FALSE
  /\ IF st[Main] = "done"
     THEN pc' = "idle" /\ UNCHANGED joinWaker
     ELSE joinWaker' = TRUE /\ UNCHANGED pc
  /\ UNCHANGED <<visit, round, cur, queue, st, ops, due, job, chan>>

(* Mutant: with tasks to run the driver is left alone.                     *)
CallDriverParkOnly ==
  /\ pc = "main" /\ ~flag
  /\ needWait' = TRUE
  /\ IF queue = <<>>
     THEN mode' = "park" /\ pc' = "drain"
     ELSE pc' = "start" /\ UNCHANGED mode
  /\ UNCHANGED <<missed, round, cur, flag, joinWaker, queue, st, ops, due, job, chan>>

(* Without a task to run the driver is parked on; else submit is called,   *)
(* which for the legacy driver is a park without a wait.                   *)
CallDriver ==
  /\ pc = "main" /\ ~flag
  /\ needWait' = TRUE
  /\ IF queue = <<>>
     THEN mode' = "park" /\ pc' = "drain"
     ELSE mode' = "submit" /\ pc' = IF legacy THEN "drain" ELSE "enter"
  /\ UNCHANGED <<missed, round, cur, flag, joinWaker, queue, st, ops, due, job, chan>>

(* A task that is neither done nor queued already is woken. *)
Wake(t) == IF st[t] \in Waits THEN Push(t) ELSE UNCHANGED <<queue, st>>

Drain(t) ==
  /\ pc = "drain" /\ t \in chan
  /\ chan' = chan \ {t}
  /\ needWait' = FALSE
  /\ Wake(t)
  /\ UNCHANGED <<pc, mode, missed, round, cur, flag, joinWaker, ops, due, job>>

DrainEnds ==
  /\ pc = "drain" /\ chan = {}
  /\ pc' = "enter"
  /\ UNCHANGED <<visit, round, cur, flag, joinWaker, queue, st, ops, due, job, chan>>

(* UringInner::submit, of Driver::submit or of flush_space on the way to a *)
(* wait, finds the kernel busy (EAGAIN, EBUSY) and ticks the completion    *)
(* queue before it tries again. A park has drained the channel and decided *)
(* need_wait by then: it is going to sleep on the tasks that tick wakes    *)
(* (TickIo) ...                                                            *)
KernelBusy ==
  /\ ~legacy /\ pc = "enter" /\ (mode = "submit" \/ needWait)
  /\ pc' = "busy"
  /\ UNCHANGED <<visit, round, cur, flag, joinWaker, queue, st, ops, due, job, chan>>

(* ... and on the foreign wakers whose unpark, a completion of the eventfd *)
(* read, it consumes.                                                      *)
TickUnpark ==
  /\ pc = "busy" /\ mode = "park" /\ ~(chan \subseteq missed)
  /\ missed' = missed \cup chan
  /\ UNCHANGED <<pc, mode, needWait, round, cur, flag, joinWaker, queue, st, ops, due, job, chan>>

(* The operations queued are submitted. *)
Enter ==
  /\ pc = "enter" \/ (pc = "busy" /\ cq = {})
  /\ kernel' = kernel \cup sq
  /\ sq' = {}
  /\ pc' = IF mode = "park" /\ needWait THEN "sleep" ELSE "tick"
  /\ UNCHANGED <<visit, round, cur, flag, joinWaker, queue, st, cq, due, job, chan>>

(* It fails (so does a wait only if there was nothing to submit): the      *)
(* driver returns before its tick, TimeDriver before its timers, and       *)
(* block_on ignores the error.                                             *)
DriverFails ==
  /\ pc \in {"enter", "busy"}
  /\ pc' = "start"
  /\ missed' = {}
  /\ UNCHANGED <<mode, needWait, round, cur, flag, joinWaker, queue, st, ops, due, job, chan>>

(* Mutant: the timeout of the park is forgotten.                           *)
WakeUpTimeless ==
  /\ pc = "sleep" /\ cq \cup (chan \ missed) # {}
  /\ pc' = "tick"
  /\ missed' = {}
  /\ UNCHANGED <<mode, needWait, round, cur, flag, joinWaker, queue, st, ops, due, job, chan>>

(* The wait ends with a completion, an unpark that was not consumed before *)
(* it began, or the next timer.                                            *)
WakeUp ==
  /\ pc = "sleep" /\ cq \cup (chan \ missed) \cup due # {}
  /\ pc' = "tick"
  /\ missed' = {}
  /\ UNCHANGED <<mode, needWait, round, cur, flag, joinWaker, queue, st, ops, due, job, chan>>

(* It is interrupted, or ended by the Timeout entry of an earlier park.    *)
WakeUpEarly ==
  /\ pc = "sleep"
  /\ pc' = "tick"
  /\ missed' = {}
  /\ UNCHANGED <<mode, needWait, round, cur, flag, joinWaker, queue, st, ops, due, job, chan>>

TickIo(t) ==
  /\ pc \in {"tick", "busy"} /\ t \in cq
  /\ cq' = cq \ {t}
  /\ Push(t)
  /\ missed' = IF pc = "busy" /\ mode = "park" THEN missed \cup {t} ELSE missed
  /\ UNCHANGED <<pc, mode, needWait, round, cur, flag, joinWaker, sq, kernel, due, job, chan>>

(* TimeDriver::submit leaves the timers alone, park processes them.        *)
TickEnds ==
  /\ pc = "tick" /\ cq = {}
  /\ pc' = IF mode = "park" THEN "timers" ELSE "start"
  /\ UNCHANGED <<visit, round, cur, flag, joinWaker, queue, st, ops, due, job, chan>>

FireTimer(t) ==
  /\ pc = "timers" /\ t \in due
  /\ due' = due \ {t}
  /\ Push(t)
  /\ UNCHANGED <<loop, ops, job, chan>>

TimersEnd ==
  /\ pc = "timers" /\ due = {}
  /\ pc' = "start"
  /\ UNCHANGED <<visit, round, cur, flag, joinWaker, queue, st, ops, due, job, chan>>

-----------------------------------------------------------------------------
(* Everything outside of the thread.                                       *)

IoCompletes(t) ==
  /\ t \in kernel
  /\ kernel' = kernel \ {t}
  /\ cq' = cq \cup {t}
  /\ UNCHANGED <<loop, queue, st, sq, due, job, chan>>

TimerExpires(t) ==
  /\ st[t] = "timer" /\ t \notin due
  /\ due' = due \cup {t}
  /\ UNCHANGED <<loop, queue, st, ops, job, chan>>

PoolRuns(t) ==
  /\ job[t] = "pool"
  /\ job' = [job EXCEPT ![t] = "running"]
  /\ UNCHANGED <<loop, queue, st, ops, due, chan>>

(* The closure returns, or the pool drops it unrun; the JoinHandle's waker *)
(* is then a foreign one.                                                  *)
JobEnds(t) ==
  /\ job[t] \in {"running", "pool"}
  /\ job' = [job EXCEPT ![t] = "ended"]
  /\ chan' = IF st[t] = "job" THEN chan \cup {t} ELSE chan
  /\ UNCHANGED <<loop, queue, st, ops, due>>

(* It panics: the thread unwinds past the task cell.                       *)
JobPanics(t) ==
  /\ job[t] = "running"
  /\ job' = [job EXCEPT ![t] = "lost"]
  /\ UNCHANGED <<loop, queue, st, ops, due, chan>>

LoopStep ==
  \/ StartRound \/ Pop \/ PopNone
  \/ Yield \/ AwaitIo \/ Await \/ Finish
  \/ PollMain \/ CallDriver \/ DrainEnds \/ Enter \/ WakeUp \/ TickEnds \/ TimersEnd
  \/ \E t \in Tasks : Drain(t) \/ TickIo(t) \/ FireTimer(t)

DriverTrouble == KernelBusy \/ TickUnpark \/ DriverFails \/ WakeUpEarly

TaskStep == SpawnBlocking \/ TakeResult \/ \E t \in Tasks : Spawn(t) \/ WakePeer(t)

Environment ==
  \E t \in Tasks :
    IoCompletes(t) \/ TimerExpires(t) \/ PoolRuns(t) \/ JobEnds(t) \/ JobPanics(t)

Next == BlockOn \/ LoopStep \/ DriverTrouble \/ TaskStep \/ Environment

Spec == Init /\ [][Next /\ UNCHANGED <<legacy, pooled>>]_<<vars, legacy, pooled>>

(* The thread keeps running, a poll of a task returns, and the kernel is   *)
(* neither busy for ever nor fails every submission.                       *)
FairSpec == Spec /\ WF_vars(LoopStep) /\ SF_vars(Enter)

-----------------------------------------------------------------------------
InBlockOn == pc # "idle"

(* What flush_space may leave a park to sleep on.                          *)
SleepsOn(t) == pc = "sleep" /\ t \in missed

(* The thread never blocks while it has something to do: not on a main     *)
(* task that is done and whose output block_on has not returned, nor on a  *)
(* queued task, but for those that flush_space, when it found the kernel   *)
(* busy, woke in this very park.                                           *)
NoSleepOnWork ==
  /\ TypeOK
  /\ pc = "sleep" => /\ st[Main] # "done"
                     /\ \A i \in 1..Len(queue) : SleepsOn(queue[i])

(* No task is starved by others that yield for ever: a queued task runs,   *)
(* or it was woken by flush_space and the sleep that followed never ends.  *)
QueuedRuns ==
  \A t \in Tasks : (st[t] = "queued") ~> (st[t] = "running" \/ ~InBlockOn \/ []SleepsOn(t))

(* block_on returns once its future is ready, whatever else is queued.     *)
BlockOnReturns == (InBlockOn /\ st[Main] = "done") ~> ~InBlockOn

(* A completed operation wakes its task, also when the run queue never     *)
(* empties ("max round to prevent io starvation").                         *)
IoServed == \A t \in Tasks : (t \in cq) ~> (t \notin cq \/ ~InBlockOn)

(* If the thread parks again and again, or stays parked, expired timers    *)
(* fire, and finished closures wake the tasks that wait for them unless    *)
(* flush_space consumed the unpark of a sleep that never ends.             *)
ParkServes ==
  []<>(pc \in {"sleep", "timers"}) =>
    \A t \in Tasks :
      /\ (t \in due) ~> (t \notin due)
      /\ (st[t] = "job" /\ job[t] = "ended") ~> (st[t] # "job" \/ []SleepsOn(t))
=============================================================================
