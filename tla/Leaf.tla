-------------------------------- MODULE Leaf --------------------------------
(***************************************************************************)
(* The futures at the leaves of a task: a plain event (a channel, a        *)
(* JoinHandle), Sleep, the tick of an Interval (time/interval.rs) and      *)
(* CtrlC (utils/ctrlc.rs).  Polling one either yields its value or leaves  *)
(* the task's waker with it.  An event may also be polled for in a spin,   *)
(* by a future that keeps no waker but wakes its own task at every poll.   *)
(*                                                                         *)
(* The timers are those of TimerSpec, which the wheel is shown to          *)
(* implement: a timer that is due fires in the next round of the driver,   *)
(* and one armed for a time that has been served fires at once.            *)
(***************************************************************************)
EXTENDS Integers, Sequences

CONSTANTS
  Configs,     \* the tasks: a combinator, its leaves, what they yield, and the
               \* bounds on the clock (time), signals and turns of its loop
  Period,      \* of an Interval
  Slack,       \* the 5 ms within which no tick counts as missed
  Off,         \* a timer that has fired
  Unarmed      \* a timer not yet polled

ASSUME LeafAssumption ==
  /\ Period \in Nat \ {0}    \* asserted by interval_at
  /\ Slack \in Nat
  /\ Off # Unarmed /\ Off \notin Nat /\ Unarmed \notin Nat

Kinds == {"event", "spin", "sleep", "tick", "ctrlc"}

\* CtrlC::new fails the second time, so a task has one at most; only select!
\* has preconditions, and only a select! is looped over here.
ASSUME ConfigAssumption ==
  \A c \in Configs :
    /\ c.leaf \in Seq(Kinds) /\ c.leaf # <<>>
    /\ c.deadline \in [1..Len(c.leaf) -> Nat]
    /\ c.good \in [1..Len(c.leaf) -> BOOLEAN]
    /\ c.cond \in [1..Len(c.leaf) -> BOOLEAN]
    /\ c.form \in {"join", "try_join", "timeout", "select", "biased"}
    /\ c.missed \in {"Burst", "Delay", "Skip"}
    /\ c.time \in Nat /\ c.signals \in Nat /\ c.rounds \in Nat
    /\ \A a, b \in 1..Len(c.leaf) : c.leaf[a] = "ctrlc" /\ c.leaf[b] = "ctrlc" => a = b
    /\ c.form \notin {"select", "biased"} =>
         c.rounds = 0 /\ \A a \in 1..Len(c.leaf) : c.cond[a]

VARIABLES
  cfg,         \* the task
  now,         \* Instant::now
  served,      \* the time the driver has worked up to
  fired,       \* the events that have happened
  deadline,    \* Sleep::deadline
  due,         \* the time a timer is armed for, Off or Unarmed
  registered,  \* the leaves that hold the task's waker
  last,        \* an Interval's last tick, its time and distance from the one
               \* before (history)
  ACTIVE, WAKER,
  handler,     \* the signal handler: idle, or past its store to ACTIVE
  signals,     \* signals so far
  woken        \* the task is to be polled

leafVars == <<cfg, now, served, fired, deadline, due, registered, last,
              ACTIVE, WAKER, handler, signals, woken>>

N == Len(cfg.leaf)
Leaves == 1..N
Timer(c) == cfg.leaf[c] \in {"sleep", "tick"}

LeafInit ==
  /\ cfg \in Configs
  /\ now = 0
  /\ served = 0
  /\ fired = {}
  /\ deadline = cfg.deadline
  /\ due = [c \in Leaves |-> Unarmed]
  /\ registered = {}
  /\ last = [c \in Leaves |-> [tick |-> cfg.deadline[c] - Period, at |-> cfg.deadline[c],
                               gap |-> Period]]
  /\ ACTIVE = FALSE
  /\ WAKER = FALSE
  /\ handler = "idle"
  /\ signals = 0
  /\ woken = TRUE

\* Handle::reregister.
Arm(t) == IF t <= served THEN Off ELSE t

\* poll_elapsed arms a new timer before it looks at it.
Armed(c) == IF due[c] = Unarmed THEN Arm(deadline[c]) ELSE due[c]

IsReady(c) == CASE cfg.leaf[c] \in {"event", "spin"} -> c \in fired
                [] cfg.leaf[c] = "ctrlc" -> ACTIVE
                [] OTHER -> Armed(c) = Off

\* Mutant: Skip goes on from the time it is, not from the grid.
next_timeout_drifts(timeout) ==
  CASE cfg.missed = "Burst" -> timeout + Period
    [] cfg.missed = "Delay" -> now + Period
    [] cfg.missed = "Skip" -> now + Period - ((now - timeout) \div Period)

next_timeout(timeout) ==
  CASE cfg.missed = "Burst" -> timeout + Period
    [] cfg.missed = "Delay" -> now + Period
    [] cfg.missed = "Skip" -> now + Period - ((now - timeout) % Period)

\* poll_tick, once its delay has elapsed: the delay is set for the next tick.
poll_tick(c) ==
  LET timeout == deadline[c]
      next == IF now > timeout + Slack THEN next_timeout(timeout) ELSE timeout + Period
  IN  /\ deadline' = [deadline EXCEPT ![c] = next]
      /\ due' = [due EXCEPT ![c] = Arm(next)]
      /\ last' = [last EXCEPT ![c] = [tick |-> timeout, at |-> now, gap |-> timeout - last[c].tick]]

\* A leaf that is ready gives its value.
Yield(c) ==
  /\ IsReady(c)
  /\ ACTIVE' = (ACTIVE /\ cfg.leaf[c] # "ctrlc")
  /\ IF cfg.leaf[c] = "tick" THEN poll_tick(c)
     ELSE /\ due' = [due EXCEPT ![c] = IF Timer(c) THEN Off ELSE @]
          /\ UNCHANGED <<deadline, last>>
  /\ registered' = registered \ {c}
  /\ UNCHANGED <<cfg, now, served, fired, WAKER, handler, signals, woken>>

\* Mutant: a timer polled again keeps no waker.
WaitsUnheard(c) ==
  /\ ~IsReady(c)
  /\ cfg.leaf[c] # "ctrlc"
  /\ due' = [due EXCEPT ![c] = IF Timer(c) THEN Armed(c) ELSE @]
  /\ registered' = IF due[c] = Unarmed /\ cfg.leaf[c] # "spin"
                   THEN registered \cup {c} ELSE registered \ {c}
  /\ woken' = (woken \/ cfg.leaf[c] = "spin")
  /\ UNCHANGED <<cfg, now, served, fired, deadline, last, ACTIVE, WAKER, handler, signals>>

\* One that is not keeps the waker, or uses it at once.
Waits(c) ==
  /\ ~IsReady(c)
  /\ cfg.leaf[c] # "ctrlc"
  /\ due' = [due EXCEPT ![c] = IF Timer(c) THEN Armed(c) ELSE @]
  /\ registered' = IF cfg.leaf[c] = "spin" THEN registered ELSE registered \cup {c}
  /\ woken' = (woken \/ cfg.leaf[c] = "spin")
  /\ UNCHANGED <<cfg, now, served, fired, deadline, last, ACTIVE, WAKER, handler, signals>>

\* CtrlC::poll, after the swap of ACTIVE found nothing.
LeaveWaker ==
  /\ WAKER' = TRUE
  /\ UNCHANGED <<cfg, now, served, fired, deadline, due, registered, last,
                 ACTIVE, handler, signals, woken>>

-----------------------------------------------------------------------------
Happens(c) ==
  /\ cfg.leaf[c] \in {"event", "spin"} /\ c \notin fired
  /\ fired' = fired \cup {c}
  /\ registered' = registered \ {c}
  /\ woken' = (woken \/ c \in registered)
  /\ UNCHANGED <<cfg, now, served, deadline, due, last, ACTIVE, WAKER, handler, signals>>

TimePasses ==
  /\ now < cfg.time
  /\ now' = now + 1
  /\ UNCHANGED <<cfg, served, fired, deadline, due, registered, last,
                 ACTIVE, WAKER, handler, signals, woken>>

\* The round of the time driver, between two polls of the task.
Round ==
  LET fires == {c \in Leaves : due[c] \in 0..now}
  IN  /\ served < now
      /\ served' = now
      /\ due' = [c \in Leaves |-> IF c \in fires THEN Off ELSE due[c]]
      /\ registered' = registered \ fires
      /\ woken' = (woken \/ registered \cap fires # {})
      /\ UNCHANGED <<cfg, now, fired, deadline, last, ACTIVE, WAKER, handler, signals>>

\* The handler that CtrlC::new installs, on the thread of the signals.
Signal ==
  /\ handler = "idle" /\ signals < cfg.signals
  /\ \E c \in Leaves : cfg.leaf[c] = "ctrlc"
  /\ signals' = signals + 1
  /\ ACTIVE' = TRUE
  /\ handler' = "stored"
  /\ UNCHANGED <<cfg, now, served, fired, deadline, due, registered, last, WAKER, woken>>

SignalWakes ==
  /\ handler = "stored"
  /\ handler' = "idle"
  /\ WAKER' = FALSE
  /\ woken' = (woken \/ WAKER)
  /\ UNCHANGED <<cfg, now, served, fired, deadline, due, registered, last, ACTIVE, signals>>

=============================================================================
