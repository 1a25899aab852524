------------------------------ MODULE Combine -------------------------------
(***************************************************************************)
(* The futures that combine others on one task: join!, try_join! and       *)
(* select! of macros/, and Timeout of time/timeout.rs, which polls its     *)
(* value and then its delay.  A poll of the task runs through the branches *)
(* one by one; events and signals on other threads come in between.        *)
(***************************************************************************)
EXTENDS Leaf, FiniteSets

VARIABLES
  pc,          \* enter, poll, arm (in CtrlC::poll), idle or done
  i, start,    \* the loop over the branches
  is_pending,
  disabled,    \* select!: the mask; join!: the MaybeDones that are Done
  finished,    \* the branches that have yielded (history)
  atStart,     \* the branches that were ready when the poll began (history)
  panicked,    \* a future was polled after it had yielded
  outcome,     \* the branch that decided, All, or Else
  rounds       \* turns of the loop around a select!

pollVars == <<pc, i, start, is_pending, disabled, finished, atStart, panicked, outcome, rounds>>
vars == <<leafVars, pollVars>>

All == 0
Else == -1

Selects == cfg.form \in {"select", "biased"}

\* What a branch yields decides at once: an Err in a try_join!, the value and
\* the delay of a Timeout, a value that matches its pattern in a select!.
TryJoinEnds(c) == ~cfg.good[c]
TimeoutEnds(c) == c \in {1, 2}    \* the value, the delay
SelectEnds(c) == cfg.good[c]

Decides(c) == CASE cfg.form = "join" -> FALSE
                [] cfg.form = "try_join" -> TryJoinEnds(c)
                [] cfg.form = "timeout" -> TimeoutEnds(c)
                [] OTHER -> SelectEnds(c)

Init ==
  /\ LeafInit
  /\ pc = "idle"
  /\ i = 0 /\ start = 0
  /\ is_pending = FALSE
  /\ disabled = {c \in Leaves : ~cfg.cond[c]}
  /\ finished = {}
  /\ atStart = {}
  /\ panicked = FALSE
  /\ outcome = All
  /\ rounds = 0

branch == ((start + i) % N) + 1

\* thread_rng_n, or the constant of a select! that is biased.
Starts == IF cfg.form = "select" THEN 0..(N - 1) ELSE {0}

\* A MaybeDone that is Done is not polled again, nor is a branch whose bit is
\* set in disabled.
Passed == branch \in disabled

\* The task is polled when it was woken, or comes round to the select! again.
BeginPoll ==
  /\ \/ pc = "idle" /\ woken /\ woken' = FALSE
     \/ pc = "enter" /\ UNCHANGED woken
  /\ pc' = "poll"
  /\ i' = 0
  /\ start' \in Starts
  /\ is_pending' = FALSE
  /\ atStart' = {c \in Leaves : IsReady(c)}
  /\ UNCHANGED <<disabled, finished, panicked, outcome, rounds>>
  /\ UNCHANGED <<cfg, now, served, fired, deadline, due, registered, last,
                 ACTIVE, WAKER, handler, signals>>

\* Mutant: a branch that is Done is waited for.
SkipBranchPending ==
  /\ pc = "poll" /\ i < N /\ Passed
  /\ i' = i + 1
  /\ is_pending' = TRUE
  /\ UNCHANGED <<leafVars, pc, start, disabled, finished, atStart, panicked, outcome, rounds>>

\* A branch that is disabled or Done is passed over.
SkipBranch ==
  /\ pc = "poll" /\ i < N /\ Passed
  /\ i' = i + 1
  /\ UNCHANGED <<leafVars, pc, start, is_pending, disabled, finished, atStart, panicked, outcome, rounds>>

\* Mutant: a branch whose value does not match its pattern is not disabled.
BranchReadyAgain ==
  /\ pc = "poll" /\ i < N /\ ~Passed
  /\ Yield(branch)
  /\ finished' = finished \cup {branch}
  /\ panicked' = (panicked \/ branch \in finished)
  /\ IF Decides(branch)
     THEN pc' = "done" /\ outcome' = branch /\ UNCHANGED <<i, disabled>>
     ELSE /\ i' = i + 1
          /\ disabled' = IF Selects THEN disabled ELSE disabled \cup {branch}
          /\ UNCHANGED <<pc, outcome>>
  /\ UNCHANGED <<start, is_pending, atStart, rounds>>

BranchReady ==
  /\ pc = "poll" /\ i < N /\ ~Passed
  /\ Yield(branch)
  /\ disabled' = disabled \cup {branch}
  /\ finished' = finished \cup {branch}
  /\ panicked' = (panicked \/ branch \in finished)
  /\ IF Decides(branch)
     THEN pc' = "done" /\ outcome' = branch /\ i' = 0 /\ start' = 0 /\ is_pending' = FALSE
     ELSE i' = i + 1 /\ UNCHANGED <<pc, outcome, start, is_pending>>
  /\ UNCHANGED <<atStart, rounds>>

BranchPending ==
  /\ pc = "poll" /\ i < N /\ ~Passed
  /\ Waits(branch)
  /\ panicked' = (panicked \/ branch \in finished)
  /\ is_pending' = TRUE
  /\ i' = i + 1
  /\ UNCHANGED <<pc, start, disabled, finished, atStart, outcome, rounds>>

\* CtrlC::poll in its two steps.
CtrlCInactive ==
  /\ pc = "poll" /\ i < N /\ ~Passed
  /\ cfg.leaf[branch] = "ctrlc" /\ ~ACTIVE
  /\ pc' = "arm"
  /\ UNCHANGED <<leafVars, i, start, is_pending, disabled, finished, atStart, panicked, outcome, rounds>>

CtrlCPending ==
  /\ pc = "arm"
  /\ LeaveWaker
  /\ pc' = "poll"
  /\ is_pending' = TRUE
  /\ i' = i + 1
  /\ UNCHANGED <<start, disabled, finished, atStart, panicked, outcome, rounds>>

\* All branches were passed: wait, hand out all the values, or take the else.
EndPoll ==
  /\ pc = "poll" /\ i = N
  /\ IF is_pending
     THEN pc' = "idle" /\ UNCHANGED outcome
     ELSE pc' = "done" /\ outcome' = IF Selects THEN Else ELSE All
  /\ i' = 0 /\ start' = 0 /\ is_pending' = FALSE
  /\ UNCHANGED <<leafVars, disabled, finished, atStart, panicked, rounds>>

\* A loop around a select!: its events are made anew, the Interval, the CtrlC
\* and a pinned Sleep live on, and the loop ends with the Sleep.
Again ==
  LET events == {c \in Leaves : cfg.leaf[c] \in {"event", "spin"}}
  IN  /\ pc = "done" /\ rounds < cfg.rounds
      /\ outcome \in Leaves /\ cfg.leaf[outcome] # "sleep"
      /\ \A c \in finished : cfg.leaf[c] # "sleep"
      /\ rounds' = rounds + 1
      /\ pc' = "enter"
      /\ disabled' = {c \in Leaves : ~cfg.cond[c]}
      /\ finished' = {}
      /\ fired' = fired \ events
      /\ registered' = registered \ events
      /\ UNCHANGED <<i, start, is_pending, atStart, panicked, outcome>>
      /\ UNCHANGED <<cfg, now, served, deadline, due, last, ACTIVE, WAKER, handler, signals, woken>>

Poll == BeginPoll \/ SkipBranch \/ BranchReady \/ BranchPending
          \/ CtrlCInactive \/ CtrlCPending \/ EndPoll

Live == {c \in Leaves : cfg.cond[c] /\ c \notin finished}

\* The driver works on the timers when the thread parks, for which no task may
\* be queued: not this one, as a branch that spins keeps it, nor any other.
Driver ==
  /\ pc \in {"idle", "done"}
  /\ pc = "idle" => \A c \in Live : cfg.leaf[c] # "spin"
  /\ Round
  /\ UNCHANGED pollVars

Environment ==
  \/ TimePasses /\ UNCHANGED pollVars
  \/ Signal /\ UNCHANGED pollVars
  \/ SignalWakes /\ UNCHANGED pollVars
  \/ \E c \in Leaves : Happens(c) /\ UNCHANGED pollVars

Next == Poll \/ Again \/ Driver \/ Environment

\* The runtime polls a task that was woken, and time passes.  Nothing is asked
\* of the Driver: the tasks of the thread may keep it from parking.
Fairness == WF_vars(Poll) /\ WF_vars(TimePasses /\ UNCHANGED pollVars)

Spec == Init /\ [][Next]_vars /\ Fairness

-----------------------------------------------------------------------------
\* The combinator decides on what its branches yielded, however they were
\* interleaved with the poll, and polls none again that has yielded: a join!
\* has all the values, a try_join! has them or an Err, a select! has a value
\* that matched or has exhausted its branches.  A biased select! and a Timeout
\* prefer their earlier branches: one that was ready as the poll began is not
\* passed over, so a value that is there beats a deadline that has passed.
OutcomeRight ==
  /\ ~panicked
  /\ pc = "done" =>
       CASE outcome = All -> /\ finished = Leaves
                             /\ cfg.form = "try_join" => \A c \in Leaves : cfg.good[c]
         [] outcome = Else -> Selects /\ \A c \in Live \cup finished : c \in finished /\ ~cfg.good[c]
         [] OTHER -> /\ outcome \in finished /\ Decides(outcome) /\ cfg.cond[outcome]
                     /\ \A c \in finished \ {outcome} : ~Decides(c)
                     /\ cfg.form \in {"biased", "timeout"} =>
                          \A c \in 1..(outcome - 1) \cap atStart \cap Live : FALSE
  /\ pc = "idle" => atStart \cap Live = {}

\* A task that sleeps is heard: every branch it waits for holds its waker and
\* has not been ready in the meantime (a CtrlC may have been: see the README).
NoLostWake ==
  pc = "idle" /\ ~woken =>
    \A c \in Live : CASE cfg.leaf[c] = "event" -> c \in registered \ fired
                      [] cfg.leaf[c] = "spin" -> FALSE
                      [] cfg.leaf[c] = "ctrlc" -> WAKER
                      [] OTHER -> c \in registered /\ due[c] \notin {Off, Unarmed}

\* The ticks of an Interval are a period or more apart and never early: every
\* multiple of it in a Burst, some of them with Skip; and a select! that drops
\* a tick that is pending loses none.
TicksOnSchedule ==
  \A c \in Leaves :
    /\ last[c].at >= last[c].tick
    /\ last[c].gap >= Period
    /\ cfg.missed = "Burst" => last[c].gap = Period
    /\ cfg.missed = "Skip" => last[c].gap % Period = 0

\* The branches that have their value, and the timers that will be due.
Happened == finished \cup fired \cup {c \in Leaves : Timer(c) /\ IsReady(c)}
Bound == {c \in Leaves : Timer(c) /\ deadline[c] <= cfg.time}

\* The combinator needs no more than the branches in S.
Enough(S) == CASE cfg.form = "join" -> Leaves \subseteq S
               [] cfg.form = "timeout" -> {1, 2} \cap S # {}
               [] OTHER -> \/ \E c \in Live \cap S : Decides(c)
                           \/ Live \subseteq S

\* A combinator completes once its branches have what it needs, other tasks or
\* not; it completes when its timers are bound to be due, and so does a Timeout
\* whose value never comes, if the thread parks again and again, which neither
\* block_on nor a branch that wakes its own task at every poll guarantees.
Completes ==
  /\ (pc # "done" /\ Enough(Happened)) ~> (pc = "done")
  /\ []<>(served = now) =>
       ((pc # "done" /\ Enough(Happened \cup Bound)) ~> (pc = "done"))

=============================================================================
