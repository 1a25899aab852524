------------------------------- MODULE Wheel --------------------------------
(***************************************************************************)
(* The hierarchical timing wheel of time/driver/wheel, the timer entries   *)
(* of time/driver/entry.rs that live in it, and the rounds of the driver   *)
(* that advance it (Handle::process_at_time).                              *)
(*                                                                         *)
(* A timer's true expiration is in its state; the wheel files the entry    *)
(* under the expiration it last saw, cached_when, at a level and slot that *)
(* are computed again, from the current elapsed, whenever the entry is     *)
(* removed.  Instants are finer than ticks by the factor Res.              *)
(***************************************************************************)
EXTENDS Integers, FiniteSetsExt

CONSTANTS
  Timers,     \* Sleep instances
  Tasks,      \* tasks that poll them
  Mult,       \* LEVEL_MULT, slots of a level
  NumLevels,  \* NUM_LEVELS
  Res,        \* instants of a tick
  MaxInstant, \* bound on the clock and on deadlines
  Off,        \* STATE_DEREGISTERED
  Pending,    \* STATE_PENDING_FIRE
  NoTask      \* no waker

(* Off and Pending are no ticks: the code takes them from above the largest*)
(* tick a deadline has.                                                    *)
ASSUME WheelAssumption ==
  /\ Mult \in Nat /\ Mult >= 2
  /\ NumLevels \in Nat /\ NumLevels >= 1
  /\ Res \in Nat /\ Res >= 1
  /\ MaxInstant \in Nat
  /\ NoTask \notin Tasks
  /\ Off # Pending /\ {Off, Pending} \cap (Nat \cup (Nat \X Nat)) = {}

VARIABLES
  clock,      \* Clock::now, in instants
  elapsed,    \* Wheel::elapsed, in ticks
  round,      \* the tick process_at_time is working to, or Off
  state,      \* StateCell::state: a tick, Pending or Off
  cached,     \* cached_when
  at,         \* where the entry is linked: <<level, slot>>, Pending or Off
  occupied,   \* the occupied bits of the levels: pairs <<level, slot>>
  initial,    \* initial_deadline, or Off
  deadline,   \* Sleep::deadline, Off if there is no such Sleep
  waker,      \* StateCell::waker
  pollers     \* the tasks that have polled it since its waker was taken (history)

entry == <<state, cached, at, occupied>>
sleep == <<initial, deadline>>
wakers == <<waker, pollers>>
vars == <<clock, elapsed, round, entry, sleep, wakers>>

Instants == 0..MaxInstant
DeadlineToTick(i) == (i + Res - 1) \div Res
InstantToTick(i) == i \div Res
MaxTick == DeadlineToTick(MaxInstant)
Ticks == 0..MaxTick
Levels == 0..(NumLevels - 1)
Places == Levels \X (0..(Mult - 1))

(* The type invariant. *)
TypeOK ==
  /\ clock \in Instants
  /\ elapsed \in Ticks
  /\ round \in Ticks \cup {Off}
  /\ state \in [Timers -> Ticks \cup {Pending, Off}]
  /\ cached \in [Timers -> Ticks \cup {Off}]
  /\ at \in [Timers -> Places \cup {Pending, Off}]
  /\ occupied \subseteq Places
  /\ initial \in [Timers -> Instants \cup {Off}]
  /\ deadline \in [Timers -> Instants \cup {Off}]
  /\ waker \in [Timers -> Tasks \cup {NoTask}]
  /\ pollers \in [Timers -> SUBSET Tasks]

Init ==
  /\ clock = 0
  /\ elapsed = 0
  /\ round = Off
  /\ state = [t \in Timers |-> Off]
  /\ cached = [t \in Timers |-> 0]
  /\ at = [t \in Timers |-> Off]
  /\ occupied = {}
  /\ initial = [t \in Timers |-> Off]
  /\ deadline = [t \in Timers |-> Off]
  /\ waker = [t \in Timers |-> NoTask]
  /\ pollers = [t \in Timers |-> {}]

-----------------------------------------------------------------------------
(* Geometry of the wheel.                                                  *)

Pow[l \in 0..NumLevels] == IF l = 0 THEN 1 ELSE Mult * Pow[l - 1]
SlotRange(l) == Pow[l]
LevelRange(l) == Mult * SlotRange(l)
SlotFor(when, l) == (when \div SlotRange(l)) % Mult

(* level_for: the highest digit, to the base Mult, in which the two times  *)
(* differ; the top level takes what is beyond it.                          *)
LevelFor(now, when) ==
  LET same == {l \in Levels : now \div LevelRange(l) = when \div LevelRange(l)}
  IN  IF same = {} THEN NumLevels - 1 ELSE Min(same)

Place(now, when) == LET l == LevelFor(now, when) IN <<l, SlotFor(when, l)>>

OccupiedAt(l) == {p[2] : p \in {q \in occupied : q[1] = l}}

(* next_occupied_slot: the first one from the slot of now on, around the   *)
(* ring.                                                                   *)
NextOccupiedSlot(l, now) ==
  LET nowSlot == now \div SlotRange(l)
      zeros == Min({z \in 0..(Mult - 1) : (z + nowSlot) % Mult \in OccupiedAt(l)})
  IN  (zeros + nowSlot) % Mult

(* Level::next_expiration: the start of that slot, in the next rotation of *)
(* the top level if it is not in the future.                               *)
LevelDeadline(l, now) ==
  LET d == (now - (now % LevelRange(l))) + NextOccupiedSlot(l, now) * SlotRange(l)
  IN  IF d <= now THEN d + LevelRange(l) ELSE d

BusyLevels == {l \in Levels : OccupiedAt(l) # {}}
PendingTimers == {t \in Timers : at[t] = Pending}

(* Wheel::next_expiration: the first level that has one. *)
NextExpiration ==
  LET l == Min(BusyLevels)
  IN  [level |-> l, slot |-> NextOccupiedSlot(l, elapsed),
       deadline |-> LevelDeadline(l, elapsed)]

(* next_expiration_time, at which the driver's park ends. *)
NextExpirationTime ==
  IF PendingTimers # {} THEN elapsed
  ELSE IF BusyLevels = {} THEN Off ELSE NextExpiration.deadline

-----------------------------------------------------------------------------
(* Entries.                                                                *)

TakeWaker(t) ==
  /\ waker' = [waker EXCEPT ![t] = NoTask]
  /\ pollers' = [pollers EXCEPT ![t] = {}]

(* StateCell::fire takes the waker and calls it, if the timer was armed.   *)
FireEntry(t) == IF state[t] = Off THEN UNCHANGED wakers ELSE TakeWaker(t)

(* Mutant: the slot is looked for where the entry would be filed by its    *)
(* true expiration.                                                        *)
RemovalPlaceTrue(t) == Place(elapsed, IF state[t] \in Ticks THEN state[t] ELSE cached[t])

RemovalPlace(t) == Place(elapsed, cached[t])

(* The bits left when t is taken out of the slot it is believed to be in.  *)
OccupiedWithout(t) ==
  IF state[t] = Off \/ cached[t] = Off
     \/ \E u \in Timers \ {t} : at[u] = RemovalPlace(t)
  THEN occupied
  ELSE occupied \ {RemovalPlace(t)}

(* Handle::reregister: remove the entry if it might be registered, give it *)
(* the new expiration, insert it, or fire it if that has elapsed.          *)
Reregister(t, tick) ==
  /\ cached' = [cached EXCEPT ![t] = tick]
  /\ IF tick <= elapsed
     THEN /\ state' = [state EXCEPT ![t] = Off]
          /\ at' = [at EXCEPT ![t] = Off]
          /\ occupied' = OccupiedWithout(t)
          /\ TakeWaker(t)
     ELSE /\ state' = [state EXCEPT ![t] = tick]
          /\ at' = [at EXCEPT ![t] = Place(elapsed, tick)]
          /\ occupied' = OccupiedWithout(t) \cup {Place(elapsed, tick)}
          /\ UNCHANGED wakers

(* Mutant: an earlier deadline only changes the state, too.                *)
ExtendsAlways(t, tick) == state[t] \in Ticks

(* extend_expiration: a later deadline only changes the state. *)
Extends(t, tick) == state[t] \in Ticks /\ tick >= state[t]

ResetEntry(t, tick) ==
  IF Extends(t, tick)
  THEN state' = [state EXCEPT ![t] = tick] /\ UNCHANGED <<cached, at, occupied, wakers>>
  ELSE Reregister(t, tick)

-----------------------------------------------------------------------------
(* Operations on a Sleep.                                                  *)

(* Deadlines the model gives: less than one rotation of the top level, two *)
(* years in the code, ahead of the wheel.                                  *)
Deadlines ==
  {i \in Instants : DeadlineToTick(i) \div SlotRange(NumLevels - 1)
                      < elapsed \div SlotRange(NumLevels - 1) + Mult}

NewSleep(t) ==
  /\ round = Off /\ deadline[t] = Off
  /\ \E i \in Deadlines :
       initial' = [initial EXCEPT ![t] = i] /\ deadline' = [deadline EXCEPT ![t] = i]
  /\ UNCHANGED <<clock, elapsed, round, entry, wakers>>

Reset(t) ==
  /\ round = Off /\ deadline[t] # Off
  /\ \E i \in Deadlines :
       /\ deadline' = [deadline EXCEPT ![t] = i]
       /\ ResetEntry(t, DeadlineToTick(i))
  /\ initial' = [initial EXCEPT ![t] = Off]
  /\ UNCHANGED <<clock, elapsed, round>>

(* The first poll registers the timer (poll_elapsed resets it to its       *)
(* initial deadline) and goes on as Poll.                                  *)
Register(t) ==
  /\ round = Off /\ initial[t] # Off
  /\ ResetEntry(t, DeadlineToTick(initial[t]))
  /\ initial' = [initial EXCEPT ![t] = Off]
  /\ UNCHANGED <<clock, elapsed, round, deadline>>

(* StateCell::poll keeps a waker that is there, also one that a poll left  *)
(* which found the timer expired, and looks at the state.                  *)
Poll(t, k) ==
  /\ round = Off /\ deadline[t] # Off /\ initial[t] = Off
  /\ waker' = [waker EXCEPT ![t] = IF @ = NoTask THEN k ELSE @]
  /\ pollers' = [pollers EXCEPT ![t] = @ \cup {k}]
  /\ UNCHANGED <<clock, elapsed, round, entry, sleep>>

(* TimerEntry::drop: clear_entry removes and fires it without a wake.      *)
DropSleep(t) ==
  /\ round = Off /\ deadline[t] # Off
  /\ occupied' = OccupiedWithout(t)
  /\ state' = [state EXCEPT ![t] = Off]
  /\ at' = [at EXCEPT ![t] = Off]
  /\ cached' = [cached EXCEPT ![t] = 0]
  /\ initial' = [initial EXCEPT ![t] = Off]
  /\ deadline' = [deadline EXCEPT ![t] = Off]
  /\ TakeWaker(t)
  /\ UNCHANGED <<clock, elapsed, round>>

-----------------------------------------------------------------------------
(* The driver.                                                             *)

ClockAdvances ==
  /\ round = Off /\ clock < MaxInstant
  /\ clock' = clock + 1
  /\ UNCHANGED <<elapsed, round, entry, sleep, wakers>>

(* Mutant: the clock is trusted.                                           *)
ProcessUnclamped ==
  /\ round = Off
  /\ \E i \in {clock, clock - 1} \cap Instants : round' = InstantToTick(i)
  /\ UNCHANGED <<clock, elapsed, entry, sleep, wakers>>

(* Handle::process reads the clock; a clock that went backwards is ignored.*)
Process ==
  /\ round = Off
  /\ \E i \in {clock, clock - 1} \cap Instants :
       round' = Max({InstantToTick(i), elapsed})
  /\ UNCHANGED <<clock, elapsed, entry, sleep, wakers>>

(* Wheel::poll, one turn of its loop at a time: a pending entry is fired.  *)
PopPending(t) ==
  /\ round # Off /\ at[t] = Pending
  /\ state' = [state EXCEPT ![t] = Off]
  /\ at' = [at EXCEPT ![t] = Off]
  /\ FireEntry(t)
  /\ UNCHANGED <<clock, elapsed, round, cached, occupied, sleep>>

(* mark_pending. *)
IsDue(t, when) == state[t] <= when

(* process_expiration: the slot's entries become pending, or are filed     *)
(* again under their true expiration.                                      *)
ProcessExpiration ==
  LET ex == NextExpiration
      taken == {t \in Timers : at[t] = <<ex.level, ex.slot>>}
      fired == {t \in taken : IsDue(t, ex.deadline)}
      moved == taken \ fired
  IN
  /\ round # Off /\ PendingTimers = {} /\ BusyLevels # {}
  /\ ex.deadline <= round
  /\ state' = [t \in Timers |-> IF t \in fired THEN Pending ELSE state[t]]
  /\ cached' = [t \in Timers |-> IF t \in fired THEN Off
                                 ELSE IF t \in moved THEN state[t] ELSE cached[t]]
  /\ at' = [t \in Timers |-> IF t \in fired THEN Pending
                             ELSE IF t \in moved THEN Place(ex.deadline, state[t]) ELSE at[t]]
  /\ occupied' = (occupied \ {<<ex.level, ex.slot>>})
                   \cup {Place(ex.deadline, state[t]) : t \in moved}
  /\ elapsed' = ex.deadline
  /\ UNCHANGED <<clock, round, sleep, wakers>>

(* Nothing expires by the round's tick: the wheel advances to it.          *)
RoundEnds ==
  /\ round # Off /\ PendingTimers = {}
  /\ BusyLevels # {} => NextExpiration.deadline > round
  /\ elapsed' = round
  /\ round' = Off
  /\ UNCHANGED <<clock, entry, sleep, wakers>>

Next ==
  \/ ClockAdvances \/ Process \/ ProcessExpiration \/ RoundEnds
  \/ \E t \in Timers : NewSleep(t) \/ Reset(t) \/ Register(t) \/ DropSleep(t) \/ PopPending(t)
  \/ \E t \in Timers, k \in Tasks : Poll(t, k)

Spec == Init /\ [][Next]_vars

-----------------------------------------------------------------------------
Registered == {t \in Timers : state[t] \in Ticks}

(* An entry is always where the wheel will look for it: at the place its   *)
(* cached expiration has for the current elapsed, although elapsed has     *)
(* moved on and the true expiration may have changed since it was filed;   *)
(* and the occupied bits say where entries are.                            *)
FiledWhereSought ==
  /\ \A t \in Registered : cached[t] > elapsed /\ at[t] = Place(elapsed, cached[t])
  /\ occupied = {at[t] : t \in Registered}

(* The wheel's assertions hold: a slot that is not in the future only      *)
(* occurs at the top level, no higher level has an earlier expiration, and *)
(* level zero files an entry under its very tick.                          *)
WheelAssertions ==
  /\ \A l \in BusyLevels : LevelDeadline(l, elapsed) > elapsed
  /\ \A l \in BusyLevels : LevelDeadline(Min(BusyLevels), elapsed) <= LevelDeadline(l, elapsed)
  /\ \A l \in BusyLevels \ {NumLevels - 1} :
       NextOccupiedSlot(l, elapsed) * SlotRange(l) > (elapsed % LevelRange(l))
  /\ \A t \in Registered : at[t] = <<0, SlotFor(cached[t], 0)>> =>
       cached[t] - elapsed < Mult

(* The wheel's structure is sound although elapsed moves under entries     *)
(* that stay where they were filed.                                        *)
WheelConsistent == TypeOK /\ FiledWhereSought /\ WheelAssertions

(* The park that ends at next_expiration_time does not outlast a timer.    *)
NextWakeInTime == \A t \in Registered : NextExpirationTime <= state[t]

(* A Sleep reports Ready only at or after its deadline.                    *)
NeverEarly ==
  \A t \in Timers : deadline[t] # Off /\ initial[t] = Off /\ state[t] = Off
                      => clock >= deadline[t]

(* The waker a timer calls when it fires is that of the task that polled   *)
(* it, provided no other task did since the last one was taken: the first  *)
(* poller's waker is kept, whatever Interval::poll_tick says of the most   *)
(* recent call.                                                            *)
LonePollerWoken == \A t \in Timers, k \in Tasks : pollers[t] = {k} => waker[t] = k

(* A Sleep ends neither before its deadline nor after the park that should *)
(* end at it, and a task that waits for it alone hears of it.              *)
OnTime == NextWakeInTime /\ NeverEarly /\ LonePollerWoken

(* The wheel implements the set of timers.                                 *)
Abstract == INSTANCE TimerSpec WITH
  due <- [t \in Timers |-> IF state[t] = Pending THEN elapsed ELSE state[t]],
  served <- elapsed, round <- round

Implements == Abstract!TimerSpecification
=============================================================================
