--------------------------- MODULE CombineProofs ----------------------------
(***************************************************************************)
(* What the combinators and the futures below them promise, for every      *)
(* number and kind of branches, every interleaving of their events with a  *)
(* poll, every period and every bound on time and signals.                 *)
(***************************************************************************)
EXTENDS Combine, TLAPS

(* The branch that a poll comes to in its j-th step.                       *)
At(j) == ((start + j) % N) + 1

(* The branches a poll under way has been to.                              *)
Visited == {At(j) : j \in 0..(i - 1)}

(* A branch that was told to wait and has the task's waker.                *)
Heard(c) == CASE cfg.leaf[c] = "event" -> c \in registered \ fired
              [] cfg.leaf[c] = "spin" -> FALSE
              [] cfg.leaf[c] = "ctrlc" -> WAKER
              [] OTHER -> c \in registered /\ due[c] \notin {Off, Unarmed}

(* The types of the task, its leaves and its poll.                         *)
CombineTypeOK ==
  /\ cfg \in Configs
  /\ now \in Nat /\ served \in Nat /\ served <= now
  /\ fired \subseteq Leaves /\ registered \subseteq Leaves
  /\ deadline \in [Leaves -> Nat]
  /\ due \in [Leaves -> Nat \cup {Off, Unarmed}]
  /\ last \in [Leaves -> [tick : Int, at : Int, gap : Int]]
  /\ ACTIVE \in BOOLEAN /\ WAKER \in BOOLEAN /\ woken \in BOOLEAN
  /\ pc \in {"enter", "poll", "arm", "idle", "done"}
  /\ i \in 0..N /\ start \in 0..(N - 1) /\ is_pending \in BOOLEAN
  /\ disabled \subseteq Leaves /\ finished \subseteq Leaves /\ atStart \subseteq Leaves
  /\ outcome \in {All, Else} \cup Leaves

(* A branch is disabled for its precondition or because it has yielded, so *)
(* none is polled again.                                                   *)
MaskInv ==
  /\ disabled = finished \cup {c \in Leaves : ~cfg.cond[c]}
  /\ ~panicked
  /\ \A c \in finished : cfg.cond[c]
  /\ \A c \in finished : Decides(c) => pc = "done" /\ outcome = c

(* A poll: it starts where its form says, a branch that was ready as it    *)
(* began is still ready until it is polled, and one that the poll has been *)
(* to and not disabled was not ready then, is waited for, and is heard.    *)
PollInv ==
  /\ pc \in {"poll", "arm"} =>
       /\ start \in Starts
       /\ \A c \in atStart : c \in disabled \/ IsReady(c)
       /\ \A c \in Visited : \/ c \in disabled
                             \/ is_pending /\ c \notin atStart /\ (woken \/ Heard(c))
  /\ pc = "arm" => /\ i < N /\ cfg.leaf[branch] = "ctrlc"
                   /\ branch \notin atStart /\ branch \notin disabled

(* The state between polls.                                                *)
RestInv == OutcomeRight /\ NoLostWake

(* A timer is armed for its deadline, and one that has fired has been      *)
(* served.                                                                 *)
TimerInv ==
  \A c \in Leaves :
    /\ due[c] \in Nat => due[c] = deadline[c]
    /\ due[c] = Off => deadline[c] <= served
    /\ ~Timer(c) => due[c] = Unarmed

(* The next tick of an Interval is a period or more after the last one.    *)
TickInv ==
  /\ \A c \in Leaves :
       LET gap == deadline[c] - last[c].tick
       IN  /\ gap >= Period
           /\ cfg.missed = "Burst" => gap = Period
           /\ cfg.missed = "Skip" => gap % Period = 0
  /\ TicksOnSchedule

CombineInv == CombineTypeOK /\ MaskInv /\ PollInv /\ RestInv /\ TimerInv /\ TickInv
-----------------------------------------------------------------------------
(* What the assumptions say of the task that runs.                         *)
LEMMA ConfigFacts ==
  ASSUME cfg \in Configs
  PROVE  /\ N \in Nat /\ N > 0
         /\ \A c \in Leaves : /\ cfg.leaf[c] \in Kinds
                              /\ cfg.good[c] \in BOOLEAN /\ cfg.cond[c] \in BOOLEAN
                              /\ c \in Nat /\ c > 0 /\ c <= N
         /\ cfg.deadline \in [Leaves -> Nat]
         /\ cfg.form \in {"join", "try_join", "timeout", "select", "biased"}
         /\ cfg.missed \in {"Burst", "Delay", "Skip"}
         /\ \A a, b \in Leaves : cfg.leaf[a] = "ctrlc" /\ cfg.leaf[b] = "ctrlc" => a = b
         /\ ~Selects => cfg.rounds = 0 /\ \A c \in Leaves : cfg.cond[c]
         /\ All \notin Leaves /\ Else \notin Leaves /\ All # Else
  <1>1. /\ cfg.leaf \in Seq(Kinds) /\ cfg.leaf # <<>>
        /\ cfg.deadline \in [1..Len(cfg.leaf) -> Nat]
        /\ cfg.good \in [1..Len(cfg.leaf) -> BOOLEAN]
        /\ cfg.cond \in [1..Len(cfg.leaf) -> BOOLEAN]
        /\ cfg.form \in {"join", "try_join", "timeout", "select", "biased"}
        /\ cfg.missed \in {"Burst", "Delay", "Skip"}
        /\ \A a, b \in 1..Len(cfg.leaf) : cfg.leaf[a] = "ctrlc" /\ cfg.leaf[b] = "ctrlc" => a = b
        /\ cfg.form \notin {"select", "biased"} =>
             cfg.rounds = 0 /\ \A a \in 1..Len(cfg.leaf) : cfg.cond[a]
    BY ConfigAssumption
  <1>2. PICK s \in Seq(Kinds) : s = cfg.leaf
    BY <1>1
  <1>3. Len(s) \in Nat /\ Len(s) > 0 /\ \A c \in 1..Len(s) : s[c] \in Kinds
    BY <1>1, <1>2
  <1>4. N = Len(s) /\ Leaves = 1..Len(s)
    BY <1>2 DEF N, Leaves
  <1>5. All \notin Leaves /\ Else \notin Leaves /\ All # Else
    BY <1>3, <1>4 DEF All, Else
  <1> QED
    BY <1>1, <1>2, <1>3, <1>4, <1>5 DEF Selects

(* Remainders of what is not far above the divisor.                        *)
LEMMA SmallMod ==
  ASSUME NEW a \in Nat, NEW n \in Nat, n > 0
  PROVE  /\ a < n => a % n = a
         /\ n <= a /\ a < n + n => a % n = a - n
         /\ a % n \in 0..(n - 1)
  <1>1. a % n \in 0..(n - 1)
    OBVIOUS
  <1>2. PICK q \in Int, r \in Nat : q = a \div n /\ r = a % n /\ r < n /\ a = n * q + r
    BY <1>1
  <1>3. ASSUME a < n
        PROVE  r = a
    <2>1. q = 0
      BY <1>2, <1>3
    <2> QED
      BY <1>2, <2>1
  <1>4. ASSUME n <= a, a < n + n
        PROVE  r = a - n
    <2>1. q = 1
      BY <1>2, <1>4
    <2> QED
      BY <1>2, <2>1
  <1> QED
    BY <1>1, <1>2, <1>3, <1>4

(* The branches of a poll.                                                 *)
LEMMA BranchFacts ==
  ASSUME CombineTypeOK
  PROVE  /\ branch \in Leaves /\ branch = At(i)
         /\ \A j \in Nat : At(j) \in Leaves
         /\ i = N => \A c \in Leaves : c \in Visited
         /\ start = 0 /\ i < N => branch = i + 1 /\ \A c \in 1..i : c \in Visited
  <1>1. N \in Nat /\ N > 0 /\ i \in Nat /\ start \in Nat /\ start < N /\ i <= N /\ Leaves = 1..N
    BY ConfigFacts DEF CombineTypeOK, Leaves
  <1>2. \A j \in Nat : At(j) \in Leaves
    <2> SUFFICES ASSUME NEW j \in Nat
                 PROVE  At(j) \in Leaves
      OBVIOUS
    <2>1. (start + j) % N \in 0..(N - 1)
      BY <1>1, SmallMod
    <2> QED
      BY <1>1, <2>1 DEF At
  <1>3. branch = At(i)
    BY DEF branch, At
  <1>4. ASSUME i = N, NEW c \in Leaves
        PROVE  c \in Visited
    <2>1. c \in Nat /\ c > 0 /\ c <= N
      BY <1>1
    <2>2. CASE start <= c - 1
      <3>1. PICK j \in 0..(N - 1) : j = (c - 1) - start
        BY <1>1, <2>1, <2>2
      <3>2. start + j = c - 1 /\ c - 1 \in Nat /\ c - 1 < N
        BY <1>1, <2>1, <3>1
      <3>3. (c - 1) % N = c - 1
        BY <1>1, <3>2, SmallMod
      <3>4. At(j) = c
        BY <2>1, <3>2, <3>3 DEF At
      <3> QED
        BY <1>1, <1>4, <3>1, <3>4 DEF Visited
    <2>3. CASE ~(start <= c - 1)
      <3>1. PICK j \in 0..(N - 1) : j = ((c - 1) + N) - start
        BY <1>1, <2>1, <2>3
      <3>2. PICK a \in Nat : a = start + j /\ a = (c - 1) + N /\ N <= a /\ a < N + N
        BY <1>1, <2>1, <2>3, <3>1
      <3>3. a % N = c - 1
        BY <1>1, <2>1, <3>2, SmallMod
      <3>4. At(j) = c
        BY <2>1, <3>2, <3>3 DEF At
      <3> QED
        BY <1>1, <1>4, <3>1, <3>4 DEF Visited
    <2> QED
      BY <2>2, <2>3
  <1>5. ASSUME start = 0, NEW j \in Nat, j < N
        PROVE  At(j) = j + 1
    <2>1. start + j = j /\ j % N = j
      BY <1>1, <1>5, SmallMod
    <2> QED
      BY <2>1 DEF At
  <1>6. ASSUME start = 0, i < N, NEW c \in 1..i
        PROVE  c \in Visited
    <2>1. c - 1 \in Nat /\ c - 1 < N /\ c - 1 \in 0..(i - 1) /\ (c - 1) + 1 = c
      BY <1>1, <1>6
    <2>2. At(c - 1) = c
      BY <1>5, <1>6, <2>1
    <2> QED
      BY <2>1, <2>2 DEF Visited
  <1> QED
    BY <1>1, <1>2, <1>3, <1>4, <1>5, <1>6

(* One step further, one branch more.                                      *)
LEMMA VisitOne ==
  ASSUME CombineTypeOK, i' = i + 1, start' = start, cfg' = cfg
  PROVE  \A c \in Visited' : c \in Visited \/ c = branch
  <1>1. i \in Nat /\ N' = N
    BY ConfigFacts DEF CombineTypeOK, N
  <1>2. \A j : At(j)' = At(j)
    BY <1>1 DEF At
  <1> SUFFICES ASSUME NEW c \in Visited'
               PROVE  c \in Visited \/ c = branch
    OBVIOUS
  <1>3. PICK j \in 0..((i + 1) - 1) : c = At(j)
    BY <1>2 DEF Visited
  <1>4. j \in 0..(i - 1) \/ j = i
    BY <1>1, <1>3
  <1> QED
    BY <1>3, <1>4, BranchFacts DEF Visited
-----------------------------------------------------------------------------
(* Steps outside of a poll.                                                *)

(* What only the poll changes stays right as long as nothing that was      *)
(* ready is taken back under a poll and no waker is lost.                  *)
LEMMA OutsideStep ==
  ASSUME CombineInv, UNCHANGED pollVars, cfg' = cfg,
         pc \in {"poll", "arm"} => \A c \in Leaves : IsReady(c) => IsReady(c)',
         \A c \in Leaves : woken \/ Heard(c) => woken' \/ Heard(c)'
  PROVE  MaskInv' /\ PollInv' /\ RestInv'
  <1>1. /\ pc' = pc /\ i' = i /\ start' = start /\ is_pending' = is_pending /\ disabled' = disabled
        /\ finished' = finished /\ atStart' = atStart /\ panicked' = panicked /\ outcome' = outcome
    BY DEF pollVars
  <1>2. N' = N /\ Leaves' = Leaves /\ Live' = Live /\ branch' = branch /\ Starts' = Starts
        /\ (Selects <=> Selects')
    BY <1>1 DEF N, Leaves, Live, branch, Starts, Selects
  <1>3. \A c : Decides(c)' <=> Decides(c)
    BY DEF Decides, TryJoinEnds, TimeoutEnds, SelectEnds
  <1>4. Visited' = Visited
    BY <1>1, <1>2 DEF Visited, At
  <1>5. MaskInv'
    BY <1>1, <1>2, <1>3 DEF CombineInv, MaskInv
  <1>6. Visited \subseteq Leaves /\ atStart \subseteq Leaves /\ Live \subseteq Leaves
    <2>1. i \in Nat
      BY ConfigFacts DEF CombineInv, CombineTypeOK
    <2> QED
      BY <2>1, BranchFacts DEF CombineInv, CombineTypeOK, Visited, Live
  <1>7. PollInv'
    BY <1>1, <1>2, <1>4, <1>6 DEF CombineInv, PollInv
  <1>8. OutcomeRight'
    BY <1>1, <1>2, <1>3 DEF CombineInv, RestInv, OutcomeRight
  <1>9. NoLostWake'
    <2> SUFFICES ASSUME pc = "idle", ~woken', NEW c \in Live
                 PROVE  Heard(c)'
      BY <1>1, <1>2 DEF NoLostWake, Heard
    <2>1. c \in Leaves
      BY <1>6
    <2>2. woken \/ Heard(c)
      BY DEF CombineInv, RestInv, NoLostWake, Heard
    <2> QED
      BY <2>1, <2>2
  <1> QED
    BY <1>5, <1>7, <1>8, <1>9 DEF RestInv

(* A step that leaves the timers alone.                                    *)
LEMMA TimersUnchanged ==
  ASSUME TimerInv, TickInv, UNCHANGED <<cfg, deadline, due, last, served>>
  PROVE  TimerInv' /\ TickInv'
  <1>1. Leaves' = Leaves /\ \A c : Timer(c)' <=> Timer(c)
    BY DEF Leaves, N, Timer
  <1>2. TimerInv'
    BY <1>1 DEF TimerInv
  <1>3. TickInv'
    BY <1>1 DEF TickInv, TicksOnSchedule
  <1> QED
    BY <1>2, <1>3

(* Events, the clock and signals.                                          *)
LEMMA EnvironmentKeeps ==
  ASSUME CombineInv, Environment
  PROVE  CombineInv'
  <1>1. UNCHANGED pollVars /\ UNCHANGED <<cfg, deadline, due, last, served>>
    BY DEF Environment, TimePasses, Signal, SignalWakes, Happens
  <1>2. TimerInv' /\ TickInv'
    BY <1>1, TimersUnchanged DEF CombineInv
  <1>3. N' = N /\ Leaves' = Leaves
    BY <1>1 DEF N, Leaves
  <1>4. /\ pc' = pc /\ i' = i /\ start' = start /\ is_pending' = is_pending /\ disabled' = disabled
        /\ finished' = finished /\ atStart' = atStart /\ outcome' = outcome
    BY <1>1 DEF pollVars
  <1>5. CombineTypeOK'
    <2>1. now' \in Nat /\ served' \in Nat /\ served' <= now'
      BY DEF Environment, TimePasses, Signal, SignalWakes, Happens, CombineInv, CombineTypeOK
    <2>2. fired' \subseteq Leaves /\ registered' \subseteq Leaves
      BY DEF Environment, TimePasses, Signal, SignalWakes, Happens, CombineInv, CombineTypeOK
    <2>3. ACTIVE' \in BOOLEAN
      BY DEF Environment, TimePasses, Signal, SignalWakes, Happens, CombineInv, CombineTypeOK
    <2>4. WAKER' \in BOOLEAN
      BY DEF Environment, TimePasses, Signal, SignalWakes, Happens, CombineInv, CombineTypeOK
    <2>5. woken' \in BOOLEAN
      BY DEF Environment, TimePasses, Signal, SignalWakes, Happens, CombineInv, CombineTypeOK
    <2> QED
      BY <1>1, <1>3, <1>4, <2>1, <2>2, <2>3, <2>4, <2>5 DEF CombineInv, CombineTypeOK
  <1>6. ASSUME NEW c \in Leaves, IsReady(c)
        PROVE  IsReady(c)'
    <2>1. fired \subseteq fired' /\ (ACTIVE => ACTIVE')
      BY DEF Environment, TimePasses, Signal, SignalWakes, Happens
    <2>2. Armed(c)' = Armed(c)
      BY <1>1 DEF Armed, Arm
    <2> QED
      BY <1>1, <1>6, <2>1, <2>2 DEF IsReady
  <1>7. ASSUME NEW c \in Leaves, woken \/ Heard(c)
        PROVE  woken' \/ Heard(c)'
    <2>1. CASE woken
      BY <2>1 DEF Environment, TimePasses, Signal, SignalWakes, Happens
    <2>2. CASE Heard(c) /\ ((TimePasses \/ Signal) /\ UNCHANGED pollVars)
      BY <2>2 DEF TimePasses, Signal, Heard
    <2>3. CASE Heard(c) /\ SignalWakes
      BY <2>3 DEF SignalWakes, Heard
    <2>4. ASSUME Heard(c), NEW e \in Leaves, Happens(e)
          PROVE  woken' \/ Heard(c)'
      <3>1. CASE c = e
        BY <2>4, <3>1 DEF Happens, Heard
      <3>2. CASE c # e
        BY <2>4, <3>2 DEF Happens, Heard
      <3> QED
        BY <3>1, <3>2
    <2> QED
      BY <1>7, <2>1, <2>2, <2>3, <2>4 DEF Environment
  <1>8. MaskInv' /\ PollInv' /\ RestInv'
    BY <1>1, <1>6, <1>7, OutsideStep
  <1> QED
    BY <1>2, <1>5, <1>8 DEF CombineInv

(* The round of the time driver.                                           *)
LEMMA DriverKeeps ==
  ASSUME CombineInv, Driver
  PROVE  CombineInv'
  <1> DEFINE fires == {c \in Leaves : due[c] \in 0..now}
  <1>1. /\ pc \in {"idle", "done"} /\ UNCHANGED pollVars /\ served < now /\ served' = now
        /\ due' = [c \in Leaves |-> IF c \in fires THEN Off ELSE due[c]]
        /\ registered' = registered \ fires
        /\ woken' = (woken \/ registered \cap fires # {})
        /\ UNCHANGED <<cfg, now, fired, deadline, last, ACTIVE, WAKER>>
    BY DEF Driver, Round
  <1>2. N' = N /\ Leaves' = Leaves /\ \A c : Timer(c)' <=> Timer(c)
    BY <1>1 DEF N, Leaves, Timer
  <1>3. /\ pc' = pc /\ i' = i /\ start' = start /\ is_pending' = is_pending /\ disabled' = disabled
        /\ finished' = finished /\ atStart' = atStart /\ outcome' = outcome
    BY <1>1 DEF pollVars
  <1>4. /\ now \in Nat /\ served \in Nat /\ Off \notin Nat /\ Unarmed \notin Nat /\ Off # Unarmed
        /\ deadline \in [Leaves -> Nat]
    BY LeafAssumption DEF CombineInv, CombineTypeOK
  <1>5. CombineTypeOK'
    <2>1. due' \in [Leaves -> Nat \cup {Off, Unarmed}]
      BY <1>1 DEF CombineInv, CombineTypeOK
    <2>2. served' \in Nat /\ served' <= now' /\ now' \in Nat
      BY <1>1, <1>4
    <2> QED
      BY <1>1, <1>2, <1>3, <2>1, <2>2 DEF CombineInv, CombineTypeOK
  <1>6. TimerInv'
    <2> SUFFICES ASSUME NEW c \in Leaves
                 PROVE  /\ due'[c] \in Nat => due'[c] = deadline[c]
                        /\ due'[c] = Off => deadline[c] <= now
                        /\ ~Timer(c) => due'[c] = Unarmed
      BY <1>1, <1>2 DEF TimerInv
    <2>1. /\ due[c] \in Nat => due[c] = deadline[c]
          /\ due[c] = Off => deadline[c] <= served
          /\ ~Timer(c) => due[c] = Unarmed
          /\ deadline[c] \in Nat
      BY <1>4 DEF CombineInv, TimerInv
    <2>2. CASE c \in fires
      <3>1. due'[c] = Off /\ due[c] \in Nat /\ due[c] <= now
        BY <1>1, <1>4, <2>2
      <3> QED
        BY <1>4, <2>1, <3>1
    <2>3. CASE c \notin fires
      <3>1. due'[c] = due[c]
        BY <1>1, <2>3
      <3> QED
        BY <1>1, <1>4, <2>1, <3>1
    <2> QED
      BY <2>2, <2>3
  <1>7. TickInv'
    BY <1>1, <1>2 DEF CombineInv, TickInv, TicksOnSchedule
  <1>8. ASSUME NEW c \in Leaves, woken \/ Heard(c)
        PROVE  woken' \/ Heard(c)'
    <2>1. CASE woken
      BY <1>1, <2>1
    <2>2. CASE Heard(c) /\ c \in fires
      <3>1. due[c] # Unarmed
        BY <1>4, <2>2
      <3>2. Timer(c)
        BY <3>1 DEF CombineInv, TimerInv
      <3>3. c \in registered
        BY <2>2, <3>2 DEF Heard, Timer
      <3> QED
        BY <1>1, <2>2, <3>3
    <2>3. CASE Heard(c) /\ c \notin fires
      <3>1. due'[c] = due[c] /\ (c \in registered' <=> c \in registered)
        BY <1>1, <2>3
      <3> QED
        BY <1>1, <2>3, <3>1 DEF Heard
    <2> QED
      BY <1>8, <2>1, <2>2, <2>3
  <1>9. MaskInv' /\ PollInv' /\ RestInv'
    BY <1>1, <1>8, OutsideStep
  <1> QED
    BY <1>5, <1>6, <1>7, <1>9 DEF CombineInv
-----------------------------------------------------------------------------
(* Steps of a poll.                                                        *)

(* What is left above the last multiple is no multiple of its own.         *)
LEMMA MultipleMod ==
  ASSUME NEW p \in Nat, p > 0, NEW x \in Nat
  PROVE  /\ x % p \in Nat /\ x % p < p /\ x % p <= x
         /\ (p + (x - (x % p))) % p = 0
  <1>1. PICK q \in Nat, r \in Nat : q = x \div p /\ r = x % p /\ r < p /\ x = p * q + r
    OBVIOUS
  <1>2. p * q \in Nat /\ p + (x - r) = p * (q + 1) /\ p * (q + 1) \in Nat
    BY <1>1
  <1>3. PICK y \in Nat : y = p * (q + 1)
    BY <1>2
  <1>4. PICK s \in Nat, z \in Nat : s = y \div p /\ z = y % p /\ z < p /\ y = p * s + z
    OBVIOUS
  <1>5. z = 0
    <2>1. p * ((q + 1) - s) = z
      BY <1>3, <1>4
    <2>2. PICK k \in Int : k = (q + 1) - s
      OBVIOUS
    <2>3. p * k = z /\ z < p
      BY <1>4, <2>1, <2>2
    <2>4. k = 0
      BY <2>3
    <2> QED
      BY <2>3, <2>4
  <1> QED
    BY <1>1, <1>2, <1>3, <1>4, <1>5

(* The next tick is a period or more after this one, a multiple of it with *)
(* Skip and exactly one in a Burst.                                        *)
LEMMA NextTick ==
  ASSUME CombineTypeOK, NEW timeout \in Nat, NEW next, timeout <= now,
         next = IF now > timeout + Slack THEN next_timeout(timeout) ELSE timeout + Period
  PROVE  /\ next \in Nat /\ next - timeout >= Period
         /\ cfg.missed = "Burst" => next - timeout = Period
         /\ cfg.missed = "Skip" => (next - timeout) % Period = 0
  <1>1. PICK p \in Nat, n \in Nat, s \in Nat : p = Period /\ p > 0 /\ n = now /\ s = Slack
    BY LeafAssumption DEF CombineTypeOK
  <1>2. cfg.missed \in {"Burst", "Delay", "Skip"}
    BY ConfigFacts DEF CombineTypeOK
  <1>3. p % p = 0
    BY <1>1, SmallMod, p - p = 0
  <1>4. CASE next = timeout + Period
    <2>1. next - timeout = p /\ next \in Nat
      BY <1>1, <1>4
    <2> QED
      BY <1>1, <1>3, <2>1
  <1>5. CASE n > timeout + s /\ cfg.missed = "Delay"
    <2>1. next = n + p
      BY <1>1, <1>5 DEF next_timeout
    <2>2. next \in Nat /\ next - timeout >= p
      BY <1>1, <2>1
    <2> QED
      BY <1>1, <1>5, <2>2
  <1>6. CASE n > timeout + s /\ cfg.missed = "Skip"
    <2>1. PICK x \in Nat : x = n - timeout
      BY <1>1
    <2>2. PICK r \in Nat : r = x % p /\ r < p /\ r <= x /\ (p + (x - r)) % p = 0
      BY <1>1, MultipleMod
    <2>3. next = (n + p) - r
      BY <1>1, <1>6, <2>1, <2>2 DEF next_timeout
    <2>4. next - timeout = p + (x - r) /\ next \in Nat /\ next - timeout >= p
      BY <2>1, <2>2, <2>3
    <2> QED
      BY <1>1, <1>6, <2>2, <2>4
  <1>7. CASE n > timeout + s /\ cfg.missed = "Burst"
    BY <1>1, <1>4, <1>7 DEF next_timeout
  <1> QED
    BY <1>1, <1>2, <1>4, <1>5, <1>6, <1>7

(* A leaf that yields: its timer is set for the next tick, or is over.     *)
LEMMA YieldTimers ==
  ASSUME CombineTypeOK, TimerInv, TickInv, NEW c \in Leaves, Yield(c)
  PROVE  /\ TimerInv' /\ TickInv'
         /\ deadline' \in [Leaves -> Nat]
         /\ due' \in [Leaves -> Nat \cup {Off, Unarmed}]
         /\ last' \in [Leaves -> [tick : Int, at : Int, gap : Int]]
         /\ \A e \in Leaves : e # c => deadline'[e] = deadline[e] /\ due'[e] = due[e]
  <1>1. /\ deadline \in [Leaves -> Nat] /\ due \in [Leaves -> Nat \cup {Off, Unarmed}]
        /\ last \in [Leaves -> [tick : Int, at : Int, gap : Int]]
        /\ served \in Nat /\ now \in Nat /\ served <= now
        /\ Off \notin Nat /\ Unarmed \notin Nat /\ Off # Unarmed
    BY LeafAssumption DEF CombineTypeOK
  <1>2. cfg' = cfg /\ served' = served /\ now' = now
    BY DEF Yield
  <1>3. Leaves' = Leaves /\ \A e : Timer(e)' <=> Timer(e)
    BY <1>2 DEF Leaves, N, Timer
  <1>4. \A e \in Leaves : /\ due[e] \in Nat => due[e] = deadline[e]
                          /\ due[e] = Off => deadline[e] <= served
                          /\ ~Timer(e) => due[e] = Unarmed
    BY DEF TimerInv
  <1>5. ASSUME cfg.leaf[c] \in {"sleep", "tick"}
        PROVE  deadline[c] <= served
    <2>1. Armed(c) = Off
      BY <1>5 DEF Yield, IsReady
    <2> QED
      BY <1>1, <1>4, <2>1 DEF Armed, Arm
  <1>6. CASE cfg.leaf[c] # "tick"
    <2>1. /\ due' = [due EXCEPT ![c] = IF Timer(c) THEN Off ELSE due[c]]
          /\ deadline' = deadline /\ last' = last
      BY <1>6 DEF Yield
    <2>2. /\ due' \in [Leaves -> Nat \cup {Off, Unarmed}] /\ due'[c] = IF Timer(c) THEN Off ELSE due[c]
          /\ \A e \in Leaves : e # c => due'[e] = due[e]
      BY <1>1, <2>1
    <2>3. Timer(c) => deadline[c] <= served
      BY <1>5 DEF Timer
    <2>4. TimerInv'
      BY <1>1, <1>2, <1>3, <1>4, <2>1, <2>2, <2>3 DEF TimerInv
    <2>5. TickInv'
      BY <1>2, <1>3, <2>1 DEF TickInv, TicksOnSchedule
    <2> QED
      BY <1>1, <2>1, <2>2, <2>4, <2>5
  <1>7. CASE cfg.leaf[c] = "tick"
    <2>1. PICK timeout \in Nat : timeout = deadline[c] /\ timeout <= served /\ timeout <= now
      BY <1>1, <1>5, <1>7
    <2>2. PICK next : /\ next = IF now > timeout + Slack THEN next_timeout(timeout) ELSE timeout + Period
                      /\ deadline' = [deadline EXCEPT ![c] = next]
                      /\ due' = [due EXCEPT ![c] = Arm(next)]
                      /\ last' = [last EXCEPT ![c] = [tick |-> timeout, at |-> now,
                                                      gap |-> timeout - last[c].tick]]
      BY <1>7, <2>1 DEF Yield, poll_tick
    <2>3. /\ next \in Nat /\ next - timeout >= Period
          /\ cfg.missed = "Burst" => next - timeout = Period
          /\ cfg.missed = "Skip" => (next - timeout) % Period = 0
      BY <2>1, <2>2, NextTick
    <2>4. Arm(next) = IF next <= served THEN Off ELSE next
      BY DEF Arm
    <2>5. /\ deadline' \in [Leaves -> Nat] /\ deadline'[c] = next
          /\ \A e \in Leaves : e # c => deadline'[e] = deadline[e]
      BY <1>1, <2>2, <2>3
    <2>6. /\ due' \in [Leaves -> Nat \cup {Off, Unarmed}] /\ due'[c] = Arm(next)
          /\ \A e \in Leaves : e # c => due'[e] = due[e]
      BY <1>1, <2>2, <2>3, <2>4
    <2>7. PICK tk \in Int : tk = last[c].tick
      BY <1>1
    <2>8. /\ last' \in [Leaves -> [tick : Int, at : Int, gap : Int]]
          /\ last'[c] = [tick |-> timeout, at |-> now, gap |-> timeout - tk]
          /\ \A e \in Leaves : e # c => last'[e] = last[e]
      <3>1. [tick |-> timeout, at |-> now, gap |-> timeout - tk] \in [tick : Int, at : Int, gap : Int]
        BY <1>1
      <3> QED
        BY <1>1, <2>2, <2>7, <3>1
    <2>9. TimerInv'
      <3>1. Timer(c)
        BY <1>7 DEF Timer
      <3>2. /\ due'[c] \in Nat => due'[c] = deadline'[c]
            /\ due'[c] = Off => deadline'[c] <= served
        BY <1>1, <2>3, <2>4, <2>5, <2>6
      <3> QED
        BY <1>2, <1>3, <1>4, <2>5, <2>6, <3>1, <3>2 DEF TimerInv
    <2>10. /\ timeout - tk >= Period
           /\ cfg.missed = "Burst" => timeout - tk = Period
           /\ cfg.missed = "Skip" => (timeout - tk) % Period = 0
      BY <2>1, <2>7 DEF TickInv
    <2>11. TickInv'
      <3> SUFFICES ASSUME NEW e \in Leaves
                   PROVE  /\ deadline'[e] - last'[e].tick >= Period
                          /\ cfg.missed = "Burst" => deadline'[e] - last'[e].tick = Period
                          /\ cfg.missed = "Skip" => (deadline'[e] - last'[e].tick) % Period = 0
                          /\ last'[e].at >= last'[e].tick
                          /\ last'[e].gap >= Period
                          /\ cfg.missed = "Burst" => last'[e].gap = Period
                          /\ cfg.missed = "Skip" => last'[e].gap % Period = 0
        BY <1>2, <1>3 DEF TickInv, TicksOnSchedule
      <3>1. CASE e = c
        <4>1. last'[e].tick = timeout /\ last'[e].at = now /\ last'[e].gap = timeout - tk /\ deadline'[e] = next
          BY <2>5, <2>8, <3>1
        <4> QED
          BY <1>1, <2>1, <2>3, <2>10, <4>1
      <3>2. CASE e # c
        <4>1. last'[e] = last[e] /\ deadline'[e] = deadline[e]
          BY <2>5, <2>8, <3>2
        <4> QED
          BY <4>1 DEF TickInv, TicksOnSchedule
      <3> QED
        BY <3>1, <3>2
    <2> QED
      BY <2>5, <2>6, <2>8, <2>9, <2>11
  <1> QED
    BY <1>6, <1>7

(* A leaf that waits: its timer is armed.                                  *)
LEMMA WaitsTimers ==
  ASSUME CombineTypeOK, TimerInv, TickInv, NEW c \in Leaves, Waits(c)
  PROVE  /\ TimerInv' /\ TickInv'
         /\ due' \in [Leaves -> Nat \cup {Off, Unarmed}]
         /\ \A e \in Leaves : e # c => due'[e] = due[e]
         /\ Timer(c) => due'[c] \notin {Off, Unarmed}
  <1>1. /\ deadline \in [Leaves -> Nat] /\ due \in [Leaves -> Nat \cup {Off, Unarmed}]
        /\ served \in Nat /\ Off \notin Nat /\ Unarmed \notin Nat /\ Off # Unarmed
    BY LeafAssumption DEF CombineTypeOK
  <1>2. UNCHANGED <<cfg, served, deadline, last>>
        /\ due' = [due EXCEPT ![c] = IF Timer(c) THEN Armed(c) ELSE due[c]]
    BY DEF Waits
  <1>3. Leaves' = Leaves /\ \A e : Timer(e)' <=> Timer(e)
    BY <1>2 DEF Leaves, N, Timer
  <1>4. Timer(c) => Armed(c) # Off
    BY DEF Waits, IsReady, Timer
  <1>5. /\ Armed(c) = IF due[c] = Unarmed THEN (IF deadline[c] <= served THEN Off ELSE deadline[c])
                      ELSE due[c]
        /\ due[c] \in Nat => due[c] = deadline[c]
        /\ ~Timer(c) => due[c] = Unarmed
        /\ deadline[c] \in Nat
    BY <1>1 DEF Armed, Arm, TimerInv
  <1>6. Timer(c) => Armed(c) = deadline[c]
    BY <1>1, <1>4, <1>5
  <1>7. /\ due' \in [Leaves -> Nat \cup {Off, Unarmed}]
        /\ due'[c] = IF Timer(c) THEN deadline[c] ELSE Unarmed
        /\ \A e \in Leaves : e # c => due'[e] = due[e]
    BY <1>1, <1>2, <1>5, <1>6
  <1>8. TimerInv'
    BY <1>1, <1>2, <1>3, <1>5, <1>7 DEF TimerInv
  <1>9. TickInv'
    BY <1>2, <1>3 DEF TickInv, TicksOnSchedule
  <1> QED
    BY <1>1, <1>5, <1>7, <1>8, <1>9
(* What depends on the task alone stays.                                   *)
LEMMA SameConfig ==
  ASSUME cfg' = cfg
  PROVE  /\ N' = N /\ Leaves' = Leaves /\ Starts' = Starts /\ (Selects' <=> Selects)
         /\ \A c : (Decides(c)' <=> Decides(c)) /\ (Timer(c)' <=> Timer(c))
  BY DEF N, Leaves, Starts, Selects, Decides, TryJoinEnds, TimeoutEnds, SelectEnds, Timer

(* The poll begins: it has been nowhere, and knows what is ready.          *)
LEMMA BeginPollKeeps ==
  ASSUME CombineInv, BeginPoll
  PROVE  CombineInv'
  <1>1. /\ pc' = "poll" /\ i' = 0 /\ start' \in Starts /\ is_pending' = FALSE
        /\ atStart' = {c \in Leaves : IsReady(c)} /\ pc \in {"idle", "enter"}
        /\ UNCHANGED <<disabled, finished, panicked, outcome, rounds>>
        /\ UNCHANGED <<cfg, now, served, fired, deadline, due, registered, last, ACTIVE, WAKER>>
    BY DEF BeginPoll
  <1>2. woken' \in BOOLEAN
    BY DEF BeginPoll, CombineInv, CombineTypeOK
  <1>3. TimerInv' /\ TickInv'
    BY <1>1, TimersUnchanged DEF CombineInv
  <1>4. N \in Nat /\ N > 0
    BY ConfigFacts DEF CombineInv, CombineTypeOK
  <1>5. /\ N' = N /\ Leaves' = Leaves /\ Starts' = Starts
        /\ \A c : Decides(c)' <=> Decides(c)
    BY <1>1, SameConfig
  <1>6. CombineTypeOK'
    <2>1. start' \in 0..(N - 1) /\ i' \in 0..N
      BY <1>1, <1>4 DEF Starts
    <2>2. atStart' \subseteq Leaves
      BY <1>1
    <2> QED
      BY <1>1, <1>2, <1>5, <2>1, <2>2 DEF CombineInv, CombineTypeOK
  <1>7. MaskInv'
    BY <1>1, <1>5 DEF CombineInv, MaskInv
  <1>8. PollInv'
    <2>1. Visited' = {}
      BY <1>1 DEF Visited
    <2>2. \A c \in atStart' : IsReady(c)'
      BY <1>1 DEF IsReady, Armed, Arm
    <2> QED
      BY <1>1, <1>5, <2>1, <2>2 DEF PollInv
  <1>9. RestInv'
    BY <1>1 DEF CombineInv, RestInv, OutcomeRight, NoLostWake
  <1> QED
    BY <1>3, <1>6, <1>7, <1>8, <1>9 DEF CombineInv

(* A branch passed over is one that is disabled.                           *)
LEMMA SkipBranchKeeps ==
  ASSUME CombineInv, SkipBranch
  PROVE  CombineInv'
  <1>1. /\ pc = "poll" /\ i < N /\ branch \in disabled /\ i' = i + 1
        /\ UNCHANGED <<pc, start, is_pending, disabled, finished, atStart, panicked, outcome>>
        /\ UNCHANGED <<cfg, now, served, fired, deadline, due, registered, last, ACTIVE, WAKER, woken>>
    BY DEF SkipBranch, Passed, leafVars
  <1>2. TimerInv' /\ TickInv'
    BY <1>1, TimersUnchanged DEF CombineInv
  <1>3. /\ N' = N /\ Leaves' = Leaves /\ Starts' = Starts
        /\ \A c : Decides(c)' <=> Decides(c)
    BY <1>1, SameConfig
  <1>4. CombineTypeOK'
    <2>1. N \in Nat /\ i \in 0..N
      BY ConfigFacts DEF CombineInv, CombineTypeOK
    <2>2. i' \in 0..N
      BY <1>1, <2>1
    <2> QED
      BY <1>1, <1>3, <2>2 DEF CombineInv, CombineTypeOK
  <1>5. MaskInv'
    BY <1>1, <1>3 DEF CombineInv, MaskInv
  <1>6. PollInv'
    <2>1. \A c \in Visited' : c \in Visited \/ c = branch
      BY <1>1, VisitOne DEF CombineInv
    <2>2. \A c : (IsReady(c)' <=> IsReady(c)) /\ (Heard(c)' <=> Heard(c))
      BY <1>1 DEF IsReady, Armed, Arm, Heard
    <2> QED
      BY <1>1, <1>3, <2>1, <2>2 DEF CombineInv, PollInv
  <1>7. RestInv'
    BY <1>1 DEF CombineInv, RestInv, OutcomeRight, NoLostWake
  <1> QED
    BY <1>2, <1>4, <1>5, <1>6, <1>7 DEF CombineInv

(* A branch told to wait was not ready as the poll began, and is heard.    *)
LEMMA BranchPendingKeeps ==
  ASSUME CombineInv, BranchPending
  PROVE  CombineInv'
  <1>1. /\ pc = "poll" /\ i < N /\ branch \notin disabled /\ i' = i + 1 /\ is_pending' = TRUE
        /\ panicked' = (panicked \/ branch \in finished)
        /\ UNCHANGED <<pc, start, disabled, finished, atStart, outcome>>
        /\ Waits(branch)
    BY DEF BranchPending, Passed
  <1>2. /\ ~IsReady(branch) /\ cfg.leaf[branch] # "ctrlc"
        /\ registered' = IF cfg.leaf[branch] = "spin" THEN registered ELSE registered \cup {branch}
        /\ woken' = (woken \/ cfg.leaf[branch] = "spin")
        /\ UNCHANGED <<cfg, now, served, fired, deadline, last, ACTIVE, WAKER>>
    BY <1>1 DEF Waits
  <1>3. branch \in Leaves
    BY BranchFacts DEF CombineInv
  <1>4. /\ TimerInv' /\ TickInv' /\ due' \in [Leaves -> Nat \cup {Off, Unarmed}]
        /\ \A e \in Leaves : e # branch => due'[e] = due[e]
        /\ Timer(branch) => due'[branch] \notin {Off, Unarmed}
    BY <1>1, <1>3, WaitsTimers DEF CombineInv
  <1>5. /\ N' = N /\ Leaves' = Leaves /\ Starts' = Starts
        /\ \A c : Decides(c)' <=> Decides(c)
    BY <1>2, SameConfig
  <1>6. CombineTypeOK'
    <2>1. N \in Nat /\ i \in 0..N
      BY ConfigFacts DEF CombineInv, CombineTypeOK
    <2>2. i' \in 0..N
      BY <1>1, <2>1
    <2>3. registered' \subseteq Leaves
      BY <1>2, <1>3 DEF CombineInv, CombineTypeOK
    <2>4. woken' \in BOOLEAN
      BY <1>2, Zenon DEF CombineInv, CombineTypeOK
    <2> QED
      BY <1>1, <1>2, <1>4, <1>5, <2>2, <2>3, <2>4 DEF CombineInv, CombineTypeOK
  <1>7. MaskInv'
    BY <1>1, <1>2, <1>5 DEF CombineInv, MaskInv
  <1>8. PollInv'
    <2>1. \A c \in Visited' : c \in Visited \/ c = branch
      BY <1>1, <1>2, VisitOne DEF CombineInv
    <2>2. branch \notin atStart
      BY <1>1, <1>2 DEF CombineInv, PollInv
    <2>3. \A c \in Leaves : c = branch => woken' \/ Heard(c)'
      <3> SUFFICES ASSUME NEW c \in Leaves, c = branch
                   PROVE  woken' \/ Heard(c)'
        OBVIOUS
      <3>1. cfg.leaf[c] \in Kinds
        BY ConfigFacts DEF CombineInv, CombineTypeOK
      <3>2. CASE cfg.leaf[c] = "event"
        BY <1>2, <3>2 DEF IsReady, Heard
      <3>3. CASE cfg.leaf[c] \in {"sleep", "tick"}
        BY <1>2, <1>4, <3>3 DEF Timer, Heard
      <3>4. CASE cfg.leaf[c] = "spin"
        BY <1>2, <3>4
      <3> QED
        BY <1>2, <3>1, <3>2, <3>3, <3>4 DEF Kinds
    <2>4. \A c \in Leaves : c # branch => (IsReady(c)' <=> IsReady(c))
      BY <1>2, <1>4 DEF IsReady, Armed, Arm
    <2>5. \A c \in Leaves : c # branch /\ Heard(c) => Heard(c)'
      BY <1>2, <1>4 DEF Heard
    <2>6. atStart \subseteq Leaves /\ Visited \subseteq Leaves
      <3>1. i \in Nat
        BY ConfigFacts DEF CombineInv, CombineTypeOK
      <3> QED
        BY <3>1, BranchFacts DEF CombineInv, CombineTypeOK, Visited
    <2>7. \A c \in atStart' : c \in disabled' \/ IsReady(c)'
      BY <1>1, <2>2, <2>4, <2>6 DEF CombineInv, PollInv
    <2>8. ASSUME NEW c \in Visited'
          PROVE  c \in disabled' \/ (is_pending' /\ c \notin atStart' /\ (woken' \/ Heard(c)'))
      <3>1. CASE c = branch
        BY <1>1, <1>3, <2>2, <2>3, <3>1
      <3>2. CASE c # branch
        <4>1. c \in Visited /\ c \in Leaves
          BY <2>1, <2>6, <2>8, <3>2
        <4>2. c \in disabled \/ (c \notin atStart /\ (woken \/ Heard(c)))
          BY <1>1, <4>1 DEF CombineInv, PollInv
        <4> QED
          BY <1>1, <1>2, <2>5, <3>2, <4>1, <4>2
      <3> QED
        BY <3>1, <3>2
    <2>9. start' \in Starts'
      BY <1>1, <1>5 DEF CombineInv, PollInv
    <2> QED
      BY <1>1, <2>7, <2>8, <2>9 DEF PollInv
  <1>9. RestInv'
    BY <1>1, <1>7 DEF MaskInv, RestInv, OutcomeRight, NoLostWake
  <1> QED
    BY <1>4, <1>6, <1>7, <1>8, <1>9 DEF CombineInv
(* The first step of CtrlC::poll: the branch was not ready as the poll     *)
(* began, for ACTIVE is only ever cleared by this branch.                  *)
LEMMA CtrlCInactiveKeeps ==
  ASSUME CombineInv, CtrlCInactive
  PROVE  CombineInv'
  <1>1. /\ pc = "poll" /\ i < N /\ branch \notin disabled /\ pc' = "arm"
        /\ cfg.leaf[branch] = "ctrlc" /\ ~ACTIVE
        /\ UNCHANGED <<i, start, is_pending, disabled, finished, atStart, panicked, outcome>>
        /\ UNCHANGED <<cfg, now, served, fired, deadline, due, registered, last, ACTIVE, WAKER, woken>>
    BY DEF CtrlCInactive, Passed, leafVars
  <1>2. TimerInv' /\ TickInv'
    BY <1>1, TimersUnchanged DEF CombineInv
  <1>3. /\ N' = N /\ Leaves' = Leaves /\ Starts' = Starts
        /\ \A c : Decides(c)' <=> Decides(c)
    BY <1>1, SameConfig
  <1>4. CombineTypeOK'
    BY <1>1, <1>3 DEF CombineInv, CombineTypeOK
  <1>5. MaskInv'
    BY <1>1, <1>3 DEF CombineInv, MaskInv
  <1>6. PollInv'
    <2>1. Visited' = Visited /\ branch' = branch
      BY <1>1, <1>3 DEF Visited, At, branch
    <2>2. \A c : (IsReady(c)' <=> IsReady(c)) /\ (Heard(c)' <=> Heard(c))
      BY <1>1 DEF IsReady, Armed, Arm, Heard
    <2>3. ~IsReady(branch)
      BY <1>1 DEF IsReady
    <2>4. branch \notin atStart
      BY <1>1, <2>3 DEF CombineInv, PollInv
    <2> QED
      BY <1>1, <1>3, <2>1, <2>2, <2>4 DEF CombineInv, PollInv
  <1>7. RestInv'
    BY <1>1 DEF CombineInv, RestInv, OutcomeRight, NoLostWake
  <1> QED
    BY <1>2, <1>4, <1>5, <1>6, <1>7 DEF CombineInv

(* The second step of CtrlC::poll leaves the waker.                        *)
LEMMA CtrlCPendingKeeps ==
  ASSUME CombineInv, CtrlCPending
  PROVE  CombineInv'
  <1>1. /\ pc = "arm" /\ pc' = "poll" /\ is_pending' = TRUE /\ i' = i + 1 /\ WAKER' = TRUE
        /\ UNCHANGED <<start, disabled, finished, atStart, panicked, outcome>>
        /\ UNCHANGED <<cfg, now, served, fired, deadline, due, registered, last, ACTIVE, woken>>
    BY DEF CtrlCPending, LeaveWaker
  <1>2. i < N /\ cfg.leaf[branch] = "ctrlc" /\ branch \notin atStart /\ branch \notin disabled
    BY <1>1 DEF CombineInv, PollInv
  <1>3. TimerInv' /\ TickInv'
    BY <1>1, TimersUnchanged DEF CombineInv
  <1>4. /\ N' = N /\ Leaves' = Leaves /\ Starts' = Starts
        /\ \A c : Decides(c)' <=> Decides(c)
    BY <1>1, SameConfig
  <1>5. CombineTypeOK'
    <2>1. N \in Nat /\ i \in 0..N
      BY ConfigFacts DEF CombineInv, CombineTypeOK
    <2>2. i' \in 0..N
      BY <1>1, <1>2, <2>1
    <2> QED
      BY <1>1, <1>4, <2>2 DEF CombineInv, CombineTypeOK
  <1>6. MaskInv'
    BY <1>1, <1>4 DEF CombineInv, MaskInv
  <1>7. PollInv'
    <2>1. \A c \in Visited' : c \in Visited \/ c = branch
      BY <1>1, VisitOne DEF CombineInv
    <2>2. \A c : (IsReady(c)' <=> IsReady(c)) /\ (Heard(c) => Heard(c)')
      BY <1>1 DEF IsReady, Armed, Arm, Heard
    <2>3. \A c : c = branch => Heard(c)'
      BY <1>1, <1>2 DEF Heard
    <2> QED
      BY <1>1, <1>2, <1>4, <2>1, <2>2, <2>3 DEF CombineInv, PollInv
  <1>8. RestInv'
    BY <1>1 DEF CombineInv, RestInv, OutcomeRight, NoLostWake
  <1> QED
    BY <1>3, <1>5, <1>6, <1>7, <1>8 DEF CombineInv

(* The end of the loop: every branch has been visited.                     *)
LEMMA EndPollKeeps ==
  ASSUME CombineInv, EndPoll
  PROVE  CombineInv'
  <1>1. /\ pc = "poll" /\ i = N /\ i' = 0 /\ start' = 0 /\ is_pending' = FALSE
        /\ IF is_pending THEN pc' = "idle" /\ outcome' = outcome
           ELSE pc' = "done" /\ outcome' = IF Selects THEN Else ELSE All
        /\ UNCHANGED <<disabled, finished, atStart, panicked>>
        /\ UNCHANGED <<cfg, now, served, fired, deadline, due, registered, last, ACTIVE, WAKER, woken>>
    BY DEF EndPoll, leafVars
  <1>2. TimerInv' /\ TickInv'
    BY <1>1, TimersUnchanged DEF CombineInv
  <1>3. /\ N' = N /\ Leaves' = Leaves /\ Starts' = Starts /\ (Selects' <=> Selects)
        /\ \A c : Decides(c)' <=> Decides(c)
    BY <1>1, SameConfig
  <1>4. /\ N \in Nat /\ N > 0 /\ All # Else /\ is_pending \in BOOLEAN
        /\ \A c \in Leaves : cfg.good[c] \in BOOLEAN
        /\ cfg.form \in {"join", "try_join", "timeout", "select", "biased"}
        /\ ~Selects => \A c \in Leaves : cfg.cond[c]
    BY ConfigFacts DEF CombineInv, CombineTypeOK
  <1>5. CombineTypeOK'
    <2>1. i' \in 0..N /\ start' \in 0..(N - 1)
      BY <1>1, <1>4
    <2>2. pc' \in {"enter", "poll", "arm", "idle", "done"} /\ outcome' \in {All, Else} \cup Leaves
      BY <1>1, <1>4 DEF CombineInv, CombineTypeOK
    <2> QED
      BY <1>1, <1>3, <2>1, <2>2 DEF CombineInv, CombineTypeOK
  <1>6. \A c \in finished : ~Decides(c)
    BY <1>1 DEF CombineInv, MaskInv
  <1>7. MaskInv'
    BY <1>1, <1>3, <1>6 DEF CombineInv, MaskInv
  <1>8. PollInv'
    BY <1>1 DEF PollInv
  <1>9. \A c \in Leaves : c \in disabled \/ (is_pending /\ c \notin atStart /\ (woken \/ Heard(c)))
    <2>1. \A c \in Leaves : c \in Visited
      BY <1>1, BranchFacts DEF CombineInv
    <2> QED
      BY <1>1, <2>1 DEF CombineInv, PollInv
  <1>10. disabled = finished \cup {c \in Leaves : ~cfg.cond[c]} /\ finished \subseteq Leaves /\ ~panicked
    BY DEF CombineInv, MaskInv, CombineTypeOK
  <1>11. CASE is_pending
    <2>1. /\ pc' = "idle" /\ Live' = Live /\ Live \subseteq Leaves /\ ~panicked'
          /\ \A c \in Live : c \notin disabled
      BY <1>1, <1>3, <1>10, <1>11 DEF Live
    <2>2. \A c : Heard(c)' <=> Heard(c)
      BY <1>1 DEF Heard
    <2>3. OutcomeRight'
      BY <1>1, <1>9, <2>1 DEF OutcomeRight
    <2>4. NoLostWake'
      <3> SUFFICES ASSUME ~woken', NEW c \in Live'
                   PROVE  Heard(c)'
        BY DEF NoLostWake, Heard
      <3> QED
        BY <1>1, <1>9, <2>1, <2>2
    <2> QED
      BY <1>2, <1>5, <1>7, <1>8, <2>3, <2>4 DEF CombineInv, RestInv
  <1>12. CASE ~is_pending
    <2>1. /\ pc' = "done" /\ outcome' = IF Selects THEN Else ELSE All
      BY <1>1, <1>12
    <2>2. \A c \in Leaves : c \in finished \/ ~cfg.cond[c]
      BY <1>9, <1>10, <1>12
    <2>3. CASE Selects
      <3>1. outcome' = Else /\ outcome' # All
        BY <1>4, <2>1, <2>3
      <3>2. Live' = {}
        BY <1>1, <1>3, <2>2 DEF Live
      <3>3. \A c \in finished : ~cfg.good[c]
        BY <1>6, <2>3 DEF Selects, Decides, SelectEnds
      <3>4. OutcomeRight'
        BY <1>1, <1>3, <1>10, <2>1, <2>3, <3>1, <3>2, <3>3 DEF OutcomeRight
      <3> QED
        BY <1>2, <1>5, <1>7, <1>8, <2>1, <3>4 DEF CombineInv, RestInv, NoLostWake
    <2>4. CASE ~Selects
      <3>1. outcome' = All /\ finished = Leaves
        BY <1>4, <1>10, <2>1, <2>2, <2>4
      <3>2. cfg.form = "try_join" => \A c \in Leaves : cfg.good[c]
        BY <1>4, <1>6, <3>1 DEF Decides, TryJoinEnds
      <3>3. OutcomeRight'
        BY <1>1, <1>3, <1>4, <1>10, <2>1, <3>1, <3>2 DEF OutcomeRight
      <3> QED
        BY <1>2, <1>5, <1>7, <1>8, <2>1, <3>3 DEF CombineInv, RestInv, NoLostWake
    <2> QED
      BY <2>3, <2>4
  <1> QED
    BY <1>4, <1>11, <1>12

(* Once more around the loop of a select!.                                 *)
LEMMA AgainKeeps ==
  ASSUME CombineInv, Again
  PROVE  CombineInv'
  <1> DEFINE events == {c \in Leaves : cfg.leaf[c] \in {"event", "spin"}}
  <1>1. /\ pc' = "enter" /\ disabled' = {c \in Leaves : ~cfg.cond[c]} /\ finished' = {}
        /\ fired' = fired \ events /\ registered' = registered \ events
        /\ UNCHANGED <<i, start, is_pending, atStart, panicked, outcome>>
        /\ UNCHANGED <<cfg, now, served, deadline, due, last, ACTIVE, WAKER, woken>>
    BY DEF Again
  <1>2. TimerInv' /\ TickInv'
    BY <1>1, TimersUnchanged DEF CombineInv
  <1>3. N' = N /\ Leaves' = Leaves
    BY <1>1, SameConfig
  <1>4. CombineTypeOK'
    <2>1. /\ fired' \subseteq Leaves /\ registered' \subseteq Leaves
          /\ disabled' \subseteq Leaves /\ finished' \subseteq Leaves
      BY <1>1 DEF CombineInv, CombineTypeOK
    <2> QED
      BY <1>1, <1>3, <2>1 DEF CombineInv, CombineTypeOK
  <1>5. MaskInv'
    BY <1>1, <1>3 DEF CombineInv, MaskInv
  <1>6. PollInv' /\ RestInv'
    BY <1>1 DEF CombineInv, PollInv, RestInv, OutcomeRight, NoLostWake
  <1> QED
    BY <1>2, <1>4, <1>5, <1>6 DEF CombineInv
(* A branch yields: it decides, or is out of the rest.                     *)
LEMMA BranchReadyKeeps ==
  ASSUME CombineInv, BranchReady
  PROVE  CombineInv'
  <1>1. PICK b \in Leaves : b = branch
    BY BranchFacts DEF CombineInv
  <1>2. /\ pc = "poll" /\ i < N /\ b \notin disabled /\ Yield(b)
        /\ disabled' = disabled \cup {b} /\ finished' = finished \cup {b}
        /\ panicked' = (panicked \/ b \in finished)
        /\ IF Decides(b)
           THEN pc' = "done" /\ outcome' = b /\ i' = 0 /\ start' = 0 /\ is_pending' = FALSE
           ELSE i' = i + 1 /\ UNCHANGED <<pc, outcome, start, is_pending>>
        /\ atStart' = atStart
    BY <1>1 DEF BranchReady, Passed
  <1>3. /\ IsReady(b) /\ ACTIVE' = (ACTIVE /\ cfg.leaf[b] # "ctrlc") /\ registered' = registered \ {b}
        /\ UNCHANGED <<cfg, now, served, fired, WAKER, woken>>
    BY <1>2 DEF Yield
  <1>4. /\ TimerInv' /\ TickInv' /\ deadline' \in [Leaves -> Nat]
        /\ due' \in [Leaves -> Nat \cup {Off, Unarmed}]
        /\ last' \in [Leaves -> [tick : Int, at : Int, gap : Int]]
        /\ \A e \in Leaves : e # b => deadline'[e] = deadline[e] /\ due'[e] = due[e]
    BY <1>2, YieldTimers DEF CombineInv
  <1>5. /\ N' = N /\ Leaves' = Leaves /\ Starts' = Starts
        /\ \A c : Decides(c)' <=> Decides(c)
    BY <1>3, SameConfig
  <1>6. /\ N \in Nat /\ N > 0 /\ i \in Nat /\ All \notin Leaves /\ Else \notin Leaves
        /\ \A a, e \in Leaves : cfg.leaf[a] = "ctrlc" /\ cfg.leaf[e] = "ctrlc" => a = e
    BY ConfigFacts DEF CombineInv, CombineTypeOK
  <1>7. CombineTypeOK'
    <2>1. i' \in 0..N /\ start' \in 0..(N - 1) /\ is_pending' \in BOOLEAN
      <3>1. i \in 0..N /\ start \in 0..(N - 1) /\ is_pending \in BOOLEAN
        BY DEF CombineInv, CombineTypeOK
      <3>2. i' = 0 \/ i' = i + 1
        BY <1>2
      <3>3. start' = 0 \/ start' = start
        BY <1>2
      <3>4. is_pending' = FALSE \/ is_pending' = is_pending
        BY <1>2
      <3>5. is_pending' \in BOOLEAN
        BY <3>1, <3>4
      <3> QED
        BY <1>2, <1>6, <3>1, <3>2, <3>3, <3>5
    <2>2. pc' \in {"enter", "poll", "arm", "idle", "done"} /\ outcome' \in {All, Else} \cup Leaves
      BY <1>1, <1>2 DEF CombineInv, CombineTypeOK
    <2>3. /\ disabled' \subseteq Leaves /\ finished' \subseteq Leaves /\ registered' \subseteq Leaves
          /\ atStart' \subseteq Leaves
      BY <1>1, <1>2, <1>3 DEF CombineInv, CombineTypeOK
    <2>4. ACTIVE' \in BOOLEAN
      BY <1>3 DEF CombineInv, CombineTypeOK
    <2> QED
      BY <1>3, <1>4, <1>5, <2>1, <2>2, <2>3, <2>4 DEF CombineInv, CombineTypeOK
  <1>8. /\ disabled = finished \cup {c \in Leaves : ~cfg.cond[c]} /\ ~panicked
        /\ \A c \in finished : cfg.cond[c] /\ ~Decides(c)
        /\ cfg.cond[b] /\ b \notin finished
    BY <1>1, <1>2 DEF CombineInv, MaskInv
  <1>9. MaskInv'
    <2>1. disabled' = finished' \cup {c \in Leaves' : ~cfg'.cond[c]}
      BY <1>2, <1>3, <1>5, <1>8
    <2>2. ~panicked' /\ \A c \in finished' : cfg'.cond[c]
      BY <1>2, <1>3, <1>8
    <2>3. \A c \in finished' : Decides(c)' => pc' = "done" /\ outcome' = c
      BY <1>2, <1>5, <1>8
    <2> QED
      BY <2>1, <2>2, <2>3 DEF MaskInv
  <1>10. \A c \in Leaves : c # b /\ IsReady(c) => IsReady(c)'
    <2> SUFFICES ASSUME NEW c \in Leaves, c # b, IsReady(c)
                 PROVE  IsReady(c)'
      OBVIOUS
    <2>1. Armed(c)' = Armed(c)
      BY <1>3, <1>4 DEF Armed, Arm
    <2>2. cfg.leaf[c] = "ctrlc" => ACTIVE' = ACTIVE
      BY <1>3, <1>6 DEF CombineInv, CombineTypeOK
    <2> QED
      BY <1>3, <2>1, <2>2 DEF IsReady
  <1>11. \A c \in Leaves : c # b /\ Heard(c) => Heard(c)'
    BY <1>3, <1>4 DEF Heard
  <1>12. atStart \subseteq Leaves /\ Visited \subseteq Leaves
    BY <1>6, BranchFacts DEF CombineInv, CombineTypeOK, Visited
  <1>13. CASE Decides(b)
    <2>1. pc' = "done" /\ outcome' = b /\ outcome' # All /\ outcome' # Else
      BY <1>1, <1>2, <1>6, <1>13
    <2>2. ASSUME cfg.form \in {"biased", "timeout"},
                 NEW c \in 1..(b - 1), c \in atStart, c \in Live'
          PROVE  FALSE
      <3>1. start = 0
        BY <1>2, <2>2 DEF CombineInv, PollInv, Starts
      <3>2. b = i + 1 /\ \A e \in 1..i : e \in Visited
        BY <1>1, <1>2, <3>1, BranchFacts DEF CombineInv
      <3>3. c \in Visited
        <4>1. b - 1 = i
          BY <1>6, <3>2
        <4> QED
          BY <2>2, <3>2, <4>1
      <3>4. c \in disabled
        BY <1>2, <2>2, <3>3 DEF CombineInv, PollInv
      <3>5. c \in Leaves /\ cfg.cond[c] /\ c \notin finished
        BY <1>2, <1>3, <1>5, <2>2 DEF Live
      <3> QED
        BY <1>8, <3>4, <3>5
    <2>3. \A c \in finished' \ {outcome'} : ~Decides(c)'
      BY <1>2, <1>5, <1>8, <2>1
    <2>4. outcome' \in finished' /\ Decides(outcome)' /\ cfg'.cond[outcome']
      <3>1. cfg'.cond[outcome'] /\ outcome' \in finished'
        BY <1>2, <1>3, <1>8, <2>1
      <3>2. Decides(outcome)'
        BY <1>3, <1>13, <2>1 DEF Decides, TryJoinEnds, TimeoutEnds, SelectEnds
      <3> QED
        BY <3>1, <3>2
    <2>5. OutcomeRight'
      <3>1. ~panicked'
        BY <1>9 DEF MaskInv
      <3>2. cfg'.form \in {"biased", "timeout"} =>
              \A c \in 1..(outcome' - 1) \cap atStart' \cap Live' : FALSE
        BY <1>2, <1>3, <2>1, <2>2
      <3> QED
        BY <2>1, <2>3, <2>4, <3>1, <3>2 DEF OutcomeRight
    <2>6. PollInv' /\ NoLostWake'
      BY <2>1 DEF PollInv, NoLostWake
    <2> QED
      BY <1>4, <1>7, <1>9, <2>5, <2>6 DEF CombineInv, RestInv
  <1>14. CASE ~Decides(b)
    <2>1. i' = i + 1 /\ UNCHANGED <<pc, outcome, start, is_pending>>
      BY <1>2, <1>14
    <2>2. \A c \in Visited' : c \in Visited \/ c = b
      BY <1>1, <1>3, <2>1, VisitOne DEF CombineInv
    <2>3. \A c \in atStart' : c \in disabled' \/ IsReady(c)'
      BY <1>2, <1>10, <1>12 DEF CombineInv, PollInv
    <2>4. ASSUME NEW c \in Visited'
          PROVE  c \in disabled' \/ (is_pending' /\ c \notin atStart' /\ (woken' \/ Heard(c)'))
      <3>1. CASE c = b
        BY <1>2, <3>1
      <3>2. CASE c # b
        <4>1. c \in Visited /\ c \in Leaves
          BY <1>12, <2>2, <2>4, <3>2
        <4>2. c \in disabled \/ (is_pending /\ c \notin atStart /\ (woken \/ Heard(c)))
          BY <1>2, <4>1 DEF CombineInv, PollInv
        <4> QED
          BY <1>2, <1>3, <1>11, <2>1, <3>2, <4>1, <4>2
      <3> QED
        BY <3>1, <3>2
    <2>5. PollInv'
      BY <1>2, <1>5, <2>1, <2>3, <2>4 DEF CombineInv, PollInv
    <2>6. RestInv'
      BY <1>2, <1>9, <2>1 DEF MaskInv, RestInv, OutcomeRight, NoLostWake
    <2> QED
      BY <1>4, <1>7, <1>9, <2>5, <2>6 DEF CombineInv
  <1> QED
    BY <1>13, <1>14
-----------------------------------------------------------------------------
(* The task before its first poll.                                         *)
LEMMA CombineInitially == Init => CombineInv
  <1> SUFFICES ASSUME Init
               PROVE  CombineInv
    OBVIOUS
  <1>1. /\ cfg \in Configs /\ now = 0 /\ served = 0 /\ fired = {} /\ deadline = cfg.deadline
        /\ due = [c \in Leaves |-> Unarmed] /\ registered = {}
        /\ last = [c \in Leaves |-> [tick |-> cfg.deadline[c] - Period, at |-> cfg.deadline[c],
                                     gap |-> Period]]
        /\ ACTIVE = FALSE /\ WAKER = FALSE /\ woken = TRUE
        /\ pc = "idle" /\ i = 0 /\ start = 0 /\ is_pending = FALSE
        /\ disabled = {c \in Leaves : ~cfg.cond[c]} /\ finished = {} /\ atStart = {}
        /\ panicked = FALSE /\ outcome = All
    BY DEF Init, LeafInit
  <1>2. N \in Nat /\ N > 0 /\ cfg.deadline \in [Leaves -> Nat]
    BY <1>1, ConfigFacts
  <1>3. Period \in Nat /\ Period > 0 /\ Off \notin Nat /\ Unarmed \notin Nat /\ Off # Unarmed
    BY LeafAssumption
  <1>4. CombineTypeOK
    <2>1. last \in [Leaves -> [tick : Int, at : Int, gap : Int]]
      <3>1. \A c \in Leaves : [tick |-> cfg.deadline[c] - Period, at |-> cfg.deadline[c],
                               gap |-> Period] \in [tick : Int, at : Int, gap : Int]
        BY <1>2, <1>3
      <3> QED
        BY <1>1, <3>1
    <2>2. due \in [Leaves -> Nat \cup {Off, Unarmed}]
      BY <1>1
    <2>3. i \in 0..N /\ start \in 0..(N - 1)
      BY <1>1, <1>2
    <2>4. ACTIVE \in BOOLEAN /\ WAKER \in BOOLEAN /\ woken \in BOOLEAN /\ is_pending \in BOOLEAN
      BY <1>1
    <2>5. /\ fired \subseteq Leaves /\ registered \subseteq Leaves
          /\ disabled \subseteq Leaves /\ finished \subseteq Leaves /\ atStart \subseteq Leaves
      BY <1>1
    <2>6. deadline \in [Leaves -> Nat] /\ now \in Nat /\ served \in Nat /\ served <= now
      BY <1>1, <1>2
    <2>7. outcome \in {All, Else} \cup Leaves /\ pc \in {"enter", "poll", "arm", "idle", "done"}
      BY <1>1
    <2> QED
      BY <1>1, <2>1, <2>2, <2>3, <2>4, <2>5, <2>6, <2>7 DEF CombineTypeOK
  <1>5. MaskInv /\ PollInv /\ RestInv
    BY <1>1 DEF MaskInv, PollInv, RestInv, OutcomeRight, NoLostWake
  <1>6. TimerInv
    BY <1>1, <1>3 DEF TimerInv
  <1>7. TickInv
    <2> SUFFICES ASSUME NEW c \in Leaves
                 PROVE  /\ deadline[c] - last[c].tick = Period /\ Period % Period = 0
                        /\ last[c].at >= last[c].tick /\ last[c].gap = Period
      BY <1>3 DEF TickInv, TicksOnSchedule
    <2>1. PICK d \in Nat, p \in Nat : d = deadline[c] /\ p = Period /\ p > 0
      BY <1>1, <1>2, <1>3
    <2>2. last[c].tick = d - p /\ last[c].at = d /\ last[c].gap = p
      BY <1>1, <2>1
    <2>3. p % p = 0
      BY <2>1, SmallMod, p - p = 0
    <2> QED
      BY <2>1, <2>2, <2>3
  <1> QED
    BY <1>4, <1>5, <1>6, <1>7 DEF CombineInv

(* Nothing that changes nothing disturbs the invariant.                    *)
LEMMA CombineStutters ==
  ASSUME CombineInv, UNCHANGED vars
  PROVE  CombineInv'
  <1>1. /\ UNCHANGED pollVars
        /\ UNCHANGED <<cfg, now, served, fired, deadline, due, registered, last, ACTIVE, WAKER, woken>>
    BY DEF vars, leafVars
  <1>2. TimerInv' /\ TickInv'
    BY <1>1, TimersUnchanged DEF CombineInv
  <1>3. \A c : (IsReady(c)' <=> IsReady(c)) /\ (Heard(c)' <=> Heard(c))
    BY <1>1 DEF IsReady, Armed, Arm, Heard
  <1>4. MaskInv' /\ PollInv' /\ RestInv'
    BY <1>1, <1>3, OutsideStep
  <1>5. CombineTypeOK'
    BY <1>1, SameConfig DEF CombineInv, CombineTypeOK, pollVars
  <1> QED
    BY <1>2, <1>4, <1>5 DEF CombineInv
-----------------------------------------------------------------------------
(* The state of a task and of its poll stays consistent: the mask is what  *)
(* has yielded or has no precondition, every branch the poll has been to   *)
(* is disabled or heard, and the timers are armed for their deadlines.     *)
THEOREM CombineInvariant == Spec => []CombineInv
  <1>1. ASSUME CombineInv, [Next]_vars
        PROVE  CombineInv'
    <2>1. CASE Poll
      BY <1>1, <2>1, BeginPollKeeps, SkipBranchKeeps, BranchReadyKeeps, BranchPendingKeeps,
         CtrlCInactiveKeeps, CtrlCPendingKeeps, EndPollKeeps DEF Poll
    <2>2. CASE Again
      BY <1>1, <2>2, AgainKeeps
    <2>3. CASE Driver
      BY <1>1, <2>3, DriverKeeps
    <2>4. CASE Environment
      BY <1>1, <2>4, EnvironmentKeeps
    <2>5. CASE UNCHANGED vars
      BY <1>1, <2>5, CombineStutters
    <2> QED
      BY <1>1, <2>1, <2>2, <2>3, <2>4, <2>5 DEF Next
  <1> QED
    BY <1>1, CombineInitially, PTL DEF Spec

(* join!, try_join!, select! and Timeout decide on what their branches     *)
(* yielded, poll none again that has yielded, and prefer their earlier     *)
(* branches where they promise to: for every number of branches and every  *)
(* interleaving with a poll.                                               *)
THEOREM CombineOutcomeRight == Spec => []OutcomeRight
  <1>1. CombineInv => OutcomeRight
    BY DEF CombineInv, RestInv
  <1> QED
    BY <1>1, CombineInvariant, PTL

(* A task whose combinator waits has left its waker with every branch it   *)
(* waits for, and none of them has fired unheard.                          *)
THEOREM CombineNoLostWake == Spec => []NoLostWake
  <1>1. CombineInv => NoLostWake
    BY DEF CombineInv, RestInv
  <1> QED
    BY <1>1, CombineInvariant, PTL

(* The ticks of Intervals, with any period and slack, are a period or more *)
(* apart and never early: none is missed in a Burst, and with Skip they    *)
(* stay on the grid.                                                       *)
THEOREM IntervalTicksOnSchedule == Spec => []TicksOnSchedule
  <1>1. CombineInv => TicksOnSchedule
    BY DEF CombineInv, TickInv
  <1> QED
    BY <1>1, CombineInvariant, PTL

=============================================================================
