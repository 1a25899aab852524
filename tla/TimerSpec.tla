----------------------------- MODULE TimerSpec ------------------------------
(***************************************************************************)
(* What the time driver promises, without the wheel: a set of timers, each *)
(* armed for a tick or not, and rounds that fire exactly the timers that   *)
(* are due.  time/driver/mod.rs describes it ("notifying the Sleep         *)
(* instances once their deadlines are reached").                           *)
(***************************************************************************)
EXTENDS Naturals

CONSTANTS Timers, Off

VARIABLES
  due,       \* the tick a timer is armed for, or Off
  served,    \* the tick up to which timers have been served
  round      \* the tick of the round under way, or Off

specVars == <<due, served, round>>

SpecInit ==
  /\ due = [t \in Timers |-> Off]
  /\ served = 0
  /\ round = Off

(* A timer may be armed for any tick that has not been served, or be       *)
(* disarmed; arming it for one that has been served fires it at once.      *)
Set(t) ==
  /\ round = Off
  /\ \/ due' = [due EXCEPT ![t] = Off]
     \/ /\ due'[t] \in Nat /\ due'[t] > served
        /\ due' = [due EXCEPT ![t] = due'[t]]
  /\ UNCHANGED <<served, round>>

Begin ==
  /\ round = Off
  /\ round' \in Nat /\ round' >= served
  /\ UNCHANGED <<due, served>>

(* A round may serve its ticks one after the other.                        *)
Advance ==
  /\ round # Off
  /\ served' \in Nat /\ served' >= served /\ served' <= round
  /\ \A t \in Timers : due[t] # Off => due[t] >= served'
  /\ UNCHANGED <<due, round>>

Fire(t) ==
  /\ round # Off /\ due[t] # Off /\ due[t] <= round
  /\ due' = [due EXCEPT ![t] = Off]
  /\ UNCHANGED <<served, round>>

(* A round ends when nothing is due.                                       *)
End ==
  /\ round # Off
  /\ \A t \in Timers : due[t] # Off => due[t] > round
  /\ served' = round
  /\ round' = Off
  /\ UNCHANGED due

SpecNext == Begin \/ Advance \/ End \/ \E t \in Timers : Set(t) \/ Fire(t)

TimerSpecification == SpecInit /\ [][SpecNext]_specVars
=============================================================================
