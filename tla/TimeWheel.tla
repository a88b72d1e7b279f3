------------------------------ MODULE TimeWheel ------------------------------
(***************************************************************************)
(* time_wheel of timer/time_wheel_timer.h: N slots with a list of timers   *)
(* each.  A tick looks at the list of the current slot and goes on to the  *)
(* next one; a timer that is further away than one turn counts rotations.  *)
(*                                                                         *)
(* The lists are unordered, so a slot is a set.                            *)
(***************************************************************************)
EXTENDS Integers

CONSTANTS
  Timers,     (* the tw_timer objects                                      *)
  N,          (* the slots of the wheel                                    *)
  SI,         (* seconds between two ticks                                 *)
  Timeouts    (* the arguments of add_timer                                *)

ASSUME WheelAssumption ==
  /\ N \in Nat \ {0} /\ SI \in Nat \ {0}
  /\ Timeouts \subseteq Int

Slots == 0..N - 1

VARIABLES
  slots, cur_slot,
  rotation, time_slot     (* the members of the timers                     *)

vars == <<slots, cur_slot, rotation, time_slot>>

InWheel == UNION {slots[s] : s \in Slots}

Init ==
  /\ slots = [s \in Slots |-> {}]
  /\ cur_slot = 0
  /\ rotation = [t \in Timers |-> 0]
  /\ time_slot = [t \in Timers |-> 0]
-----------------------------------------------------------------------------
TicksOf(timeout) == IF timeout < SI THEN 1 ELSE timeout \div SI

(* Mutant of Turns: a timer exactly one turn away gets no rotation.        *)
TurnsBefore(ticks) == (ticks - 1) \div N

Turns(ticks) == ticks \div N

(* Mutant of AddTimer: the timer's own slot is not counted from cur_slot.  *)
AddTimerOffset(t, timeout) ==
  LET ticks == TicksOf(timeout)
      ts    == (cur_slot + (ticks % N)) % N
  IN  /\ timeout >= 0
      /\ slots' = [slots EXCEPT ![ts] = @ \cup {t}]
      /\ rotation' = [rotation EXCEPT ![t] = Turns(ticks)]
      /\ time_slot' = [time_slot EXCEPT ![t] = ticks % N]
      /\ UNCHANGED cur_slot

(* add_timer with a new timer; a negative timeout adds none.               *)
AddTimer(t, timeout) ==
  LET ticks == TicksOf(timeout)
      ts    == (cur_slot + (ticks % N)) % N
  IN  /\ timeout >= 0
      /\ slots' = [slots EXCEPT ![ts] = @ \cup {t}]
      /\ rotation' = [rotation EXCEPT ![t] = Turns(ticks)]
      /\ time_slot' = [time_slot EXCEPT ![t] = ts]
      /\ UNCHANGED cur_slot

DelTimer(t) ==
  /\ slots' = [slots EXCEPT ![time_slot[t]] = @ \ {t}]
  /\ UNCHANGED <<cur_slot, rotation, time_slot>>

(* Mutant of Staying: a turn is counted before it is over.                 *)
StayingLess == {t \in slots[cur_slot] : rotation[t] > 1}

(* The timers of the current slot that have more turns to go; tick fires   *)
(* and frees the others.                                                   *)
Staying == {t \in slots[cur_slot] : rotation[t] > 0}

Tick ==
  /\ rotation' = [t \in Timers |-> IF t \in Staying THEN rotation[t] - 1
                                                    ELSE rotation[t]]
  /\ slots' = [slots EXCEPT ![cur_slot] = Staying]
  /\ cur_slot' = (cur_slot + 1) % N
  /\ UNCHANGED time_slot
-----------------------------------------------------------------------------
(* A caller adds new timers and deletes those it has not seen fire.        *)
Next ==
  \/ \E t \in Timers \ InWheel, timeout \in Timeouts : AddTimer(t, timeout)
  \/ \E t \in InWheel : DelTimer(t)
  \/ Tick

Spec == Init /\ [][Next]_vars
-----------------------------------------------------------------------------
(* Properties                                                              *)

(* Every variable has its type; in particular every index of a slot stays  *)
(* within the wheel, however large the timeout was.                        *)
TypeOK ==
  /\ slots \in [Slots -> SUBSET Timers]
  /\ cur_slot \in Slots
  /\ rotation \in [Timers -> Nat]
  /\ time_slot \in [Timers -> Slots]

(* A timer is in the list of the slot it names and in no other: del_timer, *)
(* which compares it with that list's head and else trusts its prev, never *)
(* gets the wrong list.                                                    *)
InItsSlot == \A s \in Slots : \A t \in slots[s] : time_slot[t] = s

(* Slots from the current one to s, going forward.                         *)
Ahead(s) == IF s >= cur_slot THEN s - cur_slot ELSE s - cur_slot + N

(* The ticks before the one that fires t.                                  *)
TicksLeft(t) == rotation[t] * N + Ahead(time_slot[t])

(* Every timer fires at the tick its timeout stands for, neither a turn    *)
(* early nor a turn late, whichever slot was current when it was added and *)
(* however the ticks, additions and deletions interleave.                  *)
Delays == {TicksOf(timeout) : timeout \in {x \in Timeouts : x >= 0}}

CD == INSTANCE Countdown
        WITH left <- [t \in Timers |-> IF t \in InWheel THEN TicksLeft(t)
                                                         ELSE -1]
ImplementsCountdown == CD!Spec

(* The tick that fires a new timer is the (TicksOf(timeout) + 1)-th: the   *)
(* current slot counts as the first one.                                   *)
StartsAtTimeout ==
  [][\A t \in Timers \ InWheel, timeout \in Timeouts :
       AddTimer(t, timeout) => TicksLeft(t)' = TicksOf(timeout)]_vars
=============================================================================
