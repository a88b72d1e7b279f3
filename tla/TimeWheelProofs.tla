--------------------------- MODULE TimeWheelProofs ---------------------------
(***************************************************************************)
(* For every number of slots, slot interval and set of timeouts: the wheel *)
(* of module TimeWheel implements the countdown of module Countdown.       *)
(***************************************************************************)
EXTENDS TimeWheel, TLAPS

(* A place at most one turn behind the end of the wheel wraps around once. *)
LEMMA WrapAround ==
  ASSUME NEW x \in Nat, x < 2 * N
  PROVE  x % N = IF x < N THEN x ELSE x - N
<1>1. N \in Nat /\ N > 0
  BY WheelAssumption
<1>2. CASE x < N
  BY <1>1, <1>2, SMTT(30)
<1>3. CASE x >= N
  BY <1>1, <1>3, SMTT(30)
<1> QED
  BY <1>1, <1>2, <1>3

(* A number of ticks is its full turns and a rest of less than a turn.     *)
LEMMA TurnsAndRest ==
  ASSUME NEW k \in Nat
  PROVE  /\ k \div N \in Nat /\ k % N \in Slots
         /\ k = (k \div N) * N + (k % N)
  BY WheelAssumption, SMTT(30) DEF Slots

(* Some tick at least passes before a timer fires.                         *)
LEMMA TicksNat ==
  ASSUME NEW timeout \in Timeouts, timeout >= 0
  PROVE  TicksOf(timeout) \in Nat
<1>1. timeout \in Int /\ SI \in Nat /\ SI > 0
  BY WheelAssumption
<1> QED
  BY <1>1, SMTT(30) DEF TicksOf

-----------------------------------------------------------------------------
(* The inductive invariant.                                                *)

WheelInv == TypeOK /\ InItsSlot

(* It holds for the empty wheel.                                           *)
LEMMA WheelInit == Init => WheelInv
  BY WheelAssumption DEF Init, WheelInv, TypeOK, InItsSlot, Slots

(* add_timer with the places its arithmetic yields.                        *)
LEMMA AddPlaces ==
  ASSUME WheelInv, NEW t \in Timers, NEW timeout \in Timeouts,
         AddTimer(t, timeout)
  PROVE  \E ticks \in Nat, ts \in Slots :
           /\ ticks = TicksOf(timeout)
           /\ timeout >= 0
           /\ ts = (cur_slot + (ticks % N)) % N
           /\ ticks \div N \in Nat /\ ticks % N \in Slots
           /\ ticks = (ticks \div N) * N + (ticks % N)
           /\ slots' = [slots EXCEPT ![ts] = @ \cup {t}]
           /\ rotation' = [rotation EXCEPT ![t] = ticks \div N]
           /\ time_slot' = [time_slot EXCEPT ![t] = ts]
           /\ cur_slot' = cur_slot
<1> DEFINE ticks == TicksOf(timeout)
           ts    == (cur_slot + (ticks % N)) % N
<1>1. timeout >= 0
  BY DEF AddTimer
<1>2. ticks \in Nat
  BY <1>1, TicksNat
<1>3. /\ ticks \div N \in Nat /\ ticks % N \in Slots
      /\ ticks = (ticks \div N) * N + (ticks % N)
  BY <1>2, TurnsAndRest
<1>4. cur_slot \in Slots /\ N \in Nat /\ N > 0
  BY WheelAssumption DEF WheelInv, TypeOK
<1> DEFINE x == cur_slot + (ticks % N)
<1>5. x \in Nat /\ x < 2 * N
  BY <1>3, <1>4 DEF Slots
<1>6. ts = IF x < N THEN x ELSE x - N
  BY <1>5, WrapAround
<1>7. ts \in Slots
  BY <1>4, <1>5, <1>6 DEF Slots
<1>8. /\ slots' = [slots EXCEPT ![ts] = @ \cup {t}]
      /\ rotation' = [rotation EXCEPT ![t] = ticks \div N]
      /\ time_slot' = [time_slot EXCEPT ![t] = ts]
      /\ cur_slot' = cur_slot
  BY DEF AddTimer, Turns
<1> HIDE DEF ticks, ts
<1> WITNESS ticks \in Nat, ts \in Slots
<1> QED
  BY <1>1, <1>3, <1>8 DEF ticks, ts

(* The next slot, wrapped around.                                          *)
LEMMA NextSlot ==
  ASSUME WheelInv, Tick
  PROVE  /\ cur_slot' = IF cur_slot = N - 1 THEN 0 ELSE cur_slot + 1
         /\ cur_slot' \in Slots
<1>1. cur_slot \in Slots /\ N \in Nat /\ N > 0
  BY WheelAssumption DEF WheelInv, TypeOK
<1> DEFINE next == cur_slot + 1
<1>2. next \in Nat /\ next < 2 * N
  BY <1>1 DEF Slots
<1>3. cur_slot' = next % N
  BY DEF Tick
<1> HIDE DEF next
<1>4. next % N = IF next < N THEN next ELSE next - N
  BY <1>2, WrapAround
<1> QED
  BY <1>1, <1>3, <1>4 DEF Slots, next

(* No addition, deletion or tick breaks it.                                *)
LEMMA WheelStep == WheelInv /\ [Next]_vars => WheelInv'
<1> SUFFICES ASSUME WheelInv, [Next]_vars
             PROVE  WheelInv'
  OBVIOUS
<1> USE DEF WheelInv
<1>1. ASSUME NEW t \in Timers \ InWheel, NEW timeout \in Timeouts,
             AddTimer(t, timeout)
      PROVE  WheelInv'
  <2>1. PICK ticks \in Nat, ts \in Slots :
          /\ ticks \div N \in Nat
          /\ slots' = [slots EXCEPT ![ts] = @ \cup {t}]
          /\ rotation' = [rotation EXCEPT ![t] = ticks \div N]
          /\ time_slot' = [time_slot EXCEPT ![t] = ts]
          /\ cur_slot' = cur_slot
    BY <1>1, AddPlaces
  <2>2. TypeOK'
    BY <2>1 DEF TypeOK
  <2>3. \A s \in Slots : t \notin slots[s]
    BY <1>1 DEF InWheel
  <2>4. InItsSlot'
    BY <2>1, <2>3 DEF InItsSlot, TypeOK
  <2> QED
    BY <2>2, <2>4
<1>2. ASSUME NEW t \in InWheel, DelTimer(t)
      PROVE  WheelInv'
  BY <1>2 DEF DelTimer, TypeOK, InItsSlot
<1>3. ASSUME Tick
      PROVE  WheelInv'
  <2>1. cur_slot' \in Slots
    BY <1>3, NextSlot
  <2>2. rotation' \in [Timers -> Nat]
    BY <1>3 DEF Tick, Staying, TypeOK
  <2>3. TypeOK'
    BY <1>3, <2>1, <2>2 DEF Tick, Staying, TypeOK
  <2>4. InItsSlot'
    BY <1>3 DEF Tick, Staying, TypeOK, InItsSlot
  <2> QED
    BY <2>3, <2>4
<1>4. CASE UNCHANGED vars
  BY <1>4 DEF vars, TypeOK, InItsSlot
<1> QED
  BY <1>1, <1>2, <1>3, <1>4 DEF Next

-----------------------------------------------------------------------------
(* The step of the countdown that a step of the wheel is.                  *)

(* The number of turns counts for what the invariant says it does.         *)
LEMMA LeftNat ==
  ASSUME WheelInv, NEW t \in Timers
  PROVE  TicksLeft(t) \in Nat
<1>1. /\ N \in Nat /\ N > 0 /\ cur_slot \in 0..N - 1
      /\ time_slot[t] \in 0..N - 1 /\ rotation[t] \in Nat
  BY WheelAssumption DEF WheelInv, TypeOK, Slots
<1>2. rotation[t] * N \in Nat
  BY <1>1
<1>3. Ahead(time_slot[t]) \in Nat
  BY <1>1 DEF Ahead
<1> QED
  BY <1>2, <1>3 DEF TicksLeft

(* A new timer has the ticks of its timeout left (property                 *)
(* StartsAtTimeout, for one step).                                         *)
LEMMA AddedLeft ==
  ASSUME WheelInv, NEW t \in Timers, NEW timeout \in Timeouts,
         AddTimer(t, timeout)
  PROVE  TicksLeft(t)' = TicksOf(timeout)
<1>1. PICK ticks \in Nat, ts \in Slots :
        /\ ticks = TicksOf(timeout)
        /\ ts = (cur_slot + (ticks % N)) % N
        /\ ticks \div N \in Nat /\ ticks % N \in Slots
        /\ ticks = (ticks \div N) * N + (ticks % N)
        /\ rotation' = [rotation EXCEPT ![t] = ticks \div N]
        /\ time_slot' = [time_slot EXCEPT ![t] = ts]
        /\ cur_slot' = cur_slot
  BY AddPlaces
<1>2. /\ N \in Nat /\ N > 0 /\ cur_slot \in 0..N - 1
      /\ ticks % N \in 0..N - 1
  BY <1>1, WheelAssumption DEF WheelInv, TypeOK, Slots
<1> DEFINE x == cur_slot + (ticks % N)
<1>3. x \in Nat /\ x < 2 * N
  BY <1>2
<1>4. ts = x % N
  BY <1>1
<1> HIDE DEF x
<1>5. ts = IF x < N THEN x ELSE x - N
  BY <1>3, <1>4, WrapAround
<1>6. rotation'[t] = ticks \div N /\ time_slot'[t] = ts
  BY <1>1 DEF WheelInv, TypeOK
<1>7. (IF ts >= cur_slot THEN ts - cur_slot ELSE ts - cur_slot + N) = ticks % N
  BY <1>2, <1>5 DEF x
<1>8. Ahead(time_slot[t])' = ticks % N
  BY <1>1, <1>6, <1>7 DEF Ahead
<1> QED
  BY <1>1, <1>6, <1>8 DEF TicksLeft

(* For a timer that is left alone nothing changes.                         *)
LEMMA SameLeft ==
  ASSUME NEW t, cur_slot' = cur_slot, rotation'[t] = rotation[t],
         time_slot'[t] = time_slot[t]
  PROVE  TicksLeft(t)' = TicksLeft(t)
  BY DEF TicksLeft, Ahead

(* Going on to the next slot brings every other slot one nearer, and takes *)
(* the slot that was current to the end of the turn.                       *)
LEMMA AheadNext ==
  ASSUME WheelInv, Tick, NEW s \in Slots
  PROVE  Ahead(s)' = IF s = cur_slot THEN N - 1 ELSE Ahead(s) - 1
<1>1. N \in Nat /\ N > 0 /\ cur_slot \in 0..N - 1 /\ s \in 0..N - 1
  BY WheelAssumption DEF WheelInv, TypeOK, Slots
<1>2. cur_slot' = IF cur_slot = N - 1 THEN 0 ELSE cur_slot + 1
  BY NextSlot
<1> QED
  BY <1>1, <1>2 DEF Ahead

Left == [t \in Timers |-> IF t \in InWheel THEN TicksLeft(t) ELSE -1]

(* Membership after add_timer and del_timer.                               *)
LEMMA AddedIn ==
  ASSUME WheelInv, NEW t \in Timers, NEW timeout \in Timeouts,
         AddTimer(t, timeout)
  PROVE  InWheel' = InWheel \cup {t}
<1>1. PICK ts \in Slots : slots' = [slots EXCEPT ![ts] = @ \cup {t}]
  BY AddPlaces
<1>2. slots'[ts] = slots[ts] \cup {t}
      /\ \A s \in Slots \ {ts} : slots'[s] = slots[s]
  BY <1>1 DEF WheelInv, TypeOK
<1> QED
  BY <1>2 DEF InWheel

(* del_timer takes the timer it is given and no other.                     *)
LEMMA DeletedOut ==
  ASSUME WheelInv, NEW t \in InWheel, DelTimer(t)
  PROVE  InWheel' = InWheel \ {t}
<1>1. /\ t \in Timers /\ time_slot[t] \in Slots
      /\ \A s \in Slots : t \in slots[s] => s = time_slot[t]
  BY DEF InWheel, WheelInv, TypeOK, InItsSlot
<1>2. /\ slots'[time_slot[t]] = slots[time_slot[t]] \ {t}
      /\ \A s \in Slots \ {time_slot[t]} : slots'[s] = slots[s]
  BY <1>1 DEF DelTimer, WheelInv, TypeOK
<1> QED
  BY <1>1, <1>2 DEF InWheel

(* Only timers that reached their slot with no turn left go at a tick.     *)
LEMMA TickedOut ==
  ASSUME WheelInv, Tick, NEW t \in InWheel
  PROVE  /\ t \in InWheel' <=> TicksLeft(t) # 0
         /\ TicksLeft(t) # 0 => TicksLeft(t)' = TicksLeft(t) - 1
<1>1. t \in Timers /\ \A s \in Slots : t \in slots[s] <=> s = time_slot[t]
  BY DEF InWheel, WheelInv, TypeOK, InItsSlot
<1>2. /\ N \in Nat /\ N > 0 /\ cur_slot \in Slots /\ Slots = 0..N - 1
      /\ time_slot[t] \in Slots /\ rotation[t] \in Nat
  BY <1>1, WheelAssumption DEF WheelInv, TypeOK, Slots
<1>3. /\ slots'[cur_slot] = Staying
      /\ \A s \in Slots \ {cur_slot} : slots'[s] = slots[s]
  BY DEF Tick, WheelInv, TypeOK
<1>4. t \in InWheel' <=> time_slot[t] # cur_slot \/ t \in Staying
  BY <1>1, <1>2, <1>3 DEF InWheel, Staying
<1>5. t \in Staying <=> time_slot[t] = cur_slot /\ rotation[t] > 0
  BY <1>1, <1>2 DEF Staying
<1>6. /\ time_slot'[t] = time_slot[t]
      /\ rotation'[t] = IF t \in Staying THEN rotation[t] - 1 ELSE rotation[t]
  BY <1>1 DEF Tick
<1>7. Ahead(time_slot[t])' = IF time_slot[t] = cur_slot THEN N - 1
                             ELSE Ahead(time_slot[t]) - 1
  <2>1. \A s \in Slots :
          Ahead(s)' = IF s = cur_slot THEN N - 1 ELSE Ahead(s) - 1
    BY AheadNext
  <2> QED
    BY <2>1, <1>2, <1>6 DEF Ahead
<1>8. CASE time_slot[t] # cur_slot
  <2>1. Ahead(time_slot[t]) \in Nat /\ Ahead(time_slot[t]) > 0
    BY <1>2, <1>8 DEF Ahead
  <2>2. rotation[t] * N \in Nat
    BY <1>2
  <2>3. rotation'[t] = rotation[t] /\ t \in InWheel'
    BY <1>4, <1>5, <1>6, <1>8
  <2> QED
    BY <2>1, <2>2, <2>3, <1>7, <1>8 DEF TicksLeft
<1>9. CASE time_slot[t] = cur_slot
  <2>1. Ahead(time_slot[t]) = 0
    BY <1>2, <1>9 DEF Ahead
  <2>2. TicksLeft(t) = rotation[t] * N
    BY <1>2, <2>1 DEF TicksLeft
  <2>3. CASE rotation[t] = 0
    BY <1>2, <1>4, <1>5, <1>9, <2>2, <2>3
  <2>4. CASE rotation[t] > 0
    <3>1. rotation'[t] = rotation[t] - 1 /\ t \in InWheel'
      BY <1>4, <1>5, <1>6, <1>9, <2>4
    <3>2. TicksLeft(t)' = (rotation[t] - 1) * N + (N - 1)
      BY <3>1, <1>7, <1>9 DEF TicksLeft
    <3>3. (rotation[t] - 1) * N + (N - 1) = rotation[t] * N - 1
      BY <1>2
    <3>4. rotation[t] * N > 0
      BY <1>2, <2>4
    <3> QED
      BY <2>2, <3>1, <3>2, <3>3, <3>4
  <2> QED
    BY <1>2, <2>3, <2>4
<1> QED
  BY <1>8, <1>9

(* A step of the wheel is a step of the countdown.                         *)
LEMMA StepCounts == WheelInv /\ [Next]_vars => [CD!Next]_Left
<1> SUFFICES ASSUME WheelInv, [Next]_vars
             PROVE  CD!Next \/ Left' = Left
  BY DEF Left
<1>1. ASSUME NEW t \in Timers \ InWheel, NEW timeout \in Timeouts,
             AddTimer(t, timeout)
      PROVE  CD!Next
  <2>1. InWheel' = InWheel \cup {t}
    BY <1>1, AddedIn
  <2>2. TicksLeft(t)' = TicksOf(timeout) /\ timeout >= 0
    BY <1>1, AddedLeft DEF AddTimer
  <2>3. TicksOf(timeout) \in Delays
    BY <2>2 DEF Delays
  <2>4. ASSUME NEW u \in Timers, u # t
        PROVE  Left'[u] = Left[u]
    <3>1. /\ rotation'[u] = rotation[u] /\ time_slot'[u] = time_slot[u]
          /\ cur_slot' = cur_slot
      BY <1>1, <2>4 DEF AddTimer, WheelInv, TypeOK
    <3>2. TicksLeft(u)' = TicksLeft(u)
      BY <3>1, SameLeft
    <3> QED
      BY <2>1, <2>4, <3>2 DEF Left
  <2>5. Left[t] = -1 /\ Left'[t] = TicksOf(timeout)
    BY <1>1, <2>1, <2>2 DEF Left
  <2>6. Left' = [Left EXCEPT ![t] = TicksOf(timeout)]
    BY <2>4, <2>5 DEF Left
  <2>7. CD!Start(t, TicksOf(timeout))
    BY <2>5, <2>6 DEF CD!Start, CD!Off, Left
  <2> QED
    BY <2>3, <2>7 DEF CD!Next
<1>2. ASSUME NEW t \in InWheel, DelTimer(t)
      PROVE  CD!Next
  <2> t \in Timers
    BY DEF InWheel, WheelInv, TypeOK
  <2>1. InWheel' = InWheel \ {t}
    BY <1>2, DeletedOut
  <2>2. \A u \in Timers : TicksLeft(u)' = TicksLeft(u)
    BY <1>2 DEF DelTimer, TicksLeft, Ahead
  <2>3. Left' = [Left EXCEPT ![t] = -1]
    BY <2>1, <2>2 DEF Left
  <2>4. TicksLeft(t) \in Nat
    BY <2>1, LeftNat
  <2>5. Left[t] # -1
    BY <1>2, <2>1, <2>4 DEF Left
  <2>6. CD!Stop(t)
    BY <2>3, <2>5 DEF CD!Stop, CD!Off, Left
  <2> QED
    BY <2>1, <2>6 DEF CD!Next
<1>3. ASSUME Tick
      PROVE  CD!Next
  <2>1. ASSUME NEW t \in Timers
        PROVE  Left'[t] = IF Left[t] = -1 THEN -1 ELSE Left[t] - 1
    <3>1. CASE t \in InWheel
      <4>1. TicksLeft(t) \in Nat
        BY LeftNat
      <4>2. /\ t \in InWheel' <=> TicksLeft(t) # 0
            /\ TicksLeft(t) # 0 => TicksLeft(t)' = TicksLeft(t) - 1
        BY <1>3, <3>1, TickedOut
      <4> QED
        BY <3>1, <4>1, <4>2 DEF Left
    <3>2. CASE t \notin InWheel
      <4>1. t \notin InWheel'
        BY <1>3, <3>2 DEF Tick, Staying, InWheel, WheelInv, TypeOK
      <4> QED
        BY <3>2, <4>1 DEF Left
    <3> QED
      BY <3>1, <3>2
  <2>2. CD!Tick
    BY <2>1 DEF CD!Tick, CD!Off, Left
  <2> QED
    BY <2>2 DEF CD!Next
<1>4. CASE UNCHANGED vars
  BY <1>4 DEF vars, Left, InWheel, TicksLeft, Ahead
<1> QED
  BY <1>1, <1>2, <1>3, <1>4 DEF Next
-----------------------------------------------------------------------------
(* Theorems                                                                *)

(* The types, and every timer is in the list of the slot it names.         *)
THEOREM WheelTypes == Spec => [](TypeOK /\ InItsSlot)
<1>1. Spec => []WheelInv
  BY WheelInit, WheelStep, PTL DEF Spec
<1> QED
  BY <1>1, PTL DEF WheelInv

(* add_timer puts a timer where exactly as many ticks as its timeout       *)
(* stands for come before the one that fires it.                           *)
THEOREM TimeoutKept == Spec => StartsAtTimeout
<1>1. Spec => []WheelInv
  BY WheelInit, WheelStep, PTL DEF Spec
<1>2. WheelInv /\ [Next]_vars =>
        [\A t \in Timers \ InWheel, timeout \in Timeouts :
           AddTimer(t, timeout) => TicksLeft(t)' = TicksOf(timeout)]_vars
  BY AddedLeft
<1> QED
  BY <1>1, <1>2, PTL DEF Spec, StartsAtTimeout

(* Every timer fires at its tick: the wheel implements the countdown.      *)
THEOREM WheelImplementsCountdown == Spec => ImplementsCountdown
<1>1. Init => CD!Init
  BY DEF Init, CD!Init, CD!Off, InWheel
<1>2. Spec => []WheelInv
  BY WheelInit, WheelStep, PTL DEF Spec
<1> QED
  BY <1>1, <1>2, StepCounts, PTL DEF Spec, ImplementsCountdown, CD!Spec, Left
=============================================================================
