------------------------------ MODULE Countdown ------------------------------
(***************************************************************************)
(* What a wheel of timers promises: each timer counts the ticks that are   *)
(* left to it, and the tick that finds none left fires it.                 *)
(***************************************************************************)
EXTENDS Integers

CONSTANTS
  Timers,
  Delays     (* the ticks a timer may be started with                      *)

Off == -1

VARIABLE left     (* the ticks before the one that fires the timer, or Off *)

Init == left = [t \in Timers |-> Off]

Start(t, n) ==
  /\ left[t] = Off
  /\ left' = [left EXCEPT ![t] = n]

Stop(t) ==
  /\ left[t] # Off
  /\ left' = [left EXCEPT ![t] = Off]

(* Off is what follows 0.                                                  *)
Tick ==
  left' = [t \in Timers |-> IF left[t] = Off THEN Off ELSE left[t] - 1]

Next == Tick \/ \E t \in Timers : Stop(t) \/ \E n \in Delays : Start(t, n)

Spec == Init /\ [][Next]_left
=============================================================================
