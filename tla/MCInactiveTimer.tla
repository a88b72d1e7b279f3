-------------------------- MODULE MCInactiveTimer ---------------------------
EXTENDS InactiveTimer, TLC

CONSTANTS t1, t2

MCTimers == {t1, t2}
MCTimes  == 0..MaxTime + Idle

(* The timers are interchangeable.                                         *)
Symmetry == Permutations(MCTimers)
=============================================================================
