----------------------------- MODULE MCTimeWheel -----------------------------
EXTENDS TimeWheel, TLC

CONSTANTS t1, t2, t3

MCTimers   == {t1, t2, t3}
MCTimeouts == -1..15

(* The timers are interchangeable.                                         *)
Symmetry == Permutations(MCTimers)
=============================================================================
