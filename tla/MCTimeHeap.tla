----------------------------- MODULE MCTimeHeap -----------------------------
EXTENDS TimeHeap, TLC

CONSTANTS t1, t2, t3, t4, t5

MCTimers == {t1, t2, t3, t4, t5}
MCTimes  == 0..2

(* The timers are interchangeable.                                         *)
Symmetry == Permutations(MCTimers)
=============================================================================
