--------------------------- MODULE MCSortTimerList --------------------------
EXTENDS SortTimerList, TLC

CONSTANTS t1, t2, t3, t4

MCTimers == {t1, t2, t3, t4}
MCTimes  == 0..2

(* The timers are interchangeable.                                         *)
Symmetry == Permutations(MCTimers)
=============================================================================
