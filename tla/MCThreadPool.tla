---------------------------- MODULE MCThreadPool ----------------------------
(* Two workers, two callers, two jobs and the null request.                *)
EXTENDS ThreadPool

CONSTANTS w1, w2, p1, p2, r1, r2

MCWorkers   == {w1, w2}
MCProducers == {p1, p2}
MCRequests  == {r1, r2}
=============================================================================
