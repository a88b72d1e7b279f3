---------------------------- MODULE MCHttpServer ----------------------------
EXTENDS HttpServer, TLC

CONSTANTS w1, w2

TwoWorkers == {w1, w2}

(* The workers are interchangeable (safety runs only).                     *)
Symmetry == Permutations(TwoWorkers)
=============================================================================
