----------------------------- MODULE MCRateLimit -----------------------------
(* A small instance of RateLimit for TLC.                                   *)
EXTENDS RateLimit, TLC

CONSTANTS c1, t1, t2

OneClient == {c1}
TwoThreads == {t1, t2}
ThreadSymmetry == Permutations(TwoThreads)
=============================================================================
