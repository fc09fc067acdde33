-------------------------- MODULE MCConnectionPool --------------------------
(* Instances of ConnectionPool for TLC.  Threads are interchangeable, and so
   are keys; sessions are taken in a fixed order, so they are not. *)
EXTENDS ConnectionPool, TLC

CONSTANTS k1, k2, k3, t1, t2

MCKeys      == {k1, k2}
MCThread    == {t1, t2}
Interchange == Permutations(MCThread) \cup Permutations(MCKeys)
=============================================================================
