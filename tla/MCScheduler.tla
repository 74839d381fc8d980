----------------------------- MODULE MCScheduler ----------------------------
(* Two workers, a client, two topologies that fork.                       *)
EXTENDS Scheduler

CONSTANTS w1, w2, s1, c1, k1, k2
=============================================================================
