--------------------------- MODULE MCBoundedQueue ---------------------------
(* Two slots, four tasks: the indices go round the ring twice.             *)
EXTENDS BoundedQueue, TLC

CONSTANTS t1, t2

ThiefSymmetry == Permutations(Thieves)
=============================================================================
