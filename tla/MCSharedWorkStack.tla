-------------------------- MODULE MCSharedWorkStack -------------------------
(* Three Works, two producers and two thieves: a chain of two can be       *)
(* published under a thief that is taking the previous one over.           *)
EXTENDS SharedWorkStack

CONSTANTS a, b, c, p1, p2, t1, t2
=============================================================================
