-------------------------- MODULE MCNotifierRelaxed --------------------------
(* Two waiters that commit twice and one notifier that pops once.          *)
EXTENDS NotifierRelaxed

CONSTANTS w1, w2, n1

TwoEach == {[t \in Threads |-> IF t \in Waiters THEN 2 ELSE 1]}
=============================================================================
