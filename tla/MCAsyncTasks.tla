----------------------------- MODULE MCAsyncTasks -----------------------------
(* Three tasks, two threads with futures, two workers.                     *)
EXTENDS AsyncTasks, TLC

CONSTANTS t1, t2, t3, c1, c2, w1, w2

Interchangeable == Permutations(Tasks) \cup Permutations(Clients) \cup Permutations(Workers)
===============================================================================
