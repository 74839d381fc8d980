----------------------------- MODULE MCSemaphores -----------------------------
(* Two semaphores, three Works, three workers.                             *)
EXTENDS Semaphores, TLC

CONSTANTS t1, t2, t3, w1, w2, w3

Capacity == {3}

Setting(max, value, acq, rel) ==
  [max |-> <<max, max>>, value |-> <<value, value>>, acquires |-> acq, releases |-> rel]

\* Both semaphores together, one alone, the other alone; less than the maximum
\* to begin with.
Crossing == LET a == (t1 :> <<1, 1>> @@ t2 :> (2 :> 1) @@ t3 :> <<1, 2>>) IN Setting(3, 2, a, a)

\* More than one unit: one Work takes all there is.
Amounts == LET a == (t1 :> <<2, 1>> @@ t2 :> <<1, 1>> @@ t3 :> <<1>>) IN Setting(2, 2, a, a)

\* An event: nothing at first, one Work gives what the others take.
Event == Setting(2, 0, t1 :> <<1>> @@ t2 :> <<1, 1>> @@ t3 :> <<>>,
                       t1 :> <<>> @@ t2 :> <<>> @@ t3 :> <<2, 1>>)

MCSettings == {Crossing, Amounts, Event}
===============================================================================
