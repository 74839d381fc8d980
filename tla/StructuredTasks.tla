---------------------------- MODULE StructuredTasks ----------------------------
(***************************************************************************)
(* What the executor promises about tasks that start tasks: they form a    *)
(* tree at all times.  A task starts under a parent that has not ended, and*)
(* ends when nothing it started is left.                                   *)
(***************************************************************************)
EXTENDS Naturals

CONSTANTS Tasks, Nil

VARIABLES
  parent,   \* who starts whom, fixed
  live      \* the tasks that have started and not ended

vars == <<parent, live>>

STInit ==
  /\ parent \in [Tasks -> Tasks \cup {Nil}]
  /\ live \subseteq {t \in Tasks : parent[t] = Nil}

\* Some tasks start together: a scope with its first children, a graph.
Start(S) ==
  /\ S \cap live = {}
  /\ \A t \in S : parent[t] \in live \cup S \cup {Nil}
  /\ live' = live \cup S
  /\ UNCHANGED parent

End(t) ==
  /\ t \in live
  /\ \A u \in live : parent[u] # t
  /\ live' = live \ {t}
  /\ UNCHANGED parent

STNext ==
  \/ \E S \in (SUBSET Tasks) \ {{}} : Start(S)
  \/ \E t \in Tasks : End(t)

STSpec == STInit /\ [][STNext]_vars
=============================================================================
