--------------------------- MODULE NotifierRelaxed ---------------------------
(***************************************************************************)
(* The notifier on hardware, or after a compiler, that lets a relaxed      *)
(* store be overtaken by a later relaxed exchange of another variable.     *)
(* The pop of notify_one and notify_n stores next := nullptr relaxed; the  *)
(* exchange in _unpark that lets the waiter go is relaxed too, and so is   *)
(* the waiter's read of it, so nothing orders that store before the        *)
(* waiter's next commit_wait, which writes the same field.                 *)
(***************************************************************************)
EXTENDS Notifier

VARIABLE unlinking  \* the waiter whose next := nullptr has not taken effect yet

relaxedVars == <<vars, unlinking>>

RelaxedInit == Init /\ unlinking = [n \in Notifiers |-> Nil]

\* The store waits while its thread goes on to _unpark, which reads the value
\* it stored: the end of the chain.
UnlinkLate(n) ==
  /\ unlinking[n] = Nil
  /\ Goto(n, "unlink", "signal")
  /\ nxt' = [nxt EXCEPT ![n] = Nil]
  /\ unlinking' = [unlinking EXCEPT ![n] = cur[n]]
  /\ UNCHANGED <<m_state, next, wstate, reg, quota, cur, calls, waiterVars>>

UnlinkLands(n) ==
  /\ unlinking[n] # Nil
  /\ next' = [next EXCEPT ![unlinking[n]] = Nil]
  /\ unlinking' = [unlinking EXCEPT ![n] = Nil]
  /\ UNCHANGED <<m_state, wstate, pc, reg, quota, cur, nxt, calls, waiterVars>>

\* The fence that opens a notify call completes the stores of earlier calls,
\* and a thread's own later accesses of the field wait for its store.
RelaxedNext ==
  \/ Next /\ UNCHANGED unlinking
     /\ \A n \in Notifiers :
          unlinking[n] # Nil /\ pc[n] \in {"idle", "popRead", "unlink", "unpark"} => pc'[n] = pc[n]
  \/ \E n \in Notifiers : UnlinkLate(n) \/ UnlinkLands(n)

RelaxedSpec ==
  /\ RelaxedInit /\ [][RelaxedNext]_relaxedVars
  /\ \A n \in Notifiers : WF_relaxedVars(UnlinkLands(n))

-----------------------------------------------------------------------------
\* What the comment of _park says: the relaxed accesses need no further acquire
\* or release.  Then nobody asleep in commit_wait may be out of reach of every
\* notification.
RelaxedSuffices == NoneStranded
=============================================================================
