-------------------------- MODULE MCCoroutineUnjoined --------------------------
(* A coroutine that forks a task and ends without a join, on two workers.  *)
EXTENDS Dynamic

CONSTANTS a, b

Unjoined ==
  [workers |-> Workers, roots |-> {a}, stoppable |-> {},
   kind |-> [x \in Works |-> IF x = a THEN "asyncCoroutine" ELSE "silentBasic"],
   parent |-> [x \in Works |-> IF x = b THEN a ELSE Nil],
   graph |-> [x \in Works |-> {}],
   rounds |-> [x \in Works |-> 0],
   body |-> [x \in Works |->
     IF x = a THEN <<[do |-> "fork", of |-> b, catch |-> FALSE]>> ELSE <<>>]]

MCScenarios == {Unjoined}

\* A coroutine that has come to its end is torn down when the tasks it has
\* started are, too: its future becomes ready (the comment in the invoker:
\* "after the root coroutine is done, wait for all derived Works, then do
\* the final clean-up").
CoroutinesEnd == \A x \in Works : coro[x].done ~> "active" \notin flags[x]
=============================================================================
