------------------------------- MODULE MCDynamic -------------------------------
(* Programs for Dynamic.  The names are Works; a program uses some of them. *)
EXTENDS Dynamic

CONSTANTS a, b, c, d, e, g, h, k1, k2

Do(deed, x) == [do |-> deed, of |-> x, catch |-> FALSE]
Try(deed, x) == [do |-> deed, of |-> x, catch |-> TRUE]

Empty == [workers |-> Workers, roots |-> {}, stoppable |-> {},
          kind |-> [x \in Works |-> "basic"],
          parent |-> [x \in Works |-> Nil],
          graph |-> [x \in Works |-> {}],
          rounds |-> [x \in Works |-> 0],
          body |-> [x \in Works |-> <<>>]]

\* Tasks that start tasks and wait for the future of one and for all: a
\* runtime a polls its child b, which waits for its own child c; d gives the
\* executor two tasks that nobody waits for.
Recursion ==
  [Empty EXCEPT
     !.roots = {a},
     !.kind = [@ EXCEPT ![a] = "asyncRuntime", ![b] = "asyncRuntime",
                        ![c] = "silentBasic", ![d] = "silentRuntime",
                        ![e] = "silentBasic", ![g] = "asyncBasic",
                        ![h] = "silentBasic"],
     !.parent = [@ EXCEPT ![b] = a, ![c] = b, ![d] = a, ![e] = d],
     !.body = [@ EXCEPT ![a] = <<Do("spawn", b), Do("spawn", d),
                                 Do("poll", b), Do("wait", a)>>,
                        ![b] = <<Do("spawn", c), Do("wait", b)>>,
                        ![d] = <<Do("spawn", e), Do("spawn", g),
                                 Do("spawn", h)>>]]

\* A TaskGroup that is used twice; its tasks throw, the waits are caught.  A
\* guard makes a report the exception of its own child.
Groups ==
  [Empty EXCEPT
     !.roots = {a}, !.stoppable = {a},
     !.kind = [@ EXCEPT ![a] = "silentRuntime", ![g] = "anchor",
                        ![b] = "silentBasic", ![c] = "asyncBasic",
                        ![d] = "silentBasic", ![e] = "silentBasic"],
     !.parent = [@ EXCEPT ![g] = a, ![b] = g, ![c] = g, ![d] = g, ![e] = a],
     !.body = [@ EXCEPT ![a] = <<Do("open", g), Do("spawn", b),
                                 Try("wait", g), Do("spawn", c),
                                 Do("spawn", d), Try("wait", g),
                                 Do("guard", a), Do("spawn", e),
                                 Do("wait", a), Do("stop", g)>>,
                        ![b] = <<Do("throw", b)>>,
                        ![d] = <<Do("throw", d)>>,
                        ![e] = <<Do("throw", e)>>]]

\* A group left by an exception while its tasks run.
LeftGroup ==
  [Empty EXCEPT
     !.roots = {a}, !.stoppable = {a},
     !.kind = [@ EXCEPT ![a] = "asyncRuntime", ![g] = "anchor",
                        ![b] = "silentBasic", ![h] = "anchor",
                        ![c] = "runtime", ![d] = "basic"],
     !.parent = [@ EXCEPT ![g] = a, ![b] = g, ![h] = g, ![c] = g, ![d] = h],
     !.graph = [@ EXCEPT ![g] = {c}, ![h] = {d}],
     !.body = [@ EXCEPT ![a] = <<Do("open", g), Do("spawn", b), Do("run", g),
                                 Do("stop", g), Do("corun", h),
                                 Do("throw", a)>>,
                        ![d] = <<Do("throw", d)>>]]

\* A module with two rounds of a runtime node, a subflow node and a
\* placeholder, and a callback that throws.
Module ==
  [Empty EXCEPT
     !.roots = {a}, !.stoppable = {a},
     !.kind = [@ EXCEPT ![a] = "asyncModule", ![b] = "runtime",
                        ![c] = "subflow", ![d] = "basic", ![e] = "silentBasic"],
     !.parent = [@ EXCEPT ![b] = a, ![c] = a, ![d] = c, ![e] = b],
     !.graph = [@ EXCEPT ![a] = {b, c}, ![c] = {d}],
     !.rounds = [@ EXCEPT ![a] = 2],
     !.body = [@ EXCEPT ![a] = <<Do("throw", a)>>,
                        ![b] = <<Do("spawn", e), Do("wait", b)>>,
                        ![c] = <<Do("run", c)>>]]

\* Co-run on a worker, without a parent, and on a client thread; the client's
\* graph has a module in it.
Coruns ==
  [Empty EXCEPT
     !.roots = {a},
     !.kind = [@ EXCEPT ![a] = "silentBasic", ![g] = "anchor",
                        ![b] = "basic", ![c] = "placeholder",
                        ![h] = "clientAnchor", ![d] = "module", ![e] = "basic"],
     !.parent = [@ EXCEPT ![b] = g, ![c] = g, ![d] = h, ![e] = d],
     !.graph = [@ EXCEPT ![g] = {b, c}, ![h] = {d}, ![d] = {e}],
     !.rounds = [@ EXCEPT ![h] = 2, ![d] = 2],
     !.body = [@ EXCEPT ![a] = <<Try("corun", g)>>,
                        ![b] = <<Do("throw", b)>>,
                        ![e] = <<Do("throw", e)>>]]

\* A coroutine on one worker: it forks a task and a coroutine that awaits
\* the user, joins them, and ends with an exception.
Coroutines ==
  [Empty EXCEPT
     !.workers = {k1}, !.roots = {a, d}, !.stoppable = {b},
     !.kind = [@ EXCEPT ![a] = "asyncCoroutine", ![b] = "asyncBasic",
                        ![c] = "silentCoroutine", ![d] = "asyncModule",
                        ![e] = "coroutine", ![g] = "silentCoroutine"],
     !.parent = [@ EXCEPT ![b] = a, ![c] = a, ![e] = d, ![g] = e],
     !.graph = [@ EXCEPT ![d] = {e}],
     !.rounds = [@ EXCEPT ![d] = 1],
     !.body = [@ EXCEPT ![a] = <<Do("fork", b), Do("await", a), Do("fork", c),
                                 Do("join", a), Do("throw", a)>>,
                        ![c] = <<Do("await", c), Do("join", c)>>,
                        ![e] = <<Do("fork", g), Do("join", e)>>,
                        ![g] = <<Do("refuse", g)>>]]

MCScenarios == {Recursion, Groups, LeftGroup, Module, Coruns, Coroutines}
=============================================================================
