------------------------------- MODULE Invokers -------------------------------
(***************************************************************************)
(* The kinds of Work (src/taskflowlite/core/work_invokers.hpp).  A kind is *)
(* a class with one invoke function; the functions differ in a few points  *)
(* only, which are the fields of a record here:                            *)
(*                                                                         *)
(*   shape      what stands between the first step and the last:           *)
(*              nothing, one call, a call with a base slot that children   *)
(*              may outlive, a coroutine with such a slot, rounds of a     *)
(*              graph, or the wake-up of a client;                         *)
(*   stoppable  a stop request skips the Work before it has begun;         *)
(*   guarded    it asks for its semaphores and tells its observers;        *)
(*   strong     its successors count it in their join;                     *)
(*   implicit   when it takes exceptions that have no explicit anchor;     *)
(*   explicit   it is an anchor for the exceptions below it;               *)
(*   callback   a user callback follows the last round;                    *)
(*   selects    the successors the callable may choose: all, one or some;  *)
(*   tearDown   how it leaves: as a node of a graph, by destroying itself, *)
(*              as a task with a future, or not at all.                    *)
(***************************************************************************)

\* A node of a static graph.
Node == [shape |-> "call", stoppable |-> TRUE, guarded |-> TRUE,
         strong |-> TRUE, implicit |-> "never", explicit |-> FALSE,
         callback |-> FALSE, selects |-> "all", tearDown |-> "node"]

\* A task of its own whose Work nobody refers to.
SilentAsync == [Node EXCEPT !.stoppable = FALSE, !.guarded = FALSE,
                            !.strong = FALSE, !.implicit = "always",
                            !.tearDown = "silent"]

\* A task with a future.
Async == [SilentAsync EXCEPT !.implicit = "never", !.explicit = TRUE,
                             !.tearDown = "async"]

\* A task whose start is put off until its dependencies are known.
AsyncTask == [Async EXCEPT !.guarded = TRUE]

PlaceholderInvoker == [Node EXCEPT !.shape = "empty", !.stoppable = FALSE,
                                   !.guarded = FALSE]
BasicInvoker       == Node
BranchInvoker      == [Node EXCEPT !.selects = "one"]
MultiBranchInvoker == [Node EXCEPT !.selects = "some"]
JumpInvoker        == [Node EXCEPT !.selects = "one", !.strong = FALSE]
MultiJumpInvoker   == [Node EXCEPT !.selects = "some", !.strong = FALSE]
RuntimeInvoker     == [Node EXCEPT !.shape = "based", !.implicit = "running"]
CoroInvoker        == [Node EXCEPT !.shape = "coroutine",
                                   !.implicit = "running"]
SubFlowInvoker     == [Node EXCEPT !.shape = "based"]
ModuleInvoker      == [Node EXCEPT !.shape = "rounds"]

SilentAsyncBasicInvoker   == SilentAsync
SilentAsyncRuntimeInvoker == [SilentAsync EXCEPT !.shape = "based"]
SilentAsyncCoroInvoker    == [SilentAsync EXCEPT !.shape = "coroutine"]
SilentAsyncSubFlowInvoker == [SilentAsync EXCEPT !.shape = "based"]
SilentAsyncModuleInvoker  == [SilentAsync EXCEPT !.shape = "rounds",
                                                 !.callback = TRUE]

AsyncBasicInvoker   == Async
AsyncRuntimeInvoker == [Async EXCEPT !.shape = "based"]
AsyncCoroInvoker    == [Async EXCEPT !.shape = "coroutine"]
AsyncSubFlowInvoker == [Async EXCEPT !.shape = "based"]
AsyncModuleInvoker  == [Async EXCEPT !.shape = "rounds", !.callback = TRUE]

AsyncTaskBasicInvoker   == AsyncTask
AsyncTaskRuntimeInvoker == [AsyncTask EXCEPT !.shape = "based"]
AsyncTaskCoroInvoker    == [AsyncTask EXCEPT !.shape = "coroutine"]
AsyncTaskSubFlowInvoker == [AsyncTask EXCEPT !.shape = "based"]
AsyncTaskModuleInvoker  == [AsyncTask EXCEPT !.shape = "rounds",
                                             !.callback = TRUE]

\* AnchorWork: a scope on somebody's stack that waits for its children.  A
\* worker looks at the counter itself; a client thread has to be woken.
Anchor       == [Async EXCEPT !.shape = "scope", !.tearDown = "none"]
ClientAnchor == [Anchor EXCEPT !.shape = "client"]

Invoker ==
  [placeholder |-> PlaceholderInvoker, basic |-> BasicInvoker,
   branch |-> BranchInvoker, multiBranch |-> MultiBranchInvoker,
   jump |-> JumpInvoker, multiJump |-> MultiJumpInvoker,
   runtime |-> RuntimeInvoker, coroutine |-> CoroInvoker,
   subflow |-> SubFlowInvoker, module |-> ModuleInvoker,
   silentBasic |-> SilentAsyncBasicInvoker,
   silentRuntime |-> SilentAsyncRuntimeInvoker,
   silentCoroutine |-> SilentAsyncCoroInvoker,
   silentSubflow |-> SilentAsyncSubFlowInvoker,
   silentModule |-> SilentAsyncModuleInvoker,
   asyncBasic |-> AsyncBasicInvoker, asyncRuntime |-> AsyncRuntimeInvoker,
   asyncCoroutine |-> AsyncCoroInvoker, asyncSubflow |-> AsyncSubFlowInvoker,
   asyncModule |-> AsyncModuleInvoker,
   taskBasic |-> AsyncTaskBasicInvoker,
   taskRuntime |-> AsyncTaskRuntimeInvoker,
   taskCoroutine |-> AsyncTaskCoroInvoker,
   taskSubflow |-> AsyncTaskSubFlowInvoker,
   taskModule |-> AsyncTaskModuleInvoker,
   anchor |-> Anchor, clientAnchor |-> ClientAnchor]

Kinds == DOMAIN Invoker
=============================================================================
