------------------------------ MODULE AsyncTasks ------------------------------
(***************************************************************************)
(* Asynchronous tasks with dependencies: AsyncTask::start and              *)
(* Executor::_launch_async, the registration with predecessors, the        *)
(* tear-down and the reference counts                                      *)
(* (src/taskflowlite/core/async_task.hpp, async_future.hpp, executor.hpp,  *)
(* topology.hpp, work.hpp).                                                *)
(*                                                                         *)
(* The control word of a task's Topology is split into status, locked and  *)
(* refs; a compare-exchange on it that fails only because another field    *)
(* has changed is tried again, so its success is one step.  m_edges holds  *)
(* the successors, m_num_successors of them, and then the predecessors.    *)
(* What becomes of a ready task, and the number of topologies, which       *)
(* nothing here reads, is in Scheduler.                                    *)
(***************************************************************************)
EXTENDS Counting, SequencesExt

CONSTANTS
  Tasks,
  Clients,    \* threads that hold futures
  Workers,
  Nil,
  MaxDeps,    \* bound: dependencies of one task
  MaxFutures  \* bound: futures held at a time

ASSUME AsyncAssumption ==
  Nil \notin Tasks /\ Clients \cap Workers = {} /\ {MaxDeps, MaxFutures} \subseteq Nat

Threads == Clients \cup Workers

VARIABLES
  status,     \* "Idle", "Running" or "Finished"
  locked,     \* the LOCKED bit
  refs,       \* the use count
  join,       \* m_join_counter
  m_edges,
  m_num_successors,
  life,       \* "none", "live" or "freed"
  handles,    \* the tasks a client holds a future of
  queue,      \* how often a task is in the executor's queues
  at,         \* what each thread does
  needs       \* history: the dependencies a task was started with

control == <<status, locked, refs>>
edgeVars == <<m_edges, m_num_successors>>
vars == <<control, join, edgeVars, life, handles, queue, at, needs>>

Idle == [pc |-> "idle", task |-> Nil, todo |-> <<>>, pending |-> <<>>, next |-> 0,
         cache |-> Nil]
Resumed(t) == IF t = Nil THEN Idle ELSE [Idle EXCEPT !.pc = "body", !.task = t]

Init ==
  /\ status = [t \in Tasks |-> "Idle"]
  /\ locked = [t \in Tasks |-> FALSE]
  /\ refs = [t \in Tasks |-> 0]
  /\ join = [t \in Tasks |-> 0]
  /\ m_edges = [t \in Tasks |-> <<>>]
  /\ m_num_successors = [t \in Tasks |-> 0]
  /\ life = [t \in Tasks |-> "none"]
  /\ handles = [c \in Clients |-> {}]
  /\ queue = [t \in Tasks |-> 0]
  /\ at = [x \in Threads |-> Idle]
  /\ needs = [t \in Tasks |-> {}]

-----------------------------------------------------------------------------
Goto(x, from, to) ==
  /\ at[x].pc = from
  /\ at' = [at EXCEPT ![x].pc = to]

Count(s, t) == Cardinality(Indices(s, t))

\* The futures of client c, the one that is about to be returned included.
Held(c) == handles[c] \cup (IF at[c].pc \in {"link", "append"} THEN {at[c].task} ELSE {})

FuturesHeld == Cardinality(Family([c \in Clients |-> Held(c)], Clients))

\* Lists of dependencies with handles in H; one may be named twice.
DepLists(H) == UNION {[1..n -> H] : n \in 0..MaxDeps}

\* One more reference for each mention of a task in D.
Retained(r, D) == [t \in Tasks |-> r[t] + Count(D, t)]

\* Mutant: nothing keeps the task from starting while it is registered.
Unguarded(D) == Len(D)

\* The join counter of a task with dependencies D: one for each, and one that
\* keeps it from starting while it is being registered.
Guarded(D) == IF D = <<>> THEN 0 ELSE Len(D) + 1

-----------------------------------------------------------------------------
(* Futures.                                                                *)

MakeAsyncTask(t) ==
  /\ life[t] = "none"
  /\ life' = [life EXCEPT ![t] = "live"]

\* Client c gets the first future of t, which nobody has started.
GetDeferred(c, t) ==
  /\ at[c].pc = "idle" /\ FuturesHeld < MaxFutures
  /\ MakeAsyncTask(t)
  /\ refs' = [refs EXCEPT ![t] = 1]
  /\ handles' = [handles EXCEPT ![c] = @ \cup {t}]
  /\ UNCHANGED <<status, locked, join, edgeVars, queue, at, needs>>

\* defer_async copies a callable, defer_async_object constructs one in place.
Defer(c) == \E t \in Tasks : GetDeferred(c, t)
DeferObject(c) == \E t \in Tasks : GetDeferred(c, t)

\* A future is copied from one that somebody holds.
Copy(c) ==
  /\ at[c].pc = "idle" /\ FuturesHeld < MaxFutures
  /\ \E d \in Clients : \E t \in handles[d] \ handles[c] :
       /\ refs' = [refs EXCEPT ![t] = @ + 1]
       /\ handles' = [handles EXCEPT ![c] = @ \cup {t}]
  /\ UNCHANGED <<status, locked, join, edgeVars, life, queue, at, needs>>

\* What thread x does with these predecessors to release and these tasks to
\* destroy; when there are none it returns, a worker to the task in its cache.
Destroying(x, todo, pending) ==
  LET stage == IF todo # <<>> THEN "unlink" ELSE "destroy" IN
  at' = [at EXCEPT ![x] =
           IF todo = <<>> /\ pending = <<>> THEN Resumed(at[x].cache)
           ELSE [Idle EXCEPT !.pc = stage, !.todo = todo, !.pending = pending,
                             !.cache = at[x].cache]]

\* Give back one reference of t; who takes the last one destroys the task.
Release(x, t) ==
  /\ refs' = [refs EXCEPT ![t] = @ - 1]
  /\ Destroying(x, <<>>, IF refs[t] = 1 THEN <<t>> ELSE <<>>)

Drop(c) ==
  /\ at[c].pc = "idle"
  /\ \E t \in handles[c] :
       /\ handles' = [handles EXCEPT ![c] = @ \ {t}]
       /\ Release(c, t)
  /\ UNCHANGED <<status, locked, join, edgeVars, life, queue, needs>>

\* wait and get block on the control word they have read.
Wait(c) ==
  /\ at[c].pc = "idle"
  /\ \E t \in handles[c] :
       /\ status[t] # "Finished"
       /\ at' = [at EXCEPT ![c].pc = "blocked", ![c].task = t]
  /\ UNCHANGED <<control, join, edgeVars, life, handles, queue, needs>>

-----------------------------------------------------------------------------
(* Starting a task.                                                        *)

Started(D) == \A i \in DOMAIN D : status[D[i]] # "Idle"

\* _launch_async: create a task and start it; nobody else knows it yet.  A
\* dependency that was not started makes the call throw, and changes nothing.
Launch(c) ==
  /\ at[c].pc = "idle" /\ FuturesHeld < MaxFutures
  /\ \E t \in Tasks : \E D \in DepLists(handles[c]) :
       /\ life[t] = "none" /\ Started(D)
       /\ life' = [life EXCEPT ![t] = "live"]
       /\ refs' = [Retained(refs, D) EXCEPT ![t] = 2]
       /\ m_edges' = [m_edges EXCEPT ![t] = D]
       /\ status' = [status EXCEPT ![t] = "Running"]
       /\ join' = [join EXCEPT ![t] = Guarded(D)]
       /\ needs' = [needs EXCEPT ![t] = Range(D)]
       /\ at' = [at EXCEPT ![c].pc = "link", ![c].task = t, ![c].todo = D]
  /\ UNCHANGED <<locked, m_num_successors, handles, queue>>

\* AsyncTask::start: check the task and its dependencies, or throw.
Start(c) ==
  /\ at[c].pc = "idle"
  /\ \E t \in handles[c] : \E D \in DepLists(handles[c] \ {t}) :
       /\ status[t] = "Idle" /\ Started(D)
       /\ at' = [at EXCEPT ![c].pc = "lock", ![c].task = t, ![c].todo = D]
  /\ UNCHANGED <<control, join, edgeVars, life, handles, queue, needs>>

\* Of several threads that start a task one gets its lock; the others throw
\* once it is started.
StartLock(c) ==
  LET t == at[c].task IN
  /\ at[c].pc = "lock"
  /\ \/ /\ status[t] # "Idle"
        /\ at' = [at EXCEPT ![c] = Idle]
        /\ UNCHANGED locked
     \/ /\ status[t] = "Idle" /\ ~locked[t]
        /\ locked' = [locked EXCEPT ![t] = TRUE]
        /\ Goto(c, "lock", "prepare")
  /\ UNCHANGED <<status, refs, join, edgeVars, life, handles, queue, needs>>

\* Mutant: the predecessors are stored, not retained.
StartPrepareBorrows(c) ==
  LET t == at[c].task
      D == at[c].todo IN
  /\ Goto(c, "prepare", "unlock")
  /\ m_edges' = [m_edges EXCEPT ![t] = D]
  /\ refs' = [refs EXCEPT ![t] = @ + 1]
  /\ join' = [join EXCEPT ![t] = Guarded(D)]
  /\ status' = [status EXCEPT ![t] = "Running"]
  /\ needs' = [needs EXCEPT ![t] = Range(D)]
  /\ UNCHANGED <<locked, m_num_successors, life, handles, queue>>

\* Store and retain the predecessors, take the reference of the execution, and
\* publish the task as running.  Until the unlock nobody looks at its edges.
StartPrepare(c) ==
  LET t == at[c].task
      D == at[c].todo IN
  /\ Goto(c, "prepare", "unlock")
  /\ m_edges' = [m_edges EXCEPT ![t] = D]
  /\ refs' = [Retained(refs, D) EXCEPT ![t] = @ + 1]
  /\ join' = [join EXCEPT ![t] = Guarded(D)]
  /\ status' = [status EXCEPT ![t] = "Running"]
  /\ needs' = [needs EXCEPT ![t] = Range(D)]
  /\ UNCHANGED <<locked, m_num_successors, life, handles, queue>>

StartUnlock(c) ==
  /\ Goto(c, "unlock", "link")
  /\ locked' = [locked EXCEPT ![at[c].task] = FALSE]
  /\ UNCHANGED <<status, refs, join, edgeVars, life, handles, queue, needs>>

\* _link_predecessors, one predecessor after the other.
NextPredecessor(c) ==
  at' = [at EXCEPT ![c].pc = "link", ![c].todo = Tail(@)]

\* One that has finished is counted off at once.
LinkFinished(c) ==
  /\ at[c].pc = "link" /\ at[c].todo # <<>>
  /\ status[Head(at[c].todo)] = "Finished"
  /\ join' = [join EXCEPT ![at[c].task] = @ - 1]
  /\ NextPredecessor(c)
  /\ UNCHANGED <<control, edgeVars, life, handles, queue, needs>>

LinkLock(c) ==
  LET d == Head(at[c].todo) IN
  /\ at[c].todo # <<>>
  /\ Goto(c, "link", "append")
  /\ status[d] # "Finished" /\ ~locked[d]
  /\ locked' = [locked EXCEPT ![d] = TRUE]
  /\ UNCHANGED <<status, refs, join, edgeVars, life, handles, queue, needs>>

\* The successor goes to the end, and changes places with the first
\* predecessor.
Registered(s, n, t) ==
  LET e == Append(s, t) IN [e EXCEPT ![n + 1] = t, ![Len(e)] = e[n + 1]]

\* Append under the lock, and unlock.
LinkAppend(c) ==
  LET d == Head(at[c].todo) IN
  /\ at[c].pc = "append"
  /\ m_edges' = [m_edges EXCEPT ![d] = Registered(@, m_num_successors[d], at[c].task)]
  /\ m_num_successors' = [m_num_successors EXCEPT ![d] = @ + 1]
  /\ locked' = [locked EXCEPT ![d] = FALSE]
  /\ NextPredecessor(c)
  /\ UNCHANGED <<status, refs, join, life, handles, queue, needs>>

\* Whoever takes the join counter to zero schedules the task.  The future that
\* _launch_async returns exists from here on.
Submit(c) ==
  LET t == at[c].task IN
  /\ at[c].pc = "link" /\ at[c].todo = <<>>
  /\ join' = [join EXCEPT ![t] = IF needs[t] = {} THEN @ ELSE @ - 1]
  /\ queue' = [queue EXCEPT ![t] = IF join'[t] = 0 THEN @ + 1 ELSE @]
  /\ handles' = [handles EXCEPT ![c] = @ \cup {t}]
  /\ at' = [at EXCEPT ![c] = Idle]
  /\ UNCHANGED <<control, edgeVars, life, needs>>

-----------------------------------------------------------------------------
(* Running a task, and its end: _tear_down_async_task.                     *)

Take(w) ==
  /\ at[w].pc = "idle"
  /\ \E t \in Tasks :
       /\ queue[t] > 0
       /\ queue' = [queue EXCEPT ![t] = @ - 1]
       /\ at' = [at EXCEPT ![w] = Resumed(t)]
  /\ UNCHANGED <<control, join, edgeVars, life, handles, needs>>

\* Mutant: a registration that holds the lock is not waited for.
FinishLocked(w) ==
  LET t == at[w].task IN
  /\ Goto(w, "body", "notify")
  /\ status' = [status EXCEPT ![t] = "Finished"]
  /\ UNCHANGED <<locked, refs, join, edgeVars, life, handles, queue, needs>>

\* The body has returned.  From here on nobody registers with the task.
Finish(w) ==
  LET t == at[w].task IN
  /\ Goto(w, "body", "notify")
  /\ ~locked[t]
  /\ status' = [status EXCEPT ![t] = "Finished"]
  /\ UNCHANGED <<locked, refs, join, edgeVars, life, handles, queue, needs>>

\* Mutant: nobody is notified.
NotifyNobody(w) ==
  /\ at[w].pc = "notify"
  /\ at' = [at EXCEPT ![w].pc = "successors", ![w].next = 1]
  /\ UNCHANGED <<control, join, edgeVars, life, handles, queue, needs>>

\* Wake the threads blocked on the control word.
NotifyAll(w) ==
  LET woken == {c \in Clients : at[c].pc = "blocked" /\ at[c].task = at[w].task} IN
  /\ at[w].pc = "notify"
  /\ at' = [x \in Threads |->
              IF x = w THEN [at[w] EXCEPT !.pc = "successors", !.next = 1]
              ELSE IF x \in woken THEN Idle ELSE at[x]]
  /\ UNCHANGED <<control, join, edgeVars, life, handles, queue, needs>>

\* The first successor that becomes ready stays with this worker.
ReachSuccessor(w) ==
  LET s == m_edges[at[w].task][at[w].next]
      isReady == join[s] = 1
      keep == isReady /\ at[w].cache = Nil IN
  /\ at[w].pc = "successors" /\ at[w].next <= m_num_successors[at[w].task]
  /\ join' = [join EXCEPT ![s] = @ - 1]
  /\ queue' = [queue EXCEPT ![s] = IF isReady /\ ~keep THEN @ + 1 ELSE @]
  /\ at' = [at EXCEPT ![w].next = @ + 1, ![w].cache = IF keep THEN s ELSE @]
  /\ UNCHANGED <<control, edgeVars, life, handles, needs>>

ReleaseExecution(w) ==
  /\ at[w].pc = "successors" /\ at[w].next > m_num_successors[at[w].task]
  /\ Release(w, at[w].task)
  /\ UNCHANGED <<status, locked, join, edgeVars, life, handles, queue, needs>>

-----------------------------------------------------------------------------
(* _destroy_async.  pending is the chain through m_parent.                 *)

\* Mutant: the whole edge array is taken for predecessors.
EdgesOf(t) == m_edges[t]

Predecessors(t) == SubSeq(m_edges[t], m_num_successors[t] + 1, Len(m_edges[t]))
Successors(t) == SubSeq(m_edges[t], 1, m_num_successors[t])

\* Destroy a task; its predecessors are retained until it is gone.
Destroy(x) ==
  LET t == Head(at[x].pending) IN
  /\ at[x].pc = "destroy"
  /\ life' = [life EXCEPT ![t] = "freed"]
  /\ m_edges' = [m_edges EXCEPT ![t] = <<>>]
  /\ m_num_successors' = [m_num_successors EXCEPT ![t] = 0]
  /\ Destroying(x, Predecessors(t), Tail(at[x].pending))
  /\ UNCHANGED <<control, join, handles, queue, needs>>

\* Release its predecessors, last one first; one that nobody else retains is
\* destroyed next.
ReleasePredecessor(x) ==
  LET d == Last(at[x].todo) IN
  /\ at[x].pc = "unlink"
  /\ refs' = [refs EXCEPT ![d] = @ - 1]
  /\ Destroying(x, Front(at[x].todo),
                IF refs[d] = 1 THEN <<d>> \o at[x].pending ELSE at[x].pending)
  /\ UNCHANGED <<status, locked, join, edgeVars, life, handles, queue, needs>>

-----------------------------------------------------------------------------
ClientRuns(c) ==
  \/ StartLock(c) \/ StartPrepare(c) \/ StartUnlock(c)
  \/ LinkFinished(c) \/ LinkLock(c) \/ LinkAppend(c) \/ Submit(c)

WorkerRuns(w) ==
  \/ Take(w) \/ Finish(w) \/ NotifyAll(w) \/ ReachSuccessor(w) \/ ReleaseExecution(w)

Destroys(x) == Destroy(x) \/ ReleasePredecessor(x)

Next ==
  \/ \E c \in Clients :
       Defer(c) \/ DeferObject(c) \/ Copy(c) \/ Drop(c) \/ Wait(c) \/ Launch(c) \/ Start(c) \/ ClientRuns(c)
  \/ \E w \in Workers : WorkerRuns(w)
  \/ \E x \in Threads : Destroys(x)

Spec == Init /\ [][Next]_vars

-----------------------------------------------------------------------------
(* Properties.                                                             *)

ThreadStates ==
  [pc : {"idle", "blocked", "lock", "prepare", "unlock", "link", "append", "body", "notify",
         "successors", "destroy", "unlink"},
   task : Tasks \cup {Nil}, todo : Seq(Tasks), pending : Seq(Tasks), next : Nat,
   cache : Tasks \cup {Nil}]

TypeOK ==
  /\ status \in [Tasks -> {"Idle", "Running", "Finished"}]
  /\ locked \in [Tasks -> BOOLEAN]
  /\ refs \in [Tasks -> Nat]
  /\ join \in [Tasks -> Nat]
  /\ m_edges \in [Tasks -> Seq(Tasks)]
  /\ m_num_successors \in [Tasks -> Nat]
  /\ \A t \in Tasks : m_num_successors[t] <= Len(m_edges[t])
  /\ life \in [Tasks -> {"none", "live", "freed"}]
  /\ handles \in [Clients -> SUBSET Tasks]
  /\ queue \in [Tasks -> Nat]
  /\ at \in [Threads -> ThreadStates]
  /\ needs \in [Tasks -> SUBSET Tasks]

Live == {t \in Tasks : life[t] = "live"}

\* The tasks whose memory the next steps of a thread access.
Accessed(x) ==
  LET it == at[x] IN
  UNION {
    IF it.pc \notin {"idle", "destroy", "unlink"} THEN {it.task} ELSE {},
    {it.cache} \ {Nil},
    Range(it.todo), Range(it.pending)}

\* No task is freed while somebody can still reach it: a future, a thread in
\* the middle of an operation, a queue, an unfinished predecessor or a task
\* that depends on it.
NoUseAfterFree ==
  /\ \A x \in Threads : Accessed(x) \subseteq Live
  /\ \A c \in Clients : handles[c] \subseteq Live
  /\ \A t \in Tasks : queue[t] > 0 => t \in Live
  /\ \A t \in Live :
       /\ Range(Predecessors(t)) \subseteq Live
       /\ status[t] # "Finished" => Range(m_edges[t]) \subseteq Live

\* The execution of a task holds a reference from its start until the end of
\* the tear-down.
Executing(t) ==
  \/ status[t] = "Running"
  \/ \E w \in Workers : at[w].pc \in {"notify", "successors"} /\ at[w].task = t

Futures(t) == Total([c \in Clients |-> IF t \in Held(c) THEN 1 ELSE 0], Clients)

\* Mentions of t among the predecessors of live tasks, and of tasks just
\* destroyed.
Retainers(t) ==
  Occurrences([u \in Tasks |-> Predecessors(u)], Tasks, t)
    + Occurrences([x \in Threads |-> IF at[x].pc = "unlink" THEN at[x].todo ELSE <<>>], Threads, t)

\* Threads that are about to destroy t.
Destroyers(t) == Occurrences([x \in Threads |-> at[x].pending], Threads, t)

\* The types; and the use count is exact: a reference for each future, for the execution and
\* for each task that depends on it.  A task without references is being
\* destroyed by exactly one thread.
RefsExact ==
  /\ TypeOK
  /\ \A t \in Live :
    /\ refs[t] = Futures(t) + Retainers(t) + (IF Executing(t) THEN 1 ELSE 0)
    /\ Destroyers(t) = (IF refs[t] = 0 THEN 1 ELSE 0)

Starts(x, t) == at[x].task = t /\ at[x].pc \in {"unlock", "link", "append"}

\* The successors that the tear-down of a task has still to reach.
ToReach(x) ==
  LET t == at[x].task IN
  CASE at[x].pc = "notify" -> Successors(t)
    [] at[x].pc = "successors" -> SubSeq(m_edges[t], at[x].next, m_num_successors[t])
    [] OTHER -> <<>>

\* Arrivals that t has to expect: one from each predecessor that its starter
\* has not come to, or that has it among the successors still to reach, and
\* the starter's own.
Expected(t) ==
  Total([x \in Threads |-> IF Starts(x, t) THEN Len(at[x].todo) + 1 ELSE 0], Threads)
    + Occurrences([d \in Tasks |-> IF status[d] = "Running" THEN Successors(d) ELSE <<>>], Tasks, t)
    + Occurrences([x \in Threads |-> ToReach(x)], Threads, t)

Cached(t) == Total([x \in Threads |-> IF at[x].cache = t THEN 1 ELSE 0], Threads)
InBody(t) ==
  Total([x \in Threads |-> IF at[x].pc = "body" /\ at[x].task = t THEN 1 ELSE 0], Threads)

\* No arrival is lost or counted twice: a started task with dependencies has
\* as many to expect as its join counter says, and once there are none it is
\* in a queue, in a cache or running, in one of them.  So nothing that was
\* started is left behind.
ArrivalsExact ==
  \A t \in Tasks : status[t] = "Running" =>
    /\ needs[t] # {} => join[t] = Expected(t)
    /\ queue[t] + Cached(t) + InBody(t) =
         IF join[t] = 0 /\ \A x \in Threads : ~Starts(x, t) THEN 1 ELSE 0

\* A thread blocked on a task that has finished has its wake-up on the way.
WaiterNotified ==
  \A c \in Clients : at[c].pc = "blocked" /\ status[at[c].task] = "Finished" =>
    \E w \in Workers : at[w].pc = "notify" /\ at[w].task = at[c].task

Dependent == INSTANCE DependentTasks WITH bodies <- [t \in Tasks |-> InBody(t)]

\* A task is started once and runs once, after all it depends on: whether a
\* predecessor finishes before, during or after the registration, its arrival
\* is counted exactly once.
ImplementsDependentTasks == Dependent!DTSpec

=============================================================================
