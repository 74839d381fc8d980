# TLA+ models of TaskflowLite

TaskflowLite (`src/taskflowlite`) is a header-only C++23 library that runs task
graphs on a pool of work-stealing threads. This directory holds TLA+ models of
it, the TLC configurations that check them and proofs for TLAPS. Every
definition is translated from the source; `PROJECT.json` (`map`) names the lines
each one stands for, and `PROJECT.json` (`components`) the status of each part.

## 1. Inventory

Paths are relative to `src/taskflowlite/core/`.

| Component | State | Operations | What it must do |
|---|---|---|---|
| **Notifier** `notifier.hpp` | one 64-bit word: epoch, number of ticket holders, top of the stack of sleepers; per waiter a link, a state, a ticket | `prepare_wait`, `commit_wait`, `cancel_wait`, `notify_one/all/n` | no sleeper out of reach of a notification; tickets settle in order; a `Waiter` is not reused while somebody still follows its link |
| **BoundedQueue** `bounded_queue.hpp` | ring buffer, `m_top`, `m_bottom` | `push` (one, several with an overflow callback), `pop` by the owner; `steal` by everybody | each task comes out once, in deque order; `pop` gives up only on an empty queue |
| **SharedWorkStack** `shared_work_stack.hpp` | incoming chain, current chain, one word: size and lock bit | three `push` overloads, `steal`, `empty` | one consumer at a time; no Work lost or doubled; an honest `empty` |
| **Executor, scheduling** `executor.hpp`, `worker.hpp` | a queue per worker, shared stacks, the notifier, `m_num_topologies`, terminate flags | `_schedule`, `_push_shared`, the worker loop `_spawn`, `_wait_for_work`, `wait_for_all`, `_shutdown` | no Work left with everybody asleep; every submission completes; shutdown abandons nothing |
| **Executor, graphs** `executor.hpp`, `work_invokers.hpp` | a join counter per node, a counter of active nodes (slots) in the parent | `_set_up_graph`, `_reset_graph_join_counters`, `_invoke`, the `_tear_down_*`, `_schedule_parent` | a node runs once per complete set of arrivals or jump; the parent resumes when nothing of it is active, and then only once |
| **Invokers** `work_invokers.hpp`, `work_factory.hpp` | the class of a Work | one `invoke` per class: placeholder, basic, branch, jump, runtime, subflow, module, coroutine; as a node, a silent task, a task with a future, a deferred task | the classes differ in few points and share one protocol |
| **Runtime, SubFlow, TaskGroup, co-run** `runtime.hpp`, `subflow.hpp`, `task_group.hpp`, `executor.hpp` | children counted on the join counter of a running Work or of an anchor on its stack | `silent_async`, `async`, `run`, `corun`, `wait`, `wait_until`, `request_stop`, constructor and destructor of a group | nobody outlives what it needs; a wait ends after all it waits for; waiting workers go on working |
| **Coroutines** `coro*.hpp`, `work_invokers.hpp` | a frame, a forked child to run next, a join counter | `co_await` of a fork, a join, an operation of the user; resume by token; the end | a suspended coroutine resumes once; it is torn down after its children |
| **Exceptions** `work.hpp`, `exception.hpp`, `scoped_exception_anchor.hpp` | EXCEPTION bits, one archive slot per Work or topology, anchors | `_process_exception`, `_rethrow_exception` | one exception wins the archive; a failed node reaches nobody; the wait above it reports it |
| **Topology** `topology.hpp` | control word: status, LOCKED, STOP_REQUESTED, ...; join and reference counts | `_request_stop`, `_wait`, `_set_finished`, `_increment_ref` | waiters return once it is finished; a stop request reaches everything below |
| **Semaphore** `semaphore.hpp`, `work.hpp` | value, maximum, lock, chain of waiting Works | `_try_acquire_semaphores`, `_release_semaphores`, `reset` | all or nothing; no waiter left behind by a release; value within 0..max |
| **Async tasks** `executor.hpp`, `async_future.hpp`, `async_task.hpp` | a topology with a Work, edges to dependents, references | `defer_async`, `start`, `_launch_async`, `_link_predecessors`, `_tear_down_async_task`, `_destroy_async`, `wait` | a task starts after its last dependency; freed once, by its last user |
| **Graph building** `flow_builder.hpp`, `flow.hpp`, `task.hpp`, `graph.hpp` | a list of Works per graph; per Work a type, edges, requests | `emplace`, `erase`, `clear`, moves, `precede`, `succeed`, `linearize`, `remove_*`, `clear_*`, `work`, `acquire`, `release` | one owner per Work, whatever throws; symmetric edges; no cycle without a jump |
| **Work, edges** `work.hpp` | partitioned edge array: successors, then predecessors; sorted requests | `_precede` with its rollback, `_remove_*`, `_clear_*`, `_can_precede`, `_acquire`, `_release` | both ends of an edge agree; the search is exact |
| **Selections** `branch.hpp`, `jump.hpp` | the targets a callable has chosen | `select`, `unselect`, `select_if`, `select_all`, `reset`, subscripts | successors only, each once |
| **ObjectPool** `object_pool.hpp`, `work_storage.hpp` | per bucket a tagged lock-free stack of free blocks, a mutex, slabs | `create`, `destroy` | a block has one owner |
| **SmallVector** `small_vector.hpp` | inline cells or a heap block, size, capacity | construction, assignment, insertion, erasure, growth, swap | elements and blocks freed once, also when a copy, a move or an allocation throws; the promised guarantee |
| **SpinMutex**, **random**, **observers**, **D2 rendering**, traits | | | see section 8 |

**Interaction.** A client thread builds graphs; their Works come from the pool
that all threads share, and destroying a graph gives them back. It counts a
topology and pushes its Work on a shared stack; a worker pushes on its own queue
and, when that is full, on a shared stack; both then notify. A worker pops from
its own queue until it is empty, steals from the others, and after enough
failures draws a ticket of the notifier, looks at every queue again and sleeps.
A Work that ends decrements the join counters of its successors, keeps the first
one that became ready (the cache) and publishes the others; a Work that makes
nothing ready returns a slot to its parent, and the last slot resumes the parent
or ends the topology. A callable may start tasks of its own: each takes a slot
of the Work it is started under, and a wait inside the callable makes its worker
take other Works on the same stack until the counter is back. An exception goes
up the parents to the nearest anchor, a stop request comes down from any
topology above. When `m_num_topologies` reaches zero `wait_for_all`, and with it
the destructor, goes on. Semaphores and asynchronous dependencies feed the same
`_schedule`.

**Hard behaviours**: the window between looking at the queues and going to
sleep; relaxed accesses and one fence in the queue; counters decremented by
several workers, of which one must see the last step; counters that branches,
jumps, exceptions and stop requests leave half way; chains of waiters that are
reused as soon as they are woken; waits on a stack that runs other Works
meanwhile; scopes left by an exception while their tasks run; a stack of free
blocks whose top returns; a step of an edit that fails after others have
changed both ends; shutdown against workers about to sleep. `PROJECT.json`
(`hazards`) lists them by line with the properties that cover them.

## 2. Modules

    EventCount      <--implements-- Notifier        <-- NotifierProofs
        ^ used by                                   NotifierRelaxed
    Scheduler       <-- SchedulerProofs
    WorkDeque       <--implements-- BoundedQueue    <-- SchedulerProofs
    SharedWorkStack <-- SchedulerProofs
    GraphRounds     <--implements-- GraphRun        <-- GraphRunProofs
    StructuredTasks <--implements-- Dynamic
    DependentTasks  <--implements-- AsyncTasks      <-- AsyncTasksProofs
    Semaphores      <-- SemaphoresProofs
    Digraph         <--implements-- GraphBuilding   <-- BuildingFacts <-- BuildingProofs
                                    |    |    +----> ObjectPool
                                    |    +---------> WorkEdges --> Invokers
                                    +---instance---> VectorCalls --> SmallVector

`GraphRun` and `Dynamic` extend `Invokers`. `Counting` (sums written as
cardinalities, used by `Notifier`, `Scheduler`, `GraphRun`, `AsyncTasks` and `Semaphores`) and
`SequenceFacts` (lemmas for the proof modules) are libraries.

`EventCount`, `WorkDeque`, `GraphRounds`, `StructuredTasks`, `DependentTasks`
and `Digraph` are abstract specifications: they say what a component promises
and translate no line of code (they are not in `map`). A definition that begins
`Mutant:` in its comment is a plausible bug. No specification uses it:
`PROJECT.json` (`mutants`) tells which definition it replaces, and the property
that then fails. The `MC` modules give the constants of a run their values.

### Notifier
One action per access of the state word or of a waiter's own fields. The word is
a record of epoch, number of ticket holders and top of the stack; the epoch has
`EpochModulus` values, starts at the last one and so wraps at once, and its order is the sign
of a difference (`Distance`) as in the code. `m_state` changes only by
compare-exchange, so each attempt is one step that compares with the value read
earlier; a failure puts the fresh value in the register. A waiter's `next` and `wstate` are written
step by step: linking (`CommitLink`), pushing (`CommitPush`), parking with its
compare-exchange and futex wait (`ParkCas`, `ParkWait`), and, on the other side,
reading the successor, popping, unlinking, signalling and waking. Waking a
blocked waiter is one step with the waiter's return; spurious returns of the
futex lead back to `ParkWait` and change nothing.
Memory is sequentially consistent here except in `NotifierRelaxed`.

### BoundedQueue
The owner has a store buffer (`stores`), drained one store at a time by `Drain`:
this is what the `seq_cst` fence in `pop` is there for, and the mutant without it
takes a task twice. Reads by thieves come from memory, one action for each read and the
compare-exchange. Indices are integers: 64 bits do not overflow. A buffered store
names the index and finds its slot when it drains.

### SharedWorkStack
Chains are sequences. A push first raises the size and later publishes the chain
(two actions, so that a thief can come between); the compare-exchange loop of the push is the
step at which it succeeds. Each access of a thief is an action.

### Scheduler
Composes the worker loop with the event count. A queue, own or shared, is a
sequence of the topologies its Works belong to. `BoundedQueue` and `SharedWorkStack` say
why a steal may be one step; a failed one changes nothing. Own queues are popped
at the back, stolen at the front; a shared stack may hand out any of its Works.
A Work ends by `Continue` (1 to `MaxReady` successors ready) or `Finish`; `Submit` is
the client's or a running task's submission. `main` is the thread that
destroys the executor.

### GraphRun
A graph of nodes with kinds, run in rounds by a module (the predicate loop of
`ModuleInvoker`). What a worker does is `at[w]`: the node in hand, the successors still to
reach, the cache and the ready ones not yet published. Each access of a counter
is an action. `tokens`, `forced` and `begun` are history variables that no action reads:
they count arrivals exactly, as `GraphRounds` does, and tell which nodes the round has activated.

### Invokers
`work_invokers.hpp` has one class per kind of Work, and each has an `invoke`
written out in full. Side by side they differ in a few points: what stands
between the first step and the last (`shape`), whether a stop request skips the
Work, whether it asks for Semaphores, how it takes exceptions, whether its
successors count it in their join, how it leaves. These are the fields of a
record, and a class is one record. `GraphRun` and `Dynamic` have the protocol.

### Dynamic
A Work's children are counted on its `m_join_counter`; a Work that children may
outlive holds one slot more, its base slot, while its callable runs. A wait does
not block: the worker runs other Works on top of it. So a worker is a stack of
frames, and a frame is the Work, a program counter, the next deed of its
callable and the scopes it has open. Callables are short programs of deeds:
launch a task (under the Work, in a group, or as a topology of its own), run a
graph, open a group, guard (a `ScopedExceptionAnchor`), wait, co-run, poll a
future, throw, ask to stop, and for coroutines fork, join, await, refuse (the
callable throws before there is a coroutine). `Scenarios` is a set of such
programs, of which `Init` picks one. Closing scopes is part of leaving a callable, with or without an
exception, innermost first; only then is the exception processed.
`ProcessException` is the whole way up: marking the parents as far as the
anchor, choosing the archive, falling back to the thrower's own. The queues are
one set: `WorkDeque` and `Scheduler` say what they promise. `owed` is a history variable.
A coroutine's `co_await` is one action up to the suspension, and
what the invoker does after `handle.resume()` is another (`AfterResume`). An
awaited nested `CoroTask` is part of the body it is awaited in.

### AsyncTasks
The life of asynchronous tasks: created or deferred, started with dependencies,
registered with each of them, torn down, freed. The control word of a task's
topology is split into `status`, `locked` and `refs`: a compare-exchange that fails
because another field has changed is tried again and changes nothing, so its
success is one step, guarded by what the loop checks. `m_edges` is the
partitioned array, successors first. What a thread does is a record: the task in
hand, predecessors still to be registered with, successors still to be reached, tasks to be
destroyed. `needs` is a history variable: the dependencies a task was
started with. `DependentTasks` promises that a task runs once, after all of them.
Memory is `life`: a task is freed when its last reference goes, and
`NoUseAfterFree` says that nobody can still reach it.

### Semaphores
A semaphore is the integer its address is; requests are functions. A Work that
is taken from a queue locks its semaphores one by one in ascending order
(`LockNext`), takes everything or joins the chain of the first that is short
(`TryAcquire`), and unlocks in descending order, the blocker last (`Unlock`). The
release of each semaphore is one step under its lock and hands the whole chain to the worker,
which puts the Works back into the queue one at a time. Works are ready when
the round begins; what makes them ready is `GraphRun`'s subject. The stop
request skips Works before they ask for anything. `granted` is a history variable:
what the client gave a semaphore, initially and by `reset`. `QuotaConserved` is about requests that
give back what they take; for others the precondition of `_release`
(`semaphore.hpp:118`) is the user's to keep.

### ObjectPool
One action per access of a bucket's head or of a link that another thread may
still read: reading the head, reading the top's link, the tagged exchange;
locking the bucket, linking a new slab, putting a chain in front. A block that
comes back goes to the bucket its slab belongs to, whatever bucket is next. A
weak exchange that fails for no reason reads the same head again and changes
nothing. `free` is a history variable, the stacks as sequences; `FreeIsLinked` ties it to the
links in memory.

### WorkEdges, GraphBuilding
`WorkEdges` is `work.hpp` as operators on one record: the partitioned array
with the exchanges that fill holes, the list of requests, the search for a
strict cycle. `GraphBuilding` is the client: its threads edit flows of their own
(the library asks for that) but share the pool. A call that touches its own
graph only is one action up to the next place at which it can throw or the pool
is used. A call of several parts keeps the rest in `op[t].todo` and drops it when a part throws, as the code
does: `precede(a, b, ...)` keeps the edges it has made. The loops of a search and of
`select_all` are recursive functions, those of `_clear_predecessors` and `_clear_successors`
one change of all neighbours, each of which is there once. The search of
`_can_precede` goes one Work at a time. Throwing is a choice at every
allocation, at the copy of a payload and in a constructor. The callable of a selecting
node fills its choice by the calls of its handle (`OneTarget`, `ManyTargets`).

### SmallVector, VectorCalls
`SmallVector` has the cells of every storage: an element, a hollow one that was
moved from, or none. An operator takes a memory and returns the set of its
outcomes, each a memory and whether the call threw: after the first element, the
second, and so on. `Then` and `Catch` compose them. `sound` becomes false when an
element is made over another or used where there is none. `VectorCalls` makes
the calls one after the other, with arguments that may be references into the
vector itself, and says what each one should leave (`contents`).

## 3. Runs

| Run | Instance | Shows | Distinct states |
|---|---|---|---|
| `notifier` | two waiters, one of which comes twice, and two notifiers with a call each; or three waiters and one notifier | `SleepersAccounted`, `TicketsConsecutive`, `WaitersMove`, refinement of `EventCount` | 281 k |
| `notifier_relaxed` | 2 waiters, 1 notifier, late unlink | `RelaxedSuffices` fails: finding 1 | |
| `queue` | 2 slots, 4 tasks, 2 thieves | refinement of `WorkDeque`, `PopFailsOnlyWhenEmpty` | 286 k |
| `stack` | 2 producers, 2 thieves, 3 Works, chains of 1 and 2 | `OnePlace`, `SizeIsHonest`, `PublishedIsStolen` | 2 k |
| `scheduler` | 2 workers with queues of 1, a stack, a client, 2 topologies of up to 4 Works | `NoLostWakeup`, `CountersExact`, `ShutdownIsClean`, `SubmittedCompletes`, `ShutdownEnds` | 173 k |
| `graph_run` | 5 graphs of 4 or 5 nodes, 3 workers, 2 rounds, a thrower, a stop at any time | `ActivationsExact`, refinement of `GraphRounds`, `RunEnds` | 51 k |
| `graph_fork_loop` | a loop node with an edge out of the loop | `EarlyArrivalKept` fails: finding 2 | |
| `async` | 3 tasks, 2 clients, 2 workers, 2 dependencies each, 3 futures | `NoUseAfterFree`, `RefsExact`, `ArrivalsExact`, `WaiterNotified`, refinement of `DependentTasks` | 280 k |
| `semaphores` | 2 semaphores, 3 Works, 3 workers; crossing, counting and event requests | `WaiterIsShort`, `OnePlace`, `QuotaConserved`, `WorkEnds` | 92 k |
| `dynamic` | 6 programs of up to 7 Works on 2 workers | `ScopesHold`, `ExceptionIsKept`, `WaitEndsLast`, `EverythingEnds`, refinement of `StructuredTasks`; no deadlock | 36 k |
| `coroutine_unjoined` | a coroutine that forks and ends without a join | `CoroutinesEnd` fails: finding 3 | |
| `building` | 11 plans for two threads, a pool of 2 buckets with slabs of 3 blocks; 24 pairs of vectors with 1 inline cell and 2 calls each | `WorksOwned`, `OneOwner`, `SearchIsExact`, `NoStrictCycle`, `RequestsOrdered`, `ChoiceIsSound`, `VectorsOwned`, `ContentsKept`, refinement of `Digraph` | 181 k |

**Bounds.** Every race on the notifier's word is between one waiter, another and a
notifier; three waiters give chains with an inner element, and `notify_n(2)` that is neither
`notify_one` nor `notify_all`. A queue of two slots is
full, half full and empty, reuses every slot, and with two thieves the last task has three
contenders. A worker queue of one slot makes every second push overflow to
the stack. Of two workers one runs, or is about to sleep, while the other sleeps; the proof of
`NoLostWakeup` has any number. Two
topologies suffice for `m_num_topologies` to reach zero with another submission
in flight, from a client or from inside a task. Two rounds show a counter left over from the first;
three jumps are a loop that is entered, repeated and left. Three
tasks make a chain, a fork and a join, and a chain that is destroyed link by link;
the third future lets a dependency be shared while another is dropped. Of three
Works on two semaphores each wants what another holds. The six programs of
`MCDynamic` have, between them, every deed: a task that waits for a task that
waits, a group that is used again after it has reported, a group left by an
exception with tasks running, a module of two rounds with a runtime and a
subflow in it, co-runs of a worker and of a client, coroutines. Two workers are
what it takes for a child to end while its parent still runs. Three blocks of a
bucket are enough for a top to leave and come back with another successor
under it; four Works for a cycle with a path beside it; three calls for an edge that is
made, removed and made again. One inline cell instead of four, with sequences of up to three elements, makes
every call grow, move out and move back in. The bounds are `Budgets` (Notifier), `MaxTasks`, `MaxPops`,
`MaxSteals` (BoundedQueue), `MaxBatch` (SharedWorkStack), `MaxReady`, `MaxWorks` (Scheduler), `MaxRounds`,
`MaxJumps` (GraphRun), `MaxDeps`, `MaxFutures` (AsyncTasks), `MaxRounds`
(Semaphores), the bodies and rounds of the programs (Dynamic), the calls of
each plan, the slabs and `MaxLength` (GraphBuilding); each stands in a guard.

**Deadlock** checking is off where the system may really stop: a notifier without
calls left leaves waiters asleep, a queue's owner and thieves are done, a run has ended,
an executor is destroyed or idle with everybody asleep, tasks are done and futures
dropped, a plan's calls are used up. What must not stop is stated as a liveness
property or as `NoLostWakeup`. It is on in `stack`, where thieves try for ever,
and in `dynamic`, where `Quiet` is the one state in which nothing happens: all
workers idle or looking at a condition in vain. `EverythingEnds` says that this comes after all has ended.

**Symmetry** is used in safety runs only, over threads, and tasks, that the
specification treats alike.

**Fairness.** A thread that is in the middle of an operation runs on: weak
fairness per thread and nothing for starting a call, submitting, forking, asking to stop, or shutting
down. In `Semaphores` a lock that is waited for is free again in the end, because
its holder goes on. A task's body ends (its end is a step of its worker). `Steal` needs strong
fairness: a worker looks at random victims, and steps through failed attempts in
between; after a cancelled wait its first victim is the queue it found non-empty
(`executor.hpp:1291-1305`), so it cannot miss for ever. In `Dynamic` a worker
goes on when it can, which is what the scheduler's properties give, and
a client comes back for its result or with its token: `EverythingEnds` is about
programs whose user does resume what was suspended.

## 4. Findings

1. **Relaxed unlink** (`notifier.hpp:449, 538`). The pop clears `w->next` with a
   relaxed store and then releases the waiter with a relaxed exchange; the
   waiter sees the exchange with a relaxed load and may push itself again,
   writing the same field. Nothing orders the two stores, although the comment at
   589-590 says no acquire or release is needed. `NotifierRelaxed` lets the
   store take effect late: the stack is cut below the waiter. On x86 the exchange is a full
   barrier and the store cannot be late; a weakly ordered machine, or the
   compiler, may.
2. **Early arrivals** (`executor.hpp:1388-1394`). The comment says that restoring the join
   counter with `fetch_add` keeps arrivals made while the node still runs. The
   count is kept, the activation is not: with one predecessor the early arrival takes the counter
   from 0 to -1, the addition to 0, and no arrival sees 1. It takes a loop one
   of whose nodes has a strong edge out of the loop, so that the target may still run
   when the loop comes round. `graph_run` leaves such graphs out; all of its properties
   hold for the others.
3. **A coroutine that ends before its children** (`work_invokers.hpp:936-939`).
   The comment says that the base slot is given back once and that all children
   are waited for. The invoker gives it back each time it finds the coroutine
   done: the first time with children left (2 to 1), and again when the last child, which took
   the counter to 0, has brought the Work back (0 to -1). The second time it
   returns for ever: no tear-down, and the future never becomes ready. A
   coroutine that joins before its end is not concerned; `dynamic` has those.

Seen while reading, and not shown by a run:
- `_set_up_graph` restores counters of nodes with predecessors only
  (`executor.hpp:1346-1350`): a node
  that lost its last predecessor between two runs keeps the old one. Only a node that counts
  children on it (runtime, subflow, coroutine) would notice.
- A module node that counts its rounds (`flow_builder.hpp:551-559`) and is left by a
  stop or an exception keeps what was left of them: the next run of its graph has
  fewer rounds, or none. `Dynamic` does the same (`CutShort`).
- `README.md:261` counts the targets of a branch in the order of `precede`;
  after `remove_successors` the last one has taken the place of the removed one.
- The guide (`TaskflowLite-Guide.zh-CN.md:497`) says of a callable that it stays usable
  when the construction of its replacement throws; `Work::Payload::emplace` (`work.hpp:317-321`) destroys
  the old one first and leaves the Work without a type, as
  `test/test_core_exception_contracts.cpp:36` says. The model keeps such graphs from being
  connected further (`AllTyped`).
- `Task::work` may turn a jump into a basic node; the cycle it was in is then a
  strict one, and nobody looks (`jumped` in `GraphBuilding`).
- `_clear_predecessors` of a Work that jumps to itself shrinks the array it goes
  through, and reads one cell behind its end, which still has its old content.
- `Task::precede(a, b, ...)` that fails at `b` keeps the edge to `a`.
- A task that co-runs may find on its stack, above it, a task that waits for
  something the frames below have to do; that deadlock is the program's.
- What the tasks of a group throw is lost when nobody calls its `wait`: the
  destructor waits and reports nothing.

## 5. Proofs

Every theorem is about all values of the constants: any number of threads,
tasks, nodes, semaphores, any capacity. Each has an inductive
invariant that was first checked by TLC on the run's instance.

**`NotifierProofs`**: `SleepersAccounted`, `TicketsConsecutive` and the refinement of
`EventCount`, under `NotifierAssumption`. Its one bound is that twice the `prepare_wait` calls of a
behaviour are fewer than the epochs: beyond it the sign of a difference no longer orders two
epochs, which the code excludes by 32 bits. The epoch starts anywhere and may wrap. From

    IInv == Typed /\ Lined /\ Parked /\ Loops /\ Vouched /\ Linked /\ Claimed

`Lined` is the ticket machine: each of the next `pre` turns belongs to one waiter, and no ticket in
use, live or passed over, is so old that the tickets still to be drawn could bring the epoch round to it. `TurnSettles`
and `ReleaseSettles` show that the queue loses its oldest tickets and no others.
`Linked` says that the stack, and the part of it that a notifier is unparking, are
chains along `next` without a repetition that end; `Claimed` that the stack and those parts are
disjoint and hold exactly the sleepers. So a link that is written (by the waiter that is about
to push itself, by the notifier that unlinks) is never one that a chain goes through.
`Vouched` is the argument about the pop: unless a ticket has settled since a notifier loaded the word,
nobody has pushed, and then the top it loaded is either off the stack or still the
top with the link it read. A sleeper that comes back draws and settles a ticket first, so the
epoch tells: `PopFinds` concludes that an exchange that succeeds writes the true successor.
`Chain` is a recursive function on the positions of the stack; `WalkIs` determines it by
induction over them (`IntervalInduction`).

**`SchedulerProofs`**, of the scheduler, under `SchedulerAssumption` (finitely many workers and
topologies, at least one worker and one stack, disjoint names). `NoLostWakeup`:

    IInv == Types /\ OneTicket /\ OwnQueue /\ QuotaLeft /\ ExitOnlyTold /\ NoLostWakeup

`NoLostWakeup` alone is not inductive: that the recheck may skip the own queue rests on
`OwnQueue` (a worker that looks for work has an empty queue); that a
notification gets somebody on rests on `OneTicket` (nobody has two places
among tickets and sleepers) and `QuotaLeft` (a publisher still has one to give);
that a worker has not simply left rests on `ExitOnlyTold`. The interesting steps
are `Notify` (whoever it frees will look at all queues) and the
end of a scan (the scanned queues were empty, and whoever filled one since is
still to notify).

`CountersExact` and `ShutdownIsClean`:

    CInv == IInv /\ Held /\ CounterTypes /\ LiveHolds /\ PartsFinite
            /\ SlotsConserved /\ TopologiesCounted /\ AllDone

The slots of a topology are a sum over queues, workers and publishers; each step
moves a summand (`QueuedPush`, `QueuedTake`, `RunningTake`, `PublishingOne`) or
adds as many slots as Works. `LiveHolds` (a topology lives exactly while it has slots) ties the sum to
`m_num_topologies`. `AllDone` is why the shutdown cannot be overtaken: once the
counter is zero nobody submits, because a client does not and a task's
submission comes from a Work whose topology would still be counted.

**`SchedulerProofs`**, of the queues. The ring buffer implements `WorkDeque`
(`QueueIsDeque`), and `PopFailsOnlyWhenEmpty`, under `QueueAssumption` (the
capacity is a power of two). The invariant is

    QueueIInv == QueueTypes /\ Window /\ StoresInOrder /\ Fresh /\ ThievesAgree

The content of the queue is what the owner sees: memory, overlaid by the stores that
are still buffered. `Window` says that the indices in use fit the ring, so that two of
them never share a slot; the bottom a push compares with may be ahead of memory, the
top behind, and both only cost room. `StoresInOrder` is the argument about the store buffer: while
the store to a slot is buffered, neither `m_bottom` in memory nor an older buffered value of it
is past that slot. So a thief whose top is below `m_bottom` finds the slot in memory, which
keeps `ThievesAgree`: if the top it has read is still the top when it exchanges,
the task it has read is still the first. `Fresh` says that the tasks in the ring are
distinct and not taken, which makes "once" inductive. The fence is used in one
place: at the comparison of `pop` nothing is buffered, so `m_bottom` is the
claim and no later thief can pass it.

The shared work stack, for chains of any length: `StackTypeOK`, `ExclusiveConsumer`, `OnePlace` and
`SizeIsHonest`. They are inductive together: the size counts what the
chains, the pushers and the thief's hand hold, which is a sum of cardinalities only
while a Work is in one place, which needs the lock.

**`SemaphoresProofs`**, for any requests that are natural numbers (`AreRequests`):
`WaiterIsShort` and `StaysInChain` (a Work is not run or destroyed while its requests are still read) from

    IInv == Types /\ WorkInHand /\ LocksHeld /\ WaiterIsShort /\ StaysInChain

`StaysInChain` rests on `LocksHeld`: between the attempt and its last unlock a worker
holds the blocker's lock, and `Release` needs that lock to take the chain.
`OnePlace` and `QuotaConserved` are sums, over queues, chains and hands, and over what the
running Works have taken:

    CInv == IInv /\ Progress /\ HandsFree /\ PlacesFinite /\ PlacesCounted /\ QuotaFinite /\ QuotaCounted

**`GraphRunProofs`**, under `GraphAssumption` (finite graphs without a strict cycle).
For every graph, with jumps, branches, throwers and stops, `SlotsAreConserved`: the
parent's counter is the number of its active nodes, and while one is active the
parent neither starts a round nor ends, from

    SInv == Types /\ NodeInHand /\ Turn /\ Counted

For graphs without jumps (`Jumpless`), `ActivationsExact` and the refinement of `GraphRounds`, from

    JInv == SInv /\ Jumpless(graph) /\ Others /\ HandsFree /\ Once /\ Joined /\ Caused

`Joined` is the heart: the join counter of a node that has not been activated lacks exactly
the predecessors that have arrived, each of which has passed the node and cannot reach it again
in this round; so the last arrival is last, and comes once. Restoring the counter
(`_set_up_graph`, and the addition at a node's start) keeps this because no predecessor of an
active node is still to arrive. With jumps that is false in some graphs (finding
2); the restriction is in the theorem's hypothesis, and the run checks graphs with jumps
where it holds.

**`AsyncTasksProofs`**: `NoUseAfterFree`, `RefsExact`, `ArrivalsExact`,
`WaiterNotified` and the refinement of `DependentTasks`, from

    AInv == TypeOK /\ Stages /\ (\A t : Finite(t)) /\ Sums /\ Linked /\ WaiterNotified

`Stages` says what a task and a thread have at each point (one thread starts a
task, one ends it, a lock has one holder). `Sums` are three: the use count is
the futures, the tasks that depend on it, the releases under way and its own execution; the
join counter is the guard of its start, the unfinished tasks that have it as successor, and
the notifications under way; it is in one queue, cache or body when the counter
is zero. `NoUseAfterFree` follows from the first, since everybody who reaches a task is one of its
summands. `Linked` says that a dependency that has not finished is still to be
registered with or has the task among its successors; it gives the refinement its
guard: a task starts when the counter is zero, hence when all its dependencies have finished.

**`BuildingFacts`**, of the pool: `OneOwner` for any threads, buckets and slabs, under
`PoolAssumption` (no block stands in two slabs or twice in one, no slab is
empty). The invariant is

    PoolIInv == PoolTyped /\ (\A t : Fits(call[t]) /\ Follows(call[t])) /\ FreeIsLinked /\ Partitioned

`Fits` says what a thread holds at each of its steps. `Follows` is the argument
about the tag: if the tag a thread has read is still the tag of the bucket, then
so is the top, and the link the thread has read is still the link of that block. Every
exchange raises the tag, so a step that changes a head makes the premise false
for all who have read before; a step that writes a link writes that of a block that no head reaches.
An exchange that succeeds has therefore read the true
successor, and takes the first block of the chain and nothing else. The tag is a
natural number: `TaggedHead64`, with 16 bits, is right as long as fewer than
65,536 exchanges come between a thread's read and its exchange.

**`BuildingProofs`**: `WorksOwned`, `OneOwner`, `SearchIsExact`, `NoStrictCycle`,
`RequestsOrdered`, `ChoiceIsSound` and the refinement of `Digraph`, under `PoolAssumption` and
`BuildingAssumption` (a flow belongs to one thread, as the library asks; semaphores are
ordered like numbers; the Works a plan begins with are distinct blocks that are in use). From

    IInv == PoolIInv /\ BuildingTyped /\ (\A g : FlowOK(g)) /\ (\A b : BlockOK(b)) /\ (\A t : ThreadOK(t))

The properties hold between calls; within one they rest on what it has still to do. `ThreadOK`
says that: a call is making Works (the one it has made is not in a flow yet), or connecting, or emptying a flow (it has still to
destroy each of its Works, once), or taking the Works of another flow over into the one it has emptied,
or in a callable. `FlowOK` is
the graph: the two sides of each edge agree (`Drawn`: a target of u is a node whose origins
have u, and back) and there is no cycle among Works that never were jumps (`Acyclic`).
`BlockOK` says who answers for the Work in a block. Since flows are not shared, a step of one thread
leaves what another knows alone (`BuildingFacts`).
`BuildingFacts` also has the operators of `WorkEdges`, on arrays of any length: an erasure fills
the hole of a predecessor with the last one, that of a successor with the last successor
and then as before, and in each case the targets and origins are the old ones without that end; a push is
the converse; a clearing takes the Work out of each neighbour's array; an
insertion at the lower bound keeps requests sorted.
A path is stated without sequences: v cannot be reached from u when a set that no edge leaves has
u and not v (`Apart`). `SearchFacts` says of a search that what it has visited is in every
closed set with its start, and that a visited Work off the stack has all its successors visited. So if the
stack is empty the visited Works are a closed set without the target, and the new edge
closes no cycle (`NoStrictCycle`); if the target turns up, no set keeps it out. `Expand` is a recursive
function on the successors; what it does is derived by induction over them (`IntervalInduction`).
The refinement goes action by action: connecting is one edge on both sides, or,
rolled back, none; an erased or cleared Work leaves with its edges; moving a graph and destroying what was
emptied change nothing that the digraph shows.

`SequenceFacts` has the lemmas the proofs share: ranges and injectivity under
append, tail, concatenation and subsequences, and how the counts of `Counting` change
when one owner's sequence or number does. A sum over threads is the cardinality of a set of
pairs there. The library's induction theorems take a predicate as a parameter, which the provers here cannot
instantiate; `IntervalInduction` says the same of a set of numbers, and is
derived from well-founded minima (`LeastNumber`).

## 6. Only model-checked

Liveness (`WaitersMove`, `PublishedIsStolen`, `SubmittedCompletes`, `ShutdownEnds`, `RunEnds`,
`WorkEnds`, `EverythingEnds`), which is beyond the prover. `Dynamic` with the
refinement of `StructuredTasks`: what keeps a scope alive is that its programs are trees of calls, and the
place of a task is a recursion over that tree, whose induction the provers cannot do. `SmallVector`
(`VectorsOwned`, `ContentsKept`), written with folds over the cells of a storage.
Of `GraphRun`, activations in graphs with jumps.

`WorkEnds` has an exception: when one Work returns what another takes, as in
`test/test_semaphore.cpp:126`, a stop request that comes before the first one runs
leaves the other in the chain, and its graph never ends. A stronger statement about
parallelism - that a sleeper means that every queued Work has an awake worker of
its own - is false by design: one worker on its way to sleep may absorb two
notifications, the first by its ticket and the second after it slept.
`ExceptionIsKept` is about anchors: what a silent task throws without one above it
stays with the nearest silent one, and no wait reports it.

## 7. Plan

Built: the notifier, the queues, the scheduler, static graphs, asynchronous
tasks, semaphores, tasks that start tasks, coroutines, graph building, the pool, the small vector.
What could follow, in this order:

1. The control word of a topology as one word: `_set_finished` of a co-run reads
   and stores it, and notifies after the store; its callers order it today.
2. Coroutines on several workers, with the invoker's reads after
   `handle.resume()` (`work_invokers.hpp:926`) as steps of their own.
3. Scheduling into another executor (semaphores shared by two), `reset` to
   other values, a constructor that fails while it spawns its threads.
4. A graph that is edited between two runs: `GraphBuilding` above `GraphRun`.
5. Result slots and the failure of an allocation under `LOCKED`.
6. Proofs: `ScopesHold`, `ExceptionIsKept` and `WaitEndsLast` of `Dynamic`;
   `SmallVector` in a form without folds; activations in graphs with jumps
   whose targets are not active.

## 8. Not modelled

D2 rendering, type traits, macros and the callable storage change no shared
state. Observers and worker handlers are user callbacks. The random generator is
abstracted to any choice of victim. A `SpinMutex` is a lock without its spinning.
Values of results have no slots here: `get` of an `AsyncFuture` waits and reads.

Left out of parts that are modelled: `precede<false>`, which leaves the checks
to its caller, and null handles; names, observers and iteration of tasks; a
`wait_until` with another predicate than a future's readiness; scopes opened
inside coroutines; of `SmallVector`, elements that can only be moved and throw
while they are, `unsafe_set_size`, `max_size`, and the byte-wise relocation (the
case of elements that move without failing). Insertion and assignment inside the capacity
have the basic guarantee only, as the class comment says. A client's `notify_all` after
`_set_finished` is one step with it. The coroutines of `dynamic` run on
one worker: with more, another one may have the Work while the invoker still
reads it, and what happens then is for section 7.
