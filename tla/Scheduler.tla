------------------------------ MODULE Scheduler ------------------------------
(***************************************************************************)
(* The worker loop of src/taskflowlite/core/executor.hpp: pushing Works,   *)
(* notifying, stealing, the two-phase wait and the shutdown sequence,      *)
(* composed with the event count the Notifier implements.                  *)
(*                                                                         *)
(* A topology is a top-level submission.  It lives while it has slots: a   *)
(* Work in a queue or on a worker occupies one.  A Work that ends hands    *)
(* its slot to its first ready successor (the cache), adds a slot for each *)
(* further one before it publishes them, or gives the slot back.           *)
(*                                                                         *)
(* A queue is a worker's BoundedQueue or one of the SharedWorkStacks; its  *)
(* content is a sequence of the topologies its Works belong to.  A steal   *)
(* that fails, for whatever reason, changes nothing.                       *)
(***************************************************************************)
EXTENDS Counting

CONSTANTS
  Workers,
  Stacks,       \* the shared stacks
  Clients,      \* external threads that submit
  Topologies,
  Nil,
  QueueCap,     \* capacity of a worker's queue
  MaxReady,     \* bound: successors one Work makes ready
  MaxWorks      \* bound: Works of one topology

ASSUME SchedulerAssumption ==
  /\ IsFiniteSet(Workers) /\ Workers # {}
  /\ IsFiniteSet(Topologies)
  /\ Workers \cap Stacks = {} /\ Workers \cap Clients = {} /\ Stacks # {}
  /\ Nil \notin Topologies
  /\ QueueCap \in Nat /\ MaxReady \in Nat /\ MaxWorks \in Nat

Queues == Workers \cup Stacks
Threads == Workers \cup Clients

VARIABLES
  queue,           \* what each queue holds
  tickets, sleepers,   \* the event count
  pc,              \* where each worker and client is
  job,             \* the topology whose Work a worker runs
  out,             \* what a thread is publishing: topology and Works to go
  quota,           \* notifications a thread still has to give
  unscanned,       \* queues a worker has to recheck before it may sleep
  terminate,       \* Worker::m_terminate
  slots,           \* join slots of each topology
  works,           \* Works each topology has had (bound)
  status,          \* "new", "live" or "done"
  num_topologies,  \* m_num_topologies
  main             \* the thread that runs wait_for_all and _shutdown

ecVars == <<tickets, sleepers>>
topoVars == <<slots, works, status>>
vars == <<queue, ecVars, pc, job, out, quota, unscanned, terminate, topoVars,
          num_topologies, main>>

EC == INSTANCE EventCount WITH Waiters <- Workers

Goto(t, from, to) ==
  /\ pc[t] = from
  /\ pc' = [pc EXCEPT ![t] = to]

Nothing == [topology |-> Nil, left |-> 0]

Init ==
  /\ queue = [q \in Queues |-> <<>>]
  /\ EC!ECInit
  /\ pc = [t \in Threads |-> IF t \in Workers THEN "explore" ELSE "idle"]
  /\ job = [w \in Workers |-> Nil]
  /\ out = [t \in Threads |-> Nothing]
  /\ quota = [t \in Threads |-> 0]
  /\ unscanned = [w \in Workers |-> {}]
  /\ terminate = [w \in Workers |-> FALSE]
  /\ slots = [k \in Topologies |-> 0]
  /\ works = [k \in Topologies |-> 0]
  /\ status = [k \in Topologies |-> "new"]
  /\ num_topologies = 0
  /\ main = "idle"

-----------------------------------------------------------------------------
(* Publishing: push, then notify.                                          *)

\* Start to publish n Works of topology k.
Publish(t, from, k, n) ==
  /\ Goto(t, from, "push")
  /\ out' = [out EXCEPT ![t] = [topology |-> k, left |-> n]]
  /\ quota' = [quota EXCEPT ![t] = n]

\* _launch_silent_async: count the topology, then dispatch its Work.  A worker
\* submits from inside the task it runs.
Submit(t) ==
  /\ main = "idle" \/ t \in Workers
  /\ \E k \in Topologies :
       /\ status[k] = "new"
       /\ Publish(t, IF t \in Workers THEN "run" ELSE "idle", k, 1)
       /\ status' = [status EXCEPT ![k] = "live"]
       /\ slots' = [slots EXCEPT ![k] = 1]
       /\ works' = [works EXCEPT ![k] = 1]
  /\ num_topologies' = num_topologies + 1
  /\ UNCHANGED <<queue, ecVars, job, unscanned, terminate, main>>

\* Where thread t may push: a worker to its own queue while there is room, to a
\* shared stack when it overflows; other threads to a shared stack.
Targets(t) ==
  IF t \in Workers /\ Len(queue[t]) < QueueCap THEN {t} ELSE Stacks

Remaining(t) ==
  IF out[t].left = 1 THEN Nothing ELSE [topology |-> out[t].topology, left |-> out[t].left - 1]

Push(t) ==
  /\ Goto(t, "push", IF out[t].left = 1 THEN "notify" ELSE "push")
  /\ \E q \in Targets(t) : queue' = [queue EXCEPT ![q] = Append(@, out[t].topology)]
  /\ out' = [out EXCEPT ![t] = Remaining(t)]
  /\ UNCHANGED <<ecVars, job, quota, unscanned, terminate, topoVars, num_topologies, main>>

\* Mutant: sleepers are left to the next notification.
NotifyTicketsOnly(t) ==
  /\ pc[t] = "notify"
  /\ IF tickets # <<>> THEN EC!ReleaseTickets(quota[t]) ELSE UNCHANGED ecVars
  /\ quota' = [quota EXCEPT ![t] = 0]
  /\ pc' = [pc EXCEPT ![t] = IF t \in Workers THEN "run" ELSE "idle"]
  /\ UNCHANGED <<queue, job, out, unscanned, terminate, topoVars, num_topologies, main>>

\* notify_one is the case n = 1; notify_n gives up when nobody waits, and is
\* notify_all when n reaches the number of waiters the notifier is built for.
Notify(t) ==
  /\ pc[t] = "notify"
  /\ \/ /\ ~EC!AnyWaiter
        /\ UNCHANGED ecVars
        /\ quota' = [quota EXCEPT ![t] = 0]
     \/ /\ quota[t] > 1 /\ quota[t] >= Cardinality(Workers)
        /\ EC!ReleaseAll
        /\ quota' = [quota EXCEPT ![t] = 0]
     \/ /\ quota[t] = 1 \/ quota[t] < Cardinality(Workers)
        /\ EC!ReleaseTickets(quota[t])
        /\ quota' = [quota EXCEPT ![t] =
                       IF @ < Len(tickets) THEN 0 ELSE @ - Len(tickets)]
     \/ /\ quota[t] = 1 \/ quota[t] < Cardinality(Workers)
        /\ EC!ReleaseSleeper
        /\ quota' = [quota EXCEPT ![t] = @ - 1]
  /\ pc' = [pc EXCEPT ![t] = IF quota'[t] > 0 THEN "notify"
                             ELSE IF t \in Workers THEN "run" ELSE "idle"]
  /\ UNCHANGED <<queue, job, out, unscanned, terminate, topoVars, num_topologies, main>>

-----------------------------------------------------------------------------
(* Running a Work.                                                         *)

\* Mutant: the published successors get no slot of their own.
ContinueWithoutSlots(w) ==
  LET k == job[w] IN
  /\ pc[w] = "run"
  /\ \E m \in 1..MaxReady :
       /\ works[k] + m <= MaxWorks
       /\ works' = [works EXCEPT ![k] = @ + m]
       /\ IF m = 1 THEN UNCHANGED <<pc, out, quota>> ELSE Publish(w, "run", k, m - 1)
  /\ UNCHANGED <<queue, ecVars, job, unscanned, terminate, slots, status, num_topologies, main>>

\* The Work ends and m successors are ready: the first goes on in the cache
\* with the slot of this one, the others get a slot each before they are
\* published.
Continue(w) ==
  LET k == job[w] IN
  /\ pc[w] = "run"
  /\ \E m \in 1..MaxReady :
       /\ works[k] + m <= MaxWorks
       /\ works' = [works EXCEPT ![k] = @ + m]
       /\ slots' = [slots EXCEPT ![k] = @ + m - 1]
       /\ IF m = 1 THEN UNCHANGED <<pc, out, quota>> ELSE Publish(w, "run", k, m - 1)
  /\ UNCHANGED <<queue, ecVars, job, unscanned, terminate, status, num_topologies, main>>

\* The Work ends and makes nothing ready: its slot goes back, and the last
\* slot ends the topology.
Finish(w) ==
  LET k == job[w] IN
  /\ Goto(w, "run", IF slots[k] = 1 THEN "complete" ELSE "pop")
  /\ slots' = [slots EXCEPT ![k] = @ - 1]
  /\ status' = [status EXCEPT ![k] = IF slots[k] = 1 THEN "done" ELSE @]
  /\ job' = [job EXCEPT ![w] = Nil]
  /\ UNCHANGED <<queue, ecVars, out, quota, unscanned, terminate, works, num_topologies, main>>

\* _decrement_topology: the fetch_sub, then a wake-up when it reached zero.
Decrement(w) ==
  /\ Goto(w, "complete", IF num_topologies = 1 THEN "wakeMain" ELSE "pop")
  /\ num_topologies' = num_topologies - 1
  /\ UNCHANGED <<queue, ecVars, job, out, quota, unscanned, terminate, topoVars, main>>

\* Mutant: the step to zero wakes nobody.
WakeNobody(w) ==
  /\ Goto(w, "wakeMain", "pop")
  /\ UNCHANGED <<queue, ecVars, job, out, quota, unscanned, terminate, topoVars, num_topologies,
                 main>>

WakeMain(w) ==
  /\ Goto(w, "wakeMain", "pop")
  /\ main' = IF main = "blocked" THEN "waitAll" ELSE main
  /\ UNCHANGED <<queue, ecVars, job, out, quota, unscanned, terminate, topoVars, num_topologies>>

\* The own queue first, newest Work first.
Pop(w) ==
  /\ IF queue[w] # <<>>
     THEN /\ Goto(w, "pop", "run")
          /\ job' = [job EXCEPT ![w] = queue[w][Len(queue[w])]]
          /\ queue' = [queue EXCEPT ![w] = SubSeq(@, 1, Len(@) - 1)]
     ELSE Goto(w, "pop", "explore") /\ UNCHANGED <<job, queue>>
  /\ UNCHANGED <<ecVars, out, quota, unscanned, terminate, topoVars, num_topologies, main>>

-----------------------------------------------------------------------------
(* _wait_for_work.                                                         *)

Without(s, i) == SubSeq(s, 1, i - 1) \o SubSeq(s, i + 1, Len(s))

\* A worker's queue gives its oldest Work.  A shared stack publishes and hands
\* out whole chains, so any Work in it may come next.
Steal(w) ==
  /\ Goto(w, "explore", "run")
  /\ \E q \in Queues : \E i \in 1..Len(queue[q]) :
       /\ i = 1 \/ q \in Stacks
       /\ job' = [job EXCEPT ![w] = queue[q][i]]
       /\ queue' = [queue EXCEPT ![q] = Without(@, i)]
  /\ UNCHANGED <<ecVars, out, quota, unscanned, terminate, topoVars, num_topologies, main>>

ExitExploring(w) ==
  /\ Goto(w, "explore", "exit")
  /\ terminate[w]
  /\ UNCHANGED <<queue, ecVars, job, out, quota, unscanned, terminate, topoVars,
                 num_topologies, main>>

\* Mutant: the queues are not rechecked once the ticket is drawn.
PrepareWaitNoRecheck(w) ==
  /\ Goto(w, "explore", "scan")
  /\ EC!Prepare(w)
  /\ unscanned' = [unscanned EXCEPT ![w] = {}]
  /\ UNCHANGED <<queue, job, out, quota, terminate, topoVars, num_topologies, main>>

\* Enough failed steals and yields: draw a ticket, then recheck every queue
\* but the own one, which pop left empty.
PrepareWait(w) ==
  /\ Goto(w, "explore", "scan")
  /\ EC!Prepare(w)
  /\ unscanned' = [unscanned EXCEPT ![w] = Queues \ {w}]
  /\ UNCHANGED <<queue, job, out, quota, terminate, topoVars, num_topologies, main>>

Scan(w) ==
  /\ \E q \in unscanned[w] :
       IF queue[q] = <<>>
       THEN /\ pc[w] = "scan" /\ UNCHANGED pc
            /\ unscanned' = [unscanned EXCEPT ![w] = @ \ {q}]
       ELSE /\ Goto(w, "scan", "cancel")
            /\ unscanned' = [unscanned EXCEPT ![w] = {}]
  /\ UNCHANGED <<queue, ecVars, job, out, quota, terminate, topoVars, num_topologies, main>>

\* All queues looked empty: sleep, unless told to terminate.
ScanDone(w) ==
  /\ unscanned[w] = {}
  /\ Goto(w, "scan", IF terminate[w] THEN "cancelExit" ELSE "commit")
  /\ UNCHANGED <<queue, ecVars, job, out, quota, unscanned, terminate, topoVars,
                 num_topologies, main>>

\* cancel_wait waits for its turn or finds its ticket consumed.
CancelWait(w) ==
  /\ pc[w] \in {"cancel", "cancelExit"}
  /\ \/ EC!Cancel(w)
     \/ EC!Free(w) /\ UNCHANGED ecVars
  /\ Goto(w, pc[w], IF pc[w] = "cancel" THEN "explore" ELSE "exit")
  /\ UNCHANGED <<queue, job, out, quota, unscanned, terminate, topoVars, num_topologies, main>>

CommitWait(w) ==
  /\ \/ EC!Commit(w) /\ Goto(w, "commit", "asleep")
     \/ EC!Free(w) /\ Goto(w, "commit", "explore") /\ UNCHANGED ecVars
  /\ UNCHANGED <<queue, job, out, quota, unscanned, terminate, topoVars, num_topologies, main>>

Wake(w) ==
  /\ EC!Free(w)
  /\ Goto(w, "asleep", "explore")
  /\ UNCHANGED <<queue, ecVars, job, out, quota, unscanned, terminate, topoVars,
                 num_topologies, main>>

-----------------------------------------------------------------------------
(* ~Executor: wait_for_all, terminate flags, notify_all, join.  No client  *)
(* submits any more.                                                       *)

mainVars == <<main, terminate, ecVars>>

Shutdown ==
  /\ main = "idle"
  /\ \A c \in Clients : pc[c] = "idle"
  /\ main' = "waitAll"
  /\ UNCHANGED <<terminate, ecVars>>

\* Mutant: the destructor does not wait.
WaitForNone ==
  /\ main = "waitAll"
  /\ main' = "terminate"
  /\ UNCHANGED <<terminate, ecVars>>

\* std::atomic::wait blocks on the value just read; only the step to zero
\* wakes it.
WaitForAll ==
  /\ main = "waitAll"
  /\ main' = IF num_topologies = 0 THEN "terminate" ELSE "blocked"
  /\ UNCHANGED <<terminate, ecVars>>

SetTerminate ==
  /\ main = "terminate"
  /\ \E w \in Workers : ~terminate[w] /\ terminate' = [terminate EXCEPT ![w] = TRUE]
  /\ UNCHANGED <<main, ecVars>>

NotifyTerminate ==
  /\ main = "terminate" /\ \A w \in Workers : terminate[w]
  /\ main' = "join"
  /\ \/ EC!ReleaseAll
     \/ ~EC!AnyWaiter /\ UNCHANGED ecVars
  /\ UNCHANGED terminate

Join ==
  /\ main = "join" /\ \A w \in Workers : pc[w] = "exit"
  /\ main' = "joined"
  /\ UNCHANGED <<terminate, ecVars>>

MainRuns ==
  /\ WaitForAll \/ SetTerminate \/ NotifyTerminate \/ Join
  /\ UNCHANGED <<queue, pc, job, out, quota, unscanned, topoVars, num_topologies>>

-----------------------------------------------------------------------------
PublisherRuns(t) == Push(t) \/ Notify(t)

WorkerRuns(w) ==
  \/ Finish(w) \/ Decrement(w) \/ WakeMain(w) \/ Pop(w)
  \/ ExitExploring(w) \/ PrepareWait(w) \/ Scan(w) \/ ScanDone(w)
  \/ CancelWait(w) \/ CommitWait(w) \/ Wake(w)

Next ==
  \/ \E t \in Threads : Submit(t) \/ PublisherRuns(t)
  \/ \E w \in Workers : Continue(w) \/ Steal(w) \/ WorkerRuns(w)
  \/ Shutdown /\ UNCHANGED <<queue, pc, job, out, quota, unscanned, topoVars, num_topologies>>
  \/ MainRuns

Spec == Init /\ [][Next]_vars

\* Threads run; a task ends; the random victim of a steal is not wrong for
\* ever (after a cancelled wait the first victim is the queue that was found
\* non-empty).  Submitting and forking are the program's choice.
FairSpec ==
  /\ Spec
  /\ \A t \in Threads : WF_vars(PublisherRuns(t))
  /\ \A w \in Workers : WF_vars(WorkerRuns(w)) /\ SF_vars(Steal(w))
  /\ WF_vars(MainRuns)

-----------------------------------------------------------------------------
(* Properties.                                                             *)

TypeOK ==
  /\ queue \in [Queues -> Seq(Topologies)]
  /\ EC!ECTypeOK
  /\ pc \in [Threads -> {"idle", "run", "push", "notify", "complete", "wakeMain", "pop",
                         "explore", "scan", "commit", "cancel", "cancelExit", "asleep", "exit"}]
  /\ job \in [Workers -> Topologies \cup {Nil}]
  /\ out \in [Threads -> [topology : Topologies \cup {Nil}, left : Nat]]
  /\ quota \in [Threads -> Nat]
  /\ unscanned \in [Workers -> SUBSET Queues]
  /\ terminate \in [Workers -> BOOLEAN]
  /\ slots \in [Topologies -> Nat]
  /\ works \in [Topologies -> Nat]
  /\ status \in [Topologies -> {"new", "live", "done"}]
  /\ num_topologies \in Nat
  /\ main \in {"idle", "waitAll", "blocked", "terminate", "join", "joined"}

\* The worker sleeps, or goes to sleep unless a notification stops it.
Waiting(w) == pc[w] \in {"scan", "commit", "cancelExit", "asleep"} /\ ~EC!Free(w)

\* The worker will not look at the queue again before it is notified.
PassedBy(w, q) == Waiting(w) /\ q \notin unscanned[w]

\* Somebody will still look at the queue: a worker that is not past it, or
\* one that a thread is about to notify.
Attended(q) ==
  \/ \E t \in Threads : pc[t] \in {"push", "notify"}
  \/ \E w \in Workers : pc[w] # "exit" /\ ~PassedBy(w, q)

\* No lost wake-up: until the executor shuts down, a Work is never left in a
\* queue while every worker sleeps, or is about to, and no notification is
\* coming: the recheck between prepare_wait and commit_wait and the
\* notification after a push cannot both miss.
NoLostWakeup ==
  main \in {"idle", "waitAll", "blocked"} =>
    \A q \in Queues : queue[q] # <<>> => Attended(q)

\* Slots are conserved: a topology's slots are its Works in queues, on workers
\* and about to be published, so it ends with its last Work and not before.
Queued(k) == Places(queue, Queues, k)

Running(k) == {w \in Workers : job[w] = k}

ToPublish(k) == [t \in Threads |-> IF out[t].topology = k THEN out[t].left ELSE 0]

Publishing(k) == Units(ToPublish(k), Threads)

SlotsConserved ==
  \A k \in Topologies :
    slots[k] = Cardinality(Queued(k)) + Cardinality(Running(k)) + Cardinality(Publishing(k))

\* m_num_topologies counts the topologies that are not done, and those whose
\* last Work has not reported yet.
TopologiesCounted ==
  num_topologies = Cardinality({k \in Topologies : status[k] = "live"})
                   + Cardinality({w \in Workers : pc[w] = "complete"})

\* The types, and both counters: nothing that wait_for_all waits for ends early
\* or goes uncounted.
CountersExact == TypeOK /\ SlotsConserved /\ TopologiesCounted

\* wait_for_all's return means that everything submitted is done, and no
\* worker exits over a Work.
ShutdownIsClean ==
  /\ main \in {"terminate", "join", "joined"} => \A k \in Topologies : status[k] # "live"
  /\ (\E w \in Workers : pc[w] = "exit") => \A q \in Queues : queue[q] = <<>>

\* Every submitted topology completes.
SubmittedCompletes == \A k \in Topologies : status[k] = "live" ~> status[k] = "done"

\* The destructor returns once the last topology is done.
ShutdownEnds == main = "waitAll" ~> main = "joined"
=============================================================================
