-------------------------------- MODULE Dynamic --------------------------------
(***************************************************************************)
(* Tasks that start tasks: Runtime, SubFlow, TaskGroup, coroutines, modules*)
(* and co-run, the waits between them, and the way an exception or a stop  *)
(* request takes through the tree (src/taskflowlite/core/runtime.hpp,      *)
(* subflow.hpp, task_group.hpp, coro.hpp, executor.hpp, work.hpp).         *)
(*                                                                         *)
(* One counter per Work holds this together, m_join_counter: a child takes *)
(* a slot of its parent before it is published and gives it back last.  A  *)
(* Work that children may outlive holds a base slot while its callable     *)
(* runs; whoever takes the counter from 1 to 0 goes on with the Work.      *)
(*                                                                         *)
(* A wait does not block its worker: the worker runs other Works on top of *)
(* the waiting one.  So a worker is a stack of frames, the innermost last. *)
(* The queues are one set here (WorkDeque and Scheduler say what they      *)
(* promise); graphs have no edges here (GraphRun has them), no Work has    *)
(* Semaphores (see Semaphores) or an observer, a future has no predecessor *)
(* (see AsyncTasks), and no coroutine opens a scope.                       *)
(***************************************************************************)
EXTENDS Integers, SequencesExt, FiniteSets, Invokers

CONSTANTS
  Works,
  Workers,
  Nil,
  Scenarios   \* the programs to run, see ScenarioAssumption

Deeds == {"spawn", "run", "open", "guard", "wait", "corun", "poll", "throw",
          "stop", "refuse", "fork", "join", "await"}

\* A program: the workers it has, the Works a client has launched, the
\* co-runs of clients, the kind of every Work and the parent it is created
\* with, what the callables do, the graphs that parents run, the rounds of
\* modules and clients, and what a client may ask to stop.
ASSUME ScenarioAssumption ==
  /\ Nil \notin Works
  /\ \A s \in Scenarios :
       /\ s.workers \subseteq Workers
       /\ s.roots \subseteq Works
       /\ s.stoppable \subseteq Works
       /\ s.kind \in [Works -> Kinds]
       /\ s.parent \in [Works -> Works \cup {Nil}]
       /\ s.graph \in [Works -> SUBSET Works]
       /\ s.rounds \in [Works -> Nat]
       /\ \A x \in Works :
            \A i \in DOMAIN s.body[x] : s.body[x][i].do \in Deeds

VARIABLES
  prog,
  join,        \* m_join_counter
  flags,       \* the bits of m_control and m_properties, and whether a Work
               \* is in storage, active, stopped or finished
  queue,
  stack,       \* [Workers -> Seq(frames)]
  rounds,      \* what is left of prog.rounds
  coro,        \* the Coro of a coroutine and how far its body has come
  topologies,  \* m_num_topologies
  owed         \* history: anchors below which something threw, and the wait
               \* that reports it has not returned

vars == <<prog, join, flags, queue, stack, rounds, coro, topologies, owed>>

-----------------------------------------------------------------------------
Inv(x) == Invoker[prog.kind[x]]

Path[x \in Works \cup {Nil}] ==
  IF x = Nil THEN <<>> ELSE <<x>> \o Path[prog.parent[x]]

\* The topologies of the ancestors are asked, too.
StopRequested(x) ==
  \E i \in DOMAIN Path[x] : "stopped" \in flags[Path[x][i]]

Built(x) == IF Inv(x).explicit THEN {"anchor"} ELSE {}

\* A task nobody refers to.
CreateSilent(fl, x) == [fl EXCEPT ![x] = {"stored", "active"}]

\* A task with a future, or an anchor on somebody's stack: it archives what is
\* thrown below it.
CreateAnchored(fl, x) == [fl EXCEPT ![x] = {"stored", "active", "anchor"}]

Destroy(fl, x) == [fl EXCEPT ![x] = Built(x)]

Archived == {"excepted", "caught", "archived"}

\* _set_up_graph, and the start of a round.
SetUp(fl, S) ==
  [x \in Works |-> IF x \in S THEN fl[x] \ Archived ELSE fl[x]]
Activate(fl, S) ==
  [x \in Works |-> IF x \in S THEN fl[x] \cup {"active"} ELSE fl[x]]

Idle == [resume |-> FALSE, suspended |-> FALSE, joining |-> FALSE,
         child |-> Nil, i |-> 1, done |-> FALSE, failed |-> FALSE]

Frame(x) == [work |-> x, pc |-> "enter", i |-> 1, scopes |-> <<>>,
             error |-> FALSE]
Top(k) == Last(stack[k])
X(k) == Top(k).work
At(k, pc) == stack[k] # <<>> /\ Top(k).pc = pc

SetTop(k, f) == stack' = [stack EXCEPT ![k] = Append(Front(@), f)]
Goto(k, pc) == SetTop(k, [Top(k) EXCEPT !.pc = pc])
Pop(k) == stack' = [stack EXCEPT ![k] = Front(@)]

-----------------------------------------------------------------------------
(* _process_exception and _rethrow_exception.                              *)

Anchors(fl, x) == {i \in DOMAIN Path[x] : "anchor" \in fl[Path[x][i]]}
Nearest(fl, x) == CHOOSE i \in Anchors(fl, x) : \A j \in Anchors(fl, x) : i <= j

Implicit(fl, x) ==
  \/ Inv(x).implicit = "always"
  \/ Inv(x).implicit = "running" /\ "preempted" \in fl[x]

\* The Work whose archive is tried first.
FirstChoice(fl, x) ==
  LET takers == SelectSeq(Path[x], LAMBDA y : Implicit(fl, y))
  IN  IF Anchors(fl, x) # {} THEN Path[x][Nearest(fl, x)]
      ELSE IF takers # <<>> THEN Head(takers) ELSE x

\* The way up is marked as far as the anchor.  An archive holds one
\* exception; if it is taken the thrower's own is tried.
ProcessException(fl, x) ==
  LET marked == IF Anchors(fl, x) = {} THEN ToSet(Path[x])
                ELSE ToSet(SubSeq(Path[x], 1, Nearest(fl, x)))
      first  == FirstChoice(fl, x)
      holder == IF "caught" \in fl[first] THEN x ELSE first
  IN  [y \in Works |->
         IF y = holder /\ "caught" \notin fl[y] THEN fl[y] \cup Archived
         ELSE IF y \in marked \cup {holder} THEN fl[y] \cup {"excepted"}
         ELSE fl[y]]

Throws(fl, x) ==
  /\ flags' = ProcessException(fl, x)
  /\ owed' = owed \cup IF Anchors(fl, x) = {} THEN {}
                      ELSE {Path[x][Nearest(fl, x)]}

\* Mutant: the bit that reserves the archive survives.
RethrowKeepsCaught(fl, x) == [fl EXCEPT ![x] = @ \ {"excepted", "archived"}]

Rethrow(fl, x) ==
  [fl EXCEPT ![x] = IF "archived" \in @ THEN @ \ Archived ELSE @]

-----------------------------------------------------------------------------
Init ==
  /\ prog \in Scenarios
  /\ join = [x \in Works |-> 0]
  /\ flags = [x \in Works |->
       Built(x) \cup (IF x \in prog.roots THEN {"stored", "active"}
                      ELSE IF Inv(x).tearDown = "node" THEN {"stored"}
                      ELSE {})]
  /\ queue = prog.roots
  /\ stack = [k \in Workers |-> <<>>]
  /\ rounds = prog.rounds
  /\ coro = [x \in Works |-> Idle]
  /\ topologies = Cardinality(prog.roots)
  /\ owed = {}

Group(k) == Top(k).scopes # <<>> /\ Last(Top(k).scopes) # X(k)
More(k) == Top(k).i <= Len(prog.body[X(k)])
Op(k) == prog.body[X(k)][Top(k).i]
Does(k, deed) == At(k, "body") /\ More(k) /\ Op(k).do = deed

\* The frame looks at its condition again and again, and takes other Works
\* in between; the condition may come true before the Work is taken.
Waiting(k) ==
  \/ stack[k] = <<>>
  \/ At(k, "corun") \/ Does(k, "wait") \/ Does(k, "poll")
  \/ At(k, "unwind") /\ Group(k)

Take(k) ==
  /\ Waiting(k)
  /\ \E x \in queue :
       /\ queue' = queue \ {x}
       /\ stack' = [stack EXCEPT ![k] = Append(@, Frame(x))]
  /\ UNCHANGED <<prog, join, flags, rounds, coro, topologies, owed>>

-----------------------------------------------------------------------------
(* invoke.                                                                 *)

\* The last child, or the last node of a round, has brought the Work back.
Again(k) ==
  /\ At(k, "enter") /\ "preempted" \in flags[X(k)]
  /\ Inv(X(k)).shape \in {"based", "rounds", "client"}
  /\ Goto(k, CASE Inv(X(k)).shape = "based" -> "finish"
               [] Inv(X(k)).shape = "rounds" -> "round"
               [] OTHER -> "client")
  /\ UNCHANGED <<prog, join, flags, queue, rounds, coro, topologies, owed>>

\* A join has given up the base slot, and its await_resume takes it back.
ResumeCoroutine(k) ==
  LET x == X(k) IN
  /\ At(k, "enter") /\ "preempted" \in flags[x]
  /\ Inv(x).shape = "coroutine"
  /\ IF coro[x].done
     THEN /\ Goto(k, "leave")
          /\ UNCHANGED <<join, coro>>
     ELSE /\ Goto(k, "co")
          /\ join' = [join EXCEPT ![x] = IF coro[x].joining THEN @ + 1 ELSE @]
          /\ coro' = [coro EXCEPT ![x].resume = FALSE, ![x].joining = FALSE]
  /\ UNCHANGED <<prog, flags, queue, rounds, topologies, owed>>

Skips(x) == Inv(x).stoppable /\ StopRequested(x)

\* A stop request: the slot is all the Work gives back.
Skip(k) ==
  /\ At(k, "enter") /\ "preempted" \notin flags[X(k)] /\ Skips(X(k))
  /\ flags' = [flags EXCEPT ![X(k)] = @ \ {"active"}]
  /\ Goto(k, "release")
  /\ UNCHANGED <<prog, join, queue, rounds, coro, topologies, owed>>

\* A coroutine leaves its frame for the first time as its body starts; the
\* callable that should create it may throw instead.
Begin(k) ==
  LET x == X(k)  shape == Inv(x).shape IN
  /\ At(k, "enter") /\ "preempted" \notin flags[x] /\ ~Skips(x)
  /\ ~(shape = "coroutine" /\ prog.body[x] # <<>>
         /\ prog.body[x][1].do = "refuse")
  /\ Goto(k, CASE shape = "empty" -> "finish"
               [] shape \in {"call", "based"} -> "body"
               [] shape = "coroutine" -> "co"
               [] OTHER -> "round")
  /\ join' = [join EXCEPT ![x] = IF shape \in {"based", "coroutine"}
                                 THEN @ + 1 ELSE @]
  /\ flags' = IF shape \in {"empty", "call"} THEN flags
              ELSE [SetUp(flags, IF shape = "rounds" THEN prog.graph[x] ELSE {})
                      EXCEPT ![x] = @ \cup {"preempted"}]
  /\ coro' = [coro EXCEPT ![x] = Idle]
  /\ UNCHANGED <<prog, queue, rounds, topologies, owed>>

Refuse(k) ==
  LET x == X(k) IN
  /\ At(k, "enter") /\ "preempted" \notin flags[x] /\ ~Skips(x)
  /\ Inv(x).shape = "coroutine" /\ prog.body[x] # <<>>
  /\ prog.body[x][1].do = "refuse"
  /\ Throws([flags EXCEPT ![x] = @ \cup {"preempted"}], x)
  /\ Goto(k, "finish")
  /\ UNCHANGED <<prog, join, queue, rounds, coro, topologies>>

\* AnchorWork of a client: publish the end of the co-run and wake the client.
WakeClient(k) ==
  /\ At(k, "client")
  /\ flags' = [flags EXCEPT ![X(k)] = @ \cup {"finished"}]
  /\ Pop(k)
  /\ UNCHANGED <<prog, join, queue, rounds, coro, topologies, owed>>

-----------------------------------------------------------------------------
(* What the callables do.                                                  *)

Advance(k) == SetTop(k, [Top(k) EXCEPT !.i = @ + 1, !.pc = "body"])

\* An exception leaves the callable, or the callable catches it.
Fail(k) ==
  IF Op(k).catch THEN Advance(k)
  ELSE SetTop(k, [Top(k) EXCEPT !.pc = "unwind", !.error = TRUE])

\* The child is created before the callable knows it; the kind says how.
CreatesSilent(k) ==
  /\ Does(k, "spawn") /\ Inv(Op(k).of).tearDown = "silent"
  /\ flags' = CreateSilent(flags, Op(k).of)
CreatesAsync(k) ==
  /\ Does(k, "spawn") /\ Inv(Op(k).of).tearDown = "async"
  /\ flags' = CreateAnchored(flags, Op(k).of)

Publish(k) ==
  /\ queue' = queue \cup {Op(k).of}
  /\ Advance(k)

\* Mutant: the child is published without a slot.
LaunchUncounted(k) ==
  /\ prog.parent[Op(k).of] = X(k)
  /\ Publish(k)
  /\ UNCHANGED <<prog, join, rounds, coro, topologies, owed>>

\* A Runtime launches a child: a slot of its Work first, then the
\* publication.  Nobody can tell the two apart before the publication, so
\* they are one step here and below.
Launch(k) ==
  /\ prog.parent[Op(k).of] = X(k)
  /\ join' = [join EXCEPT ![X(k)] = @ + 1]
  /\ Publish(k)
  /\ UNCHANGED <<prog, rounds, coro, topologies, owed>>

RuntimeSilentAsync(k) == CreatesSilent(k) /\ Launch(k)
RuntimeAsync(k)       == CreatesAsync(k) /\ Launch(k)

\* A TaskGroup does: the slot is one of its anchor.
LaunchInGroup(k) ==
  LET group == prog.parent[Op(k).of] IN
  /\ group # X(k) /\ group \in ToSet(Top(k).scopes)
  /\ join' = [join EXCEPT ![group] = @ + 1]
  /\ Publish(k)
  /\ UNCHANGED <<prog, rounds, coro, topologies, owed>>

GroupSilentAsync(k) == CreatesSilent(k) /\ LaunchInGroup(k)
GroupAsync(k)       == CreatesAsync(k) /\ LaunchInGroup(k)

\* The executor does: a topology of its own, which only wait_for_all waits
\* for.
LaunchTopology(k) ==
  /\ prog.parent[Op(k).of] = Nil
  /\ topologies' = topologies + 1
  /\ Publish(k)
  /\ UNCHANGED <<prog, join, rounds, coro, owed>>

ExecutorSilentAsync(k) == CreatesSilent(k) /\ LaunchTopology(k)
ExecutorAsync(k)       == CreatesAsync(k) /\ LaunchTopology(k)

\* run of a Runtime, a SubFlow or a TaskGroup: one slot for each source.
RunGraph(k) ==
  LET t == Op(k).of  S == prog.graph[t] IN
  /\ Does(k, "run")
  /\ flags' = Activate(SetUp(flags, S), S)
  /\ join' = [join EXCEPT ![t] = @ + Cardinality(S)]
  /\ queue' = queue \cup S
  /\ Advance(k)
  /\ UNCHANGED <<prog, rounds, coro, topologies, owed>>

\* A TaskGroup is constructed.
OpenGroup(k) ==
  /\ Does(k, "open")
  /\ flags' = CreateAnchored(flags, Op(k).of)
  /\ SetTop(k, [Top(k) EXCEPT !.i = @ + 1, !.scopes = Append(@, Op(k).of)])
  /\ UNCHANGED <<prog, join, queue, rounds, coro, topologies, owed>>

\* A ScopedExceptionAnchor is constructed; it owns the bit it has set.
Guard(k) ==
  LET x == X(k) IN
  /\ Does(k, "guard")
  /\ flags' = [flags EXCEPT ![x] = @ \cup {"anchor"}]
  /\ SetTop(k, [Top(k) EXCEPT !.i = @ + 1, !.scopes =
                  IF "anchor" \in flags[x] THEN @ ELSE Append(@, x)])
  /\ UNCHANGED <<prog, join, queue, rounds, coro, topologies, owed>>

StopGroup(k) ==
  /\ Does(k, "stop")
  /\ flags' = [flags EXCEPT ![Op(k).of] = @ \cup {"stopped"}]
  /\ Advance(k)
  /\ UNCHANGED <<prog, join, queue, rounds, coro, topologies, owed>>

Throw(k) ==
  /\ Does(k, "throw")
  /\ Fail(k)
  /\ UNCHANGED <<prog, join, flags, queue, rounds, coro, topologies, owed>>

\* A wait inside a callable does not count the callable's own base slot.
Settled(k) ==
  LET t == Op(k).of IN join[t] = IF t = X(k) THEN 1 ELSE 0

\* A wait, or a co-run, ends: it reports what its anchor has archived.
WaitReturns(k) ==
  LET t == Op(k).of  corun == At(k, "corun") IN
  /\ Does(k, "wait") \/ corun
  /\ Settled(k)
  /\ flags' = IF corun THEN Destroy(flags, t) ELSE Rethrow(flags, t)
  /\ owed' = owed \ {t}
  /\ IF "archived" \in flags[t] THEN Fail(k) ELSE Advance(k)
  /\ UNCHANGED <<prog, join, queue, rounds, coro, topologies>>

\* wait_until(future.is_ready)
PollReturns(k) ==
  /\ Does(k, "poll") /\ "finished" \in flags[Op(k).of]
  /\ Advance(k)
  /\ UNCHANGED <<prog, join, flags, queue, rounds, coro, topologies, owed>>

\* corun: an anchor on the stack, and the graph below it.
Corun(k) ==
  LET anchor == Op(k).of  S == prog.graph[anchor] IN
  /\ Does(k, "corun")
  /\ flags' = CreateAnchored(Activate(SetUp(flags, S), S), anchor)
  /\ join' = [join EXCEPT ![anchor] = @ + Cardinality(S)]
  /\ queue' = queue \cup S
  /\ Goto(k, "corun")
  /\ UNCHANGED <<prog, rounds, coro, topologies, owed>>

-----------------------------------------------------------------------------
(* The callable returns or is left by an exception: the scopes are closed  *)
(* from the innermost, and only then is the exception processed.           *)

Return(k) ==
  /\ At(k, "body") /\ ~More(k)
  /\ Goto(k, "unwind")
  /\ UNCHANGED <<prog, join, flags, queue, rounds, coro, topologies, owed>>

CloseGuard(k) ==
  /\ At(k, "unwind") /\ Top(k).scopes # <<>> /\ ~Group(k)
  /\ flags' = [flags EXCEPT ![X(k)] = @ \ {"anchor"}]
  /\ SetTop(k, [Top(k) EXCEPT !.scopes = Front(@)])
  /\ UNCHANGED <<prog, join, queue, rounds, coro, topologies, owed>>

\* Mutant: the group does not wait for its tasks.
CloseGroupAtOnce(k) ==
  /\ At(k, "unwind") /\ Group(k)
  /\ flags' = Destroy(flags, Last(Top(k).scopes))
  /\ owed' = owed \ {Last(Top(k).scopes)}
  /\ SetTop(k, [Top(k) EXCEPT !.scopes = Front(@)])
  /\ UNCHANGED <<prog, join, queue, rounds, coro, topologies>>

\* The destructor of a TaskGroup waits, and reports nothing.
CloseGroup(k) ==
  LET group == Last(Top(k).scopes) IN
  /\ At(k, "unwind") /\ Group(k) /\ join[group] = 0
  /\ flags' = Destroy(flags, group)
  /\ owed' = owed \ {group}
  /\ SetTop(k, [Top(k) EXCEPT !.scopes = Front(@)])
  /\ UNCHANGED <<prog, join, queue, rounds, coro, topologies>>

EndBody(k) ==
  LET x == X(k) IN
  /\ At(k, "unwind") /\ Top(k).scopes = <<>>
  /\ IF Top(k).error THEN Throws(flags, x) ELSE UNCHANGED <<flags, owed>>
  /\ Goto(k, IF Inv(x).shape = "based" THEN "leave" ELSE "finish")
  /\ UNCHANGED <<prog, join, queue, rounds, coro, topologies>>

\* Mutant: the Work is left to its children, even when there are none.
LeaveToChildren(k) ==
  /\ At(k, "leave")
  /\ join' = [join EXCEPT ![X(k)] = @ - 1]
  /\ Pop(k)
  /\ UNCHANGED <<prog, flags, queue, rounds, coro, topologies, owed>>

\* The base slot: with children left the Work is theirs to bring back.
\* Only a coroutine has kept its exception until now.
Leave(k) ==
  LET x == X(k) IN
  /\ At(k, "leave")
  /\ join' = [join EXCEPT ![x] = @ - 1]
  /\ IF join[x] # 1
     THEN Pop(k) /\ UNCHANGED <<flags, owed>>
     ELSE /\ Goto(k, "finish")
          /\ IF coro[x].failed THEN Throws(flags, x)
             ELSE UNCHANGED <<flags, owed>>
  /\ UNCHANGED <<prog, queue, rounds, coro, topologies>>

\* The end of invoke.  A silent Work destroys itself, a future's Work
\* publishes Finished, a node becomes ready for the next round.
Finish(k) ==
  LET x == X(k) IN
  /\ At(k, "finish")
  /\ flags' = CASE Inv(x).tearDown = "silent" -> Destroy(flags, x)
                [] Inv(x).tearDown = "async" ->
                     [flags EXCEPT ![x] =
                        (@ \ {"preempted", "active"}) \cup {"finished"}]
                [] OTHER -> [flags EXCEPT ![x] = @ \ {"preempted", "active"}]
  /\ Goto(k, "release")
  /\ UNCHANGED <<prog, join, queue, rounds, coro, topologies, owed>>

\* Mutant: whoever gives back the last slot runs the parent.
ReleaseRunsAnyone(k) ==
  LET p == prog.parent[X(k)] IN
  /\ At(k, "release")
  /\ IF p = Nil THEN topologies' = topologies - 1 /\ UNCHANGED join /\ Pop(k)
     ELSE /\ join' = [join EXCEPT ![p] = @ - 1]
          /\ IF join[p] = 1 THEN SetTop(k, Frame(p)) ELSE Pop(k)
          /\ UNCHANGED topologies
  /\ UNCHANGED <<prog, flags, queue, rounds, coro, owed>>

\* _schedule_parent, or the end of a topology.
Release(k) ==
  LET p == prog.parent[X(k)] IN
  /\ At(k, "release")
  /\ IF p = Nil THEN topologies' = topologies - 1 /\ UNCHANGED join /\ Pop(k)
     ELSE /\ join' = [join EXCEPT ![p] = @ - 1]
          /\ IF join[p] = 1 /\ "preempted" \in flags[p]
             THEN SetTop(k, Frame(p)) ELSE Pop(k)
          /\ UNCHANGED topologies
  /\ UNCHANGED <<prog, flags, queue, rounds, coro, owed>>

-----------------------------------------------------------------------------
(* Modules.                                                                *)

CutShort(x) ==
  prog.graph[x] = {} \/ "excepted" \in flags[x] \/ StopRequested(x)

LastRound(x) == CutShort(x) \/ rounds[x] = 0

\* The predicate that counts the rounds starts again when it has counted to
\* the end; a module that was cut short keeps what was left, for the next
\* time.  (One that runs once has no next time.)  The body of a module is its
\* callback.
EndRounds(k) ==
  LET x == X(k) IN
  /\ At(k, "round") /\ LastRound(x)
  /\ rounds' = [rounds EXCEPT ![x] = IF CutShort(x) THEN @ ELSE prog.rounds[x]]
  /\ Goto(k, IF Inv(x).callback THEN "body" ELSE "finish")
  /\ UNCHANGED <<prog, join, flags, queue, coro, topologies, owed>>

\* One source is run by this worker, the others are published.
NextRound(k) ==
  LET x == X(k)  S == prog.graph[x] IN
  /\ At(k, "round") /\ ~LastRound(x)
  /\ rounds' = [rounds EXCEPT ![x] = @ - 1]
  /\ join' = [join EXCEPT ![x] = Cardinality(S)]
  /\ flags' = Activate(flags, S)
  /\ \E c \in S :
       /\ SetTop(k, Frame(c))
       /\ queue' = queue \cup (S \ {c})
  /\ UNCHANGED <<prog, coro, topologies, owed>>

-----------------------------------------------------------------------------
(* Coroutines.                                                             *)

Awaits(k, deed) ==
  /\ At(k, "co") /\ coro[X(k)].i <= Len(prog.body[X(k)])
  /\ prog.body[X(k)][coro[X(k)].i].do = deed

Suspend(x) == [coro[x] EXCEPT !.i = @ + 1, !.resume = TRUE]

\* co_await of a fork: the child for this worker, the coroutine for the queue.
Forks(k) ==
  LET x == X(k)  y == prog.body[x][coro[x].i].of IN
  /\ Awaits(k, "fork")
  /\ join' = [join EXCEPT ![x] = @ + 1]
  /\ coro' = [coro EXCEPT ![x] = [Suspend(x) EXCEPT !.child = y]]
  /\ Goto(k, "tail")
  /\ UNCHANGED <<prog, queue, rounds, topologies, owed>>

SilentFork(k) ==
  LET y == prog.body[X(k)][coro[X(k)].i].of IN
  /\ Forks(k) /\ Inv(y).tearDown = "silent"
  /\ flags' = CreateSilent(flags, y)

Fork(k) ==
  LET y == prog.body[X(k)][coro[X(k)].i].of IN
  /\ Forks(k) /\ Inv(y).tearDown = "async"
  /\ flags' = CreateAnchored(flags, y)

\* co_await join(): with no child left it does not suspend.
Join(k) ==
  LET x == X(k) IN
  /\ Awaits(k, "join")
  /\ IF join[x] = 1
     THEN /\ coro' = [coro EXCEPT ![x].i = @ + 1]
          /\ UNCHANGED <<join, stack>>
     ELSE /\ join' = [join EXCEPT ![x] = @ - 1]
          /\ coro' = [coro EXCEPT ![x] = [Suspend(x) EXCEPT !.joining = TRUE]]
          /\ Goto(k, "tail")
  /\ UNCHANGED <<prog, flags, queue, rounds, topologies, owed>>

\* co_await of an operation of the user, who gets a token to resume with.
Await(k) ==
  LET x == X(k) IN
  /\ Awaits(k, "await")
  /\ coro' = [coro EXCEPT ![x] = [Suspend(x) EXCEPT !.suspended = TRUE]]
  /\ Goto(k, "tail")
  /\ UNCHANGED <<prog, join, flags, queue, rounds, topologies, owed>>

\* The token's resume works once for each suspension.
ResumeByToken(x) ==
  /\ coro[x].suspended
  /\ coro' = [coro EXCEPT ![x].suspended = FALSE]
  /\ queue' = queue \cup {x}
  /\ UNCHANGED <<prog, join, flags, stack, rounds, topologies, owed>>

\* final_suspend, with an exception or without.
EndCoroutine(k) ==
  LET x == X(k) IN
  /\ At(k, "co")
  /\ \/ coro[x].i > Len(prog.body[x])
     \/ Awaits(k, "throw")
  /\ coro' = [coro EXCEPT ![x].done = TRUE, ![x].failed = Awaits(k, "throw")]
  /\ Goto(k, "tail")
  /\ UNCHANGED <<prog, join, flags, queue, rounds, topologies, owed>>

\* handle.resume() has returned.
AfterResume(k) ==
  LET x == X(k) IN
  /\ At(k, "tail")
  /\ IF coro[x].child # Nil
     THEN /\ SetTop(k, Frame(coro[x].child))
          /\ queue' = queue \cup {x}
     ELSE /\ IF coro[x].done THEN Goto(k, "leave") ELSE Pop(k)
          /\ UNCHANGED queue
  /\ coro' = [coro EXCEPT ![x].child = Nil]
  /\ UNCHANGED <<prog, join, flags, rounds, topologies, owed>>

-----------------------------------------------------------------------------
(* Clients.                                                                *)

\* Executor::corun on a thread that is no worker.
ClientCorun(c) ==
  LET S == prog.graph[c] IN
  /\ prog.kind[c] = "clientAnchor" /\ "active" \notin flags[c]
  /\ rounds[c] > 0
  /\ rounds' = [rounds EXCEPT ![c] = @ - 1]
  /\ flags' = [CreateAnchored(Activate(SetUp(flags, S), S), c)
                 EXCEPT ![c] = @ \cup {"preempted"}]
  /\ join' = [join EXCEPT ![c] = @ + Cardinality(S)]
  /\ queue' = queue \cup S
  /\ UNCHANGED <<prog, stack, coro, topologies, owed>>

ClientReturns(c) ==
  /\ prog.kind[c] = "clientAnchor" /\ "finished" \in flags[c]
  /\ flags' = Destroy(flags, c)
  /\ owed' = owed \ {c}
  /\ UNCHANGED <<prog, join, queue, stack, rounds, coro, topologies>>

\* request_stop of a future.
RequestStop(x) ==
  /\ x \in prog.stoppable
  /\ "active" \in flags[x] /\ "stopped" \notin flags[x]
  /\ flags' = [flags EXCEPT ![x] = @ \cup {"stopped"}]
  /\ UNCHANGED <<prog, join, queue, stack, rounds, coro, topologies, owed>>

Step(k) ==
  \/ Take(k)
  \/ /\ stack[k] # <<>>
     /\ \/ Again(k) \/ ResumeCoroutine(k) \/ Skip(k) \/ Begin(k) \/ Refuse(k)
        \/ WakeClient(k)
        \/ RuntimeSilentAsync(k) \/ RuntimeAsync(k)
        \/ GroupSilentAsync(k) \/ GroupAsync(k)
        \/ ExecutorSilentAsync(k) \/ ExecutorAsync(k)
        \/ RunGraph(k) \/ OpenGroup(k) \/ Guard(k) \/ StopGroup(k)
        \/ Throw(k) \/ WaitReturns(k) \/ PollReturns(k) \/ Corun(k)
        \/ Return(k) \/ CloseGuard(k) \/ CloseGroup(k) \/ EndBody(k)
        \/ Leave(k) \/ Finish(k) \/ Release(k)
        \/ EndRounds(k) \/ NextRound(k)
        \/ SilentFork(k) \/ Fork(k) \/ Join(k) \/ Await(k) \/ EndCoroutine(k) \/ AfterResume(k)

ClientStep(x) == ClientCorun(x) \/ ClientReturns(x) \/ ResumeByToken(x)

Active == {x \in Works : "active" \in flags[x]}

\* wait_for_all has returned and no client is busy.
Over ==
  /\ topologies = 0 /\ Active = {}
  /\ \A c \in Works : prog.kind[c] = "clientAnchor" => rounds[c] = 0

\* The workers sleep, or look at their conditions in vain.
Quiet ==
  /\ queue = {}
  /\ \A k \in Workers : Waiting(k)
  /\ UNCHANGED vars

Next ==
  \/ \E k \in prog.workers : Step(k)
  \/ \E x \in Works : ClientStep(x) \/ RequestStop(x)
  \/ Quiet

\* A worker goes on when it can, and a client comes back for its result or
\* with its token.
Spec ==
  /\ Init /\ [][Next]_vars
  /\ \A k \in Workers : WF_vars(k \in prog.workers /\ Step(k))
  /\ \A x \in Works : WF_vars(ClientStep(x))

-----------------------------------------------------------------------------
TypeOK ==
  /\ join \in [Works -> Nat]
  /\ flags \in [Works -> SUBSET (Archived \cup {"stored", "active", "anchor",
                                   "preempted", "stopped", "finished"})]
  /\ queue \subseteq Works
  /\ owed \subseteq Works

Frames == {<<k, i>> \in Workers \X (1..Cardinality(Works)) :
             i \in DOMAIN stack[k]}
FrameAt(a) == stack[a[1]][a[2]]

\* Whatever a worker or the queue holds can still reach its parents: no
\* anchor, group or task is gone before everything below it has let go of
\* it.  (m_parent, m_topology and the join counter of the parent are
\* dereferenced without a reference count.)
NoUseAfterScope ==
  /\ \A x \in queue : \A y \in ToSet(Path[x]) : "stored" \in flags[y]
  /\ \A a \in Frames :
       LET f == FrameAt(a) IN
       \A y \in ToSet(Path[IF f.pc = "release" THEN prog.parent[f.work]
                           ELSE f.work]) : "stored" \in flags[y]

\* One invocation at a time: a Work is at most once in the queue and in the
\* frames together, and it is active.  (A coroutine may be back in the queue
\* while its invoker still returns: one worker cannot take it before.)
OneInvocation ==
  /\ \A x \in queue : "active" \in flags[x]
  /\ \A a \in Frames :
       LET f == FrameAt(a) IN
       f.pc # "tail" =>
         /\ f.work \notin queue
         /\ \A b \in Frames \ {a} : FrameAt(b).work # f.work

\* The types, and both: what runs or waits to run is there once, below parents
\* that are there too.
ScopesHold == TypeOK /\ NoUseAfterScope /\ OneInvocation

\* An exception that was thrown below an anchor is in its archive until the
\* wait that reports it has returned.
ExceptionIsKept == \A x \in owed : "archived" \in flags[x]

\* A wait that returns leaves nothing running that was started below the
\* Work or the group it waits for; a group below it has a wait of its own.
WaitEndsLast ==
  [][\A k \in Workers :
       WaitReturns(k) =>
         \A x \in Active :
           Inv(x).shape # "scope" => prog.parent[x] # Op(k).of]_vars

\* Started tasks form a tree in time, too.
ST == INSTANCE StructuredTasks
        WITH Tasks <- Works, parent <- prog.parent, live <- Active
ImplementsStructuredTasks == ST!STSpec

\* All of it ends: no cycle of waits, no slot given back too seldom.
EverythingEnds == <>Over
=============================================================================
