------------------------------- MODULE GraphRun -------------------------------
(***************************************************************************)
(* Running a static graph in rounds: the asynchronous module that owns it, *)
(* the workers that execute its nodes, and the two kinds of counter that   *)
(* hold it together (src/taskflowlite/core/executor.hpp, work_invokers.hpp)*)
(*                                                                         *)
(*   - join[n], m_join_counter of a node: the strong predecessors that     *)
(*     have not arrived; the one that takes it from 1 to 0 runs the node;  *)
(*   - slots, m_join_counter of the parent: the nodes of the round that    *)
(*     are active; the one that takes it to 0 resumes the parent.          *)
(*                                                                         *)
(* A worker hands itself one ready successor through its cache, and puts   *)
(* the others in a queue; what the queues promise is in WorkDeque and      *)
(* Scheduler, here they are one bag.  Every atomic step on a counter is an *)
(* action.  tokens and forced are history: they count arrivals exactly, as *)
(* GraphRounds does; so is begun, the nodes activated in this round.       *)
(***************************************************************************)
EXTENDS Counting, Invokers

CONSTANTS
  Nodes,
  Workers,
  Nil,
  Graphs,      \* records [nodes, succ, kind]
  Thrower,     \* the nodes whose body may throw
  MaxRounds,   \* bound: times the module's predicate says continue
  MaxJumps     \* bound: jumps taken in a round

NodeKinds ==
  {k \in Kinds : Invoker[k].tearDown = "node"
                    /\ Invoker[k].shape \in {"call", "empty"}}

\* Edges between nodes that are no jumps.
StrictEdges(g) ==
  {e \in g.nodes \X g.nodes :
     /\ e[2] \in g.succ[e[1]]
     /\ Invoker[g.kind[e[1]]].strong /\ Invoker[g.kind[e[2]]].strong}

\* No path of them closes a cycle.
HasStrictCycle(g) ==
  \E S \in (SUBSET g.nodes) \ {{}} :
    \A n \in S : \E m \in S : <<n, m>> \in StrictEdges(g)

ASSUME GraphAssumption ==
  /\ Nil \notin Nodes
  /\ Thrower \subseteq Nodes /\ {MaxRounds, MaxJumps} \subseteq Nat
  /\ \A g \in Graphs :
       /\ g.nodes \subseteq Nodes /\ IsFiniteSet(g.nodes)
       /\ g.succ \in [Nodes -> SUBSET g.nodes]
       /\ \A n \in Nodes \ g.nodes : g.succ[n] = {}
       /\ g.kind \in [Nodes -> NodeKinds]
       /\ ~HasStrictCycle(g)

VARIABLES
  graph,
  join,
  slots,
  parent,     \* "new", "preempted" or "done"
  rounds,     \* bound counter
  queue,      \* [Nodes -> Nat]: published and not yet taken
  at,         \* what each worker does
  excepted,   \* nodes with the EXCEPTION bit
  failed,     \* the parent's EXCEPTION bit
  stop,       \* the topology's STOP_REQUESTED bit
  jumps,      \* bound counter
  tokens,     \* history: arrivals on each edge, not used yet
  forced,     \* history: nodes activated without arrivals
  begun       \* history: nodes activated in this round

vars == <<graph, join, slots, parent, rounds, queue, at, excepted, failed,
          stop, jumps, tokens, forced, begun>>
history == <<tokens, forced, begun>>

-----------------------------------------------------------------------------
Inv(n) == Invoker[graph.kind[n]]
Jumps == {n \in graph.nodes : ~Inv(n).strong}
Preds(n) == {m \in graph.nodes : n \in graph.succ[m]}
StrongPreds(n) == Preds(n) \ Jumps
Sources == {n \in graph.nodes : Preds(n) = {}}

\* A weak predecessor is no part of the join, but keeps a node from being
\* a source.
JoinWeight(n) == Cardinality(StrongPreds(n))

\* What the callable of a node may select.
Selections(n) ==
  LET limit == IF n \in Jumps THEN MaxJumps - jumps ELSE Cardinality(Nodes)
  IN  {S \in SUBSET graph.succ[n] :
         /\ Cardinality(S) <= limit
         /\ CASE Inv(n).selects = "all" -> S = graph.succ[n]
              [] Inv(n).selects = "one" -> \A m, k \in S : m = k
              [] OTHER -> TRUE}

Idle == [pc |-> "idle", node |-> Nil, cache |-> Nil, todo |-> {}, ready |-> {}]
Handed(n) == [Idle EXCEPT !.pc = "invoke", !.node = n]
Goto(w, pc) == at' = [at EXCEPT ![w].pc = pc]

Init ==
  /\ graph \in Graphs
  /\ join = [n \in Nodes |-> 0]
  /\ slots = 0
  /\ parent = "new"
  /\ rounds = 0
  /\ queue = [n \in Nodes |-> 0]
  /\ at = [w \in Workers |-> Idle]
  /\ excepted = {}
  /\ failed = FALSE
  /\ stop = FALSE
  /\ jumps = 0
  /\ tokens = [e \in Nodes \X Nodes |-> 0]
  /\ forced = {}
  /\ begun = {}

RequestStop ==
  /\ ~stop /\ parent # "done"
  /\ stop' = TRUE
  /\ UNCHANGED <<graph, join, slots, parent, rounds, queue, at, excepted,
                 failed, jumps, history>>

-----------------------------------------------------------------------------
(* The parent.                                                             *)

\* First entry: _set_up_graph.  Sources keep whatever their counter holds.
Launch(w) ==
  /\ at[w].pc = "idle" /\ parent = "new"
  /\ parent' = "preempted"
  /\ join' = [n \in Nodes |-> IF n \in graph.nodes \ Sources
                              THEN JoinWeight(n) ELSE join[n]]
  /\ excepted' = {}
  /\ Goto(w, "round")
  /\ UNCHANGED <<graph, slots, rounds, queue, failed, stop, jumps, history>>

\* Nothing to start, an exception or a stop request.
LastRound == Sources = {} \/ failed \/ stop

\* The last round, or the predicate says so.
Finish(w) ==
  /\ at[w].pc = "round"
  /\ parent' = "done"
  /\ at' = [at EXCEPT ![w] = Idle]
  /\ UNCHANGED <<graph, join, slots, rounds, queue, excepted, failed, stop,
                 jumps, history>>

\* Hand out what is ready: one node to this worker, the others to the queue.
HandOut(w, c, R) ==
  at' = [at EXCEPT ![w] =
           IF R = {} THEN Handed(c)
           ELSE [Idle EXCEPT !.pc = "publish", !.cache = c, !.ready = R]]

\* Mutant: the counters a branch or a stop left behind are kept.
RoundKeepsCounters(w) ==
  /\ at[w].pc = "round"
  /\ ~LastRound /\ rounds < MaxRounds
  /\ rounds' = rounds + 1
  /\ jumps' = 0
  /\ slots' = Cardinality(Sources)
  /\ \E c \in Sources : HandOut(w, c, Sources \ {c})
  /\ tokens' = [e \in Nodes \X Nodes |-> 0]
  /\ forced' = Sources
  /\ begun' = Sources
  /\ UNCHANGED <<graph, join, parent, queue, excepted, failed, stop>>

\* The next round: reset the counters, one slot per source.
Round(w) ==
  /\ at[w].pc = "round"
  /\ ~LastRound /\ rounds < MaxRounds
  /\ rounds' = rounds + 1
  /\ jumps' = 0
  /\ join' = [n \in Nodes |-> IF n \in graph.nodes \ Sources
                              THEN JoinWeight(n) ELSE join[n]]
  /\ slots' = Cardinality(Sources)
  /\ \E c \in Sources : HandOut(w, c, Sources \ {c})
  /\ tokens' = [e \in Nodes \X Nodes |-> 0]
  /\ forced' = Sources
  /\ begun' = Sources
  /\ UNCHANGED <<graph, parent, queue, excepted, failed, stop>>

-----------------------------------------------------------------------------
(* A node: taken, run, torn down.                                          *)

Take(w) ==
  /\ at[w].pc = "idle"
  /\ \E n \in Nodes :
       /\ queue[n] > 0
       /\ queue' = [queue EXCEPT ![n] = @ - 1]
       /\ at' = [at EXCEPT ![w] = Handed(n)]
  /\ UNCHANGED <<graph, join, slots, parent, rounds, excepted, failed, stop,
                 jumps, history>>

\* A stopped node gives its slot back without running: its counter stays
\* at 0 until the next run of the graph.  A placeholder asks nobody.
Invoke(w) ==
  LET n == at[w].node IN
  /\ at[w].pc = "invoke"
  /\ Goto(w, IF stop /\ Inv(n).stoppable THEN "release" ELSE "body")
  /\ IF n \in forced
     THEN forced' = forced \ {n} /\ UNCHANGED tokens
     ELSE /\ tokens' = [e \in Nodes \X Nodes |->
                          IF e[2] = n /\ e[1] \in StrongPreds(n)
                          THEN tokens[e] - 1 ELSE tokens[e]]
          /\ UNCHANGED forced
  /\ UNCHANGED <<graph, join, slots, parent, rounds, queue, excepted, failed,
                 stop, jumps, begun>>

\* The exception marks the node and its parents.
Throw(w) ==
  LET n == at[w].node IN
  /\ at[w].pc = "body" /\ n \in Thrower /\ Inv(n).shape = "call"
  /\ excepted' = excepted \cup {n}
  /\ failed' = TRUE
  /\ join' = [join EXCEPT ![n] = @ + JoinWeight(n)]
  /\ Goto(w, "release")
  /\ UNCHANGED <<graph, slots, parent, rounds, queue, stop, jumps, history>>

\* The body returns: restore the counter, then propagate.
Complete(w) ==
  LET n == at[w].node IN
  /\ at[w].pc = "body"
  /\ join' = [join EXCEPT ![n] = @ + JoinWeight(n)]
  /\ \E S \in IF n \in excepted THEN {{}} ELSE Selections(n) :
       /\ at' = [at EXCEPT
            ![w].todo = S,
            ![w].pc = IF S = {} THEN "release"
                      ELSE IF n \in Jumps THEN "force" ELSE "arrive"]
       /\ jumps' = IF n \in Jumps THEN jumps + Cardinality(S) ELSE jumps
  /\ UNCHANGED <<graph, slots, parent, rounds, queue, excepted, failed, stop,
                 history>>

\* After the last successor: return the slot, or pass it on.
Scanned(w, cache, ready) ==
  at' = [at EXCEPT ![w] =
           IF cache = Nil THEN [Idle EXCEPT !.pc = "release", !.node = at[w].node]
           ELSE IF ready = {} THEN Handed(cache)
           ELSE [Idle EXCEPT !.pc = "addSlots", !.cache = cache, !.ready = ready]]

\* Where the scan of the successors stands after m.
Scan(w, m, isReady) ==
  LET todo  == at[w].todo \ {m}
      cache == IF isReady /\ at[w].cache = Nil THEN m ELSE at[w].cache
      ready == IF isReady /\ at[w].cache # Nil
               THEN at[w].ready \cup {m} ELSE at[w].ready
  IN  IF todo = {} THEN Scanned(w, cache, ready)
      ELSE at' = [at EXCEPT ![w].todo = todo, ![w].cache = cache,
                            ![w].ready = ready]

\* The last arrival takes the counter from 1 to 0 and has the node run.
Arrive(w) ==
  /\ at[w].pc = "arrive"
  /\ \E m \in at[w].todo :
       /\ join' = [join EXCEPT ![m] = @ - 1]
       /\ Scan(w, m, join[m] = 1)
       /\ tokens' = [tokens EXCEPT ![<<at[w].node, m>>] = @ + 1]
       /\ begun' = IF join[m] = 1 THEN begun \cup {m} ELSE begun
  /\ UNCHANGED <<graph, slots, parent, rounds, queue, excepted, failed, stop,
                 jumps, forced>>

\* A jump waits for nobody.
JumpTo(w) ==
  /\ at[w].pc = "force"
  /\ \E m \in at[w].todo :
       /\ join' = [join EXCEPT ![m] = 0]
       /\ Scan(w, m, TRUE)
       /\ tokens' = [e \in Nodes \X Nodes |-> IF e[2] = m THEN 0 ELSE tokens[e]]
       /\ forced' = forced \cup {m}
       /\ begun' = begun \cup {m}
  /\ UNCHANGED <<graph, slots, parent, rounds, queue, excepted, failed, stop,
                 jumps>>

\* Mutant: the node this worker keeps is counted again.
AddSlotForEach(w) ==
  /\ at[w].pc = "addSlots"
  /\ slots' = slots + Cardinality(at[w].ready) + 1
  /\ Goto(w, "publish")
  /\ UNCHANGED <<graph, join, parent, rounds, queue, excepted, failed, stop,
                 jumps, history>>

\* One more slot for each node but the one this worker keeps.
AddSlots(w) ==
  /\ at[w].pc = "addSlots"
  /\ slots' = slots + Cardinality(at[w].ready)
  /\ Goto(w, "publish")
  /\ UNCHANGED <<graph, join, parent, rounds, queue, excepted, failed, stop,
                 jumps, history>>

\* A push may publish the batch in pieces (queue, then shared stack).
Publish(w) ==
  /\ at[w].pc = "publish"
  /\ \E S \in (SUBSET at[w].ready) \ {{}} :
       /\ queue' = [n \in Nodes |-> IF n \in S THEN queue[n] + 1 ELSE queue[n]]
       /\ HandOut(w, at[w].cache, at[w].ready \ S)
  /\ UNCHANGED <<graph, join, slots, parent, rounds, excepted, failed, stop,
                 jumps, history>>

\* Mutant: the worker that returns the last slot goes on without the parent.
ReleaseForgetsParent(w) ==
  /\ at[w].pc = "release"
  /\ slots' = slots - 1
  /\ at' = [at EXCEPT ![w] = Idle]
  /\ UNCHANGED <<graph, join, parent, rounds, queue, excepted, failed, stop,
                 jumps, history>>

\* _schedule_parent: the last slot resumes the parent.
Release(w) ==
  /\ at[w].pc = "release"
  /\ slots' = slots - 1
  /\ at' = [at EXCEPT ![w] =
              IF slots = 1 THEN [Idle EXCEPT !.pc = "round"] ELSE Idle]
  /\ UNCHANGED <<graph, join, parent, rounds, queue, excepted, failed, stop,
                 jumps, history>>

-----------------------------------------------------------------------------
Step(w) ==
  \/ Launch(w) \/ Finish(w) \/ Round(w)
  \/ Take(w) \/ Invoke(w) \/ Throw(w) \/ Complete(w)
  \/ Arrive(w) \/ JumpTo(w) \/ AddSlots(w) \/ Publish(w) \/ Release(w)

Next == RequestStop \/ \E w \in Workers : Step(w)

Spec == Init /\ [][Next]_vars

\* A worker that can step does: it is a thread, or finds queued work.
FairSpec == Spec /\ \A w \in Workers : WF_vars(Step(w))

-----------------------------------------------------------------------------
(* Properties.                                                             *)

TypeOK ==
  /\ graph \in Graphs
  /\ join \in [Nodes -> Int]
  /\ slots \in Nat
  /\ parent \in {"new", "preempted", "done"}
  /\ rounds \in 0..MaxRounds
  /\ queue \in [Nodes -> Nat]
  /\ at \in [Workers ->
       [pc : {"idle", "round", "invoke", "body", "arrive", "force",
              "addSlots", "publish", "release"},
        node : Nodes \cup {Nil}, cache : Nodes \cup {Nil},
        todo : SUBSET Nodes, ready : SUBSET Nodes]]
  /\ excepted \subseteq Nodes
  /\ failed \in BOOLEAN /\ stop \in BOOLEAN
  /\ jumps \in 0..MaxJumps
  /\ tokens \in [Nodes \X Nodes -> Nat]
  /\ forced \subseteq Nodes /\ begun \subseteq Nodes

\* The part of slots a worker stands for: the node it has in hand, and the
\* ready ones once they are counted.
Active ==
  [w \in Workers |->
     CASE at[w].pc \in {"idle", "round"} -> 0
       [] at[w].pc = "publish" -> 1 + Cardinality(at[w].ready)
       [] OTHER -> 1]

\* The parent's counter is the number of active nodes: those in a queue and
\* those some worker runs, hands on or has counted before publishing them.
\* At 0 too early the module would end under its nodes, above it never.
SlotsConserved == slots = Total(queue, Nodes) + Total(Active, Workers)

\* The activations of n that are waiting or running.
Activations(n) ==
  queue[n] + Cardinality({w \in Workers :
    \/ at[w].pc \in {"invoke", "body"} /\ at[w].node = n
    \/ n = at[w].cache
    \/ n \in at[w].ready})

\* No node runs on two workers, or waits twice: exactly one of the arrivals
\* finds the counter at 1, and restoring it makes no second one possible.
ActiveOnce == \A n \in Nodes : Activations(n) <= 1

\* The types, and both: every active node is counted once and runs once.
ActivationsExact == TypeOK /\ SlotsConserved /\ ActiveOnce

InBody == {at[w].node : w \in {v \in Workers : at[v].pc = "body"}}

Owes == [n \in Nodes |->
           UNION {at[w].todo : w \in {v \in Workers : at[v].node = n}}]

Rounds == INSTANCE GraphRounds WITH
  phase   <- IF parent = "done" THEN "done"
             ELSE IF rounds = 0 THEN "new" ELSE "round",
  running <- InBody,
  owes    <- Owes,
  stopped <- stop,
  failed  <- excepted

\* Every activation has its cause, every cause its activation: a node runs
\* once for each complete set of arrivals and each jump to it, rounds do not
\* overlap, and none begins after a stop request or an exception.
ImplementsGraphRounds == Rounds!GRSpec

\* The restore is an addition and no store so that the arrivals a loop makes
\* early, while the node still runs, are kept: when a round has run out, no
\* node is left with an unused arrival from each predecessor.
EarlyArrivalKept ==
  \A w \in Workers : at[w].pc = "round" /\ rounds > 0 /\ ~LastRound =>
    \A n \in graph.nodes :
      StrongPreds(n) = {} \/ \E m \in StrongPreds(n) : tokens[<<m, n>>] = 0

\* A launched module comes to its end: whatever nodes branch, jump, throw or
\* are stopped, some worker returns the last slot and resumes the parent.
RunEnds == (parent = "preempted") ~> (parent = "done")
=============================================================================
